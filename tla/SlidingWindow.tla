---------------------------- MODULE SlidingWindow ----------------------------
(***************************************************************************)
(* What RateLimiter::new promises of a limiter, without buckets: "per_min  *)
(* sustained requests/IP with a burst allowance".  A request is let        *)
(* through exactly when no window of arrivals that contains its own would  *)
(* then hold more than the burst and what the window's length refills.     *)
(*                                                                         *)
(* The variable served counts what was let through, by the second in which *)
(* the request arrived.                                                    *)
(***************************************************************************)
EXTENDS TokenBucket

CONSTANTS
    IPs,      \* client addresses
    Threads,  \* the callers
    Idle,     \* a thread that is not in a call
    MaxTime   \* bound on the clock

VARIABLES
    clock,    \* seconds
    call,     \* call[th]: the address and the instant th goes on with
    served    \* served[ip][s]: requests of ip let through, arrived at s or later

vars == <<clock, call, served>>

Times == 0..MaxTime

Call == [ip : IPs, now : Nat]

\* Requests of ip let through that arrived from s to e.
ServedIn(ip, s, e) == served[ip][s] - served[ip][e + 1]

\* Letting through a request of ip that arrived at now.
Serve(ip, now) ==
    [served EXCEPT ![ip] = [s \in 0..(MaxTime + 1) |->
                               IF s <= now THEN served[ip][s] + 1 ELSE served[ip][s]]]

\* One more request of ip at now would exceed the bound of some window.
Exceeds(ip, now) ==
    \E s \in 0..now, e \in now..MaxTime :
        Token * (ServedIn(ip, s, e) + 1) > Capacity + Earned(e - s)

Init ==
    /\ clock = 0
    /\ call = [th \in Threads |-> Idle]
    /\ served = [ip \in IPs |-> [s \in 0..(MaxTime + 1) |-> 0]]

Tick ==
    /\ clock < MaxTime
    /\ clock' = clock + 1
    /\ UNCHANGED <<call, served>>

Arrive(th) ==
    /\ call[th] = Idle
    /\ \E ip \in IPs : call' = [call EXCEPT ![th] = [ip |-> ip, now |-> clock]]
    /\ UNCHANGED <<clock, served>>

Admit(th) ==
    /\ call[th] # Idle
    /\ Enabled => ~Exceeds(call[th].ip, call[th].now)
    /\ served' = Serve(call[th].ip, call[th].now)
    /\ call' = [call EXCEPT ![th] = Idle]
    /\ UNCHANGED clock

Refuse(th) ==
    /\ call[th] # Idle
    /\ Enabled /\ Exceeds(call[th].ip, call[th].now)
    /\ call' = [call EXCEPT ![th] = Idle]
    /\ UNCHANGED <<clock, served>>

Next == Tick \/ \E th \in Threads : Arrive(th) \/ Admit(th) \/ Refuse(th)

Spec == Init /\ [][Next]_vars
=============================================================================
