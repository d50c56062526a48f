----------------------------- MODULE RatePolling -----------------------------
(***************************************************************************)
(* The limiter of src/ratelimit.rs over unbounded time: does an address    *)
(* that keeps calling keep being let through?                              *)
(*                                                                         *)
(* check_at uses instants only through their differences, so an entry and  *)
(* a call carry an age, the seconds since their instant.  An entry's age   *)
(* stops at MaxAge, beyond which it would be evicted or refilled entirely  *)
(* all the same; no call waits for the mutex longer than MaxWait.          *)
(***************************************************************************)
EXTENDS TokenBucket, FiniteSets

CONSTANTS
    IPs,            \* client addresses
    NoBucket,       \* an address the map holds no bucket for
    Threads,        \* the callers of check
    Idle,           \* a thread that is not in a call
    MAX_TRACKED_IPS,
    MaxWait,        \* bound on the age of a call
    MaxAge          \* bound on the age of an entry

ASSUME AgesSuffice ==
    /\ MAX_TRACKED_IPS \in Nat /\ MaxWait \in Nat /\ MaxAge \in Nat
    /\ Enabled
    /\ MaxAge >= MaxWait + IDLE_EVICT
    /\ Earned(MaxAge - MaxWait) >= Capacity

VARIABLES
    entries,  \* entries[ip]: the map's entry
    calls     \* calls[th]: the address th asks for, since when

vars == <<entries, calls>>

\* saturating_duration_since, from the entry's instant to the call's.
Between(entryAge, callAge) == IF entryAge > callAge THEN entryAge - callAge ELSE 0

Older(age) == IF age < MaxAge THEN age + 1 ELSE MaxAge

Init ==
    /\ entries = [ip \in IPs |-> NoBucket]
    /\ calls = [th \in Threads |-> Idle]

\* A second passes.
Tick ==
    /\ \A th \in Threads : calls[th] # Idle => calls[th].age < MaxWait
    /\ entries' = [ip \in IPs |->
           IF entries[ip] = NoBucket THEN NoBucket
           ELSE [entries[ip] EXCEPT !.age = Older(@)]]
    /\ calls' = [th \in Threads |->
           IF calls[th] = Idle THEN Idle ELSE [calls[th] EXCEPT !.age = @ + 1]]

\* check reads the clock.
Arrive(th) ==
    /\ calls[th] = Idle
    /\ \E ip \in IPs : calls' = [calls EXCEPT ![th] = [ip |-> ip, age |-> 0]]
    /\ UNCHANGED entries

\* What a sweep by a call of that age leaves in the map.
Retained(age) ==
    IF Cardinality({ip \in IPs : entries[ip] # NoBucket}) > MAX_TRACKED_IPS
    THEN [ip \in IPs |->
             IF entries[ip] # NoBucket /\ Between(entries[ip].age, age) < IDLE_EVICT
             THEN entries[ip] ELSE NoBucket]
    ELSE entries

\* The tokens of ip, refilled up to the instant of a call of that age.
Have(ip, age) ==
    LET b == Retained(age)[ip]
    IN  IF b = NoBucket THEN Capacity ELSE Refilled(b.tokens, Between(b.age, age))

Verdict(th) == Take(Have(calls[th].ip, calls[th].age))

\* check_at, in the mutex.
Check(th) ==
    /\ calls[th] # Idle
    /\ entries' = [Retained(calls[th].age) EXCEPT ![calls[th].ip] =
                      [tokens |-> Verdict(th).tokens, age |-> calls[th].age]]
    /\ calls' = [calls EXCEPT ![th] = Idle]

Next == Tick \/ \E th \in Threads : Arrive(th) \/ Check(th)

\* Time passes, and a thread in check_at gets the mutex: nothing blocks or
\* fails while it is held.  Nobody has to call.
Fairness == WF_vars(Tick) /\ \A th \in Threads : WF_vars(Check(th))

Spec == Init /\ [][Next]_vars /\ Fairness
-----------------------------------------------------------------------------
(***************************************************************************)
(* Properties.                                                             *)
(***************************************************************************)
\* check_at keeps every bucket between zero and the burst, with the instants
\* of two callers in either order.
TypeOK ==
    /\ entries \in [IPs -> [tokens : 0..Capacity, age : 0..MaxAge] \cup {NoBucket}]
    /\ calls \in [Threads -> [ip : IPs, age : 0..MaxWait] \cup {Idle}]

Calls(ip) == \E th \in Threads : Check(th) /\ calls[th].ip = ip
Served(ip) == \E th \in Threads : Check(th) /\ calls[th].ip = ip /\ Verdict(th).allowed

\* A denied call moves last too (ratelimit.rs:96).  It must not cost what was
\* earned since: an address that never stops calling, however often, is let
\* through again and again.
PollersAreServed ==
    \A ip \in IPs : []<><<Calls(ip)>>_vars => []<><<Served(ip)>>_vars
=============================================================================
