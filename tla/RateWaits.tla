------------------------------ MODULE RateWaits ------------------------------
(***************************************************************************)
(* The limiter of RateLimiter with the account its concurrent callers can  *)
(* keep: of each address, what was let through and how long its calls had  *)
(* waited for the mutex, by the second in which check_at ran.              *)
(*                                                                         *)
(* The account is history: each action is the limiter's, and adds to it.   *)
(***************************************************************************)
EXTENDS RateLimiter

VARIABLES
    passed,  \* passed[ip][s]: requests of ip let through at s or later
    waited   \* waited[ip][s]: seconds calls of ip answered at s or later had waited

waitVars == <<clock, buckets, call, served, passed, waited>>

\* What a call that th is about to make is answered.
Allowed(th) == Enabled => Take(Have(call[th].ip, call[th].now)).allowed

\* The account with n more for address ip, in the current second.
Booked(account, ip, n) ==
    [account EXCEPT ![ip] = [s \in Window!Times |->
                                IF s <= clock THEN account[ip][s] + n ELSE account[ip][s]]]

WaitInit ==
    /\ Init
    /\ passed = [ip \in IPs |-> [s \in Window!Times |-> 0]]
    /\ waited = [ip \in IPs |-> [s \in Window!Times |-> 0]]

WaitCheck(th) ==
    /\ Check(th)
    /\ passed' = Booked(passed, call[th].ip, IF Allowed(th) THEN 1 ELSE 0)
    /\ waited' = Booked(waited, call[th].ip, clock - call[th].now)

WaitNext ==
    \/ Tick /\ UNCHANGED <<passed, waited>>
    \/ \E th \in Threads : \/ Arrive(th) /\ UNCHANGED <<passed, waited>>
                           \/ WaitCheck(th)

WaitSpec == WaitInit /\ [][WaitNext]_waitVars
-----------------------------------------------------------------------------
(***************************************************************************)
(* Properties.                                                             *)
(***************************************************************************)
\* What RateLimiter::check keeps of its contract however many threads call it:
\* since any second, what was let through is at most the burst and what that
\* time refills, and the time its callers waited refills as well, because
\* check_at moves a bucket's last back to the arrival of a late caller.
WaitsAreTheSlack ==
    Enabled => \A ip \in IPs : \A s \in 0..clock :
                   Token * passed[ip][s] <= Capacity + Earned((clock - s) + waited[ip][s])

\* And no caller is turned away for another's lateness: when check_at denies a
\* request, then since some second up to its arrival the address was let
\* through all that the burst and the time up to the arrival are worth.
LateDenialIsDue ==
    [][\A th \in Threads :
          (WaitCheck(th) /\ ~Allowed(th)) =>
              LET ip == call[th].ip  now == call[th].now
              IN  \E s \in 0..now :
                      Token * (passed[ip][s] + 1) > Capacity + Earned(now - s)]_waitVars
=============================================================================
