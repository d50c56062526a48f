----------------------------- MODULE RateLimiter -----------------------------
(***************************************************************************)
(* The per-IP token bucket of src/ratelimit.rs, called by several threads. *)
(*                                                                         *)
(* check reads the clock before check_at takes the mutex, so a call is two *)
(* steps: Arrive reads Instant::now(), Check is the critical section.      *)
(* Instants are whole seconds.  The variable served is history, the        *)
(* SlidingWindow's, which this limiter is shown to implement.              *)
(***************************************************************************)
EXTENDS TokenBucket, FiniteSets

CONSTANTS
    IPs,            \* client addresses
    UNSPECIFIED,    \* 0.0.0.0, the address of a request with no peer
    NoAddr,         \* an absent or unparseable X-Forwarded-For, or no peer
    NoBucket,       \* an address the map holds no bucket for
    Threads,        \* the callers of check
    Idle,           \* a thread that is not in a call
    TrustProxy,     \* trust_proxy of RateLimiter::new
    MAX_TRACKED_IPS,
    MaxTime         \* bound on the clock

ASSUME LimiterAssumption ==
    /\ TrustProxy \in BOOLEAN /\ MAX_TRACKED_IPS \in Nat /\ MaxTime \in Nat
    /\ UNSPECIFIED \in IPs /\ NoAddr \notin IPs

ASSUME BucketsAreTold ==
    /\ NoBucket \notin [tokens : Nat, last : Nat]
    /\ Idle \notin [ip : IPs, now : Nat]

VARIABLES
    clock,    \* the monotonic clock
    buckets,  \* buckets[ip]: the map's entry
    call,     \* call[th]: the address and the instant th goes on with
    served    \* what was let through, by the second of its arrival

vars == <<clock, buckets, call, served>>

\* The abstract limiter: it has no buckets, and shares the clock, the calls
\* and the account of what was let through.
Window == INSTANCE SlidingWindow
              WITH clock <- clock, call <- call, served <- served

Bucket == [tokens : 0..Capacity, last : Nat]

\* Mutant: the time a late caller goes back is taken from the bucket.
Elapsed_Signed(now, last) == now - last

\* Mutant: the time a late caller goes back refills it.
Elapsed_Apart(now, last) == IF now > last THEN now - last ELSE last - now

\* saturating_duration_since
Elapsed(now, last) == IF now > last THEN now - last ELSE 0

\* client_ip: the first forwarded hop when the proxy is trusted and the hop
\* parses, else the peer, else 0.0.0.0.
ClientIp(xff, peer) ==
    IF TrustProxy /\ xff # NoAddr THEN xff
    ELSE IF peer # NoAddr THEN peer
    ELSE UNSPECIFIED

\* Mutant: a sweep drops every bucket.
Retained_None(now) ==
    IF Cardinality({ip \in IPs : buckets[ip] # NoBucket}) > MAX_TRACKED_IPS
    THEN [ip \in IPs |-> NoBucket]
    ELSE buckets

\* What a sweep triggered at instant now leaves in the map.
Retained(now) ==
    IF Cardinality({ip \in IPs : buckets[ip] # NoBucket}) > MAX_TRACKED_IPS
    THEN [ip \in IPs |->
             IF buckets[ip] # NoBucket /\ Elapsed(now, buckets[ip].last) < IDLE_EVICT
             THEN buckets[ip] ELSE NoBucket]
    ELSE buckets

\* Mutant: a new address starts with nothing.
FreshBucket_Dry(now) == [tokens |-> 0, last |-> now]

\* or_insert
FreshBucket(now) == [tokens |-> Capacity, last |-> now]

Init ==
    /\ Window!Init
    /\ buckets = [ip \in IPs |-> NoBucket]

Tick == Window!Tick /\ UNCHANGED buckets

\* The middleware resolves the address and check reads the clock.
Arrive(th) ==
    /\ call[th] = Idle
    /\ \E xff, peer \in IPs \cup {NoAddr} :
           call' = [call EXCEPT ![th] = [ip |-> ClientIp(xff, peer), now |-> clock]]
    /\ UNCHANGED <<clock, buckets, served>>

\* The bucket of ip that check_at goes on with, after the sweep and the entry.
Entry(ip, now) ==
    IF Retained(now)[ip] = NoBucket THEN FreshBucket(now) ELSE Retained(now)[ip]

\* The entry refilled up to now.
Have(ip, now) ==
    Refilled(Entry(ip, now).tokens, Elapsed(now, Entry(ip, now).last))

\* check_at, in the mutex: last becomes now whether or not there is a token.
Check(th) ==
    /\ call[th] # Idle
    /\ LET ip   == call[th].ip
           now  == call[th].now
           take == Take(Have(ip, now))
       IN  IF Enabled
           THEN /\ buckets' = [Retained(now) EXCEPT ![ip] =
                                   [tokens |-> take.tokens, last |-> now]]
                /\ served' = IF take.allowed THEN Window!Serve(ip, now) ELSE served
           ELSE /\ served' = Window!Serve(ip, now)
                /\ UNCHANGED buckets
    /\ call' = [call EXCEPT ![th] = Idle]
    /\ UNCHANGED clock

Next == Tick \/ \E th \in Threads : Arrive(th) \/ Check(th)

Spec == Init /\ [][Next]_vars
-----------------------------------------------------------------------------
(***************************************************************************)
(* Properties.                                                             *)
(***************************************************************************)
\* Buckets hold between zero and the burst, and nothing lies in the future.
TypeOK ==
    /\ clock \in Window!Times
    /\ buckets \in [IPs -> Bucket \cup {NoBucket}]
    /\ \A ip \in IPs : buckets[ip] # NoBucket => buckets[ip].last <= clock
    /\ call \in [Threads -> Window!Call \cup {Idle}]
    /\ \A th \in Threads : call[th] # Idle => call[th].now <= clock
    /\ served \in [IPs -> [0..(MaxTime + 1) -> Nat]]

\* The contract of RateLimiter::new: per_min sustained requests per address
\* with a burst allowance.  Over any window of arrivals, what is let through
\* is at most the burst and what the window's length refills.
AdmissionBound ==
    Enabled => \A ip \in IPs : \A s \in Window!Times : \A e \in s..MaxTime :
                   Token * Window!ServedIn(ip, s, e) <= Capacity + Earned(e - s)

\* And nobody is turned away who is under the limit: a denied request would
\* have exceeded the bound over some window that ends with its arrival.
DenialIsDue ==
    [][\A th \in Threads :
          (Check(th) /\ served' = served) =>
              LET ip == call[th].ip  now == call[th].now
              IN  \E s \in 0..now :
                      Token * (Window!ServedIn(ip, s, now) + 1) > Capacity + Earned(now - s)]_vars

\* The buckets, their lazy refill and their eviction answer every request as
\* the sliding window would that remembers all arrivals.
ImplementsWindow == Window!Spec
=============================================================================
