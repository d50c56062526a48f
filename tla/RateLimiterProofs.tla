-------------------------- MODULE RateLimiterProofs --------------------------
(***************************************************************************)
(* Proofs about RateLimiter, for every rate, burst, address set and bound  *)
(* on the clock.  Type correctness holds with any number of callers.  With *)
(* one caller at a time and an eviction after the full refill, the limiter *)
(* implements the sliding window, and so keeps its bound.                  *)
(***************************************************************************)
EXTENDS RateWaits, TLAPS

USE RateAssumption, LimiterAssumption, BucketsAreTold

-----------------------------------------------------------------------------
(***************************************************************************)
(* Arithmetic of the refill.                                               *)
(***************************************************************************)
LEMMA CapacityType == Capacity \in Nat /\ Capacity >= Token
BY DEF Capacity, Token

LEMMA EarnedType == \A d \in Nat : Earned(d) \in Nat
BY DEF Earned

LEMMA EarnedAdds == \A d, e \in Nat : Earned(d + e) = Earned(d) + Earned(e)
BY DEF Earned

LEMMA EarnedGrows == \A d, e \in Nat : d <= e => Earned(d) <= Earned(e)
<1> SUFFICES ASSUME NEW d \in Nat, NEW e \in Nat, d <= e PROVE Earned(d) <= Earned(e)
    OBVIOUS
<1>1. e - d \in Nat /\ e = d + (e - d)
    OBVIOUS
<1>2. Earned(e) = Earned(d) + Earned(e - d)
    BY <1>1, EarnedAdds
<1> QED
    BY <1>1, <1>2, EarnedType

LEMMA RefilledType ==
    \A tokens \in 0..Capacity, d \in Nat :
        /\ Refilled(tokens, d) \in 0..Capacity
        /\ Refilled(tokens, d) <= tokens + Earned(d)
        /\ Refilled(tokens, d) = Capacity \/ Refilled(tokens, d) = tokens + Earned(d)
BY CapacityType, EarnedType DEF Refilled

LEMMA TakeType ==
    \A have \in 0..Capacity :
        /\ Take(have).tokens \in 0..Capacity
        /\ Take(have).allowed <=> have >= Token
<1> SUFFICES ASSUME NEW have \in 0..Capacity
             PROVE  /\ Take(have).tokens \in 0..Capacity
                    /\ Take(have).allowed <=> have >= Token
    OBVIOUS
<1>1. Take(have).allowed <=> have >= Token
    BY DEF Take
<1>2. Take(have).tokens = IF have >= Token THEN have - Token ELSE have
    BY DEF Take
<1> QED
    BY <1>1, <1>2, CapacityType DEF Token

\* Windows that end at n.
LEMMA WindowType ==
    ASSUME NEW n \in Nat, NEW s \in 0..n
    PROVE  n - s \in Nat /\ Earned(n - s) \in Nat
<1>1. n - s \in Nat
    OBVIOUS
<1> QED
    BY <1>1, EarnedType

LEMMA ElapsedType == \A n, m \in Nat : Elapsed(n, m) \in Nat
BY DEF Elapsed

-----------------------------------------------------------------------------
(***************************************************************************)
(* Types, with any number of callers.                                      *)
(***************************************************************************)
LEMMA ClientIpType == \A xff, peer \in IPs \cup {NoAddr} : ClientIp(xff, peer) \in IPs
BY DEF ClientIp

LEMMA RetainedType ==
    ASSUME buckets \in [IPs -> Bucket \cup {NoBucket}], NEW now
    PROVE  /\ Retained(now) \in [IPs -> Bucket \cup {NoBucket}]
           /\ \A ip \in IPs : Retained(now)[ip] \in {buckets[ip], NoBucket}
BY DEF Retained

LEMMA BucketNotNone == NoBucket \notin Bucket
BY CapacityType DEF Bucket

LEMMA EntryType ==
    ASSUME buckets \in [IPs -> Bucket \cup {NoBucket}],
           NEW ip \in IPs, NEW now \in Nat
    PROVE  Entry(ip, now) \in Bucket /\ Have(ip, now) \in 0..Capacity
<1>1. FreshBucket(now) \in Bucket
    BY CapacityType DEF FreshBucket, Bucket
<1>2. Entry(ip, now) \in Bucket
    BY <1>1, RetainedType DEF Entry
<1>3. Entry(ip, now).tokens \in 0..Capacity /\ Elapsed(now, Entry(ip, now).last) \in Nat
    BY <1>2, ElapsedType DEF Bucket
<1> QED
    BY <1>2, <1>3, RefilledType DEF Have

LEMMA ServeType ==
    ASSUME served \in [IPs -> [0..(MaxTime + 1) -> Nat]],
           NEW ip \in IPs, NEW now \in Nat
    PROVE  Window!Serve(ip, now) \in [IPs -> [0..(MaxTime + 1) -> Nat]]
BY DEF Window!Serve

LEMMA TypeInit == Init => TypeOK
BY DEF Init, TypeOK, Window!Init, Window!Times

LEMMA TypeNext == TypeOK /\ [Next]_vars => TypeOK'
<1> SUFFICES ASSUME TypeOK, [Next]_vars PROVE TypeOK'
    OBVIOUS
<1> USE DEF TypeOK, Window!Times, Window!Call
<1>1. CASE Tick
    BY <1>1 DEF Tick, Window!Tick, Bucket
<1>2. ASSUME NEW th \in Threads, Arrive(th) PROVE TypeOK'
    <2>1. PICK xff \in IPs \cup {NoAddr}, peer \in IPs \cup {NoAddr} :
              call' = [call EXCEPT ![th] = [ip |-> ClientIp(xff, peer), now |-> clock]]
        BY <1>2 DEF Arrive
    <2>2. ClientIp(xff, peer) \in IPs
        BY ClientIpType
    <2>3. call' \in [Threads -> [ip : IPs, now : Nat] \cup {Idle}]
        BY <2>1, <2>2
    <2>4. \A t \in Threads : call'[t] # Idle => call'[t].now <= clock
        BY <2>1, <2>2
    <2> QED
        BY <1>2, <2>3, <2>4 DEF Arrive
<1>3. ASSUME NEW th \in Threads, Check(th) PROVE TypeOK'
    <2> DEFINE ip == call[th].ip
               now == call[th].now
    <2>1. call[th] # Idle /\ ip \in IPs /\ now \in Nat /\ now <= clock
        BY <1>3 DEF Check
    <2>2. call' \in [Threads -> [ip : IPs, now : Nat] \cup {Idle}]
          /\ \A t \in Threads : call'[t] # Idle => call'[t] = call[t]
        BY <1>3 DEF Check
    <2>3. served' \in [IPs -> [0..(MaxTime + 1) -> Nat]]
        <3>1. Window!Serve(ip, now) \in [IPs -> [0..(MaxTime + 1) -> Nat]]
            BY <2>1, ServeType
        <3>2. served' \in {served, Window!Serve(ip, now)}
            BY <1>3 DEF Check
        <3> QED
            BY <3>1, <3>2
    <2>4. CASE ~Enabled
        BY <1>3, <2>2, <2>3, <2>4 DEF Check
    <2>5. CASE Enabled
        <3>1. Take(Have(ip, now)).tokens \in 0..Capacity
            BY <2>1, EntryType, TakeType
        <3>2. buckets' = [Retained(now) EXCEPT ![ip] =
                             [tokens |-> Take(Have(ip, now)).tokens, last |-> now]]
            BY <1>3, <2>5 DEF Check
        <3>3. buckets' \in [IPs -> Bucket \cup {NoBucket}]
            BY <2>1, <3>1, <3>2, RetainedType DEF Bucket
        <3>4. ASSUME NEW i \in IPs, buckets'[i] # NoBucket PROVE buckets'[i].last <= clock
            <4>1. CASE i = ip
                BY <2>1, <3>2, <4>1, RetainedType
            <4>2. CASE i # ip
                BY <3>2, <3>4, <4>2, RetainedType
            <4> QED
                BY <4>1, <4>2
        <3> QED
            BY <1>3, <2>2, <2>3, <3>3, <3>4 DEF Check
    <2> QED
        BY <2>4, <2>5
<1>4. CASE UNCHANGED vars
    BY <1>4 DEF vars
<1> QED
    BY <1>1, <1>2, <1>3, <1>4 DEF Next

\* RateLimiter: buckets hold between zero and the burst, and no entry or call
\* lies in the future, however many threads call check.
THEOREM TypeCorrect == Spec => []TypeOK
BY TypeInit, TypeNext, PTL DEF Spec

-----------------------------------------------------------------------------
(***************************************************************************)
(* What a bucket knows.  Of the history f of one address, tokens at the    *)
(* instant n are exactly what the fullest window that ends at n leaves:    *)
(* no window leaves less, and one leaves no more.                          *)
(***************************************************************************)
Histories == [0..(MaxTime + 1) -> Nat]

Metered(f, tokens, n) ==
    /\ \A s \in 0..n : Token * f[s] + tokens <= Capacity + Earned(n - s)
    /\ \E s \in 0..n : Token * f[s] + tokens >= Capacity + Earned(n - s)
    /\ \A s \in 0..(MaxTime + 1) : s > n => f[s] = 0

LEMMA MeterAdvances ==
    ASSUME NEW f \in Histories, NEW tokens \in 0..Capacity,
           NEW n \in 0..MaxTime, NEW m \in 0..MaxTime, n <= m, Metered(f, tokens, n)
    PROVE  Metered(f, Refilled(tokens, m - n), m)
<1> DEFINE have == Refilled(tokens, m - n)
<1>1. /\ m - n \in Nat
      /\ have \in 0..Capacity /\ have <= tokens + Earned(m - n)
      /\ have = Capacity \/ have = tokens + Earned(m - n)
    <2>1. m - n \in Nat
        OBVIOUS
    <2> QED
        BY <2>1, RefilledType
<1>2. \A s \in 0..n : Earned(m - s) = Earned(n - s) + Earned(m - n)
    <2> SUFFICES ASSUME NEW s \in 0..n PROVE Earned(m - s) = Earned(n - s) + Earned(m - n)
        OBVIOUS
    <2>1. n - s \in Nat /\ m - s = (n - s) + (m - n)
        OBVIOUS
    <2> QED
        BY <1>1, <2>1, EarnedAdds
<1>3. \A s \in 0..m : f[s] \in Nat /\ Earned(m - s) \in Nat
    BY WindowType DEF Histories
<1>4. ASSUME NEW s \in 0..m PROVE Token * f[s] + have <= Capacity + Earned(m - s)
    <2>1. CASE s <= n
        <3>1. /\ Token * f[s] + tokens <= Capacity + Earned(n - s)
              /\ Earned(n - s) \in Nat /\ Earned(m - n) \in Nat
            BY <2>1, <1>1, EarnedType DEF Metered
        <3> QED
            BY <1>1, <1>2, <1>3, <2>1, <3>1, CapacityType DEF Token
    <2>2. CASE s > n
        <3>1. f[s] = 0
            BY <2>2 DEF Metered
        <3> QED
            BY <1>1, <1>3, <3>1, CapacityType DEF Token
    <2> QED
        BY <2>1, <2>2
<1>5. \E s \in 0..m : Token * f[s] + have >= Capacity + Earned(m - s)
    <2>1. CASE have = Capacity
        <3>1. m \in 0..m /\ Earned(m - m) = 0
            BY DEF Earned
        <3> QED
            BY <1>3, <2>1, <3>1, CapacityType DEF Token
    <2>2. CASE have = tokens + Earned(m - n)
        <3>1. PICK s \in 0..n : Token * f[s] + tokens >= Capacity + Earned(n - s)
            BY DEF Metered
        <3>2. s \in 0..m /\ Earned(n - s) \in Nat /\ Earned(m - n) \in Nat
            BY <1>1, EarnedType
        <3>3. Token * f[s] + have >= Capacity + Earned(m - s)
            BY <1>2, <1>3, <2>2, <3>1, <3>2, CapacityType DEF Token
        <3> QED
            BY <3>2, <3>3
    <2> QED
        BY <1>1, <2>1, <2>2
<1>6. \A s \in 0..(MaxTime + 1) : s > m => f[s] = 0
    BY DEF Metered
<1> QED
    BY <1>4, <1>5, <1>6 DEF Metered

LEMMA MeterTakes ==
    ASSUME NEW f \in Histories, NEW g \in Histories, NEW have \in 0..Capacity,
           NEW n \in 0..MaxTime, have >= Token, Metered(f, have, n),
           \A s \in 0..(MaxTime + 1) : g[s] = IF s <= n THEN f[s] + 1 ELSE f[s]
    PROVE  Metered(g, have - Token, n)
<1>1. \A s \in 0..n : f[s] \in Nat /\ g[s] = f[s] + 1
    BY DEF Histories
<1>2. \A s \in 0..n : Token * g[s] + (have - Token) = Token * f[s] + have
    BY <1>1, CapacityType DEF Token
<1>3. \A s \in 0..(MaxTime + 1) : s > n => g[s] = 0
    BY DEF Metered
<1> QED
    BY <1>2, <1>3 DEF Metered

LEMMA MeterAdmits ==
    ASSUME NEW f \in Histories, NEW have \in 0..Capacity, NEW n \in 0..MaxTime,
           have >= Token, Metered(f, have, n), NEW s \in 0..n, NEW e \in n..MaxTime
    PROVE  Token * ((f[s] - f[e + 1]) + 1) <= Capacity + Earned(e - s)
<1>1. f[s] \in Nat /\ f[e + 1] = 0
    BY DEF Metered, Histories
<1>2. Earned(n - s) \in Nat /\ Earned(e - s) \in Nat /\ Earned(n - s) <= Earned(e - s)
    BY EarnedType, EarnedGrows
<1>3. Token * f[s] + have <= Capacity + Earned(n - s)
    BY DEF Metered
<1> QED
    BY <1>1, <1>2, <1>3, CapacityType DEF Token

LEMMA MeterRefuses ==
    ASSUME NEW f \in Histories, NEW have \in 0..Capacity, NEW n \in 0..MaxTime,
           have < Token, Metered(f, have, n)
    PROVE  \E s \in 0..n : Token * ((f[s] - f[n + 1]) + 1) > Capacity + Earned(n - s)
<1>1. PICK s \in 0..n : Token * f[s] + have >= Capacity + Earned(n - s)
    BY DEF Metered
<1>2. f[s] \in Nat /\ f[n + 1] = 0
    BY DEF Metered, Histories
<1>3. n - s \in Nat /\ Earned(n - s) \in Nat
    BY WindowType
<1>4. Token * ((f[s] - f[n + 1]) + 1) > Capacity + Earned(n - s)
    BY <1>1, <1>2, <1>3, CapacityType DEF Token
<1> QED
    BY <1>4

-----------------------------------------------------------------------------
(***************************************************************************)
(* One caller t.  Every entry meters its address at the instant of the     *)
(* last call, and an address without one is worth a full bucket at the     *)
(* instant a next call can carry.                                          *)
(***************************************************************************)
Now(t) == IF call[t] = Idle THEN clock ELSE call[t].now

MetersHold(t) ==
    \A ip \in IPs :
        IF buckets[ip] = NoBucket
        THEN Metered(served[ip], Capacity, Now(t))
        ELSE buckets[ip].last <= Now(t) /\ Metered(served[ip], buckets[ip].tokens, buckets[ip].last)

LEMMA FullStaysFull ==
    ASSUME NEW f \in Histories, NEW n \in 0..MaxTime, NEW m \in 0..MaxTime, n <= m,
           Metered(f, Capacity, n)
    PROVE  Metered(f, Capacity, m)
<1>1. Capacity \in 0..Capacity /\ m - n \in Nat
    BY CapacityType
<1>2. Refilled(Capacity, m - n) = Capacity
    BY <1>1, CapacityType, EarnedType DEF Refilled
<1> QED
    BY <1>1, <1>2, MeterAdvances

LEMMA EvictedWasFull ==
    ASSUME EvictionIsSafe, NEW f \in Histories, NEW tokens \in 0..Capacity,
           NEW n \in 0..MaxTime, NEW m \in 0..MaxTime, n <= m,
           Elapsed(m, n) >= IDLE_EVICT, Metered(f, tokens, n)
    PROVE  Metered(f, Capacity, m)
<1>1. m - n \in Nat /\ m - n >= IDLE_EVICT
    BY DEF Elapsed
<1>2. Earned(m - n) \in Nat /\ Earned(m - n) >= Capacity
    BY <1>1, EarnedType, EarnedGrows, CapacityType DEF EvictionIsSafe
<1>3. Refilled(tokens, m - n) = Capacity
    BY <1>2, CapacityType DEF Refilled
<1> QED
    BY <1>3, MeterAdvances

\* What the caller sees: after the sweep every address is metered at the
\* call's instant, evicted or not, and the refill of its own entry too.
LEMMA SweepKeepsMeters ==
    ASSUME NEW t \in Threads, EvictionIsSafe, TypeOK, MetersHold(t), call[t] # Idle,
           NEW ip \in IPs
    PROVE  LET now == call[t].now
               kept == Retained(now)[ip]
           IN  IF kept = NoBucket
               THEN Metered(served[ip], Capacity, now)
               ELSE kept = buckets[ip]
<1> DEFINE now == call[t].now
<1>1. now \in 0..MaxTime /\ served[ip] \in Histories /\ Now(t) = now
    BY DEF TypeOK, Window!Times, Window!Call, Histories, Now
<1>2. CASE buckets[ip] = NoBucket
    BY <1>1, <1>2, RetainedType DEF TypeOK, MetersHold
<1>3. CASE buckets[ip] # NoBucket /\ Retained(now)[ip] = NoBucket
    <2>1. Elapsed(now, buckets[ip].last) >= IDLE_EVICT
        <3>1. ~(Elapsed(now, buckets[ip].last) < IDLE_EVICT)
            BY <1>3 DEF Retained
        <3>2. buckets[ip].last \in Nat
            BY <1>3 DEF TypeOK, Bucket
        <3>3. Elapsed(now, buckets[ip].last) \in Nat
            BY <1>1, <3>2 DEF Elapsed
        <3> QED
            BY <3>1, <3>3
    <2>2. /\ buckets[ip].tokens \in 0..Capacity
          /\ buckets[ip].last \in 0..MaxTime /\ buckets[ip].last <= now
          /\ Metered(served[ip], buckets[ip].tokens, buckets[ip].last)
        BY <1>1, <1>3 DEF TypeOK, MetersHold, Bucket, Window!Times
    <2> QED
        BY <1>1, <1>3, <2>1, <2>2, EvictedWasFull
<1>4. CASE Retained(now)[ip] # NoBucket
    BY <1>4, RetainedType DEF TypeOK
<1> QED
    BY <1>2, <1>3, <1>4

LEMMA HaveIsMetered ==
    ASSUME NEW t \in Threads, EvictionIsSafe, TypeOK, MetersHold(t), call[t] # Idle
    PROVE  LET ip == call[t].ip  now == call[t].now
           IN  Have(ip, now) \in 0..Capacity /\ Metered(served[ip], Have(ip, now), now)
<1> DEFINE ip == call[t].ip
           now == call[t].now
<1>1. /\ ip \in IPs /\ now \in 0..MaxTime /\ served[ip] \in Histories /\ Now(t) = now
      /\ buckets \in [IPs -> Bucket \cup {NoBucket}]
    BY DEF TypeOK, Window!Times, Window!Call, Histories, Now
<1>2. Have(ip, now) \in 0..Capacity
    BY <1>1, EntryType
<1>3. CASE Retained(now)[ip] = NoBucket
    <2>1. Metered(served[ip], Capacity, now)
        BY <1>1, <1>3, SweepKeepsMeters
    <2>2. Entry(ip, now).tokens = Capacity /\ Entry(ip, now).last = now
        BY <1>3 DEF Entry, FreshBucket
    <2>3. Elapsed(now, now) = now - now /\ Capacity \in 0..Capacity
        BY <1>1, CapacityType DEF Elapsed
    <2> QED
        BY <1>1, <1>2, <2>1, <2>2, <2>3, MeterAdvances DEF Have
<1>4. CASE Retained(now)[ip] # NoBucket
    <2>1. Entry(ip, now) = buckets[ip] /\ buckets[ip] # NoBucket
        BY <1>1, <1>4, SweepKeepsMeters DEF Entry
    <2>2. /\ buckets[ip].tokens \in 0..Capacity
          /\ buckets[ip].last \in 0..MaxTime /\ buckets[ip].last <= now
          /\ Metered(served[ip], buckets[ip].tokens, buckets[ip].last)
        BY <1>1, <2>1 DEF TypeOK, MetersHold, Bucket, Window!Times
    <2>3. Elapsed(now, buckets[ip].last) = now - buckets[ip].last
        BY <1>1, <2>2 DEF Elapsed
    <2> QED
        BY <1>1, <1>2, <2>1, <2>2, <2>3, MeterAdvances DEF Have
<1> QED
    BY <1>3, <1>4

LEMMA MetersInit ==
    ASSUME NEW t \in Threads, Init
    PROVE  MetersHold(t)
<1>1. /\ clock = 0 /\ call[t] = Idle /\ Now(t) = 0
      /\ \A ip \in IPs : buckets[ip] = NoBucket
      /\ \A ip \in IPs : served[ip] = [s \in 0..(MaxTime + 1) |-> 0]
    BY DEF Init, Window!Init, Now
<1>2. Metered([s \in 0..(MaxTime + 1) |-> 0], Capacity, 0)
    <2> DEFINE f == [s \in 0..(MaxTime + 1) |-> 0]
    <2>1. /\ 0 \in 0..0 /\ 0 - 0 = 0 /\ Earned(0) = 0
          /\ \A s \in 0..0 : s = 0
          /\ \A s \in 0..(MaxTime + 1) : f[s] = 0
          /\ 0 \in 0..(MaxTime + 1)
        BY DEF Earned
    <2> QED
        BY <2>1, CapacityType DEF Metered, Token
<1> QED
    BY <1>1, <1>2 DEF MetersHold

LEMMA MetersStep ==
    ASSUME NEW t, Threads = {t}, EvictionIsSafe, Enabled,
           TypeOK, MetersHold(t), [Next]_vars
    PROVE  MetersHold(t)'
<1>0. /\ t \in Threads /\ TypeOK'
      /\ \A ip \in IPs : served[ip] \in Histories /\ served'[ip] \in Histories
      /\ clock \in 0..MaxTime /\ Now(t) \in 0..MaxTime /\ Now(t) <= clock
    <2>1. t \in Threads /\ TypeOK'
        BY TypeNext
    <2>2. /\ \A ip \in IPs : served[ip] \in Histories /\ served'[ip] \in Histories
          /\ clock \in 0..MaxTime
        BY <2>1 DEF TypeOK, Histories, Window!Times
    <2>3. Now(t) \in 0..MaxTime /\ Now(t) <= clock
        BY <2>1, <2>2 DEF TypeOK, Window!Call, Now
    <2> QED
        BY <2>1, <2>2, <2>3
<1>1. ASSUME UNCHANGED <<buckets, served>>, Now(t)' \in 0..MaxTime, Now(t) <= Now(t)'
      PROVE  MetersHold(t)'
    <2> SUFFICES ASSUME NEW ip \in IPs
                 PROVE  IF buckets[ip] = NoBucket
                        THEN Metered(served[ip], Capacity, Now(t)')
                        ELSE /\ buckets[ip].last <= Now(t)'
                             /\ Metered(served[ip], buckets[ip].tokens, buckets[ip].last)
        BY <1>1 DEF MetersHold
    <2>1. CASE buckets[ip] = NoBucket
        BY <1>0, <1>1, <2>1, FullStaysFull DEF MetersHold
    <2>2. CASE buckets[ip] # NoBucket
        <3>1. buckets[ip].last \in Nat
            BY <2>2 DEF TypeOK, Bucket
        <3> QED
            BY <1>0, <1>1, <2>2, <3>1 DEF MetersHold
    <2> QED
        BY <2>1, <2>2
<1>2. CASE Tick
    <2>1. Now(t)' = IF call[t] = Idle THEN clock + 1 ELSE call[t].now
        BY <1>2 DEF Tick, Window!Tick, Now
    <2>2. clock + 1 \in 0..MaxTime
        BY <1>0, <1>2 DEF Tick, Window!Tick
    <2>3. Now(t)' \in 0..MaxTime /\ Now(t) <= Now(t)'
        BY <1>0, <2>1, <2>2 DEF Now
    <2> QED
        BY <1>1, <1>2, <2>3 DEF Tick, Window!Tick
<1>3. CASE Arrive(t)
    <2>1. Now(t)' = clock
        <3>1. PICK ip : call' = [call EXCEPT ![t] = [ip |-> ip, now |-> clock]]
            BY <1>3 DEF Arrive
        <3>2. call'[t] # Idle
            <4>1. PICK xff \in IPs \cup {NoAddr}, peer \in IPs \cup {NoAddr} :
                      call' = [call EXCEPT ![t] = [ip |-> ClientIp(xff, peer), now |-> clock]]
                BY <1>3 DEF Arrive
            <4>2. call'[t] = [ip |-> ClientIp(xff, peer), now |-> clock]
                BY <1>0, <4>1 DEF TypeOK
            <4>3. call'[t] \in [ip : IPs, now : Nat]
                BY <1>0, <4>2, ClientIpType
            <4> QED
                BY <4>3
        <3> QED
            BY <1>0, <1>3, <3>1, <3>2 DEF TypeOK, Now
    <2> QED
        BY <1>0, <1>1, <1>3, <2>1 DEF Arrive
<1>4. CASE Check(t)
    <2> DEFINE ip == call[t].ip
               now == call[t].now
               have == Have(ip, now)
    <2>1. /\ call[t] # Idle /\ ip \in IPs /\ now \in 0..MaxTime /\ now <= clock
          /\ Now(t) = now /\ Now(t)' = clock
        <3>1. call[t] # Idle /\ call'[t] = Idle /\ clock' = clock
            BY <1>0, <1>4 DEF Check, TypeOK
        <3> QED
            BY <1>0, <3>1 DEF TypeOK, Window!Call, Now
    <2>2. have \in 0..Capacity /\ Metered(served[ip], have, now)
        BY <1>0, <2>1, HaveIsMetered
    <2>3. /\ buckets' = [Retained(now) EXCEPT ![ip] = [tokens |-> Take(have).tokens, last |-> now]]
          /\ served' = IF have >= Token THEN Window!Serve(ip, now) ELSE served
        BY <1>4 DEF Check, Take
    <2>4. ASSUME NEW i \in IPs, i # ip
          PROVE  IF buckets'[i] = NoBucket
                 THEN Metered(served'[i], Capacity, clock)
                 ELSE /\ buckets'[i].last <= clock
                      /\ Metered(served'[i], buckets'[i].tokens, buckets'[i].last)
        <3>1. served'[i] = served[i]
            BY <2>3, <2>4 DEF Window!Serve, TypeOK
        <3>2. buckets'[i] = Retained(now)[i]
            BY <2>3, <2>4
        <3>3. CASE Retained(now)[i] = NoBucket
            <4>1. Metered(served[i], Capacity, now)
                BY <1>0, <2>1, <3>3, SweepKeepsMeters
            <4> QED
                BY <1>0, <2>1, <3>1, <3>2, <3>3, <4>1, FullStaysFull
        <3>4. CASE Retained(now)[i] # NoBucket
            <4>1. Retained(now)[i] = buckets[i] /\ buckets[i] # NoBucket
                BY <1>0, <2>1, <3>4, SweepKeepsMeters
            <4>2. buckets[i].last \in Nat /\ buckets[i].last <= clock
                BY <4>1 DEF TypeOK, Bucket
            <4> QED
                BY <3>1, <3>2, <4>1, <4>2 DEF MetersHold
        <3> QED
            BY <3>3, <3>4
    <2>5. /\ buckets'[ip] = [tokens |-> Take(have).tokens, last |-> now]
          /\ buckets'[ip] # NoBucket
        <3>1. buckets'[ip] = [tokens |-> Take(have).tokens, last |-> now]
            BY <2>1, <2>3, RetainedType DEF TypeOK
        <3>2. Take(have).tokens \in Nat
            BY <2>2, TakeType, CapacityType
        <3>3. buckets'[ip] \in [tokens : Nat, last : Nat]
            BY <2>1, <3>1, <3>2
        <3> QED
            BY <3>1, <3>3
    <2>6. Metered(served'[ip], Take(have).tokens, now)
        <3>1. CASE have >= Token
            <4>1. \A s \in 0..(MaxTime + 1) :
                      served'[ip][s] = IF s <= now THEN served[ip][s] + 1 ELSE served[ip][s]
                BY <2>1, <2>3, <3>1 DEF Window!Serve, TypeOK
            <4>2. Metered(served'[ip], have - Token, now)
                BY <1>0, <2>1, <2>2, <3>1, <4>1, MeterTakes
            <4> QED
                BY <3>1, <4>2 DEF Take
        <3>2. CASE ~(have >= Token)
            BY <2>2, <2>3, <3>2 DEF Take
        <3> QED
            BY <3>1, <3>2
    <2>7. ASSUME NEW i \in IPs
          PROVE  IF buckets'[i] = NoBucket
                 THEN Metered(served'[i], Capacity, clock)
                 ELSE /\ buckets'[i].last <= clock
                      /\ Metered(served'[i], buckets'[i].tokens, buckets'[i].last)
        BY <2>1, <2>4, <2>5, <2>6
    <2> QED
        BY <2>1, <2>7 DEF MetersHold
<1>5. CASE UNCHANGED vars
    <2>1. Now(t)' = Now(t)
        BY <1>5 DEF vars, Now
    <2> QED
        BY <1>0, <1>1, <1>5, <2>1 DEF vars
<1> QED
    BY <1>2, <1>3, <1>4, <1>5 DEF Next

-----------------------------------------------------------------------------
(***************************************************************************)
(* The refinement and what follows from it.                                *)
(***************************************************************************)
LEMMA StepIsWindowStep ==
    ASSUME NEW t, Threads = {t}, EvictionIsSafe, TypeOK, Enabled => MetersHold(t), [Next]_vars
    PROVE  [Window!Next]_(Window!vars)
<1>0. t \in Threads
    OBVIOUS
<1>1. CASE Tick
    BY <1>1 DEF Tick, Window!Next
<1>2. CASE Arrive(t)
    <2>1. Window!Arrive(t)
        BY <1>2, ClientIpType DEF Arrive, Window!Arrive
    <2> QED
        BY <1>0, <2>1 DEF Window!Next
<1>3. CASE Check(t)
    <2> DEFINE ip == call[t].ip
               now == call[t].now
               have == Have(ip, now)
    <2>1. /\ call[t] # Idle /\ ip \in IPs /\ now \in 0..MaxTime
          /\ served[ip] \in Histories
          /\ call' = [call EXCEPT ![t] = Idle] /\ clock' = clock
        BY <1>0, <1>3 DEF Check, TypeOK, Window!Times, Window!Call, Histories
    <2>2. CASE ~Enabled
        <3>1. Window!Admit(t)
            BY <1>3, <2>1, <2>2 DEF Check, Window!Admit, Enabled, Window!Enabled
        <3> QED
            BY <1>0, <3>1 DEF Window!Next
    <2>3. CASE Enabled
        <3>1. have \in 0..Capacity /\ Metered(served[ip], have, now)
            BY <1>0, <2>1, <2>3, HaveIsMetered
        <3>2. served' = IF have >= Token THEN Window!Serve(ip, now) ELSE served
            BY <1>3, <2>3 DEF Check, Take
        <3>3. CASE have >= Token
            <4>1. ~Window!Exceeds(ip, now)
                <5> SUFFICES ASSUME NEW s \in 0..now, NEW e \in now..MaxTime
                             PROVE  ~(Token * ((served[ip][s] - served[ip][e + 1]) + 1)
                                          > Capacity + Earned(e - s))
                    BY DEF Window!Exceeds, Window!ServedIn, Window!Token, Token,
                           Window!Capacity, Capacity, Window!Earned, Earned
                <5>1. Token * ((served[ip][s] - served[ip][e + 1]) + 1) <= Capacity + Earned(e - s)
                    BY <2>1, <3>1, <3>3, MeterAdmits
                <5>2. Earned(e - s) \in Nat
                    <6>1. e - s \in Nat
                        BY <2>1
                    <6> QED
                        BY <6>1, EarnedType
                <5>3. served[ip][s] \in Nat /\ served[ip][e + 1] \in Nat
                    <6> HIDE DEF ip, now
                    <6>1. s \in 0..(MaxTime + 1) /\ e + 1 \in 0..(MaxTime + 1)
                        BY <2>1
                    <6> QED
                        BY <2>1, <6>1 DEF Histories
                <5> QED
                    BY <5>1, <5>2, <5>3, CapacityType DEF Token
            <4>2. Window!Admit(t)
                BY <2>1, <3>2, <3>3, <4>1 DEF Window!Admit
            <4> QED
                BY <1>0, <4>2 DEF Window!Next
        <3>4. CASE ~(have >= Token)
            <4>1. Window!Exceeds(ip, now)
                <5>1. have < Token
                    BY <3>1, <3>4, CapacityType DEF Token
                <5>2. \E s \in 0..now :
                          Token * ((served[ip][s] - served[ip][now + 1]) + 1)
                              > Capacity + Earned(now - s)
                    BY <2>1, <3>1, <5>1, MeterRefuses
                <5>3. now \in now..MaxTime
                    BY <2>1
                <5> QED
                    BY <5>2, <5>3 DEF Window!Exceeds, Window!ServedIn, Window!Token, Token,
                                      Window!Capacity, Capacity, Window!Earned, Earned
            <4>2. Window!Refuse(t)
                BY <2>1, <2>3, <3>2, <3>4, <4>1
                   DEF Window!Refuse, Enabled, Window!Enabled
            <4> QED
                BY <1>0, <4>2 DEF Window!Next
        <3> QED
            BY <3>3, <3>4
    <2> QED
        BY <2>2, <2>3
<1>4. CASE UNCHANGED vars
    BY <1>4 DEF vars, Window!vars
<1> QED
    BY <1>1, <1>2, <1>3, <1>4 DEF Next

\* RateLimiter::check_at, one caller at a time and with an eviction after the
\* full refill: every step is a step of the sliding window, so the buckets
\* admit and refuse exactly as the complete history would.
THEOREM LimiterImplementsWindow ==
    ASSUME NEW t, Threads = {t}, EvictionIsSafe
    PROVE  Spec => ImplementsWindow
<1> DEFINE Inv == TypeOK /\ (Enabled => MetersHold(t))
<1>1. Init => Inv
    BY TypeInit, MetersInit
<1>2. Inv /\ [Next]_vars => Inv'
    BY TypeNext, MetersStep
<1>3. Init => Window!Init
    BY DEF Init
<1>4. Inv /\ [Next]_vars => [Window!Next]_(Window!vars)
    BY StepIsWindowStep
<1> QED
    BY <1>1, <1>2, <1>3, <1>4, PTL DEF Spec, ImplementsWindow, Window!Spec

LEMMA WindowStepKeepsBound ==
    ASSUME TypeOK, AdmissionBound, [Window!Next]_(Window!vars)
    PROVE  AdmissionBound'
<1> SUFFICES ASSUME Enabled, NEW ip \in IPs, NEW s \in 0..MaxTime, NEW e \in s..MaxTime
             PROVE  Token * (served'[ip][s] - served'[ip][e + 1]) <= Capacity + Earned(e - s)
    BY DEF AdmissionBound, Window!Times, Window!ServedIn
<1>1. Token * (served[ip][s] - served[ip][e + 1]) <= Capacity + Earned(e - s)
    BY DEF AdmissionBound, Window!Times, Window!ServedIn
<1>2. CASE served' = served
    BY <1>1, <1>2
<1>3. ASSUME NEW th \in Threads, Window!Admit(th)
      PROVE  Token * (served'[ip][s] - served'[ip][e + 1]) <= Capacity + Earned(e - s)
    <2> DEFINE i == call[th].ip
               now == call[th].now
    <2>1. i \in IPs /\ now \in 0..MaxTime
        BY <1>3 DEF Window!Admit, TypeOK, Window!Call, Window!Times
    <2>2. served' = Window!Serve(i, now) /\ ~Window!Exceeds(i, now)
        BY <1>3 DEF Window!Admit, Enabled, Window!Enabled
    <2> HIDE DEF i, now
    <2>3. s \in 0..(MaxTime + 1) /\ e + 1 \in 0..(MaxTime + 1)
        OBVIOUS
    <2>4. /\ served'[ip][s] = IF ip = i /\ s <= now THEN served[ip][s] + 1 ELSE served[ip][s]
          /\ served'[ip][e + 1] =
                 IF ip = i /\ e + 1 <= now THEN served[ip][e + 1] + 1 ELSE served[ip][e + 1]
        <3>1. now \in Nat /\ served \in [IPs -> [0..(MaxTime + 1) -> Nat]]
            BY <2>1 DEF TypeOK
        <3>2. \A r \in 0..(MaxTime + 1) :
                  Window!Serve(i, now)[ip][r] =
                      IF ip = i /\ r <= now THEN served[ip][r] + 1 ELSE served[ip][r]
            BY <2>1, <3>1 DEF Window!Serve
        <3> QED
            BY <2>2, <2>3, <3>2
    <2>5. served[ip][s] \in Nat /\ served[ip][e + 1] \in Nat
        BY <2>3 DEF TypeOK
    <2>6. CASE ip = i /\ s <= now /\ now <= e
        <3>1. s \in 0..now /\ e \in now..MaxTime
            BY <2>1, <2>6
        <3>2. ~(Token * ((served[ip][s] - served[ip][e + 1]) + 1) > Capacity + Earned(e - s))
            BY <2>2, <2>6, <3>1
               DEF Window!Exceeds, Window!ServedIn, Window!Token, Token,
                   Window!Capacity, Capacity, Window!Earned, Earned
        <3>3. served'[ip][s] - served'[ip][e + 1] = (served[ip][s] - served[ip][e + 1]) + 1
            BY <2>1, <2>4, <2>5, <2>6
        <3>4. e - s \in Nat /\ Earned(e - s) \in Nat
            <4>1. e - s \in Nat
                OBVIOUS
            <4> QED
                BY <4>1, EarnedType
        <3> QED
            BY <2>5, <3>2, <3>3, <3>4, CapacityType DEF Token
    <2>7. CASE ~(ip = i /\ s <= now /\ now <= e)
        <3>1. served'[ip][s] - served'[ip][e + 1] = served[ip][s] - served[ip][e + 1]
            BY <2>1, <2>4, <2>5, <2>7
        <3> QED
            BY <1>1, <3>1
    <2> QED
        BY <2>6, <2>7
<1> QED
    BY <1>2, <1>3 DEF Window!Next, Window!vars, Window!Tick, Window!Arrive, Window!Refuse

\* RateLimiter::new's contract, one caller at a time and with an eviction after
\* the full refill: no window of arrivals admits more than the burst and what
\* its length refills.
THEOREM AdmissionIsBounded ==
    ASSUME NEW t, Threads = {t}, EvictionIsSafe
    PROVE  Spec => []AdmissionBound
<1> DEFINE Inv == TypeOK /\ (Enabled => MetersHold(t)) /\ AdmissionBound
<1>1. Init => Inv
    <2>1. Init => AdmissionBound
        <3> SUFFICES ASSUME Init, NEW ip \in IPs, NEW s \in 0..MaxTime, NEW e \in s..MaxTime
                     PROVE  Token * (served[ip][s] - served[ip][e + 1]) <= Capacity + Earned(e - s)
            BY DEF AdmissionBound, Window!Times, Window!ServedIn
        <3>1. s \in 0..(MaxTime + 1) /\ e + 1 \in 0..(MaxTime + 1) /\ e - s \in Nat
            OBVIOUS
        <3>2. served[ip][s] = 0 /\ served[ip][e + 1] = 0
            BY <3>1 DEF Init, Window!Init
        <3> QED
            BY <3>1, <3>2, EarnedType, CapacityType DEF Token
    <2> QED
        BY <2>1, TypeInit, MetersInit
<1>2. Inv /\ [Next]_vars => Inv'
    <2> SUFFICES ASSUME Inv, [Next]_vars PROVE Inv'
        OBVIOUS
    <2>1. TypeOK' /\ (Enabled => MetersHold(t)')
        BY TypeNext, MetersStep
    <2>2. AdmissionBound'
        BY StepIsWindowStep, WindowStepKeepsBound
    <2> QED
        BY <2>1, <2>2 DEF Enabled
<1> QED
    BY <1>1, <1>2, PTL DEF Spec

\* RateLimiter::check_at turns away only what is over the limit: a denied
\* request would have exceeded the bound over a window ending at its arrival.
THEOREM DenialsAreDue ==
    ASSUME NEW t, Threads = {t}, EvictionIsSafe
    PROVE  Spec => DenialIsDue
<1> DEFINE Inv == TypeOK /\ (Enabled => MetersHold(t))
           Due(th) == \E s \in 0..call[th].now :
               Token * (Window!ServedIn(call[th].ip, s, call[th].now) + 1)
                   > Capacity + Earned(call[th].now - s)
<1>1. Init => Inv
    BY TypeInit, MetersInit
<1>2. Inv /\ [Next]_vars => Inv'
    BY TypeNext, MetersStep
<1>3. Inv => [\A th \in Threads : (Check(th) /\ served' = served) => Due(th)]_vars
    <2> SUFFICES ASSUME Inv, Check(t), served' = served PROVE Due(t)
        OBVIOUS
    <2> DEFINE ip == call[t].ip
               now == call[t].now
               have == Have(ip, now)
    <2>1. /\ call[t] # Idle /\ ip \in IPs /\ now \in 0..MaxTime
          /\ served[ip] \in Histories
        BY DEF Check, TypeOK, Window!Times, Window!Call, Histories
    <2>2. served # Window!Serve(ip, now)
        <3>1. Window!Serve(ip, now)[ip][0] = served[ip][0] + 1 /\ served[ip][0] \in Nat
            <4> HIDE DEF ip, now
            <4>1. 0 \in 0..(MaxTime + 1) /\ now \in Nat /\ 0 <= now
                BY <2>1
            <4>2. served \in [IPs -> [0..(MaxTime + 1) -> Nat]]
                BY DEF TypeOK
            <4> QED
                BY <2>1, <4>1, <4>2 DEF Window!Serve, Histories
        <3> QED
            BY <3>1
    <2>3. Enabled /\ ~(have >= Token)
        BY <2>2 DEF Check, Take
    <2>4. have \in 0..Capacity /\ Metered(served[ip], have, now)
        BY <2>1, <2>3, HaveIsMetered
    <2>5. have < Token
        BY <2>3, <2>4, CapacityType DEF Token
    <2>6. \E s \in 0..now :
              Token * ((served[ip][s] - served[ip][now + 1]) + 1) > Capacity + Earned(now - s)
        BY <2>1, <2>4, <2>5, MeterRefuses
    <2> QED
        BY <2>6 DEF Window!ServedIn
<1> QED
    BY <1>1, <1>2, <1>3, PTL DEF Spec, DenialIsDue

-----------------------------------------------------------------------------
(***************************************************************************)
(* Any number of callers, who may wait for the mutex.  The account of      *)
(* RateWaits is of the second in which a call is answered, and the second  *)
(* of its arrival may be earlier: by its wait.                             *)
(***************************************************************************)
LEMMA EarnedAddsInt == \A d, e \in Int : Earned(d + e) = Earned(d) + Earned(e)
BY DEF Earned

LEMMA EarnedInt == \A d \in Int : Earned(d) \in Int /\ (d >= 0 => Earned(d) >= 0)
BY DEF Earned

LEMMA EarnedGrowsInt == \A d, e \in Int : d <= e => Earned(d) <= Earned(e)
<1> SUFFICES ASSUME NEW d \in Int, NEW e \in Int, d <= e PROVE Earned(d) <= Earned(e)
    OBVIOUS
<1>1. e - d \in Int /\ e - d >= 0 /\ e = d + (e - d)
    OBVIOUS
<1>2. Earned(e) = Earned(d) + Earned(e - d)
    BY <1>1, EarnedAddsInt
<1> QED
    BY <1>1, <1>2, EarnedInt

\* The tokens of a bucket whose last call arrived at last, beside p requests
\* let through and w seconds waited by calls answered at s or later; or what
\* p may be at most, by now, when there is no bucket any more.
Backed(p, w, tokens, last, s) ==
    \/ p = 0 /\ w = 0
    \/ Token * p + tokens <= Capacity + Earned((last - s) + w)

Repaid(p, w, s, now) == Token * p <= Earned((now - s) + w)

\* A call that arrived at a and is answered at now, after the others.
LEMMA WaitBacksRefill ==
    ASSUME NEW p \in Nat, NEW w \in Nat, NEW tokens \in 0..Capacity, NEW last \in Nat,
           NEW s \in Nat, NEW a \in Nat, NEW now \in Nat,
           s <= now, a <= now, last <= now,
           Backed(p, w, tokens, last, s)
    PROVE  Token * p + Refilled(tokens, Elapsed(a, last))
               <= Capacity + Earned((a - s) + (w + (now - a)))
<1> DEFINE d == Elapsed(a, last)
           have == Refilled(tokens, d)
           upto == (a - s) + (w + (now - a))
<1>1. d \in Nat /\ have \in 0..Capacity /\ have <= tokens + Earned(d) /\ Earned(d) \in Nat
    BY ElapsedType, RefilledType, EarnedType
<1>2. upto \in Int /\ upto = (now - s) + w /\ Earned(upto) \in Int
    BY EarnedInt
<1>3. CASE p = 0 /\ w = 0
    <2>1. upto >= 0
        BY <1>2, <1>3
    <2>2. Earned(upto) >= 0
        BY <1>2, <2>1, EarnedInt
    <2> HIDE DEF upto, have, d
    <2>3. Token * p = 0
        BY <1>3 DEF Token
    <2>4. Token * p + have <= Capacity + Earned(upto)
        BY <1>1, <1>2, <2>2, <2>3, CapacityType DEF Token
    <2> QED
        BY <2>4 DEF upto, have, d
<1>4. CASE Token * p + tokens <= Capacity + Earned((last - s) + w)
    <2> DEFINE before == (last - s) + w
    <2>1. before \in Int /\ d \in Int /\ before + d <= upto
        BY <1>1, <1>2 DEF Elapsed
    <2>2. Earned(before + d) = Earned(before) + Earned(d) /\ Earned(before + d) <= Earned(upto)
        <3>1. before + d \in Int
            BY <2>1
        <3> HIDE DEF before, d, upto
        <3> QED
            BY <1>2, <2>1, <3>1, EarnedAddsInt, EarnedGrowsInt
    <2>3. Earned(before) \in Int
        BY <2>1, EarnedInt
    <2>4. Token * p \in Nat
        BY DEF Token
    <2>5. Token * p + tokens <= Capacity + Earned(before)
        BY <1>4
    <2> HIDE DEF before, d, upto, have
    <2>6. Token * p + have <= Capacity + Earned(upto)
        BY <1>1, <1>2, <2>2, <2>3, <2>4, <2>5, CapacityType DEF Token
    <2> QED
        BY <2>6 DEF upto, have, d
<1> QED
    BY <1>3, <1>4 DEF Backed

\* An entry that is new, or whose address was evicted before.
LEMMA WaitBacksFresh ==
    ASSUME NEW p \in Nat, NEW w \in Nat, NEW s \in Nat, NEW a \in Nat, NEW now \in Nat,
           Repaid(p, w, s, now)
    PROVE  Token * p + Capacity <= Capacity + Earned((a - s) + (w + (now - a)))
<1>1. (a - s) + (w + (now - a)) = (now - s) + w /\ (now - s) + w \in Int
    OBVIOUS
<1>2. Earned((now - s) + w) \in Int /\ Token * p \in Nat
    BY <1>1, EarnedInt DEF Token
<1>3. Token * p <= Earned((now - s) + w)
    BY DEF Repaid
<1>4. Token * p + Capacity <= Capacity + Earned((now - s) + w)
    BY <1>2, <1>3, CapacityType DEF Token
<1> QED
    BY <1>1, <1>4

LEMMA EvictionRepays ==
    ASSUME EvictionIsSafe,
           NEW p \in Nat, NEW w \in Nat, NEW tokens \in 0..Capacity, NEW last \in Nat,
           NEW s \in Nat, NEW a \in Nat, NEW now \in Nat,
           s <= now, a <= now, Elapsed(a, last) >= IDLE_EVICT,
           Backed(p, w, tokens, last, s)
    PROVE  Repaid(p, w, s, now)
<1> DEFINE upto == (now - s) + w
           before == (last - s) + w
<1>1. upto \in Int /\ Earned(upto) \in Int /\ before \in Int /\ Earned(before) \in Int
    BY EarnedInt
<1>2. Token * p \in Nat
    BY DEF Token
<1>3. CASE p = 0 /\ w = 0
    <2>1. upto >= 0 /\ Token * p = 0
        BY <1>3 DEF Token
    <2> HIDE DEF upto
    <2>2. Token * p <= Earned(upto)
        BY <1>1, <2>1, EarnedInt
    <2> QED
        BY <2>2 DEF Repaid, upto
<1>4. CASE Token * p + tokens <= Capacity + Earned(before)
    <2>1. before + IDLE_EVICT <= upto \/ IDLE_EVICT = 0
        BY DEF Elapsed
    <2>2. IDLE_EVICT # 0
        <3>1. IDLE_EVICT = 0 => Earned(IDLE_EVICT) = 0
            BY DEF Earned
        <3> QED
            BY <3>1, CapacityType DEF EvictionIsSafe, Token
    <2>3. Earned(IDLE_EVICT) \in Nat /\ Earned(IDLE_EVICT) >= Capacity
        BY EarnedType, CapacityType DEF EvictionIsSafe
    <2>4. Earned(before + IDLE_EVICT) = Earned(before) + Earned(IDLE_EVICT)
        <3> HIDE DEF before
        <3> QED
            BY <1>1, EarnedAddsInt
    <2>5. Earned(before + IDLE_EVICT) <= Earned(upto)
        <3>1. before + IDLE_EVICT \in Int /\ before + IDLE_EVICT <= upto
            BY <1>1, <2>1, <2>2
        <3> HIDE DEF before, upto
        <3> QED
            BY <1>1, <3>1, EarnedGrowsInt
    <2> HIDE DEF before, upto
    <2>6. Token * p <= Earned(upto)
        BY <1>1, <1>2, <1>4, <2>3, <2>4, <2>5, CapacityType DEF Token
    <2> QED
        BY <2>6 DEF Repaid, upto
<1> QED
    BY <1>3, <1>4 DEF Backed

\* Of one address: some second from which on all that the burst and the time
\* up to last are worth was let through, or is still in the bucket.
Accounted(f, tokens, last, now) ==
    \E s \in 0..now : Token * f[s] + tokens >= Capacity + Earned(Elapsed(last, s))

LEMMA ElapsedSplits ==
    ASSUME NEW a \in Nat, NEW last \in Nat, NEW s \in Nat
    PROVE  Elapsed(a, s) <= Elapsed(last, s) + Elapsed(a, last)
BY DEF Elapsed

LEMMA RefillIsAccounted ==
    ASSUME NEW now \in Nat, NEW f \in [0..now -> Nat], NEW tokens \in 0..Capacity,
           NEW last \in Nat, NEW a \in 0..now, Accounted(f, tokens, last, now)
    PROVE  Accounted(f, Refilled(tokens, Elapsed(a, last)), a, now)
<1> DEFINE d == Elapsed(a, last)
           have == Refilled(tokens, d)
<1>1. d \in Nat /\ have \in 0..Capacity /\ Earned(d) \in Nat
      /\ (have = Capacity \/ have = tokens + Earned(d))
    <2>1. a \in Nat
        OBVIOUS
    <2> QED
        BY <2>1, ElapsedType, RefilledType, EarnedType
<1>2. CASE have = Capacity
    <2>1. f[a] \in Nat /\ Elapsed(a, a) = 0 /\ Earned(0) = 0
        BY DEF Elapsed, Earned
    <2>2. Token * f[a] \in Nat
        BY <2>1 DEF Token
    <2>3. Token * f[a] + have >= Capacity + Earned(Elapsed(a, a))
        BY <1>2, <2>1, <2>2, CapacityType DEF Token
    <2> QED
        BY <2>3 DEF Accounted
<1>3. CASE have = tokens + Earned(d)
    <2>1. PICK s \in 0..now : Token * f[s] + tokens >= Capacity + Earned(Elapsed(last, s))
        BY DEF Accounted
    <2> DEFINE e == Elapsed(last, s)
               g == Elapsed(a, s)
    <2>2. e \in Nat /\ g \in Nat /\ g <= e + d
        <3>1. a \in Nat /\ s \in Nat
            OBVIOUS
        <3> QED
            BY <3>1, ElapsedType, ElapsedSplits
    <2>3. Token * f[s] \in Nat
        BY DEF Token
    <2>4. Earned(e) \in Nat /\ Earned(g) \in Nat /\ Earned(e + d) = Earned(e) + Earned(d)
        BY <1>1, <2>2, EarnedType, EarnedAdds
    <2>5. Earned(g) <= Earned(e + d)
        <3>1. e + d \in Nat
            BY <1>1, <2>2
        <3> HIDE DEF e, d, g
        <3> QED
            BY <2>2, <3>1, EarnedGrows
    <2>6. Token * f[s] + tokens >= Capacity + Earned(e)
        BY <2>1
    <2>7. Token * f[s] + have >= Capacity + Earned(g)
        <3> DEFINE spent == Token * f[s]
        <3>1. spent \in Nat /\ spent + tokens >= Capacity + Earned(e)
            BY <2>3, <2>6
        <3>2. have = tokens + Earned(d) /\ tokens \in Nat /\ Capacity \in Nat
            BY <1>3, CapacityType
        <3>3. Earned(d) \in Nat /\ Earned(g) <= Earned(e) + Earned(d)
            BY <1>1, <2>4, <2>5
        <3> HIDE DEF e, d, g, have, spent
        <3>4. spent + have >= Capacity + Earned(g)
            BY <2>4, <3>1, <3>2, <3>3
        <3> QED
            BY <3>4 DEF spent
    <2> QED
        BY <2>7 DEF Accounted
<1> QED
    BY <1>1, <1>2, <1>3

LEMMA FreshIsAccounted ==
    ASSUME NEW now \in Nat, NEW f \in [0..now -> Nat], NEW a \in 0..now
    PROVE  Accounted(f, Capacity, a, now)
<1>1. f[a] \in Nat /\ Elapsed(a, a) = 0 /\ Earned(0) = 0
    BY DEF Elapsed, Earned
<1>2. Token * f[a] \in Nat
    BY <1>1 DEF Token
<1>3. Token * f[a] + Capacity >= Capacity + Earned(Elapsed(a, a))
    BY <1>1, <1>2, CapacityType DEF Token
<1> QED
    BY <1>3 DEF Accounted

-----------------------------------------------------------------------------
(***************************************************************************)
(* The inductive invariant of RateWaits.                                   *)
(***************************************************************************)
Account(account) ==
    /\ account \in [IPs -> [Window!Times -> Nat]]
    /\ \A ip \in IPs, s \in Window!Times : s > clock => account[ip][s] = 0

WaitTypeOK ==
    /\ TypeOK
    /\ Account(passed) /\ Account(waited)
    /\ \A ip \in IPs, s, r \in Window!Times : s <= r => passed[ip][r] <= passed[ip][s]

\* What the calls of ip answered since s left in its bucket, or of their due.
BackedSince(ip, s) ==
    IF buckets[ip] = NoBucket
    THEN Repaid(passed[ip][s], waited[ip][s], s, clock)
    ELSE Backed(passed[ip][s], waited[ip][s], buckets[ip].tokens, buckets[ip].last, s)

SlackHolds == \A ip \in IPs, s \in 0..clock : BackedSince(ip, s)

SpentHolds ==
    \A ip \in IPs : buckets[ip] # NoBucket =>
        Accounted(passed[ip], buckets[ip].tokens, buckets[ip].last, clock)

LEMMA WaitStepIsStep == [WaitNext]_waitVars => [Next]_vars
BY DEF WaitNext, WaitCheck, Next, waitVars, vars

LEMMA WaitInitHolds == WaitInit => WaitTypeOK /\ SlackHolds /\ SpentHolds
<1> SUFFICES ASSUME WaitInit PROVE WaitTypeOK /\ SlackHolds /\ SpentHolds
    OBVIOUS
<1>1. TypeOK
    BY TypeInit DEF WaitInit
<1>2. /\ clock = 0 /\ buckets = [ip \in IPs |-> NoBucket]
      /\ passed = [ip \in IPs |-> [s \in Window!Times |-> 0]]
      /\ waited = [ip \in IPs |-> [s \in Window!Times |-> 0]]
    BY DEF WaitInit, Init, Window!Init
<1>3. WaitTypeOK
    BY <1>1, <1>2 DEF WaitTypeOK, Account
<1>4. SlackHolds
    <2> SUFFICES ASSUME NEW ip \in IPs PROVE Repaid(passed[ip][0], waited[ip][0], 0, 0)
        BY <1>2 DEF SlackHolds, BackedSince
    <2>1. passed[ip][0] = 0 /\ waited[ip][0] = 0
        BY <1>2 DEF Window!Times
    <2> QED
        BY <2>1 DEF Repaid, Earned, Token
<1>5. SpentHolds
    BY <1>2 DEF SpentHolds
<1> QED
    BY <1>3, <1>4, <1>5

LEMMA BookedType ==
    ASSUME clock \in Window!Times, NEW account, Account(account), NEW ip \in IPs, NEW n \in Nat
    PROVE  /\ Account(Booked(account, ip, n))
           /\ \A i \in IPs, s \in Window!Times :
                  Booked(account, ip, n)[i][s] =
                      IF i = ip /\ s <= clock THEN account[i][s] + n ELSE account[i][s]
BY DEF Account, Booked, Window!Times

\* What a call is answered and what it leaves behind.
LEMMA CheckAnswers ==
    ASSUME TypeOK, Enabled, NEW th \in Threads, Check(th)
    PROVE  LET ip == call[th].ip
               now == call[th].now
               have == Have(ip, now)
           IN  /\ ip \in IPs /\ now \in 0..clock /\ clock \in 0..MaxTime /\ have \in 0..Capacity
               /\ Allowed(th) <=> have >= Token
               /\ clock' = clock
               /\ buckets'[ip] # NoBucket
               /\ buckets'[ip].tokens = IF have >= Token THEN have - Token ELSE have
               /\ buckets'[ip].last = now
               /\ \A i \in IPs : i # ip => buckets'[i] = Retained(now)[i]
<1> DEFINE ip == call[th].ip
           now == call[th].now
           have == Have(ip, now)
<1>1. /\ call[th] # Idle /\ ip \in IPs /\ now \in Nat /\ now <= clock /\ clock \in 0..MaxTime
      /\ buckets \in [IPs -> Bucket \cup {NoBucket}]
    BY DEF Check, TypeOK, Window!Times, Window!Call
<1>2. have \in 0..Capacity
    BY <1>1, EntryType
<1>3. Take(have).tokens = IF have >= Token THEN have - Token ELSE have
    BY DEF Take
<1>4. Take(have).tokens \in Nat
    BY <1>2, TakeType, CapacityType DEF Token
<1>5. buckets' = [Retained(now) EXCEPT ![ip] = [tokens |-> Take(have).tokens, last |-> now]]
      /\ clock' = clock
    BY DEF Check
<1>6. /\ buckets'[ip] = [tokens |-> Take(have).tokens, last |-> now]
      /\ \A i \in IPs : i # ip => buckets'[i] = Retained(now)[i]
    BY <1>1, <1>5, RetainedType
<1>7. buckets'[ip] # NoBucket
    <2>1. buckets'[ip] \in [tokens : Nat, last : Nat]
        BY <1>1, <1>4, <1>6
    <2> QED
        BY <2>1
<1>8. Allowed(th) <=> have >= Token
    BY DEF Allowed, Take
<1>9. now \in 0..clock
    BY <1>1
<1> QED
    BY <1>1, <1>2, <1>3, <1>5, <1>6, <1>7, <1>8, <1>9

LEMMA WaitTypeNext == WaitTypeOK /\ [WaitNext]_waitVars => WaitTypeOK'
<1> SUFFICES ASSUME WaitTypeOK, [WaitNext]_waitVars PROVE WaitTypeOK'
    OBVIOUS
<1>0. TypeOK /\ TypeOK' /\ clock \in 0..MaxTime
    BY WaitStepIsStep, TypeNext DEF WaitTypeOK, TypeOK, Window!Times
<1>1. CASE Tick /\ UNCHANGED <<passed, waited>>
    <2>1. clock' = clock + 1
        BY <1>1 DEF Tick, Window!Tick
    <2>2. Account(passed)' /\ Account(waited)'
        BY <1>0, <1>1, <2>1 DEF WaitTypeOK, Account, Window!Times
    <2> QED
        BY <1>0, <1>1, <2>2 DEF WaitTypeOK
<1>2. ASSUME NEW th \in Threads, Arrive(th), UNCHANGED <<passed, waited>> PROVE WaitTypeOK'
    BY <1>0, <1>2 DEF WaitTypeOK, Account, Arrive
<1>3. ASSUME NEW th \in Threads, WaitCheck(th) PROVE WaitTypeOK'
    <2> DEFINE ip == call[th].ip
               n == IF Allowed(th) THEN 1 ELSE 0
               w == clock - call[th].now
    <2>1. ip \in IPs /\ n \in Nat /\ w \in Nat /\ clock' = clock /\ clock \in Window!Times
        <3>1. /\ call[th] \in [ip : IPs, now : Nat] /\ call[th].now <= clock
              /\ clock \in Nat /\ clock' = clock /\ clock \in Window!Times
            BY <1>0, <1>3 DEF WaitCheck, Check, TypeOK, Window!Call, Window!Times
        <3>2. w \in Nat
            BY <3>1
        <3> QED
            BY <3>1, <3>2
    <2>2. passed' = Booked(passed, ip, n) /\ waited' = Booked(waited, ip, w)
        BY <1>3 DEF WaitCheck
    <2> HIDE DEF ip, n, w
    <2>3. /\ Account(passed') /\ Account(waited')
          /\ \A i \in IPs, s \in Window!Times :
                 passed'[i][s] = IF i = ip /\ s <= clock THEN passed[i][s] + n ELSE passed[i][s]
        <3>1. Account(passed) /\ Account(waited)
            BY DEF WaitTypeOK
        <3>2. Account(Booked(passed, ip, n)) /\ Account(Booked(waited, ip, w))
            BY <2>1, <3>1, BookedType
        <3>3. \A i \in IPs, s \in Window!Times :
                  Booked(passed, ip, n)[i][s] =
                      IF i = ip /\ s <= clock THEN passed[i][s] + n ELSE passed[i][s]
            BY <2>1, <3>1, BookedType
        <3> QED
            BY <2>2, <3>2, <3>3
    <2>4. Account(passed)' /\ Account(waited)'
        BY <2>1, <2>3 DEF Account
    <2>5. ASSUME NEW i \in IPs, NEW s \in Window!Times, NEW r \in Window!Times, s <= r
          PROVE  passed'[i][r] <= passed'[i][s]
        <3>1. passed[i][r] \in Nat /\ passed[i][s] \in Nat /\ passed[i][r] <= passed[i][s]
            BY <2>5 DEF WaitTypeOK, Account
        <3>2. s \in Nat /\ r \in Nat /\ clock \in Nat
            BY <2>1 DEF Window!Times
        <3> QED
            BY <2>1, <2>3, <2>5, <3>1, <3>2
    <2> QED
        BY <1>0, <2>4, <2>5 DEF WaitTypeOK
<1>4. CASE UNCHANGED waitVars
    BY <1>0, <1>4 DEF waitVars, WaitTypeOK, Account
<1> QED
    BY <1>1, <1>2, <1>3, <1>4 DEF WaitNext

-----------------------------------------------------------------------------
LEMMA RepaidLasts ==
    ASSUME NEW p \in Nat, NEW w \in Nat, NEW s \in Nat, NEW now \in Nat, NEW later \in Nat,
           now <= later, Repaid(p, w, s, now)
    PROVE  Repaid(p, w, s, later)
<1> DEFINE before == (now - s) + w
           upto == (later - s) + w
<1>1. before \in Int /\ upto \in Int /\ before <= upto /\ Token * p \in Nat
    BY DEF Token
<1>2. Token * p <= Earned(before)
    BY DEF Repaid
<1> HIDE DEF before, upto
<1>3. Earned(before) \in Int /\ Earned(upto) \in Int /\ Earned(before) <= Earned(upto)
    BY <1>1, EarnedInt, EarnedGrowsInt
<1>4. Token * p <= Earned(upto)
    BY <1>1, <1>2, <1>3
<1> QED
    BY <1>4 DEF Repaid, upto

LEMMA NothingIsRepaid == \A s \in Nat : Repaid(0, 0, s, s)
BY DEF Repaid, Earned, Token

LEMMA SinceType ==
    ASSUME WaitTypeOK, NEW i \in IPs, NEW s \in 0..clock
    PROVE  /\ passed[i][s] \in Nat /\ waited[i][s] \in Nat /\ s \in Nat /\ clock \in Nat
           /\ s <= clock /\ s \in Window!Times
           /\ buckets[i] # NoBucket =>
                 /\ buckets[i].tokens \in 0..Capacity /\ buckets[i].last \in Nat
                 /\ buckets[i].last <= clock
<1>1. clock \in 0..MaxTime /\ s \in Window!Times
    BY DEF WaitTypeOK, TypeOK, Window!Times
<1>2. buckets[i] # NoBucket =>
          /\ buckets[i].tokens \in 0..Capacity /\ buckets[i].last \in Nat
          /\ buckets[i].last <= clock
    BY DEF WaitTypeOK, TypeOK, Bucket
<1>3. passed[i][s] \in Nat /\ waited[i][s] \in Nat
    BY <1>1 DEF WaitTypeOK, Account
<1> QED
    BY <1>1, <1>2, <1>3

\* A sweep drops a bucket only when its address is repaid.
LEMMA SweepRepays ==
    ASSUME EvictionIsSafe, WaitTypeOK, SlackHolds,
           NEW i \in IPs, NEW s \in 0..clock, NEW now \in 0..clock
    PROVE  IF Retained(now)[i] = NoBucket
           THEN Repaid(passed[i][s], waited[i][s], s, clock)
           ELSE /\ Retained(now)[i] = buckets[i]
                /\ Backed(passed[i][s], waited[i][s], buckets[i].tokens, buckets[i].last, s)
<1>1. /\ passed[i][s] \in Nat /\ waited[i][s] \in Nat /\ s \in Nat /\ clock \in Nat
      /\ s <= clock /\ now \in Nat /\ now <= clock
    BY SinceType
<1>2. BackedSince(i, s)
    BY DEF SlackHolds
<1>3. Retained(now)[i] \in {buckets[i], NoBucket}
    BY RetainedType DEF WaitTypeOK, TypeOK
<1>4. CASE buckets[i] = NoBucket
    BY <1>2, <1>3, <1>4 DEF BackedSince
<1>5. CASE Retained(now)[i] # NoBucket
    BY <1>2, <1>3, <1>5 DEF BackedSince
<1>6. CASE buckets[i] # NoBucket /\ Retained(now)[i] = NoBucket
    <2>1. buckets[i].tokens \in 0..Capacity /\ buckets[i].last \in Nat
        BY <1>6, SinceType
    <2>2. Backed(passed[i][s], waited[i][s], buckets[i].tokens, buckets[i].last, s)
        BY <1>2, <1>6 DEF BackedSince
    <2>3. Elapsed(now, buckets[i].last) >= IDLE_EVICT
        <3>1. ~(Elapsed(now, buckets[i].last) < IDLE_EVICT)
            BY <1>6 DEF Retained
        <3>2. Elapsed(now, buckets[i].last) \in Nat
            BY <1>1, <2>1, ElapsedType
        <3> QED
            BY <3>1, <3>2
    <2> QED
        BY <1>1, <1>6, <2>1, <2>2, <2>3, EvictionRepays
<1> QED
    BY <1>4, <1>5, <1>6

\* What a call finds in its bucket is backed at its arrival, its own wait
\* counted.
LEMMA HaveIsBacked ==
    ASSUME EvictionIsSafe, WaitTypeOK, SlackHolds,
           NEW ip \in IPs, NEW s \in 0..clock, NEW now \in 0..clock
    PROVE  Token * passed[ip][s] + Have(ip, now)
               <= Capacity + Earned((now - s) + (waited[ip][s] + (clock - now)))
<1>1. /\ passed[ip][s] \in Nat /\ waited[ip][s] \in Nat /\ s \in Nat /\ clock \in Nat
      /\ s <= clock /\ now \in Nat /\ now <= clock
    BY SinceType
<1>2. CASE Retained(now)[ip] = NoBucket
    <2>1. Have(ip, now) = Capacity
        BY <1>1, <1>2, CapacityType DEF Have, Entry, FreshBucket, Elapsed, Refilled, Earned
    <2>2. Repaid(passed[ip][s], waited[ip][s], s, clock)
        BY <1>2, SweepRepays
    <2> QED
        BY <1>1, <2>1, <2>2, WaitBacksFresh
<1>3. CASE Retained(now)[ip] # NoBucket
    <2>1. /\ Retained(now)[ip] = buckets[ip]
          /\ Backed(passed[ip][s], waited[ip][s], buckets[ip].tokens, buckets[ip].last, s)
        BY <1>3, SweepRepays
    <2>2. Have(ip, now) = Refilled(buckets[ip].tokens, Elapsed(now, buckets[ip].last))
        BY <1>3, <2>1 DEF Have, Entry
    <2>3. /\ buckets[ip].tokens \in 0..Capacity /\ buckets[ip].last \in Nat
          /\ buckets[ip].last <= clock
        BY <1>3, <2>1, SinceType
    <2> QED
        BY <1>1, <2>1, <2>2, <2>3, WaitBacksRefill
<1> QED
    BY <1>2, <1>3

LEMMA SlackNext ==
    ASSUME EvictionIsSafe, Enabled, WaitTypeOK, SlackHolds, [WaitNext]_waitVars
    PROVE  SlackHolds'
<1>0. TypeOK /\ clock \in Nat
    BY DEF WaitTypeOK, TypeOK, Window!Times
<1>1. CASE Tick /\ UNCHANGED <<passed, waited>>
    <2>1. clock' = clock + 1 /\ clock + 1 \in Window!Times /\ buckets' = buckets
        BY <1>0, <1>1 DEF Tick, Window!Tick, Window!Times
    <2>2. ASSUME NEW ip \in IPs, NEW s \in 0..(clock + 1) PROVE BackedSince(ip, s)'
        <3>1. CASE s <= clock
            <4>1. s \in 0..clock
                BY <3>1
            <4>2. BackedSince(ip, s)
                BY <4>1 DEF SlackHolds
            <4>3. /\ passed[ip][s] \in Nat /\ waited[ip][s] \in Nat /\ s \in Nat
                BY <4>1, SinceType
            <4>4. Repaid(passed[ip][s], waited[ip][s], s, clock)
                      => Repaid(passed[ip][s], waited[ip][s], s, clock + 1)
                <5>1. clock + 1 \in Nat /\ clock <= clock + 1
                    BY <1>0
                <5> QED
                    BY <1>0, <4>3, <5>1, RepaidLasts
            <4> QED
                BY <1>1, <2>1, <4>2, <4>4 DEF BackedSince
        <3>2. CASE s = clock + 1
            <4>1. passed[ip][s] = 0 /\ waited[ip][s] = 0
                BY <1>0, <2>1, <3>2 DEF WaitTypeOK, Account
            <4>2. Repaid(0, 0, s, clock + 1)
                BY <1>0, <3>2, NothingIsRepaid
            <4> QED
                BY <1>1, <2>1, <4>1, <4>2 DEF BackedSince, Backed
        <3> QED
            BY <1>0, <3>1, <3>2
    <2> QED
        BY <2>1, <2>2 DEF SlackHolds
<1>2. ASSUME NEW th \in Threads, Arrive(th), UNCHANGED <<passed, waited>> PROVE SlackHolds'
    BY <1>2 DEF SlackHolds, BackedSince, Arrive
<1>3. ASSUME NEW th \in Threads, WaitCheck(th) PROVE SlackHolds'
    <2> DEFINE ip == call[th].ip
               now == call[th].now
               have == Have(ip, now)
               n == IF Allowed(th) THEN 1 ELSE 0
               w == clock - now
    <2>1. /\ ip \in IPs /\ now \in 0..clock /\ clock \in Window!Times /\ have \in 0..Capacity
          /\ Allowed(th) <=> have >= Token
          /\ clock' = clock
          /\ buckets'[ip] # NoBucket
          /\ buckets'[ip].tokens = IF have >= Token THEN have - Token ELSE have
          /\ buckets'[ip].last = now
          /\ \A i \in IPs : i # ip => buckets'[i] = Retained(now)[i]
        BY <1>0, <1>3, CheckAnswers DEF WaitCheck, Window!Times
    <2>2. n \in Nat /\ w \in Nat
        BY <1>0, <2>1
    <2>3. passed' = Booked(passed, ip, n) /\ waited' = Booked(waited, ip, w)
        BY <1>3 DEF WaitCheck
    <2>4. n = IF have >= Token THEN 1 ELSE 0
        BY <2>1
    <2>5. w = clock - now
        OBVIOUS
    <2> HIDE DEF ip, now, have, n, w
    <2>6. ASSUME NEW i \in IPs, NEW s \in 0..clock
          PROVE  /\ passed'[i][s] = IF i = ip THEN passed[i][s] + n ELSE passed[i][s]
                 /\ waited'[i][s] = IF i = ip THEN waited[i][s] + w ELSE waited[i][s]
        <3>1. s \in Window!Times /\ s <= clock
            BY SinceType
        <3>2. Account(passed) /\ Account(waited)
            BY DEF WaitTypeOK
        <3>3. \A j \in IPs, r \in Window!Times :
                  Booked(passed, ip, n)[j][r] =
                      IF j = ip /\ r <= clock THEN passed[j][r] + n ELSE passed[j][r]
            BY <2>1, <2>2, <3>2, BookedType
        <3>4. \A j \in IPs, r \in Window!Times :
                  Booked(waited, ip, w)[j][r] =
                      IF j = ip /\ r <= clock THEN waited[j][r] + w ELSE waited[j][r]
            BY <2>1, <2>2, <3>2, BookedType
        <3> QED
            BY <2>3, <3>1, <3>3, <3>4
    <2>7. ASSUME NEW i \in IPs, NEW s \in 0..clock, i # ip PROVE BackedSince(i, s)'
        <3>1. buckets'[i] = Retained(now)[i]
            BY <2>1, <2>7
        <3>2. passed'[i][s] = passed[i][s] /\ waited'[i][s] = waited[i][s]
            BY <2>6, <2>7
        <3>3. IF Retained(now)[i] = NoBucket
              THEN Repaid(passed[i][s], waited[i][s], s, clock)
              ELSE /\ Retained(now)[i] = buckets[i]
                   /\ Backed(passed[i][s], waited[i][s], buckets[i].tokens, buckets[i].last, s)
            BY <2>1, SweepRepays
        <3> QED
            BY <2>1, <3>1, <3>2, <3>3 DEF BackedSince
    <2>8. ASSUME NEW i \in IPs, NEW s \in 0..clock, i = ip PROVE BackedSince(i, s)'
        <3>1. Token * passed[i][s] + have
                  <= Capacity + Earned((now - s) + (waited[i][s] + w))
            BY <2>1, <2>5, <2>8, HaveIsBacked DEF have
        <3>2. Token * (passed[i][s] + n) + buckets'[i].tokens = Token * passed[i][s] + have
            <4>1. passed[i][s] \in Nat
                BY SinceType
            <4> QED
                BY <2>1, <2>4, <2>8, <4>1, CapacityType DEF Token
        <3>3. passed'[i][s] = passed[i][s] + n /\ waited'[i][s] = waited[i][s] + w
            BY <2>6, <2>8
        <3>4. Backed(passed'[i][s], waited'[i][s], buckets'[i].tokens, now, s)
            BY <3>1, <3>2, <3>3 DEF Backed
        <3> QED
            BY <2>1, <2>8, <3>4 DEF BackedSince
    <2> QED
        BY <2>1, <2>7, <2>8 DEF SlackHolds
<1>4. CASE UNCHANGED waitVars
    BY <1>4 DEF waitVars, SlackHolds, BackedSince
<1> QED
    BY <1>1, <1>2, <1>3, <1>4 DEF WaitNext

LEMMA SlackBounds == Enabled /\ WaitTypeOK /\ SlackHolds => WaitsAreTheSlack
<1> SUFFICES ASSUME WaitTypeOK, SlackHolds, NEW ip \in IPs, NEW s \in 0..clock
             PROVE  Token * passed[ip][s] <= Capacity + Earned((clock - s) + waited[ip][s])
    BY DEF WaitsAreTheSlack
<1> DEFINE p == passed[ip][s]
           upto == (clock - s) + waited[ip][s]
           last == buckets[ip].last
           before == (last - s) + waited[ip][s]
<1>1. p \in Nat /\ waited[ip][s] \in Nat /\ s \in Nat /\ clock \in Nat /\ s <= clock
    BY SinceType
<1>2. upto \in Int /\ upto >= 0 /\ Token * p \in Nat
    BY <1>1 DEF Token
<1>3. Earned(upto) \in Int /\ Earned(upto) >= 0
    BY <1>2, EarnedInt
<1>4. BackedSince(ip, s)
    BY DEF SlackHolds
<1>5. CASE buckets[ip] = NoBucket
    <2>1. Token * p <= Earned(upto)
        BY <1>4, <1>5 DEF BackedSince, Repaid
    <2> HIDE DEF p, upto
    <2>2. Token * p <= Capacity + Earned(upto)
        BY <1>2, <1>3, <2>1, CapacityType DEF Token
    <2> QED
        BY <2>2 DEF p, upto
<1>6. CASE buckets[ip] # NoBucket /\ p = 0
    <2>1. Token * p = 0
        BY <1>6 DEF Token
    <2> HIDE DEF p, upto
    <2>2. Token * p <= Capacity + Earned(upto)
        BY <1>3, <2>1, CapacityType DEF Token
    <2> QED
        BY <2>2 DEF p, upto
<1>7. CASE buckets[ip] # NoBucket /\ p # 0
    <2>1. buckets[ip].tokens \in 0..Capacity /\ last \in Nat /\ last <= clock
        BY <1>7, SinceType
    <2>2. Token * p + buckets[ip].tokens <= Capacity + Earned(before)
        BY <1>4, <1>7 DEF BackedSince, Backed
    <2>3. before \in Int /\ before <= upto
        BY <1>1, <2>1
    <2> HIDE DEF p, upto, before
    <2>4. Earned(before) \in Int /\ Earned(before) <= Earned(upto)
        BY <1>2, <2>3, EarnedInt, EarnedGrowsInt
    <2>5. Token * p <= Capacity + Earned(upto)
        BY <1>2, <1>3, <2>1, <2>2, <2>4, CapacityType DEF Token
    <2> QED
        BY <2>5 DEF p, upto
<1> QED
    BY <1>5, <1>6, <1>7

\* RateLimiter::check, with any number of threads waiting for the mutex and an
\* eviction after the full refill: what is let through since any second is at
\* most the burst and the refill of that time and of the callers' waits.
THEOREM WaitsBoundAdmission ==
    ASSUME EvictionIsSafe
    PROVE  WaitSpec => []WaitsAreTheSlack
<1> DEFINE Inv == WaitTypeOK /\ (Enabled => SlackHolds)
<1>1. WaitInit => Inv
    BY WaitInitHolds
<1>2. Inv /\ [WaitNext]_waitVars => Inv'
    <2> SUFFICES ASSUME Inv, [WaitNext]_waitVars PROVE Inv'
        OBVIOUS
    <2>1. WaitTypeOK'
        BY WaitTypeNext
    <2>2. Enabled => SlackHolds'
        BY SlackNext
    <2> QED
        BY <2>1, <2>2 DEF Enabled
<1>3. Inv => WaitsAreTheSlack
    <2>1. ~Enabled => WaitsAreTheSlack
        BY DEF WaitsAreTheSlack
    <2> QED
        BY <2>1, SlackBounds
<1> QED
    BY <1>1, <1>2, <1>3, PTL DEF WaitSpec

-----------------------------------------------------------------------------
(***************************************************************************)
(* Denials.  Here nothing is asked of the eviction: an entry that starts   *)
(* full again only has more.                                               *)
(***************************************************************************)
LEMMA HaveIsAccounted ==
    ASSUME WaitTypeOK, SpentHolds, NEW ip \in IPs, NEW now \in 0..clock
    PROVE  Accounted(passed[ip], Have(ip, now), now, clock)
<1>1. clock \in Nat /\ now \in Nat
    BY DEF WaitTypeOK, TypeOK, Window!Times
<1>2. \A s \in 0..clock : passed[ip][s] \in Nat
    BY SinceType
<1> DEFINE f == [s \in 0..clock |-> passed[ip][s]]
<1>3. f \in [0..clock -> Nat] /\ \A s \in 0..clock : f[s] = passed[ip][s]
    BY <1>2
<1>4. Accounted(f, Have(ip, now), now, clock)
    <2> HIDE DEF f
    <2>1. CASE Retained(now)[ip] = NoBucket
        <3>1. Have(ip, now) = Capacity
            BY <1>1, <2>1, CapacityType DEF Have, Entry, FreshBucket, Elapsed, Refilled, Earned
        <3> QED
            BY <1>1, <1>3, <3>1, FreshIsAccounted
    <2>2. CASE Retained(now)[ip] # NoBucket
        <3>1. Retained(now)[ip] = buckets[ip]
            BY <2>2, RetainedType DEF WaitTypeOK, TypeOK
        <3>2. Have(ip, now) = Refilled(buckets[ip].tokens, Elapsed(now, buckets[ip].last))
            BY <2>2, <3>1 DEF Have, Entry
        <3>3. buckets[ip].tokens \in 0..Capacity /\ buckets[ip].last \in Nat
            BY <2>2, <3>1 DEF WaitTypeOK, TypeOK, Bucket
        <3>4. Accounted(f, buckets[ip].tokens, buckets[ip].last, clock)
            BY <1>3, <2>2, <3>1 DEF SpentHolds, Accounted
        <3> QED
            BY <1>1, <1>3, <3>2, <3>3, <3>4, RefillIsAccounted
    <2> QED
        BY <2>1, <2>2
<1> QED
    BY <1>3, <1>4 DEF Accounted

LEMMA SpentNext ==
    ASSUME Enabled, WaitTypeOK, SpentHolds, [WaitNext]_waitVars
    PROVE  SpentHolds'
<1>0. TypeOK /\ clock \in Nat
    BY DEF WaitTypeOK, TypeOK, Window!Times
<1>1. CASE Tick /\ UNCHANGED <<passed, waited>>
    BY <1>0, <1>1 DEF Tick, Window!Tick, SpentHolds, Accounted
<1>2. ASSUME NEW th \in Threads, Arrive(th), UNCHANGED <<passed, waited>> PROVE SpentHolds'
    BY <1>2 DEF SpentHolds, Accounted, Arrive
<1>3. ASSUME NEW th \in Threads, WaitCheck(th) PROVE SpentHolds'
    <2> DEFINE ip == call[th].ip
               now == call[th].now
               have == Have(ip, now)
               n == IF Allowed(th) THEN 1 ELSE 0
    <2>1. /\ ip \in IPs /\ now \in 0..clock /\ clock \in Window!Times /\ have \in 0..Capacity
          /\ Allowed(th) <=> have >= Token
          /\ clock' = clock
          /\ buckets'[ip].tokens = IF have >= Token THEN have - Token ELSE have
          /\ buckets'[ip].last = now
          /\ \A i \in IPs : i # ip => buckets'[i] = Retained(now)[i]
        BY <1>0, <1>3, CheckAnswers DEF WaitCheck, Window!Times
    <2>2. n \in Nat
        OBVIOUS
    <2>3. n = IF have >= Token THEN 1 ELSE 0
        BY <2>1
    <2>4. passed' = Booked(passed, ip, n)
        BY <1>3 DEF WaitCheck
    <2>5. Accounted(passed[ip], have, now, clock)
        BY <2>1, HaveIsAccounted
    <2> HIDE DEF ip, now, have, n
    <2>6. \A i \in IPs, s \in 0..clock :
              passed'[i][s] = IF i = ip THEN passed[i][s] + n ELSE passed[i][s]
        <3>1. Account(passed)
            BY DEF WaitTypeOK
        <3>2. \A i \in IPs, s \in Window!Times :
                  Booked(passed, ip, n)[i][s] =
                      IF i = ip /\ s <= clock THEN passed[i][s] + n ELSE passed[i][s]
            BY <2>1, <2>2, <3>1, BookedType
        <3>3. \A s \in 0..clock : s \in Window!Times /\ s <= clock
            BY <2>1 DEF Window!Times
        <3> QED
            BY <2>4, <3>2, <3>3
    <2>7. ASSUME NEW i \in IPs, i # ip, buckets'[i] # NoBucket
          PROVE  Accounted(passed'[i], buckets'[i].tokens, buckets'[i].last, clock)
        <3>1. buckets'[i] = buckets[i]
            BY <1>0, <2>1, <2>7, RetainedType DEF TypeOK
        <3>2. \A s \in 0..clock : passed'[i][s] = passed[i][s]
            BY <2>6, <2>7
        <3>3. Accounted(passed[i], buckets[i].tokens, buckets[i].last, clock)
            BY <2>7, <3>1 DEF SpentHolds
        <3> QED
            BY <3>1, <3>2, <3>3 DEF Accounted
    <2>8. Accounted(passed'[ip], buckets'[ip].tokens, buckets'[ip].last, clock)
        <3>1. PICK s \in 0..clock :
                  Token * passed[ip][s] + have >= Capacity + Earned(Elapsed(now, s))
            BY <2>5 DEF Accounted
        <3>2. Token * passed'[ip][s] + buckets'[ip].tokens = Token * passed[ip][s] + have
            <4>1. passed[ip][s] \in Nat /\ passed'[ip][s] = passed[ip][s] + n
                BY <2>1, <2>6, SinceType
            <4> QED
                BY <2>1, <2>3, <4>1, CapacityType DEF Token
        <3> QED
            BY <2>1, <3>1, <3>2 DEF Accounted
    <2>9. \A i \in IPs : buckets'[i] # NoBucket =>
              Accounted(passed'[i], buckets'[i].tokens, buckets'[i].last, clock)
        BY <2>7, <2>8
    <2> QED
        BY <2>1, <2>9 DEF SpentHolds
<1>4. CASE UNCHANGED waitVars
    BY <1>4 DEF waitVars, SpentHolds, Accounted
<1> QED
    BY <1>1, <1>2, <1>3, <1>4 DEF WaitNext

\* The second a denial is due from may be taken no later than its arrival.
LEMMA DenialIsSpent ==
    ASSUME WaitTypeOK, NEW ip \in IPs, NEW now \in 0..clock, NEW have \in 0..Capacity,
           have < Token, Accounted(passed[ip], have, now, clock)
    PROVE  \E s \in 0..now : Token * (passed[ip][s] + 1) > Capacity + Earned(now - s)
<1>1. PICK r \in 0..clock :
          Token * passed[ip][r] + have >= Capacity + Earned(Elapsed(now, r))
    BY DEF Accounted
<1> DEFINE s == IF r <= now THEN r ELSE now
<1>2. s \in 0..clock /\ s \in 0..now /\ s <= r /\ now - s = Elapsed(now, r) /\ now - s \in Nat
    BY DEF Elapsed
<1> HIDE DEF s
<1>3. passed[ip][r] \in Nat /\ passed[ip][s] \in Nat /\ r \in Window!Times /\ s \in Window!Times
    BY <1>2, SinceType
<1>4. passed[ip][r] <= passed[ip][s]
    BY <1>2, <1>3 DEF WaitTypeOK
<1>5. Earned(now - s) \in Nat /\ Token * passed[ip][r] + have >= Capacity + Earned(now - s)
    BY <1>1, <1>2, EarnedType
<1>6. Token * (passed[ip][s] + 1) > Capacity + Earned(now - s)
    BY <1>3, <1>4, <1>5, CapacityType DEF Token
<1> QED
    BY <1>2, <1>6

\* RateLimiter::check_at, with any number of threads waiting for the mutex and
\* any eviction: a request is turned away only when, since some second up to
\* its arrival, all that the burst and the time up to it are worth was let
\* through.
THEOREM LateDenialsAreDue == WaitSpec => LateDenialIsDue
<1> DEFINE Inv == WaitTypeOK /\ (Enabled => SpentHolds)
           Due(th) == \E s \in 0..call[th].now :
               Token * (passed[call[th].ip][s] + 1) > Capacity + Earned(call[th].now - s)
<1>1. WaitInit => Inv
    BY WaitInitHolds
<1>2. Inv /\ [WaitNext]_waitVars => Inv'
    <2> SUFFICES ASSUME Inv, [WaitNext]_waitVars PROVE Inv'
        OBVIOUS
    <2>1. WaitTypeOK'
        BY WaitTypeNext
    <2>2. Enabled => SpentHolds'
        BY SpentNext
    <2> QED
        BY <2>1, <2>2 DEF Enabled
<1>3. Inv => [\A th \in Threads : (WaitCheck(th) /\ ~Allowed(th)) => Due(th)]_waitVars
    <2> SUFFICES ASSUME Inv, NEW th \in Threads, WaitCheck(th), ~Allowed(th) PROVE Due(th)
        OBVIOUS
    <2> DEFINE ip == call[th].ip
               now == call[th].now
               have == Have(ip, now)
    <2>1. Enabled /\ TypeOK /\ Check(th)
        BY DEF Allowed, WaitTypeOK, WaitCheck
    <2>2. ip \in IPs /\ now \in 0..clock /\ have \in 0..Capacity /\ ~(have >= Token)
        BY <2>1, CheckAnswers
    <2>3. have < Token
        BY <2>2, CapacityType DEF Token
    <2>4. Accounted(passed[ip], have, now, clock)
        BY <2>1, <2>2, HaveIsAccounted
    <2> QED
        BY <2>2, <2>3, <2>4, DenialIsSpent
<1> QED
    BY <1>1, <1>2, <1>3, PTL DEF WaitSpec, LateDenialIsDue
=============================================================================
