-------------------------- MODULE RatePollingProofs --------------------------
(***************************************************************************)
(* Proofs about RatePolling: type correctness for every rate, burst and    *)
(* bound, and that stopping an entry's age at MaxAge loses nothing.        *)
(***************************************************************************)
EXTENDS RatePolling, TLAPS

USE RateAssumption, AgesSuffice

-----------------------------------------------------------------------------
LEMMA CapacityType == Capacity \in Nat /\ Capacity >= Token
BY DEF Capacity, Token

LEMMA EarnedType == \A d \in Nat : Earned(d) \in Nat
BY DEF Earned

LEMMA EarnedGrows == \A d, e \in Nat : d <= e => Earned(d) <= Earned(e)
<1> SUFFICES ASSUME NEW d \in Nat, NEW e \in Nat, d <= e PROVE Earned(d) <= Earned(e)
    OBVIOUS
<1>1. e - d \in Nat /\ Earned(e - d) \in Nat
    BY EarnedType
<1>2. Earned(e) = Earned(d) + Earned(e - d)
    BY <1>1 DEF Earned
<1> QED
    BY <1>1, <1>2, EarnedType

LEMMA RefilledType ==
    \A tokens \in 0..Capacity, d \in Nat : Refilled(tokens, d) \in 0..Capacity
BY CapacityType, EarnedType DEF Refilled

LEMMA BetweenType == \A a, w \in Nat : Between(a, w) \in Nat
BY DEF Between

LEMMA TakeType == \A have \in 0..Capacity : Take(have).tokens \in 0..Capacity
<1> SUFFICES ASSUME NEW have \in 0..Capacity PROVE Take(have).tokens \in 0..Capacity
    OBVIOUS
<1>1. Take(have).tokens = IF have >= Token THEN have - Token ELSE have
    BY DEF Take
<1> QED
    BY <1>1, CapacityType DEF Token

\* An entry of any age, and its age as the model keeps it.
Kept(age) == IF age < MaxAge THEN age ELSE MaxAge

\* check_at: the sweep and the refill treat an entry by the age the model
\* keeps as they would by its true one, whichever second passes.  So the bound
\* on ages hides no behaviour.
THEOREM KeptAgesAnswerAlike ==
    ASSUME NEW age \in Nat, NEW w \in 0..MaxWait, NEW tokens \in 0..Capacity
    PROVE  /\ Kept(age + 1) = Older(Kept(age))
           /\ Between(age, w) < IDLE_EVICT <=> Between(Kept(age), w) < IDLE_EVICT
           /\ Refilled(tokens, Between(age, w)) = Refilled(tokens, Between(Kept(age), w))
<1>1. Kept(age + 1) = Older(Kept(age))
    BY DEF Kept, Older
<1>2. CASE age < MaxAge
    BY <1>1, <1>2 DEF Kept
<1>3. CASE age >= MaxAge
    <2>1. Kept(age) = MaxAge
        BY <1>3 DEF Kept
    <2>2. /\ Between(MaxAge, w) \in Nat /\ Between(MaxAge, w) >= MaxAge - MaxWait
          /\ Between(age, w) \in Nat /\ Between(age, w) >= MaxAge - MaxWait
        BY <1>3 DEF Between
    <2>3. MaxAge - MaxWait \in Nat /\ MaxAge - MaxWait >= IDLE_EVICT
        OBVIOUS
    <2>4. ASSUME NEW d \in Nat, d >= MaxAge - MaxWait
          PROVE  Refilled(tokens, d) = Capacity
        <3>1. Earned(d) \in Nat /\ Earned(d) >= Earned(MaxAge - MaxWait)
            BY <2>3, <2>4, EarnedType, EarnedGrows
        <3>2. Earned(MaxAge - MaxWait) \in Nat
            BY <2>3, EarnedType
        <3> QED
            BY <3>1, <3>2, CapacityType DEF Refilled
    <2> QED
        BY <1>1, <2>1, <2>2, <2>3, <2>4
<1> QED
    BY <1>2, <1>3

-----------------------------------------------------------------------------
LEMMA HaveType ==
    ASSUME TypeOK, NEW ip \in IPs, NEW age \in 0..MaxWait
    PROVE  Have(ip, age) \in 0..Capacity
<1>1. Retained(age)[ip] \in {entries[ip], NoBucket}
    BY DEF Retained
<1>2. CASE Retained(age)[ip] = NoBucket
    BY <1>2, CapacityType DEF Have
<1>3. CASE Retained(age)[ip] # NoBucket
    <2>1. /\ Retained(age)[ip] = entries[ip]
          /\ entries[ip].tokens \in 0..Capacity /\ entries[ip].age \in Nat
        BY <1>1, <1>3 DEF TypeOK
    <2>2. Between(entries[ip].age, age) \in Nat
        <3>1. age \in Nat
            OBVIOUS
        <3> QED
            BY <2>1, <3>1, BetweenType
    <2>3. Have(ip, age) = Refilled(entries[ip].tokens, Between(entries[ip].age, age))
        BY <1>3, <2>1 DEF Have
    <2> QED
        BY <2>1, <2>2, <2>3, RefilledType
<1> QED
    BY <1>2, <1>3

LEMMA TypeNext == TypeOK /\ [Next]_vars => TypeOK'
<1> SUFFICES ASSUME TypeOK, [Next]_vars PROVE TypeOK'
    OBVIOUS
<1> USE DEF TypeOK
<1>1. CASE Tick
    <2>1. ASSUME NEW ip \in IPs
          PROVE  entries'[ip] \in [tokens : 0..Capacity, age : 0..MaxAge] \cup {NoBucket}
        BY <1>1 DEF Tick, Older
    <2>2. ASSUME NEW th \in Threads
          PROVE  calls'[th] \in [ip : IPs, age : 0..MaxWait] \cup {Idle}
        BY <1>1 DEF Tick
    <2>3. /\ entries' = [ip \in IPs |-> entries'[ip]]
          /\ calls' = [th \in Threads |-> calls'[th]]
        BY <1>1 DEF Tick
    <2> QED
        BY <2>1, <2>2, <2>3
<1>2. ASSUME NEW th \in Threads, Arrive(th) PROVE TypeOK'
    BY <1>2 DEF Arrive
<1>3. ASSUME NEW th \in Threads, Check(th) PROVE TypeOK'
    <2>1. calls[th].ip \in IPs /\ calls[th].age \in 0..MaxWait
        BY <1>3 DEF Check
    <2>2. Verdict(th).tokens \in 0..Capacity
        BY <2>1, HaveType, TakeType DEF Verdict
    <2>3. Retained(calls[th].age)
              \in [IPs -> [tokens : 0..Capacity, age : 0..MaxAge] \cup {NoBucket}]
        BY DEF Retained
    <2>4. calls[th].age \in 0..MaxAge
        BY <2>1
    <2> QED
        BY <1>3, <2>1, <2>2, <2>3, <2>4 DEF Check
<1>4. CASE UNCHANGED vars
    BY <1>4 DEF vars
<1> QED
    BY <1>1, <1>2, <1>3, <1>4 DEF Next

\* RatePolling: every bucket stays between zero and the burst and every age
\* within its bound, with the instants of the callers in any order.
THEOREM TypeCorrect == Spec => []TypeOK
<1>1. Init => TypeOK
    BY DEF Init, TypeOK
<1> QED
    BY <1>1, TypeNext, PTL DEF Spec
=============================================================================
