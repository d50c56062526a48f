---------------------------- MODULE OperatorProofs ----------------------------
(***************************************************************************)
(* Theorems about code that keeps no state between calls: the billing      *)
(* period of an instant and the labels that one UPDATE gives out.          *)
(***************************************************************************)
EXTENDS BillingPeriod, TunnelLabels, TLAPS

\* calendar_period: every instant lies in the period it is given, and in no
\* period of another label, over the turn of a year too.  A call is counted
\* once.
THEOREM OnePeriodEach ==
    ASSUME NEW at \in Instant, NEW b \in Instant
    PROVE  Within(b, calendar_period(at))
               <=> calendar_period(b).label = calendar_period(at).label
<1>1. /\ calendar_period(at).start = First(at.year, at.month)
      /\ calendar_period(at).end =
             IF at.month = 12 THEN First(at.year + 1, 1) ELSE First(at.year, at.month + 1)
      /\ calendar_period(at).label = <<at.year, at.month>>
      /\ calendar_period(b).label = <<b.year, b.month>>
    BY DEF calendar_period, NextMonth, First
<1>2. /\ at.year \in Int /\ at.month \in 1..12
      /\ b.year \in Int /\ b.month \in 1..12 /\ b.since \in Nat
    BY DEF Instant
<1>3. Earlier(b, First(at.year, at.month))
          <=> b.year < at.year \/ (b.year = at.year /\ b.month < at.month)
    BY <1>2 DEF Earlier, First
<1>4. CASE at.month = 12
    <2>1. Earlier(b, First(at.year + 1, 1)) <=> b.year < at.year + 1
        BY <1>2 DEF Earlier, First
    <2> QED
        BY <1>1, <1>2, <1>3, <1>4, <2>1 DEF Within
<1>5. CASE at.month # 12
    <2>1. Earlier(b, First(at.year, at.month + 1))
              <=> b.year < at.year \/ (b.year = at.year /\ b.month <= at.month)
        BY <1>2 DEF Earlier, First
    <2> QED
        BY <1>1, <1>2, <1>3, <1>5, <2>1 DEF Within
<1> QED
    BY <1>4, <1>5

\* calendar_period: the end of a period is the first instant of the next one,
\* so no instant falls between two.
THEOREM PeriodsMeet ==
    ASSUME NEW at \in Instant
    PROVE  /\ calendar_period(at).end \in Instant
           /\ calendar_period(calendar_period(at).end).start = calendar_period(at).end
           /\ calendar_period(calendar_period(at).end).label # calendar_period(at).label
<1>1. at.year \in Int /\ at.month \in 1..12
    BY DEF Instant
<1>2. CASE at.month = 12
    <2>1. calendar_period(at).end = First(at.year + 1, 1)
        BY <1>2 DEF calendar_period, NextMonth, First
    <2> QED
        BY <1>1, <1>2, <2>1 DEF calendar_period, First, Instant
<1>3. CASE at.month # 12
    <2>1. calendar_period(at).end = First(at.year, at.month + 1)
        BY <1>3 DEF calendar_period, NextMonth, First
    <2> QED
        BY <1>1, <1>3, <2>1 DEF calendar_period, First, Instant
<1> QED
    BY <1>2, <1>3

-----------------------------------------------------------------------------
LEMMA OrderIsTotal ==
    ASSUME NEW t \in Tunnel, NEW u \in Tunnel, ~Before(t, u), ~Before(u, t)
    PROVE  t.org_id = u.org_id /\ t.name = u.name
BY DEF Before, Tunnel

LEMMA LabelledFields ==
    ASSUME NEW tunnels, NEW t \in Tunnel
    PROVE  /\ Labelled(tunnels, t).org_id = t.org_id
           /\ Labelled(tunnels, t).name = t.name
           /\ Labelled(tunnels, t).hostname =
                  IF Selected(tunnels, t) THEN lower[t.name] ELSE t.hostname
<1>1. CASE Selected(tunnels, t)
    <2>1. Labelled(tunnels, t) = [t EXCEPT !.hostname = lower[t.name]]
        BY <1>1 DEF Labelled
    <2> QED
        BY <1>1, <2>1 DEF Tunnel
<1>2. CASE ~Selected(tunnels, t)
    BY <1>2 DEF Labelled
<1> QED
    BY <1>1, <1>2

\* 20260916, the UPDATE: in whatever order several orgs registered one label,
\* and whoever holds it already, no two rows end with the same one.
THEOREM UpdateMeetsTheIndex ==
    ASSUME NEW tunnels \in SUBSET Tunnel, Keyed(tunnels), tunnels_hostname_uq(tunnels)
    PROVE  tunnels_hostname_uq(Updated(tunnels))
<1> SUFFICES ASSUME NEW t \in tunnels, NEW u \in tunnels,
                    Labelled(tunnels, t).hostname = Labelled(tunnels, u).hostname,
                    Labelled(tunnels, t).hostname # Null
             PROVE  t = u
    BY DEF tunnels_hostname_uq, Updated
<1>1. /\ t \in Tunnel /\ u \in Tunnel
      /\ Labelled(tunnels, t).hostname = IF Selected(tunnels, t) THEN lower[t.name] ELSE t.hostname
      /\ Labelled(tunnels, u).hostname = IF Selected(tunnels, u) THEN lower[u.name] ELSE u.hostname
    BY LabelledFields
<1>2. CASE Selected(tunnels, t) /\ Selected(tunnels, u)
    <2>1. lower[t.name] = lower[u.name]
        BY <1>1, <1>2
    <2>2. ~Before(t, u) /\ ~Before(u, t)
        BY <1>2, <2>1 DEF Selected
    <2> QED
        BY <1>1, <2>2, OrderIsTotal DEF Keyed
<1>3. CASE Selected(tunnels, t) /\ ~Selected(tunnels, u)
    BY <1>1, <1>3 DEF Selected
<1>4. CASE ~Selected(tunnels, t) /\ Selected(tunnels, u)
    BY <1>1, <1>4 DEF Selected
<1>5. CASE ~Selected(tunnels, t) /\ ~Selected(tunnels, u)
    BY <1>1, <1>5 DEF tunnels_hostname_uq
<1> QED
    BY <1>2, <1>3, <1>4, <1>5

\* "The oldest registration keeps it": of the rows that waited for a label,
\* the one that gets it is before all the others, and no row that had a label
\* loses it.
THEOREM OldestKeepsTheLabel ==
    ASSUME NEW tunnels \in SUBSET Tunnel, Keyed(tunnels),
           NEW t \in tunnels, NEW o \in tunnels
    PROVE  /\ Waits(t) /\ Labelled(tunnels, t).hostname # Null
              /\ Waits(o) /\ lower[o.name] = lower[t.name]
                  => o = t \/ Before(t, o)
           /\ t.hostname # Null => Labelled(tunnels, t) = t
<1>1. /\ t \in Tunnel /\ o \in Tunnel
      /\ Labelled(tunnels, t).hostname = IF Selected(tunnels, t) THEN lower[t.name] ELSE t.hostname
    BY LabelledFields
<1>2. ASSUME Waits(t), Labelled(tunnels, t).hostname # Null,
             Waits(o), lower[o.name] = lower[t.name], o # t
      PROVE  Before(t, o)
    <2>1. ~Before(o, t)
        BY <1>1, <1>2 DEF Selected, Waits
    <2> QED
        BY <1>1, <1>2, <2>1, OrderIsTotal DEF Keyed
<1>3. t.hostname # Null => Labelled(tunnels, t) = t
    BY DEF Labelled, Selected, Waits
<1> QED
    BY <1>2, <1>3
=============================================================================
