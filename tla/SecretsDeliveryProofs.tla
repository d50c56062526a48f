------------------------ MODULE SecretsDeliveryProofs ------------------------
(***************************************************************************)
(* That the digest of a registry names it: what two sides hash is the same *)
(* text exactly when they hold the same set, as long as no value has a     *)
(* line feed, whichever account of its digest the gateway follows.         *)
(***************************************************************************)
EXTENDS SecretsDelivery, FiniteSetTheorems, TLAPS

\* Induction from the last name to the first: a set that holds the end and,
\* with any place, the one before it holds every place.
LEMMA FromTheEnd ==
    ASSUME NEW n \in Nat, NEW T, n + 1 \in T,
           \A k \in 1..n : k + 1 \in T => k \in T
    PROVE  1..n + 1 \subseteq T
<1> DEFINE Missed == {m \in Nat : m <= n /\ n + 1 - m \notin T}
<1>1. SUFFICES ASSUME Missed # {} PROVE FALSE
    <2>1. SUFFICES ASSUME NEW k \in 1..n + 1, k \notin T PROVE FALSE
        OBVIOUS
    <2>2. n + 1 - k \in Missed
        BY <2>1
    <2> QED BY <1>1, <2>2
<1>2. PICK m \in Missed : \A l \in Missed : ~ (<<l, m>> \in OpToRel(<, Nat))
    <2>1. Missed \subseteq Nat
        OBVIOUS
    <2> HIDE DEF Missed
    <2> QED BY <1>1, <2>1, NatLessThanWellFounded, WFMin
<1>3. \A l \in Missed : ~ (l < m)
    BY <1>2 DEF OpToRel
<1>4. m \in Nat /\ m <= n /\ n + 1 - m \notin T
    BY <1>2
<1>5. m - 1 \in Missed
    <2>1. m # 0
        <3>1. m = 0 => n + 1 - m = n + 1
            BY <1>4
        <3> QED BY <1>4, <3>1
    <2>2. n + 1 - m \in 1..n /\ n + 1 - (m - 1) = (n + 1 - m) + 1
        BY <1>4, <2>1
    <2> QED BY <1>4, <2>1, <2>2
<1> QED BY <1>3, <1>4, <1>5

-----------------------------------------------------------------------------
LEMMA NamesAreSymbols ==
    /\ Len(Names) \in Nat /\ DOMAIN Names = 1..Len(Names)
    /\ \A k \in 1..Len(Names) : Names[k] \in Symbols
    /\ Eq \in Symbols /\ Newline \in Symbols
BY SymbolsSpell

\* One round of the loop of secrets_digest.
LEMMA Rounds ==
    ASSUME NEW set, NEW keys
    PROVE  /\ Hashed(set, keys)[Len(Names) + 1] = <<>>
           /\ \A k \in 1..Len(Names) :
                  /\ Names[k] \in keys
                         => Hashed(set, keys)[k] =
                                Line(Names[k], set[Names[k]]) \o Hashed(set, keys)[k + 1]
                  /\ Names[k] \notin keys
                         => Hashed(set, keys)[k] = Hashed(set, keys)[k + 1]
<1>0. Len(Names) \in Nat
    BY NamesAreSymbols
<1> DEFINE n == Len(Names)
           Step(g, k) == IF k > Len(Names) THEN <<>>
                         ELSE IF Names[k] \in keys
                         THEN Line(Names[k], set[Names[k]]) \o g[k + 1]
                         ELSE g[k + 1]
           Fixed(g, k) == g = [i \in k..n + 1 |-> Step(g, i)]
           Done == {k \in 1..n + 1 : \E g : Fixed(g, k)}
<1>1. Hashed(set, keys) = CHOOSE g : g = [k \in 1..n + 1 |-> Step(g, k)]
    BY DEF Hashed
<1>2. n + 1 \in Done
    <2>1. \A i \in n + 1..n + 1 : i > n
        OBVIOUS
    <2>2. Fixed([i \in n + 1..n + 1 |-> <<>>], n + 1)
        BY <2>1
    <2> HIDE DEF Fixed
    <2> QED BY <2>2
<1>3. ASSUME NEW k \in 1..n, k + 1 \in Done PROVE k \in Done
    <2>1. PICK g : Fixed(g, k + 1)
        <3> HIDE DEF Fixed
        <3> QED BY <1>3
    <2> DEFINE h == [i \in k..n + 1 |-> IF i = k THEN Step(g, k) ELSE g[i]]
    <2>2. \A i \in k..n : h[i + 1] = g[i + 1]
        OBVIOUS
    <2>3. \A i \in k..n + 1 : Step(h, i) = Step(g, i)
        BY <2>2
    <2>4. \A i \in k..n + 1 : h[i] = Step(g, i)
        <3>1. \A i \in k..n + 1 : i = k \/ i \in k + 1..n + 1
            OBVIOUS
        <3>2. \A i \in k + 1..n + 1 : g[i] = Step(g, i)
            <4> HIDE DEF Step
            <4> QED BY <2>1
        <3> HIDE DEF Step
        <3> QED BY <3>1, <3>2
    <2>5. Fixed(h, k)
        <3> HIDE DEF Step
        <3> QED BY <2>3, <2>4
    <2> HIDE DEF Fixed, h
    <2> QED BY <2>5
<1>4. 1 \in Done
    <2> HIDE DEF Done
    <2>1. 1..n + 1 \subseteq Done
        BY <1>2, <1>3, FromTheEnd
    <2> QED BY <2>1
<1>5. \E g : g = [k \in 1..n + 1 |-> Step(g, k)]
    BY <1>4
<1>6. Hashed(set, keys) = [k \in 1..n + 1 |-> Step(Hashed(set, keys), k)]
    <2> HIDE DEF Step
    <2> QED BY <1>1, <1>5
<1>7. Hashed(set, keys)[n + 1] = <<>>
    BY <1>0, <1>6
<1>8. ASSUME NEW k \in 1..n
      PROVE  /\ Names[k] \in keys
                    => Hashed(set, keys)[k] =
                           Line(Names[k], set[Names[k]]) \o Hashed(set, keys)[k + 1]
             /\ Names[k] \notin keys
                    => Hashed(set, keys)[k] = Hashed(set, keys)[k + 1]
    <2>1. k \in 1..n + 1 /\ ~ (k > n)
        BY <1>0
    <2>2. Hashed(set, keys)[k] = Step(Hashed(set, keys), k)
        <3> HIDE DEF Step
        <3> QED BY <1>6, <2>1
    <2> QED BY <2>1, <2>2, Zenon
<1> QED BY <1>7, <1>8

\* The sets a side may hold: a value for each of some names.
Sets == UNION {[keys -> Values] : keys \in SUBSET ToSet(Names)}

LEMMA SetsSpell ==
    ASSUME NEW set \in Sets
    PROVE  /\ DOMAIN set \subseteq ToSet(Names)
           /\ set = [n \in DOMAIN set |-> set[n]]
           /\ \A n \in DOMAIN set : set[n] \in Values /\ set[n] \in Seq(Symbols)
BY SymbolsSpell DEF Sets

LEMMA Concatenated ==
    ASSUME NEW S, NEW a \in Seq(S), NEW b \in Seq(S)
    PROVE  /\ a \o b \in Seq(S)
           /\ Len(a \o b) = Len(a) + Len(b)
           /\ \A i \in 1..Len(a) : (a \o b)[i] = a[i]
           /\ \A i \in 1..Len(b) : (a \o b)[Len(a) + i] = b[i]
OBVIOUS

LEMMA SameTexts ==
    ASSUME NEW S, NEW a \in Seq(S), NEW b \in Seq(S), Len(a) = Len(b),
           \A i \in 1..Len(a) : a[i] = b[i]
    PROVE  a = b
<1>1. /\ a = [i \in 1..Len(a) |-> a[i]]
      /\ b = [i \in 1..Len(b) |-> b[i]]
    OBVIOUS
<1> QED BY <1>1

\* Where the parts of a line are.
LEMMA LineLayout ==
    ASSUME NEW n \in Symbols, NEW v \in Seq(Symbols)
    PROVE  /\ Line(n, v) \in Seq(Symbols)
           /\ Len(Line(n, v)) = Len(v) + 3
           /\ Line(n, v)[1] = n
           /\ \A i \in 1..Len(v) : Line(n, v)[i + 2] = v[i]
           /\ Line(n, v)[Len(v) + 3] = Newline
<1> DEFINE head == <<n, Eq>> \o v
           line == head \o <<Newline>>
<1>1. /\ head \in Seq(Symbols) /\ Len(head) = Len(v) + 2
      /\ head[1] = n
      /\ \A i \in 1..Len(v) : head[i + 2] = v[i]
    BY NamesAreSymbols
<1>2. /\ line \in Seq(Symbols) /\ Len(line) = Len(v) + 3
      /\ \A i \in 1..Len(v) + 2 : line[i] = head[i]
      /\ line[Len(v) + 3] = Newline
    <2> HIDE DEF head
    <2> QED BY <1>1, NamesAreSymbols
<1>3. line[1] = n /\ \A i \in 1..Len(v) : line[i + 2] = v[i]
    <2> HIDE DEF head, line
    <2>1. line[1] = n
        BY <1>1, <1>2
    <2>2. ASSUME NEW i \in 1..Len(v) PROVE line[i + 2] = v[i]
        <3>1. i + 2 \in 1..Len(v) + 2
            OBVIOUS
        <3> QED BY <1>1, <1>2, <3>1
    <2> QED BY <2>1, <2>2
<1> QED BY <1>2, <1>3 DEF Line

LEMMA LineBegins ==
    ASSUME NEW n \in Symbols, NEW v \in Seq(Symbols), NEW rest \in Seq(Symbols),
           NEW text, text = Line(n, v) \o rest
    PROVE  text \in Seq(Symbols) /\ text # <<>> /\ text[1] = n
<1> DEFINE line == Line(n, v)
<1>1. line \in Seq(Symbols) /\ Len(line) = Len(v) + 3 /\ line[1] = n
    BY LineLayout
<1> HIDE DEF line
<1>2. text = line \o rest
    BY DEF line
<1> QED BY <1>1, <1>2

\* The first line feed ends a line: equal texts have equal first values and
\* equal rests.
LEMMA LinesEnd ==
    ASSUME NEW n \in Symbols,
           NEW v \in Seq(Symbols), NEW w \in Seq(Symbols),
           NEW x \in Seq(Symbols), NEW y \in Seq(Symbols),
           Newline \notin ToSet(v), Newline \notin ToSet(w),
           Line(n, v) \o x = Line(n, w) \o y
    PROVE  v = w /\ x = y
<1> DEFINE l == Line(n, v)
           m == Line(n, w)
           a == l \o x
           b == m \o y
<1>0. /\ l \in Seq(Symbols) /\ Len(l) = Len(v) + 3
      /\ \A i \in 1..Len(v) : l[i + 2] = v[i]
      /\ l[Len(v) + 3] = Newline
      /\ m \in Seq(Symbols) /\ Len(m) = Len(w) + 3
      /\ \A i \in 1..Len(w) : m[i + 2] = w[i]
      /\ m[Len(w) + 3] = Newline
    BY LineLayout
<1>1. /\ Len(a) = Len(v) + 3 + Len(x)
      /\ \A i \in 1..Len(v) : a[i + 2] = v[i]
      /\ a[Len(v) + 3] = Newline
      /\ \A i \in 1..Len(x) : a[Len(v) + 3 + i] = x[i]
    <2> HIDE DEF l
    <2>0. l \in Seq(Symbols)
        BY <1>0
    <2>1. /\ Len(a) = Len(l) + Len(x)
          /\ \A i \in 1..Len(l) : a[i] = l[i]
          /\ \A i \in 1..Len(x) : a[Len(l) + i] = x[i]
        BY <2>0, Concatenated
    <2> HIDE DEF a
    <2>2. \A i \in 1..Len(v) : i + 2 \in 1..Len(l)
        BY <1>0
    <2> QED BY <1>0, <2>1, <2>2
<1>2. /\ Len(b) = Len(w) + 3 + Len(y)
      /\ \A i \in 1..Len(w) : b[i + 2] = w[i]
      /\ b[Len(w) + 3] = Newline
      /\ \A i \in 1..Len(y) : b[Len(w) + 3 + i] = y[i]
    <2> HIDE DEF m
    <2>0. m \in Seq(Symbols)
        BY <1>0
    <2>1. /\ Len(b) = Len(m) + Len(y)
          /\ \A i \in 1..Len(m) : b[i] = m[i]
          /\ \A i \in 1..Len(y) : b[Len(m) + i] = y[i]
        BY <2>0, Concatenated
    <2> HIDE DEF b
    <2>2. \A i \in 1..Len(w) : i + 2 \in 1..Len(m)
        BY <1>0
    <2> QED BY <1>0, <2>1, <2>2
<1>3. a = b
    OBVIOUS
<1>4. /\ \A i \in 1..Len(v) : v[i] # Newline
      /\ \A i \in 1..Len(w) : w[i] # Newline
    BY DEF ToSet
<1> HIDE DEF a, b
<1>5. Len(v) = Len(w)
    <2>1. ~ (Len(v) < Len(w))
        <3> SUFFICES ASSUME Len(v) < Len(w) PROVE FALSE
            OBVIOUS
        <3>1. Len(v) + 1 \in 1..Len(w) /\ (Len(v) + 1) + 2 = Len(v) + 3
            OBVIOUS
        <3>2. b[Len(v) + 3] = w[Len(v) + 1]
            BY <1>2, <3>1
        <3> QED BY <1>1, <1>3, <1>4, <3>1, <3>2
    <2>2. ~ (Len(w) < Len(v))
        <3> SUFFICES ASSUME Len(w) < Len(v) PROVE FALSE
            OBVIOUS
        <3>1. Len(w) + 1 \in 1..Len(v) /\ (Len(w) + 1) + 2 = Len(w) + 3
            OBVIOUS
        <3>2. a[Len(w) + 3] = v[Len(w) + 1]
            BY <1>1, <3>1
        <3> QED BY <1>2, <1>3, <1>4, <3>1, <3>2
    <2> QED BY <2>1, <2>2
<1>6. Len(x) = Len(y)
    BY <1>1, <1>2, <1>3, <1>5
<1>7. \A i \in 1..Len(v) : v[i] = w[i]
    BY <1>1, <1>2, <1>3, <1>5
<1>8. \A i \in 1..Len(x) : x[i] = y[i]
    BY <1>1, <1>2, <1>3, <1>5, <1>6
<1> QED
    <2>1. v = w
        BY <1>5, <1>7, SameTexts
    <2>2. x = y
        BY <1>6, <1>8, SameTexts
    <2> QED BY <2>1, <2>2

-----------------------------------------------------------------------------
\* What is hashed of a whole set, by the place it is hashed from.
Text(set) == Hashed(set, DOMAIN set)

OneLine(set) == \A n \in DOMAIN set : Newline \notin ToSet(set[n])

LEMMA TextEnds ==
    ASSUME NEW set
    PROVE  Text(set)[Len(Names) + 1] = <<>>
BY Rounds DEF Text

LEMMA TextHas ==
    ASSUME NEW set, NEW k \in 1..Len(Names), Names[k] \in DOMAIN set
    PROVE  Text(set)[k] = Line(Names[k], set[Names[k]]) \o Text(set)[k + 1]
BY Rounds DEF Text

LEMMA TextSkips ==
    ASSUME NEW set, NEW k \in 1..Len(Names), Names[k] \notin DOMAIN set
    PROVE  Text(set)[k] = Text(set)[k + 1]
BY Rounds DEF Text

\* What is hashed from the k-th name on is empty or begins with a name from
\* there on.
Begins(text, k) ==
    /\ text \in Seq(Symbols)
    /\ text # <<>> => \E j \in k..Len(Names) : text[1] = Names[j]

LEMMA EntryBegins ==
    ASSUME NEW set \in Sets, NEW k \in 1..Len(Names),
           NEW rest \in Seq(Symbols), NEW text, Names[k] \in DOMAIN set,
           text = Line(Names[k], set[Names[k]]) \o rest
    PROVE  text \in Seq(Symbols) /\ text # <<>> /\ text[1] = Names[k]
<1> DEFINE n == Names[k]
           v == set[Names[k]]
<1>1. n \in Symbols /\ v \in Seq(Symbols) /\ text = Line(n, v) \o rest
    BY SetsSpell, NamesAreSymbols
<1> HIDE DEF n, v
<1>2. text \in Seq(Symbols) /\ text # <<>> /\ text[1] = n
    BY <1>1, LineBegins
<1> QED BY <1>2 DEF n

LEMMA TextsBegin ==
    ASSUME NEW set \in Sets, NEW k \in 1..Len(Names) + 1
    PROVE  Begins(Text(set)[k], k)
<1> DEFINE All == {i \in 1..Len(Names) + 1 : Begins(Text(set)[i], i)}
<1>1. Len(Names) \in Nat
    BY NamesAreSymbols
<1>2. Len(Names) + 1 \in All
    <2>1. Begins(<<>>, Len(Names) + 1)
        BY DEF Begins
    <2> QED BY <1>1, <2>1, TextEnds
<1>3. ASSUME NEW i \in 1..Len(Names), i + 1 \in All PROVE i \in All
    <2>1. Begins(Text(set)[i + 1], i + 1)
        BY <1>3
    <2>2. CASE Names[i] \in DOMAIN set
        <3>1. Text(set)[i + 1] \in Seq(Symbols)
            BY <2>1 DEF Begins
        <3>2. Text(set)[i] \in Seq(Symbols) /\ Text(set)[i][1] = Names[i]
            <4>1. Text(set)[i] = Line(Names[i], set[Names[i]]) \o Text(set)[i + 1]
                BY <2>2, TextHas
            <4> QED BY <2>2, <3>1, <4>1, EntryBegins
        <3> QED BY <1>1, <3>2 DEF Begins
    <2>3. CASE Names[i] \notin DOMAIN set
        <3>1. Text(set)[i] = Text(set)[i + 1]
            BY <2>3, TextSkips
        <3> QED BY <1>1, <2>1, <3>1 DEF Begins
    <2> QED BY <2>2, <2>3
<1>4. k \in All
    <2> HIDE DEF All
    <2> QED BY <1>1, <1>2, <1>3, FromTheEnd
<1> QED BY <1>4

\* Two sets that hash alike from a name on agree on that name, and hash alike
\* from the next.
Same(s, t, n) ==
    /\ n \in DOMAIN s <=> n \in DOMAIN t
    /\ n \in DOMAIN s => s[n] = t[n]

LEMMA OneIsTold ==
    ASSUME NEW s \in Sets, NEW t \in Sets, OneLine(s), OneLine(t),
           NEW k \in 1..Len(Names), Text(s)[k] = Text(t)[k]
    PROVE  Same(s, t, Names[k]) /\ Text(s)[k + 1] = Text(t)[k + 1]
<1> DEFINE a == Text(s)[k + 1]
           b == Text(t)[k + 1]
<1>1. Len(Names) \in Nat /\ DOMAIN Names = 1..Len(Names) /\ k + 1 \in 1..Len(Names) + 1
    BY NamesAreSymbols
<1>2. Begins(a, k + 1) /\ Begins(b, k + 1)
    BY <1>1, TextsBegin
<1> HIDE DEF a, b
<1>3. \A j \in k + 1..Len(Names) : Names[j] # Names[k]
    BY <1>1, NamesAreKeys DEF IsInjective
<1>4. a \in Seq(Symbols)
    BY <1>2 DEF Begins
<1>5. b \in Seq(Symbols)
    BY <1>2 DEF Begins
<1>6. CASE Names[k] \in DOMAIN s /\ Names[k] \in DOMAIN t
    <2> DEFINE n == Names[k]
               v == s[Names[k]]
               w == t[Names[k]]
    <2>1. n \in Symbols
        BY NamesAreSymbols
    <2>2. v \in Seq(Symbols)
        BY <1>6, SetsSpell
    <2>3. w \in Seq(Symbols)
        BY <1>6, SetsSpell
    <2>4. Newline \notin ToSet(v) /\ Newline \notin ToSet(w)
        BY <1>6 DEF OneLine
    <2>5. Text(s)[k] = Line(n, v) \o a
        BY <1>6, TextHas DEF a
    <2>6. Text(t)[k] = Line(n, w) \o b
        BY <1>6, TextHas DEF b
    <2> HIDE DEF n, v, w
    <2>7. Line(n, v) \o a = Line(n, w) \o b
        BY <2>5, <2>6, Zenon
    <2>8. v = w /\ a = b
        BY <1>4, <1>5, <2>1, <2>2, <2>3, <2>4, <2>7, LinesEnd
    <2> QED BY <1>6, <2>8 DEF v, w, a, b, Same
<1>7. CASE Names[k] \in DOMAIN s /\ Names[k] \notin DOMAIN t
    <2>1. b = Text(s)[k]
        BY <1>7, TextSkips DEF b
    <2>2. b = Line(Names[k], s[Names[k]]) \o a
        BY <1>7, <2>1, TextHas, Zenon DEF a
    <2>3. b # <<>> /\ b[1] = Names[k]
        BY <1>4, <1>7, <2>2, EntryBegins
    <2> QED BY <1>2, <1>3, <2>3 DEF Begins
<1>8. CASE Names[k] \notin DOMAIN s /\ Names[k] \in DOMAIN t
    <2>1. a = Text(t)[k]
        BY <1>8, TextSkips DEF a
    <2>2. a = Line(Names[k], t[Names[k]]) \o b
        BY <1>8, <2>1, TextHas, Zenon DEF b
    <2>3. a # <<>> /\ a[1] = Names[k]
        BY <1>5, <1>8, <2>2, EntryBegins
    <2> QED BY <1>2, <1>3, <2>3 DEF Begins
<1>9. CASE Names[k] \notin DOMAIN s /\ Names[k] \notin DOMAIN t
    <2>1. Text(s)[k] = a /\ Text(t)[k] = b
        BY <1>9, TextSkips DEF a, b
    <2> QED BY <1>9, <2>1 DEF Same, a, b
<1> QED BY <1>6, <1>7, <1>8, <1>9

\* secrets_digest tells any two sets apart whose values are of one line: its
\* text, read from the front, gives back each name and each value.
THEOREM DigestNamesTheSet ==
    ASSUME NEW s \in Sets, NEW t \in Sets, OneLine(s), OneLine(t),
           Text(s)[1] = Text(t)[1]
    PROVE  s = t
<1> DEFINE Told(k) == Text(s)[k] = Text(t)[k]
                          => \A j \in k..Len(Names) : Same(s, t, Names[j])
           All == {k \in 1..Len(Names) + 1 : Told(k)}
<1>1. Len(Names) \in Nat /\ DOMAIN Names = 1..Len(Names)
    BY NamesAreSymbols
<1>2. Len(Names) + 1 \in All
    BY <1>1
<1>3. ASSUME NEW k \in 1..Len(Names), k + 1 \in All PROVE k \in All
    <2>1. Told(k + 1)
        BY <1>3
    <2>2. Text(s)[k] = Text(t)[k]
              => Same(s, t, Names[k]) /\ Text(s)[k + 1] = Text(t)[k + 1]
        BY OneIsTold
    <2>3. \A j \in k..Len(Names) : j = k \/ j \in k + 1..Len(Names)
        BY <1>1
    <2>4. Told(k)
        BY <2>1, <2>2, <2>3
    <2> QED BY <1>1, <2>4
<1>4. 1 \in All
    <2> HIDE DEF All
    <2>1. 1..Len(Names) + 1 \subseteq All
        BY <1>1, <1>2, <1>3, FromTheEnd
    <2> QED BY <1>1, <2>1
<1>5. \A j \in 1..Len(Names) : Same(s, t, Names[j])
    BY <1>4
<1>6. \A n \in ToSet(Names) : Same(s, t, n)
    BY <1>1, <1>5 DEF ToSet
<1>7. DOMAIN s = DOMAIN t /\ \A n \in DOMAIN s : s[n] = t[n]
    BY <1>6, SetsSpell DEF Same
<1> QED BY <1>7, SetsSpell

-----------------------------------------------------------------------------
LEMMA NamesAreFinite == IsFiniteSet(ToSet(Names))
<1>1. Names \in Surjection(1..Len(Names), ToSet(Names))
    <2>1. DOMAIN Names = 1..Len(Names) /\ Names = [k \in 1..Len(Names) |-> Names[k]]
        BY SymbolsSpell
    <2>2. \A k \in 1..Len(Names) : Names[k] \in ToSet(Names)
        BY <2>1 DEF ToSet
    <2>3. Names \in [1..Len(Names) -> ToSet(Names)]
        BY <2>1, <2>2
    <2>4. \A n \in ToSet(Names) : \E k \in 1..Len(Names) : Names[k] = n
        BY <2>1 DEF ToSet
    <2> QED BY <2>3, <2>4 DEF Surjection
<1>2. IsFiniteSet(1..Len(Names))
    BY NamesAreSymbols, FS_Interval
<1> QED BY <1>1, <1>2, FS_Surjection

\* Whatever order a side iterates in, it goes through all of its keys.
LEMMA IterationsCover ==
    ASSUME NEW set \in Sets, NEW names \in Iterations(set)
    PROVE  ToSet(names) = DOMAIN set
<1> DEFINE n == Cardinality(DOMAIN set)
<1>1. IsFiniteSet(DOMAIN set)
    BY NamesAreFinite, SetsSpell, FS_Subset
<1>2. n \in Nat
    BY <1>1, FS_CardinalityType
<1>3. IsFiniteSet(1..n) /\ Cardinality(1..n) = n
    BY <1>2, FS_Interval
<1>4. names \in Injection(1..n, DOMAIN set)
    BY DEF Iterations, SetToSeqs, Injection, IsInjective
<1>5. names \in Surjection(1..n, DOMAIN set)
    BY <1>1, <1>3, <1>4, FS_Injection
<1> QED BY <1>5 DEF Surjection, ToSet

LEMMA DigestIsText ==
    ASSUME NEW set \in Sets, NEW names \in Iterations(set)
    PROVE  Digest(set, names) = Text(set)[1]
BY IterationsCover DEF Digest, Text

\* What a gateway runs: a set, and the keys of it that its config resolves.
Runs == {run \in [directory : Sets, uses : SUBSET ToSet(Names)] :
            run.uses \subseteq DOMAIN run.directory}

LEMMA SentIsASet ==
    ASSUME NEW run \in Runs
    PROVE  Sent(run) \in Sets
<1>1. run.directory \in Sets /\ run.uses \in SUBSET ToSet(Names)
    BY DEF Runs
<1>2. \A n \in run.uses : run.directory[n] \in Values
    BY <1>1, SetsSpell DEF Runs
<1>3. [n \in run.uses |-> run.directory[n]] \in [run.uses -> Values]
    BY <1>2
<1>4. [n \in run.uses |-> run.directory[n]] \in Sets
    BY <1>1, <1>3 DEF Sets
<1> QED BY <1>1, <1>4 DEF Sent

\* What every side holds is a set, and the last report is the digest of what
\* the gateway sent then.
Reported ==
    /\ registered \in Sets /\ mounted \in Sets
    /\ running \in Runs /\ reportOf \in Runs
    /\ reported = Text(Sent(reportOf))[1]
    /\ reading \in {"directory", "resolved"}

LEMMA NothingIsHashed == NoSecrets \in Sets /\ Text(NoSecrets)[1] = <<>>
<1> DEFINE All == {k \in 1..Len(Names) + 1 : Text(NoSecrets)[k] = <<>>}
<1>1. Len(Names) \in Nat
    BY NamesAreSymbols
<1>2. DOMAIN NoSecrets = {} /\ NoSecrets \in [{} -> Values]
    BY DEF NoSecrets
<1>3. Len(Names) + 1 \in All
    BY <1>1, TextEnds
<1>4. ASSUME NEW k \in 1..Len(Names), k + 1 \in All PROVE k \in All
    <2>1. Text(NoSecrets)[k] = Text(NoSecrets)[k + 1]
        BY <1>2, TextSkips
    <2> QED BY <1>1, <1>4, <2>1
<1>5. 1 \in All
    <2> HIDE DEF All
    <2>1. 1..Len(Names) + 1 \subseteq All
        BY <1>1, <1>3, <1>4, FromTheEnd
    <2> QED BY <1>1, <2>1
<1>6. {} \in SUBSET ToSet(Names)
    OBVIOUS
<1> QED BY <1>2, <1>5, <1>6 DEF Sets

LEMMA NothingIsRun == Nothing \in Runs /\ Sent(Nothing) = NoSecrets
<1>1. Nothing.directory = NoSecrets /\ Nothing.uses = {}
    BY DEF Nothing
<1>2. Nothing \in Runs
    BY <1>1, NothingIsHashed DEF Nothing, Runs
<1>3. [n \in Nothing.uses |-> Nothing.directory[n]] = NoSecrets
    BY <1>1 DEF NoSecrets
<1> QED BY <1>1, <1>2, <1>3 DEF Sent

\* The sets and the reported digest, through every order of registrations,
\* deliveries, reloads and reports (all the actions of Next).
THEOREM ReportsAreDigests == Spec => []Reported
<1>1. Init => Reported
    BY NothingIsHashed, NothingIsRun, ReadingsAreTold DEF Init, Reported
<1>2. ASSUME Reported, [Next]_vars PROVE Reported'
    <2>1. ASSUME NEW n \in ToSet(Names), Unregister(n) PROVE Reported'
        <3>1. registered' \in Sets
            <4>1. DOMAIN registered \ {n} \in SUBSET ToSet(Names)
                BY <1>2, SetsSpell DEF Reported
            <4>2. registered' \in [DOMAIN registered \ {n} -> Values]
                BY <1>2, <2>1, SetsSpell DEF Reported, Unregister
            <4> QED BY <4>1, <4>2 DEF Sets
        <3> QED BY <1>2, <2>1, <3>1 DEF Reported, Unregister, Sent
    <2>2. ASSUME NEW n \in ToSet(Names), NEW v \in Values, Register(n, v) PROVE Reported'
        <3>1. registered' \in Sets
            <4>1. DOMAIN registered \cup {n} \in SUBSET ToSet(Names)
                BY <1>2, SetsSpell DEF Reported
            <4>2. registered' \in [DOMAIN registered \cup {n} -> Values]
                BY <1>2, <2>2, SetsSpell DEF Reported, Register
            <4> QED BY <4>1, <4>2 DEF Sets
        <3> QED BY <1>2, <2>2, <3>1 DEF Reported, Register, Sent
    <2>3. CASE Deliver
        BY <1>2, <2>3 DEF Deliver, Reported, Sent
    <2>4. CASE Reload
        <3>1. PICK uses \in SUBSET DOMAIN mounted :
                  running' = [directory |-> mounted, uses |-> uses]
            BY <2>4 DEF Reload
        <3>2. uses \in SUBSET ToSet(Names) /\ mounted \in Sets
            BY <1>2, <3>1, SetsSpell DEF Reported
        <3>3. running' \in Runs
            BY <3>1, <3>2 DEF Runs
        <3> QED BY <1>2, <2>4, <3>3 DEF Reload, Reported, Sent
    <2>5. CASE Report
        <3>1. Sent(running) \in Sets
            BY <1>2, SentIsASet DEF Reported
        <3>2. reported' = Text(Sent(running))[1]
            BY <2>5, <3>1, DigestIsText DEF Report
        <3> QED BY <1>2, <2>5, <3>2 DEF Report, Reported, Sent
    <2>6. CASE UNCHANGED vars
        BY <1>2, <2>6 DEF vars, Reported, Sent
    <2> QED BY <1>2, <2>1, <2>2, <2>3, <2>4, <2>5, <2>6 DEF Next
<1> QED BY <1>1, <1>2, PTL DEF Spec

\* By whichever account, a gateway that runs exactly the registered set and
\* digests all of it is never shown as pending: the digest does not depend on
\* the order a side iterates in (Digest), and what is digested is the whole
\* directory unless the config leaves a key unused (Sent).
THEOREM CurrentIsAlwaysLive == Spec => []CurrentIsLive
<1>1. Reported => CurrentIsLive
    <2> SUFFICES ASSUME Reported, NEW names \in Iterations(registered),
                        reportOf.directory = registered,
                        reading = "resolved" => DOMAIN registered \subseteq reportOf.uses
                 PROVE  Live(names)
        BY DEF CurrentIsLive
    <2>1. registered \in Sets /\ reportOf \in Runs
        BY DEF Reported
    <2>2. Sent(reportOf) = registered
        <3>1. CASE reading = "directory"
            BY <3>1 DEF Sent
        <3>2. CASE reading # "directory" /\ DOMAIN registered \subseteq reportOf.uses
            <4>1. reportOf.uses = DOMAIN registered
                BY <2>1, <3>2 DEF Runs
            <4>2. registered = [n \in DOMAIN registered |-> registered[n]]
                BY <2>1, SetsSpell
            <4> QED BY <3>2, <4>1, <4>2 DEF Sent
        <3> QED BY <3>1, <3>2 DEF Reported
    <2> QED BY <2>1, <2>2, DigestIsText DEF Reported, Live
<1> QED BY <1>1, ReportsAreDigests, PTL

OneLineValues == \A v \in Values : Newline \notin ToSet(v)

\* As long as no value has a line feed, a gateway is said to be live only when
\* what it digested, by whichever account, is exactly the registered set,
\* whatever names, values and orders there are (Digest, Sent, Live).
THEOREM LiveIsAlwaysTrue == OneLineValues /\ Spec => []LiveIsTrue
<1> SUFFICES ASSUME OneLineValues PROVE Spec => []LiveIsTrue
    OBVIOUS
<1>1. Reported => LiveIsTrue
    <2> SUFFICES ASSUME Reported, NEW names \in Iterations(registered), Live(names)
                 PROVE  Sent(reportOf) = registered
        BY DEF LiveIsTrue
    <2>1. registered \in Sets
        BY DEF Reported
    <2>2. Sent(reportOf) \in Sets
        BY SentIsASet DEF Reported
    <2>3. OneLine(registered) /\ OneLine(Sent(reportOf))
        BY <2>1, <2>2, SetsSpell DEF OneLineValues, OneLine
    <2>4. Text(Sent(reportOf))[1] = Text(registered)[1]
        BY <2>1, DigestIsText DEF Live, Reported
    <2> QED BY <2>1, <2>2, <2>3, <2>4, DigestNamesTheSet
<1> QED BY <1>1, ReportsAreDigests, PTL
=============================================================================
