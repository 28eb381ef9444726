----------------------------- MODULE SignalsProofs -----------------------------
(***************************************************************************)
(* Proofs about Signals for any bytes, any signal strengths and any number  *)
(* of blocks: a kind of signal has one entry, with the strongest SNR, in    *)
(* the column of its band, and the exchange sort of store.go leaves every   *)
(* column with the same signals in display order.                           *)
(*                                                                          *)
(* The loops of the sort are recursive functions.  Induction is used in its *)
(* first-order form, on a set of natural numbers: of the numbers that are   *)
(* not in it there would be a least one.                                    *)
(***************************************************************************)
EXTENDS Signals, SequenceTheorems, WellFoundedInduction, TLAPS

-----------------------------------------------------------------------------
(* Induction, and functions defined by recursion on an interval.            *)

LEMMA SetInduction ==
  ASSUME NEW S \in SUBSET Nat, 0 \in S, \A n \in S : n + 1 \in S
  PROVE  S = Nat
<1> SUFFICES ASSUME Nat \ S # {} PROVE FALSE
  OBVIOUS
<1>1. PICK x \in Nat \ S : \A y \in Nat \ S : ~ (<<y, x>> \in OpToRel(<, Nat))
  BY NatLessThanWellFounded, WFMin
<1>2. \A y \in Nat \ S : ~ (y < x)
  BY <1>1 DEF OpToRel
<1>3. x - 1 \in Nat
  OBVIOUS
<1> QED BY <1>2, <1>3

\* The same on an interval.
LEMMA IntervalInduction ==
  ASSUME NEW m \in Int, NEW n \in Int, NEW S,
         m \in S, \A k \in m .. n - 1 : k \in S => k + 1 \in S
  PROVE  \A k \in m .. n : k \in S
<1> DEFINE T == {d \in Nat : m + d <= n => m + d \in S}
<1>1. T \in SUBSET Nat /\ 0 \in T
  OBVIOUS
<1>2. ASSUME NEW d \in T PROVE d + 1 \in T
  <2> SUFFICES ASSUME m + (d + 1) <= n PROVE m + (d + 1) \in S
    OBVIOUS
  <2>1. m + d \in m .. n - 1 /\ m + d \in S
    OBVIOUS
  <2>2. (m + d) + 1 \in S
    BY <2>1
  <2>3. (m + d) + 1 = m + (d + 1)
    OBVIOUS
  <2> QED BY <2>2, <2>3
<1> HIDE DEF T
<1>3. T = Nat
  BY <1>1, <1>2, SetInduction
<1>4. ASSUME NEW k \in m .. n PROVE k \in S
  <2>1. k - m \in T /\ m + (k - m) = k
    BY <1>3
  <2> QED BY <2>1 DEF T
<1> QED BY <1>4

\* F[j] is what the j-th turn of a loop does.
Turns(F, X, m, n) == \A j \in m + 1 .. n : F[j] \in [X -> X]

\* g starts with x and its every value is what a turn makes of the last one.
Iterated(g, F, X, x, m, n) ==
  /\ g \in [m .. n -> X] /\ g[m] = x
  /\ \A j \in m + 1 .. n : g[j] = F[j][g[j - 1]]

LEMMA Iterates ==
  ASSUME NEW X, NEW x \in X, NEW m \in Int, NEW n \in Int, m <= n,
         NEW F, Turns(F, X, m, n)
  PROVE  \E g : Iterated(g, F, X, x, m, n)
<1> USE DEF Turns, Iterated
<1> DEFINE Upto(k, g) == g[m] = x /\ \A j \in m + 1 .. k : g[j] = F[j][g[j - 1]]
           S == {k \in m .. n : \E g \in [m .. k -> X] : Upto(k, g)}
<1>1. m \in S
  <2>1. [j \in m .. m |-> x] \in [m .. m -> X] /\ Upto(m, [j \in m .. m |-> x])
    OBVIOUS
  <2> QED BY <2>1
<1>2. ASSUME NEW k \in m .. n - 1, k \in S PROVE k + 1 \in S
  <2>1. PICK g \in [m .. k -> X] : Upto(k, g)
    BY <1>2
  <2> DEFINE h == [j \in m .. k + 1 |-> IF j = k + 1 THEN F[k + 1][g[k]] ELSE g[j]]
  <2>2. F[k + 1][g[k]] \in X
    OBVIOUS
  <2>3. h \in [m .. k + 1 -> X]
    BY <2>2
  <2>4. \A j \in m .. k : h[j] = g[j]
    OBVIOUS
  <2>5. h[k + 1] = F[k + 1][h[k]]
    OBVIOUS
  <2> HIDE DEF h
  <2>6. h[m] = x
    BY <2>1, <2>4
  <2>7. ASSUME NEW j \in m + 1 .. k + 1 PROVE h[j] = F[j][h[j - 1]]
    <3>1. CASE j = k + 1
      <4>1. j - 1 = k
        BY <3>1
      <4> QED BY <2>5, <3>1, <4>1
    <3>2. CASE j # k + 1
      <4>1. j \in m + 1 .. k /\ j \in m .. k /\ j - 1 \in m .. k
        BY <3>2
      <4> QED BY <2>1, <2>4, <4>1
    <3> QED BY <3>1, <3>2
  <2> QED BY <2>3, <2>6, <2>7
<1> HIDE DEF S
<1>3. n \in S
  <2>1. n \in m .. n
    OBVIOUS
  <2> QED BY <1>1, <1>2, <2>1, IntervalInduction
<1> QED BY <1>3 DEF S

-----------------------------------------------------------------------------
(* The exchange sort.                                                       *)

\* No kind of signal occurs twice.
Distinct(s) == \A i, j \in DOMAIN s : SameSignal(s[i], s[j]) => i = j

\* t has the signals of s, in another order.
Reordered(s, t) ==
  /\ t \in Seq(Signal) /\ Len(t) = Len(s)
  /\ \A i \in 1 .. Len(s) : \E k \in 1 .. Len(s) : t[i] = s[k]
  /\ \A k \in 1 .. Len(s) : \E i \in 1 .. Len(s) : t[i] = s[k]
  /\ Distinct(s) => Distinct(t)

LEMMA ReorderedSame ==
  ASSUME NEW s \in Seq(Signal)
  PROVE  Reordered(s, s)
BY DEF Reordered

LEMMA ReorderedTwice ==
  ASSUME NEW s \in Seq(Signal), NEW t, NEW u, Reordered(s, t), Reordered(t, u)
  PROVE  Reordered(s, u)
<1> USE DEF Reordered
<1>1. u \in Seq(Signal) /\ Len(u) = Len(s) /\ (Distinct(s) => Distinct(u))
  OBVIOUS
<1>2. ASSUME NEW i \in 1 .. Len(s) PROVE \E k \in 1 .. Len(s) : u[i] = s[k]
  <2>1. PICK l \in 1 .. Len(s) : u[i] = t[l]
    OBVIOUS
  <2> QED BY <2>1
<1>3. ASSUME NEW k \in 1 .. Len(s) PROVE \E i \in 1 .. Len(s) : u[i] = s[k]
  <2>1. PICK l \in 1 .. Len(s) : t[l] = s[k]
    OBVIOUS
  <2> QED BY <2>1
<1> QED BY <1>1, <1>2, <1>3

LEMMA ExchangeValues ==
  ASSUME NEW s \in Seq(Signal), NEW i \in 1 .. Len(s), NEW j \in 1 .. Len(s), i # j
  PROVE  /\ Exchange(s, i, j) \in Seq(Signal) /\ Len(Exchange(s, i, j)) = Len(s)
         /\ \A k \in 1 .. Len(s) : Exchange(s, i, j)[k] =
              IF k = i THEN s[j] ELSE IF k = j THEN s[i] ELSE s[k]
<1> DEFINE t == [s EXCEPT ![i] = s[j]]
<1>1. s[i] \in Signal /\ s[j] \in Signal
  OBVIOUS
<1>2. /\ t \in Seq(Signal) /\ Len(t) = Len(s)
      /\ \A k \in 1 .. Len(s) : t[k] = IF k = i THEN s[j] ELSE s[k]
  BY <1>1, ExceptSeq
<1>3. Exchange(s, i, j) = [t EXCEPT ![j] = s[i]]
  BY DEF Exchange
<1> HIDE DEF t
<1>4. /\ [t EXCEPT ![j] = s[i]] \in Seq(Signal) /\ Len([t EXCEPT ![j] = s[i]]) = Len(t)
      /\ \A k \in 1 .. Len(t) : [t EXCEPT ![j] = s[i]][k] = IF k = j THEN s[i] ELSE t[k]
  BY <1>1, <1>2, ExceptSeq
<1> QED BY <1>2, <1>3, <1>4

LEMMA ExchangeReorders ==
  ASSUME NEW s \in Seq(Signal), NEW i \in 1 .. Len(s), NEW j \in 1 .. Len(s), i # j
  PROVE  Reordered(s, Exchange(s, i, j))
<1> DEFINE t == Exchange(s, i, j)
           back == [k \in 1 .. Len(s) |-> IF k = i THEN j ELSE IF k = j THEN i ELSE k]
<1>1. t \in Seq(Signal) /\ Len(t) = Len(s)
  BY ExchangeValues
<1>2. /\ back \in [1 .. Len(s) -> 1 .. Len(s)]
      /\ \A k \in 1 .. Len(s) : back[back[k]] = k
  OBVIOUS
<1>3. \A k \in 1 .. Len(s) : t[k] = s[back[k]]
  BY ExchangeValues
<1> HIDE DEF t, back
<1>4. \A k \in 1 .. Len(s) : t[back[k]] = s[k]
  BY <1>2, <1>3
<1>5. DOMAIN s = 1 .. Len(s) /\ DOMAIN t = 1 .. Len(s)
  BY <1>1
<1>6. ASSUME Distinct(s), NEW k \in 1 .. Len(s), NEW l \in 1 .. Len(s), SameSignal(t[k], t[l])
      PROVE  k = l
  <2>1. back[k] = back[l]
    BY <1>2, <1>3, <1>5, <1>6 DEF Distinct
  <2> QED BY <1>2, <2>1
<1>7. Distinct(s) => Distinct(t)
  BY <1>5, <1>6 DEF Distinct
<1> QED BY <1>1, <1>2, <1>3, <1>4, <1>7 DEF Reordered, t

\* signalOrder is a number, whatever the block and track type.
LEMMA OrderType ==
  ASSUME NEW sys, NEW sig \in Signal
  PROVE  signalOrder(sys, sig) \in Int
<1>1. sig.block \in Int /\ sig.track \in Int
  <2>1. sig.block \in BlockTypes /\ sig.track \in TrackTypes
    BY DEF Signal
  <2>2. \A n \in 0 .. 255 : n \in Int
    OBVIOUS
  <2> QED BY <2>1, <2>2, SignalsAssumption, Zenon DEF SignalsAssumption
<1>2. sig.block - L5 \in Int /\ 1 - sig.track \in Int
  BY <1>1 DEF L5
<1> QED BY <1>1, <1>2, Zenon DEF signalOrder

\* After some turns of the loop over j: what is before i is where it was, what follows
\* was there before, and the signal at i belongs before all that were compared with it.
Scanned(sys, s, i, j, u) ==
  /\ Reordered(s, u)
  /\ \A k \in 1 .. i - 1 : u[k] = s[k]
  /\ \A k \in i .. Len(s) : \E l \in i .. Len(s) : u[k] = s[l]
  /\ \A k \in i .. j : signalOrder(sys, u[i]) <= signalOrder(sys, u[k])

LEMMA CompareType ==
  ASSUME NEW sys, NEW s \in Seq(Signal), NEW i \in 1 .. Len(s), NEW j \in i + 1 .. Len(s)
  PROVE  Reordered(s, Compare(sys, s, i, j))
<1>1. j \in 1 .. Len(s) /\ i # j
  OBVIOUS
<1> QED BY <1>1, ExchangeReorders, ReorderedSame DEF Compare

LEMMA CompareScans ==
  ASSUME NEW sys, NEW s \in Seq(Signal), NEW i \in 1 .. Len(s), NEW j \in i + 1 .. Len(s),
         NEW u, Scanned(sys, s, i, j - 1, u)
  PROVE  Scanned(sys, s, i, j, Compare(sys, u, i, j))
<1> DEFINE o(x) == signalOrder(sys, x)
           v == Compare(sys, u, i, j)
<1>1. u \in Seq(Signal) /\ Len(u) = Len(s) /\ j \in 1 .. Len(s) /\ i # j /\ j \in i .. Len(s)
  BY DEF Scanned, Reordered
<1>2. Reordered(s, v)
  BY <1>1, CompareType, ReorderedTwice DEF Scanned
<1>3. \A k \in 1 .. Len(s) : o(u[k]) \in Int
  BY <1>1, OrderType
<1>4. CASE o(u[j]) < o(u[i])
  <2>1. \A k \in 1 .. Len(s) : v[k] = IF k = i THEN u[j] ELSE IF k = j THEN u[i] ELSE u[k]
    BY <1>1, <1>4, ExchangeValues DEF Compare
  <2>2. \A k \in 1 .. i - 1 : v[k] = s[k]
    BY <1>1, <2>1 DEF Scanned
  <2>3. \A k \in i .. Len(s) : \E l \in i .. Len(s) : v[k] = s[l]
    <3>1. \A k \in i .. Len(s) : \E l \in i .. Len(s) : v[k] = u[l]
      BY <1>1, <2>1
    <3> QED BY <3>1 DEF Scanned
  <2>4. ASSUME NEW k \in i .. j PROVE o(v[i]) <= o(v[k])
    <3>1. k \in 1 .. Len(s) /\ i \in 1 .. Len(s) /\ v[i] = u[j]
      BY <1>1, <2>1
    <3>2. CASE k = i \/ k = j
      BY <1>1, <1>3, <1>4, <2>1, <3>1, <3>2
    <3>3. CASE k # i /\ k # j
      <4>1. v[k] = u[k] /\ k \in i .. j - 1
        BY <1>1, <2>1, <3>1, <3>3
      <4>2. o(u[i]) <= o(u[k])
        BY <4>1 DEF Scanned
      <4> QED BY <1>1, <1>3, <1>4, <3>1, <4>1, <4>2
    <3> QED BY <3>2, <3>3
  <2> QED BY <1>2, <2>2, <2>3, <2>4 DEF Scanned
<1>5. CASE ~(o(u[j]) < o(u[i]))
  <2>1. v = u
    BY <1>5 DEF Compare
  <2>2. ASSUME NEW k \in i .. j PROVE o(u[i]) <= o(u[k])
    <3>1. CASE k = j
      BY <1>1, <1>3, <1>5, <3>1
    <3>2. CASE k # j
      <4>1. k \in i .. j - 1
        BY <3>2
      <4> QED BY <4>1 DEF Scanned
    <3> QED BY <3>1, <3>2
  <2> QED BY <1>2, <2>1, <2>2 DEF Scanned
<1> QED BY <1>4, <1>5

\* The loop over j for one i.
LEMMA ScanReorders ==
  ASSUME NEW sys, NEW s \in Seq(Signal), NEW i \in 1 .. Len(s)
  PROVE  Scanned(sys, s, i, Len(s), Round(sys, s, i))
<1> DEFINE n == Len(s)
           X == {u \in Seq(Signal) : Len(u) = n}
           F == [j \in i + 1 .. n |-> [u \in X |-> Compare(sys, u, i, j)]]
           body(f) == [j \in i .. n |-> IF j = i THEN s ELSE Compare(sys, f[j - 1], i, j)]
           scan == CHOOSE f : f = body(f)
<1>1. n \in Int /\ i \in Int /\ i <= n /\ s \in X
  OBVIOUS
<1>2. ASSUME NEW j \in i + 1 .. n PROVE F[j] \in [X -> X]
  <2>1. ASSUME NEW u \in X PROVE Compare(sys, u, i, j) \in X
    <3>1. Reordered(u, Compare(sys, u, i, j))
      BY CompareType
    <3> QED BY <3>1 DEF Reordered
  <2> QED BY <2>1
<1>3. PICK g \in [i .. n -> X] : g[i] = s /\ \A j \in i + 1 .. n : g[j] = F[j][g[j - 1]]
  <2>1. Turns(F, X, i, n)
    BY <1>2 DEF Turns
  <2> HIDE DEF n, X, F
  <2>2. \E g : Iterated(g, F, X, s, i, n)
    BY <1>1, <2>1, Iterates, Zenon
  <2> QED BY <2>2, Zenon DEF Iterated
<1>4. g = body(g)
  <2>1. ASSUME NEW j \in i .. n PROVE g[j] = IF j = i THEN s ELSE Compare(sys, g[j - 1], i, j)
    <3>1. CASE j = i
      BY <1>3, <3>1
    <3>2. CASE j # i
      <4>1. j \in i + 1 .. n /\ j - 1 \in i .. n
        BY <1>1, <3>2
      <4>2. g[j - 1] \in X
        BY <4>1
      <4>3. F[j][g[j - 1]] = Compare(sys, g[j - 1], i, j)
        BY <4>1, <4>2
      <4> QED BY <1>3, <3>2, <4>1, <4>3
    <3> QED BY <3>1, <3>2
  <2> QED BY <2>1
<1>5. scan = body(scan)
  <2> HIDE DEF body
  <2> QED BY <1>4, Zenon
<1>6. Round(sys, s, i) = scan[n]
  BY Zenon DEF Round
<1> HIDE DEF scan
<1> DEFINE S == {j \in i .. n : Scanned(sys, s, i, j, scan[j])}
<1>7. scan[i] = s /\ \A j \in i + 1 .. n : scan[j] = Compare(sys, scan[j - 1], i, j)
  <2>1. \A j \in i .. n : scan[j] = IF j = i THEN s ELSE Compare(sys, scan[j - 1], i, j)
    BY <1>5
  <2> HIDE DEF body
  <2> QED BY <1>1, <2>1
<1>8. i \in S
  <2>1. \A k \in i .. i : k = i
    BY <1>1
  <2>2. signalOrder(sys, s[i]) <= signalOrder(sys, s[i])
    BY OrderType
  <2>3. Scanned(sys, s, i, i, s)
    BY <1>1, <2>1, <2>2, ReorderedSame DEF Scanned
  <2> QED BY <1>1, <1>7, <2>3
<1>9. ASSUME NEW j \in i .. n - 1, j \in S PROVE j + 1 \in S
  <2>1. j + 1 \in i + 1 .. n /\ (j + 1) - 1 = j /\ j + 1 \in i .. n
    BY <1>1
  <2>2. scan[j + 1] = Compare(sys, scan[j], i, j + 1)
    BY <1>7, <2>1
  <2>3. Scanned(sys, s, i, (j + 1) - 1, scan[j])
    BY <1>9, <2>1
  <2>4. Scanned(sys, s, i, j + 1, Compare(sys, scan[j], i, j + 1))
    <3> HIDE DEF S
    <3> QED BY <2>1, <2>3, CompareScans
  <2> QED BY <2>1, <2>2, <2>4
<1>10. n \in S
  <2>1. n \in i .. n
    BY <1>1
  <2> HIDE DEF S, n
  <2> QED BY <1>1, <1>8, <1>9, <2>1, IntervalInduction
<1> QED BY <1>6, <1>10

\* After some rounds: the signals up to i belong before all that follow them.
Passed(sys, s, i, t) ==
  /\ Reordered(s, t)
  /\ \A a \in 1 .. i : \A b \in a + 1 .. Len(s) :
       signalOrder(sys, t[a]) <= signalOrder(sys, t[b])

LEMMA RoundPasses ==
  ASSUME NEW sys, NEW s \in Seq(Signal), NEW i \in 1 .. Len(s),
         NEW t, Passed(sys, s, i - 1, t)
  PROVE  Passed(sys, s, i, Round(sys, t, i))
<1> DEFINE o(x) == signalOrder(sys, x)
           u == Round(sys, t, i)
<1>1. t \in Seq(Signal) /\ Len(t) = Len(s)
  BY DEF Passed, Reordered
<1>2. Scanned(sys, t, i, Len(t), u)
  BY <1>1, ScanReorders
<1> HIDE DEF u
<1>3. Reordered(s, u)
  BY <1>2, ReorderedTwice DEF Passed, Scanned
<1>4. ASSUME NEW a \in 1 .. i, NEW b \in a + 1 .. Len(s) PROVE o(u[a]) <= o(u[b])
  <2>1. CASE a = i
    <3>1. b \in i .. Len(t)
      BY <1>1, <2>1
    <3> QED BY <1>2, <2>1, <3>1 DEF Scanned
  <2>2. CASE a # i
    <3>1. a \in 1 .. i - 1 /\ u[a] = t[a]
      BY <1>2, <2>2 DEF Scanned
    <3>2. \E l \in a + 1 .. Len(s) : u[b] = t[l]
      <4>1. CASE b < i
        <5>1. b \in 1 .. i - 1
          BY <4>1
        <5> QED BY <1>2, <5>1 DEF Scanned
      <4>2. CASE ~(b < i)
        <5>1. b \in i .. Len(t)
          BY <1>1, <4>2
        <5>2. PICK l \in i .. Len(t) : u[b] = t[l]
          BY <1>2, <5>1 DEF Scanned
        <5>3. l \in a + 1 .. Len(s)
          BY <1>1, <3>1
        <5> QED BY <5>2, <5>3
      <4> QED BY <4>1, <4>2
    <3>3. \A l \in a + 1 .. Len(s) : o(t[a]) <= o(t[l])
      BY <3>1 DEF Passed
    <3> QED BY <3>1, <3>2, <3>3
  <2> QED BY <2>1, <2>2
<1>5. Passed(sys, s, i, u)
  BY <1>3, <1>4 DEF Passed
<1> QED BY <1>5 DEF u

\* The whole sort.
LEMMA OrderSorts ==
  ASSUME NEW sys, NEW s \in Seq(Signal)
  PROVE  Passed(sys, s, Len(s), orderSignals(sys, s))
<1> DEFINE n == Len(s)
           X == {u \in Seq(Signal) : Len(u) = n}
           F == [i \in 0 + 1 .. n |-> [u \in X |-> Round(sys, u, i)]]
           body(f) == [i \in 0 .. n |-> IF i = 0 THEN s ELSE Round(sys, f[i - 1], i)]
           pass == CHOOSE f : f = body(f)
<1>1. n \in Int /\ 0 \in Int /\ 0 <= n /\ s \in X
  OBVIOUS
<1>2. ASSUME NEW i \in 0 + 1 .. n PROVE F[i] \in [X -> X]
  <2>1. ASSUME NEW u \in X PROVE Round(sys, u, i) \in X
    <3>1. Scanned(sys, u, i, Len(u), Round(sys, u, i))
      BY ScanReorders
    <3> QED BY <3>1 DEF Scanned, Reordered
  <2> QED BY <2>1
<1>3. PICK g \in [0 .. n -> X] : g[0] = s /\ \A i \in 0 + 1 .. n : g[i] = F[i][g[i - 1]]
  <2>1. Turns(F, X, 0, n)
    BY <1>2 DEF Turns
  <2> HIDE DEF n, X, F
  <2>2. \E g : Iterated(g, F, X, s, 0, n)
    BY <1>1, <2>1, Iterates, Zenon
  <2> QED BY <2>2, Zenon DEF Iterated
<1>4. g = body(g)
  <2>1. ASSUME NEW i \in 0 .. n PROVE g[i] = IF i = 0 THEN s ELSE Round(sys, g[i - 1], i)
    <3>1. CASE i = 0
      BY <1>3, <3>1
    <3>2. CASE i # 0
      <4>1. i \in 0 + 1 .. n /\ i - 1 \in 0 .. n
        BY <1>1, <3>2
      <4>2. g[i - 1] \in X
        BY <4>1
      <4>3. F[i][g[i - 1]] = Round(sys, g[i - 1], i)
        BY <4>1, <4>2
      <4> QED BY <1>3, <3>2, <4>1, <4>3
    <3> QED BY <3>1, <3>2
  <2> QED BY <2>1
<1>5. pass = body(pass)
  <2> HIDE DEF body
  <2> QED BY <1>4, Zenon
<1>6. orderSignals(sys, s) = pass[n]
  BY Zenon DEF orderSignals
<1> HIDE DEF pass
<1> DEFINE S == {i \in 0 .. n : Passed(sys, s, i, pass[i])}
<1>7. pass[0] = s /\ \A i \in 1 .. n : pass[i] = Round(sys, pass[i - 1], i)
  <2>1. \A i \in 0 .. n : pass[i] = IF i = 0 THEN s ELSE Round(sys, pass[i - 1], i)
    BY <1>5
  <2> HIDE DEF body
  <2> QED BY <1>1, <2>1
<1>8. 0 \in S
  <2>1. Passed(sys, s, 0, s)
    BY ReorderedSame DEF Passed
  <2> QED BY <1>1, <1>7, <2>1
<1>9. ASSUME NEW i \in 0 .. n - 1, i \in S PROVE i + 1 \in S
  <2>1. i + 1 \in 1 .. n /\ (i + 1) - 1 = i /\ i + 1 \in 0 .. n
    BY <1>1
  <2>2. pass[i + 1] = Round(sys, pass[i], i + 1)
    BY <1>7, <2>1
  <2>3. Passed(sys, s, (i + 1) - 1, pass[i])
    BY <1>9, <2>1
  <2>4. Passed(sys, s, i + 1, Round(sys, pass[i], i + 1))
    <3> HIDE DEF S
    <3> QED BY <2>1, <2>3, RoundPasses
  <2> QED BY <2>1, <2>2, <2>4
<1>10. n \in S
  <2>1. n \in 0 .. n
    BY <1>1
  <2> HIDE DEF S, n
  <2> QED BY <1>1, <1>8, <1>9, <2>1, IntervalInduction
<1> QED BY <1>6, <1>10
-----------------------------------------------------------------------------
(* AppendSignal and BandSlot.                                               *)

\* The signal has an entry in s at least as strong.
Shows(s, sig) == \E i \in DOMAIN s : SameSignal(s[i], sig) /\ s[i].snr >= sig.snr

LEMMA StrengthType ==
  ASSUME NEW sig \in Signal
  PROVE  sig.snr \in Nat
<1>1. sig.snr \in SNRs
  BY DEF Signal
<1> QED BY <1>1, SignalsAssumption DEF SignalsAssumption

LEMMA AppendKeeps ==
  ASSUME NEW s \in Seq(Signal), NEW sig \in Signal
  PROVE  /\ AppendSignal(s, sig) \in Seq(Signal)
         /\ Distinct(s) => Distinct(AppendSignal(s, sig))
         /\ \A i \in DOMAIN AppendSignal(s, sig) :
              AppendSignal(s, sig)[i] = sig \/ \E k \in DOMAIN s : AppendSignal(s, sig)[i] = s[k]
         /\ Shows(AppendSignal(s, sig), sig)
         /\ \A x \in Signal : Shows(s, x) => Shows(AppendSignal(s, sig), x)
<1> DEFINE t == AppendSignal(s, sig)
           Found == \E i \in DOMAIN s : SameSignal(s[i], sig)
<1>1. sig.snr \in Nat /\ \A i \in DOMAIN s : s[i] \in Signal /\ s[i].snr \in Nat
  BY StrengthType
<1>2. CASE Found
  <2>1. t = [i \in DOMAIN s |->
               IF SameSignal(s[i], sig) /\ sig.snr >= s[i].snr THEN sig ELSE s[i]]
    BY <1>2 DEF AppendSignal
  <2>2. DOMAIN t = DOMAIN s
    BY <2>1
  <2>3. \A i \in DOMAIN s : \/ t[i] = s[i]
                            \/ t[i] = sig /\ SameSignal(s[i], sig) /\ sig.snr >= s[i].snr
    BY <2>1
  <2>4. t \in Seq(Signal)
    <3>1. DOMAIN s = 1 .. Len(s) /\ Len(s) \in Nat
      OBVIOUS
    <3>2. t \in [1 .. Len(s) -> Signal]
      BY <1>1, <2>1, <3>1
    <3> QED BY <3>1, <3>2, SeqDef
  <2>5. \A i \in DOMAIN s : SameSignal(t[i], s[i]) /\ t[i].snr >= s[i].snr
    BY <1>1, <2>3 DEF SameSignal
  <2>6. Distinct(s) => Distinct(t)
    BY <2>2, <2>5 DEF Distinct, SameSignal
  <2>7. Shows(t, sig)
    <3>1. PICK i \in DOMAIN s : SameSignal(s[i], sig)
      BY <1>2
    <3>2. SameSignal(t[i], sig)
      BY <2>5, <3>1 DEF SameSignal
    <3>3. t[i].snr >= sig.snr
      <4>1. CASE sig.snr >= s[i].snr
        <5>1. t[i] = sig
          BY <2>1, <3>1, <4>1
        <5> QED BY <1>1, <5>1
      <4>2. CASE ~(sig.snr >= s[i].snr)
        <5>1. t[i] = s[i]
          BY <2>1, <4>2
        <5> QED BY <1>1, <4>2, <5>1
      <4> QED BY <4>1, <4>2
    <3> QED BY <2>2, <3>2, <3>3 DEF Shows
  <2>8. ASSUME NEW x \in Signal, Shows(s, x) PROVE Shows(t, x)
    <3>1. PICK i \in DOMAIN s : SameSignal(s[i], x) /\ s[i].snr >= x.snr
      BY <2>8 DEF Shows
    <3>2. SameSignal(t[i], x)
      BY <2>5, <3>1 DEF SameSignal
    <3>3. t[i].snr \in Nat /\ x.snr \in Nat
      BY <1>1, <2>3, StrengthType
    <3>4. t[i].snr >= x.snr
      BY <1>1, <2>5, <3>1, <3>3
    <3> QED BY <2>2, <3>2, <3>4 DEF Shows
  <2>9. \A i \in DOMAIN t : t[i] = sig \/ \E k \in DOMAIN s : t[i] = s[k]
    BY <2>2, <2>3
  <2> HIDE DEF t
  <2> QED BY <2>4, <2>6, <2>7, <2>8, <2>9 DEF t
<1>3. CASE ~Found
  <2>1. t = Append(s, sig)
    BY <1>3 DEF AppendSignal
  <2>2. t \in Seq(Signal) /\ Len(t) = Len(s) + 1
    BY <2>1
  <2>3. DOMAIN s = 1 .. Len(s) /\ DOMAIN t = 1 .. Len(s) + 1 /\ Len(s) \in Nat
    BY <2>2
  <2>4. t[Len(s) + 1] = sig /\ \A i \in 1 .. Len(s) : t[i] = s[i]
    BY <2>1
  <2> HIDE DEF t
  <2>5. \A i \in DOMAIN t : i \in DOMAIN s \/ i = Len(s) + 1
    BY <2>3
  <2>6. \A i \in DOMAIN s : t[i] = s[i] /\ ~ SameSignal(t[i], sig)
    BY <1>3, <2>3, <2>4
  <2>7. Distinct(s) => Distinct(t)
    BY <2>4, <2>5, <2>6 DEF Distinct, SameSignal
  <2>8. Shows(t, sig)
    <3>1. Len(s) + 1 \in DOMAIN t
      BY <2>3
    <3> QED BY <1>1, <2>4, <3>1 DEF Shows, SameSignal
  <2>9. \A x \in Signal : Shows(s, x) => Shows(t, x)
    BY <2>3, <2>6 DEF Shows
  <2>10. \A i \in DOMAIN t : t[i] = sig \/ \E k \in DOMAIN s : t[i] = s[k]
    BY <2>4, <2>5, <2>6
  <2> QED BY <2>2, <2>7, <2>8, <2>9, <2>10 DEF t
<1> QED BY <1>2, <1>3

\* The column of a signal's band.
Slot(sys, sig) == BandSlot(sys, sig.block, sig.track)

LEMMA TableType ==
  ASSUME NEW l1, NEW l2, NEW l6, NEW other \in Bands, NEW block
  PROVE  Table(l1, l2, l6, other, block) \in Bands
BY DEF Table, Bands, BandL1, BandL2, BandL6

\* Whatever its block and track type, a signal of a known system has a column.
LEMMA KnownHaveBands ==
  ASSUME NEW sys \in Known, NEW block, NEW track
  PROVE  BandSlot(sys, block, track) \in Bands
<1>1. BandL1 \in Bands /\ BandL5 \in Bands
  BY DEF Bands, BandL1, BandL5, BandL6
<1>2. \A l1, l2, l6 : Table(l1, l2, l6, BandL5, block) \in Bands
  BY <1>1, TableType
<1>3. \/ sys \in Beidou \/ sys \in {GPS, QZSS} \/ sys = GLONASS \/ sys = Galileo
      \/ sys = SBAS \/ sys \in {OmniStar, Terralite}
  BY DEF Known
<1> QED BY <1>1, <1>2, <1>3, Zenon DEF BandSlot
-----------------------------------------------------------------------------
(* Types.                                                                   *)

\* Whatever the number received, normalizeAzimuth gives a direction.
LEMMA AzimuthType ==
  ASSUME NEW az \in Int
  PROVE  normalizeAzimuth(az) \in 0 .. 359
<1>1. az % 360 \in 0 .. 359 /\ (-az) % 360 \in 0 .. 359
  OBVIOUS
<1> QED BY <1>1 DEF normalizeAzimuth, Remainder

LEMMA Azimuths == AzimuthsAreDirections
<1> SUFFICES ASSUME NEW az \in Int16
             PROVE  normalizeAzimuth(az) \in 0 .. 359
  BY DEF AzimuthsAreDirections
<1>1. az \in Int
  BY DEF Int16
<1> QED BY <1>1, AzimuthType

LEMMA InitTypes == Init => TypeOK
<1> SUFFICES ASSUME Init PROVE TypeOK
  OBVIOUS
<1>1. system \in Systems /\ received \in Seq(Signal) /\ phase \in {"blocks", "ordered"}
  BY DEF Init
<1>2. columns \in [Bands -> Seq(Signal)]
  BY DEF Init
<1> QED BY <1>1, <1>2, Azimuths DEF TypeOK

\* What a block does, in the terms of the invariant.
LEMMA BlockStep ==
  ASSUME TypeOK, NEW sig \in Signal, Block(sig)
  PROVE  /\ system' = system /\ phase = "blocks" /\ phase' = "blocks"
         /\ received' = Append(received, sig) /\ received' \in Seq(Signal)
         /\ \A b \in Bands : columns'[b] =
              IF b = Slot(system, sig) THEN AppendSignal(columns[b], sig) ELSE columns[b]
         /\ columns' \in [Bands -> Seq(Signal)]
<1>1. /\ received \in Seq(Signal) /\ columns \in [Bands -> Seq(Signal)]
      /\ \A b \in Bands : columns[b] \in Seq(Signal)
  BY DEF TypeOK
<1>2. /\ system' = system /\ phase = "blocks" /\ phase' = "blocks"
      /\ received' = Append(received, sig)
  BY DEF Block
<1>3. received' \in Seq(Signal)
  BY <1>1, <1>2
<1> DEFINE band == Slot(system, sig)
<1>4. columns' = IF band \in Bands
                 THEN [columns EXCEPT ![band] = AppendSignal(columns[band], sig)]
                 ELSE columns
  BY DEF Block, Slot
<1> HIDE DEF band
<1>5. \A b \in Bands : columns'[b] = IF b = band THEN AppendSignal(columns[b], sig) ELSE columns[b]
  BY <1>1, <1>4
<1>6. columns' \in [Bands -> Seq(Signal)]
  <2>1. \A b \in Bands : AppendSignal(columns[b], sig) \in Seq(Signal)
    BY <1>1, AppendKeeps
  <2> QED BY <1>1, <1>4, <2>1
<1> QED BY <1>2, <1>3, <1>5, <1>6 DEF band

\* What the sort does: each column keeps its signals.
LEMMA OrderStep ==
  ASSUME TypeOK, Order
  PROVE  /\ system' = system /\ received' = received /\ phase' = "ordered"
         /\ columns' \in [Bands -> Seq(Signal)]
         /\ \A b \in Bands : Passed(system, columns[b], Len(columns[b]), columns'[b])
<1>1. \A b \in Bands : columns[b] \in Seq(Signal)
  BY DEF TypeOK
<1>2. system' = system /\ received' = received /\ phase' = "ordered"
  BY DEF Order
<1>3. columns' = [b \in Bands |-> orderSignals(system, columns[b])]
  BY DEF Order
<1>4. \A b \in Bands : Passed(system, columns[b], Len(columns[b]), orderSignals(system, columns[b]))
  BY <1>1, OrderSorts
<1>5. \A b \in Bands : orderSignals(system, columns[b]) \in Seq(Signal)
  BY <1>4 DEF Passed, Reordered
<1> QED BY <1>2, <1>3, <1>4, <1>5

LEMMA NextTypes == TypeOK /\ [Next]_vars => TypeOK'
<1> SUFFICES ASSUME TypeOK, [Next]_vars PROVE TypeOK'
  OBVIOUS
<1>1. AzimuthsAreDirections'
  BY Azimuths, PTL
<1>2. ASSUME NEW sig \in Signal, Block(sig) PROVE TypeOK'
  <2>1. /\ system' = system /\ phase' = "blocks" /\ received' \in Seq(Signal)
        /\ columns' \in [Bands -> Seq(Signal)]
    BY <1>2, BlockStep
  <2> QED BY <1>1, <2>1 DEF TypeOK
<1>3. CASE Order
  <2>1. /\ system' = system /\ received' = received /\ phase' = "ordered"
        /\ columns' \in [Bands -> Seq(Signal)]
    BY <1>3, OrderStep
  <2> QED BY <1>1, <2>1 DEF TypeOK
<1>4. CASE UNCHANGED vars
  BY <1>1, <1>4 DEF TypeOK, vars
<1> QED BY <1>2, <1>3, <1>4 DEF Next

(***************************************************************************)
(* Every variable has its type in every reachable state.                    *)
(***************************************************************************)
THEOREM SignalsTypes == Spec => []TypeOK
BY InitTypes, NextTypes, PTL DEF Spec

-----------------------------------------------------------------------------
(* The inductive invariant.                                                 *)

\* A column holds signals of its band that were received, each kind once.
ColumnsInv ==
  \A b \in Bands :
    /\ Distinct(columns[b])
    /\ \A i \in DOMAIN columns[b] :
         /\ Slot(system, columns[b][i]) = b
         /\ \E k \in DOMAIN received : received[k] = columns[b][i]

\* Every block received is shown in the column of its band, if it has one.
KeptInv ==
  \A k \in DOMAIN received :
    Slot(system, received[k]) \in Bands =>
      Shows(columns[Slot(system, received[k])], received[k])

\* The sort is done by a key.
InKeyOrder ==
  phase = "ordered" =>
    \A b \in Bands : \A i, j \in DOMAIN columns[b] :
      i < j => signalOrder(system, columns[b][i]) <= signalOrder(system, columns[b][j])

SignalsInv == TypeOK /\ ColumnsInv /\ KeptInv /\ InKeyOrder

LEMMA InitSignals == Init => SignalsInv
<1> SUFFICES ASSUME Init PROVE SignalsInv
  OBVIOUS
<1>1. ColumnsInv
  BY DEF Init, ColumnsInv, Distinct
<1>2. KeptInv
  BY DEF Init, KeptInv
<1>3. InKeyOrder
  BY DEF Init, InKeyOrder
<1> QED BY <1>1, <1>2, <1>3, InitTypes DEF SignalsInv

LEMMA BlockKeeps ==
  ASSUME SignalsInv, NEW sig \in Signal, Block(sig)
  PROVE  SignalsInv'
<1>1. TypeOK /\ ColumnsInv /\ KeptInv
  BY DEF SignalsInv
<1>2. TypeOK'
  BY <1>1, NextTypes DEF Next
<1>3. /\ system' = system /\ phase' = "blocks"
      /\ received' = Append(received, sig) /\ received \in Seq(Signal)
      /\ \A b \in Bands : columns'[b] =
           IF b = Slot(system, sig) THEN AppendSignal(columns[b], sig) ELSE columns[b]
      /\ \A b \in Bands : columns[b] \in Seq(Signal)
  <2>1. received \in Seq(Signal) /\ \A b \in Bands : columns[b] \in Seq(Signal)
    BY <1>1 DEF TypeOK
  <2> QED BY <1>1, <2>1, BlockStep
<1>4. /\ \A k \in DOMAIN received : k \in DOMAIN received' /\ received'[k] = received[k]
      /\ \E k \in DOMAIN received' : received'[k] = sig
      /\ \A k \in DOMAIN received' :
           received'[k] = sig \/ (k \in DOMAIN received /\ received'[k] = received[k])
  <2>1. /\ DOMAIN received = 1 .. Len(received) /\ Len(received) \in Nat
        /\ DOMAIN received' = 1 .. Len(received) + 1
    BY <1>3
  <2>2. received'[Len(received) + 1] = sig /\ \A k \in 1 .. Len(received) : received'[k] = received[k]
    BY <1>3
  <2>3. Len(received) + 1 \in DOMAIN received'
    BY <2>1
  <2>4. \A k \in DOMAIN received' : k \in DOMAIN received \/ k = Len(received) + 1
    BY <2>1
  <2>5. \A k \in DOMAIN received : k \in DOMAIN received' /\ received'[k] = received[k]
    BY <2>1, <2>2
  <2>6. \E k \in DOMAIN received' : received'[k] = sig
    BY <2>2, <2>3
  <2>7. \A k \in DOMAIN received' :
          received'[k] = sig \/ (k \in DOMAIN received /\ received'[k] = received[k])
    BY <2>2, <2>4, <2>5
  <2> QED BY <2>5, <2>6, <2>7
<1>5. ColumnsInv'
  <2>1. ASSUME NEW b \in Bands
        PROVE  /\ Distinct(columns'[b])
               /\ \A i \in DOMAIN columns'[b] :
                    /\ Slot(system, columns'[b][i]) = b
                    /\ \E k \in DOMAIN received' : received'[k] = columns'[b][i]
    <3>1. /\ Distinct(columns[b])
          /\ \A i \in DOMAIN columns[b] :
               /\ Slot(system, columns[b][i]) = b
               /\ \E k \in DOMAIN received' : received'[k] = columns[b][i]
      BY <1>1, <1>4 DEF ColumnsInv
    <3>2. CASE b = Slot(system, sig)
      <4>1. columns'[b] = AppendSignal(columns[b], sig)
        BY <1>3, <3>2
      <4>2. /\ Distinct(AppendSignal(columns[b], sig))
            /\ \A i \in DOMAIN AppendSignal(columns[b], sig) :
                 \/ AppendSignal(columns[b], sig)[i] = sig
                 \/ \E k \in DOMAIN columns[b] : AppendSignal(columns[b], sig)[i] = columns[b][k]
        BY <1>3, <3>1, AppendKeeps
      <4> QED BY <1>4, <3>1, <3>2, <4>1, <4>2
    <3>3. CASE b # Slot(system, sig)
      BY <1>3, <3>1, <3>3
    <3> QED BY <3>2, <3>3
  <2> QED BY <1>3, <2>1 DEF ColumnsInv
<1>6. KeptInv'
  <2>1. ASSUME NEW k \in DOMAIN received', Slot(system, received'[k]) \in Bands
        PROVE  Shows(columns'[Slot(system, received'[k])], received'[k])
    <3> DEFINE x == received'[k]
               b == Slot(system, x)
    <3>1. CASE x = sig
      <4>1. columns'[b] = AppendSignal(columns[b], sig)
        BY <1>3, <2>1, <3>1
      <4>2. Shows(AppendSignal(columns[b], sig), sig)
        BY <1>3, <2>1, AppendKeeps
      <4> QED BY <3>1, <4>1, <4>2
    <3>2. CASE x # sig
      <4>1. k \in DOMAIN received /\ x = received[k] /\ x \in Signal
        BY <1>3, <1>4, <3>2
      <4>2. Shows(columns[b], x)
        BY <1>1, <2>1, <4>1 DEF KeptInv
      <4>3. CASE b = Slot(system, sig)
        <5>1. columns'[b] = AppendSignal(columns[b], sig)
          BY <1>3, <2>1, <4>3
        <5>2. Shows(AppendSignal(columns[b], sig), x)
          BY <1>3, <2>1, <4>1, <4>2, AppendKeeps
        <5> QED BY <5>1, <5>2
      <4>4. CASE b # Slot(system, sig)
        BY <1>3, <2>1, <4>2, <4>4
      <4> QED BY <4>3, <4>4
    <3> QED BY <3>1, <3>2
  <2> QED BY <1>3, <2>1 DEF KeptInv
<1>7. InKeyOrder'
  BY <1>3 DEF InKeyOrder
<1> QED BY <1>2, <1>5, <1>6, <1>7 DEF SignalsInv

LEMMA OrderKeeps ==
  ASSUME SignalsInv, Order
  PROVE  SignalsInv'
<1>1. TypeOK /\ ColumnsInv /\ KeptInv
  BY DEF SignalsInv
<1>2. TypeOK'
  BY <1>1, NextTypes DEF Next
<1>3. /\ system' = system /\ received' = received
      /\ \A b \in Bands : Passed(system, columns[b], Len(columns[b]), columns'[b])
  BY <1>1, OrderStep
<1>4. ASSUME NEW b \in Bands
      PROVE  /\ Reordered(columns[b], columns'[b])
             /\ DOMAIN columns'[b] = 1 .. Len(columns[b])
             /\ DOMAIN columns[b] = 1 .. Len(columns[b]) /\ Len(columns[b]) \in Nat
             /\ \A i \in DOMAIN columns'[b] : \E k \in DOMAIN columns[b] : columns'[b][i] = columns[b][k]
             /\ \A k \in DOMAIN columns[b] : \E i \in DOMAIN columns'[b] : columns'[b][i] = columns[b][k]
  <2>1. Reordered(columns[b], columns'[b]) /\ columns[b] \in Seq(Signal)
    BY <1>1, <1>3 DEF Passed, TypeOK
  <2>2. /\ DOMAIN columns'[b] = 1 .. Len(columns[b])
        /\ DOMAIN columns[b] = 1 .. Len(columns[b]) /\ Len(columns[b]) \in Nat
    BY <2>1 DEF Reordered
  <2> QED BY <2>1, <2>2 DEF Reordered
<1>5. ColumnsInv'
  <2>1. ASSUME NEW b \in Bands
        PROVE  /\ Distinct(columns'[b])
               /\ \A i \in DOMAIN columns'[b] :
                    /\ Slot(system, columns'[b][i]) = b
                    /\ \E k \in DOMAIN received : received[k] = columns'[b][i]
    <3>1. \A i \in DOMAIN columns'[b] : \E k \in DOMAIN columns[b] : columns'[b][i] = columns[b][k]
      BY <1>4
    <3>2. Distinct(columns'[b])
      BY <1>1, <1>4 DEF ColumnsInv, Reordered
    <3> QED BY <1>1, <3>1, <3>2 DEF ColumnsInv
  <2> QED BY <1>3, <2>1 DEF ColumnsInv
<1>6. KeptInv'
  <2>1. ASSUME NEW k \in DOMAIN received, Slot(system, received[k]) \in Bands
        PROVE  Shows(columns'[Slot(system, received[k])], received[k])
    <3> DEFINE b == Slot(system, received[k])
    <3>1. PICK i \in DOMAIN columns[b] :
            SameSignal(columns[b][i], received[k]) /\ columns[b][i].snr >= received[k].snr
      BY <1>1, <2>1 DEF KeptInv, Shows
    <3>2. PICK j \in DOMAIN columns'[b] : columns'[b][j] = columns[b][i]
      BY <1>4, <2>1
    <3> QED BY <3>1, <3>2 DEF Shows
  <2> QED BY <1>3, <2>1 DEF KeptInv
<1>7. InKeyOrder'
  <2>1. ASSUME NEW b \in Bands, NEW i \in DOMAIN columns'[b], NEW j \in DOMAIN columns'[b], i < j
        PROVE  signalOrder(system, columns'[b][i]) <= signalOrder(system, columns'[b][j])
    <3>1. i \in 1 .. Len(columns[b]) /\ j \in i + 1 .. Len(columns[b])
      <4>1. i \in 1 .. Len(columns[b]) /\ j \in 1 .. Len(columns[b])
        BY <1>4
      <4>2. Len(columns[b]) \in Nat
        BY <1>4
      <4> QED BY <2>1, <4>1, <4>2
    <3> QED BY <1>3, <3>1 DEF Passed
  <2> QED BY <1>3, <2>1 DEF InKeyOrder
<1> QED BY <1>2, <1>5, <1>6, <1>7 DEF SignalsInv

LEMMA NextSignals == SignalsInv /\ [Next]_vars => SignalsInv'
<1> SUFFICES ASSUME SignalsInv, [Next]_vars PROVE SignalsInv'
  OBVIOUS
<1>1. ASSUME NEW sig \in Signal, Block(sig) PROVE SignalsInv'
  BY <1>1, BlockKeeps
<1>2. CASE Order
  BY <1>2, OrderKeeps
<1>3. CASE UNCHANGED vars
  <2>1. TypeOK'
    BY <1>3, NextTypes DEF SignalsInv
  <2>2. (ColumnsInv /\ KeptInv /\ InKeyOrder)'
    BY <1>3 DEF SignalsInv, ColumnsInv, KeptInv, InKeyOrder, vars
  <2> QED BY <2>1, <2>2 DEF SignalsInv
<1> QED BY <1>1, <1>2, <1>3 DEF Next

(***************************************************************************)
(* The inductive invariant holds in every reachable state: it relates the   *)
(* columns to the blocks received, before and after the sort.               *)
(***************************************************************************)
THEOREM SignalsInvariant == Spec => []SignalsInv
BY InitSignals, NextSignals, PTL DEF Spec

-----------------------------------------------------------------------------
(* The properties.                                                          *)

(***************************************************************************)
(* A kind of signal has one entry in the whole row: in one column, because  *)
(* BandSlot looks at its kind only, and once there.                         *)
(***************************************************************************)
THEOREM OneEntry == Spec => []OneEntryPerSignal
<1>1. SignalsInv => OneEntryPerSignal
  <2> SUFFICES ASSUME SignalsInv, NEW e \in Entries, NEW f \in Entries, SameSignal(At(e), At(f))
               PROVE  e = f
    BY DEF OneEntryPerSignal
  <2>1. PICK b \in Bands : \E i \in DOMAIN columns[b] : e = <<b, i>>
    BY DEF Entries
  <2>2. PICK i \in DOMAIN columns[b] : e = <<b, i>>
    BY <2>1
  <2>3. PICK c \in Bands : \E j \in DOMAIN columns[c] : f = <<c, j>>
    BY DEF Entries
  <2>4. PICK j \in DOMAIN columns[c] : f = <<c, j>>
    BY <2>3
  <2>5. At(e) = columns[b][i] /\ At(f) = columns[c][j]
    BY <2>2, <2>4 DEF At
  <2>6. Slot(system, At(e)) = Slot(system, At(f))
    BY DEF SameSignal, Slot
  <2>7. b = c
    BY <2>5, <2>6 DEF SignalsInv, ColumnsInv
  <2>8. i = j
    BY <2>5, <2>7 DEF SignalsInv, ColumnsInv, Distinct
  <2> QED BY <2>2, <2>4, <2>7, <2>8
<1> QED BY <1>1, SignalsInvariant, PTL

(***************************************************************************)
(* The row shows nothing that was not received, and of a known system every *)
(* kind received, with its strongest SNR.                                   *)
(***************************************************************************)
THEOREM StrongestIsKept == Spec => []StrongestKept
<1>1. SignalsInv => StrongestKept
  <2> SUFFICES ASSUME SignalsInv PROVE StrongestKept
    OBVIOUS
  <2>1. ASSUME NEW e \in Entries PROVE \E k \in DOMAIN received : received[k] = At(e)
    <3>1. PICK b \in Bands : \E i \in DOMAIN columns[b] : e = <<b, i>>
      BY DEF Entries
    <3>2. PICK i \in DOMAIN columns[b] : e = <<b, i>>
      BY <3>1
    <3>3. At(e) = columns[b][i]
      BY <3>2 DEF At
    <3> QED BY <3>3 DEF SignalsInv, ColumnsInv
  <2>2. ASSUME system \in Known, NEW k \in DOMAIN received
        PROVE  \E e \in Entries : SameSignal(At(e), received[k]) /\ At(e).snr >= received[k].snr
    <3>1. Slot(system, received[k]) \in Bands
      BY <2>2, KnownHaveBands DEF Slot
    <3>2. PICK b \in Bands : Shows(columns[b], received[k])
      BY <3>1 DEF SignalsInv, KeptInv
    <3>3. PICK i \in DOMAIN columns[b] :
            SameSignal(columns[b][i], received[k]) /\ columns[b][i].snr >= received[k].snr
      BY <3>2 DEF Shows
    <3>4. <<b, i>> \in Entries /\ At(<<b, i>>) = columns[b][i]
      BY DEF Entries, At
    <3> QED BY <3>3, <3>4
  <2> QED BY <2>1, <2>2 DEF StrongestKept
<1> QED BY <1>1, SignalsInvariant, PTL

\* The values of the key.
LEMMA OrderValues ==
  ASSUME NEW sys, NEW sig
  PROVE  /\ sys = Galileo /\ sig.block \in {L5, E5B, E5AB, E6} =>
              signalOrder(sys, sig) = sig.block - L5
         /\ sys \in DualCodes /\ sig.track \in {0, 1} => signalOrder(sys, sig) = 1 - sig.track
         /\ ~(sys = Galileo /\ sig.block \in {L5, E5B, E5AB, E6})
              /\ ~(sys \in DualCodes /\ sig.track \in {0, 1}) =>
                   signalOrder(sys, sig) = sig.track
<1>1. Galileo \notin DualCodes /\ {GLONASS, GPS, SBAS} = DualCodes
  BY DEF DualCodes, Galileo, GPS, GLONASS, SBAS
<1> QED BY <1>1, Zenon DEF signalOrder

\* The key agrees with the rules of the display order.
LEMMA KeysFollowRules ==
  ASSUME NEW sys, NEW s \in Signal, NEW t \in Signal, Before(sys, s, t)
  PROVE  signalOrder(sys, s) < signalOrder(sys, t)
<1>1. /\ s.track \in 0 .. 255 /\ t.track \in 0 .. 255
      /\ s.block \in 0 .. 255 /\ t.block \in 0 .. 255
  BY SignalsAssumption DEF SignalsAssumption, Signal
<1>2. Galileo \notin DualCodes
  BY DEF DualCodes, Galileo, GPS, GLONASS, SBAS
<1>3. CASE sys = Galileo /\ <<s.block, t.block>> \in E5Order
  <2>1. \/ s.block = L5 /\ t.block = E5B
        \/ s.block = L5 /\ t.block = E5AB
        \/ s.block = E5B /\ t.block = E5AB
    BY <1>3 DEF E5Order
  <2>2. signalOrder(sys, s) = s.block - L5 /\ signalOrder(sys, t) = t.block - L5
    BY <1>3, <2>1, OrderValues
  <2> QED BY <2>1, <2>2 DEF L5, E5B, E5AB
<1>4. CASE sys \in DualCodes /\ s.track = 1 /\ t.track = 0
  <2>1. signalOrder(sys, s) = 1 - 1 /\ signalOrder(sys, t) = 1 - 0
    BY <1>4, OrderValues
  <2> QED BY <2>1
<1>5. CASE /\ s.track < t.track
           /\ ~(sys \in DualCodes /\ s.track = 0 /\ t.track = 1)
           /\ ~(sys = Galileo /\ {s.block, t.block} \cap {L5, E5B, E5AB, E6} # {})
  <2>1. CASE sys \in DualCodes
    <3>1. t.track > 1
      BY <1>1, <1>5, <2>1
    <3>2. signalOrder(sys, t) = t.track
      BY <1>2, <2>1, <3>1, OrderValues
    <3>3. CASE s.track \in {0, 1}
      <4>1. signalOrder(sys, s) = 1 - s.track
        BY <2>1, <3>3, OrderValues
      <4> QED BY <1>1, <3>1, <3>2, <3>3, <4>1
    <3>4. CASE s.track \notin {0, 1}
      <4>1. signalOrder(sys, s) = s.track
        BY <1>2, <2>1, <3>4, OrderValues
      <4> QED BY <1>5, <3>2, <4>1
    <3> QED BY <3>3, <3>4
  <2>2. CASE sys \notin DualCodes
    <3>1. sys = Galileo => s.block \notin {L5, E5B, E5AB, E6} /\ t.block \notin {L5, E5B, E5AB, E6}
      BY <1>5
    <3>2. signalOrder(sys, s) = s.track /\ signalOrder(sys, t) = t.track
      BY <2>2, <3>1, OrderValues
    <3> QED BY <1>5, <3>2
  <2> QED BY <2>1, <2>2
<1> QED BY <1>3, <1>4, <1>5 DEF Before

(***************************************************************************)
(* The exchange sort leaves every column in display order, however many     *)
(* signals it holds: none stands before one that belongs before it.         *)
(***************************************************************************)
THEOREM Displayed == Spec => []InDisplayOrder
<1>1. ASSUME SignalsInv PROVE InDisplayOrder
  <2> SUFFICES ASSUME phase = "ordered", NEW b \in Bands, NEW i \in DOMAIN columns[b],
                      NEW j \in DOMAIN columns[b], i < j,
                      Before(system, columns[b][j], columns[b][i])
               PROVE  FALSE
    BY DEF InDisplayOrder
  <2>1. columns[b][i] \in Signal /\ columns[b][j] \in Signal
    BY <1>1 DEF SignalsInv, TypeOK
  <2>2. signalOrder(system, columns[b][i]) <= signalOrder(system, columns[b][j])
    BY <1>1 DEF SignalsInv, InKeyOrder
  <2>3. signalOrder(system, columns[b][j]) < signalOrder(system, columns[b][i])
    BY <2>1, KeysFollowRules
  <2> QED BY <2>1, <2>2, <2>3, OrderType
<1> QED BY <1>1, SignalsInvariant, PTL

-----------------------------------------------------------------------------
(* The two tables of TrackTypeName and BandSlot.                            *)

\* No two guards of a CASE over the systems hold together.
LEMMA SystemsDiffer ==
  /\ \A sys \in Beidou : sys \notin {GPS, QZSS, GLONASS, Galileo, SBAS, OmniStar, Terralite}
  /\ \A sys \in {GPS, QZSS} : sys \notin Beidou \cup {GLONASS, Galileo, SBAS, OmniStar, Terralite}
  /\ GLONASS \notin Beidou \cup {GPS, QZSS, Galileo, SBAS, OmniStar, Terralite}
  /\ Galileo \notin Beidou \cup {GPS, QZSS, GLONASS, SBAS, OmniStar, Terralite}
  /\ SBAS \notin Beidou \cup {GPS, QZSS, GLONASS, Galileo, OmniStar, Terralite}
  /\ \A sys \in {OmniStar, Terralite} : sys \notin Beidou \cup {GPS, QZSS, GLONASS, Galileo, SBAS}
BY DEF Beidou, GPS, QZSS, GLONASS, Galileo, SBAS, OmniStar, Terralite

\* The rows of BandSlot.
LEMMA BandSlotRows ==
  ASSUME NEW sys, NEW block, NEW track, track # 20
  PROVE  /\ sys \in Beidou => BandSlot(sys, block, track) =
              IF track \in {6, 8} THEN BandL5 ELSE Table({B1}, {}, {B3}, BandL5, block)
         /\ sys \in {GPS, QZSS} =>
              BandSlot(sys, block, track) = Table({L1, E1, S1}, {L2}, {}, BandL5, block)
         /\ sys = GLONASS =>
              BandSlot(sys, block, track) = Table({L1}, {L2}, {}, BandL5, block)
         /\ sys = Galileo =>
              BandSlot(sys, block, track) = Table({L1, E1}, {}, {E6}, BandL5, block)
         /\ sys = SBAS => BandSlot(sys, block, track) =
              IF track \in {6, 7, 8} THEN BandL5 ELSE Table({L1, S1}, {}, {}, BandL5, block)
         /\ sys \in {OmniStar, Terralite} =>
              BandSlot(sys, block, track) = Table({L1, S1}, {}, {}, BandL5, block)
<1>1. CASE sys \in Beidou
  BY <1>1, SystemsDiffer, Zenon DEF BandSlot
<1>2. CASE sys \in {GPS, QZSS}
  BY <1>2, SystemsDiffer, Zenon DEF BandSlot
<1>3. CASE sys = GLONASS
  BY <1>3, SystemsDiffer, Zenon DEF BandSlot
<1>4. CASE sys = Galileo
  BY <1>4, SystemsDiffer, Zenon DEF BandSlot
<1>5. CASE sys = SBAS
  BY <1>5, SystemsDiffer, Zenon DEF BandSlot
<1>6. CASE sys \in {OmniStar, Terralite}
  BY <1>6, SystemsDiffer, Zenon DEF BandSlot
<1> QED BY <1>1, <1>2, <1>3, <1>4, <1>5, <1>6

\* The label of a code ...
LEMMA CodeBands ==
  ASSUME NEW sys, NEW track
  PROVE  /\ track \in {3, 4} => signalCodeBand(sys, track) = BandL2
         /\ track \in {6, 8} /\ sys \in Beidou => signalCodeBand(sys, track) = BandL5
         /\ track = 20 /\ sys \in Beidou \cup {GPS, QZSS, Galileo} =>
              signalCodeBand(sys, track) = BandL1
         /\ track \notin {3, 4} /\ ~(track \in {6, 8} /\ sys \in Beidou)
              /\ ~(track = 20 /\ sys \in Beidou \cup {GPS, QZSS, Galileo}) =>
                   signalCodeBand(sys, track) = NoBand
<1>1. /\ track \in {3, 4} => track \notin {6, 8} /\ track # 20
      /\ track \in {6, 8} => track \notin {3, 4} /\ track # 20
      /\ track = 20 => track \notin {3, 4} /\ track \notin {6, 8}
  OBVIOUS
<1> QED BY <1>1, Zenon DEF signalCodeBand

\* ... and that of a system's own table.
LEMMA SystemBands ==
  ASSUME NEW sys, NEW block, NEW track
  PROVE  /\ sys = Galileo => ownTrackBand(sys, block, track) = galileoTrackBand(block)
         /\ sys = GLONASS => ownTrackBand(sys, block, track) = glonassTrackBand(block, track)
         /\ sys = SBAS => ownTrackBand(sys, block, track) = sbasTrackBand(track)
         /\ sys \in {OmniStar, Terralite} =>
              ownTrackBand(sys, block, track) = mssTrackBand(sys, block, track)
         /\ sys \notin {Galileo, GLONASS, SBAS, OmniStar, Terralite} =>
              ownTrackBand(sys, block, track) = NoBand
BY SystemsDiffer, Zenon DEF ownTrackBand

LEMMA GalileoBands ==
  ASSUME NEW block
  PROVE  /\ block = E1 => galileoTrackBand(block) = BandL1
         /\ block \in {L5, E5B, E5AB} => galileoTrackBand(block) = BandL5
         /\ block = E6 => galileoTrackBand(block) = BandL6
         /\ block \notin {E1, L5, E5B, E5AB, E6} => galileoTrackBand(block) = NoBand
<1>1. E1 \notin {L5, E5B, E5AB, E6} /\ E6 \notin {L5, E5B, E5AB}
  BY DEF E1, L5, E5B, E5AB, E6
<1> QED BY <1>1, Zenon DEF galileoTrackBand

\* A block of type L2 is shown as L2 where there is an L2; L2 and L6 are where they belong.
LEMMA RowsMakeSense ==
  ASSUME NEW sys \in Known, NEW block, NEW track
  PROVE  /\ BandSlot(sys, block, track) = BandL2 => sys \in HasL2
         /\ BandSlot(sys, block, track) = BandL6 => sys \in {Galileo} \cup Beidou
         /\ block = L2 /\ sys \in HasL2 => BandSlot(sys, block, track) # BandL5
<1> USE DEF Table, BandL1, BandL2, BandL5, BandL6, HasL2
<1>1. CASE track = 20
  <2>1. BandSlot(sys, block, track) = BandL1
    BY <1>1 DEF BandSlot
  <2> QED BY <2>1
<1>2. CASE track # 20 /\ sys \in Beidou
  BY <1>2, BandSlotRows, SystemsDiffer
<1>3. CASE track # 20 /\ sys \in {GPS, QZSS}
  BY <1>3, BandSlotRows DEF L1, E1, S1, L2
<1>4. CASE track # 20 /\ sys = GLONASS
  BY <1>4, BandSlotRows DEF L1, L2
<1>5. CASE track # 20 /\ sys = Galileo
  BY <1>5, BandSlotRows, SystemsDiffer
<1>6. CASE track # 20 /\ sys = SBAS
  BY <1>6, BandSlotRows, SystemsDiffer
<1>7. CASE track # 20 /\ sys \in {OmniStar, Terralite}
  BY <1>7, BandSlotRows, SystemsDiffer
<1> QED BY <1>1, <1>2, <1>3, <1>4, <1>5, <1>6, <1>7 DEF Known

\* Except for track 20 and the L5 codes of BeiDou and SBAS the column is the block's.
LEMMA BlockColumns ==
  ASSUME system \in Known, NEW block, NEW track, track # 20,
         ~(system \in Beidou /\ track \in {6, 8}), ~(system = SBAS /\ track \in {6, 7, 8})
  PROVE  BandSlot(system, block, track) = BlockColumn(block)
<1>1. 0 # 20 /\ 0 \notin {6, 8} /\ 0 \notin {6, 7, 8}
  OBVIOUS
<1>2. CASE system \in Beidou
  BY <1>1, <1>2, BandSlotRows DEF BlockColumn
<1>3. CASE system \in {GPS, QZSS}
  BY <1>1, <1>3, BandSlotRows DEF BlockColumn
<1>4. CASE system = GLONASS \/ system = Galileo
  BY <1>1, <1>4, BandSlotRows DEF BlockColumn
<1>5. CASE system = SBAS
  BY <1>1, <1>5, BandSlotRows DEF BlockColumn
<1>6. CASE system \in {OmniStar, Terralite}
  BY <1>1, <1>6, BandSlotRows DEF BlockColumn
<1> QED BY <1>2, <1>3, <1>4, <1>5, <1>6 DEF Known

\* Labels of codes.
LEMMA CodesAgree ==
  ASSUME system \in Known, NEW block, NEW track, hasCodeName(system, track)
  PROVE  LabelAgrees(block, track)
<1> DEFINE named == LabelBand(system, block, track)
           band == BandSlot(system, block, track)
<1>1. named = signalCodeBand(system, track)
  BY DEF LabelBand
<1>2. track # 35
  BY DEF hasCodeName
<1>3. Misnamed(block, track) <=> track \in {3, 4} /\ ~(block = L2 /\ system \in HasL2)
  BY <1>2 DEF Misnamed
<1>4. CASE track \in {3, 4}
  <2>1. named = BandL2 /\ track # 20 /\ track \notin {6, 7, 8}
    BY <1>1, <1>4, CodeBands
  <2>2. band = BlockColumn(block)
    BY <2>1, BlockColumns
  <2>3. block = L2 /\ system \in HasL2 => band = BandL2
    BY <2>1, BandSlotRows DEF HasL2, Table, L1, L2, E1, S1
  <2>4. band = BandL2 => system \in HasL2
    BY RowsMakeSense
  <2>5. band = BandL2 => block = L2
    <3> SUFFICES ASSUME band = BandL2 PROVE block = L2
      OBVIOUS
    <3>1. system \in {GPS, QZSS} \/ system = GLONASS
      BY <2>4 DEF HasL2
    <3> QED BY <2>1, <3>1, BandSlotRows DEF Table, BandL1, BandL2, BandL5, BandL6
  <2> QED BY <1>3, <1>4, <2>1, <2>2, <2>3, <2>4, <2>5 DEF LabelAgrees
<1>5. CASE track \in {6, 8} /\ system \in Beidou
  <2>1. named = BandL5 /\ track # 20 /\ track \notin {3, 4}
    BY <1>1, <1>5, CodeBands
  <2>2. band = BandL5
    BY <1>5, <2>1, BandSlotRows
  <2> QED BY <1>3, <2>1, <2>2 DEF LabelAgrees
<1>6. CASE track = 20
  <2>1. band = BandL1 /\ track \notin {3, 4} /\ track \notin {6, 8}
    BY <1>6 DEF BandSlot
  <2>2. named # NoBand => named = BandL1
    BY <1>1, <1>6, <2>1, CodeBands
  <2> QED BY <1>3, <2>1, <2>2 DEF LabelAgrees
<1> QED BY <1>4, <1>5, <1>6 DEF hasCodeName

\* Labels of a system's own table.
LEMMA OwnLabelsAgree ==
  ASSUME system \in Known, NEW block, NEW track, ~hasCodeName(system, track),
         ownTrackBand(system, block, track) # NoBand
  PROVE  LabelAgrees(block, track)
<1> DEFINE named == LabelBand(system, block, track)
           band == BandSlot(system, block, track)
<1>1. named = ownTrackBand(system, block, track)
  BY DEF LabelBand
<1>2. track \notin {3, 4, 20} /\ track # 20 /\ ~(system \in Beidou /\ track \in {6, 8})
  BY DEF hasCodeName
<1>3. Misnamed(block, track) <=> system = Terralite /\ track = 35 /\ block \in {L1, S1}
  BY <1>2 DEF Misnamed
<1>4. CASE system = Galileo
  <2>1. named = galileoTrackBand(block) /\ band = Table({L1, E1}, {}, {E6}, BandL5, block)
    BY <1>1, <1>2, <1>4, SystemBands, BandSlotRows
  <2>2. block \in {E1, L5, E5B, E5AB, E6}
    BY <1>1, <2>1, GalileoBands
  <2>3. band = named
    BY <2>1, <2>2, GalileoBands DEF Table, L1, E1, L5, E5B, E5AB, E6
  <2> QED BY <1>3, <1>4, <2>3, SystemsDiffer DEF LabelAgrees
<1>5. CASE system = GLONASS
  <2>1. /\ named = glonassTrackBand(block, track)
        /\ band = Table({L1}, {L2}, {}, BandL5, block)
    BY <1>1, <1>2, <1>5, SystemBands, BandSlotRows
  <2>2. named = BandL5 /\ block = G3
    BY <1>1, <2>1 DEF glonassTrackBand
  <2>3. band = named
    BY <2>1, <2>2 DEF Table, L1, L2, G3
  <2> QED BY <1>3, <1>5, <2>3, SystemsDiffer DEF LabelAgrees
<1>6. CASE system = SBAS
  <2>1. named = BandL5 /\ track \in {6, 7, 8}
    BY <1>1, <1>6, SystemBands DEF sbasTrackBand
  <2>2. band = named
    BY <1>2, <1>6, <2>1, BandSlotRows
  <2> QED BY <1>3, <1>6, <2>2, SystemsDiffer DEF LabelAgrees
<1>7. CASE system \in {OmniStar, Terralite}
  <2>1. /\ named = mssTrackBand(system, block, track)
        /\ band = Table({L1, S1}, {}, {}, BandL5, block)
    BY <1>1, <1>2, <1>7, SystemBands, BandSlotRows
  <2>2. band = BlockColumn(block)
    BY <1>2, <1>7, SystemsDiffer, BlockColumns
  <2>3. XPS \notin {L1, S1} /\ BandL1 # BandL5
    BY DEF XPS, L1, S1, BandL1, BandL5
  <2>4. band = IF block \in {L1, S1} THEN BandL1 ELSE BandL5
    BY <2>1 DEF Table
  <2>5. CASE system = Terralite /\ (block = XPS \/ track = 35)
    <3>1. named = BandL5
      BY <2>1, <2>5 DEF mssTrackBand
    <3> QED BY <1>3, <2>2, <2>3, <2>4, <2>5, <3>1 DEF LabelAgrees
  <2>6. CASE ~(system = Terralite /\ (block = XPS \/ track = 35))
    <3>1. named = BandL1 /\ block \in {L1, S1}
      BY <1>1, <2>1, <2>6 DEF mssTrackBand
    <3> QED BY <1>3, <2>4, <2>6, <3>1 DEF LabelAgrees
  <2> QED BY <2>5, <2>6
<1>8. CASE system \notin {Galileo, GLONASS, SBAS, OmniStar, Terralite}
  BY <1>8, SystemBands
<1> QED BY <1>4, <1>5, <1>6, <1>7, <1>8

\* Labels of the track type alone: the column is the block's.
LEMMA TrackLabelsAgree ==
  ASSUME system \in Known, NEW block, NEW track, ~hasCodeName(system, track),
         ownTrackBand(system, block, track) = NoBand
  PROVE  LabelAgrees(block, track)
<1> DEFINE named == LabelBand(system, block, track)
           band == BandSlot(system, block, track)
<1>1. named = trackBand(block, track)
  BY DEF LabelBand
<1>2. track \notin {3, 4} /\ track # 20 /\ ~(system \in Beidou /\ track \in {6, 8})
  BY DEF hasCodeName
<1>3. ~(system = Terralite /\ track = 35)
  <2> SUFFICES ASSUME system = Terralite, track = 35 PROVE FALSE
    OBVIOUS
  <2>1. ownTrackBand(system, block, track) = BandL5
    BY SystemBands DEF mssTrackBand
  <2> QED BY <2>1 DEF BandL5, NoBand
<1>4. ~(system = SBAS /\ track \in {6, 7, 8})
  <2> SUFFICES ASSUME system = SBAS, track \in {6, 7, 8} PROVE FALSE
    OBVIOUS
  <2>1. ownTrackBand(system, block, track) = BandL5
    BY SystemBands DEF sbasTrackBand
  <2> QED BY <2>1 DEF BandL5, NoBand
<1>5. band = BlockColumn(block)
  BY <1>2, <1>4, BlockColumns
<1>6. Misnamed(block, track) <=> trackBand(block, track) # BlockColumn(block)
  BY <1>2, <1>3 DEF Misnamed
<1> QED BY <1>1, <1>5, <1>6 DEF LabelAgrees

(***************************************************************************)
(* Every signal of a known system has a column, L2 and L6 are columns of    *)
(* the systems that have these bands, and of every block and track type it  *)
(* is known whether the column BandSlot puts the signal in is the one its   *)
(* label names: it is, except in the cases Misnamed lists.                  *)
(***************************************************************************)
THEOREM ColumnsAndLabels == Spec => []ColumnsMakeSense
<1>1. ASSUME system \in Known, NEW block, NEW track PROVE LabelAgrees(block, track)
  BY <1>1, CodesAgree, OwnLabelsAgree, TrackLabelsAgree
<1>2. ColumnsMakeSense
  BY <1>1, KnownHaveBands, RowsMakeSense DEF ColumnsMakeSense
<1> QED BY <1>2, PTL
=============================================================================
