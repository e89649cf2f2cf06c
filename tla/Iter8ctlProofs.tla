--------------------------- MODULE Iter8ctlProofs ---------------------------
(***************************************************************************)
(* What iter8ctl prints: the version it marks as the best, for any number  *)
(* of versions and any values, and the logs, for any number of lines.      *)
(***************************************************************************)
EXTENDS RunningStageProofs

-----------------------------------------------------------------------------
(***************************************************************************)
(* The best version.  The loop: what is best after each of the versions.   *)
(***************************************************************************)
LEMMA BestIsVisited ==
    ASSUME NEW values, NEW direction, Len(values) \in Nat
    PROVE  /\ BestSoFar(values, direction)[0] = 0
           /\ \A i \in 1..Len(values) :
                 BestSoFar(values, direction)[i]
                     = Visit(values, direction, BestSoFar(values, direction)[i - 1], i)
<1>. DEFINE L == Len(values)
            Def(f) == [n \in 0..L |-> IF n = 0 THEN 0 ELSE Visit(values, direction, f[n - 1], n)]
            round == [p \in (0..L) \X (1..L) |-> Visit(values, direction, p[1], p[2])]
            h == BestSoFar(values, direction)
<1>1. h = CHOOSE f : f = Def(f)
  BY DEF BestSoFar
<1>0. L \in Nat
  OBVIOUS
<1>2. round \in [(0..L) \X (1..L) -> 0..L]
  <2>1. \A b \in 0..L, i \in 1..L : Visit(values, direction, b, i) \in 0..L
    BY <1>0 DEF Visit
  <2>. HIDE DEF L
  <2>. QED BY <2>1
<1>3. PICK f \in [0..L -> 0..L] : Rounds(f, 0, round, L)
  <2>1. 0 \in 0..L
    BY <1>0
  <2>. HIDE DEF L, round
  <2>. QED BY <1>0, <1>2, <2>1, RoundsExist
<1>4. \A i \in 1..L : round[<<f[i - 1], i>>] = Visit(values, direction, f[i - 1], i)
  <2>1. \A i \in 1..L : f[i - 1] \in 0..L
    BY <1>3
  <2>. QED BY <2>1
<1>5. f = Def(f)
  <2>1. f[0] = 0 /\ \A i \in 1..L : f[i] = Visit(values, direction, f[i - 1], i)
    BY <1>3, <1>4 DEF Rounds
  <2>. HIDE DEF L, round
  <2>. QED BY <1>0, <1>3, <2>1
<1>6. h = Def(h)
  <2>. HIDE DEF h, Def
  <2>. QED BY <1>1, <1>5
<1>. HIDE DEF h
<1>7. h[0] = 0 /\ \A i \in 1..L : h[i] = Visit(values, direction, h[i - 1], i)
  BY <1>6
<1>. QED BY <1>7 DEF h

-----------------------------------------------------------------------------
(***************************************************************************)
(* What the loop keeps: of the versions visited, none with a value beats   *)
(* the best, which beats all that come before it.                          *)
(***************************************************************************)
BestOfFirst(b, values, direction, n) ==
    /\ b \in 0..n
    /\ b = 0 => \A i \in 1..n : values[i] = Unavailable
    /\ b # 0 =>
          /\ values[b] # Unavailable
          /\ \A i \in 1..n :
                values[i] # Unavailable =>
                    /\ ~Beats(direction, values[i], values[b])
                    /\ i < b => Beats(direction, values[b], values[i])

LEMMA VisitKeepsBest ==
    ASSUME NEW values, NEW direction, NEW n \in Nat, NEW b,
           \A i \in 1..(n + 1) : values[i] \in Int,
           BestOfFirst(b, values, direction, n)
    PROVE  BestOfFirst(Visit(values, direction, b, n + 1), values, direction, n + 1)
<1>. DEFINE v == Visit(values, direction, b, n + 1)
<1>0. \A i \in 1..(n + 1) : i \in 1..n \/ i = n + 1
  OBVIOUS
<1>1. CASE values[n + 1] = Unavailable
  <2>1. v = b
    BY <1>1 DEF Visit
  <2>. QED BY <1>0, <1>1, <2>1 DEF BestOfFirst
<1>2. CASE values[n + 1] # Unavailable /\ b # 0 /\ ~Beats(direction, values[n + 1], values[b])
  <2>1. v = b
    BY <1>2 DEF Visit
  <2>2. b \in 1..n
    BY <1>2 DEF BestOfFirst
  <2>. QED BY <1>0, <1>2, <2>1, <2>2 DEF BestOfFirst
<1>3. CASE values[n + 1] # Unavailable /\ (b = 0 \/ Beats(direction, values[n + 1], values[b]))
  <2>1. v = n + 1
    BY <1>3 DEF Visit
  <2>2. ASSUME NEW i \in 1..n, values[i] # Unavailable
        PROVE  Beats(direction, values[n + 1], values[i])
    <3>1. b \in 1..n /\ ~Beats(direction, values[i], values[b])
      BY <2>2 DEF BestOfFirst
    <3>2. values[i] \in Int /\ values[b] \in Int /\ values[n + 1] \in Int
      BY <3>1
    <3>. QED BY <1>3, <3>1, <3>2 DEF Beats
  <2>3. \A x, y \in Int : Beats(direction, x, y) => ~Beats(direction, y, x)
    BY DEF Beats
  <2>4. \A i \in 1..(n + 1) : values[i] # Unavailable => ~Beats(direction, values[i], values[n + 1])
    <3>1. values[n + 1] \in Int
      OBVIOUS
    <3>2. ~Beats(direction, values[n + 1], values[n + 1])
      BY <3>1 DEF Beats
    <3>3. \A i \in 1..n : values[i] \in Int
      OBVIOUS
    <3>. QED BY <1>0, <2>2, <2>3, <3>1, <3>2, <3>3
  <2>. QED BY <1>0, <1>3, <2>1, <2>2, <2>4 DEF BestOfFirst
<1>. QED BY <1>1, <1>2, <1>3

(* GetAnnotatedMetricStrs marks (experiment.go:309) the first of the       *)
(* versions that have a value and that no other beats, and none if none    *)
(* has one, whatever the values and however many.                          *)
THEOREM FirstUnbeaten ==
    ASSUME NEW values, NEW direction, Len(values) \in Nat,
           \A i \in 1..Len(values) : values[i] \in Int
    PROVE  BestOfFirst(CurrentBest(values, direction), values, direction, Len(values))
<1>. DEFINE h == BestSoFar(values, direction)
            L == Len(values)
            Bad == {n \in 0..L : ~BestOfFirst(h[n], values, direction, n)}
<1>1. h[0] = 0 /\ \A i \in 1..L : h[i] = Visit(values, direction, h[i - 1], i)
  BY BestIsVisited
<1>. HIDE DEF h
<1>2. Bad = {}
  <2>. SUFFICES ASSUME Bad # {} PROVE FALSE
    OBVIOUS
  <2>1. PICK n \in Bad : \A m \in Bad : n <= m
    <3>1. Bad \in SUBSET Nat
      OBVIOUS
    <3>. HIDE DEF Bad
    <3>. QED BY <3>1, LeastNumber
  <2>2. CASE n = 0
    BY <1>1, <2>1, <2>2 DEF BestOfFirst
  <2>3. CASE n # 0
    <3>. DEFINE m == n - 1
    <3>1. n \in 1..L /\ m \in Nat /\ m \in 0..L /\ m + 1 = n /\ ~(n <= m)
      BY <2>1, <2>3
    <3>2. BestOfFirst(h[m], values, direction, m)
      BY <2>1, <3>1
    <3>. HIDE DEF m
    <3>3. h[n] = Visit(values, direction, h[m], m + 1)
      BY <1>1, <3>1 DEF m
    <3>4. \A i \in 1..(m + 1) : values[i] \in Int
      BY <3>1
    <3>5. BestOfFirst(h[n], values, direction, m + 1)
      BY <3>1, <3>2, <3>3, <3>4, VisitKeepsBest
    <3>. QED BY <2>1, <3>1, <3>5
  <2>. QED BY <2>2, <2>3
<1>3. BestOfFirst(h[L], values, direction, L)
  BY <1>2
<1>. QED BY <1>3 DEF CurrentBest, h

(* describe stars one version if any has a value, the first of those that  *)
(* no other beats (experiment.go:309), for whatever versions an experiment *)
(* has.                                                                    *)
THEOREM BestMarked == Spec => []BestIsMarked
<1>1. TypeInv => BestIsMarked
  <2>. SUFFICES ASSUME TypeInv,
                       NEW values \in [DOMAIN spec.versions -> {Unavailable, 1, 2}],
                       NEW direction \in PreferredDirection
                PROVE  LET available == {i \in DOMAIN values : values[i] # Unavailable}
                           unbeaten ==
                               {i \in available :
                                   \A j \in available : ~Beats(direction, values[j], values[i])}
                           best == CurrentBest(values, direction)
                       IN  /\ best = 0 <=> available = {}
                           /\ best # 0 => best \in unbeaten /\ \A i \in unbeaten : best <= i
    BY DEF BestIsMarked
  <2>. DEFINE available == {i \in DOMAIN values : values[i] # Unavailable}
              unbeaten == {i \in available :
                              \A j \in available : ~Beats(direction, values[j], values[i])}
              best == CurrentBest(values, direction)
  <2>. DEFINE L == Len(spec.versions)
  <2>1. L \in Nat /\ DOMAIN spec.versions = 1..L
    BY SpecTypes, LenProperties DEF TypeInv, TypeOK
  <2>2. Len(values) = L /\ DOMAIN values = 1..L /\ \A i \in 1..L : values[i] \in Int
    BY <2>1 DEF Unavailable
  <2>. HIDE DEF L
  <2>3. BestOfFirst(best, values, direction, L)
    BY <2>1, <2>2, FirstUnbeaten
  <2>. HIDE DEF best
  <2>4. best = 0 => available = {}
    BY <2>2, <2>3 DEF BestOfFirst
  <2>5. best # 0 => best \in available
    BY <2>1, <2>2, <2>3 DEF BestOfFirst
  <2>6. best # 0 => best \in unbeaten
    BY <2>1, <2>2, <2>3, <2>5 DEF BestOfFirst
  <2>7. ASSUME best # 0, NEW i \in unbeaten
        PROVE  best <= i
    <3>1. i \in 1..L /\ best \in 1..L /\ values[i] # Unavailable
          /\ ~Beats(direction, values[best], values[i])
      BY <2>1, <2>2, <2>3, <2>5, <2>7 DEF BestOfFirst
    <3>. QED BY <2>1, <2>3, <2>7, <3>1 DEF BestOfFirst
  <2>. QED BY <2>4, <2>5, <2>6, <2>7 DEF best
<1>. QED BY <1>1, TypesAlways, PTL

-----------------------------------------------------------------------------
(***************************************************************************)
(* The logs.  Insertion puts an entry at the place at which it stops.      *)
(***************************************************************************)
LEMMA PlaceOf ==
    ASSUME NEW Line, NEW logs \in Seq(Line), NEW new
    PROVE  /\ Place(logs, new) \in 1..(Len(logs) + 1)
           /\ \A i \in Place(logs, new)..Len(logs) : Precedes(new, logs[i])
           /\ Place(logs, new) > 1 => ~Precedes(new, logs[Place(logs, new) - 1])
<1>. DEFINE S == {0} \cup {i \in DOMAIN logs : ~Precedes(new, logs[i])}
            n == Len(logs)
<1>1. n \in Nat /\ DOMAIN logs = 1..n
  BY LenProperties
<1>2. S \in SUBSET (0..n) /\ S # {}
  BY <1>1
<1>3. \E m \in S : \A k \in S : k <= m
  <2>. HIDE DEF S, n
  <2>. QED BY <1>1, <1>2, GreatestNumber
<1>4. Max(S) \in S /\ \A k \in S : k <= Max(S)
  <2>1. S \in SUBSET Int
    BY <1>1
  <2>. HIDE DEF S
  <2>2. \E m \in S : \A k \in S : m >= k
    BY <1>3, <2>1
  <2>3. Max(S) \in S /\ \A k \in S : Max(S) >= k
    BY <2>2 DEF Max
  <2>. QED BY <2>1, <2>3
<1>. DEFINE m == Max(S)
<1>5. m \in 0..n
  BY <1>2, <1>4
<1>6. Place(logs, new) = m + 1
  BY <1>5 DEF Place
<1>. HIDE DEF m
<1>7. \A i \in (m + 1)..n : Precedes(new, logs[i])
  BY <1>1, <1>4, <1>5 DEF m
<1>8. m > 0 => ~Precedes(new, logs[m])
  BY <1>1, <1>4, <1>5 DEF m
<1>. QED BY <1>1, <1>5, <1>6, <1>7, <1>8

Inserted(s, logs, new, p) ==
    /\ Len(s) = Len(logs) + 1
    /\ \A i \in 1..(p - 1) : s[i] = logs[i]
    /\ s[p] = new
    /\ \A i \in p..Len(logs) : s[i + 1] = logs[i]

LEMMA SinkEntries ==
    ASSUME NEW Line, NEW logs \in Seq(Line), NEW new \in Line
    PROVE  /\ Sink(logs, new) \in Seq(Line)
           /\ Inserted(Sink(logs, new), logs, new, Place(logs, new))
<1>. DEFINE p == Place(logs, new)
            n == Len(logs)
            front == SubSeq(logs, 1, p - 1)
            back == SubSeq(logs, p, n)
<1>1. n \in Nat /\ p \in 1..(n + 1) /\ \A i \in 1..n : logs[i] \in Line
  BY PlaceOf, LenProperties, ElementOfSeq
<1>. HIDE DEF p, n
<1>2. front \in Seq(Line) /\ Len(front) = p - 1 /\ \A i \in 1..(p - 1) : front[i] = logs[i]
  BY <1>1 DEF n
<1>3. back \in Seq(Line) /\ Len(back) = n - p + 1 /\ \A i \in 1..(n - p + 1) : back[i] = logs[i + p - 1]
  BY <1>1 DEF n
<1>. HIDE DEF front, back
<1>. DEFINE mid == front \o <<new>>
            all == mid \o back
<1>4. mid \in Seq(Line) /\ Len(mid) = p
      /\ (\A i \in 1..(p - 1) : mid[i] = logs[i]) /\ mid[p] = new
  BY <1>1, <1>2
<1>. HIDE DEF mid
<1>5. all \in Seq(Line) /\ Len(all) = n + 1
  BY <1>1, <1>3, <1>4
<1>6. \A i \in 1..p : all[i] = mid[i]
  BY <1>1, <1>3, <1>4
<1>7. \A i \in p..n : all[i + 1] = logs[i]
  <2>. SUFFICES ASSUME NEW i \in p..n PROVE all[i + 1] = logs[i]
    OBVIOUS
  <2>1. i + 1 - p \in 1..(n - p + 1) /\ i + 1 \in (p + 1)..(n + 1)
    BY <1>1
  <2>2. all[i + 1] = back[i + 1 - p]
    BY <1>1, <1>3, <1>4, <2>1, ConcatProperties
  <2>3. back[i + 1 - p] = logs[i]
    BY <1>1, <1>3, <2>1
  <2>. QED BY <2>2, <2>3
<1>8. Sink(logs, new) = all
  BY DEF Sink, InsertAt, all, mid, front, back, p, n
<1>. HIDE DEF all
<1>9. Inserted(all, logs, new, p)
  BY <1>1, <1>4, <1>5, <1>6, <1>7 DEF Inserted, n
<1>. QED BY <1>5, <1>8, <1>9 DEF p

(* Entries as they come: no entry twice and, of few, those of the same     *)
(* precedence as they were written.  And as they are printed.              *)
Behind(a, b, few) ==
    /\ a # b
    /\ few /\ a.precedence = b.precedence => a.text < b.text

Written(logs, few) ==
    \A i, j \in 1..Len(logs) : i < j => Behind(logs[i], logs[j], few)

InPrint(logs, few) ==
    \A i, j \in 1..Len(logs) : i < j => InOrder(logs[i], logs[j], few)

(* An entry that comes behind all the others takes its place in order.     *)
LEMMA SinkKeepsOrder ==
    ASSUME NEW Line, \A l \in Line : l.precedence \in Int,
           NEW few \in BOOLEAN, NEW logs \in Seq(Line), NEW new \in Line,
           \A i \in 1..Len(logs) : Behind(logs[i], new, few),
           InPrint(logs, few)
    PROVE  /\ ToSet(Sink(logs, new)) = ToSet(logs) \cup {new}
           /\ InPrint(Sink(logs, new), few)
<1>. DEFINE p == Place(logs, new)
            n == Len(logs)
            s == Sink(logs, new)
<1>1. /\ n \in Nat /\ DOMAIN logs = 1..n /\ p \in 1..(n + 1)
      /\ \A i \in 1..n : logs[i] \in Line
  BY PlaceOf, LenProperties, ElementOfSeq
<1>2. /\ s \in Seq(Line) /\ Len(s) = n + 1 /\ DOMAIN s = 1..(n + 1)
      /\ \A i \in 1..(p - 1) : s[i] = logs[i]
      /\ s[p] = new
      /\ \A i \in p..n : s[i + 1] = logs[i]
  <2>1. s \in Seq(Line) /\ Inserted(s, logs, new, p)
    BY SinkEntries
  <2>. HIDE DEF s
  <2>. QED BY <2>1, LenProperties DEF Inserted
<1>3. ASSUME NEW i \in 1..(p - 1) PROVE InOrder(logs[i], new, few)
  <2>1. p > 1 /\ i \in 1..n /\ p - 1 \in 1..n
    BY <1>1
  <2>2. ~Precedes(new, logs[p - 1])
    BY <2>1, PlaceOf
  <2>3. logs[p - 1].precedence <= new.precedence
    BY <1>1, <2>1, <2>2 DEF Precedes
  <2>4. logs[i].precedence <= logs[p - 1].precedence
    <3>1. CASE i = p - 1
      BY <1>1, <2>1, <3>1
    <3>2. CASE i # p - 1
      <4>1. i < p - 1
        BY <1>1, <3>2
      <4>2. InOrder(logs[i], logs[p - 1], few)
        BY <2>1, <4>1 DEF InPrint
      <4>. QED BY <1>1, <2>1, <4>2 DEF InOrder
    <3>. QED BY <3>1, <3>2
  <2>5. Behind(logs[i], new, few)
    BY <2>1
  <2>. QED BY <1>1, <2>1, <2>3, <2>4, <2>5 DEF InOrder, Behind
<1>4. ASSUME NEW i \in p..n PROVE InOrder(new, logs[i], few)
  <2>1. Precedes(new, logs[i]) /\ i \in 1..n
    BY <1>1, PlaceOf
  <2>. QED BY <1>1, <2>1 DEF Precedes, InOrder
<1>. HIDE DEF p, n, s
<1>5. ASSUME NEW i \in 1..(n + 1), NEW j \in 1..(n + 1), i < j
      PROVE  InOrder(s[i], s[j], few)
  <2>1. CASE j < p
    <3>1. i \in 1..(p - 1) /\ j \in 1..(p - 1) /\ i \in 1..n /\ j \in 1..n
      BY <1>1, <1>5, <2>1
    <3>. QED BY <1>2, <1>5, <3>1 DEF n, InPrint
  <2>2. CASE j = p
    <3>1. i \in 1..(p - 1)
      BY <1>1, <1>5, <2>2
    <3>. QED BY <1>2, <1>3, <2>2, <3>1
  <2>3. CASE j > p
    <3>1. j - 1 \in p..n /\ s[j] = logs[j - 1]
      <4>1. j - 1 \in p..n /\ j - 1 + 1 = j
        BY <1>1, <2>3
      <4>. QED BY <1>2, <4>1
    <3>2. CASE i < p
      <4>1. i \in 1..(p - 1) /\ i \in 1..n /\ j - 1 \in 1..n /\ i < j - 1
        BY <1>1, <3>1, <3>2
      <4>. QED BY <1>2, <3>1, <4>1 DEF n, InPrint
    <3>3. CASE i = p
      BY <1>2, <1>4, <3>1, <3>3
    <3>4. CASE i > p
      <4>1. i - 1 \in p..n /\ i - 1 + 1 = i
        BY <1>1, <1>5, <3>4
      <4>2. s[i] = logs[i - 1] /\ i - 1 \in 1..n /\ j - 1 \in 1..n /\ i - 1 < j - 1
        BY <1>1, <1>2, <1>5, <3>1, <4>1
      <4>. QED BY <3>1, <4>2 DEF n, InPrint
    <3>. QED BY <1>1, <3>2, <3>3, <3>4
  <2>. QED BY <1>1, <2>1, <2>2, <2>3
<1>6. ToSet(s) \subseteq ToSet(logs) \cup {new}
  <2>. SUFFICES ASSUME NEW i \in 1..(n + 1) PROVE s[i] \in ToSet(logs) \cup {new}
    BY <1>2 DEF ToSet
  <2>1. CASE i < p
    <3>1. i \in 1..(p - 1) /\ i \in 1..n
      BY <1>1, <2>1
    <3>. QED BY <1>1, <1>2, <3>1 DEF ToSet
  <2>2. CASE i = p
    BY <1>2, <2>2
  <2>3. CASE i > p
    <3>1. i - 1 \in p..n /\ i - 1 \in 1..n /\ i - 1 + 1 = i
      BY <1>1, <2>3
    <3>2. s[i] = logs[i - 1]
      BY <1>2, <3>1
    <3>. QED BY <1>1, <3>1, <3>2 DEF ToSet
  <2>. QED BY <1>1, <2>1, <2>2, <2>3
<1>7. ToSet(logs) \cup {new} \subseteq ToSet(s)
  <2>1. new \in ToSet(s)
    BY <1>1, <1>2 DEF ToSet
  <2>2. ASSUME NEW i \in 1..n PROVE logs[i] \in ToSet(s)
    <3>1. CASE i < p
      <4>1. i \in 1..(p - 1) /\ i \in 1..(n + 1)
        BY <1>1, <3>1
      <4>. QED BY <1>2, <4>1 DEF ToSet
    <3>2. CASE i >= p
      <4>1. i \in p..n /\ i + 1 \in 1..(n + 1)
        BY <1>1, <3>2
      <4>. QED BY <1>2, <4>1 DEF ToSet
    <3>. QED BY <1>1, <3>1, <3>2
  <2>. QED BY <1>1, <2>1, <2>2 DEF ToSet
<1>. QED BY <1>2, <1>5, <1>6, <1>7 DEF s, InPrint

(* Insertion: what has been sorted after each of the entries.              *)
LEMMA InsertionSorts ==
    ASSUME NEW Line, \A l \in Line : l.precedence \in Int,
           NEW few \in BOOLEAN, NEW logs \in Seq(Line), Written(logs, few)
    PROVE  /\ Insertion(logs) \in Seq(Line)
           /\ Len(Insertion(logs)) = Len(logs)
           /\ ToSet(Insertion(logs)) = ToSet(logs)
           /\ InPrint(Insertion(logs), few)
<1>. DEFINE L == Len(logs)
            Def(f) == [n \in 0..L |-> IF n = 0 THEN <<>> ELSE Sink(f[n - 1], logs[n])]
            round == [p \in Seq(Line) \X (1..L) |-> Sink(p[1], logs[p[2]])]
            h == CHOOSE f : f = Def(f)
<1>1. Insertion(logs) = h[L]
  BY DEF Insertion
<1>2. L \in Nat /\ <<>> \in Seq(Line) /\ DOMAIN logs = 1..L /\ \A i \in 1..L : logs[i] \in Line
  BY LenProperties, ElementOfSeq, EmptySeq
<1>. HIDE DEF L
<1>3. \A s \in Seq(Line), i \in 1..L :
         Sink(s, logs[i]) \in Seq(Line) /\ Len(Sink(s, logs[i])) = Len(s) + 1
  BY <1>2, SinkEntries DEF Inserted
<1>4. round \in [Seq(Line) \X (1..L) -> Seq(Line)]
  BY <1>3
<1>5. PICK f \in [0..L -> Seq(Line)] : Rounds(f, <<>>, round, L)
  <2>. HIDE DEF round
  <2>. QED BY <1>2, <1>4, RoundsExist
<1>6. f[0] = <<>> /\ \A i \in 1..L : f[i] = Sink(f[i - 1], logs[i])
  <2>1. \A i \in 1..L : f[i - 1] \in Seq(Line)
    BY <1>2, <1>5
  <2>2. \A i \in 1..L : round[<<f[i - 1], i>>] = Sink(f[i - 1], logs[i])
    BY <2>1
  <2>. QED BY <1>5, <2>2 DEF Rounds
<1>7. f = Def(f)
  BY <1>2, <1>5, <1>6
<1>8. h = Def(h)
  <2>. HIDE DEF Def
  <2>. QED BY <1>7
<1>. HIDE DEF h
<1>9. h[0] = <<>> /\ \A i \in 1..L : h[i] = Sink(h[i - 1], logs[i])
  BY <1>2, <1>8
<1>. DEFINE First(n) == {logs[k] : k \in 1..n}
            Sorted(s, n) == /\ s \in Seq(Line) /\ Len(s) = n /\ ToSet(s) = First(n)
                            /\ InPrint(s, few)
            Good == {n \in 0..L : Sorted(h[n], n)}
<1>10. 0 \in Good
  <2>1. First(0) = {} /\ ToSet(<<>>) = {} /\ Len(<<>>) = 0
    BY DEF ToSet
  <2>2. InPrint(<<>>, few)
    BY <2>1 DEF InPrint
  <2>. HIDE DEF First
  <2>3. Sorted(h[0], 0)
    BY <1>2, <1>9, <2>1, <2>2
  <2>. HIDE DEF Sorted
  <2>. QED BY <1>2, <2>3
<1>11. ASSUME NEW n \in 1..L, n - 1 \in Good
       PROVE  n \in Good
  <2>. DEFINE s == h[n - 1]
  <2>1. s \in Seq(Line) /\ Len(s) = n - 1 /\ ToSet(s) = First(n - 1) /\ InPrint(s, few)
    BY <1>11
  <2>2. h[n] = Sink(s, logs[n]) /\ logs[n] \in Line
    BY <1>2, <1>9
  <2>. HIDE DEF s
  <2>3. ASSUME NEW i \in 1..Len(s)
        PROVE  Behind(s[i], logs[n], few)
    <3>1. s[i] \in ToSet(s)
      BY <2>1, LenProperties DEF ToSet
    <3>2. PICK k \in 1..(n - 1) : s[i] = logs[k]
      BY <2>1, <3>1
    <3>3. k \in 1..L /\ k < n
      BY <1>2
    <3>. QED BY <3>2, <3>3 DEF Written, L
  <2>4. ToSet(Sink(s, logs[n])) = ToSet(s) \cup {logs[n]} /\ InPrint(Sink(s, logs[n]), few)
    BY <2>1, <2>2, <2>3, SinkKeepsOrder
  <2>5. First(n) = First(n - 1) \cup {logs[n]}
    <3>1. 1..n = 1..(n - 1) \cup {n}
      BY <1>2
    <3>. QED BY <3>1
  <2>6. Sink(s, logs[n]) \in Seq(Line) /\ Len(Sink(s, logs[n])) = n
    <3>1. Sink(s, logs[n]) \in Seq(Line) /\ Len(Sink(s, logs[n])) = Len(s) + 1
      BY <1>3, <2>1
    <3>2. Len(s) + 1 = n
      BY <1>2, <2>1
    <3>. QED BY <3>1, <3>2
  <2>. HIDE DEF First
  <2>7. ToSet(Sink(s, logs[n])) = First(n)
    BY <2>1, <2>4, <2>5
  <2>8. Sorted(Sink(s, logs[n]), n)
    BY <2>4, <2>6, <2>7
  <2>. HIDE DEF Sorted
  <2>9. Sorted(h[n], n)
    BY <2>2, <2>8
  <2>. QED BY <1>2, <2>9
<1>12. Good = 0..L
  <2>1. Good \in SUBSET (0..L)
    OBVIOUS
  <2>. HIDE DEF Good
  <2>. QED BY <1>2, <1>10, <1>11, <2>1, StepByStep
<1>13. Sorted(h[L], L)
  <2>. HIDE DEF Sorted
  <2>0. \A n \in Good : Sorted(h[n], n)
    OBVIOUS
  <2>. HIDE DEF Good
  <2>1. L \in Good
    BY <1>2, <1>12
  <2>. QED BY <2>0, <2>1
<1>14. First(L) = ToSet(logs)
  BY <1>2 DEF ToSet
<1>. HIDE DEF First
<1>. QED BY <1>1, <1>13, <1>14 DEF L

(* Two entries change places.                                              *)
LEMMA ExchangedEntries ==
    ASSUME NEW Line, NEW logs \in Seq(Line), NEW i \in 1..Len(logs), i > Gap,
           Written(logs, FALSE)
    PROVE  /\ Exchanged(logs, i) \in Seq(Line)
           /\ Len(Exchanged(logs, i)) = Len(logs)
           /\ ToSet(Exchanged(logs, i)) = ToSet(logs)
           /\ Written(Exchanged(logs, i), FALSE)
<1>. DEFINE L == Len(logs)
            k == i - Gap
            s == [logs EXCEPT ![i] = logs[k], ![k] = logs[i]]
<1>1. /\ L \in Nat /\ DOMAIN logs = 1..L /\ k \in 1..L /\ k # i
      /\ \A m \in 1..L : logs[m] \in Line
  BY LenProperties, ElementOfSeq DEF Gap
<1>2. Exchanged(logs, i) \in {logs, s}
  BY DEF Exchanged
<1>. HIDE DEF L, k
<1>3. /\ s \in [1..L -> Line]
      /\ s[i] = logs[k] /\ s[k] = logs[i]
      /\ \A m \in 1..L : m # i /\ m # k => s[m] = logs[m]
  BY <1>1 DEF L
<1>4. s \in Seq(Line) /\ Len(s) = L /\ DOMAIN s = 1..L
  BY <1>1, <1>3
<1>5. \A m, n \in 1..L : m # n => logs[m] # logs[n]
  BY <1>1 DEF Written, Behind, L
<1>. HIDE DEF s
<1>6. \A m, n \in 1..L : m # n => s[m] # s[n]
  BY <1>1, <1>3, <1>5 DEF L
<1>7. Written(s, FALSE)
  BY <1>1, <1>4, <1>6 DEF Written, Behind
<1>8. ToSet(s) = ToSet(logs)
  BY <1>1, <1>3, <1>4 DEF ToSet, L
<1>. QED BY <1>2, <1>4, <1>7, <1>8 DEF L

(* The pass: the entries are still those that they were, and where they    *)
(* were if they are fewer than seven.                                      *)
LEMMA ShellRearranges ==
    ASSUME NEW Line, NEW logs \in Seq(Line), Written(logs, FALSE)
    PROVE  /\ Shell(logs) \in Seq(Line)
           /\ Len(Shell(logs)) = Len(logs)
           /\ ToSet(Shell(logs)) = ToSet(logs)
           /\ Written(Shell(logs), FALSE)
           /\ Len(logs) <= Gap => Shell(logs) = logs
<1>. DEFINE L == Len(logs)
            Body(s, n) == IF n <= Gap THEN logs ELSE Exchanged(s, n)
            Def(f) == [n \in 0..L |-> IF n <= Gap THEN logs ELSE Exchanged(f[n - 1], n)]
            Same == {s \in Seq(Line) : /\ Len(s) = L /\ ToSet(s) = ToSet(logs)
                                       /\ Written(s, FALSE)}
            round == [p \in Same \X (1..L) |-> Body(p[1], p[2])]
            h == CHOOSE f : f = Def(f)
<1>1. Shell(logs) = h[L]
  BY DEF Shell
<1>2. L \in Nat /\ logs \in Same
  BY LenProperties
<1>3. \A s \in Same, i \in 1..L : Body(s, i) \in Same
  <2>1. ASSUME NEW s \in Same, NEW i \in 1..L, i > Gap
        PROVE  Exchanged(s, i) \in Same
    BY <2>1, ExchangedEntries
  <2>2. \A i \in 1..L : i <= Gap \/ i > Gap
    BY <1>2 DEF Gap
  <2>. HIDE DEF Same, L
  <2>. QED BY <1>2, <2>1, <2>2
<1>. HIDE DEF L, Body, Same
<1>4. round \in [Same \X (1..L) -> Same]
  BY <1>3
<1>5. PICK f \in [0..L -> Same] : Rounds(f, logs, round, L)
  <2>. HIDE DEF round
  <2>. QED BY <1>2, <1>4, RoundsExist
<1>6. f[0] = logs /\ \A i \in 1..L : f[i] = Body(f[i - 1], i)
  <2>1. \A i \in 1..L : f[i - 1] \in Same
    BY <1>2, <1>5
  <2>2. \A i \in 1..L : round[<<f[i - 1], i>>] = Body(f[i - 1], i)
    BY <2>1
  <2>. QED BY <1>5, <2>2 DEF Rounds
<1>7. f = Def(f)
  BY <1>2, <1>5, <1>6 DEF Gap, Body
<1>8. h = Def(h)
  <2>. HIDE DEF Def
  <2>. QED BY <1>7
<1>. HIDE DEF h
<1>9. h[0] = logs /\ \A i \in 1..L : h[i] = Body(h[i - 1], i)
  BY <1>2, <1>8 DEF Gap, Body
<1>10. L <= Gap => h[L] = logs
  BY <1>2, <1>8
<1>. DEFINE Good == {n \in 0..L : h[n] \in Same}
<1>11. Good = 0..L
  <2>1. Good \in SUBSET (0..L) /\ 0 \in Good
    BY <1>2, <1>9
  <2>2. \A n \in 1..L : n - 1 \in Good => n \in Good
    BY <1>2, <1>3, <1>9
  <2>. HIDE DEF Good
  <2>. QED BY <1>2, <2>1, <2>2, StepByStep
<1>12. h[L] \in Same
  BY <1>2, <1>11
<1>. QED BY <1>1, <1>10, <1>12 DEF L, Same

(* sort.Sort keeps the entries and puts them in order, and only of fewer   *)
(* than seven those of one precedence as they were.                        *)
LEMMA SortSorts ==
    ASSUME NEW Line, \A l \in Line : l.precedence \in Int,
           NEW logs \in Seq(Line), Written(logs, Len(logs) <= Gap)
    PROVE  /\ Sort(logs) \in Seq(Line)
           /\ Len(Sort(logs)) = Len(logs)
           /\ ToSet(Sort(logs)) = ToSet(logs)
           /\ InPrint(Sort(logs), Len(logs) <= Gap)
<1>. DEFINE s == Shell(logs)
            few == Len(logs) <= Gap
<1>0. few \in BOOLEAN
  OBVIOUS
<1>1. Written(logs, FALSE)
  BY DEF Written, Behind
<1>2. /\ s \in Seq(Line) /\ Len(s) = Len(logs) /\ ToSet(s) = ToSet(logs)
      /\ Written(s, FALSE) /\ (few => s = logs)
  BY <1>1, ShellRearranges
<1>. HIDE DEF s, few
<1>3. Written(s, few)
  <2>1. CASE few
    BY <1>2, <2>1 DEF few
  <2>2. CASE ~few
    <3>1. few = FALSE
      BY <1>0, <2>2
    <3>. QED BY <1>2, <3>1
  <2>. QED BY <2>1, <2>2
<1>4. /\ Insertion(s) \in Seq(Line) /\ Len(Insertion(s)) = Len(s)
      /\ ToSet(Insertion(s)) = ToSet(s) /\ InPrint(Insertion(s), few)
  BY <1>0, <1>2, <1>3, InsertionSorts
<1>. QED BY <1>2, <1>4 DEF Sort, s, few

(* What the loop keeps: the logs are the wanted ones of the first n lines, *)
(* in order.                                                               *)
LogsOfFirst(logs, lines, priority, n) ==
    /\ ToSet(logs) = {lines[k] : k \in {k \in 1..n : Wanted(lines[k], priority)}}
    /\ InPrint(logs, Len(logs) <= Gap)

(* A round of it: the line, if it is wanted, is put behind the logs, and   *)
(* they are sorted.                                                        *)
Grown(logs, line, priority) == IF Wanted(line, priority) THEN Append(logs, line) ELSE logs

LEMMA RoundKeepsOrder ==
    ASSUME NEW Line, \A l \in Line : l.precedence \in Int /\ l.text \in Int,
           NEW lines \in Seq(Line),
           \A i, j \in 1..Len(lines) : i < j => lines[i].text < lines[j].text,
           NEW priority, NEW n \in 1..Len(lines), NEW logs \in Seq(Line),
           LogsOfFirst(logs, lines, priority, n - 1)
    PROVE  /\ Sort(Grown(logs, lines[n], priority)) \in Seq(Line)
           /\ LogsOfFirst(Sort(Grown(logs, lines[n], priority)), lines, priority, n)
<1>. DEFINE L == Len(lines)
            new == lines[n]
            more == Grown(logs, new, priority)
            Earlier == {lines[k] : k \in {k \in 1..(n - 1) : Wanted(lines[k], priority)}}
            Now == {lines[k] : k \in {k \in 1..n : Wanted(lines[k], priority)}}
<1>1. L \in Nat /\ n \in 1..L /\ new \in Line /\ \A i \in 1..L : lines[i] \in Line
  BY LenProperties, ElementOfSeq
<1>2. /\ Len(logs) \in Nat /\ DOMAIN logs = 1..Len(logs)
      /\ \A i \in 1..Len(logs) : logs[i] \in Line
  BY LenProperties, ElementOfSeq
<1>3. ToSet(logs) = Earlier /\ InPrint(logs, Len(logs) <= Gap)
  BY DEF LogsOfFirst
<1>4. ASSUME NEW i \in 1..Len(logs) PROVE logs[i].text < new.text
  <2>1. logs[i] \in ToSet(logs)
    BY <1>2 DEF ToSet
  <2>2. PICK k \in 1..(n - 1) : logs[i] = lines[k]
    BY <1>3, <2>1
  <2>3. k \in 1..L /\ k < n
    BY <1>1
  <2>. QED BY <1>1, <2>2, <2>3
<1>5. \A k \in 1..n : k \in 1..(n - 1) \/ k = n
  BY <1>1
<1>6. 1..(n - 1) \subseteq 1..n /\ n \in 1..n
  BY <1>1
<1>7. more \in Seq(Line) /\ ToSet(more) = Now /\ Written(more, Len(more) <= Gap)
  <2>1. CASE Wanted(new, priority)
    <3>1. more = Append(logs, new)
      BY <2>1 DEF Grown
    <3>. HIDE DEF more, new
    <3>2. /\ more \in Seq(Line) /\ Len(more) = Len(logs) + 1
          /\ DOMAIN more = 1..(Len(logs) + 1) /\ more[Len(logs) + 1] = new
          /\ \A i \in 1..Len(logs) : more[i] = logs[i]
      BY <1>1, <1>2, <3>1
    <3>3. ToSet(more) = ToSet(logs) \cup {new}
      <4>1. 1..(Len(logs) + 1) = 1..Len(logs) \cup {Len(logs) + 1}
        BY <1>2
      <4>. QED BY <1>2, <3>2, <4>1 DEF ToSet
    <3>4. Now = Earlier \cup {new}
      BY <1>5, <1>6, <2>1 DEF new
    <3>5. ASSUME NEW i \in 1..Len(more), NEW j \in 1..Len(more), i < j
          PROVE  Behind(more[i], more[j], Len(more) <= Gap)
      <4>1. i \in 1..Len(logs) /\ more[i] = logs[i] /\ logs[i] \in Line
        BY <1>2, <3>2, <3>5
      <4>2. CASE j \in 1..Len(logs)
        <5>1. InOrder(logs[i], logs[j], Len(logs) <= Gap)
          BY <1>3, <3>5, <4>1, <4>2 DEF InPrint
        <5>2. more[j] = logs[j]
          BY <3>2, <4>2
        <5>3. Len(more) <= Gap => Len(logs) <= Gap
          BY <1>2, <3>2 DEF Gap
        <5>. QED BY <4>1, <5>1, <5>2, <5>3 DEF InOrder, Behind
      <4>3. CASE j \notin 1..Len(logs)
        <5>1. more[j] = new
          <6>1. j = Len(logs) + 1
            BY <1>2, <3>2, <4>3
          <6>. QED BY <3>2, <6>1
        <5>2. logs[i].text < new.text /\ logs[i].text \in Int /\ new.text \in Int
          BY <1>1, <1>4, <4>1
        <5>3. logs[i] # new
          BY <5>2
        <5>. QED BY <4>1, <5>1, <5>2, <5>3 DEF Behind
      <4>. QED BY <4>2, <4>3
    <3>. QED BY <1>3, <3>2, <3>3, <3>4, <3>5 DEF Written
  <2>2. CASE ~Wanted(new, priority)
    <3>1. more = logs
      BY <2>2 DEF Grown
    <3>. HIDE DEF more
    <3>2. Now = Earlier
      BY <1>5, <1>6, <2>2
    <3>. QED BY <1>3, <3>1, <3>2 DEF Written, InPrint, InOrder, Behind
  <2>. QED BY <2>1, <2>2
<1>. HIDE DEF more
<1>8. /\ Sort(more) \in Seq(Line) /\ Len(Sort(more)) = Len(more)
      /\ ToSet(Sort(more)) = ToSet(more) /\ InPrint(Sort(more), Len(more) <= Gap)
  BY <1>7, SortSorts
<1>9. LogsOfFirst(Sort(more), lines, priority, n)
  BY <1>7, <1>8 DEF LogsOfFirst
<1>. QED BY <1>8, <1>9 DEF more

(* Debug returns (debug.go:68) exactly the wanted lines, each of them      *)
(* once and by precedence, and if it returns fewer than seven, lines of    *)
(* the same precedence in the order in which they were written: for any    *)
(* lines and precedences, up to the twelve that Go sorts without quicksort.*)
THEOREM DebugSorts ==
    ASSUME NEW Line, \A l \in Line : l.precedence \in Int /\ l.text \in Int,
           NEW lines \in Seq(Line), Len(lines) <= MostLines,
           \A i, j \in 1..Len(lines) : i < j => lines[i].text < lines[j].text,
           NEW priority
    PROVE  /\ Debug(lines, priority) \in Seq(Line)
           /\ LogsOfFirst(Debug(lines, priority), lines, priority, Len(lines))
<1>. DEFINE L == Len(lines)
            Body(logs, n) == Sort(Grown(logs, lines[n], priority))
            Def(f) == [n \in 0..L |-> IF n = 0 THEN <<>> ELSE Body(f[n - 1], n)]
            round == [p \in Seq(Line) \X (1..L) |->
                         IF Body(p[1], p[2]) \in Seq(Line) THEN Body(p[1], p[2]) ELSE p[1]]
            h == Logs(lines, priority)
<1>1. h = CHOOSE f : f = Def(f)
  BY DEF Logs, Grown
<1>2. L \in Nat /\ <<>> \in Seq(Line)
  BY LenProperties, EmptySeq
<1>3. ASSUME NEW n \in 1..L, NEW logs \in Seq(Line), LogsOfFirst(logs, lines, priority, n - 1)
      PROVE  Body(logs, n) \in Seq(Line) /\ LogsOfFirst(Body(logs, n), lines, priority, n)
  BY <1>3, RoundKeepsOrder
<1>4. LogsOfFirst(<<>>, lines, priority, 0)
  BY DEF LogsOfFirst, InPrint, ToSet
<1>. HIDE DEF L, Body, h
<1>5. round \in [Seq(Line) \X (1..L) -> Seq(Line)]
  OBVIOUS
<1>6. PICK f \in [0..L -> Seq(Line)] : Rounds(f, <<>>, round, L)
  <2>. HIDE DEF round
  <2>. QED BY <1>2, <1>5, RoundsExist
<1>7. /\ f[0] = <<>>
      /\ \A i \in 1..L : Body(f[i - 1], i) \in Seq(Line) => f[i] = Body(f[i - 1], i)
  <2>1. \A i \in 1..L : f[i - 1] \in Seq(Line)
    BY <1>2, <1>6
  <2>2. \A i \in 1..L : Body(f[i - 1], i) \in Seq(Line) => round[<<f[i - 1], i>>] = Body(f[i - 1], i)
    BY <2>1
  <2>. QED BY <1>6, <2>2 DEF Rounds
<1>. DEFINE Good == {n \in 0..L : LogsOfFirst(f[n], lines, priority, n)}
<1>8. Good = 0..L
  <2>1. Good \in SUBSET (0..L) /\ 0 \in Good
    BY <1>2, <1>4, <1>7
  <2>2. ASSUME NEW n \in 1..L, n - 1 \in Good
        PROVE  n \in Good
    <3>1. f[n - 1] \in Seq(Line) /\ LogsOfFirst(f[n - 1], lines, priority, n - 1)
      BY <1>2, <1>6, <2>2
    <3>2. f[n] = Body(f[n - 1], n) /\ LogsOfFirst(Body(f[n - 1], n), lines, priority, n)
      BY <1>3, <1>7, <3>1
    <3>3. LogsOfFirst(f[n], lines, priority, n)
      BY <3>2
    <3>. QED BY <1>2, <3>3
  <2>. HIDE DEF Good
  <2>. QED BY <1>2, <2>1, <2>2, StepByStep
<1>9. \A n \in 1..L : f[n] = Body(f[n - 1], n)
  <2>. SUFFICES ASSUME NEW n \in 1..L PROVE f[n] = Body(f[n - 1], n)
    OBVIOUS
  <2>0. \A m \in Good : LogsOfFirst(f[m], lines, priority, m)
    OBVIOUS
  <2>. HIDE DEF Good
  <2>1. n - 1 \in Good /\ n - 1 \in 0..L
    BY <1>2, <1>8
  <2>2. f[n - 1] \in Seq(Line)
    BY <1>6, <2>1
  <2>3. LogsOfFirst(f[n - 1], lines, priority, n - 1)
    BY <2>0, <2>1
  <2>. QED BY <1>3, <1>7, <2>2, <2>3
<1>10. f = Def(f)
  BY <1>2, <1>6, <1>7, <1>9
<1>11. h = Def(h)
  <2>. HIDE DEF Def
  <2>. QED BY <1>1, <1>10
<1>. DEFINE Same == {n \in 0..L : h[n] = f[n]}
<1>12. Same = 0..L
  <2>1. Same \in SUBSET (0..L) /\ 0 \in Same
    BY <1>2, <1>7, <1>11
  <2>2. ASSUME NEW n \in 1..L, n - 1 \in Same
        PROVE  n \in Same
    <3>1. h[n] = Body(h[n - 1], n)
      BY <1>2, <1>11
    <3>. QED BY <1>2, <1>9, <2>2, <3>1
  <2>. HIDE DEF Same
  <2>. QED BY <1>2, <2>1, <2>2, StepByStep
<1>13. L \in Good /\ L \in Same
  BY <1>2, <1>8, <1>12
<1>14. h[L] \in Seq(Line) /\ LogsOfFirst(h[L], lines, priority, L)
  BY <1>2, <1>6, <1>13
<1>. QED BY <1>14 DEF Debug, h, L

LogLine == [text : Nat, precedence : Int, priority : {1, 2}, ours : BOOLEAN]

LEMMA LinesAreNumbered ==
    ASSUME NEW lines \in Lines
    PROVE  /\ lines \in Seq(LogLine) /\ Len(lines) <= MostLines
           /\ \A i \in 1..Len(lines) : lines[i].text = i
<1>1. \A h : Precedence(h, 1, 2) \in Int /\ Precedence(h, 2, 2) \in Int
  BY DEF Precedence
<1>2. ASSUME NEW e \in LogEntry
      PROVE  e.precedence \in Int /\ e.priority \in {1, 2} /\ e.ours \in BOOLEAN
  <2>1. CASE e \in HandlerEntry
    <3>1. Precedences \subseteq Int
      BY <1>1 DEF Precedences
    <3>. QED BY <2>1, <3>1 DEF HandlerEntry
  <2>2. CASE e \in OtherEntry
    <3>1. e.precedence \in {0} /\ e.priority \in {1, 2}
      BY <2>2 DEF OtherEntry
    <3>2. e.ours \in {TRUE} \/ e.ours \in {FALSE}
      BY <2>2 DEF OtherEntry
    <3>3. e.ours \in BOOLEAN
      BY <3>2
    <3>. QED BY <3>1, <3>3
  <2>. QED BY <2>1, <2>2 DEF LogEntry
<1>3. PICK l \in BoundedSeq(LogEntry, 3) \cup Blocks : lines = Numbered(l)
  BY DEF Lines
<1>4. PICK m \in 0..MostLines : l \in [1..m -> LogEntry]
  <2>1. CASE l \in BoundedSeq(LogEntry, 3)
    BY <2>1 DEF BoundedSeq, SeqOf, MostLines
  <2>2. CASE l \in Blocks
    <3>1. PICK k, n \in {1, Gap}, a, b \in HandlerEntry :
             l = [i \in 1..(k + n) |-> IF i <= k THEN a ELSE b]
      BY <2>2 DEF Blocks
    <3>2. k + n \in 0..MostLines
      BY DEF Gap, MostLines
    <3>3. l \in [1..(k + n) -> LogEntry]
      BY <3>1 DEF LogEntry
    <3>. QED BY <3>2, <3>3
  <2>. QED BY <1>3, <2>1, <2>2
<1>5. \A i \in 1..m : [text |-> i, precedence |-> l[i].precedence,
                       priority |-> l[i].priority, ours |-> l[i].ours] \in LogLine
  <2>. SUFFICES ASSUME NEW i \in 1..m
                PROVE  [text |-> i, precedence |-> l[i].precedence,
                        priority |-> l[i].priority, ours |-> l[i].ours] \in LogLine
    OBVIOUS
  <2>1. l[i] \in LogEntry /\ i \in Nat
    BY <1>4
  <2>2. l[i].precedence \in Int /\ l[i].priority \in {1, 2} /\ l[i].ours \in BOOLEAN
    BY <1>2, <2>1
  <2>. QED BY <2>1, <2>2 DEF LogLine
<1>6. lines \in [1..m -> LogLine] /\ \A i \in 1..m : lines[i].text = i
  BY <1>3, <1>4, <1>5 DEF Numbered
<1>7. lines \in Seq(LogLine) /\ Len(lines) = m
  BY <1>6
<1>8. m \in Nat /\ m <= MostLines
  BY DEF MostLines
<1>. QED BY <1>6, <1>7, <1>8

(* When an experiment has ended, debug prints the wanted logs of its       *)
(* handlers, each once and by precedence, and few of one job in the order  *)
(* in which they were written, whatever the experiment.                    *)
THEOREM LogsAreInOrder == Spec => []LogsInOrder
<1>1. ASSUME NEW lines \in Lines
      PROVE  /\ ToSet(Debug(lines, 1)) = {l \in ToSet(lines) : l.ours /\ l.priority = 1}
             /\ \A i, j \in DOMAIN Debug(lines, 1) :
                   i < j => InOrder(Debug(lines, 1)[i], Debug(lines, 1)[j], Len(Debug(lines, 1)) <= Gap)
  <2>1. lines \in Seq(LogLine) /\ Len(lines) \in Nat /\ DOMAIN lines = 1..Len(lines)
        /\ Len(lines) <= MostLines
        /\ \A i \in 1..Len(lines) : lines[i] \in LogLine /\ lines[i].text = i
    BY LinesAreNumbered, LenProperties, ElementOfSeq
  <2>2. \A l \in LogLine : l.precedence \in Int /\ l.text \in Int /\ l.priority \in {1, 2}
    BY DEF LogLine
  <2>3. \A i, j \in 1..Len(lines) : i < j => lines[i].text < lines[j].text
    BY <2>1
  <2>. DEFINE printed == Debug(lines, 1)
  <2>4. printed \in Seq(LogLine) /\ LogsOfFirst(printed, lines, 1, Len(lines))
    BY <2>1, <2>2, <2>3, DebugSorts
  <2>. HIDE DEF printed
  <2>5. DOMAIN printed = 1..Len(printed)
    BY <2>4, LenProperties
  <2>6. \A i \in 1..Len(lines) :
           Wanted(lines[i], 1) <=> lines[i].ours /\ lines[i].priority = 1
    BY <2>1, <2>2 DEF Wanted
  <2>7. ToSet(printed) = {l \in ToSet(lines) : l.ours /\ l.priority = 1}
    <3>. DEFINE Kept == {k \in 1..Len(lines) : Wanted(lines[k], 1)}
                Asked(l) == l.ours /\ l.priority = 1
    <3>1. ToSet(printed) = {lines[k] : k \in Kept}
      BY <2>4 DEF LogsOfFirst
    <3>2. ToSet(lines) = {lines[k] : k \in 1..Len(lines)}
      BY <2>1 DEF ToSet
    <3>3. \A k : k \in Kept <=> k \in 1..Len(lines) /\ Asked(lines[k])
      BY <2>6
    <3>. HIDE DEF Kept, Asked
    <3>4. {lines[k] : k \in Kept} = {l \in {lines[k] : k \in 1..Len(lines)} : Asked(l)}
      BY <3>3
    <3>. QED BY <3>1, <3>2, <3>4 DEF Asked
  <2>8. \A i, j \in DOMAIN printed : i < j => InOrder(printed[i], printed[j], Len(printed) <= Gap)
    BY <2>4, <2>5 DEF LogsOfFirst, InPrint
  <2>. QED BY <2>7, <2>8 DEF printed
<1>2. LogsInOrder
  BY <1>1 DEF LogsInOrder
<1>. QED BY <1>2, PTL

=============================================================================
