------------------------ MODULE DancecardGapsProofs -------------------------
(* Proofs about DancecardGaps, for every calendar, convention, recovery     *)
(* time and shortest gap: the algorithms are loops, folds over a sequence,  *)
(* and what they compute follows from an invariant of each loop.            *)
EXTENDS DancecardGaps, FiniteSetTheorems, SequenceTheorems, TLAPS

-----------------------------------------------------------------------------
(* Induction over numbers, for sets of numbers.                            *)

(* A set of numbers has a least one.                                        *)
LEMMA LeastNumber ==
    ASSUME NEW S \in SUBSET Nat, S # {} PROVE \E i \in S : \A j \in S : i <= j
<1> DEFINE below(n) == 0 .. (n - 1)
           T == {below(i) : i \in S}
           R == StrictSubsetOrdering(Nat)
<1>1. T \subseteq FiniteSubsetsOf(Nat)
  <2>1. \A i \in S : IsFiniteSet(below(i))
      BY FS_Interval
  <2> QED  BY <2>1 DEF FiniteSubsetsOf
<1>2. \E t \in T : \A u \in T : ~(<<u, t>> \in R)
  <2>1. IsWellFoundedOn(R, FiniteSubsetsOf(Nat))
      BY FS_StrictSubsetOrderingWellFounded
  <2>2. T # {}
    <3>1. PICK i \in S : TRUE
        OBVIOUS
    <3>2. below(i) \in T
        OBVIOUS
    <3> QED  BY <3>2
  <2> HIDE DEF T, R
  <2> QED  BY <1>1, <2>1, <2>2, WFMin
<1>3. PICK i \in S : \A j \in S : ~(<<below(j), below(i)>> \in R)
    BY <1>2
<1>4. ASSUME NEW j \in S, j < i PROVE FALSE
  <2>1. below(j) \subseteq below(i) /\ j \in below(i) /\ j \notin below(j)
      BY <1>4
  <2>2. below(j) \in SUBSET Nat /\ below(i) \in SUBSET Nat
      OBVIOUS
  <2> HIDE DEF below
  <2> QED  BY <1>3, <2>1, <2>2 DEF StrictSubsetOrdering
<1> QED  BY <1>4

(* What holds of 0, and of k + 1 if of k, holds up to n.                    *)
LEMMA Induction ==
    ASSUME NEW n \in Nat, NEW S, 0 \in S, \A k \in 0 .. n : k < n /\ k \in S => k + 1 \in S
    PROVE  \A k \in 0 .. n : k \in S
<1> SUFFICES ASSUME {k \in 0 .. n : k \notin S} # {} PROVE FALSE
    OBVIOUS
<1>1. PICK i \in {k \in 0 .. n : k \notin S} : \A j \in {k \in 0 .. n : k \notin S} : i <= j
  <2>1. {k \in 0 .. n : k \notin S} \in SUBSET Nat
      OBVIOUS
  <2> QED  BY <2>1, LeastNumber
<1>2. i # 0 /\ i - 1 \in 0 .. n /\ i - 1 < n /\ (i - 1) + 1 = i
    BY <1>1
<1>3. i - 1 \in S
    BY <1>1, <1>2
<1> QED  BY <1>1, <1>2, <1>3

(* A set of numbers that are no more than n has a greatest one.             *)
LEMMA MaxOf ==
    ASSUME NEW n \in Nat, NEW S \in SUBSET (0 .. n), S # {}
    PROVE  Max(S) \in S /\ \A x \in S : x <= Max(S)
<1> DEFINE T == {n - x : x \in S}
<1>1. T \in SUBSET Nat /\ T # {}
  <2>1. PICK x \in S : TRUE
      OBVIOUS
  <2>2. n - x \in T
      OBVIOUS
  <2>3. \A y \in S : n - y \in Nat
      OBVIOUS
  <2> QED  BY <2>2, <2>3
<1>2. PICK i \in T : \A j \in T : i <= j
    BY <1>1, LeastNumber
<1>3. PICK m \in S : i = n - m
    BY <1>2
<1>4. ASSUME NEW y \in S PROVE m >= y
    BY <1>2, <1>3
<1>5. \E x \in S : \A y \in S : x >= y
    BY <1>4
<1>6. Max(S) \in S /\ \A y \in S : Max(S) >= y
    BY <1>5 DEF Max
<1> QED  BY <1>6

-----------------------------------------------------------------------------
(* A fold is a loop.  The operator of the fold is given as a function, so   *)
(* that the lemmas can be used for every fold.                              *)

IsFold(f, X, base, n, step) ==
    /\ f \in [SUBSET (1 .. n) -> X]
    /\ \A S \in SUBSET (1 .. n) :
          f[S] = IF S = {} THEN base ELSE step[Max(S)][f[S \ {Max(S)}]]

LEMMA FoldExists ==
    ASSUME NEW X, NEW base \in X, NEW n \in Nat, NEW step \in [1 .. n -> [X -> X]]
    PROVE  \E f : IsFold(f, X, base, n, step)
<1> DEFINE Folds(k) ==
               {f \in [SUBSET (1 .. k) -> X] : \A S \in SUBSET (1 .. k) :
                   f[S] = IF S = {} THEN base ELSE step[Max(S)][f[S \ {Max(S)}]]}
           G == {k \in 0 .. n : Folds(k) # {}}
<1>1. 0 \in G
  <2> DEFINE f == [S \in SUBSET (1 .. 0) |-> base]
  <2>1. f \in [SUBSET (1 .. 0) -> X]
      OBVIOUS
  <2>2. \A S \in SUBSET (1 .. 0) : S = {} /\ f[S] = base
      OBVIOUS
  <2>3. f \in Folds(0)
      BY <2>1, <2>2
  <2> HIDE DEF f, Folds
  <2>4. 0 \in 0 .. n
      OBVIOUS
  <2>5. Folds(0) # {}
      BY <2>3
  <2> QED  BY <2>4, <2>5
<1>2. ASSUME NEW k \in 0 .. n, k < n, k \in G PROVE k + 1 \in G
  <2>1. PICK f \in Folds(k) : TRUE
      BY <1>2
  <2> DEFINE g == [S \in SUBSET (1 .. k + 1) |->
                      IF k + 1 \in S THEN step[k + 1][f[S \ {k + 1}]] ELSE f[S]]
  <2>2. \A S \in SUBSET (1 .. k + 1) : S \ {k + 1} \in SUBSET (1 .. k)
      BY <1>2
  <2>3. \A S \in SUBSET (1 .. k + 1) : k + 1 \notin S => S \in SUBSET (1 .. k)
      BY <1>2
  <2>4. f \in [SUBSET (1 .. k) -> X] /\ k + 1 \in 1 .. n
      BY <2>1, <1>2
  <2>5. g \in [SUBSET (1 .. k + 1) -> X]
    <3> SUFFICES ASSUME NEW S \in SUBSET (1 .. k + 1)
                 PROVE (IF k + 1 \in S THEN step[k + 1][f[S \ {k + 1}]] ELSE f[S]) \in X
        OBVIOUS
    <3>1. CASE k + 1 \in S
      <4>1. f[S \ {k + 1}] \in X
          BY <2>2, <2>4
      <4> QED  BY <3>1, <4>1, <2>4
    <3>2. CASE k + 1 \notin S
        BY <3>2, <2>3, <2>4
    <3> QED  BY <3>1, <3>2
  <2>6. ASSUME NEW S \in SUBSET (1 .. k + 1)
        PROVE  g[S] = IF S = {} THEN base ELSE step[Max(S)][g[S \ {Max(S)}]]
    <3>1. S # {} => Max(S) \in S /\ \A x \in S : x <= Max(S)
      <4>1. S \in SUBSET (0 .. k + 1) /\ k + 1 \in Nat
          BY <1>2
      <4> QED  BY <4>1, MaxOf
    <3>2. CASE k + 1 \in S
      <4>1. S # {}
          BY <3>2
      <4>2. Max(S) \in 1 .. k + 1 /\ k + 1 <= Max(S)
          BY <3>1, <3>2, <4>1
      <4>3. Max(S) = k + 1
          BY <4>2, <1>2
      <4>4. g[S \ {k + 1}] = f[S \ {k + 1}]
          BY <2>2
      <4> QED  BY <3>2, <4>1, <4>3, <4>4
    <3>3. CASE k + 1 \notin S /\ S # {}
      <4>1. S \in SUBSET (1 .. k) /\ S \ {Max(S)} \in SUBSET (1 .. k + 1)
          BY <3>3, <2>3
      <4>2. g[S] = f[S] /\ g[S \ {Max(S)}] = f[S \ {Max(S)}]
          BY <3>3, <4>1
      <4>3. f[S] = step[Max(S)][f[S \ {Max(S)}]]
          BY <2>1, <3>3, <4>1
      <4> QED  BY <3>3, <4>2, <4>3
    <3>4. CASE S = {}
      <4>1. g[S] = f[S] /\ S \in SUBSET (1 .. k)
          BY <3>4
      <4>2. f[S] = base
          BY <2>1, <3>4, <4>1
      <4> QED  BY <3>4, <4>1, <4>2
    <3> QED  BY <3>2, <3>3, <3>4
  <2> HIDE DEF g
  <2>7. g \in Folds(k + 1)
      BY <2>5, <2>6
  <2>8. k + 1 \in 0 .. n
      BY <1>2
  <2> QED  BY <2>7, <2>8
<1> HIDE DEF Folds
<1>3. \A k \in 0 .. n : k \in G
  <2> HIDE DEF G
  <2> QED  BY <1>1, <1>2, Induction
<1>4. Folds(n) # {}
    BY <1>3
<1> QED  BY <1>4 DEF Folds, IsFold

(* The loop passes through the folds of the first 0, 1, ..., n elements.    *)
Follows(fold, X, base, n, step) ==
    /\ fold[{}] = base
    /\ \A S \in SUBSET (1 .. n) :
          S # {} /\ fold[S \ {Max(S)}] \in X => fold[S] = step[Max(S)][fold[S \ {Max(S)}]]

IsRun(f, X, base, n, step, fold) ==
    /\ f \in [0 .. n -> X] /\ f[0] = base /\ f[n] = fold[1 .. n]
    /\ \A k \in 0 .. n : k < n => f[k + 1] = step[k + 1][f[k]]

LEMMA FoldRun ==
    ASSUME NEW X, NEW base \in X, NEW n \in Nat, NEW step \in [1 .. n -> [X -> X]],
           NEW fold, Follows(fold, X, base, n, step)
    PROVE  \E f : IsRun(f, X, base, n, step, fold)
<1> USE DEF Follows
<1> DEFINE G == {k \in 0 .. n : fold[1 .. k] \in X}
           f == [k \in 0 .. n |-> fold[1 .. k]]
<1>1. ASSUME NEW k \in 0 .. n, k < n, fold[1 .. k] \in X
      PROVE  fold[1 .. k + 1] = step[k + 1][fold[1 .. k]]
  <2>1. 1 .. k + 1 \in SUBSET (1 .. n) /\ 1 .. k + 1 \in SUBSET (0 .. n) /\ 1 .. k + 1 # {}
      BY <1>1
  <2>2. Max(1 .. k + 1) \in 1 .. k + 1 /\ \A x \in 1 .. k + 1 : x <= Max(1 .. k + 1)
      BY <2>1, MaxOf
  <2>3. Max(1 .. k + 1) = k + 1
      BY <2>2
  <2>4. (1 .. k + 1) \ {k + 1} = 1 .. k
      OBVIOUS
  <2> QED  BY <2>1, <2>3, <2>4, <1>1
<1>2. 1 .. 0 = {}
    OBVIOUS
<1>3. 0 \in G
    BY <1>2
<1>4. ASSUME NEW k \in 0 .. n, k < n, k \in G PROVE k + 1 \in G
  <2>1. fold[1 .. k] \in X /\ k + 1 \in 1 .. n
      BY <1>4
  <2>2. step[k + 1][fold[1 .. k]] \in X
      BY <2>1
  <2> QED  BY <1>1, <1>4, <2>1, <2>2
<1>5. \A k \in 0 .. n : k \in G
  <2> HIDE DEF G
  <2> QED  BY <1>3, <1>4, Induction
<1>6. f \in [0 .. n -> X]
    BY <1>5
<1>7. f[0] = base /\ f[n] = fold[1 .. n]
    BY <1>2
<1>8. \A k \in 0 .. n : k < n => f[k + 1] = step[k + 1][f[k]]
    BY <1>1, <1>5
<1> QED  BY <1>6, <1>7, <1>8 DEF IsRun

-----------------------------------------------------------------------------
(* The four loops.                                                         *)

LEMMA TheWindow ==
    /\ Window \in Interval
    /\ Window.from \in Nat /\ Window.to \in Nat /\ Window.from < Window.to
BY GapsAssumption DEF Interval, NonEmpty

LEMMA Ends == ASSUME NEW i \in Interval PROVE i.from \in Nat /\ i.to \in Nat
BY DEF Interval

(* Appending adds one interval to those of a sequence.                      *)
LEMMA AppendRange ==
    ASSUME NEW S, NEW t \in Seq(S), NEW i \in S
    PROVE  /\ Append(t, i) \in Seq(S) /\ Range(Append(t, i)) = Range(t) \cup {i}
<1>1. /\ Append(t, i) \in Seq(S) /\ Len(Append(t, i)) = Len(t) + 1
      /\ \A k \in 1 .. Len(t) : Append(t, i)[k] = t[k]
      /\ Append(t, i)[Len(t) + 1] = i
    BY AppendProperties
<1>2. /\ DOMAIN t = 1 .. Len(t) /\ DOMAIN Append(t, i) = 1 .. Len(t) + 1 /\ Len(t) \in Nat
    BY <1>1, LenProperties
<1>3. Range(t) \cup {i} \subseteq Range(Append(t, i))
  <2>1. ASSUME NEW x \in Range(t) PROVE x \in Range(Append(t, i))
    <3>1. PICK k \in 1 .. Len(t) : x = t[k]
        BY <1>2 DEF Range
    <3>2. k \in DOMAIN Append(t, i) /\ x = Append(t, i)[k]
        BY <1>1, <1>2, <3>1
    <3> QED  BY <3>2 DEF Range
  <2>2. i \in Range(Append(t, i))
    <3>1. Len(t) + 1 \in DOMAIN Append(t, i)
        BY <1>2
    <3> QED  BY <1>1, <3>1 DEF Range
  <2> QED  BY <2>1, <2>2
<1>4. ASSUME NEW x \in Range(Append(t, i)) PROVE x \in Range(t) \cup {i}
  <2>1. PICK k \in 1 .. Len(t) + 1 : x = Append(t, i)[k]
      BY <1>2 DEF Range
  <2>2. CASE k = Len(t) + 1
      BY <1>1, <2>1, <2>2
  <2>3. CASE k \in 1 .. Len(t)
    <3>1. k \in DOMAIN t /\ x = t[k]
        BY <1>1, <1>2, <2>1, <2>3
    <3> QED  BY <3>1 DEF Range
  <2> QED  BY <1>2, <2>1, <2>2, <2>3
<1> QED  BY <1>1, <1>3, <1>4

LEMMA KeepType ==
    ASSUME NEW kept \in Seq(Interval), NEW i \in Interval PROVE Keep(kept, i) \in Seq(Interval)
<1>1. Clipped(i, Window) \in Interval
    BY TheWindow DEF Clipped, Interval, Later, Earlier
<1> QED  BY <1>1, AppendProperties DEF Keep

(* A position in a sorted sequence: after all that start no later.          *)
LEMMA Position ==
    ASSUME NEW sorted \in Seq(Interval), NEW i \in Interval
    PROVE  LET before == {k \in DOMAIN sorted : sorted[k].from <= i.from}
           IN  /\ Max({0} \cup before) \in {0} \cup before
               /\ \A k \in before : k <= Max({0} \cup before)
               /\ Max({0} \cup before) \in 0 .. Len(sorted)
<1> DEFINE before == {k \in DOMAIN sorted : sorted[k].from <= i.from}
           S == {0} \cup before
<1>1. DOMAIN sorted = 1 .. Len(sorted) /\ Len(sorted) \in Nat
    BY LenProperties
<1>2. S \in SUBSET (0 .. Len(sorted)) /\ S # {}
    BY <1>1
<1>3. Max(S) \in S /\ \A x \in S : x <= Max(S)
  <2> HIDE DEF S
  <2> QED  BY <1>1, <1>2, MaxOf
<1> QED  BY <1>2, <1>3

LEMMA InsertedAt ==
    ASSUME NEW t \in Seq(Interval), NEW i \in Interval, NEW k \in 0 .. Len(t)
    PROVE  /\ InsertAt(t, k + 1, i) \in Seq(Interval)
           /\ Len(InsertAt(t, k + 1, i)) = Len(t) + 1
           /\ \A j \in 1 .. k : InsertAt(t, k + 1, i)[j] = t[j]
           /\ InsertAt(t, k + 1, i)[k + 1] = i
           /\ \A j \in k + 1 .. Len(t) : InsertAt(t, k + 1, i)[j + 1] = t[j]
<1> DEFINE a == SubSeq(t, 1, k)
           b == SubSeq(t, k + 1, Len(t))
<1>1. Len(t) \in Nat /\ k \in Nat /\ (k + 1) - 1 = k
    BY LenProperties
<1>2. a \in Seq(Interval) /\ Len(a) = k /\ \A j \in 1 .. k : a[j] = t[j]
  <2>1. /\ a \in Seq(Interval)
        /\ Len(a) = IF 1 <= k THEN k - 1 + 1 ELSE 0
        /\ \A j \in 1 .. k - 1 + 1 : a[j] = t[1 + j - 1]
      BY <1>1, SubSeqProperties
  <2> QED  BY <1>1, <2>1
<1>3. b \in Seq(Interval) /\ Len(b) = Len(t) - k /\ \A j \in 1 .. Len(t) - k : b[j] = t[k + j]
  <2>1. /\ b \in Seq(Interval)
        /\ Len(b) = IF k + 1 <= Len(t) THEN Len(t) - (k + 1) + 1 ELSE 0
        /\ \A j \in 1 .. Len(t) - (k + 1) + 1 : b[j] = t[k + 1 + j - 1]
      BY <1>1, SubSeqProperties
  <2> QED  BY <1>1, <2>1
<1> DEFINE c == a \o <<i>>
<1>4. c \in Seq(Interval) /\ Len(c) = k + 1 /\ c[k + 1] = i /\ \A j \in 1 .. k : c[j] = t[j]
  <2>1. /\ <<i>> \in Seq(Interval) /\ Len(<<i>>) = 1 /\ <<i>>[1] = i
      OBVIOUS
  <2> HIDE DEF a
  <2>2. /\ c \in Seq(Interval) /\ Len(c) = Len(a) + 1
        /\ \A j \in 1 .. Len(a) + 1 : c[j] = IF j <= Len(a) THEN a[j] ELSE <<i>>[j - Len(a)]
      BY <1>2, <2>1, ConcatProperties
  <2> HIDE DEF c
  <2> QED  BY <1>1, <1>2, <2>1, <2>2
<1>5. InsertAt(t, k + 1, i) = c \o b
    BY <1>1 DEF InsertAt
<1>6. /\ c \o b \in Seq(Interval) /\ Len(c \o b) = Len(c) + Len(b)
      /\ \A j \in 1 .. Len(c) + Len(b) : (c \o b)[j] = IF j <= Len(c) THEN c[j] ELSE b[j - Len(c)]
  <2> HIDE DEF b, c
  <2> QED  BY <1>3, <1>4, ConcatProperties
<1> HIDE DEF a, b, c
<1>7. Len(c \o b) = Len(t) + 1
    BY <1>1, <1>3, <1>4, <1>6
<1>8. (c \o b)[k + 1] = i /\ \A j \in 1 .. k : (c \o b)[j] = t[j]
    BY <1>1, <1>3, <1>4, <1>6
<1>9. ASSUME NEW j \in k + 1 .. Len(t) PROVE (c \o b)[j + 1] = t[j]
  <2>1. j + 1 \in 1 .. Len(c) + Len(b) /\ ~(j + 1 <= Len(c)) /\ j + 1 - Len(c) = j - k
      BY <1>1, <1>3, <1>4
  <2>2. (c \o b)[j + 1] = b[j - k]
      BY <1>6, <2>1
  <2>3. j - k \in 1 .. Len(t) - k /\ k + (j - k) = j
      BY <1>1
  <2> QED  BY <1>3, <2>2, <2>3
<1> QED  BY <1>5, <1>6, <1>7, <1>8, <1>9

LEMMA InsertType ==
    ASSUME NEW t \in Seq(Interval), NEW i \in Interval PROVE Insert(t, i) \in Seq(Interval)
BY Position, InsertedAt DEF Insert

LEMMA AbsorbType ==
    ASSUME NEW blocks \in Seq(Interval), NEW i \in Interval
    PROVE  Absorb(blocks, i) \in Seq(Interval)
<1>1. CASE blocks = <<>> \/ i.from > Last(blocks).to
    BY <1>1, AppendProperties DEF Absorb
<1>2. CASE ~(blocks = <<>> \/ i.from > Last(blocks).to)
  <2>1. Len(blocks) \in 1 .. Len(blocks) /\ DOMAIN blocks = 1 .. Len(blocks)
      BY <1>2, EmptySeq, LenProperties
  <2> DEFINE b == blocks[Len(blocks)]
             e == [b EXCEPT !.to = Later(@, i.to)]
  <2>2. b \in Interval
      BY <2>1, ElementOfSeq
  <2>3. e \in Interval
      BY <2>2, Ends DEF Interval, Later
  <2>4. Absorb(blocks, i) = [blocks EXCEPT ![Len(blocks)] = e]
      BY <1>2, <2>1 DEF Absorb
  <2> HIDE DEF e
  <2> QED  BY <2>1, <2>3, <2>4, ExceptSeq
<1> QED  BY <1>1, <1>2

Progress == [gaps : Seq(Interval), cursor : Nat]

LEMMA WithGapType ==
    ASSUME NEW gaps \in Seq(Interval), NEW from \in Nat, NEW to \in Nat, NEW minGap \in Nat
    PROVE  WithGap(gaps, from, to, minGap) \in Seq(Interval)
<1>1. [from |-> from, to |-> to] \in Interval
    BY DEF Interval
<1> QED  BY <1>1, AppendProperties DEF WithGap

LEMMA PassType ==
    ASSUME NEW done \in Progress, NEW b \in Interval, NEW minGap \in Nat
    PROVE  Pass(done, b, minGap) \in Progress
<1>1. /\ done.gaps \in Seq(Interval) /\ done.cursor \in Nat
      /\ b.from \in Nat /\ Later(done.cursor, b.to) \in Nat /\ Earlier(b.from, Window.to) \in Nat
    BY Ends, TheWindow DEF Progress, Later, Earlier
<1>2. WithGap(done.gaps, done.cursor, Earlier(b.from, Window.to), minGap) \in Seq(Interval)
    BY <1>1, WithGapType
<1> QED  BY <1>1, <1>2 DEF Pass, Progress

LEMMA KeepRun ==
    ASSUME NEW s \in Seq(Interval)
    PROVE  \E f \in [0 .. Len(s) -> Seq(Interval)] :
              /\ f[0] = <<>> /\ f[Len(s)] = FoldLeft(Keep, <<>>, s)
              /\ \A k \in 0 .. Len(s) : k < Len(s) => f[k + 1] = Keep(f[k], s[k + 1])
<1> DEFINE n == Len(s)
           X == Seq(Interval)
           step == [k \in 1 .. n |-> [x \in X |-> Keep(x, s[k])]]
           Folds(it) == it = [S \in SUBSET (1 .. n) |->
                                 IF S = {} THEN <<>>
                                 ELSE Keep(it[S \ {Max(S)}], s[Max(S)])]
           fold == CHOOSE it : Folds(it)
<1>1. n \in Nat /\ DOMAIN s = 1 .. n /\ <<>> \in X
    BY LenProperties, EmptySeq
<1>2. step \in [1 .. n -> [X -> X]]
    BY KeepType, ElementOfSeq
<1>3. PICK f : IsFold(f, X, <<>>, n, step)
  <2> HIDE DEF step, X, n
  <2> QED  BY <1>1, <1>2, FoldExists
<1>4. ASSUME NEW S \in SUBSET (1 .. n), S # {} PROVE Max(S) \in 1 .. n
  <2>1. S \in SUBSET (0 .. n)
      BY <1>1
  <2> QED  BY <1>1, <1>4, <2>1, MaxOf
<1>5. Folds(f)
  <2>1. ASSUME NEW S \in SUBSET (1 .. n), S # {}
        PROVE  f[S] = Keep(f[S \ {Max(S)}], s[Max(S)])
    <3>1. f[S \ {Max(S)}] \in X /\ Max(S) \in 1 .. n
        BY <1>3, <1>4, <2>1 DEF IsFold
    <3> QED  BY <1>3, <2>1, <3>1 DEF IsFold
  <2> QED  BY <1>3, <2>1 DEF IsFold
<1>6. Folds(fold)
  <2> HIDE DEF Folds
  <2> QED  BY <1>5
<1>7. FoldLeft(Keep, <<>>, s) = fold[1 .. n]
    BY <1>1, Zenon DEF FoldLeft, MapThenFoldSet
<1>8. Follows(fold, X, <<>>, n, step)
  <2> HIDE DEF fold
  <2>1. fold[{}] = <<>>
      BY <1>6
  <2>2. ASSUME NEW S \in SUBSET (1 .. n), S # {}, fold[S \ {Max(S)}] \in X
        PROVE  fold[S] = step[Max(S)][fold[S \ {Max(S)}]]
      BY <1>4, <1>6, <2>2
  <2> QED  BY <2>1, <2>2 DEF Follows
<1> HIDE DEF Folds, fold
<1>9. PICK g : IsRun(g, X, <<>>, n, step, fold)
  <2> HIDE DEF step, X, n
  <2> QED  BY <1>1, <1>2, <1>8, FoldRun
<1>10. ASSUME NEW k \in 0 .. n, k < n PROVE g[k + 1] = Keep(g[k], s[k + 1])
  <2>1. k + 1 \in 1 .. n
      BY <1>1, <1>10
  <2>2. g[k] \in X
      BY <1>9, <1>10 DEF IsRun
  <2> QED  BY <1>9, <1>10, <2>1, <2>2 DEF IsRun
<1> QED  BY <1>7, <1>9, <1>10 DEF IsRun

LEMMA InsertRun ==
    ASSUME NEW s \in Seq(Interval)
    PROVE  \E f \in [0 .. Len(s) -> Seq(Interval)] :
              /\ f[0] = <<>> /\ f[Len(s)] = FoldLeft(Insert, <<>>, s)
              /\ \A k \in 0 .. Len(s) : k < Len(s) => f[k + 1] = Insert(f[k], s[k + 1])
<1> DEFINE n == Len(s)
           X == Seq(Interval)
           step == [k \in 1 .. n |-> [x \in X |-> Insert(x, s[k])]]
           Folds(it) == it = [S \in SUBSET (1 .. n) |->
                                 IF S = {} THEN <<>>
                                 ELSE Insert(it[S \ {Max(S)}], s[Max(S)])]
           fold == CHOOSE it : Folds(it)
<1>1. n \in Nat /\ DOMAIN s = 1 .. n /\ <<>> \in X
    BY LenProperties, EmptySeq
<1>2. step \in [1 .. n -> [X -> X]]
    BY InsertType, ElementOfSeq
<1>3. PICK f : IsFold(f, X, <<>>, n, step)
  <2> HIDE DEF step, X, n
  <2> QED  BY <1>1, <1>2, FoldExists
<1>4. ASSUME NEW S \in SUBSET (1 .. n), S # {} PROVE Max(S) \in 1 .. n
  <2>1. S \in SUBSET (0 .. n)
      BY <1>1
  <2> QED  BY <1>1, <1>4, <2>1, MaxOf
<1>5. Folds(f)
  <2>1. ASSUME NEW S \in SUBSET (1 .. n), S # {}
        PROVE  f[S] = Insert(f[S \ {Max(S)}], s[Max(S)])
    <3>1. f[S \ {Max(S)}] \in X /\ Max(S) \in 1 .. n
        BY <1>3, <1>4, <2>1 DEF IsFold
    <3> QED  BY <1>3, <2>1, <3>1 DEF IsFold
  <2> QED  BY <1>3, <2>1 DEF IsFold
<1>6. Folds(fold)
  <2> HIDE DEF Folds
  <2> QED  BY <1>5
<1>7. FoldLeft(Insert, <<>>, s) = fold[1 .. n]
    BY <1>1, Zenon DEF FoldLeft, MapThenFoldSet
<1>8. Follows(fold, X, <<>>, n, step)
  <2> HIDE DEF fold
  <2>1. fold[{}] = <<>>
      BY <1>6
  <2>2. ASSUME NEW S \in SUBSET (1 .. n), S # {}, fold[S \ {Max(S)}] \in X
        PROVE  fold[S] = step[Max(S)][fold[S \ {Max(S)}]]
      BY <1>4, <1>6, <2>2
  <2> QED  BY <2>1, <2>2 DEF Follows
<1> HIDE DEF Folds, fold
<1>9. PICK g : IsRun(g, X, <<>>, n, step, fold)
  <2> HIDE DEF step, X, n
  <2> QED  BY <1>1, <1>2, <1>8, FoldRun
<1>10. ASSUME NEW k \in 0 .. n, k < n PROVE g[k + 1] = Insert(g[k], s[k + 1])
  <2>1. k + 1 \in 1 .. n
      BY <1>1, <1>10
  <2>2. g[k] \in X
      BY <1>9, <1>10 DEF IsRun
  <2> QED  BY <1>9, <1>10, <2>1, <2>2 DEF IsRun
<1> QED  BY <1>7, <1>9, <1>10 DEF IsRun

LEMMA AbsorbRun ==
    ASSUME NEW s \in Seq(Interval)
    PROVE  \E f \in [0 .. Len(s) -> Seq(Interval)] :
              /\ f[0] = <<>> /\ f[Len(s)] = FoldLeft(Absorb, <<>>, s)
              /\ \A k \in 0 .. Len(s) : k < Len(s) => f[k + 1] = Absorb(f[k], s[k + 1])
<1> DEFINE n == Len(s)
           X == Seq(Interval)
           step == [k \in 1 .. n |-> [x \in X |-> Absorb(x, s[k])]]
           Folds(it) == it = [S \in SUBSET (1 .. n) |->
                                 IF S = {} THEN <<>>
                                 ELSE Absorb(it[S \ {Max(S)}], s[Max(S)])]
           fold == CHOOSE it : Folds(it)
<1>1. n \in Nat /\ DOMAIN s = 1 .. n /\ <<>> \in X
    BY LenProperties, EmptySeq
<1>2. step \in [1 .. n -> [X -> X]]
    BY AbsorbType, ElementOfSeq
<1>3. PICK f : IsFold(f, X, <<>>, n, step)
  <2> HIDE DEF step, X, n
  <2> QED  BY <1>1, <1>2, FoldExists
<1>4. ASSUME NEW S \in SUBSET (1 .. n), S # {} PROVE Max(S) \in 1 .. n
  <2>1. S \in SUBSET (0 .. n)
      BY <1>1
  <2> QED  BY <1>1, <1>4, <2>1, MaxOf
<1>5. Folds(f)
  <2>1. ASSUME NEW S \in SUBSET (1 .. n), S # {}
        PROVE  f[S] = Absorb(f[S \ {Max(S)}], s[Max(S)])
    <3>1. f[S \ {Max(S)}] \in X /\ Max(S) \in 1 .. n
        BY <1>3, <1>4, <2>1 DEF IsFold
    <3> QED  BY <1>3, <2>1, <3>1 DEF IsFold
  <2> QED  BY <1>3, <2>1 DEF IsFold
<1>6. Folds(fold)
  <2> HIDE DEF Folds
  <2> QED  BY <1>5
<1>7. FoldLeft(Absorb, <<>>, s) = fold[1 .. n]
    BY <1>1, Zenon DEF FoldLeft, MapThenFoldSet
<1>8. Follows(fold, X, <<>>, n, step)
  <2> HIDE DEF fold
  <2>1. fold[{}] = <<>>
      BY <1>6
  <2>2. ASSUME NEW S \in SUBSET (1 .. n), S # {}, fold[S \ {Max(S)}] \in X
        PROVE  fold[S] = step[Max(S)][fold[S \ {Max(S)}]]
      BY <1>4, <1>6, <2>2
  <2> QED  BY <2>1, <2>2 DEF Follows
<1> HIDE DEF Folds, fold
<1>9. PICK g : IsRun(g, X, <<>>, n, step, fold)
  <2> HIDE DEF step, X, n
  <2> QED  BY <1>1, <1>2, <1>8, FoldRun
<1>10. ASSUME NEW k \in 0 .. n, k < n PROVE g[k + 1] = Absorb(g[k], s[k + 1])
  <2>1. k + 1 \in 1 .. n
      BY <1>1, <1>10
  <2>2. g[k] \in X
      BY <1>9, <1>10 DEF IsRun
  <2> QED  BY <1>9, <1>10, <2>1, <2>2 DEF IsRun
<1> QED  BY <1>7, <1>9, <1>10 DEF IsRun

LEMMA PassRun ==
    ASSUME NEW s \in Seq(Interval), NEW minGap \in Nat
    PROVE  \E f \in [0 .. Len(s) -> Progress] :
              /\ f[0] = [gaps |-> <<>>, cursor |-> Window.from] /\ f[Len(s)] = FoldLeft(LAMBDA d, b : Pass(d, b, minGap),
                                              [gaps |-> <<>>, cursor |-> Window.from], s)
              /\ \A k \in 0 .. Len(s) : k < Len(s) => f[k + 1] = Pass(f[k], s[k + 1], minGap)
<1> DEFINE n == Len(s)
           X == Progress
           step == [k \in 1 .. n |-> [x \in X |-> Pass(x, s[k], minGap)]]
           Folds(it) == it = [S \in SUBSET (1 .. n) |->
                                 IF S = {} THEN [gaps |-> <<>>, cursor |-> Window.from]
                                 ELSE Pass(it[S \ {Max(S)}], s[Max(S)], minGap)]
           fold == CHOOSE it : Folds(it)
<1>1. n \in Nat /\ DOMAIN s = 1 .. n /\ [gaps |-> <<>>, cursor |-> Window.from] \in X
    BY LenProperties, EmptySeq, TheWindow DEF Progress
<1>2. step \in [1 .. n -> [X -> X]]
    BY PassType, ElementOfSeq
<1>3. PICK f : IsFold(f, X, [gaps |-> <<>>, cursor |-> Window.from], n, step)
  <2> HIDE DEF step, X, n
  <2> QED  BY <1>1, <1>2, FoldExists
<1>4. ASSUME NEW S \in SUBSET (1 .. n), S # {} PROVE Max(S) \in 1 .. n
  <2>1. S \in SUBSET (0 .. n)
      BY <1>1
  <2> QED  BY <1>1, <1>4, <2>1, MaxOf
<1>5. Folds(f)
  <2>1. ASSUME NEW S \in SUBSET (1 .. n), S # {}
        PROVE  f[S] = Pass(f[S \ {Max(S)}], s[Max(S)], minGap)
    <3>1. f[S \ {Max(S)}] \in X /\ Max(S) \in 1 .. n
        BY <1>3, <1>4, <2>1 DEF IsFold
    <3> QED  BY <1>3, <2>1, <3>1 DEF IsFold
  <2> QED  BY <1>3, <2>1 DEF IsFold
<1>6. Folds(fold)
  <2> HIDE DEF Folds
  <2> QED  BY <1>5
<1>7. FoldLeft(LAMBDA d, b : Pass(d, b, minGap),
                                              [gaps |-> <<>>, cursor |-> Window.from], s) = fold[1 .. n]
    BY <1>1, Zenon DEF FoldLeft, MapThenFoldSet
<1>8. Follows(fold, X, [gaps |-> <<>>, cursor |-> Window.from], n, step)
  <2> HIDE DEF fold
  <2>1. fold[{}] = [gaps |-> <<>>, cursor |-> Window.from]
      BY <1>6
  <2>2. ASSUME NEW S \in SUBSET (1 .. n), S # {}, fold[S \ {Max(S)}] \in X
        PROVE  fold[S] = step[Max(S)][fold[S \ {Max(S)}]]
      BY <1>4, <1>6, <2>2
  <2> QED  BY <2>1, <2>2 DEF Follows
<1> HIDE DEF Folds, fold
<1>9. PICK g : IsRun(g, X, [gaps |-> <<>>, cursor |-> Window.from], n, step, fold)
  <2> HIDE DEF step, X, n
  <2> QED  BY <1>1, <1>2, <1>8, FoldRun
<1>10. ASSUME NEW k \in 0 .. n, k < n PROVE g[k + 1] = Pass(g[k], s[k + 1], minGap)
  <2>1. k + 1 \in 1 .. n
      BY <1>1, <1>10
  <2>2. g[k] \in X
      BY <1>9, <1>10 DEF IsRun
  <2> QED  BY <1>9, <1>10, <2>1, <2>2 DEF IsRun
<1> QED  BY <1>7, <1>9, <1>10 DEF IsRun

-----------------------------------------------------------------------------
(* What clipping, expanding and sorting compute.                           *)

FirstOf(s, k) == {s[j] : j \in 1 .. k}

LEMMA FirstOfNone == ASSUME NEW s PROVE FirstOf(s, 0) = {}
BY DEF FirstOf

LEMMA FirstOfNext ==
    ASSUME NEW s \in Seq(Interval), NEW k \in 0 .. Len(s), k < Len(s)
    PROVE  /\ FirstOf(s, k + 1) = FirstOf(s, k) \cup {s[k + 1]}
           /\ k + 1 \in 1 .. Len(s) /\ s[k + 1] \in Interval
<1>1. Len(s) \in Nat /\ k + 1 \in 1 .. Len(s)
    BY LenProperties
<1>2. s[k + 1] \in Interval
    BY <1>1, ElementOfSeq
<1>3. 1 .. k + 1 = (1 .. k) \cup {k + 1}
    BY <1>1
<1>4. FirstOf(s, k + 1) = FirstOf(s, k) \cup {s[k + 1]}
    BY <1>3 DEF FirstOf
<1> QED  BY <1>1, <1>2, <1>4

LEMMA FirstOfAll == ASSUME NEW s \in Seq(Interval) PROVE FirstOf(s, Len(s)) = Range(s)
BY LenProperties DEF FirstOf, Range

LEMMA EmptyRange == Range(<<>>) = {} /\ Len(<<>>) = 0
BY DEF Range

LEMMA RangeOf ==
    ASSUME NEW s \in Seq(Interval)
    PROVE  Range(s) = {s[k] : k \in 1 .. Len(s)} /\ Range(s) \subseteq Interval /\ Len(s) \in Nat
BY LenProperties, ElementOfSeq DEF Range

Kept(I) == {c \in {Clipped(i, Window) : i \in I} : NonEmpty(c)}

(* The items that are not empty once they are clipped.                      *)
LEMMA ClippedItems ==
    ASSUME NEW s \in Seq(Interval)
    PROVE  /\ ClippedToWindow(s) \in Seq(Interval)
           /\ Range(ClippedToWindow(s)) = Kept(Range(s))
<1>1. PICK f \in [0 .. Len(s) -> Seq(Interval)] :
         /\ f[0] = <<>> /\ f[Len(s)] = FoldLeft(Keep, <<>>, s)
         /\ \A k \in 0 .. Len(s) : k < Len(s) => f[k + 1] = Keep(f[k], s[k + 1])
    BY KeepRun
<1>2. Len(s) \in Nat /\ Len(s) \in 0 .. Len(s) /\ 0 \in 0 .. Len(s)
    BY LenProperties
<1> DEFINE S == {k \in 0 .. Len(s) : Range(f[k]) = Kept(FirstOf(s, k))}
<1>3. 0 \in S
  <2>1. Kept(FirstOf(s, 0)) = {} /\ Range(f[0]) = {}
      BY <1>1, FirstOfNone, EmptyRange DEF Kept
  <2> QED  BY <1>2, <2>1
<1>4. ASSUME NEW k \in 0 .. Len(s), k < Len(s), k \in S PROVE k + 1 \in S
  <2> DEFINE c == Clipped(s[k + 1], Window)
  <2>1. /\ f[k] \in Seq(Interval) /\ Range(f[k]) = Kept(FirstOf(s, k))
        /\ f[k + 1] = Keep(f[k], s[k + 1])
      BY <1>1, <1>4
  <2>2. /\ FirstOf(s, k + 1) = FirstOf(s, k) \cup {s[k + 1]} /\ k + 1 \in 0 .. Len(s)
        /\ s[k + 1] \in Interval
      BY <1>2, <1>4, FirstOfNext
  <2>3. c \in Interval
      BY <2>2, TheWindow DEF Clipped, Interval, Later, Earlier
  <2>4. Kept(FirstOf(s, k + 1)) = Kept(FirstOf(s, k)) \cup (IF NonEmpty(c) THEN {c} ELSE {})
      BY <2>2 DEF Kept
  <2>5. Range(Keep(f[k], s[k + 1])) = Range(f[k]) \cup (IF NonEmpty(c) THEN {c} ELSE {})
    <3>1. CASE NonEmpty(c)
      <4>1. Keep(f[k], s[k + 1]) = Append(f[k], c)
          BY <3>1 DEF Keep
      <4>2. Range(Append(f[k], c)) = Range(f[k]) \cup {c}
          BY <2>1, <2>3, AppendRange
      <4> QED  BY <3>1, <4>1, <4>2
    <3>2. CASE ~NonEmpty(c)
        BY <3>2 DEF Keep
    <3> QED  BY <3>1, <3>2
  <2> QED  BY <2>1, <2>2, <2>4, <2>5
<1>5. \A k \in 0 .. Len(s) : k \in S
  <2> HIDE DEF S
  <2> QED  BY <1>2, <1>3, <1>4, Induction
<1>6. f[Len(s)] \in Seq(Interval) /\ Range(f[Len(s)]) = Kept(FirstOf(s, Len(s)))
    BY <1>1, <1>2, <1>5
<1> QED  BY <1>1, <1>6, FirstOfAll DEF ClippedToWindow

LEMMA ExpandedItems ==
    ASSUME NEW s \in Seq(Interval), NEW buffer \in Nat
    PROVE  /\ Expanded(s, buffer) \in Seq(Interval)
           /\ Range(Expanded(s, buffer)) = {Trailing(i, buffer) : i \in Range(s)}
<1>1. DOMAIN s = 1 .. Len(s) /\ Len(s) \in Nat
    BY LenProperties
<1>2. ASSUME NEW k \in 1 .. Len(s) PROVE Trailing(s[k], buffer) \in Interval
  <2> DEFINE i == s[k]
  <2>1. i \in Interval
      BY ElementOfSeq
  <2> HIDE DEF i
  <2>2. Trailing(i, buffer) = [from |-> i.from, to |-> i.to + buffer]
      BY <2>1 DEF Interval, Trailing
  <2>3. i.from \in Nat /\ i.to + buffer \in Nat
      BY <2>1, Ends
  <2>4. Trailing(i, buffer) \in Interval
      BY <2>2, <2>3 DEF Interval
  <2> QED  BY <2>4 DEF i
<1>3. Expanded(s, buffer) \in Seq(Interval)
    BY <1>1, <1>2, SeqDef DEF Expanded
<1>4. Range(Expanded(s, buffer)) = {Trailing(i, buffer) : i \in Range(s)}
    BY DEF Range, Expanded
<1> QED  BY <1>3, <1>4

InOrder(t) == \A k, l \in 1 .. Len(t) : k < l => t[k].from <= t[l].from

LEMMA InsertInOrder ==
    ASSUME NEW t \in Seq(Interval), InOrder(t), NEW i \in Interval
    PROVE  InOrder(Insert(t, i)) /\ Range(Insert(t, i)) = Range(t) \cup {i}
<1> DEFINE before == {k \in DOMAIN t : t[k].from <= i.from}
           p == Max({0} \cup before)
           u == InsertAt(t, p + 1, i)
<1>1. /\ p \in {0} \cup before /\ p \in 0 .. Len(t)
      /\ \A k \in before : k <= p
    BY Position
<1>2. DOMAIN t = 1 .. Len(t) /\ Len(t) \in Nat /\ \A k \in 1 .. Len(t) : t[k] \in Interval
    BY LenProperties, ElementOfSeq
<1>3. Insert(t, i) = u
    BY DEF Insert
<1> HIDE DEF p
<1>4. /\ u \in Seq(Interval) /\ Len(u) = Len(t) + 1
      /\ \A j \in 1 .. p : u[j] = t[j]
      /\ u[p + 1] = i
      /\ \A j \in p + 1 .. Len(t) : u[j + 1] = t[j]
    BY <1>1, InsertedAt
<1> HIDE DEF u
<1>5. \A j \in 1 .. p : t[j].from <= i.from
  <2> SUFFICES ASSUME NEW j \in 1 .. p PROVE t[j].from <= i.from
      OBVIOUS
  <2>1. p \in before /\ j \in 1 .. Len(t) /\ p \in 1 .. Len(t)
      BY <1>1, <1>2
  <2>2. t[p].from <= i.from
      BY <2>1
  <2>4. t[j].from \in Nat /\ t[p].from \in Nat /\ i.from \in Nat
      BY <1>2, <2>1, Ends
  <2>3. t[j].from <= t[p].from
    <3>1. CASE j < p
        BY <2>1, <3>1 DEF InOrder
    <3>2. CASE j = p
        BY <2>4, <3>2
    <3> QED  BY <2>1, <3>1, <3>2
  <2> QED  BY <2>2, <2>3, <2>4
<1>6. \A j \in p + 1 .. Len(t) : i.from <= t[j].from
  <2> SUFFICES ASSUME NEW j \in p + 1 .. Len(t) PROVE i.from <= t[j].from
      OBVIOUS
  <2>1. j \in DOMAIN t /\ j \notin before
      BY <1>1, <1>2
  <2>2. t[j].from \in Nat /\ i.from \in Nat
      BY <1>2, <2>1, Ends
  <2> QED  BY <2>1, <2>2
\* Where the elements of u come from.
<1>7. ASSUME NEW k \in 1 .. Len(u)
      PROVE  \/ k <= p /\ k \in 1 .. Len(t) /\ u[k] = t[k]
             \/ k = p + 1 /\ u[k] = i
             \/ k > p + 1 /\ k - 1 \in p + 1 .. Len(t) /\ u[k] = t[k - 1]
  <2>1. CASE k <= p
      BY <1>1, <1>2, <1>4, <2>1
  <2>2. CASE k = p + 1
      BY <1>4, <2>2
  <2>3. CASE k > p + 1
    <3>1. k - 1 \in p + 1 .. Len(t) /\ (k - 1) + 1 = k
        BY <1>1, <1>2, <1>4, <2>3
    <3>2. u[(k - 1) + 1] = t[k - 1]
        BY <1>4, <3>1
    <3> QED  BY <2>3, <3>1, <3>2
  <2> QED  BY <1>1, <2>1, <2>2, <2>3
<1>8. InOrder(u)
  <2> SUFFICES ASSUME NEW k \in 1 .. Len(u), NEW l \in 1 .. Len(u), k < l
               PROVE  u[k].from <= u[l].from
      BY DEF InOrder
  <2>0. i.from \in Nat /\ \A j \in 1 .. Len(t) : t[j].from \in Nat
      BY <1>2, Ends
  <2>1. \/ k <= p /\ k \in 1 .. Len(t) /\ u[k] = t[k]
        \/ k = p + 1 /\ u[k] = i
        \/ k > p + 1 /\ k - 1 \in p + 1 .. Len(t) /\ u[k] = t[k - 1]
      BY <1>7
  <2>2. \/ l <= p /\ l \in 1 .. Len(t) /\ u[l] = t[l]
        \/ l = p + 1 /\ u[l] = i
        \/ l > p + 1 /\ l - 1 \in p + 1 .. Len(t) /\ u[l] = t[l - 1]
      BY <1>7
  <2>3. CASE k <= p /\ k \in 1 .. Len(t) /\ u[k] = t[k]
    <3>1. t[k].from <= i.from
        BY <1>1, <1>5, <2>3
    <3>2. CASE l <= p /\ l \in 1 .. Len(t) /\ u[l] = t[l]
        BY <2>3, <3>2 DEF InOrder
    <3>3. CASE l = p + 1 /\ u[l] = i
        BY <2>3, <3>1, <3>3
    <3>4. CASE l > p + 1 /\ l - 1 \in p + 1 .. Len(t) /\ u[l] = t[l - 1]
      <4>1. l - 1 \in 1 .. Len(t) /\ i.from <= t[l - 1].from
          BY <1>1, <1>6, <3>4
      <4> QED  BY <2>0, <2>3, <3>1, <3>4, <4>1
    <3> QED  BY <2>2, <3>2, <3>3, <3>4
  <2>4. CASE k = p + 1 /\ u[k] = i
    <3>1. l > p + 1 /\ l - 1 \in p + 1 .. Len(t) /\ u[l] = t[l - 1]
        BY <1>1, <2>2, <2>4
    <3> QED  BY <1>6, <2>4, <3>1
  <2>5. CASE k > p + 1 /\ k - 1 \in p + 1 .. Len(t) /\ u[k] = t[k - 1]
    <3>1. l > p + 1 /\ l - 1 \in p + 1 .. Len(t) /\ u[l] = t[l - 1]
        BY <1>1, <2>2, <2>5
    <3>2. k - 1 \in 1 .. Len(t) /\ l - 1 \in 1 .. Len(t) /\ k - 1 < l - 1
        BY <1>1, <2>5, <3>1
    <3> QED  BY <2>5, <3>1, <3>2 DEF InOrder
  <2> QED  BY <2>1, <2>3, <2>4, <2>5
<1>9. Range(u) = Range(t) \cup {i}
  <2>1. DOMAIN u = 1 .. Len(u)
      BY <1>4, LenProperties
  <2>2. ASSUME NEW x \in Range(u) PROVE x \in Range(t) \cup {i}
    <3>1. PICK k \in 1 .. Len(u) : x = u[k]
        BY <2>1 DEF Range
    <3>2. \/ k \in 1 .. Len(t) /\ u[k] = t[k]
          \/ u[k] = i
          \/ k - 1 \in 1 .. Len(t) /\ u[k] = t[k - 1]
        BY <1>1, <1>7
    <3> QED  BY <1>2, <3>1, <3>2 DEF Range
  <2>3. ASSUME NEW x \in Range(t) PROVE x \in Range(u)
    <3>1. PICK k \in 1 .. Len(t) : x = t[k]
        BY <1>2 DEF Range
    <3>2. CASE k <= p
      <4>1. k \in DOMAIN u /\ u[k] = x
          BY <1>1, <1>2, <1>4, <2>1, <3>1, <3>2
      <4> QED  BY <4>1 DEF Range
    <3>3. CASE k > p
      <4>1. k + 1 \in DOMAIN u /\ u[k + 1] = x
          BY <1>1, <1>2, <1>4, <2>1, <3>1, <3>3
      <4> QED  BY <4>1 DEF Range
    <3> QED  BY <1>1, <3>2, <3>3
  <2>4. i \in Range(u)
    <3>1. p + 1 \in DOMAIN u /\ u[p + 1] = i
        BY <1>1, <1>2, <1>4, <2>1
    <3> QED  BY <3>1 DEF Range
  <2> QED  BY <2>2, <2>3, <2>4
<1> QED  BY <1>3, <1>8, <1>9

(* The same items, by their start.                                          *)
LEMMA SortedItems ==
    ASSUME NEW s \in Seq(Interval)
    PROVE  /\ Sorted(s) \in Seq(Interval) /\ InOrder(Sorted(s))
           /\ Range(Sorted(s)) = Range(s)
<1>1. PICK f \in [0 .. Len(s) -> Seq(Interval)] :
         /\ f[0] = <<>> /\ f[Len(s)] = FoldLeft(Insert, <<>>, s)
         /\ \A k \in 0 .. Len(s) : k < Len(s) => f[k + 1] = Insert(f[k], s[k + 1])
    BY InsertRun
<1>2. Len(s) \in Nat /\ Len(s) \in 0 .. Len(s) /\ 0 \in 0 .. Len(s)
    BY LenProperties
<1> DEFINE S == {k \in 0 .. Len(s) : InOrder(f[k]) /\ Range(f[k]) = FirstOf(s, k)}
<1>3. 0 \in S
  <2>1. Range(f[0]) = FirstOf(s, 0) /\ InOrder(f[0])
      BY <1>1, FirstOfNone, EmptyRange DEF InOrder
  <2> QED  BY <1>2, <2>1
<1>4. ASSUME NEW k \in 0 .. Len(s), k < Len(s), k \in S PROVE k + 1 \in S
  <2>1. f[k] \in Seq(Interval) /\ f[k + 1] = Insert(f[k], s[k + 1])
      BY <1>1, <1>4
  <2>2. /\ FirstOf(s, k + 1) = FirstOf(s, k) \cup {s[k + 1]} /\ k + 1 \in 0 .. Len(s)
        /\ s[k + 1] \in Interval
      BY <1>2, <1>4, FirstOfNext
  <2>3. InOrder(f[k + 1]) /\ Range(f[k + 1]) = Range(f[k]) \cup {s[k + 1]}
      BY <1>4, <2>1, <2>2, InsertInOrder
  <2> QED  BY <1>4, <2>2, <2>3
<1>5. \A k \in 0 .. Len(s) : k \in S
  <2> HIDE DEF S
  <2> QED  BY <1>2, <1>3, <1>4, Induction
<1>6. /\ f[Len(s)] \in Seq(Interval) /\ InOrder(f[Len(s)])
      /\ Range(f[Len(s)]) = FirstOf(s, Len(s))
    BY <1>1, <1>2, <1>5
<1> QED  BY <1>1, <1>6, FirstOfAll DEF Sorted

-----------------------------------------------------------------------------
(* What merging computes.                                                  *)

Meets(slot, B) == \E k \in 1 .. Len(B) : Overlap(slot, B[k])

Separated(B) ==
    /\ \A k \in 1 .. Len(B) : NonEmpty(B[k])
    /\ \A k, l \in 1 .. Len(B) : k < l => B[k].to < B[l].from

(* The invariant of the loop: a time meets a block exactly when it meets an *)
(* item, and blocks of items that are not empty are apart.                  *)
Blocks(B, I) ==
    /\ \A slot \in Interval : NonEmpty(slot) => (Meets(slot, B) <=> \E i \in I : Overlap(slot, i))
    /\ \A k \in 1 .. Len(B) : \E i \in I : B[k].from = i.from
    /\ (\A i \in I : NonEmpty(i)) => Separated(B)

LEMMA AppendedBlock ==
    ASSUME NEW B \in Seq(Interval), NEW I \in SUBSET Interval, Blocks(B, I), NEW i \in Interval,
           \A j \in I : j.from <= i.from, B = <<>> \/ i.from > B[Len(B)].to
    PROVE  Blocks(Append(B, i), I \cup {i})
<1> DEFINE n == Len(B)
           A == Append(B, i)
<1>1. /\ n \in Nat /\ A \in Seq(Interval) /\ Len(A) = n + 1 /\ A[n + 1] = i
      /\ \A k \in 1 .. n : A[k] = B[k]
    BY LenProperties, AppendProperties
<1>2. \A k \in 1 .. n : B[k] \in Interval
    BY ElementOfSeq
<1>3. B = <<>> => n = 0
    BY EmptySeq
<1> HIDE DEF A, n
<1>4. 1 .. n + 1 = (1 .. n) \cup {n + 1}
    BY <1>1
<1>5. ASSUME NEW slot \in Interval, NonEmpty(slot)
      PROVE  Meets(slot, A) <=> \E j \in I \cup {i} : Overlap(slot, j)
  <2>1. Meets(slot, A) <=> Meets(slot, B) \/ Overlap(slot, i)
      BY <1>1, <1>4 DEF Meets, n
  <2>2. Meets(slot, B) <=> \E j \in I : Overlap(slot, j)
      BY <1>5 DEF Blocks
  <2> QED  BY <2>1, <2>2
<1>6. ASSUME NEW k \in 1 .. n + 1 PROVE \E j \in I \cup {i} : A[k].from = j.from
  <2>1. CASE k = n + 1
      BY <1>1, <2>1
  <2>2. CASE k \in 1 .. n
      BY <1>1, <2>2 DEF Blocks, n
  <2> QED  BY <1>4, <2>1, <2>2
<1>7. ASSUME \A j \in I \cup {i} : NonEmpty(j) PROVE Separated(A)
  <2>1. Separated(B)
      BY <1>7 DEF Blocks
  <2>2. \A k \in 1 .. n + 1 : NonEmpty(A[k])
      BY <1>1, <1>4, <1>7, <2>1 DEF Separated, n
  <2>3. ASSUME NEW k \in 1 .. n + 1, NEW l \in 1 .. n + 1, k < l PROVE A[k].to < A[l].from
    <3>1. k \in 1 .. n
        BY <1>1, <2>3
    <3>2. CASE l \in 1 .. n
        BY <1>1, <2>1, <2>3, <3>1, <3>2 DEF Separated, n
    <3>3. CASE l = n + 1
      <4>1. i.from > B[n].to /\ n \in 1 .. n
          BY <1>1, <1>3, <3>1 DEF n
      <4>2. B[k].to <= B[n].to
        <5>1. B[k].to \in Nat /\ B[n].to \in Nat /\ B[n].from \in Nat /\ B[n].from < B[n].to
            BY <1>2, <2>1, <3>1, <4>1, Ends DEF Separated, NonEmpty, n
        <5>2. k < n => B[k].to < B[n].from
            BY <2>1, <3>1, <4>1 DEF Separated, n
        <5>3. k = n \/ k < n
            BY <1>1, <3>1
        <5> QED  BY <5>1, <5>2, <5>3
      <4>3. B[k].to \in Nat /\ B[n].to \in Nat /\ i.from \in Nat
          BY <1>2, <3>1, <4>1, Ends
      <4> QED  BY <1>1, <3>1, <3>3, <4>1, <4>2, <4>3
    <3> QED  BY <1>4, <3>2, <3>3
  <2> QED  BY <1>1, <2>2, <2>3 DEF Separated
<1> QED  BY <1>1, <1>5, <1>6, <1>7 DEF Blocks, A, n

Extended(B, i) == [B EXCEPT ![Len(B)].to = Later(@, i.to)]

LEMMA ExtendedBlock ==
    ASSUME NEW B \in Seq(Interval), NEW I \in SUBSET Interval, Blocks(B, I), NEW i \in Interval,
           \A j \in I : j.from <= i.from, ~(B = <<>> \/ i.from > B[Len(B)].to)
    PROVE  Blocks(Extended(B, i), I \cup {i})
<1> DEFINE n == Len(B)
           b == B[n]
           A == [B EXCEPT ![n].to = Later(@, i.to)]
<1>1. n \in Nat /\ n \in 1 .. n /\ DOMAIN B = 1 .. n
    BY EmptySeq, LenProperties
<1>2. \A k \in 1 .. n : B[k] \in Interval
    BY ElementOfSeq
<1>3. b.from \in Nat /\ b.to \in Nat /\ i.from \in Nat /\ i.to \in Nat /\ i.from <= b.to
    BY <1>1, <1>2, Ends
<1>4. b.from <= i.from
    BY <1>1 DEF Blocks
<1>5. /\ A[n].from = b.from /\ A[n].to = Later(b.to, i.to)
      /\ \A k \in 1 .. n : k # n => A[k] = B[k]
  <2>1. b = [from |-> b.from, to |-> b.to]
      BY <1>1, <1>2 DEF Interval
  <2> QED  BY <1>1, <2>1
<1>6. Len(A) = n
    BY <1>1
<1> HIDE DEF A, b, n
<1>7. ASSUME NEW slot \in Interval, NonEmpty(slot)
      PROVE  Meets(slot, A) <=> \E j \in I \cup {i} : Overlap(slot, j)
  <2>1. Overlap(slot, A[n]) <=> Overlap(slot, b) \/ Overlap(slot, i)
    <3>1. slot.from \in Nat /\ slot.to \in Nat /\ slot.from < slot.to
        BY <1>7, Ends DEF NonEmpty
    <3> QED  BY <1>3, <1>4, <1>5, <3>1 DEF Overlap, Later
  <2>2. Meets(slot, A) <=> Meets(slot, B) \/ Overlap(slot, i)
    <3>1. Meets(slot, A) <=> Overlap(slot, A[n]) \/ \E k \in 1 .. n : k # n /\ Overlap(slot, A[k])
        BY <1>1, <1>6 DEF Meets
    <3>2. Meets(slot, B) <=> Overlap(slot, b) \/ \E k \in 1 .. n : k # n /\ Overlap(slot, B[k])
        BY <1>1 DEF Meets, b, n
    <3> QED  BY <1>5, <2>1, <3>1, <3>2
  <2>3. Meets(slot, B) <=> \E j \in I : Overlap(slot, j)
      BY <1>7 DEF Blocks
  <2> QED  BY <2>2, <2>3
<1>8. ASSUME NEW k \in 1 .. n PROVE A[k].from = B[k].from /\ \E j \in I \cup {i} : A[k].from = j.from
  <2>1. A[k].from = B[k].from
      BY <1>5 DEF b
  <2> QED  BY <2>1 DEF Blocks, n
<1>9. ASSUME \A j \in I \cup {i} : NonEmpty(j) PROVE Separated(A)
  <2>1. Separated(B)
      BY <1>9 DEF Blocks
  <2>2. ASSUME NEW k \in 1 .. n PROVE NonEmpty(A[k])
    <3>1. NonEmpty(B[k]) /\ NonEmpty(b)
        BY <1>1, <2>1 DEF Separated, n, b
    <3>2. CASE k = n
        BY <1>3, <1>5, <3>1, <3>2 DEF NonEmpty, Later
    <3> QED  BY <1>5, <3>1, <3>2
  <2>3. ASSUME NEW k \in 1 .. n, NEW l \in 1 .. n, k < l PROVE A[k].to < A[l].from
    <3>1. k # n
        BY <1>1, <2>3
    <3>2. B[k].to < B[l].from
        BY <2>1, <2>3 DEF Separated, n
    <3> QED  BY <1>5, <1>8, <3>1, <3>2
  <2> QED  BY <1>6, <2>2, <2>3 DEF Separated
<1> QED  BY <1>6, <1>7, <1>8, <1>9 DEF Blocks, Extended, A, n

(* The blocks of a calendar.                                                *)
LEMMA MergedItems ==
    ASSUME NEW s \in Seq(Interval)
    PROVE  Merged(s) \in Seq(Interval) /\ Blocks(Merged(s), Range(s))
<1> DEFINE t == Sorted(s)
<1>1. t \in Seq(Interval) /\ InOrder(t) /\ Range(t) = Range(s)
    BY SortedItems
<1>2. Merged(s) = FoldLeft(Absorb, <<>>, t)
    BY DEF Merged
<1> HIDE DEF t
<1>3. PICK f \in [0 .. Len(t) -> Seq(Interval)] :
         /\ f[0] = <<>> /\ f[Len(t)] = FoldLeft(Absorb, <<>>, t)
         /\ \A k \in 0 .. Len(t) : k < Len(t) => f[k + 1] = Absorb(f[k], t[k + 1])
    BY <1>1, AbsorbRun
<1>4. Len(t) \in Nat /\ Len(t) \in 0 .. Len(t) /\ 0 \in 0 .. Len(t)
    BY <1>1, LenProperties
<1> DEFINE S == {k \in 0 .. Len(t) : Blocks(f[k], FirstOf(t, k))}
<1>5. 0 \in S
  <2>1. Blocks(<<>>, {})
      BY EmptyRange DEF Blocks, Meets, Separated
  <2> QED  BY <1>3, <1>4, <2>1, FirstOfNone
<1>6. ASSUME NEW k \in 0 .. Len(t), k < Len(t), k \in S PROVE k + 1 \in S
  <2> DEFINE i == t[k + 1]
             I == FirstOf(t, k)
  <2>1. f[k] \in Seq(Interval) /\ f[k + 1] = Absorb(f[k], i) /\ Blocks(f[k], I)
      BY <1>3, <1>6
  <2>2. FirstOf(t, k + 1) = I \cup {i} /\ k + 1 \in 1 .. Len(t) /\ i \in Interval
      BY <1>1, <1>6, FirstOfNext
  <2>3. I \in SUBSET Interval /\ \A j \in I : j.from <= i.from
    <3> SUFFICES ASSUME NEW m \in 1 .. k PROVE t[m] \in Interval /\ t[m].from <= i.from
        BY DEF FirstOf
    <3>1. m \in 1 .. Len(t) /\ m < k + 1
        BY <1>4, <2>2
    <3> QED  BY <1>1, <2>2, <3>1, ElementOfSeq DEF InOrder
  <2> HIDE DEF i, I
  <2>4. Blocks(Absorb(f[k], i), I \cup {i})
    <3>1. CASE f[k] = <<>> \/ i.from > f[k][Len(f[k])].to
      <4>1. Absorb(f[k], i) = Append(f[k], i)
          BY <3>1 DEF Absorb, Last
      <4> QED  BY <2>1, <2>2, <2>3, <3>1, <4>1, AppendedBlock
    <3>2. CASE ~(f[k] = <<>> \/ i.from > f[k][Len(f[k])].to)
      <4>1. Absorb(f[k], i) = Extended(f[k], i)
          BY <3>2 DEF Absorb, Last, Extended
      <4> QED  BY <2>1, <2>2, <2>3, <3>2, <4>1, ExtendedBlock
    <3> QED  BY <3>1, <3>2
  <2>5. k + 1 \in 0 .. Len(t)
      BY <1>4, <2>2
  <2> QED  BY <2>1, <2>2, <2>4, <2>5
<1>7. \A k \in 0 .. Len(t) : k \in S
  <2> HIDE DEF S
  <2> QED  BY <1>4, <1>5, <1>6, Induction
<1>8. f[Len(t)] \in Seq(Interval) /\ Blocks(f[Len(t)], FirstOf(t, Len(t)))
    BY <1>3, <1>4, <1>7
<1>9. FirstOf(t, Len(t)) = Range(s)
    BY <1>1, FirstOfAll
<1> QED  BY <1>2, <1>3, <1>8, <1>9

-----------------------------------------------------------------------------
(* What inverting computes.                                                *)

\* The time before, between and after the blocks.
Start(B, l) == IF l = 1 THEN Window.from ELSE B[l - 1].to
Finish(B, l) == IF l = Len(B) + 1 THEN Window.to ELSE B[l].from
GapAt(B, l) == [from |-> Start(B, l), to |-> Finish(B, l)]

\* The gaps among the first k that are shown.
Shown(B, k, minGap) == {GapAt(B, l) : l \in {m \in 1 .. k : Start(B, m) + minGap <= Finish(B, m)}}

Ordered(gaps) == \A k, l \in 1 .. Len(gaps) : k < l => gaps[k].to < gaps[l].from

InWindow(B) == \A k \in 1 .. Len(B) : Window.from <= B[k].from /\ B[k].from < Window.to

(* The invariant of the loop, after k blocks.                               *)
Passed(done, B, k, minGap) ==
    /\ done.cursor = Start(B, k + 1)
    /\ Range(done.gaps) = Shown(B, k, minGap)
    /\ Ordered(done.gaps)
    /\ \A m \in 1 .. Len(done.gaps) : done.gaps[m].to < done.cursor

(* The blocks and the time around them, in the order of time.               *)
LEMMA TimeLine ==
    ASSUME NEW B \in Seq(Interval), Separated(B), InWindow(B)
    PROVE  /\ Len(B) \in Nat
           /\ \A k \in 1 .. Len(B) : /\ B[k].from \in Nat /\ B[k].to \in Nat
                                     /\ B[k].from < B[k].to
                                     /\ Window.from <= B[k].from /\ B[k].from < Window.to
           /\ \A l \in 1 .. Len(B) + 1 : Start(B, l) \in Nat /\ Finish(B, l) \in Nat
           /\ \A k \in 1 .. Len(B) : Finish(B, k) = B[k].from /\ Start(B, k + 1) = B[k].to
           /\ \A k \in 1 .. Len(B) : Start(B, k) <= B[k].from /\ (k # 1 => Start(B, k) < B[k].from)
           /\ \A l \in 1 .. Len(B) + 1 : Window.from <= Start(B, l) /\ Finish(B, l) <= Window.to
<1> DEFINE n == Len(B)
<1>1. n \in Nat
    BY LenProperties
<1>2. ASSUME NEW k \in 1 .. n
      PROVE  /\ B[k].from \in Nat /\ B[k].to \in Nat /\ B[k].from < B[k].to
             /\ Window.from <= B[k].from /\ B[k].from < Window.to
    BY ElementOfSeq, Ends DEF Separated, NonEmpty, InWindow
<1> HIDE DEF n
<1>3. ASSUME NEW k \in 1 .. n PROVE Finish(B, k) = B[k].from /\ Start(B, k + 1) = B[k].to
  <2>1. k # n + 1 /\ k + 1 # 1 /\ (k + 1) - 1 = k
      BY <1>1
  <2> QED  BY <2>1 DEF Finish, Start, n
<1>4. ASSUME NEW l \in 1 .. n + 1
      PROVE  /\ l = 1 => Start(B, l) = Window.from
             /\ l # 1 => l - 1 \in 1 .. n /\ l - 1 < l /\ Start(B, l) = B[l - 1].to
             /\ l = n + 1 => Finish(B, l) = Window.to
             /\ l # n + 1 => l \in 1 .. n /\ Finish(B, l) = B[l].from
    BY <1>1 DEF Start, Finish, n
<1>5. ASSUME NEW l \in 1 .. n + 1 PROVE Start(B, l) \in Nat /\ Finish(B, l) \in Nat
    BY <1>2, <1>4, TheWindow
<1>6. ASSUME NEW k \in 1 .. n
      PROVE  Start(B, k) <= B[k].from /\ (k # 1 => Start(B, k) < B[k].from)
  <2>1. k \in 1 .. n + 1
      BY <1>1
  <2>2. CASE k = 1
      BY <1>2, <1>4, <2>1, <2>2
  <2>3. CASE k # 1
    <3>1. k - 1 \in 1 .. n /\ k - 1 < k /\ Start(B, k) = B[k - 1].to
        BY <1>4, <2>1, <2>3
    <3>2. B[k - 1].to < B[k].from
        BY <3>1 DEF Separated, n
    <3>3. B[k - 1].to \in Nat /\ B[k].from \in Nat
        BY <1>2, <3>1
    <3> QED  BY <3>1, <3>2, <3>3
  <2> QED  BY <2>2, <2>3
<1>7. ASSUME NEW l \in 1 .. n + 1 PROVE Window.from <= Start(B, l) /\ Finish(B, l) <= Window.to
  <2>1. Window.from <= Start(B, l)
    <3>1. CASE l = 1
        BY <1>4, <3>1, TheWindow
    <3>2. CASE l # 1
      <4>1. l - 1 \in 1 .. n /\ Start(B, l) = B[l - 1].to
          BY <1>4, <3>2
      <4>2. /\ B[l - 1].from \in Nat /\ B[l - 1].to \in Nat /\ B[l - 1].from < B[l - 1].to
            /\ Window.from <= B[l - 1].from
          BY <1>2, <4>1
      <4> QED  BY <4>1, <4>2, TheWindow
    <3> QED  BY <3>1, <3>2
  <2>2. Finish(B, l) <= Window.to
      BY <1>2, <1>4, TheWindow
  <2> QED  BY <2>1, <2>2
<1> QED  BY <1>1, <1>2, <1>3, <1>5, <1>6, <1>7 DEF n

(* Appending a gap that is after the others.                                *)
LEMMA AppendGap ==
    ASSUME NEW gaps \in Seq(Interval), NEW from \in Nat, NEW to \in Nat, NEW minGap \in Nat,
           Ordered(gaps), \A m \in 1 .. Len(gaps) : gaps[m].to < from,
           NEW new, new = WithGap(gaps, from, to, minGap)
    PROVE  /\ new \in Seq(Interval) /\ Ordered(new)
           /\ Range(new) = Range(gaps) \cup
                 {g \in {[from |-> from, to |-> to]} : from + minGap <= to}
           /\ \A c \in Nat : from <= c /\ to < c => \A m \in 1 .. Len(new) : new[m].to < c
<1> DEFINE g == [from |-> from, to |-> to]
           n == Len(gaps)
<1>1. g \in Interval /\ g.from = from /\ g.to = to
    BY DEF Interval
<1>2. /\ n \in Nat /\ \A m \in 1 .. n : gaps[m].to \in Nat /\ gaps[m].from \in Nat
    BY LenProperties, ElementOfSeq, Ends
<1>3. CASE from + minGap <= to
  <2>3. new = Append(gaps, g)
      BY <1>3 DEF WithGap
  <2> HIDE DEF g
  <2>1. /\ new \in Seq(Interval) /\ Len(new) = n + 1 /\ new[n + 1] = g
        /\ \A m \in 1 .. n : new[m] = gaps[m]
      BY <1>1, <2>3, AppendProperties
  <2>2. Range(new) = Range(gaps) \cup {g}
      BY <1>1, <2>3, AppendRange
  <2>4. \A m \in 1 .. n + 1 : m \in 1 .. n \/ m = n + 1
      BY <1>2
  <2>5. Ordered(new)
    <3> SUFFICES ASSUME NEW k \in 1 .. n + 1, NEW l \in 1 .. n + 1, k < l
                 PROVE  new[k].to < new[l].from
        BY <2>1 DEF Ordered
    <3>1. k \in 1 .. n
        BY <1>2
    <3>2. CASE l \in 1 .. n
        BY <2>1, <3>1, <3>2 DEF Ordered
    <3>3. CASE l = n + 1
        BY <1>1, <2>1, <3>1, <3>3
    <3> QED  BY <2>4, <3>2, <3>3
  <2>6. ASSUME NEW c \in Nat, from <= c, to < c, NEW m \in 1 .. n + 1 PROVE new[m].to < c
    <3>1. CASE m \in 1 .. n
        BY <1>2, <2>1, <2>6, <3>1
    <3>2. CASE m = n + 1
        BY <1>1, <2>1, <2>6, <3>2
    <3> QED  BY <2>4, <3>1, <3>2
  <2>7. {h \in {g} : from + minGap <= to} = {g}
      BY <1>3
  <2> QED  BY <2>1, <2>2, <2>5, <2>6, <2>7 DEF g
<1>4. CASE ~(from + minGap <= to)
  <2>1. new = gaps
      BY <1>4 DEF WithGap
  <2>2. ASSUME NEW c \in Nat, from <= c, to < c, NEW m \in 1 .. n PROVE gaps[m].to < c
      BY <1>2, <2>2
  <2> QED  BY <1>4, <2>1, <2>2
<1> QED  BY <1>3, <1>4

LEMMA ShownNext ==
    ASSUME NEW B \in Seq(Interval), NEW k \in 0 .. Len(B), NEW minGap \in Nat
    PROVE  Shown(B, k + 1, minGap) = Shown(B, k, minGap) \cup
              {g \in {GapAt(B, k + 1)} : Start(B, k + 1) + minGap <= Finish(B, k + 1)}
<1>1. 1 .. k + 1 = (1 .. k) \cup {k + 1}
    BY LenProperties
<1> QED  BY <1>1 DEF Shown

LEMMA PassBlock ==
    ASSUME NEW B \in Seq(Interval), Separated(B), InWindow(B), NEW minGap \in Nat \ {0},
           NEW k \in 0 .. Len(B), k < Len(B), NEW done \in Progress, Passed(done, B, k, minGap)
    PROVE  Passed(Pass(done, B[k + 1], minGap), B, k + 1, minGap)
<1> DEFINE l == k + 1
           b == B[l]
<1>1. /\ l \in 1 .. Len(B) /\ l \in 1 .. Len(B) + 1 /\ Len(B) \in Nat
      /\ b.from \in Nat /\ b.to \in Nat /\ b.from < b.to /\ b.from < Window.to
      /\ Start(B, l) \in Nat /\ Finish(B, l) = b.from /\ Start(B, l + 1) = b.to
      /\ Start(B, l) <= b.from
    BY TimeLine
<1>2. /\ done.gaps \in Seq(Interval) /\ done.cursor = Start(B, l)
      /\ Range(done.gaps) = Shown(B, k, minGap) /\ Ordered(done.gaps)
      /\ \A m \in 1 .. Len(done.gaps) : done.gaps[m].to < done.cursor
    BY DEF Passed, Progress
<1>3. Shown(B, l, minGap) = Shown(B, k, minGap) \cup
         {g \in {GapAt(B, l)} : Start(B, l) + minGap <= Finish(B, l)}
    BY ShownNext
<1>4. GapAt(B, l) = [from |-> done.cursor, to |-> b.from]
    BY <1>1, <1>2 DEF GapAt
<1> HIDE DEF b
<1> DEFINE new == IF b.from > done.cursor
                  THEN WithGap(done.gaps, done.cursor, b.from, minGap) ELSE done.gaps
<1>5. Pass(done, b, minGap) = [gaps |-> new, cursor |-> b.to]
  <2>1. ~(done.cursor >= Window.to)
      BY <1>1, <1>2, TheWindow
  <2>2. Earlier(b.from, Window.to) = b.from /\ Later(done.cursor, b.to) = b.to
      BY <1>1, <1>2 DEF Earlier, Later
  <2> QED  BY <2>1, <2>2 DEF Pass
<1>6. /\ Ordered(new) /\ Range(new) = Shown(B, l, minGap)
      /\ \A m \in 1 .. Len(new) : new[m].to < b.to
  <2>1. CASE b.from > done.cursor
    <3>1. new = WithGap(done.gaps, done.cursor, b.from, minGap)
        BY <2>1
    <3>2. done.cursor \in Nat /\ minGap \in Nat /\ done.cursor <= b.to
        BY <1>1, <1>2
    <3> DEFINE gaps == done.gaps
               from == done.cursor
               to == b.from
    <3>3. /\ gaps \in Seq(Interval) /\ from \in Nat /\ to \in Nat /\ minGap \in Nat
          /\ Ordered(gaps) /\ \A m \in 1 .. Len(gaps) : gaps[m].to < from
        BY <1>1, <1>2
    <3>4. new = WithGap(gaps, from, to, minGap)
        BY <3>1
    <3> HIDE DEF new, gaps, from, to
    <3>5. /\ Ordered(new)
          /\ Range(new) = Range(gaps) \cup
                {g \in {[from |-> from, to |-> to]} : from + minGap <= to}
          /\ \A c \in Nat : from <= c /\ to < c => \A m \in 1 .. Len(new) : new[m].to < c
        BY <3>3, <3>4, AppendGap
    <3> QED  BY <1>1, <1>2, <1>3, <1>4, <3>2, <3>5 DEF gaps, from, to
  <2>2. CASE ~(b.from > done.cursor)
    <3>1. ~(Start(B, l) + minGap <= Finish(B, l))
        BY <1>1, <1>2, <2>2
    <3>2. Shown(B, l, minGap) = Shown(B, k, minGap)
        BY <1>3, <3>1
    <3>3. ASSUME NEW m \in 1 .. Len(done.gaps) PROVE done.gaps[m].to < b.to
      <4>1. done.gaps[m].to \in Nat /\ done.gaps[m].to < done.cursor
          BY <1>2, ElementOfSeq, Ends
      <4> QED  BY <1>1, <1>2, <4>1
    <3> QED  BY <1>2, <2>2, <3>2, <3>3
  <2> QED  BY <2>1, <2>2
<1> HIDE DEF new
<1> QED  BY <1>1, <1>5, <1>6 DEF Passed, b

(* The gaps that are long enough, in order.                                 *)
LEMMA InvertedGaps ==
    ASSUME NEW B \in Seq(Interval), Separated(B), InWindow(B), NEW minGap \in Nat \ {0}
    PROVE  /\ Range(Inverted(B, minGap)) = Shown(B, Len(B) + 1, minGap)
           /\ Ordered(Inverted(B, minGap)) /\ Inverted(B, minGap) \in Seq(Interval)
<1> DEFINE first == [gaps |-> <<>>, cursor |-> Window.from]
           last == FoldLeft(LAMBDA d, b : Pass(d, b, minGap), first, B)
<1>1. PICK f \in [0 .. Len(B) -> Progress] :
         /\ f[0] = first /\ f[Len(B)] = last
         /\ \A k \in 0 .. Len(B) : k < Len(B) => f[k + 1] = Pass(f[k], B[k + 1], minGap)
  <2>1. minGap \in Nat
      OBVIOUS
  <2> QED  BY <2>1, PassRun
<1>2. Inverted(B, minGap) = WithGap(last.gaps, last.cursor, Window.to, minGap)
    BY DEF Inverted
<1> HIDE DEF last
<1>3. Len(B) \in Nat /\ Len(B) \in 0 .. Len(B) /\ 0 \in 0 .. Len(B)
    BY LenProperties
<1> DEFINE S == {k \in 0 .. Len(B) : Passed(f[k], B, k, minGap)}
<1>4. 0 \in S
  <2>1. Start(B, 1) = Window.from /\ Shown(B, 0, minGap) = {}
      BY DEF Start, Shown
  <2>2. first.cursor = Start(B, 0 + 1) /\ first.gaps = <<>> /\ 1 .. Len(first.gaps) = {}
      BY <2>1, EmptyRange
  <2> HIDE DEF first
  <2>3. Range(first.gaps) = Shown(B, 0, minGap)
      BY <2>1, <2>2, EmptyRange
  <2>4. Ordered(first.gaps) /\ \A m \in 1 .. Len(first.gaps) : first.gaps[m].to < first.cursor
      BY <2>2 DEF Ordered
  <2>5. Passed(first, B, 0, minGap)
      BY <2>2, <2>3, <2>4 DEF Passed
  <2> QED  BY <1>1, <1>3, <2>5
<1>5. ASSUME NEW k \in 0 .. Len(B), k < Len(B), k \in S PROVE k + 1 \in S
  <2>1. f[k] \in Progress /\ f[k + 1] = Pass(f[k], B[k + 1], minGap) /\ Passed(f[k], B, k, minGap)
      BY <1>1, <1>5
  <2>2. Passed(Pass(f[k], B[k + 1], minGap), B, k + 1, minGap)
      BY <1>5, <2>1, PassBlock
  <2>3. k + 1 \in 0 .. Len(B)
      BY <1>3, <1>5
  <2> QED  BY <2>1, <2>2, <2>3
<1>6. \A k \in 0 .. Len(B) : k \in S
  <2> HIDE DEF S
  <2> QED  BY <1>3, <1>4, <1>5, Induction
<1>7. last \in Progress /\ Passed(last, B, Len(B), minGap)
    BY <1>1, <1>3, <1>6
<1> DEFINE l == Len(B) + 1
<1>8. /\ l \in 1 .. Len(B) + 1 /\ Start(B, l) \in Nat /\ Finish(B, l) = Window.to
      /\ last.gaps \in Seq(Interval) /\ last.cursor = Start(B, l)
      /\ Range(last.gaps) = Shown(B, Len(B), minGap) /\ Ordered(last.gaps)
      /\ \A m \in 1 .. Len(last.gaps) : last.gaps[m].to < last.cursor
    BY <1>3, <1>7, TimeLine DEF Passed, Progress, Finish
<1>9. /\ Inverted(B, minGap) \in Seq(Interval) /\ Ordered(Inverted(B, minGap))
      /\ Range(Inverted(B, minGap)) = Range(last.gaps) \cup
            {g \in {[from |-> last.cursor, to |-> Window.to]} : last.cursor + minGap <= Window.to}
  <2> DEFINE gaps == last.gaps
             from == last.cursor
             to == Window.to
             new == Inverted(B, minGap)
  <2>1. /\ gaps \in Seq(Interval) /\ from \in Nat /\ to \in Nat /\ minGap \in Nat
        /\ Ordered(gaps) /\ \A m \in 1 .. Len(gaps) : gaps[m].to < from
      BY <1>8, TheWindow
  <2>2. new = WithGap(gaps, from, to, minGap)
      BY <1>2
  <2> HIDE DEF new, gaps, from, to
  <2>3. /\ new \in Seq(Interval) /\ Ordered(new)
        /\ Range(new) = Range(gaps) \cup
              {g \in {[from |-> from, to |-> to]} : from + minGap <= to}
      BY <2>1, <2>2, AppendGap
  <2> QED  BY <2>3 DEF new, gaps, from, to
<1>10. GapAt(B, l) = [from |-> last.cursor, to |-> Window.to]
    BY <1>8 DEF GapAt
<1>11. Shown(B, l, minGap) = Shown(B, Len(B), minGap) \cup
         {g \in {GapAt(B, l)} : Start(B, l) + minGap <= Finish(B, l)}
    BY <1>3, ShownNext
<1> QED  BY <1>8, <1>9, <1>10, <1>11

-----------------------------------------------------------------------------
(* Free time, in terms of the blocks.                                      *)

\* What keeps the host of a calendar busy.
HostItems(buffer) == {Trailing(i, buffer) : i \in Kept(Busy)}

HostBlocks(buffer) == Merged(Expanded(ClippedToWindow(calendar), buffer))

LEMMA HostBlocksAre ==
    ASSUME calendar \in Seq(Interval), NEW buffer \in Nat
    PROVE  /\ HostBlocks(buffer) \in Seq(Interval)
           /\ Separated(HostBlocks(buffer)) /\ InWindow(HostBlocks(buffer))
           /\ \A slot \in Interval : NonEmpty(slot) =>
                 (HostFree(slot, Busy, buffer, Window) <=>
                     Within(slot, Window) /\ ~Meets(slot, HostBlocks(buffer)))
<1> DEFINE B == HostBlocks(buffer)
           I == HostItems(buffer)
           s == Expanded(ClippedToWindow(calendar), buffer)
<1>1. s \in Seq(Interval) /\ Range(s) = I
    BY ClippedItems, ExpandedItems DEF HostItems, Busy
<1>2. B = Merged(s)
    BY DEF HostBlocks
<1> HIDE DEF s, I, B
<1>3. B \in Seq(Interval) /\ Blocks(B, I)
    BY <1>1, <1>2, MergedItems
<1>4. \A j \in Busy : j \in Interval
    BY RangeOf DEF Busy
<1>5. ASSUME NEW i \in I
      PROVE  NonEmpty(i) /\ Window.from <= i.from /\ i.from < Window.to
  <2>1. PICK j \in Busy : i = Trailing(Clipped(j, Window), buffer) /\ NonEmpty(Clipped(j, Window))
      BY DEF I, HostItems, Kept
  <2> DEFINE c == Clipped(j, Window)
  <2>2. /\ c.from = Later(j.from, Window.from) /\ c.to = Earlier(j.to, Window.to)
        /\ c = [from |-> c.from, to |-> c.to]
      BY DEF Clipped
  <2>3. j.from \in Nat /\ j.to \in Nat
      BY <1>4, Ends
  <2>4. c.from \in Nat /\ c.to \in Nat /\ Window.from <= c.from /\ c.to <= Window.to
      BY <2>2, <2>3, TheWindow DEF Later, Earlier
  <2>5. c.from < c.to
      BY <2>1 DEF NonEmpty
  <2> HIDE DEF c
  <2>6. Trailing(c, buffer).from = c.from /\ Trailing(c, buffer).to = c.to + buffer
      BY <2>2 DEF Trailing
  <2>7. i = Trailing(c, buffer)
      BY <2>1 DEF c
  <2> QED  BY <2>4, <2>5, <2>6, <2>7, TheWindow DEF NonEmpty
<1>6. Separated(B)
    BY <1>3, <1>5 DEF Blocks
<1>7. InWindow(B)
  <2> SUFFICES ASSUME NEW k \in 1 .. Len(B) PROVE Window.from <= B[k].from /\ B[k].from < Window.to
      BY DEF InWindow
  <2>1. PICK i \in I : B[k].from = i.from
      BY <1>3 DEF Blocks
  <2> QED  BY <1>5, <2>1
<1>8. ASSUME NEW slot \in Interval, NonEmpty(slot)
      PROVE  HostFree(slot, Busy, buffer, Window) <=> Within(slot, Window) /\ ~Meets(slot, B)
  <2>1. Meets(slot, B) <=> \E i \in I : Overlap(slot, i)
      BY <1>3, <1>8 DEF Blocks
  <2>2. ClearOf(slot, Kept(Busy), buffer) <=> ~\E i \in I : Overlap(slot, i)
      BY DEF ClearOf, I, HostItems
  <2> QED  BY <2>1, <2>2 DEF HostFree, Kept
<1> QED  BY <1>3, <1>6, <1>7, <1>8 DEF B

FreeAmong(B, g) == NonEmpty(g) /\ Within(g, Window) /\ ~Meets(g, B)

(* The time between two blocks is free.                                     *)
LEMMA GapIsFree ==
    ASSUME NEW B \in Seq(Interval), Separated(B), InWindow(B), NEW l \in 1 .. Len(B) + 1,
           Start(B, l) < Finish(B, l)
    PROVE  FreeAmong(B, GapAt(B, l)) /\ GapAt(B, l) \in Interval
<1> DEFINE g == GapAt(B, l)
<1>1. /\ Len(B) \in Nat /\ Start(B, l) \in Nat /\ Finish(B, l) \in Nat
      /\ Window.from <= Start(B, l) /\ Finish(B, l) <= Window.to
    BY TimeLine
<1>2. g.from = Start(B, l) /\ g.to = Finish(B, l)
    BY DEF GapAt
<1>3. g \in Interval
    BY <1>1 DEF GapAt, Interval
<1> HIDE DEF g
<1>4. ASSUME NEW k \in 1 .. Len(B), Overlap(g, B[k]) PROVE FALSE
  <2>1. B[k].from \in Nat /\ B[k].to \in Nat /\ B[k].from < B[k].to
      BY TimeLine
  <2>2. g.from < B[k].to /\ g.to > B[k].from
      BY <1>4 DEF Overlap
  <2>3. CASE k < l
    <3>1. l - 1 \in 1 .. Len(B) /\ (l - 1) + 1 = l
        BY <1>1, <2>3
    <3>2. Start(B, l) = B[l - 1].to /\ B[l - 1].to \in Nat /\ B[l - 1].from \in Nat
                                    /\ B[l - 1].from < B[l - 1].to
        BY <3>1, TimeLine
    <3>3. k < l - 1 => B[k].to < B[l - 1].from
        BY <3>1 DEF Separated
    <3>4. k < l - 1 \/ k = l - 1
        BY <1>1, <2>3
    <3> QED  BY <1>2, <2>1, <2>2, <3>2, <3>3, <3>4
  <2>4. CASE l <= k
    <3>1. l \in 1 .. Len(B)
        BY <1>1, <2>4
    <3>2. Finish(B, l) = B[l].from /\ B[l].from \in Nat /\ B[l].to \in Nat /\ B[l].from < B[l].to
        BY <3>1, TimeLine
    <3>3. l < k => B[l].to < B[k].from
        BY <3>1 DEF Separated
    <3>4. l < k \/ l = k
        BY <2>4
    <3> QED  BY <1>2, <2>1, <2>2, <3>2, <3>3, <3>4
  <2> QED  BY <1>1, <2>3, <2>4
<1>5. ~Meets(g, B)
    BY <1>4 DEF Meets
<1> QED  BY <1>1, <1>2, <1>3, <1>5 DEF FreeAmong, NonEmpty, Within, g

(* Free time is between two blocks.                                         *)
LEMMA FreeIsInGap ==
    ASSUME NEW B \in Seq(Interval), Separated(B), InWindow(B), NEW g \in Interval, FreeAmong(B, g)
    PROVE  \E l \in 1 .. Len(B) + 1 : Within(g, GapAt(B, l)) /\ Start(B, l) < Finish(B, l)
<1> DEFINE n == Len(B)
           T == {k \in 1 .. n + 1 : k = n + 1 \/ B[k].from >= g.to}
<1>1. /\ n \in Nat /\ g.from \in Nat /\ g.to \in Nat /\ g.from < g.to
      /\ Window.from <= g.from /\ g.to <= Window.to
    BY LenProperties, Ends DEF FreeAmong, NonEmpty, Within
<1>2. T \in SUBSET Nat /\ T # {}
  <2>1. n + 1 \in T
      BY <1>1
  <2> QED  BY <2>1
<1>3. PICK l \in T : \A k \in T : l <= k
  <2> HIDE DEF T
  <2> QED  BY <1>2, LeastNumber
<1>4. l \in 1 .. n + 1
    OBVIOUS
<1>5. Start(B, l) \in Nat /\ Finish(B, l) \in Nat
    BY <1>4, TimeLine
<1>6. g.to <= Finish(B, l)
  <2>1. CASE l = n + 1
      BY <1>1, <2>1 DEF Finish
  <2>2. CASE l # n + 1
    <3>1. l \in 1 .. n /\ B[l].from >= g.to
        BY <1>1, <1>3, <2>2
    <3>2. Finish(B, l) = B[l].from
        BY <3>1, TimeLine
    <3> QED  BY <1>1, <1>5, <3>1, <3>2
  <2> QED  BY <2>1, <2>2
<1>7. Start(B, l) <= g.from
  <2>1. CASE l = 1
      BY <1>1, <2>1 DEF Start
  <2>2. CASE l # 1
    <3> DEFINE k == l - 1
    <3>1. k \in 1 .. n /\ k \in 1 .. n + 1 /\ k # n + 1 /\ ~(l <= k) /\ k + 1 = l
        BY <1>1, <1>4, <2>2
    <3>2. ~(B[k].from >= g.to)
        BY <1>3, <3>1
    <3>3. B[k].from \in Nat /\ B[k].to \in Nat /\ Start(B, k + 1) = B[k].to
        BY <3>1, TimeLine
    <3>4. ~Overlap(g, B[k])
        BY <3>1 DEF FreeAmong, Meets
    <3>5. B[k].to <= g.from
        BY <1>1, <3>2, <3>3, <3>4 DEF Overlap
    <3> QED  BY <3>1, <3>3, <3>5
  <2> QED  BY <2>1, <2>2
<1>8. Within(g, GapAt(B, l)) /\ Start(B, l) < Finish(B, l)
    BY <1>1, <1>5, <1>6, <1>7 DEF Within, GapAt
<1> QED  BY <1>4, <1>8

(* No gap is within another.                                                *)
LEMMA GapsApart ==
    ASSUME NEW B \in Seq(Interval), Separated(B), InWindow(B),
           NEW l \in 1 .. Len(B) + 1, NEW m \in 1 .. Len(B) + 1,
           Start(B, l) < Finish(B, l), Within(GapAt(B, l), GapAt(B, m))
    PROVE  l = m
<1>1. /\ Len(B) \in Nat
      /\ Start(B, l) \in Nat /\ Finish(B, l) \in Nat /\ Start(B, m) \in Nat /\ Finish(B, m) \in Nat
    BY TimeLine
<1>2. Start(B, m) <= Start(B, l) /\ Finish(B, l) <= Finish(B, m)
    BY DEF Within, GapAt
<1>3. ASSUME NEW a \in 1 .. Len(B) + 1, NEW b \in 1 .. Len(B) + 1, a < b
      PROVE  Finish(B, a) < Start(B, b)
  <2>1. a \in 1 .. Len(B) /\ b - 1 \in 1 .. Len(B) /\ (b - 1) + 1 = b
      BY <1>1, <1>3
  <2>2. /\ Finish(B, a) = B[a].from /\ B[a].from \in Nat /\ B[a].to \in Nat /\ B[a].from < B[a].to
        /\ Start(B, b) = B[b - 1].to /\ B[b - 1].from \in Nat /\ B[b - 1].to \in Nat
        /\ B[b - 1].from < B[b - 1].to
      BY <2>1, TimeLine
  <2>3. a < b - 1 => B[a].to < B[b - 1].from
      BY <2>1 DEF Separated
  <2>4. a < b - 1 \/ a = b - 1
      BY <1>1, <1>3
  <2> QED  BY <2>2, <2>3, <2>4
<1>4. l < m => Finish(B, l) < Start(B, m)
    BY <1>3
<1>5. m < l => Finish(B, m) < Start(B, l)
    BY <1>3
<1>6. l < m \/ m < l \/ l = m
    BY <1>1
<1> QED  BY <1>1, <1>2, <1>4, <1>5, <1>6

LEMMA ShownGaps ==
    ASSUME calendar \in Seq(Interval), NEW buffer \in Nat, NEW minGap \in Nat \ {0}
    PROVE  /\ Range(FreeGaps(calendar, buffer, minGap)) =
                 Shown(HostBlocks(buffer), Len(HostBlocks(buffer)) + 1, minGap)
           /\ Ordered(FreeGaps(calendar, buffer, minGap))
           /\ FreeGaps(calendar, buffer, minGap) \in Seq(Interval)
<1> DEFINE B == HostBlocks(buffer)
<1>1. B \in Seq(Interval) /\ Separated(B) /\ InWindow(B)
    BY HostBlocksAre
<1>2. FreeGaps(calendar, buffer, minGap) = Inverted(B, minGap)
    BY DEF FreeGaps, HostBlocks
<1>3. /\ Range(Inverted(B, minGap)) = Shown(B, Len(B) + 1, minGap)
      /\ Ordered(Inverted(B, minGap)) /\ Inverted(B, minGap) \in Seq(Interval)
  <2> HIDE DEF B
  <2> QED  BY <1>1, InvertedGaps
<1> QED  BY <1>2, <1>3

-----------------------------------------------------------------------------
(* The properties.                                                         *)

LEMMA FreeTime ==
    ASSUME calendar \in Seq(Interval), NEW buffer \in Nat, NEW minGap \in Nat \ {0}
    PROVE  LET gaps == FreeGaps(calendar, buffer, minGap)
               Free(g) == NonEmpty(g) /\ HostFree(g, Busy, buffer, Window)
               free == {g \in [from : Window.from..Window.to, to : Window.from..Window.to] : Free(g)}
               longest == {g \in free : \A h \in free : Within(g, h) => g = h}
           IN  /\ Range(gaps) = {g \in longest : g.from + minGap <= g.to}
               /\ \A k, l \in DOMAIN gaps : k < l => gaps[k].to < gaps[l].from
<1> DEFINE gaps == FreeGaps(calendar, buffer, minGap)
           Times == [from : Window.from..Window.to, to : Window.from..Window.to]
           Free(g) == NonEmpty(g) /\ HostFree(g, Busy, buffer, Window)
           free == {g \in Times : Free(g)}
           longest == {g \in free : \A h \in free : Within(g, h) => g = h}
           B == HostBlocks(buffer)
           Gaps == 1 .. Len(B) + 1
<1>1. B \in Seq(Interval) /\ Separated(B) /\ InWindow(B)
    BY HostBlocksAre
<1>2. /\ Range(gaps) = {GapAt(B, l) : l \in {m \in Gaps : Start(B, m) + minGap <= Finish(B, m)}}
      /\ Ordered(gaps) /\ gaps \in Seq(Interval)
    BY ShownGaps DEF Shown
<1>3. Times \subseteq Interval
    BY TheWindow DEF Interval
<1>4. \A g \in Times : g \in free <=> FreeAmong(B, g)
    BY <1>3, HostBlocksAre DEF FreeAmong
<1>5. \A l \in Gaps : /\ Start(B, l) \in Nat /\ Finish(B, l) \in Nat
                      /\ GapAt(B, l).from = Start(B, l) /\ GapAt(B, l).to = Finish(B, l)
  <2> HIDE DEF B
  <2> QED  BY <1>1, TimeLine DEF GapAt
<1>6. ASSUME NEW l \in Gaps, Start(B, l) < Finish(B, l) PROVE GapAt(B, l) \in free
  <2> HIDE DEF B
  <2>1. FreeAmong(B, GapAt(B, l))
      BY <1>1, <1>6, GapIsFree
  <2>2. /\ Start(B, l) \in Window.from .. Window.to /\ Finish(B, l) \in Window.from .. Window.to
    <3>1. Window.from <= Start(B, l) /\ Finish(B, l) <= Window.to
        BY <1>1, TimeLine
    <3> QED  BY <1>5, <1>6, <3>1, TheWindow
  <2>3. GapAt(B, l) \in Times
      BY <2>2 DEF GapAt
  <2> QED  BY <1>4, <2>1, <2>3
<1>7. ASSUME NEW g \in free
      PROVE  \E l \in Gaps : Within(g, GapAt(B, l)) /\ Start(B, l) < Finish(B, l)
  <2>1. g \in Times /\ g \in Interval
      BY <1>3
  <2> HIDE DEF B, free, Times
  <2>2. FreeAmong(B, g)
      BY <1>4, <1>7, <2>1
  <2> QED  BY <1>1, <2>1, <2>2, FreeIsInGap
<1>8. \A l, m \in Gaps : Start(B, l) < Finish(B, l) /\ Within(GapAt(B, l), GapAt(B, m)) => l = m
  <2> HIDE DEF B
  <2> QED  BY <1>1, GapsApart
<1>9. \A g \in free : g = [from |-> g.from, to |-> g.to] /\ g.from \in Nat /\ g.to \in Nat
    BY TheWindow
<1> HIDE DEF B, free, Free, Times, gaps
\* A longest free time is a gap.
<1>10. ASSUME NEW g \in longest
       PROVE  \E l \in Gaps : g = GapAt(B, l) /\ Start(B, l) < Finish(B, l)
  <2>1. PICK l \in Gaps : Within(g, GapAt(B, l)) /\ Start(B, l) < Finish(B, l)
      BY <1>7
  <2>2. GapAt(B, l) \in free
      BY <1>6, <2>1
  <2> QED  BY <2>1, <2>2
\* A gap is a longest free time.
<1>11. ASSUME NEW l \in Gaps, Start(B, l) < Finish(B, l) PROVE GapAt(B, l) \in longest
  <2>1. GapAt(B, l) \in free
      BY <1>6, <1>11
  <2>2. ASSUME NEW h \in free, Within(GapAt(B, l), h) PROVE GapAt(B, l) = h
    <3>1. PICK m \in Gaps : Within(h, GapAt(B, m))
        BY <1>7
    <3>2. h.from \in Nat /\ h.to \in Nat
        BY <1>9
    <3>3. Within(GapAt(B, l), GapAt(B, m))
        BY <1>5, <2>2, <3>1, <3>2 DEF Within
    <3>4. l = m
        BY <1>8, <1>11, <3>3
    <3>5. h.from = GapAt(B, l).from /\ h.to = GapAt(B, l).to
        BY <1>5, <2>2, <3>1, <3>2, <3>4 DEF Within
    <3> QED  BY <1>9, <2>1, <3>5
  <2> QED  BY <2>1, <2>2
<1>12. Range(gaps) = {g \in longest : g.from + minGap <= g.to}
  <2>1. ASSUME NEW g \in Range(gaps) PROVE g \in longest /\ g.from + minGap <= g.to
    <3>1. PICK l \in Gaps : g = GapAt(B, l) /\ Start(B, l) + minGap <= Finish(B, l)
        BY <1>2
    <3>2. Start(B, l) < Finish(B, l)
        BY <1>5, <3>1
    <3>3. GapAt(B, l) \in longest
      <4> HIDE DEF longest
      <4> QED  BY <1>11, <3>2
    <3> HIDE DEF longest
    <3> QED  BY <1>5, <3>1, <3>3
  <2>2. ASSUME NEW g \in longest, g.from + minGap <= g.to PROVE g \in Range(gaps)
    <3> HIDE DEF longest
    <3>1. PICK l \in Gaps : g = GapAt(B, l) /\ Start(B, l) < Finish(B, l)
        BY <1>10
    <3>2. Start(B, l) + minGap <= Finish(B, l)
        BY <1>5, <2>2, <3>1
    <3> QED  BY <1>2, <3>1, <3>2
  <2> HIDE DEF longest
  <2> QED  BY <2>1, <2>2
<1>13. \A k, l \in DOMAIN gaps : k < l => gaps[k].to < gaps[l].from
    BY <1>2, LenProperties DEF Ordered
<1> QED  BY <1>12, <1>13 DEF gaps, longest, free, Free, Times

LEMMA HostCheck ==
    ASSUME calendar \in Seq(Interval), NEW buffer \in Nat, NEW slot \in Interval, NonEmpty(slot)
    PROVE  InsideHostFreeGaps(calendar, buffer, slot) <=> HostFree(slot, Busy, buffer, Window)
<1> DEFINE B == HostBlocks(buffer)
           gaps == FreeGaps(calendar, buffer, 1)
<1>1. B \in Seq(Interval) /\ Separated(B) /\ InWindow(B)
    BY HostBlocksAre
<1>2. Range(gaps) = {GapAt(B, l) : l \in {m \in 1 .. Len(B) + 1 : Start(B, m) + 1 <= Finish(B, m)}}
  <2>1. 1 \in Nat \ {0}
      OBVIOUS
  <2>2. Range(gaps) = Shown(B, Len(B) + 1, 1)
      BY <2>1, ShownGaps
  <2> QED  BY <2>2 DEF Shown
<1>3. HostFree(slot, Busy, buffer, Window) <=> FreeAmong(B, slot)
    BY HostBlocksAre DEF FreeAmong
<1> HIDE DEF B, gaps
<1>4. \A l \in 1 .. Len(B) + 1 : /\ Start(B, l) \in Nat /\ Finish(B, l) \in Nat
                                 /\ GapAt(B, l).from = Start(B, l) /\ GapAt(B, l).to = Finish(B, l)
    BY <1>1, TimeLine DEF GapAt
<1>5. slot.from \in Nat /\ slot.to \in Nat
    BY Ends
<1>6. ASSUME NEW gap \in Range(gaps), Within(slot, gap) PROVE FreeAmong(B, slot)
  <2>1. PICK l \in 1 .. Len(B) + 1 : gap = GapAt(B, l) /\ Start(B, l) + 1 <= Finish(B, l)
      BY <1>2
  <2>2. gap.from \in Nat /\ gap.to \in Nat /\ Start(B, l) < Finish(B, l)
      BY <1>4, <2>1
  <2>3. FreeAmong(B, gap)
      BY <1>1, <2>1, <2>2, GapIsFree
  <2>4. Within(slot, Window)
      BY <1>5, <1>6, <2>2, <2>3, TheWindow DEF FreeAmong, Within
  <2>5. ASSUME NEW k \in 1 .. Len(B), Overlap(slot, B[k]) PROVE FALSE
    <3>1. B[k].from \in Nat /\ B[k].to \in Nat
        BY <1>1, TimeLine
    <3>2. ~Overlap(gap, B[k])
        BY <2>3 DEF FreeAmong, Meets
    <3> QED  BY <1>5, <1>6, <2>2, <2>5, <3>1, <3>2 DEF Overlap, Within
  <2> QED  BY <2>4, <2>5 DEF FreeAmong, Meets
<1>7. ASSUME FreeAmong(B, slot) PROVE \E gap \in Range(gaps) : Within(slot, gap)
  <2>1. PICK l \in 1 .. Len(B) + 1 : Within(slot, GapAt(B, l)) /\ Start(B, l) < Finish(B, l)
      BY <1>1, <1>7, FreeIsInGap
  <2>2. Start(B, l) + 1 <= Finish(B, l)
      BY <1>4, <2>1
  <2> QED  BY <1>2, <2>1, <2>2
<1> QED  BY <1>3, <1>6, <1>7 DEF InsideHostFreeGaps, gaps

LEMMA GuestCheck ==
    ASSUME calendar \in Seq(Interval), NEW buffer \in Nat, NEW slot \in Interval, NonEmpty(slot)
    PROVE  GuestConflicts(calendar, buffer, slot) = {} <=> GuestFree(slot, Busy, buffer)
<1> DEFINE s == Expanded(calendar, buffer)
           B == Merged(s)
<1>1. s \in Seq(Interval) /\ Range(s) = {Trailing(i, buffer) : i \in Busy}
    BY ExpandedItems DEF Busy
<1> HIDE DEF s
<1>2. B \in Seq(Interval) /\ Blocks(B, Range(s))
    BY <1>1, MergedItems
<1>3. GuestConflicts(calendar, buffer, slot) = {b \in Range(B) : Overlap(slot, b)}
    BY DEF GuestConflicts, s
<1> HIDE DEF B
<1>4. Range(B) = {B[k] : k \in 1 .. Len(B)}
    BY <1>2, RangeOf
<1>5. {b \in Range(B) : Overlap(slot, b)} = {} <=> ~Meets(slot, B)
    BY <1>4 DEF Meets
<1>6. Meets(slot, B) <=> \E i \in Range(s) : Overlap(slot, i)
    BY <1>2 DEF Blocks
<1> QED  BY <1>1, <1>3, <1>5, <1>6 DEF GuestFree, ClearOf

HasIntervals == calendar \in Seq(Interval)

LEMMA CalendarType == Spec => []HasIntervals
<1>1. Init => HasIntervals
    BY EmptySeq DEF Init, HasIntervals
<1>2. HasIntervals /\ [Next]_calendar => HasIntervals'
    BY GapsAssumption, AppendProperties DEF Next, Add, HasIntervals
<1> QED  BY <1>1, <1>2, PTL DEF Spec

(* The gaps shown on a shared dancecard are exactly the longest stretches   *)
(* of its owner's free time, those that are long enough, in order, whatever *)
(* is on the calendar and in whatever order the queries return it           *)
(* (mergeIntervals, invertToFreeGaps).                                      *)
THEOREM DancecardGapsAreTheFreeTime == Spec => []GapsAreTheFreeTime
<1>1. HasIntervals => GapsAreTheFreeTime
  <2> SUFFICES ASSUME calendar \in Seq(Interval) PROVE GapsAreTheFreeTime
      BY DEF HasIntervals
  <2>1. \A buffer \in Buffers, minGap \in MinGaps : buffer \in Nat /\ minGap \in Nat \ {0}
      BY GapsAssumption
  <2> QED  BY <2>1, FreeTime DEF GapsAreTheFreeTime
<1> QED  BY <1>1, CalendarType, PTL

(* The two calendar checks before every booking write decide exactly what   *)
(* they are meant to: merging, clipping and inverting hide no conflict and  *)
(* make none up, for every calendar, recovery time and proposal             *)
(* (intervalInsideHostFreeGaps, guestCalendarConflict).                     *)
THEOREM DancecardChecksAreExact == Spec => []ChecksAreExact
<1>1. HasIntervals => ChecksAreExact
  <2> SUFFICES ASSUME calendar \in Seq(Interval), NEW buffer \in Buffers, NEW slot \in Proposals
               PROVE  /\ InsideHostFreeGaps(calendar, buffer, slot) <=>
                            HostFree(slot, Busy, buffer, Window)
                      /\ GuestConflicts(calendar, buffer, slot) = {} <=>
                            GuestFree(slot, Busy, buffer)
      BY DEF ChecksAreExact, HasIntervals
  <2>1. buffer \in Nat /\ slot \in Interval /\ NonEmpty(slot)
      BY GapsAssumption
  <2> QED  BY <2>1, HostCheck, GuestCheck
<1> QED  BY <1>1, CalendarType, PTL
=============================================================================
