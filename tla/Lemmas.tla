------------------------------- MODULE Lemmas -------------------------------
(***************************************************************************)
(* Facts about the operators that several models are built from: walks     *)
(* along a bucket, what is picked out of a list, and sequences laid end to *)
(* end; with the induction and the recursion that these need.              *)
(***************************************************************************)
EXTENDS BucketChain, Sublist, SequencesExt, FiniteSetTheorems,
        SequenceTheorems, TLAPS

-----------------------------------------------------------------------------
(***************************************************************************)
(* Where a walk along a bucket stops: when it takes no step, or one, and   *)
(* when a record it does not come to, or one in front of it, changes.      *)
(***************************************************************************)

(***************************************************************************)
(* A walk that starts at an address the loop does not step past stops      *)
(* there: client_nickname_hashtable_find returns the head of the bucket.   *)
(***************************************************************************)
LEMMA WalkStopsAtOnce ==
    ASSUME NEW start, NEW next, NEW Past, start \notin Past
    PROVE  WalkEnds(start, next, Past) = {start}
<1> DEFINE U == {start} \cup {next[q] : q \in Past}
<1>1. Walked(start, next, Past) \subseteq {start}
  <2> SUFFICES ASSUME NEW p \in U,
                      \A S \in SUBSET U :
                         (start \in S /\ \A q \in S \cap Past : next[q] \in S)
                            => p \in S
               PROVE  p = start
    BY DEF Walked
  <2>1. {start} \in SUBSET U /\ start \in {start}
    OBVIOUS
  <2>2. \A q \in {start} \cap Past : next[q] \in {start}
    OBVIOUS
  <2> HIDE DEF U
  <2> QED BY <2>1, <2>2
<1>2. start \in Walked(start, next, Past)
  BY DEF Walked
<1> QED BY <1>1, <1>2 DEF WalkEnds

(***************************************************************************)
(* A walk that steps past the head of the bucket and not past the next     *)
(* address stops at that next address.                                     *)
(***************************************************************************)
LEMMA WalkStopsAtNext ==
    ASSUME NEW start, NEW next, NEW Past,
           start \in Past, next[start] \notin Past
    PROVE  WalkEnds(start, next, Past) = {next[start]}
<1> DEFINE U == {start} \cup {next[q] : q \in Past}
           T == {start, next[start]}
<1>1. Walked(start, next, Past) \subseteq T
  <2> SUFFICES ASSUME NEW p \in U,
                      \A S \in SUBSET U :
                         (start \in S /\ \A q \in S \cap Past : next[q] \in S)
                            => p \in S
               PROVE  p \in T
    BY DEF Walked
  <2>1. T \in SUBSET U /\ start \in T
    OBVIOUS
  <2>2. \A q \in T \cap Past : next[q] \in T
    OBVIOUS
  <2> HIDE DEF U, T
  <2> QED BY <2>1, <2>2
<1>2. next[start] \in Walked(start, next, Past)
  <2>1. next[start] \in U
    OBVIOUS
  <2>2. ASSUME NEW S \in SUBSET U,
               start \in S, \A q \in S \cap Past : next[q] \in S
        PROVE  next[start] \in S
    BY <2>2
  <2> QED BY <2>1, <2>2 DEF Walked
<1> QED BY <1>1, <1>2 DEF WalkEnds

-----------------------------------------------------------------------------
(***************************************************************************)
(* The addresses walked through are the least set that contains the start  *)
(* and, with a record to step past, the record behind it.                  *)
(***************************************************************************)
LEMMA WalkCloses ==
    ASSUME NEW start, NEW next, NEW Past
    PROVE  /\ start \in Walked(start, next, Past)
           /\ \A q \in Walked(start, next, Past) \cap Past :
                 next[q] \in Walked(start, next, Past)
BY DEF Walked

LEMMA WalkLeast ==
    ASSUME NEW start, NEW next, NEW Past, NEW S,
           start \in S, \A q \in S \cap Past : next[q] \in S
    PROVE  Walked(start, next, Past) \subseteq S
<1> DEFINE U == {start} \cup {next[q] : q \in Past}
<1>1. /\ S \cap U \in SUBSET U
      /\ start \in S \cap U
      /\ \A q \in (S \cap U) \cap Past : next[q] \in S \cap U
  OBVIOUS
<1> QED
  BY <1>1 DEF Walked

(***************************************************************************)
(* A walk that does not come to c takes no notice of what becomes of c.    *)
(***************************************************************************)
LEMMA WalkAway ==
    ASSUME NEW start, NEW next, NEW Past, NEW c, NEW next2, NEW Past2,
           c \notin Walked(start, next, Past),
           Past2 \ {c} = Past \ {c},
           \A q \in Past \ {c} : next2[q] = next[q]
    PROVE  WalkEnds(start, next2, Past2) = WalkEnds(start, next, Past)
<1> DEFINE W == Walked(start, next, Past)
           W2 == Walked(start, next2, Past2)
<1>1. W2 \subseteq W
  BY WalkCloses, WalkLeast
<1>2. W \subseteq W2
  <2>1. start \in W2 /\ \A q \in W2 \cap Past2 : next2[q] \in W2
    BY WalkCloses
  <2>2. \A q \in W2 \cap Past : next[q] \in W2
    BY <1>1, <2>1
  <2> QED
    BY <2>1, <2>2, WalkLeast
<1> QED
  BY <1>1, <1>2 DEF WalkEnds

\* A walk from a new record c in front of h goes on as the walk from h does.
LEMMA WalkInFront ==
    ASSUME NEW h, NEW next, NEW Past, NEW c, NEW next2, NEW Past2,
           c \notin Walked(h, next, Past), c \notin Past,
           Past2 = Past \cup {c}, next2[c] = h,
           \A q \in Past : next2[q] = next[q]
    PROVE  WalkEnds(c, next2, Past2) = WalkEnds(h, next, Past)
<1> DEFINE W == Walked(h, next, Past)
           W2 == Walked(c, next2, Past2)
           S == {c} \cup W
<1>1. W2 \subseteq S
  <2>1. h \in W /\ \A q \in W \cap Past : next[q] \in W
    BY WalkCloses
  <2>2. c \in S /\ \A q \in S \cap Past2 : next2[q] \in S
    BY <2>1
  <2> HIDE DEF S
  <2> QED
    BY <2>2, WalkLeast
<1>2. W \subseteq W2
  <2>1. c \in W2 /\ \A q \in W2 \cap Past2 : next2[q] \in W2
    BY WalkCloses
  <2>2. h \in W2 /\ \A q \in W2 \cap Past : next[q] \in W2
    BY <2>1
  <2> QED
    BY <2>2, WalkLeast
<1> QED
  BY <1>1, <1>2 DEF WalkEnds

-----------------------------------------------------------------------------
(***************************************************************************)
(* Induction over the natural numbers, for a set in place of a predicate.  *)
(* It rests on the order of the intervals by inclusion, well-founded for   *)
(* finite sets.                                                            *)
(***************************************************************************)
LEMMA LeastNatural ==
    ASSUME NEW T \in SUBSET Nat, T # {}
    PROVE  \E x \in T : \A y \in T : ~(y < x)
<1> DEFINE U == {1..n : n \in T}
<1>1. U # {} /\ \A X \in U : X \in SUBSET Nat /\ IsFiniteSet(X)
  <2>1. \A n \in T : 1..n \in SUBSET Nat /\ IsFiniteSet(1..n)
    BY FS_Interval
  <2> QED
    BY <2>1
<1>2. U \subseteq FiniteSubsetsOf(Nat)
  BY <1>1 DEF FiniteSubsetsOf
<1>3. PICK X \in U :
         \A Y \in U : ~(<<Y, X>> \in StrictSubsetOrdering(Nat))
  <2> HIDE DEF U
  <2> QED
    BY <1>1, <1>2, FS_StrictSubsetOrderingWellFounded, WFMin
<1>4. PICK x \in T :
         \A y \in T : ~(<<1..y, 1..x>> \in StrictSubsetOrdering(Nat))
  BY <1>3
<1>5. ASSUME NEW y \in T, y < x PROVE FALSE
  <2>1. 1..y \subseteq 1..x /\ 1..y # 1..x
    BY <1>5
  <2>2. 1..y \in SUBSET Nat /\ 1..x \in SUBSET Nat
    OBVIOUS
  <2> QED
    BY <1>4, <2>1, <2>2 DEF StrictSubsetOrdering
<1> QED
  BY <1>5

LEMMA Induction ==
    ASSUME NEW S, 0 \in S, \A n \in Nat : n \in S => n + 1 \in S
    PROVE  Nat \subseteq S
<1> SUFFICES ASSUME Nat \ S # {} PROVE FALSE
  OBVIOUS
<1>1. PICK x \in Nat \ S : \A y \in Nat \ S : ~(y < x)
  BY LeastNatural
<1>2. x # 0 /\ x - 1 \in Nat
  BY <1>1
<1>3. x - 1 \in S
  BY <1>1, <1>2
<1> QED
  BY <1>1, <1>2, <1>3

(***************************************************************************)
(* A function defined by recursion over the positions of a sequence is     *)
(* defined: step says what becomes of the value at each position.          *)
(***************************************************************************)
Recursive(F, n, V, first, step) ==
    /\ F \in [0..n -> V]
    /\ F[0] = first
    /\ \A i \in 1..n : F[i] = step[<<i, F[i - 1]>>]

LEMMA RecursionExists ==
    ASSUME NEW n \in Nat, NEW V, NEW first \in V,
           NEW step \in [(1..n) \X V -> V]
    PROVE  \E F : Recursive(F, n, V, first, step)
<1> DEFINE Step(g, i) == IF i = 0 THEN first ELSE step[<<i, g[i - 1]>>]
           Q(m) == \E g \in [0..m -> V] : g = [i \in 0..m |-> Step(g, i)]
           M == {m \in Nat : m <= n => Q(m)}
<1>1. 0 \in M
  <2> DEFINE g == [i \in 0..0 |-> first]
  <2>1. g \in [0..0 -> V] /\ g = [i \in 0..0 |-> Step(g, i)]
    OBVIOUS
  <2> QED
    BY <2>1
<1>2. ASSUME NEW m \in Nat, m \in M PROVE m + 1 \in M
  <2> SUFFICES ASSUME m + 1 <= n PROVE Q(m + 1)
    OBVIOUS
  <2>1. PICK g \in [0..m -> V] : g = [i \in 0..m |-> Step(g, i)]
    BY <1>2
  <2> DEFINE h == [i \in 0..(m + 1) |-> IF i = m + 1 THEN Step(g, i)
                                                     ELSE g[i]]
  <2>2. h \in [0..(m + 1) -> V]
    <3>1. Step(g, m + 1) \in V
      <4>1. m + 1 # 0 /\ m + 1 \in 1..n /\ (m + 1) - 1 = m /\ g[m] \in V
        BY <2>1
      <4>2. <<m + 1, g[m]>> \in (1..n) \X V
        BY <4>1
      <4> QED
        BY <4>1, <4>2
    <3>2. \A i \in 0..(m + 1) : i # m + 1 => g[i] \in V
      BY <2>1
    <3> HIDE DEF Step
    <3> QED
      BY <3>1, <3>2
  <2>3. ASSUME NEW i \in 0..(m + 1) PROVE h[i] = Step(h, i)
    <3>1. CASE i = 0
      BY <2>1, <3>1
    <3>2. CASE i # 0
      <4>1. i - 1 \in 0..m /\ h[i - 1] = g[i - 1]
        BY <3>2
      <4>2. CASE i = m + 1
        BY <3>2, <4>1, <4>2
      <4>3. CASE i # m + 1
        <5>1. i \in 0..m /\ h[i] = g[i]
          BY <4>3
        <5>2. g[i] = Step(g, i)
          BY <2>1, <5>1
        <5> QED
          BY <3>2, <4>1, <5>1, <5>2
      <4> QED
        BY <4>2, <4>3
    <3> QED
      BY <3>1, <3>2
  <2>4. h = [i \in 0..(m + 1) |-> Step(h, i)]
    BY <2>3
  <2> HIDE DEF h, Step
  <2> QED
    BY <2>2, <2>4
<1> HIDE DEF M
<1>3. n \in M
  BY <1>1, <1>2, Induction
<1>4. PICK F \in [0..n -> V] : F = [i \in 0..n |-> Step(F, i)]
  BY <1>3 DEF M
<1>5. F[0] = first
  BY <1>4
<1>6. \A i \in 1..n : F[i] = step[<<i, F[i - 1]>>]
  <2> SUFFICES ASSUME NEW i \in 1..n PROVE F[i] = step[<<i, F[i - 1]>>]
    OBVIOUS
  <2>1. i \in 0..n /\ i # 0
    OBVIOUS
  <2>2. F[i] = Step(F, i)
    BY <1>4, <2>1
  <2> QED
    BY <2>1, <2>2
<1> QED
  BY <1>5, <1>6 DEF Recursive

-----------------------------------------------------------------------------
(***************************************************************************)
(* What a walk along a list picks out of it, position by position          *)
(***************************************************************************)
PickedAt(F, s, S, T) ==
    /\ F \in [0..Len(s) -> Seq(T \cap S)]
    /\ F[0] = <<>>
    /\ \A i \in 1..Len(s) :
          F[i] = IF s[i] \in S THEN Append(F[i - 1], s[i]) ELSE F[i - 1]

LEMMA AmongPicked ==
    ASSUME NEW T, NEW s \in Seq(T), NEW S
    PROVE  \E F : PickedAt(F, s, S, T) /\ Among(s, S) = F[Len(s)]
<1> DEFINE n == Len(s)
           V == Seq(T \cap S)
           Picked(i, g) == IF s[i] \in S THEN Append(g, s[i]) ELSE g
           step == [p \in (1..n) \X V |-> Picked(p[1], p[2])]
<1>1. n \in Nat /\ \A i \in 1..n : s[i] \in T
  BY LenProperties
<1>2. <<>> \in V
  BY EmptySeq
<1>3. \A i \in 1..n : \A g \in V : Picked(i, g) \in V
  BY <1>1, AppendProperties
<1>4. /\ step \in [(1..n) \X V -> V]
      /\ \A i \in 1..n : \A g \in V : step[<<i, g>>] = Picked(i, g)
  <2> HIDE DEF Picked, V, n
  <2> QED
    BY <1>3
<1> HIDE DEF n, V, step, Picked
<1>5. PICK F \in [0..n -> V] :
         /\ F[0] = <<>>
         /\ \A i \in 1..n : F[i] = step[<<i, F[i - 1]>>]
  <2>1. \E F : Recursive(F, n, V, <<>>, step)
    BY <1>1, <1>2, <1>4, RecursionExists
  <2> QED
    BY <2>1 DEF Recursive
<1>6. F[0] = <<>> /\ \A i \in 1..n : i - 1 \in 0..n
  BY <1>1, <1>5
<1>7. \A i \in 1..n : F[i] = Picked(i, F[i - 1])
  <2> SUFFICES ASSUME NEW i \in 1..n PROVE F[i] = Picked(i, F[i - 1])
    OBVIOUS
  <2>1. F[i] = step[<<i, F[i - 1]>>]
    BY <1>5
  <2> QED
    BY <1>4, <1>6, <2>1
<1>8. F = [i \in 0..n |-> IF i = 0 THEN <<>> ELSE Picked(i, F[i - 1])]
  <2> DEFINE G == [i \in 0..n |-> IF i = 0 THEN <<>>
                                           ELSE Picked(i, F[i - 1])]
  <2>1. \A i \in 0..n : F[i] = G[i]
    <3> SUFFICES ASSUME NEW i \in 0..n PROVE F[i] = G[i]
      OBVIOUS
    <3>1. i = 0 \/ i \in 1..n
      BY <1>1
    <3> QED
      BY <1>6, <1>7, <3>1
  <2>2. DOMAIN F = 0..n /\ F \in [0..n -> V]
    OBVIOUS
  <2>3. F = [i \in 0..n |-> F[i]]
    BY <2>2
  <2> QED
    BY <2>1, <2>3
<1>9. Among(s, S) = F[n]
  <2> DEFINE Is(g) == g = [i \in 0..n |->
                             IF i = 0 THEN <<>>
                             ELSE IF s[i] \in S THEN Append(g[i - 1], s[i])
                                                ELSE g[i - 1]]
  <2>1. Is(F)
    BY <1>8 DEF Picked
  <2>2. \A g : Is(g) => g[n] = F[n]
    <3> SUFFICES ASSUME NEW g, Is(g) PROVE g[n] = F[n]
      OBVIOUS
    <3>1. /\ g[0] = <<>>
          /\ \A i \in 1..n : g[i] = Picked(i, g[i - 1])
      <4>1. 0 \in 0..n /\ \A i \in 1..n : i \in 0..n /\ i # 0
        BY <1>1
      <4>2. \A i \in 0..n :
               g[i] = IF i = 0 THEN <<>>
                      ELSE IF s[i] \in S THEN Append(g[i - 1], s[i])
                                         ELSE g[i - 1]
        OBVIOUS
      <4> QED
        BY <4>1, <4>2 DEF Picked
    <3> DEFINE M == {m \in Nat : m <= n => g[m] = F[m]}
    <3>2. 0 \in M
      BY <1>6, <3>1
    <3>3. ASSUME NEW m \in Nat, m \in M PROVE m + 1 \in M
      <4> SUFFICES ASSUME m + 1 <= n PROVE g[m + 1] = F[m + 1]
        OBVIOUS
      <4>1. m + 1 \in 1..n /\ (m + 1) - 1 = m /\ g[m] = F[m]
        BY <1>1, <3>3
      <4>2. g[m + 1] = Picked(m + 1, g[m])
        BY <3>1, <4>1
      <4>3. F[m + 1] = Picked(m + 1, F[m])
        BY <1>7, <4>1
      <4> QED
        BY <4>1, <4>2, <4>3
    <3> HIDE DEF M
    <3>4. n \in M
      BY <1>1, <3>2, <3>3, Induction
    <3> QED
      BY <1>1, <3>4 DEF M
  <2>3. Among(s, S) = (CHOOSE g : Is(g))[n]
    BY DEF Among, n
  <2> HIDE DEF Is
  <2> QED
    BY <2>1, <2>2, <2>3
<1> QED
  BY <1>5, <1>6, <1>7, <1>9 DEF PickedAt, Picked, n, V

\* A list that grows at its end grows, at most, what is picked out of it.
LEMMA AmongAppend ==
    ASSUME NEW T, NEW s \in Seq(T), NEW e \in T, NEW S
    PROVE  /\ Among(s, S) \in Seq(T \cap S)
           /\ Among(Append(s, e), S) = IF e \in S THEN Append(Among(s, S), e)
                                                  ELSE Among(s, S)
<1> DEFINE n == Len(s)
           t == Append(s, e)
<1>1. /\ n \in Nat /\ t \in Seq(T) /\ Len(t) = n + 1 /\ t[n + 1] = e
      /\ \A i \in 1..n : t[i] = s[i]
  BY LenProperties, AppendProperties
<1>2. PICK F : PickedAt(F, s, S, T) /\ Among(s, S) = F[n]
  BY AmongPicked
<1> HIDE DEF t
<1>3. PICK G : PickedAt(G, t, S, T) /\ Among(t, S) = G[Len(t)]
  BY <1>1, AmongPicked
<1> HIDE DEF n
<1>4. /\ F \in [0..n -> Seq(T \cap S)] /\ F[0] = <<>>
      /\ \A i \in 1..n :
            F[i] = IF s[i] \in S THEN Append(F[i - 1], s[i]) ELSE F[i - 1]
  BY <1>2 DEF PickedAt, n
<1>5. /\ G[0] = <<>>
      /\ \A i \in 1..(n + 1) :
            G[i] = IF t[i] \in S THEN Append(G[i - 1], t[i]) ELSE G[i - 1]
  BY <1>1, <1>3 DEF PickedAt
<1> DEFINE M == {m \in Nat : m <= n => G[m] = F[m]}
<1>6. 0 \in M
  BY <1>4, <1>5
<1>7. ASSUME NEW m \in Nat, m \in M PROVE m + 1 \in M
  <2> SUFFICES ASSUME m + 1 <= n PROVE G[m + 1] = F[m + 1]
    OBVIOUS
  <2>1. /\ m + 1 \in 1..n /\ m + 1 \in 1..(n + 1) /\ (m + 1) - 1 = m
        /\ G[m] = F[m] /\ t[m + 1] = s[m + 1]
    BY <1>1, <1>7
  <2>2. G[m + 1] = IF s[m + 1] \in S THEN Append(F[m], s[m + 1]) ELSE F[m]
    BY <1>5, <2>1
  <2>3. F[m + 1] = IF s[m + 1] \in S THEN Append(F[m], s[m + 1]) ELSE F[m]
    BY <1>4, <2>1
  <2> QED
    BY <2>2, <2>3
<1> HIDE DEF M
<1>8. G[n] = F[n]
  <2>1. n \in M
    BY <1>1, <1>6, <1>7, Induction
  <2> QED
    BY <1>1, <2>1 DEF M
<1>9. G[n + 1] = IF e \in S THEN Append(F[n], e) ELSE F[n]
  <2>1. n + 1 \in 1..(n + 1) /\ (n + 1) - 1 = n
    BY <1>1
  <2> QED
    BY <1>1, <1>5, <1>8, <2>1
<1>10. F[n] \in Seq(T \cap S)
  BY <1>1, <1>4
<1> QED
  BY <1>1, <1>2, <1>3, <1>9, <1>10 DEF t

LEMMA AmongEmpty == ASSUME NEW S PROVE Among(<<>>, S) = <<>>
<1>1. <<>> \in Seq({}) /\ Len(<<>>) = 0
  BY EmptySeq
<1>2. PICK F : PickedAt(F, <<>>, S, {}) /\ Among(<<>>, S) = F[0]
  BY <1>1, AmongPicked
<1> QED
  BY <1>2 DEF PickedAt

-----------------------------------------------------------------------------
(***************************************************************************)
(* Sequences laid end to end.  The parts P are what FlattenSeq has put     *)
(* together after each of them.                                            *)
(***************************************************************************)
PartsOf(P, s, T) ==
    /\ P \in [0..Len(s) -> Seq(T)]
    /\ P[0] = <<>>
    /\ \A i \in 1..Len(s) : P[i] = P[i - 1] \o s[i]

LEMMA FlattenParts ==
    ASSUME NEW T, NEW s \in Seq(Seq(T))
    PROVE  \E P : PartsOf(P, s, T) /\ FlattenSeq(s) = P[Len(s)]
<1> DEFINE n == Len(s)
           Step(g, i) == IF i = 1 THEN s[i] ELSE g[i - 1] \o s[i]
<1>1. n \in Nat /\ DOMAIN s = 1..n /\ \A i \in 1..n : s[i] \in Seq(T)
  BY LenProperties
<1>2. \E F : F = [i \in 1..n |-> Step(F, i)]
  <2> DEFINE M == {m \in Nat : \E g : g = [i \in 1..m |-> Step(g, i)]}
  <2>1. 0 \in M
    <3>1. <<>> = [i \in 1..0 |-> Step(<<>>, i)]
      OBVIOUS
    <3> QED
      BY <3>1
  <2>2. ASSUME NEW m \in Nat, m \in M PROVE m + 1 \in M
    <3>1. PICK g : g = [i \in 1..m |-> Step(g, i)]
      BY <2>2
    <3> DEFINE h == [i \in 1..(m + 1) |-> IF i = m + 1 THEN Step(g, i)
                                                       ELSE g[i]]
    <3>2. ASSUME NEW i \in 1..(m + 1) PROVE h[i] = Step(h, i)
      <4>1. CASE i = 1
        BY <3>1, <4>1
      <4>2. CASE i # 1
        <5>1. i - 1 \in 1..m /\ h[i - 1] = g[i - 1]
          BY <4>2
        <5>2. CASE i = m + 1
          BY <4>2, <5>1, <5>2
        <5>3. CASE i # m + 1
          <6>1. i \in 1..m /\ h[i] = g[i]
            BY <5>3
          <6>2. g[i] = Step(g, i)
            BY <3>1, <6>1
          <6> QED
            BY <4>2, <5>1, <6>1, <6>2
        <5> QED
          BY <5>2, <5>3
      <4> QED
        BY <4>1, <4>2
    <3>3. h = [i \in 1..(m + 1) |-> Step(h, i)]
      BY <3>2
    <3>4. m + 1 \in Nat
      OBVIOUS
    <3> HIDE DEF h, Step
    <3> QED
      BY <3>3, <3>4, Zenon
  <2> HIDE DEF M
  <2>3. n \in M
    BY <1>1, <2>1, <2>2, Induction
  <2> QED
    BY <2>3 DEF M
<1>3. CASE n = 0
  <2> DEFINE P == [i \in 0..0 |-> <<>>]
  <2>1. PartsOf(P, s, T)
    BY <1>3, EmptySeq DEF PartsOf
  <2>2. s = <<>> /\ FlattenSeq(s) = <<>>
    BY <1>3, LenProperties, EmptySeq DEF FlattenSeq
  <2> QED
    BY <1>3, <2>1, <2>2
<1>4. CASE n # 0
  <2>1. PICK F : F = [i \in 1..n |-> Step(F, i)] /\ FlattenSeq(s) = F[n]
    BY <1>2, <1>4 DEF FlattenSeq
  <2>2. \A i \in 1..n : F[i] = Step(F, i)
    BY <2>1
  <2> DEFINE M == {m \in Nat : m + 1 <= n => F[m + 1] \in Seq(T)}
  <2>3. 0 \in M
    BY <1>1, <1>4, <2>2
  <2>4. ASSUME NEW m \in Nat, m \in M PROVE m + 1 \in M
    <3> SUFFICES ASSUME m + 2 <= n PROVE F[m + 2] \in Seq(T)
      OBVIOUS
    <3>1. /\ F[m + 1] \in Seq(T) /\ m + 2 \in 1..n /\ s[m + 2] \in Seq(T)
          /\ m + 2 # 1 /\ (m + 2) - 1 = m + 1
      BY <1>1, <2>4
    <3>2. F[m + 2] = F[m + 1] \o s[m + 2]
      BY <2>2, <3>1
    <3> QED
      BY <3>1, <3>2, ConcatProperties
  <2> HIDE DEF M
  <2>5. \A m \in Nat : m \in M
    BY <2>3, <2>4, Induction
  <2>6. \A i \in 1..n : F[i] \in Seq(T)
    <3> SUFFICES ASSUME NEW i \in 1..n PROVE F[i] \in Seq(T)
      OBVIOUS
    <3>1. i - 1 \in M /\ (i - 1) + 1 = i
      BY <1>1, <2>5
    <3> QED
      BY <1>1, <3>1 DEF M
  <2> DEFINE P == [i \in 0..n |-> IF i = 0 THEN <<>> ELSE F[i]]
  <2>7. PartsOf(P, s, T)
    <3>1. P \in [0..n -> Seq(T)] /\ P[0] = <<>>
      BY <1>1, <2>6, EmptySeq
    <3>2. ASSUME NEW i \in 1..n PROVE P[i] = P[i - 1] \o s[i]
      <4>1. CASE i = 1
        <5>1. P[i - 1] = <<>> /\ P[i] = s[i]
          BY <1>1, <2>2, <4>1
        <5>2. <<>> \o s[i] = s[i]
          BY <1>1, ConcatEmptySeq
        <5> QED
          BY <5>1, <5>2
      <4>2. CASE i # 1
        <5>1. i - 1 \in 1..n /\ P[i - 1] = F[i - 1] /\ P[i] = F[i]
          BY <1>1, <4>2
        <5> QED
          BY <2>2, <4>2, <5>1
      <4> QED
        BY <4>1, <4>2
    <3> QED
      BY <3>1, <3>2 DEF PartsOf
  <2>8. FlattenSeq(s) = P[n]
    BY <1>1, <1>4, <2>1
  <2> HIDE DEF P
  <2> QED
    BY <2>7, <2>8
<1> QED
  BY <1>3, <1>4

(***************************************************************************)
(* What is put together of two sequences is what is put together of the    *)
(* one, then of the other.                                                 *)
(***************************************************************************)
LEMMA FlattenConcat ==
    ASSUME NEW T, NEW s \in Seq(Seq(T)), NEW t \in Seq(Seq(T))
    PROVE  /\ FlattenSeq(s \o t) = FlattenSeq(s) \o FlattenSeq(t)
           /\ FlattenSeq(s) \in Seq(T)
<1> DEFINE n == Len(s)
           m == Len(t)
           u == s \o t
<1>1. /\ n \in Nat /\ m \in Nat /\ u \in Seq(Seq(T)) /\ Len(u) = n + m
      /\ \A i \in 1..(n + m) : u[i] = IF i <= n THEN s[i] ELSE t[i - n]
      /\ \A i \in 1..n : s[i] \in Seq(T)
      /\ \A i \in 1..m : t[i] \in Seq(T)
  BY LenProperties, ConcatProperties
<1> HIDE DEF u
<1>2. PICK P : PartsOf(P, s, T) /\ FlattenSeq(s) = P[n]
  BY FlattenParts
<1>3. PICK Q : PartsOf(Q, t, T) /\ FlattenSeq(t) = Q[m]
  BY FlattenParts
<1>4. PICK R : PartsOf(R, u, T) /\ FlattenSeq(u) = R[Len(u)]
  BY <1>1, FlattenParts
<1> HIDE DEF n, m
<1>5. /\ P \in [0..n -> Seq(T)] /\ P[0] = <<>>
      /\ \A i \in 1..n : P[i] = P[i - 1] \o s[i]
  BY <1>2 DEF PartsOf, n
<1>6. /\ Q \in [0..m -> Seq(T)] /\ Q[0] = <<>>
      /\ \A i \in 1..m : Q[i] = Q[i - 1] \o t[i]
  BY <1>3 DEF PartsOf, m
<1>7. /\ R[0] = <<>>
      /\ \A i \in 1..(n + m) : R[i] = R[i - 1] \o u[i]
  BY <1>1, <1>4 DEF PartsOf
<1> DEFINE Same(i) == R[i] = P[i]
           Behind(i) == R[n + i] = P[n] \o Q[i]
           A == {i \in Nat : i <= n => Same(i)}
           B == {i \in Nat : i <= m => Behind(i)}
<1>8. Same(n)
  <2>1. Same(0)
    BY <1>5, <1>7
  <2>2. ASSUME NEW i \in Nat, Same(i), i + 1 <= n PROVE Same(i + 1)
    <3>1. /\ i + 1 \in 1..n /\ i + 1 \in 1..(n + m)
          /\ (i + 1) - 1 = i /\ i + 1 <= n
      BY <1>1, <2>2
    <3>2. u[i + 1] = s[i + 1]
      BY <1>1, <3>1
    <3>3. R[i + 1] = R[(i + 1) - 1] \o u[i + 1]
      BY <1>7, <3>1
    <3>4. P[i + 1] = P[(i + 1) - 1] \o s[i + 1]
      BY <1>5, <3>1
    <3> QED
      BY <2>2, <3>1, <3>2, <3>3, <3>4
  <2> HIDE DEF Same
  <2>3. 0 \in A /\ \A i \in Nat : i \in A => i + 1 \in A
    BY <1>1, <2>1, <2>2
  <2> HIDE DEF A
  <2>4. n \in A
    BY <1>1, <2>3, Induction
  <2> QED
    BY <1>1, <2>4 DEF A
<1>9. Behind(m)
  <2>1. Behind(0)
    <3>1. R[n + 0] = P[n] /\ P[n] \in Seq(T)
      BY <1>1, <1>5, <1>8
    <3> QED
      BY <1>6, <3>1, ConcatEmptySeq
  <2>2. ASSUME NEW i \in Nat, Behind(i), i + 1 <= m PROVE Behind(i + 1)
    <3>1. /\ i + 1 \in 1..m
          /\ n + (i + 1) \in 1..(n + m) /\ (n + (i + 1)) - 1 = n + i
          /\ ~(n + (i + 1) <= n) /\ (n + (i + 1)) - n = i + 1
          /\ (i + 1) - 1 = i /\ i \in 0..m
      BY <1>1, <2>2
    <3>2. R[n + (i + 1)] = R[n + i] \o t[i + 1] /\ t[i + 1] \in Seq(T)
      BY <1>1, <1>7, <3>1
    <3>3. P[n] \in Seq(T) /\ Q[i] \in Seq(T)
      BY <1>1, <1>5, <1>6, <3>1
    <3>4. Q[i + 1] = Q[(i + 1) - 1] \o t[i + 1]
      BY <1>6, <3>1
    <3>5. (P[n] \o Q[i]) \o t[i + 1] = P[n] \o (Q[i] \o t[i + 1])
      <4>1. \A p, q, r \in Seq(T) : (p \o q) \o r = p \o (q \o r)
        BY ConcatAssociative
      <4> QED
        BY <3>2, <3>3, <4>1
    <3> QED
      BY <2>2, <3>1, <3>2, <3>4, <3>5
  <2> HIDE DEF Behind
  <2>3. 0 \in B /\ \A i \in Nat : i \in B => i + 1 \in B
    BY <1>1, <2>1, <2>2
  <2> HIDE DEF B
  <2>4. m \in B
    BY <1>1, <2>3, Induction
  <2> QED
    BY <1>1, <2>4 DEF B
<1>10. FlattenSeq(u) = FlattenSeq(s) \o FlattenSeq(t)
  BY <1>1, <1>2, <1>3, <1>4, <1>9
<1>11. FlattenSeq(s) \in Seq(T)
  BY <1>1, <1>2, <1>5
<1> QED
  BY <1>10, <1>11 DEF u

LEMMA FlattenSingle ==
    ASSUME NEW T, NEW e \in Seq(T)
    PROVE  FlattenSeq(<<e>>) = e
<1> DEFINE s == <<e>>
<1>1. s \in Seq(Seq(T)) /\ Len(s) = 1 /\ s[1] = e
  OBVIOUS
<1> HIDE DEF s
<1>2. PICK P : PartsOf(P, s, T) /\ FlattenSeq(s) = P[1]
  BY <1>1, FlattenParts
<1>3. P[1] = P[0] \o e /\ P[0] = <<>>
  BY <1>1, <1>2 DEF PartsOf
<1> QED
  BY <1>2, <1>3, ConcatEmptySeq DEF s

LEMMA FlattenEmpty == FlattenSeq(<<>>) = <<>>
BY EmptySeq DEF FlattenSeq

\* Where sequences are joined first does not matter.
LEMMA Associative ==
    ASSUME NEW T
    PROVE  \A p, q, r \in Seq(T) : /\ (p \o q) \o r = p \o (q \o r)
                                   /\ p \o q \in Seq(T)
<1> SUFFICES ASSUME NEW p \in Seq(T), NEW q \in Seq(T), NEW r \in Seq(T)
             PROVE  /\ (p \o q) \o r = p \o (q \o r)
                    /\ p \o q \in Seq(T)
  OBVIOUS
<1>1. (p \o q) \o r = p \o (q \o r)
  BY ConcatAssociative
<1>2. p \o q \in Seq(T)
  BY ConcatProperties
<1> QED
  BY <1>1, <1>2

Regroups(p, q, r) == (p \o q) \o r = p \o (q \o r)

LEMMA Regrouped ==
    ASSUME NEW T, NEW p \in Seq(T), NEW q \in Seq(T), NEW r \in Seq(T)
    PROVE  Regroups(p, q, r)
BY ConcatAssociative DEF Regroups

\* A sequence cut where two were joined
LEMMA CutApart ==
    ASSUME NEW T, NEW s \in Seq(T), NEW t \in Seq(T)
    PROVE  /\ s \o t \in Seq(T) /\ Len(s) \in 0..Len(s \o t)
           /\ SubSeq(s \o t, 1, Len(s)) = s
           /\ SubSeq(s \o t, Len(s) + 1, Len(s \o t)) = t
<1> DEFINE n == Len(s)
           m == Len(t)
           u == s \o t
<1>1. /\ n \in Nat /\ m \in Nat /\ u \in Seq(T) /\ Len(u) = n + m
      /\ \A i \in 1..(n + m) : u[i] = IF i <= n THEN s[i] ELSE t[i - n]
      /\ \A i \in 1..(n + m) : u[i] \in T
  BY LenProperties, ConcatProperties
<1> HIDE DEF n, m, u
<1>2. /\ SubSeq(u, 1, n) \in Seq(T) /\ Len(SubSeq(u, 1, n)) = n
      /\ \A i \in 1..n : SubSeq(u, 1, n)[i] = u[1 + i - 1]
  <2>1. \A i \in 1..n : u[i] \in T
    BY <1>1
  <2>2. n - 1 + 1 = n /\ (1 <= n \/ n = 0)
    BY <1>1
  <2> QED
    BY <1>1, <2>1, <2>2, SubSeqProperties
<1>3. SubSeq(u, 1, n) = s
  <2>1. \A i \in 1..n : SubSeq(u, 1, n)[i] = s[i]
    BY <1>1, <1>2
  <2> QED
    BY <1>2, <2>1, SeqEqual DEF n
<1>4. /\ SubSeq(u, n + 1, n + m) \in Seq(T)
      /\ Len(SubSeq(u, n + 1, n + m)) = m
      /\ \A i \in 1..m : SubSeq(u, n + 1, n + m)[i] = u[(n + 1) + i - 1]
  <2>1. \A i \in (n + 1)..(n + m) : u[i] \in T
    BY <1>1
  <2>2. (n + m) - (n + 1) + 1 = m /\ (n + 1 <= n + m \/ m = 0)
        /\ n + 1 \in Int /\ n + m \in Int
    BY <1>1
  <2> QED
    BY <1>1, <2>1, <2>2, SubSeqProperties
<1>5. SubSeq(u, n + 1, n + m) = t
  <2>1. ASSUME NEW i \in 1..m PROVE SubSeq(u, n + 1, n + m)[i] = t[i]
    <3>1. /\ (n + 1) + i - 1 = n + i /\ n + i \in 1..(n + m)
          /\ ~(n + i <= n) /\ (n + i) - n = i
      BY <1>1
    <3> QED
      BY <1>1, <1>4, <3>1
  <2> QED
    BY <1>4, <2>1, SeqEqual DEF m
<1> QED
  BY <1>1, <1>3, <1>5 DEF n, u
=============================================================================
