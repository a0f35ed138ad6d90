---------------------------- MODULE Input_proofs ----------------------------
(***************************************************************************)
(* What comes in from a client.  However a stream is cut into reads, the   *)
(* lines handled are its lines and fit their buffer; and a line is parsed  *)
(* taken apart into all of its parts and calls the handlers of its         *)
(* command: for any characters, sizes, streams and tables of handlers.     *)
(***************************************************************************)
EXTENDS LineBuffer, Message, Lemmas, TLAPS

-----------------------------------------------------------------------------
(***************************************************************************)
(* Lines put together again, each with its line end                        *)
(***************************************************************************)
Ended(ls) == [k \in DOMAIN ls |-> ls[k] \o <<CR, LF>>]

Joined(ls) == FlattenSeq(Ended(ls))

LEMMA EndedType ==
    ASSUME NEW ls \in Seq(Seq(Byte))
    PROVE  /\ Ended(ls) \in Seq(Seq(Byte)) /\ Len(Ended(ls)) = Len(ls)
           /\ \A k \in 1..Len(ls) : Ended(ls)[k] = ls[k] \o <<CR, LF>>
<1>1. /\ Len(ls) \in Nat /\ DOMAIN ls = 1..Len(ls)
      /\ \A k \in 1..Len(ls) : ls[k] \in Seq(Byte)
  BY LenProperties
<1>2. <<CR, LF>> \in Seq(Byte)
  BY LineBufferAssumption DEF LineBufferAssumption
<1>3. \A k \in 1..Len(ls) : ls[k] \o <<CR, LF>> \in Seq(Byte)
  BY <1>1, <1>2, ConcatProperties
<1>4. Ended(ls) = [k \in 1..Len(ls) |-> ls[k] \o <<CR, LF>>]
  BY <1>1 DEF Ended
<1> QED
  BY <1>1, <1>3, <1>4

LEMMA JoinedConcat ==
    ASSUME NEW a \in Seq(Seq(Byte)), NEW b \in Seq(Seq(Byte))
    PROVE  /\ Joined(a \o b) = Joined(a) \o Joined(b)
           /\ Joined(a) \in Seq(Byte)
<1>1. /\ a \o b \in Seq(Seq(Byte)) /\ Len(a \o b) = Len(a) + Len(b)
      /\ \A k \in 1..(Len(a) + Len(b)) :
            (a \o b)[k] = IF k <= Len(a) THEN a[k] ELSE b[k - Len(a)]
      /\ Len(a) \in Nat /\ Len(b) \in Nat
  BY ConcatProperties, LenProperties
<1>2. /\ Ended(a) \in Seq(Seq(Byte)) /\ Len(Ended(a)) = Len(a)
      /\ \A k \in 1..Len(a) : Ended(a)[k] = a[k] \o <<CR, LF>>
      /\ Ended(b) \in Seq(Seq(Byte)) /\ Len(Ended(b)) = Len(b)
      /\ \A k \in 1..Len(b) : Ended(b)[k] = b[k] \o <<CR, LF>>
  BY EndedType
<1>3. /\ Ended(a \o b) \in Seq(Seq(Byte)) /\ Len(Ended(a \o b)) = Len(a \o b)
      /\ \A k \in 1..Len(a \o b) :
            Ended(a \o b)[k] = (a \o b)[k] \o <<CR, LF>>
  BY <1>1, EndedType
<1>4. /\ Ended(a) \o Ended(b) \in Seq(Seq(Byte))
      /\ Len(Ended(a) \o Ended(b)) = Len(a) + Len(b)
      /\ \A k \in 1..(Len(a) + Len(b)) :
            (Ended(a) \o Ended(b))[k] =
               IF k <= Len(a) THEN Ended(a)[k] ELSE Ended(b)[k - Len(a)]
  <2> DEFINE x == Ended(a)
             y == Ended(b)
  <2>1. /\ x \in Seq(Seq(Byte)) /\ Len(x) = Len(a)
        /\ y \in Seq(Seq(Byte)) /\ Len(y) = Len(b)
    BY <1>2
  <2> HIDE DEF x, y
  <2>2. /\ x \o y \in Seq(Seq(Byte)) /\ Len(x \o y) = Len(x) + Len(y)
        /\ \A k \in 1..(Len(x) + Len(y)) :
              (x \o y)[k] = IF k <= Len(x) THEN x[k] ELSE y[k - Len(x)]
    BY <2>1, ConcatProperties
  <2> QED
    BY <2>1, <2>2 DEF x, y
<1>5. Ended(a \o b) = Ended(a) \o Ended(b)
  <2>1. ASSUME NEW k \in 1..(Len(a) + Len(b))
        PROVE  Ended(a \o b)[k] = (Ended(a) \o Ended(b))[k]
    <3>1. CASE k <= Len(a)
      <4>1. k \in 1..Len(a) /\ k \in 1..Len(a \o b)
        BY <1>1, <3>1
      <4> QED
        BY <1>1, <1>2, <1>3, <1>4, <3>1, <4>1
    <3>2. CASE ~(k <= Len(a))
      <4>1. k - Len(a) \in 1..Len(b)
        BY <1>1, <3>2
      <4> QED
        BY <1>1, <1>2, <1>3, <1>4, <3>2, <4>1
    <3> QED
      BY <3>1, <3>2
  <2> QED
    BY <1>1, <1>3, <1>4, <2>1, SeqEqual
<1> QED
  BY <1>2, <1>5, FlattenConcat DEF Joined

LEMMA JoinedSingle ==
    ASSUME NEW l \in Seq(Byte)
    PROVE  /\ Joined(<<l>>) = l \o <<CR, LF>>
           /\ l \o <<CR, LF>> \in Seq(Byte)
<1>1. l \o <<CR, LF>> \in Seq(Byte)
  <2>1. <<CR, LF>> \in Seq(Byte)
    BY LineBufferAssumption DEF LineBufferAssumption
  <2> QED
    BY <2>1, ConcatProperties
<1>2. Ended(<<l>>) = <<l \o <<CR, LF>>>>
  <2> DEFINE e == l \o <<CR, LF>>
  <2>1. DOMAIN <<l>> = 1..1 /\ <<l>>[1] = l
    OBVIOUS
  <2>2. <<e>> = [k \in 1..1 |-> e]
    OBVIOUS
  <2> QED
    BY <2>1, <2>2 DEF Ended
<1> QED
  BY <1>1, <1>2, FlattenSingle DEF Joined

LEMMA JoinedEmpty == Joined(<<>>) = <<>>
<1>1. Ended(<<>>) = <<>>
  BY DEF Ended
<1> QED
  BY <1>1, FlattenEmpty DEF Joined

-----------------------------------------------------------------------------
(***************************************************************************)
(* What the loop over a chunk has found at position i                      *)
(***************************************************************************)
SplitAt(s, i, ls, start) ==
    /\ ls \in Seq(Seq(Byte)) /\ start \in 0..i
    /\ Joined(ls) = SubSeq(s, 1, start)
    /\ \A j \in (start + 1)..i : j \notin LineEnds(s)
    /\ start # 0 => start \in LineEnds(s)
    /\ ls = <<>> <=> start = 0
    /\ \A k \in 1..Len(ls) : LineEnds(ls[k]) = {} /\ Len(ls[k]) + 2 <= i
    /\ ls # <<>> /\ ls[1] # <<>> => ls[1][1] = s[1]

\* Part of a sequence
LEMMA PartType ==
    ASSUME NEW T, NEW s \in Seq(T), NEW a \in Nat, NEW b \in Nat,
           a <= b, b <= Len(s)
    PROVE  /\ SubSeq(s, a + 1, b) \in Seq(T)
           /\ Len(SubSeq(s, a + 1, b)) = b - a
           /\ \A i \in 1..(b - a) : SubSeq(s, a + 1, b)[i] = s[a + i]
<1>1. Len(s) \in Nat /\ \A i \in 1..Len(s) : s[i] \in T
  BY LenProperties
<1>2. \A i \in (a + 1)..b : s[i] \in T
  BY <1>1
<1>3. /\ SubSeq(s, a + 1, b) \in Seq(T)
      /\ Len(SubSeq(s, a + 1, b)) =
            IF a + 1 <= b THEN b - (a + 1) + 1 ELSE 0
      /\ \A i \in 1..(b - (a + 1) + 1) :
            SubSeq(s, a + 1, b)[i] = s[(a + 1) + i - 1]
  <2>1. a + 1 \in Int /\ b \in Int
    OBVIOUS
  <2> QED
    BY <1>2, <2>1, SubSeqProperties
<1>4. b - (a + 1) + 1 = b - a /\ \A i \in 1..(b - a) : (a + 1) + i - 1 = a + i
  OBVIOUS
<1> QED
  BY <1>3, <1>4

LEMMA PartNoEnds ==
    ASSUME NEW s \in Seq(Byte), NEW a \in Nat, NEW b \in Nat,
           a <= b, b <= Len(s),
           \A j \in (a + 1)..b : j \notin LineEnds(s)
    PROVE  LineEnds(SubSeq(s, a + 1, b)) = {}
<1> DEFINE t == SubSeq(s, a + 1, b)
<1>1. /\ t \in Seq(Byte) /\ Len(t) = b - a
      /\ \A i \in 1..(b - a) : t[i] = s[a + i]
  BY PartType
<1> HIDE DEF t
<1> SUFFICES ASSUME NEW i \in LineEnds(t) PROVE FALSE
  BY DEF t
<1>2. i \in 2..(b - a) /\ t[i - 1] = CR /\ t[i] = LF /\ Len(s) \in Nat
  BY <1>1, LenProperties DEF LineEnds
<1>3. /\ i \in 1..(b - a) /\ i - 1 \in 1..(b - a)
      /\ a + (i - 1) = (a + i) - 1
      /\ a + i \in 2..Len(s) /\ a + i \in (a + 1)..b
  BY <1>2
<1>4. s[a + i] = LF /\ s[(a + i) - 1] = CR
  BY <1>1, <1>2, <1>3
<1> QED
  BY <1>3, <1>4 DEF LineEnds

\* A line end closes the line it comes after.
LEMMA SplitStep ==
    ASSUME NEW s \in Seq(Byte), NEW i \in 1..Len(s), NEW ls, NEW start,
           SplitAt(s, i - 1, ls, start)
    PROVE  /\ i \in LineEnds(s) =>
                 SplitAt(s, i, Append(ls, SubSeq(s, start + 1, i - 2)), i)
           /\ i \notin LineEnds(s) => SplitAt(s, i, ls, start)
<1>1. /\ ls \in Seq(Seq(Byte)) /\ start \in 0..(i - 1)
      /\ Joined(ls) = SubSeq(s, 1, start)
      /\ \A j \in (start + 1)..(i - 1) : j \notin LineEnds(s)
      /\ start # 0 => start \in LineEnds(s)
      /\ ls = <<>> <=> start = 0
      /\ \A k \in 1..Len(ls) :
            LineEnds(ls[k]) = {} /\ Len(ls[k]) + 2 <= i - 1
      /\ ls # <<>> /\ ls[1] # <<>> => ls[1][1] = s[1]
  BY DEF SplitAt
<1>2. /\ Len(s) \in Nat /\ Len(ls) \in Nat
      /\ \A k \in 1..Len(ls) : ls[k] \in Seq(Byte) /\ Len(ls[k]) \in Nat
      /\ \A j \in 1..Len(s) : s[j] \in Byte
  BY <1>1, LenProperties
<1>3. ASSUME i \notin LineEnds(s) PROVE SplitAt(s, i, ls, start)
  <2>1. \A j \in (start + 1)..i : j \notin LineEnds(s)
    BY <1>1, <1>3
  <2>2. ASSUME NEW k \in 1..Len(ls) PROVE Len(ls[k]) + 2 <= i
    <3>1. Len(ls[k]) + 2 <= i - 1
      BY <1>1
    <3>2. Len(ls[k]) \in Nat
      BY <1>2
    <3> QED
      BY <3>1, <3>2
  <2>3. start \in 0..i
    BY <1>1
  <2> QED
    BY <1>1, <2>1, <2>2, <2>3 DEF SplitAt
<1>4. ASSUME i \in LineEnds(s)
      PROVE  SplitAt(s, i, Append(ls, SubSeq(s, start + 1, i - 2)), i)
  <2>1. i \in 2..Len(s) /\ s[i - 1] = CR /\ s[i] = LF
    BY <1>4 DEF LineEnds
  <2>2. start <= i - 2
    <3>1. CASE start = 0
      BY <2>1, <3>1
    <3>2. CASE start # 0
      <4>1. s[start] = LF
        BY <1>1, <3>2 DEF LineEnds
      <4>2. start # i - 1
        BY <2>1, <4>1, LineBufferAssumption DEF LineBufferAssumption
      <4> QED
        BY <1>1, <4>2
    <3> QED
      BY <3>1, <3>2
  <2> DEFINE l == SubSeq(s, start + 1, i - 2)
             new == Append(ls, l)
  <2>3. start \in Nat /\ i - 2 \in Nat /\ i - 2 <= Len(s)
    <3>1. start \in 0..(i - 1) /\ i \in 2..Len(s) /\ Len(s) \in Nat
      BY <1>1, <1>2, <2>1
    <3> QED
      BY ONLY <3>1
  <2>4. /\ l \in Seq(Byte) /\ Len(l) = (i - 2) - start
        /\ \A j \in 1..((i - 2) - start) : l[j] = s[start + j]
    BY <2>2, <2>3, PartType
  <2>5. LineEnds(l) = {}
    <3>1. \A j \in (start + 1)..(i - 2) : j \notin LineEnds(s)
      BY <1>1, <2>3
    <3> QED
      BY <2>2, <2>3, <3>1, PartNoEnds
  <2> HIDE DEF l
  <2>6. /\ new \in Seq(Seq(Byte)) /\ new # <<>> /\ Len(new) = Len(ls) + 1
        /\ \A k \in 1..Len(ls) : new[k] = ls[k]
        /\ new[Len(ls) + 1] = l
    <3>1. /\ Append(ls, l) \in Seq(Seq(Byte))
          /\ Append(ls, l) # <<>>
          /\ Len(Append(ls, l)) = Len(ls) + 1
          /\ \A k \in 1..Len(ls) : Append(ls, l)[k] = ls[k]
          /\ Append(ls, l)[Len(ls) + 1] = l
      <4>1. ls \in Seq(Seq(Byte)) /\ l \in Seq(Byte)
        BY <1>1, <2>4
      <4> QED
        BY ONLY <4>1, AppendProperties
    <3> QED
      BY <3>1
  <2>7. Joined(new) = SubSeq(s, 1, i)
    <3>1. new = ls \o <<l>> /\ <<l>> \in Seq(Seq(Byte))
      <4>1. ls \in Seq(Seq(Byte)) /\ l \in Seq(Byte)
        BY <1>1, <2>4
      <4>2. Append(ls, l) = ls \o <<l>>
        BY ONLY <4>1, AppendIsConcat
      <4>3. <<l>> \in Seq(Seq(Byte))
        BY ONLY <4>1
      <4> QED
        BY <4>2, <4>3
    <3>2. Joined(new) = SubSeq(s, 1, start) \o (l \o <<CR, LF>>)
      BY <1>1, <2>4, <3>1, JoinedConcat, JoinedSingle
    <3>3. SubSeq(s, start + 1, i) = l \o <<CR, LF>>
      <4> DEFINE r == SubSeq(s, start + 1, i)
                 e == <<CR, LF>>
      <4>1. /\ r \in Seq(Byte) /\ Len(r) = i - start
            /\ \A j \in 1..(i - start) : r[j] = s[start + j]
        <5>1. i \in Nat /\ start <= i /\ i <= Len(s)
          BY <1>2, <2>1, <2>2, <2>3
        <5> QED
          BY <2>3, <5>1, PartType
      <4> HIDE DEF r
      <4>2. e \in Seq(Byte) /\ Len(e) = 2 /\ e[1] = CR /\ e[2] = LF
        BY LineBufferAssumption DEF LineBufferAssumption
      <4> HIDE DEF e
      <4>3. /\ l \o e \in Seq(Byte)
            /\ Len(l \o e) = Len(l) + Len(e)
            /\ \A j \in 1..(Len(l) + Len(e)) :
                  (l \o e)[j] = IF j <= Len(l) THEN l[j] ELSE e[j - Len(l)]
        BY <2>4, <4>2, ConcatProperties
      <4>4. Len(l \o e) = i - start
        BY <2>1, <2>3, <2>4, <4>2, <4>3
      <4>5. ASSUME NEW j \in 1..(i - start) PROVE r[j] = (l \o e)[j]
        <5>1. CASE j <= Len(l)
          BY <2>1, <2>3, <2>4, <4>1, <4>2, <4>3, <5>1
        <5>2. CASE j = Len(l) + 1
          <6>1. start + j = i - 1 /\ j - Len(l) = 1 /\ ~(j <= Len(l))
            BY <2>1, <2>3, <2>4, <5>2
          <6> QED
            BY <2>1, <2>4, <4>1, <4>2, <4>3, <4>4, <6>1
        <5>3. CASE j = Len(l) + 2
          <6>1. start + j = i /\ j - Len(l) = 2 /\ ~(j <= Len(l))
            BY <2>1, <2>3, <2>4, <5>3
          <6> QED
            BY <2>1, <2>4, <4>1, <4>2, <4>3, <4>4, <6>1
        <5>4. j <= Len(l) \/ j = Len(l) + 1 \/ j = Len(l) + 2
          BY <2>1, <2>3, <2>4
        <5> QED
          BY <5>1, <5>2, <5>3, <5>4
      <4>6. r = l \o e
        BY <4>1, <4>3, <4>4, <4>5, SeqEqual
      <4> QED
        BY <4>6 DEF r, e
    <3>4. SubSeq(s, 1, start) \o SubSeq(s, start + 1, i) = SubSeq(s, 1, i)
      <4>1. /\ 1 \in 1..(Len(s) + 1) /\ start \in (1 - 1)..Len(s)
            /\ i \in start..Len(s)
        BY <1>1, <1>2, <2>1, <2>2
      <4> QED
        BY <4>1, ConcatAdjacentSubSeq
    <3> QED
      BY <3>2, <3>3, <3>4
  <2> HIDE DEF new
  <2>8. \A k \in 1..Len(new) : LineEnds(new[k]) = {} /\ Len(new[k]) + 2 <= i
    <3> SUFFICES ASSUME NEW k \in 1..Len(new)
                 PROVE  LineEnds(new[k]) = {} /\ Len(new[k]) + 2 <= i
      OBVIOUS
    <3>1. CASE k = Len(ls) + 1
      BY <2>1, <2>3, <2>4, <2>5, <2>6, <3>1
    <3>2. CASE k \in 1..Len(ls)
      <4>1. new[k] = ls[k]
        BY <2>6, <3>2
      <4>2. LineEnds(ls[k]) = {} /\ Len(ls[k]) + 2 <= i - 1
        BY <1>1, <3>2
      <4>3. Len(ls[k]) \in Nat /\ i \in Int
        BY <1>2, <3>2
      <4>4. Len(ls[k]) + 2 <= i
        BY <4>2, <4>3
      <4> QED
        BY <4>1, <4>2, <4>4
    <3> QED
      BY <1>2, <2>6, <3>1, <3>2
  <2>9. new[1] # <<>> => new[1][1] = s[1]
    <3>1. CASE ls = <<>>
      <4>1. new[1] = l /\ start = 0
        BY <1>1, <2>6, <3>1
      <4>2. l # <<>> => Len(l) \in Nat \ {0}
        BY <2>4, EmptySeq
      <4>3. l # <<>> => l[1] = s[1]
        BY <2>1, <2>3, <2>4, <4>1, <4>2
      <4> QED
        BY <4>1, <4>3
    <3>2. CASE ls # <<>>
      <4>1. 1 \in 1..Len(ls)
        BY <1>1, <3>2, EmptySeq
      <4> QED
        BY <1>1, <2>6, <3>2, <4>1
    <3> QED
      BY <3>1, <3>2
  <2>10. /\ i \in 0..i /\ i # 0 /\ \A j \in (i + 1)..i : j \notin LineEnds(s)
    BY <2>1
  <2>11. SplitAt(s, i, new, i)
    BY <1>4, <2>6, <2>7, <2>8, <2>9, <2>10 DEF SplitAt
  <2> QED
    BY <2>11 DEF new, l
<1> QED
  BY <1>3, <1>4

LEMMA SplitFound ==
    ASSUME NEW s \in Seq(Byte)
    PROVE  SplitAt(s, Len(s), Lines(s), Split(s).start)
<1> DEFINE n == Len(s)
           Step(g, i) ==
              IF i = 0 THEN [lines |-> <<>>, start |-> 0]
              ELSE IF i \in LineEnds(s)
                THEN [lines |-> Append(g[i - 1].lines,
                                  SubSeq(s, g[i - 1].start + 1, i - 2)),
                      start |-> i]
              ELSE g[i - 1]
<1>1. n \in Nat
  BY LenProperties
<1>2. \E F : F = [i \in 0..n |-> Step(F, i)]
  <2> DEFINE M == {m \in Nat : \E g : g = [i \in 0..m |-> Step(g, i)]}
  <2>1. 0 \in M
    <3> DEFINE g == [i \in 0..0 |-> [lines |-> <<>>, start |-> 0]]
    <3>1. g = [i \in 0..0 |-> Step(g, i)]
      OBVIOUS
    <3> HIDE DEF g, Step
    <3> QED
      BY <3>1
  <2>2. ASSUME NEW m \in Nat, m \in M PROVE m + 1 \in M
    <3>1. PICK g : g = [i \in 0..m |-> Step(g, i)]
      BY <2>2
    <3> DEFINE h == [i \in 0..(m + 1) |-> IF i = m + 1 THEN Step(g, i)
                                                       ELSE g[i]]
    <3>2. ASSUME NEW i \in 0..(m + 1) PROVE h[i] = Step(h, i)
      <4>1. CASE i = 0
        BY <3>1, <4>1
      <4>2. CASE i # 0
        <5>1. i - 1 \in 0..m /\ h[i - 1] = g[i - 1]
          BY <4>2
        <5>2. Step(h, i) = Step(g, i)
          BY <4>2, <5>1
        <5>3. h[i] = Step(g, i)
          <6>1. CASE i = m + 1
            BY <6>1
          <6>2. CASE i # m + 1
            <7>1. i \in 0..m /\ h[i] = g[i]
              BY <6>2
            <7> HIDE DEF Step, h
            <7> QED
              BY <3>1, <7>1
          <6> QED
            BY <6>1, <6>2
        <5> QED
          BY <5>2, <5>3
      <4> QED
        BY <4>1, <4>2
    <3> HIDE DEF Step
    <3>3. h = [i \in 0..(m + 1) |-> Step(h, i)]
      BY <3>2
    <3>4. m + 1 \in Nat
      OBVIOUS
    <3> HIDE DEF h
    <3> QED
      BY <3>3, <3>4, Zenon
  <2> HIDE DEF M
  <2>3. n \in M
    BY <1>1, <2>1, <2>2, Induction
  <2> QED
    BY <2>3 DEF M
<1>3. PICK F : F = [i \in 0..n |-> Step(F, i)] /\ Split(s) = F[n]
  BY <1>2 DEF Split
<1>4. \A i \in 0..n : F[i] = Step(F, i)
  BY <1>3
<1> DEFINE M == {m \in Nat : m <= n => SplitAt(s, m, F[m].lines, F[m].start)}
<1>5. 0 \in M
  <2>1. F[0].lines = <<>> /\ F[0].start = 0
    <3>1. F[0] = Step(F, 0)
      <4>1. 0 \in 0..n
        BY <1>1
      <4> HIDE DEF Step
      <4> QED
        BY <1>4, <4>1
    <3> QED
      BY <3>1
  <2>2. SubSeq(s, 1, 0) = <<>>
    BY SubSeqEmpty
  <2>3. SplitAt(s, 0, <<>>, 0)
    <3>1. <<>> \in Seq(Seq(Byte)) /\ Len(<<>>) = 0
      BY EmptySeq
    <3>2. Joined(<<>>) = SubSeq(s, 1, 0)
      BY <2>2, JoinedEmpty
    <3>3. 1..Len(<<>>) = {} /\ (0 + 1)..0 = {} /\ 0 \in 0..0
      OBVIOUS
    <3> QED
      BY <3>1, <3>2, <3>3, Zenon DEF SplitAt
  <2> QED
    BY <2>1, <2>3
<1>6. ASSUME NEW m \in Nat, m \in M PROVE m + 1 \in M
  <2> SUFFICES ASSUME m + 1 <= n
               PROVE  SplitAt(s, m + 1, F[m + 1].lines, F[m + 1].start)
    OBVIOUS
  <2>1. /\ m + 1 \in 1..n /\ m + 1 \in 0..n /\ (m + 1) - 1 = m /\ m + 1 # 0
        /\ m <= n
    BY <1>1, <1>6
  <2> DEFINE ls == F[m].lines
             start == F[m].start
  <2>2. SplitAt(s, (m + 1) - 1, ls, start)
    BY <1>6, <2>1
  <2>3. F[m + 1] = IF m + 1 \in LineEnds(s)
                     THEN [lines |-> Append(ls,
                                       SubSeq(s, start + 1, (m + 1) - 2)),
                           start |-> m + 1]
                     ELSE F[m]
    BY <1>4, <2>1
  <2> HIDE DEF ls, start
  <2>4. /\ m + 1 \in LineEnds(s) =>
              SplitAt(s, m + 1,
                 Append(ls, SubSeq(s, start + 1, (m + 1) - 2)), m + 1)
        /\ m + 1 \notin LineEnds(s) => SplitAt(s, m + 1, ls, start)
    BY <2>1, <2>2, SplitStep
  <2>5. CASE m + 1 \in LineEnds(s)
    BY <2>3, <2>4, <2>5
  <2>6. CASE m + 1 \notin LineEnds(s)
    BY <2>3, <2>4, <2>6 DEF ls, start
  <2> QED
    BY <2>5, <2>6
<1> HIDE DEF M
<1>7. n \in M
  BY <1>1, <1>5, <1>6, Induction
<1> QED
  BY <1>1, <1>3, <1>7 DEF M, Lines

(***************************************************************************)
(* The lines of a chunk and its rest are the chunk, and no more line ends  *)
(* are in them.                                                            *)
(***************************************************************************)
LEMMA ChunkLines ==
    ASSUME NEW s \in Seq(Byte)
    PROVE  /\ Lines(s) \in Seq(Seq(Byte))
           /\ Rest(s) \in Seq(Byte) /\ Len(Rest(s)) <= Len(s)
           /\ Joined(Lines(s)) \o Rest(s) = s
           /\ LineEnds(Rest(s)) = {}
           /\ Lines(s) = <<>> => LineEnds(s) = {} /\ Rest(s) = s
           /\ LineEnds(s) = {} => Lines(s) = <<>>
           /\ \A k \in 1..Len(Lines(s)) :
                 LineEnds(Lines(s)[k]) = {} /\ Len(Lines(s)[k]) + 2 <= Len(s)
           /\ Lines(s) # <<>> /\ Lines(s)[1] # <<>> => Lines(s)[1][1] = s[1]
<1> DEFINE n == Len(s)
           ls == Lines(s)
           start == Split(s).start
<1>1. n \in Nat
  BY LenProperties
<1>2. Rest(s) = SubSeq(s, start + 1, n)
  BY DEF Rest
<1>3. SplitAt(s, n, ls, start)
  BY SplitFound
<1> HIDE DEF n, ls, start
<1>4. /\ ls \in Seq(Seq(Byte)) /\ start \in 0..n
      /\ Joined(ls) = SubSeq(s, 1, start)
      /\ \A j \in (start + 1)..n : j \notin LineEnds(s)
      /\ start # 0 => start \in LineEnds(s)
      /\ ls = <<>> <=> start = 0
      /\ \A k \in 1..Len(ls) : LineEnds(ls[k]) = {} /\ Len(ls[k]) + 2 <= n
      /\ ls # <<>> /\ ls[1] # <<>> => ls[1][1] = s[1]
  BY <1>3 DEF SplitAt
<1>5. start \in Nat /\ start <= n /\ n <= Len(s) /\ n = Len(s)
  BY <1>1, <1>4 DEF n
<1>6. Rest(s) \in Seq(Byte) /\ Len(Rest(s)) = n - start
  BY <1>1, <1>2, <1>5, PartType
<1>7. LineEnds(Rest(s)) = {}
  BY <1>1, <1>2, <1>4, <1>5, PartNoEnds
<1>8. Joined(ls) \o Rest(s) = s
  <2>1. 1 \in 1..(n + 1) /\ start \in (1 - 1)..n /\ n \in start..n
    BY <1>1, <1>5
  <2>2. SubSeq(s, 1, start) \o SubSeq(s, start + 1, n) = SubSeq(s, 1, n)
    BY <1>5, <2>1, ConcatAdjacentSubSeq
  <2> QED
    BY <1>2, <1>4, <1>5, <2>2, SubSeqFull
<1>9. ASSUME start = 0 PROVE LineEnds(s) = {} /\ Rest(s) = s
  <2>1. LineEnds(s) \subseteq (start + 1)..n
    BY <1>1, <1>5, <1>9 DEF LineEnds
  <2>2. Rest(s) = SubSeq(s, 1, Len(s))
    BY <1>2, <1>5, <1>9
  <2> QED
    BY <1>4, <2>1, <2>2, SubSeqFull
<1>10. Len(Rest(s)) <= n
  BY <1>1, <1>5, <1>6
<1> QED
  BY <1>4, <1>5, <1>6, <1>7, <1>8, <1>9, <1>10 DEF ls

-----------------------------------------------------------------------------
(***************************************************************************)
(* What a chunk hands to message_parse                                     *)
(***************************************************************************)
NewLines(chunk) ==
    [k \in DOMAIN Lines(chunk) |-> Appended(Waiting(k), Lines(chunk)[k])]

LEMMA AppendedFits ==
    ASSUME NEW buffer \in Seq(Byte), NEW next \in Seq(Byte),
           Len(buffer) < LineMax
    PROVE  /\ Appended(buffer, next) \in Seq(Byte)
           /\ Len(Appended(buffer, next)) < LineMax
           /\ ~TooLong(buffer, next) => Appended(buffer, next) = buffer \o next
<1>1. Len(buffer) \in Nat /\ Len(next) \in Nat /\ LineMax \in Nat
  BY LenProperties, LineBufferAssumption DEF LineBufferAssumption
<1>2. /\ buffer \o next \in Seq(Byte)
      /\ Len(buffer \o next) = Len(buffer) + Len(next)
  BY ConcatProperties
<1>3. CASE TooLong(buffer, next)
  <2> DEFINE m == LineMax - Len(buffer) - 1
             part == SubSeq(next, 1, m)
  <2>1. m \in Nat /\ m <= Len(next)
    BY <1>1, <1>3 DEF TooLong
  <2>2. part \in Seq(Byte) /\ Len(part) = m
    <3> HIDE DEF m
    <3>1. 0 \in Nat /\ 0 <= m /\ 0 + 1 = 1 /\ m - 0 = m
      BY <2>1
    <3> QED
      BY <2>1, <3>1, PartType
  <2> HIDE DEF part
  <2>3. /\ buffer \o part \in Seq(Byte)
        /\ Len(buffer \o part) = Len(buffer) + Len(part)
    BY <2>2, ConcatProperties
  <2>4. Len(buffer \o part) < LineMax
    BY <1>1, <2>2, <2>3
  <2>5. Appended(buffer, next) = buffer \o part
    BY <1>3 DEF Appended, part
  <2> QED
    BY <1>3, <2>3, <2>4, <2>5
<1>4. CASE ~TooLong(buffer, next)
  <2>1. Appended(buffer, next) = buffer \o next
    BY <1>4 DEF Appended
  <2>2. Len(buffer) + Len(next) < LineMax
    BY <1>1, <1>4 DEF TooLong
  <2> QED
    BY <1>2, <2>1, <2>2
<1> QED
  BY <1>3, <1>4

LEMMA NewLinesFit ==
    ASSUME line_buffer \in Seq(Byte), NEW chunk \in Seq(Byte),
           ~Overruns(chunk)
    PROVE  /\ NewLines(chunk) \in Seq(Seq(Byte))
           /\ Len(NewLines(chunk)) = Len(Lines(chunk))
           /\ \A k \in 1..Len(Lines(chunk)) :
                 /\ NewLines(chunk)[k] = Appended(Waiting(k), Lines(chunk)[k])
                 /\ Len(NewLines(chunk)[k]) < LineMax
<1> DEFINE ls == Lines(chunk)
<1>1. ls \in Seq(Seq(Byte)) /\ (ls # <<>> => LineEnds(chunk) # {})
  BY ChunkLines
<1> HIDE DEF ls
<1>2. /\ Len(ls) \in Nat /\ DOMAIN ls = 1..Len(ls)
      /\ \A k \in 1..Len(ls) : ls[k] \in Seq(Byte)
      /\ Len(line_buffer) \in Nat /\ LineMax \in Nat /\ 0 < LineMax
  BY <1>1, LenProperties, LineBufferAssumption DEF LineBufferAssumption
<1>3. ASSUME NEW k \in 1..Len(ls)
      PROVE  Waiting(k) \in Seq(Byte) /\ Len(Waiting(k)) < LineMax
  <2>1. CASE k = 1
    <3>1. ls # <<>>
      BY <1>2
    <3>2. Len(line_buffer) < LineMax
      BY <1>1, <1>2, <3>1 DEF Overruns
    <3> QED
      BY <2>1, <3>2 DEF Waiting
  <2>2. CASE k # 1
    BY <1>2, <2>2, EmptySeq DEF Waiting
  <2> QED
    BY <2>1, <2>2
<1>4. \A k \in 1..Len(ls) : /\ Appended(Waiting(k), ls[k]) \in Seq(Byte)
                            /\ Len(Appended(Waiting(k), ls[k])) < LineMax
  BY <1>2, <1>3, AppendedFits
<1>5. NewLines(chunk) = [k \in 1..Len(ls) |-> Appended(Waiting(k), ls[k])]
  BY <1>2 DEF NewLines, ls
<1> QED
  BY <1>2, <1>4, <1>5 DEF ls

LEMMA NoEndsConcat ==
    ASSUME NEW a \in Seq(Byte), NEW b \in Seq(Byte),
           LineEnds(a) = {}, LineEnds(b) = {},
           a # <<>> /\ b # <<>> => ~(a[Len(a)] = CR /\ b[1] = LF)
    PROVE  LineEnds(a \o b) = {}
<1> DEFINE n == Len(a)
           m == Len(b)
           u == a \o b
<1>1. /\ n \in Nat /\ m \in Nat /\ Len(u) = n + m
      /\ \A i \in 1..(n + m) : u[i] = IF i <= n THEN a[i] ELSE b[i - n]
      /\ (n # 0 => a # <<>>) /\ (m # 0 => b # <<>>)
  BY LenProperties, ConcatProperties, EmptySeq
<1> SUFFICES ASSUME NEW i \in LineEnds(u) PROVE FALSE
  OBVIOUS
<1> HIDE DEF u
<1>2. i \in 2..(n + m) /\ u[i - 1] = CR /\ u[i] = LF
  BY <1>1 DEF LineEnds
<1>3. CASE i <= n
  <2>1. i \in 2..n /\ a[i - 1] = CR /\ a[i] = LF
    BY <1>1, <1>2, <1>3
  <2> QED
    BY <2>1 DEF LineEnds
<1>4. CASE i = n + 1
  <2>1. n # 0 /\ m # 0 /\ i - n = 1 /\ i - 1 = n /\ ~(i <= n)
    BY <1>1, <1>2, <1>4
  <2>2. a[n] = CR /\ b[1] = LF
    BY <1>1, <1>2, <1>4, <2>1
  <2> QED
    BY <1>1, <2>1, <2>2
<1>5. CASE i > n + 1
  <2>1. /\ i - n \in 2..m /\ (i - n) - 1 = (i - 1) - n
        /\ ~(i <= n) /\ ~(i - 1 <= n) /\ i - 1 \in 1..(n + m)
    BY <1>1, <1>2, <1>5
  <2>2. b[(i - n) - 1] = CR /\ b[i - n] = LF
    BY <1>1, <1>2, <2>1
  <2> QED
    BY <2>1, <2>2 DEF LineEnds
<1> QED
  BY <1>1, <1>2, <1>3, <1>4, <1>5

(***************************************************************************)
(* Undamaged, they are the lines of the chunk, and the first one has in    *)
(* front what was waiting.                                                 *)
(***************************************************************************)
LEMMA NewLinesExact ==
    ASSUME line_buffer \in Seq(Byte), LineEnds(line_buffer) = {},
           NEW chunk \in Seq(Byte), chunk # <<>>, Len(chunk) <= ReadMax,
           LineEnds(chunk) # {}, ~Overruns(chunk), ~Damages(chunk)
    PROVE  /\ Joined(NewLines(chunk)) = line_buffer \o Joined(Lines(chunk))
           /\ \A k \in 1..Len(NewLines(chunk)) :
                 LineEnds(NewLines(chunk)[k]) = {}
<1> DEFINE ls == Lines(chunk)
           new == NewLines(chunk)
           first == line_buffer \o ls[1]
<1>1. /\ ls \in Seq(Seq(Byte)) /\ ls # <<>>
      /\ \A k \in 1..Len(ls) :
            LineEnds(ls[k]) = {} /\ Len(ls[k]) + 2 <= Len(chunk)
      /\ ls[1] # <<>> => ls[1][1] = chunk[1]
  BY ChunkLines
<1>2. /\ new \in Seq(Seq(Byte)) /\ Len(new) = Len(ls)
      /\ \A k \in 1..Len(ls) : new[k] = Appended(Waiting(k), ls[k])
  BY NewLinesFit
<1>3. /\ Head(ls) = ls[1] /\ Head(chunk) = chunk[1]
      /\ Last(line_buffer) = line_buffer[Len(line_buffer)]
  BY DEF Last
<1>4. ~Damages(chunk) =>
         line_buffer = <<>> \/ /\ ~(Last(line_buffer) = CR /\ Head(chunk) = LF)
                               /\ ~TooLong(line_buffer, Head(ls))
  BY DEF Damages
<1>5. Len(line_buffer) < LineMax
  <2>1. ~(Len(line_buffer) >= LineMax)
    BY DEF Overruns
  <2> QED
    BY <2>1, LenProperties, LineBufferAssumption DEF LineBufferAssumption
<1> HIDE DEF ls, new
<1>6. /\ Len(ls) \in Nat /\ Len(ls) # 0 /\ 1 \in 1..Len(ls)
      /\ \A k \in 1..Len(ls) : ls[k] \in Seq(Byte) /\ Len(ls[k]) \in Nat
      /\ Len(chunk) \in Nat /\ LineMax \in Nat /\ ReadMax \in Nat
      /\ ReadMax <= LineMax /\ 0 < LineMax
  BY <1>1, LenProperties, EmptySeq, LineBufferAssumption
     DEF LineBufferAssumption
<1>7. \A k \in 1..Len(ls) : ~TooLong(<<>>, ls[k])
  <2>1. \A k \in 1..Len(ls) : 0 + Len(ls[k]) < LineMax
    BY <1>1, <1>6
  <2> QED
    BY <1>6, <2>1, EmptySeq DEF TooLong
<1>8. new[1] = first /\ first \in Seq(Byte)
  <2>1. ~TooLong(line_buffer, ls[1])
    BY <1>3, <1>4, <1>6, <1>7
  <2>2. Waiting(1) = line_buffer
    BY DEF Waiting
  <2>3. first \in Seq(Byte)
    BY <1>6, ConcatProperties
  <2> QED
    BY <1>2, <1>5, <1>6, <2>1, <2>2, <2>3, AppendedFits
<1>9. ASSUME NEW k \in 2..Len(ls) PROVE new[k] = ls[k]
  <2>1. Waiting(k) = <<>> /\ k \in 1..Len(ls)
    BY DEF Waiting
  <2>2. <<>> \in Seq(Byte) /\ Len(<<>>) < LineMax
    BY <1>6, EmptySeq
  <2>3. Appended(<<>>, ls[k]) = <<>> \o ls[k]
    BY <1>6, <1>7, <2>1, <2>2, AppendedFits
  <2> QED
    BY <1>2, <1>6, <2>1, <2>3, ConcatEmptySeq
<1> DEFINE rest == Tail(ls)
<1>10. /\ rest \in Seq(Seq(Byte)) /\ Len(rest) = Len(ls) - 1
       /\ \A k \in 1..Len(rest) : rest[k] = ls[k + 1]
  BY <1>1, HeadTailProperties
<1> HIDE DEF first, rest
<1>11. new = <<first>> \o rest /\ ls = <<ls[1]>> \o rest
  <2>1. ASSUME NEW e \in Seq(Byte), NEW q \in Seq(Seq(Byte)),
               Len(q) = Len(ls), q[1] = e,
               \A k \in 2..Len(ls) : q[k] = ls[k]
        PROVE  q = <<e>> \o rest
    <3> DEFINE h == <<e>>
    <3>1. h \in Seq(Seq(Byte)) /\ Len(h) = 1 /\ h[1] = e
      OBVIOUS
    <3> HIDE DEF h
    <3>2. /\ h \o rest \in Seq(Seq(Byte))
          /\ Len(h \o rest) = Len(h) + Len(rest)
          /\ \A k \in 1..(Len(h) + Len(rest)) :
                (h \o rest)[k] = IF k <= Len(h) THEN h[k]
                                                ELSE rest[k - Len(h)]
      BY <1>10, <3>1, ConcatProperties
    <3>3. Len(h \o rest) = Len(ls)
      BY <1>6, <1>10, <3>1, <3>2
    <3>4. ASSUME NEW k \in 1..Len(ls) PROVE q[k] = (h \o rest)[k]
      <4>1. CASE k = 1
        BY <1>6, <1>10, <2>1, <3>1, <3>2, <4>1
      <4>2. CASE k # 1
        <5>1. /\ k - 1 \in 1..Len(rest) /\ (k - 1) + 1 = k /\ k \in 2..Len(ls)
              /\ k \in 1..(Len(h) + Len(rest)) /\ ~(k <= Len(h))
              /\ k - Len(h) = k - 1
          BY <1>6, <1>10, <3>1, <4>2
        <5>2. (h \o rest)[k] = rest[k - 1]
          BY <3>2, <5>1
        <5> QED
          BY <1>10, <2>1, <5>1, <5>2
      <4> QED
        BY <4>1, <4>2
    <3>5. q = h \o rest
      <4> DEFINE t == h \o rest
      <4>1. /\ q \in Seq(Seq(Byte)) /\ t \in Seq(Seq(Byte))
            /\ Len(q) = Len(t)
            /\ \A k \in 1..Len(q) : q[k] = t[k]
        BY <2>1, <3>2, <3>3, <3>4
      <4> HIDE DEF t
      <4>2. q = t
        BY ONLY <4>1, SeqEqual
      <4> QED
        BY <4>2 DEF t
    <3> QED
      BY <3>5 DEF h
  <2>2. new = <<first>> \o rest
    BY <1>2, <1>8, <1>9, <2>1
  <2>3. ls = <<ls[1]>> \o rest
    BY <1>1, <1>6, <2>1
  <2> QED
    BY <2>2, <2>3
<1>12. Joined(new) = line_buffer \o Joined(ls)
  <2> DEFINE e == <<CR, LF>>
  <2>1. e \in Seq(Byte)
    BY LineBufferAssumption DEF LineBufferAssumption
  <2>2. /\ <<first>> \in Seq(Seq(Byte)) /\ <<ls[1]>> \in Seq(Seq(Byte))
        /\ ls[1] \in Seq(Byte)
    BY <1>6, <1>8
  <2>3. /\ Joined(new) = (first \o e) \o Joined(rest)
        /\ Joined(ls) = (ls[1] \o e) \o Joined(rest)
        /\ Joined(rest) \in Seq(Byte) /\ ls[1] \o e \in Seq(Byte)
    BY <1>8, <1>10, <1>11, <2>2, JoinedConcat, JoinedSingle
  <2> HIDE DEF e
  <2>4. \A p, q, r \in Seq(Byte) : /\ (p \o q) \o r = p \o (q \o r)
                                   /\ p \o q \in Seq(Byte)
    BY Associative
  <2>5. first \o e = line_buffer \o (ls[1] \o e)
    <3>1. e \in Seq(Byte) /\ ls[1] \in Seq(Byte) /\ line_buffer \in Seq(Byte)
      BY <2>1, <2>2
    <3>2. (line_buffer \o ls[1]) \o e = line_buffer \o (ls[1] \o e)
      BY <2>4, <3>1
    <3> QED
      BY <3>2 DEF first
  <2>6. (line_buffer \o (ls[1] \o e)) \o Joined(rest)
           = line_buffer \o ((ls[1] \o e) \o Joined(rest))
    <3>1. /\ ls[1] \o e \in Seq(Byte) /\ Joined(rest) \in Seq(Byte)
          /\ line_buffer \in Seq(Byte)
      BY <2>3
    <3> QED
      BY <2>4, <3>1
  <2> QED
    BY <2>3, <2>5, <2>6
<1>13. ASSUME NEW k \in 1..Len(new) PROVE LineEnds(new[k]) = {}
  <2>1. CASE k = 1
    <3>1. LineEnds(ls[1]) = {} /\ ls[1] \in Seq(Byte)
      BY <1>1, <1>6
    <3>2. line_buffer # <<>> /\ ls[1] # <<>> =>
             ~(line_buffer[Len(line_buffer)] = CR /\ ls[1][1] = LF)
      BY <1>1, <1>3, <1>4
    <3>3. LineEnds(first) = {}
      BY <3>1, <3>2, NoEndsConcat DEF first
    <3> QED
      BY <1>8, <2>1, <3>3
  <2>2. CASE k # 1
    <3>1. k \in 2..Len(ls) /\ k \in 1..Len(ls)
      BY <1>2, <1>6, <2>2
    <3> QED
      BY <1>1, <1>9, <3>1
  <2> QED
    BY <2>1, <2>2
<1> QED
  BY <1>12, <1>13 DEF ls, new

-----------------------------------------------------------------------------
(***************************************************************************)
(* The invariant.  A rest comes out of one read, so that it is no longer   *)
(* than the read buffer: this is why length -1 needs buffers of one size.  *)
(***************************************************************************)
IInv ==
    /\ TypeOK
    /\ Len(line_buffer) <= ReadMax
    /\ LinesExact
    /\ LinesFit

LEMMA InitIInv == Init => IInv
<1> SUFFICES ASSUME Init PROVE IInv
  OBVIOUS
<1>1. /\ line_buffer = <<>> /\ overrun = FALSE /\ stream = <<>>
      /\ handled = <<>> /\ damaged = FALSE
  BY DEF Init
<1>2. /\ LineMax \in Nat /\ ReadMax \in Nat
      /\ <<>> \in Seq(Byte) /\ <<>> \in Seq(Seq(Byte)) /\ Len(<<>>) = 0
  BY EmptySeq, LineBufferAssumption DEF LineBufferAssumption
<1>3. TypeOK /\ Len(line_buffer) <= ReadMax /\ LinesFit
  <2>1. /\ line_buffer \in Seq(Byte) /\ Len(line_buffer) = 0
        /\ stream \in Seq(Byte) /\ handled \in Seq(Seq(Byte))
        /\ 1..Len(handled) = {} /\ DOMAIN handled = {}
    <3>1. DOMAIN <<>> = {} /\ 1..0 = {}
      OBVIOUS
    <3> QED
      BY <1>1, <1>2, <3>1
  <2>2. overrun = FALSE /\ damaged = FALSE
    BY <1>1
  <2>3. 0 <= LineMax /\ 0 <= ReadMax
    BY <1>2
  <2> QED
    BY <2>1, <2>2, <2>3 DEF TypeOK, LinesFit
<1>4. LinesExact
  <2>1. Joined(handled) \o line_buffer = stream
    BY <1>1, <1>2, JoinedEmpty, ConcatEmptySeq
  <2>2. LineEnds(line_buffer) = {} /\ DOMAIN handled = {}
    BY <1>1, <1>2 DEF LineEnds
  <2> QED
    BY <2>1, <2>2 DEF LinesExact, Joined, Ended
<1> QED
  BY <1>3, <1>4 DEF IInv

LEMMA ChunkType ==
    ASSUME NEW chunk \in Chunks
    PROVE  chunk \in Seq(Byte) /\ chunk # <<>> /\ Len(chunk) <= ReadMax
<1>1. PICK n \in 1..ReadMax : chunk \in [1..n -> Byte]
  BY DEF Chunks
<1>2. chunk \in Seq(Byte) /\ Len(chunk) = n /\ n # 0
  BY <1>1
<1> QED
  BY <1>1, <1>2, LineBufferAssumption DEF LineBufferAssumption

LEMMA DataInIInv ==
    ASSUME IInv, NEW chunk \in Chunks, DataIn(chunk)
    PROVE  IInv'
<1>1. /\ line_buffer \in Seq(Byte) /\ Len(line_buffer) <= ReadMax
      /\ handled \in Seq(Seq(Byte)) /\ stream \in Seq(Byte)
      /\ overrun \in BOOLEAN /\ damaged \in BOOLEAN
      /\ \A k \in 1..Len(handled) : Len(handled[k]) < LineMax
      /\ Len(line_buffer) \in Nat /\ Len(handled) \in Nat
      /\ DOMAIN handled = 1..Len(handled)
  BY LenProperties DEF IInv, TypeOK, LinesFit
<1>2. /\ chunk \in Seq(Byte) /\ chunk # <<>> /\ Len(chunk) <= ReadMax
      /\ Len(chunk) \in Nat
  BY ChunkType, LenProperties
<1>3. /\ LineMax \in Nat /\ ReadMax \in Nat \ {0} /\ ReadMax <= LineMax
  BY LineBufferAssumption DEF LineBufferAssumption
<1>4. /\ ~overrun
      /\ stream' = stream \o chunk
      /\ damaged' = (damaged \/ Damages(chunk))
  BY DEF DataIn
<1>5. stream' \in Seq(Byte) /\ damaged' \in BOOLEAN
  <2>1. stream' \in Seq(Byte)
    BY <1>1, <1>2, <1>4, ConcatProperties
  <2>2. damaged' \in BOOLEAN
    BY <1>4
  <2> QED
    BY <2>1, <2>2
<1>6. ASSUME ~damaged'
      PROVE  /\ ~damaged /\ ~Damages(chunk)
             /\ Joined(handled) \o line_buffer = stream
             /\ \A k \in 1..Len(handled) : LineEnds(handled[k]) = {}
             /\ LineEnds(line_buffer) = {}
  <2>1. ~damaged /\ ~Damages(chunk)
    BY <1>4, <1>6
  <2> QED
    BY <1>1, <2>1 DEF IInv, LinesExact, Joined, Ended
<1>7. CASE Overruns(chunk)
  <2>1. /\ overrun' = TRUE /\ line_buffer' = line_buffer
        /\ handled' = handled
    BY <1>7 DEF DataIn
  <2>2. Len(line_buffer) = LineMax /\ ReadMax = LineMax
    BY <1>1, <1>3, <1>7 DEF Overruns
  <2>3. TypeOK' /\ (Len(line_buffer) <= ReadMax)' /\ LinesFit'
    BY <1>1, <1>3, <1>5, <2>1, <2>2 DEF TypeOK, LinesFit
  <2>4. Damages(chunk)
    <3>1. line_buffer # <<>>
      BY <1>3, <2>2, EmptySeq
    <3>2. Lines(chunk) # <<>> /\ Lines(chunk) \in Seq(Seq(Byte))
      BY <1>2, <1>7, ChunkLines DEF Overruns
    <3>3. Head(Lines(chunk)) \in Seq(Byte)
      BY <3>2, HeadTailProperties
    <3>4. TooLong(line_buffer, Head(Lines(chunk)))
      BY <1>3, <2>2, <3>3, LenProperties DEF TooLong
    <3> QED
      BY <3>1, <3>4 DEF Damages
  <2>5. LinesExact'
    BY <1>6, <2>4 DEF LinesExact
  <2> QED
    BY <2>3, <2>5 DEF IInv
<1>8. CASE ~Overruns(chunk)
  <2> DEFINE new == NewLines(chunk)
             rest == Rest(chunk)
             ls == Lines(chunk)
  <2>1. /\ overrun' = overrun /\ line_buffer' = rest
        /\ handled' = handled \o new
    BY <1>8 DEF DataIn, NewLines, Kept
  <2>2. /\ new \in Seq(Seq(Byte)) /\ Len(new) = Len(ls)
        /\ \A k \in 1..Len(new) : Len(new[k]) < LineMax
    BY <1>1, <1>2, <1>8, NewLinesFit
  <2>3. /\ ls \in Seq(Seq(Byte)) /\ rest \in Seq(Byte)
        /\ Len(rest) <= Len(chunk) /\ Len(rest) \in Nat
        /\ Joined(ls) \o rest = chunk /\ LineEnds(rest) = {}
        /\ ls = <<>> => LineEnds(chunk) = {} /\ rest = chunk
        /\ LineEnds(chunk) = {} => ls = <<>>
    BY <1>2, ChunkLines, LenProperties
  <2>4. ~damaged' =>
           /\ Joined(new) \o rest = line_buffer \o chunk
           /\ \A k \in 1..Len(new) : LineEnds(new[k]) = {}
           /\ Joined(new) \in Seq(Byte)
    <3> SUFFICES ASSUME ~damaged'
                 PROVE  /\ Joined(new) \o rest = line_buffer \o chunk
                        /\ \A k \in 1..Len(new) : LineEnds(new[k]) = {}
                        /\ Joined(new) \in Seq(Byte)
      OBVIOUS
    <3>1. ~Damages(chunk) /\ LineEnds(line_buffer) = {}
      BY <1>6
    <3>2. CASE LineEnds(chunk) = {}
      <4>1. line_buffer = <<>>
        BY <3>1, <3>2 DEF Damages
      <4>2. ls = <<>> /\ rest = chunk
        BY <2>3, <3>2
      <4>3. new = <<>>
        BY <2>2, <4>2, EmptySeq
      <4>4. Joined(new) = <<>>
        BY <4>3, JoinedEmpty
      <4>5. \A k \in 1..Len(new) : LineEnds(new[k]) = {}
        BY <2>2, <2>3, <4>2, <4>3, EmptySeq
      <4>6. <<>> \in Seq(Byte)
        BY EmptySeq
      <4> HIDE DEF new, rest, ls
      <4> QED
        BY <4>1, <4>2, <4>4, <4>5, <4>6
    <3>3. CASE LineEnds(chunk) # {}
      <4>1. /\ Joined(new) = line_buffer \o Joined(ls)
            /\ \A k \in 1..Len(new) : LineEnds(new[k]) = {}
        BY <1>1, <1>2, <1>8, <3>1, <3>3, NewLinesExact
      <4> HIDE DEF new, rest, ls
      <4>2. Joined(ls) \in Seq(Byte) /\ Joined(new) \in Seq(Byte)
        BY <2>2, <2>3, JoinedConcat
      <4>3. (line_buffer \o Joined(ls)) \o rest
               = line_buffer \o (Joined(ls) \o rest)
        <5>1. \A p, q, r \in Seq(Byte) : /\ (p \o q) \o r = p \o (q \o r)
                                         /\ p \o q \in Seq(Byte)
          BY Associative
        <5> QED
          BY <1>1, <2>3, <4>2, <5>1
      <4> QED
        BY <2>3, <4>1, <4>2, <4>3
    <3> QED
      BY <3>2, <3>3
  <2> HIDE DEF new, rest, ls
  <2>5. /\ handled \o new \in Seq(Seq(Byte))
        /\ Len(new) \in Nat /\ Len(handled \o new) = Len(handled) + Len(new)
        /\ DOMAIN (handled \o new) = 1..(Len(handled) + Len(new))
        /\ \A k \in 1..(Len(handled) + Len(new)) :
              (handled \o new)[k] = IF k <= Len(handled) THEN handled[k]
                                    ELSE new[k - Len(handled)]
    <3>1. /\ handled \o new \in Seq(Seq(Byte))
          /\ Len(handled \o new) = Len(handled) + Len(new)
          /\ \A k \in 1..(Len(handled) + Len(new)) :
                (handled \o new)[k] = IF k <= Len(handled) THEN handled[k]
                                      ELSE new[k - Len(handled)]
      BY <1>1, <2>2, ConcatProperties
    <3>2. /\ Len(new) \in Nat
          /\ DOMAIN (handled \o new) = 1..Len(handled \o new)
      BY <2>2, <3>1, LenProperties
    <3> QED
      BY <3>1, <3>2
  <2>6. \A k \in 1..(Len(handled) + Len(new)) :
           \/ k \in 1..Len(handled) /\ (handled \o new)[k] = handled[k]
           \/ /\ k - Len(handled) \in 1..Len(new)
              /\ (handled \o new)[k] = new[k - Len(handled)]
    BY <1>1, <2>5
  <2>7. TypeOK' /\ (Len(line_buffer) <= ReadMax)'
    <3>1. Len(rest) <= ReadMax /\ Len(rest) <= LineMax
      BY <1>2, <1>3, <2>3
    <3> QED
      BY <1>1, <1>5, <2>1, <2>3, <2>5, <3>1 DEF TypeOK
  <2>8. LinesFit'
    <3>1. \A k \in 1..(Len(handled) + Len(new)) :
             Len((handled \o new)[k]) < LineMax
      BY <1>1, <2>2, <2>6
    <3> QED
      BY <1>4, <2>1, <2>5, <3>1 DEF LinesFit
  <2>9. LinesExact'
    <3> SUFFICES ASSUME ~damaged'
                 PROVE  /\ Joined(handled \o new) \o rest = stream \o chunk
                        /\ \A k \in DOMAIN (handled \o new) :
                              LineEnds((handled \o new)[k]) = {}
                        /\ LineEnds(rest) = {}
      BY <1>4, <2>1 DEF LinesExact, Joined, Ended
    <3>1. Joined(handled \o new) \o rest = stream \o chunk
      <4>1. /\ Joined(handled \o new) = Joined(handled) \o Joined(new)
            /\ Joined(handled) \in Seq(Byte) /\ Joined(new) \in Seq(Byte)
        BY <1>1, <2>2, JoinedConcat
      <4>2. \A p, q, r \in Seq(Byte) : /\ (p \o q) \o r = p \o (q \o r)
                                       /\ p \o q \in Seq(Byte)
        BY Associative
      <4>3. (Joined(handled) \o Joined(new)) \o rest
               = Joined(handled) \o (line_buffer \o chunk)
        <5>1. (Joined(handled) \o Joined(new)) \o rest
                 = Joined(handled) \o (Joined(new) \o rest)
          <6>1. /\ Joined(handled) \in Seq(Byte) /\ Joined(new) \in Seq(Byte)
                /\ rest \in Seq(Byte)
            BY <2>3, <4>1
          <6> QED
            BY <4>2, <6>1
        <5> QED
          BY <2>4, <5>1
      <4>4. Joined(handled) \o (line_buffer \o chunk)
               = (Joined(handled) \o line_buffer) \o chunk
        <5>1. /\ Joined(handled) \in Seq(Byte) /\ line_buffer \in Seq(Byte)
              /\ chunk \in Seq(Byte)
          BY <1>1, <1>2, <4>1
        <5> QED
          BY <4>2, <5>1
      <4>5. (Joined(handled) \o line_buffer) \o chunk = stream \o chunk
        BY <1>6
      <4> QED
        BY <4>1, <4>3, <4>4, <4>5
    <3>2. \A k \in DOMAIN (handled \o new) : LineEnds((handled \o new)[k]) = {}
      BY <1>6, <2>4, <2>5, <2>6
    <3> QED
      BY <2>3, <3>1, <3>2
  <2> QED
    BY <2>7, <2>8, <2>9 DEF IInv
<1> QED
  BY <1>7, <1>8

LEMMA NextIInv == IInv /\ [Next]_vars => IInv'
<1>1. CASE UNCHANGED vars
  BY <1>1 DEF IInv, TypeOK, LinesExact, LinesFit, vars
<1>2. ASSUME IInv, NEW chunk \in Chunks, DataIn(chunk) PROVE IInv'
  BY <1>2, DataInIInv
<1> QED
  BY <1>1, <1>2 DEF Next

LEMMA AlwaysIInv == Spec => []IInv
BY InitIInv, NextIInv, PTL DEF Spec

-----------------------------------------------------------------------------
(***************************************************************************)
(* line_buffer holds no more than its size, and every variable keeps its   *)
(* type, whatever is read.                                                 *)
(***************************************************************************)
THEOREM TypeCorrect == Spec => []TypeOK
BY AlwaysIInv, PTL DEF IInv

(***************************************************************************)
(* However a stream is cut into reads, its lines are handled, each once,   *)
(* whole and in order, until one of the cases that Damages names.          *)
(***************************************************************************)
THEOREM LinesCorrect == Spec => []LinesExact
BY AlwaysIInv, PTL DEF IInv

(***************************************************************************)
(* Every line handled has room for its '\0', and a copy of length -1 needs *)
(* a read that fills a line buffer of the size of the read buffer.         *)
(***************************************************************************)
THEOREM LinesBounded == Spec => []LinesFit
BY AlwaysIInv, PTL DEF IInv

-----------------------------------------------------------------------------
\* Where the next space is, or the end
LEMMA NextSpaceFound ==
    ASSUME NEW s \in Seq(Char), NEW i \in 1..(Len(s) + 1)
    PROVE  /\ NextSpace(s, i) \in i..(Len(s) + 1)
           /\ \A j \in i..(NextSpace(s, i) - 1) : s[j] # Space
           /\ NextSpace(s, i) <= Len(s) => s[NextSpace(s, i)] = Space
<1> DEFINE spaces == {j \in i..Len(s) : s[j] = Space}
<1>1. Len(s) \in Nat
  BY LenProperties
<1>2. CASE spaces = {}
  <2>1. NextSpace(s, i) = Len(s) + 1
    BY <1>2 DEF NextSpace
  <2>2. \A j \in i..Len(s) : s[j] # Space
    BY <1>2
  <2> QED
    BY <1>1, <2>1, <2>2
<1>3. CASE spaces # {}
  <2> DEFINE e == NextSpace(s, i)
  <2>1. e = CHOOSE x \in spaces : \A y \in spaces : x <= y
    BY <1>3 DEF NextSpace, Min
  <2>2. spaces \in SUBSET Nat
    BY <1>1
  <2>3. \E x \in spaces : \A y \in spaces : ~(y < x)
    <3> HIDE DEF spaces
    <3> QED
      BY <1>3, <2>2, LeastNatural
  <2>4. \E x \in spaces : \A y \in spaces : x <= y
    <3>1. PICK x \in spaces : \A y \in spaces : ~(y < x)
      BY <2>3
    <3>2. \A y \in spaces : x <= y
      BY <1>1, <3>1
    <3> QED
      BY <3>2
  <2> HIDE DEF e
  <2>5. e \in spaces /\ \A y \in spaces : e <= y
    <3> HIDE DEF spaces
    <3> QED
      BY <2>1, <2>4
  <2>6. e \in i..Len(s) /\ s[e] = Space
    BY <2>5
  <2>7. ASSUME NEW j \in i..(e - 1) PROVE s[j] # Space
    <3>1. j \in i..Len(s) /\ ~(e <= j)
      BY <1>1, <2>6
    <3> QED
      BY <2>5, <3>1
  <2> QED
    BY <1>1, <2>6, <2>7 DEF e
<1> QED
  BY <1>2, <1>3

\* The argument that starts at i, and where the next one does
Word(s, i) == SubSeq(s, i, NextSpace(s, i) - 1)

After(s, i) == Behind(s, NextSpace(s, i))

LEMMA AfterType ==
    ASSUME NEW s \in Seq(Char), NEW i \in 1..Len(s)
    PROVE  After(s, i) \in (i + 1)..(Len(s) + 1)
<1>1. Len(s) \in Nat /\ i \in 1..(Len(s) + 1)
  BY LenProperties
<1>2. NextSpace(s, i) \in i..(Len(s) + 1)
  BY <1>1, NextSpaceFound
<1> QED
  BY <1>1, <1>2 DEF After, Behind

(***************************************************************************)
(* The arguments from each position on, by induction from the end of the   *)
(* line                                                                    *)
(***************************************************************************)
LEMMA ArgumentsFound ==
    ASSUME NEW s \in Seq(Char)
    PROVE  /\ Arguments(s)[Len(s) + 1] = <<>>
           /\ \A i \in 1..Len(s) :
                 Arguments(s)[i] =
                    IF s[i] = Colon
                      THEN <<SubSeq(s, i + 1, Len(s))>>
                      ELSE <<Word(s, i)>> \o Arguments(s)[After(s, i)]
<1> DEFINE n == Len(s)
           Step(g, i) == IF i > n THEN <<>>
                         ELSE IF s[i] = Colon THEN <<SubSeq(s, i + 1, n)>>
                         ELSE <<Word(s, i)>> \o g[After(s, i)]
           From(g, j) == g = [i \in j..(n + 1) |-> Step(g, i)]
           M == {m \in Nat : m <= n => \E g : From(g, n + 1 - m)}
<1>1. n \in Nat /\ \A i \in 1..n : After(s, i) \in (i + 1)..(n + 1)
  BY LenProperties, AfterType
<1> HIDE DEF n
<1>2. 0 \in M
  <2> DEFINE g == [i \in (n + 1)..(n + 1) |-> <<>>]
  <2>1. From(g, n + 1)
    BY <1>1
  <2>2. n + 1 - 0 = n + 1
    BY <1>1
  <2> HIDE DEF From
  <2> QED
    BY <2>1, <2>2
<1>3. ASSUME NEW m \in Nat, m \in M PROVE m + 1 \in M
  <2> SUFFICES ASSUME m + 1 <= n PROVE \E g : From(g, n + 1 - (m + 1))
    OBVIOUS
  <2> DEFINE j == n - m
  <2>1. /\ n + 1 - (m + 1) = j /\ n + 1 - m = j + 1
        /\ j \in 1..n
    BY <1>1
  <2>2. PICK g : From(g, j + 1)
    <3> HIDE DEF From
    <3> QED
      BY <1>1, <1>3, <2>1
  <2> HIDE DEF j
  <2> DEFINE h == [i \in j..(n + 1) |-> IF i = j THEN Step(g, j) ELSE g[i]]
  <2>3. ASSUME NEW i \in j..(n + 1) PROVE h[i] = Step(h, i)
    <3>1. i \in 1..n => /\ After(s, i) \in (j + 1)..(n + 1)
                        /\ h[After(s, i)] = g[After(s, i)]
      <4> SUFFICES ASSUME i \in 1..n
                   PROVE  /\ After(s, i) \in (j + 1)..(n + 1)
                          /\ h[After(s, i)] = g[After(s, i)]
        OBVIOUS
      <4>1. After(s, i) \in (i + 1)..(n + 1)
        BY <1>1
      <4>2. After(s, i) \in (j + 1)..(n + 1) /\ After(s, i) \in j..(n + 1)
            /\ After(s, i) # j
        BY <1>1, <2>1, <4>1
      <4> QED
        BY <4>2
    <3>2. Step(h, i) = Step(g, i)
      <4>1. CASE i > n
        BY <4>1
      <4>2. CASE ~(i > n)
        <5>1. i \in 1..n
          BY <1>1, <2>1, <4>2
        <5> HIDE DEF h
        <5> QED
          BY <3>1, <5>1
      <4> QED
        BY <4>1, <4>2
    <3>3. h[i] = Step(g, i)
      <4>1. CASE i = j
        BY <4>1
      <4>2. CASE i # j
        <5>1. i \in (j + 1)..(n + 1) /\ h[i] = g[i]
          BY <1>1, <2>1, <4>2
        <5>2. g[i] = Step(g, i)
          BY <2>2, <5>1
        <5> QED
          BY <5>1, <5>2
      <4> QED
        BY <4>1, <4>2
    <3> QED
      BY <3>2, <3>3
  <2>4. h = [i \in j..(n + 1) |-> Step(h, i)]
    BY <2>3
  <2>5. From(h, j)
    BY <2>4
  <2> HIDE DEF h, From
  <2> QED
    BY <2>1, <2>5
<1>4. \E g : From(g, 1)
  <2>1. n + 1 - n = 1
    BY <1>1
  <2> HIDE DEF M, From
  <2>2. n \in M
    BY <1>1, <1>2, <1>3, Induction
  <2> QED
    BY <1>1, <2>1, <2>2 DEF M
<1> DEFINE A == Arguments(s)
<1>5. From(A, 1)
  <2>1. A = CHOOSE g : From(g, 1)
    BY DEF Arguments, n, Word, After
  <2> HIDE DEF From, A
  <2> QED
    BY <1>4, <2>1
<1> HIDE DEF A
<1>6. \A i \in 1..(n + 1) : A[i] = Step(A, i)
  BY <1>5
<1>7. A[n + 1] = <<>>
  <2>1. n + 1 \in 1..(n + 1) /\ n + 1 > n
    BY <1>1
  <2> QED
    BY <1>6, <2>1
<1>8. ASSUME NEW i \in 1..n
      PROVE  A[i] = IF s[i] = Colon THEN <<SubSeq(s, i + 1, n)>>
                                    ELSE <<Word(s, i)>> \o A[After(s, i)]
  <2>1. i \in 1..(n + 1) /\ ~(i > n)
    BY <1>1
  <2>2. A[i] = Step(A, i)
    BY <1>6, <2>1
  <2> QED
    BY <2>1, <2>2
<1> QED
  BY <1>7, <1>8 DEF A, n

-----------------------------------------------------------------------------
(***************************************************************************)
(* Arguments written out again, one after the other                        *)
(***************************************************************************)
Pieces(args, trailing) ==
    [k \in DOMAIN args |->
       (IF k = Len(args) /\ trailing THEN <<Space, Colon>> ELSE <<Space>>)
         \o args[k]]

LEMMA PiecesType ==
    ASSUME NEW args \in Seq(Seq(Char)), NEW trailing \in BOOLEAN
    PROVE  /\ Pieces(args, trailing) \in Seq(Seq(Char))
           /\ Len(Pieces(args, trailing)) = Len(args)
           /\ \A k \in 1..Len(args) :
                 Pieces(args, trailing)[k] =
                    (IF k = Len(args) /\ trailing THEN <<Space, Colon>>
                                                  ELSE <<Space>>) \o args[k]
<1> DEFINE Piece(k) == (IF k = Len(args) /\ trailing THEN <<Space, Colon>>
                                                     ELSE <<Space>>)
                          \o args[k]
<1>1. /\ Len(args) \in Nat /\ DOMAIN args = 1..Len(args)
      /\ \A k \in 1..Len(args) : args[k] \in Seq(Char)
  BY LenProperties
<1>2. <<Space, Colon>> \in Seq(Char) /\ <<Space>> \in Seq(Char)
  BY MessageAssumption DEF MessageAssumption
<1>3. \A k \in 1..Len(args) : Piece(k) \in Seq(Char)
  <2> SUFFICES ASSUME NEW k \in 1..Len(args) PROVE Piece(k) \in Seq(Char)
    OBVIOUS
  <2>1. \A a \in Seq(Char) : a \o args[k] \in Seq(Char)
    BY <1>1, ConcatProperties
  <2> QED
    BY <1>2, <2>1
<1>4. Pieces(args, trailing) = [k \in 1..Len(args) |-> Piece(k)]
  BY <1>1 DEF Pieces
<1> HIDE DEF Piece
<1>5. /\ Pieces(args, trailing) \in Seq(Seq(Char))
      /\ Len(Pieces(args, trailing)) = Len(args)
      /\ \A k \in 1..Len(args) : Pieces(args, trailing)[k] = Piece(k)
  BY <1>1, <1>3, <1>4
<1> QED
  BY <1>5 DEF Piece

LEMMA WrittenFirst ==
    ASSUME NEW w \in Seq(Char),
           NEW args \in Seq(Seq(Char)), NEW trailing \in BOOLEAN,
           args = <<>> => ~trailing
    PROVE  /\ Written(<<w>> \o args, trailing)
                 = (<<Space>> \o w) \o Written(args, trailing)
           /\ Written(args, trailing) \in Seq(Char)
           /\ <<Space>> \o w \in Seq(Char)
<1> DEFINE all == <<w>> \o args
           first == <<Space>> \o w
           p == Pieces(args, trailing)
           q == Pieces(all, trailing)
<1>1. <<w>> \in Seq(Seq(Char)) /\ Len(<<w>>) = 1 /\ <<w>>[1] = w
  OBVIOUS
<1>2. /\ all \in Seq(Seq(Char)) /\ Len(all) = 1 + Len(args)
      /\ \A k \in 1..(1 + Len(args)) :
            all[k] = IF k <= 1 THEN w ELSE args[k - 1]
  <2>1. /\ <<w>> \o args \in Seq(Seq(Char))
        /\ Len(<<w>> \o args) = Len(<<w>>) + Len(args)
        /\ \A k \in 1..(Len(<<w>>) + Len(args)) :
              (<<w>> \o args)[k] = IF k <= Len(<<w>>) THEN <<w>>[k]
                                   ELSE args[k - Len(<<w>>)]
    BY <1>1, ConcatProperties
  <2>2. \A k \in 1..(1 + Len(args)) : k <= 1 => k = 1
    BY LenProperties
  <2> QED
    BY <1>1, <2>1, <2>2
<1>3. Len(args) \in Nat /\ (Len(args) = 0 => args = <<>>)
  BY LenProperties, EmptySeq
<1>4. first \in Seq(Char)
  <2>1. <<Space>> \in Seq(Char)
    BY MessageAssumption DEF MessageAssumption
  <2> QED
    BY <2>1, ConcatProperties
<1> HIDE DEF all, first
<1>5. /\ p \in Seq(Seq(Char)) /\ Len(p) = Len(args)
      /\ \A k \in 1..Len(args) :
            p[k] = (IF k = Len(args) /\ trailing THEN <<Space, Colon>>
                                                 ELSE <<Space>>) \o args[k]
  BY PiecesType
<1>6. /\ q \in Seq(Seq(Char)) /\ Len(q) = 1 + Len(args)
      /\ \A k \in 1..(1 + Len(args)) :
            q[k] = (IF k = 1 + Len(args) /\ trailing THEN <<Space, Colon>>
                                                     ELSE <<Space>>) \o all[k]
  <2>1. /\ q \in Seq(Seq(Char)) /\ Len(q) = Len(all)
        /\ \A k \in 1..Len(all) :
              q[k] = (IF k = Len(all) /\ trailing THEN <<Space, Colon>>
                                                  ELSE <<Space>>) \o all[k]
    BY <1>2, PiecesType
  <2> HIDE DEF q
  <2> QED
    BY <1>2, <2>1
<1> HIDE DEF p, q
<1>7. q = <<first>> \o p
  <2> DEFINE r == <<first>> \o p
  <2>1. /\ r \in Seq(Seq(Char)) /\ Len(r) = 1 + Len(args)
        /\ \A k \in 1..(1 + Len(args)) :
              r[k] = IF k <= 1 THEN first ELSE p[k - 1]
    <3>1. /\ <<first>> \in Seq(Seq(Char)) /\ Len(<<first>>) = 1
          /\ <<first>>[1] = first
      BY <1>4
    <3>2. /\ <<first>> \o p \in Seq(Seq(Char))
          /\ Len(<<first>> \o p) = Len(<<first>>) + Len(p)
          /\ \A k \in 1..(Len(<<first>>) + Len(p)) :
                (<<first>> \o p)[k] = IF k <= Len(<<first>>) THEN <<first>>[k]
                                      ELSE p[k - Len(<<first>>)]
      BY <1>5, <3>1, ConcatProperties
    <3>3. \A k \in 1..(1 + Len(args)) : k <= 1 => k = 1
      BY <1>3
    <3> QED
      BY <1>5, <3>1, <3>2, <3>3
  <2> HIDE DEF r
  <2>2. ASSUME NEW k \in 1..(1 + Len(args)) PROVE q[k] = r[k]
    <3>1. CASE k = 1
      <4>1. ~(k = 1 + Len(args) /\ trailing)
        BY <1>3, <3>1
      <4>2. q[k] = <<Space>> \o all[k]
        BY <1>6, <4>1
      <4>3. all[k] = w /\ r[k] = first
        BY <1>2, <2>1, <3>1
      <4> QED
        BY <4>2, <4>3 DEF first
    <3>2. CASE k # 1
      <4>1. /\ ~(k <= 1) /\ k - 1 \in 1..Len(args)
            /\ k = 1 + Len(args) <=> k - 1 = Len(args)
        BY <1>3, <3>2
      <4>2. all[k] = args[k - 1] /\ r[k] = p[k - 1]
        BY <1>2, <2>1, <4>1
      <4> QED
        BY <1>5, <1>6, <4>1, <4>2
    <3> QED
      BY <3>1, <3>2
  <2>3. q = r
    BY <1>6, <2>1, <2>2, SeqEqual
  <2> QED
    BY <2>3 DEF r
<1>8. <<first>> \in Seq(Seq(Char))
  BY <1>4
<1>9. /\ FlattenSeq(q) = FlattenSeq(<<first>>) \o FlattenSeq(p)
      /\ FlattenSeq(p) \in Seq(Char)
  BY <1>5, <1>7, <1>8, FlattenConcat
<1>10. FlattenSeq(<<first>>) = first
  BY <1>4, FlattenSingle
<1>11. /\ FlattenSeq(q) = Written(all, trailing)
       /\ FlattenSeq(p) = Written(args, trailing)
  BY DEF p, q, Pieces, Written
<1> QED
  BY <1>4, <1>9, <1>10, <1>11 DEF all, first

LEMMA WrittenTrailing ==
    ASSUME NEW w \in Seq(Char)
    PROVE  Written(<<w>>, TRUE) = <<Space, Colon>> \o w
<1> DEFINE all == <<w>>
           piece == <<Space, Colon>> \o w
<1>1. all \in Seq(Seq(Char)) /\ Len(all) = 1 /\ all[1] = w
  OBVIOUS
<1>2. piece \in Seq(Char)
  <2>1. <<Space, Colon>> \in Seq(Char)
    BY MessageAssumption DEF MessageAssumption
  <2> QED
    BY <2>1, ConcatProperties
<1> HIDE DEF all
<1>3. Pieces(all, TRUE) = <<piece>>
  <2> DEFINE p == Pieces(all, TRUE)
             q == <<piece>>
  <2>1. /\ Pieces(all, TRUE) \in Seq(Seq(Char)) /\ Len(Pieces(all, TRUE)) = 1
        /\ Pieces(all, TRUE)[1] = piece
    <3>1. /\ Pieces(all, TRUE) \in Seq(Seq(Char))
          /\ Len(Pieces(all, TRUE)) = 1
          /\ \A k \in 1..1 :
                Pieces(all, TRUE)[k] =
                   (IF k = 1 /\ TRUE THEN <<Space, Colon>>
                                     ELSE <<Space>>) \o all[k]
      <4>1. /\ Pieces(all, TRUE) \in Seq(Seq(Char))
            /\ Len(Pieces(all, TRUE)) = Len(all)
            /\ \A k \in 1..Len(all) :
                  Pieces(all, TRUE)[k] =
                     (IF k = Len(all) /\ TRUE THEN <<Space, Colon>>
                                              ELSE <<Space>>) \o all[k]
        <5>1. all \in Seq(Seq(Char)) /\ TRUE \in BOOLEAN
          BY <1>1
        <5> QED
          BY ONLY <5>1, PiecesType
      <4> QED
        BY <1>1, <4>1
    <3>2. 1 \in 1..1
      OBVIOUS
    <3> QED
      BY <1>1, <3>1, <3>2
  <2> HIDE DEF piece
  <2>2. q \in Seq(Seq(Char)) /\ Len(q) = 1 /\ q[1] = piece
    BY <1>2
  <2>3. \A k \in 1..1 : k = 1
    OBVIOUS
  <2> HIDE DEF p, q
  <2>4. /\ p \in Seq(Seq(Char)) /\ Len(p) = Len(q)
        /\ \A k \in 1..Len(p) : p[k] = q[k]
    BY <2>1, <2>2, <2>3 DEF p
  <2>5. p = q
    BY <2>2, <2>4, SeqEqual
  <2> QED
    BY <2>5 DEF p, q
<1>4. FlattenSeq(<<piece>>) = piece
  BY <1>2, FlattenSingle
<1>5. FlattenSeq(Pieces(all, TRUE)) = Written(all, TRUE)
  BY DEF Pieces, Written
<1> QED
  BY <1>3, <1>4, <1>5 DEF all

LEMMA WrittenNone == Written(<<>>, FALSE) = <<>>
<1>1. Pieces(<<>>, FALSE) = <<>>
  BY DEF Pieces
<1>2. FlattenSeq(Pieces(<<>>, FALSE)) = Written(<<>>, FALSE)
  BY DEF Pieces, Written
<1> QED
  BY <1>1, <1>2, FlattenEmpty

-----------------------------------------------------------------------------
(***************************************************************************)
(* The arguments from each position on, written out again, are the rest of *)
(* the line, behind a space.                                               *)
(***************************************************************************)
Reads(args, trailing, last, rest) ==
    /\ args \in Seq(Seq(Char)) /\ trailing \in BOOLEAN
    /\ last \in {<<>>, <<Space>>}
    /\ args = <<>> => ~trailing
    /\ \A k \in DOMAIN args :
          k < Len(args) \/ ~trailing => IsMiddle(args[k])
    /\ rest = Written(args, trailing) \o last

RestRead(s, i) ==
    \E trailing, last :
       Reads(Arguments(s)[i], trailing, last,
             <<Space>> \o SubSeq(s, i, Len(s)))

LEMMA Apart ==
    ASSUME NEW s \in Seq(Char), NEW i \in 1..(Len(s) + 1),
           NEW e \in i..(Len(s) + 1)
    PROVE  /\ SubSeq(s, i, Len(s))
                 = SubSeq(s, i, e - 1) \o SubSeq(s, e, Len(s))
           /\ SubSeq(s, i, e - 1) \in Seq(Char)
           /\ Len(SubSeq(s, i, e - 1)) = e - i
           /\ \A k \in 1..(e - i) : SubSeq(s, i, e - 1)[k] = s[i - 1 + k]
           /\ SubSeq(s, e, Len(s)) \in Seq(Char)
<1> DEFINE n == Len(s)
           p == SubSeq(s, i, e - 1)
           q == SubSeq(s, e, n)
           r == SubSeq(s, i, n)
<1>1. n \in Nat /\ i \in Nat /\ e \in Nat /\ i <= e /\ e <= n + 1 /\ 1 <= i
  BY LenProperties
<1>2. /\ i - 1 \in Nat /\ e - 1 \in Nat /\ i - 1 <= e - 1 /\ e - 1 <= n
      /\ i - 1 <= n /\ (i - 1) + 1 = i /\ (e - 1) + 1 = e
      /\ (e - 1) - (i - 1) = e - i /\ n <= n
  BY <1>1
<1>3. /\ p \in Seq(Char) /\ Len(p) = e - i
      /\ \A k \in 1..(e - i) : p[k] = s[(i - 1) + k]
  <2>1. /\ SubSeq(s, (i - 1) + 1, e - 1) \in Seq(Char)
        /\ Len(SubSeq(s, (i - 1) + 1, e - 1)) = (e - 1) - (i - 1)
        /\ \A k \in 1..((e - 1) - (i - 1)) :
              SubSeq(s, (i - 1) + 1, e - 1)[k] = s[(i - 1) + k]
    BY <1>2, PartType
  <2> QED
    BY <1>2, <2>1
<1>4. /\ q \in Seq(Char) /\ Len(q) = n - (e - 1)
      /\ \A k \in 1..(n - (e - 1)) : q[k] = s[(e - 1) + k]
  <2>1. /\ SubSeq(s, (e - 1) + 1, n) \in Seq(Char)
        /\ Len(SubSeq(s, (e - 1) + 1, n)) = n - (e - 1)
        /\ \A k \in 1..(n - (e - 1)) :
              SubSeq(s, (e - 1) + 1, n)[k] = s[(e - 1) + k]
    BY <1>1, <1>2, PartType
  <2> QED
    BY <1>2, <2>1
<1>5. /\ r \in Seq(Char) /\ Len(r) = n - (i - 1)
      /\ \A k \in 1..(n - (i - 1)) : r[k] = s[(i - 1) + k]
  <2>1. /\ SubSeq(s, (i - 1) + 1, n) \in Seq(Char)
        /\ Len(SubSeq(s, (i - 1) + 1, n)) = n - (i - 1)
        /\ \A k \in 1..(n - (i - 1)) :
              SubSeq(s, (i - 1) + 1, n)[k] = s[(i - 1) + k]
    BY <1>1, <1>2, PartType
  <2> QED
    BY <1>2, <2>1
<1> HIDE DEF n, p, q, r
<1>6. /\ p \o q \in Seq(Char) /\ Len(p \o q) = (e - i) + (n - (e - 1))
      /\ \A k \in 1..((e - i) + (n - (e - 1))) :
            (p \o q)[k] = IF k <= e - i THEN p[k] ELSE q[k - (e - i)]
  <2>1. /\ p \o q \in Seq(Char) /\ Len(p \o q) = Len(p) + Len(q)
        /\ \A k \in 1..(Len(p) + Len(q)) :
              (p \o q)[k] = IF k <= Len(p) THEN p[k] ELSE q[k - Len(p)]
    BY <1>3, <1>4, ConcatProperties
  <2> QED
    BY <1>3, <1>4, <2>1
<1>7. ASSUME NEW k \in 1..(n - (i - 1)) PROVE r[k] = (p \o q)[k]
  <2>1. k \in 1..((e - i) + (n - (e - 1)))
    BY <1>1
  <2>2. CASE k <= e - i
    <3>1. k \in 1..(e - i)
      BY <1>1, <2>2
    <3> QED
      BY <1>3, <1>5, <1>6, <2>1, <2>2, <3>1
  <2>3. CASE ~(k <= e - i)
    <3>1. /\ k - (e - i) \in 1..(n - (e - 1))
          /\ (e - 1) + (k - (e - i)) = (i - 1) + k
      BY <1>1, <2>3
    <3> QED
      BY <1>4, <1>5, <1>6, <2>1, <2>3, <3>1
  <2> QED
    BY <2>2, <2>3
<1>8. Len(r) = Len(p \o q)
  BY <1>1, <1>5, <1>6
<1>9. r = p \o q
  BY <1>5, <1>6, <1>7, <1>8, SeqEqual
<1> QED
  BY <1>3, <1>4, <1>9 DEF n, p, q, r

\* What stands between two spaces is a word.
LEMMA PartIsWord ==
    ASSUME NEW s \in Seq(Char), NEW i \in 1..(Len(s) + 1),
           NEW e \in i..(Len(s) + 1), \A j \in i..(e - 1) : s[j] # Space
    PROVE  IsWord(SubSeq(s, i, e - 1))
<1> DEFINE w == SubSeq(s, i, e - 1)
<1>1. /\ w \in Seq(Char) /\ Len(w) = e - i /\ DOMAIN w = 1..(e - i)
      /\ \A k \in 1..(e - i) : w[k] = s[i - 1 + k]
  <2>1. /\ w \in Seq(Char) /\ Len(w) = e - i
        /\ \A k \in 1..(e - i) : w[k] = s[i - 1 + k]
    BY Apart
  <2> HIDE DEF w
  <2> QED
    BY <2>1, LenProperties
<1> HIDE DEF w
<1>2. Len(s) \in Nat
  BY LenProperties
<1>3. ASSUME NEW k \in 1..(e - i) PROVE w[k] # Space
  <2>1. i - 1 + k \in i..(e - 1)
    BY <1>2
  <2> QED
    BY <1>1, <2>1
<1> QED
  BY <1>1, <1>3 DEF IsWord, ToSet, w

\* A trailing argument
LEMMA TrailingRead ==
    ASSUME NEW s \in Seq(Char), NEW i \in 1..Len(s), s[i] = Colon
    PROVE  RestRead(s, i)
<1> DEFINE n == Len(s)
           t == SubSeq(s, i + 1, n)
           args == Arguments(s)[i]
           rest == <<Space>> \o SubSeq(s, i, n)
           sp == <<Space>>
           co == <<Colon>>
           prefix == <<Space, Colon>>
<1>1. n \in Nat /\ i + 1 \in 1..(n + 1) /\ i + 1 \in (i + 1)..(n + 1)
  BY LenProperties
<1>2. t \in Seq(Char)
  BY <1>1, Apart
<1>3. SubSeq(s, i, n) = co \o t
  <2>1. n \in i..n
    BY <1>1
  <2> QED
    BY <2>1, SubSeqRecursiveFirst
<1>4. args = <<t>>
  BY ArgumentsFound
<1>5. /\ prefix \in Seq(Char) /\ sp \in Seq(Char) /\ co \in Seq(Char)
      /\ sp \o co = prefix
  <2>1. Space \in Char /\ Colon \in Char
    BY MessageAssumption DEF MessageAssumption
  <2>2. prefix \in Seq(Char) /\ sp \in Seq(Char) /\ co \in Seq(Char)
    BY <2>1
  <2>3. Append(sp, Colon) = sp \o co
    <3> HIDE DEF sp
    <3> QED
      BY <2>1, <2>2, AppendIsConcat
  <2>4. Append(sp, Colon) = prefix
    <3> DEFINE u == Append(sp, Colon)
    <3>1. /\ sp[1] = Space /\ Len(sp) = 1 /\ prefix[1] = Space
          /\ prefix[2] = Colon /\ Len(prefix) = 2
      OBVIOUS
    <3> HIDE DEF sp, prefix
    <3>2. /\ u \in Seq(Char) /\ Len(u) = 2 /\ u[1] = Space /\ u[2] = Colon
      <4>1. /\ u \in Seq(Char) /\ Len(u) = Len(sp) + 1
            /\ u[Len(sp) + 1] = Colon
            /\ \A k \in 1..Len(sp) : u[k] = sp[k]
        BY <2>1, <2>2, AppendProperties
      <4> HIDE DEF u
      <4> QED
        BY <3>1, <4>1
    <3> HIDE DEF u
    <3>3. \A k \in 1..2 : k = 1 \/ k = 2
      OBVIOUS
    <3>4. /\ u \in Seq(Char) /\ prefix \in Seq(Char) /\ Len(u) = Len(prefix)
          /\ \A k \in 1..Len(u) : u[k] = prefix[k]
      BY <2>2, <3>1, <3>2, <3>3
    <3>5. u = prefix
      BY ONLY <3>4, SeqEqual
    <3> QED
      BY <3>5 DEF u
  <2> QED
    BY <2>2, <2>3, <2>4
<1> HIDE DEF t, args, n, prefix, co, sp
<1>6. rest = prefix \o t
  <2>1. (sp \o co) \o t = sp \o (co \o t)
    <3>1. Regroups(sp, co, t)
      BY <1>2, <1>5, Regrouped
    <3> QED
      BY <3>1 DEF Regroups
  <2> QED
    BY <1>3, <1>5, <2>1 DEF sp
<1> HIDE DEF rest
<1>7. Written(args, TRUE) = prefix \o t /\ prefix \o t \in Seq(Char)
  <2>1. Written(<<t>>, TRUE) = prefix \o t
    BY <1>2, WrittenTrailing DEF prefix
  <2> QED
    BY <1>2, <1>4, <1>5, <2>1, ConcatProperties
<1>8. rest = Written(args, TRUE) \o <<>>
  <2>1. (prefix \o t) \o <<>> = prefix \o t
    BY <1>7, ConcatEmptySeq
  <2> QED
    BY <1>6, <1>7, <2>1
<1>9. /\ args \in Seq(Seq(Char)) /\ args # <<>>
      /\ \A k \in DOMAIN args : ~(k < Len(args))
  <2>1. /\ <<t>> \in Seq(Seq(Char)) /\ Len(<<t>>) = 1 /\ DOMAIN <<t>> = 1..1
        /\ <<t>> # <<>>
    BY <1>2
  <2>2. \A k \in 1..1 : ~(k < 1)
    OBVIOUS
  <2> QED
    BY <1>4, <2>1, <2>2
<1>10. Reads(args, TRUE, <<>>, rest)
  BY <1>8, <1>9 DEF Reads
<1> QED
  BY <1>10 DEF RestRead, args, rest, n

LEMMA OneElement ==
    ASSUME NEW T, NEW e \in T
    PROVE  <<e>> \in Seq(T) /\ Len(<<e>>) = 1 /\ <<e>>[1] = e
OBVIOUS

\* A word is an argument that can be in the middle.
LEMMA WordRead ==
    ASSUME NEW s \in Seq(Char), NEW i \in 1..Len(s), s[i] # Colon
    PROVE  Word(s, i) \in Seq(Char) /\ IsMiddle(Word(s, i))
<1> DEFINE e == NextSpace(s, i)
           w == Word(s, i)
<1>1. /\ Len(s) \in Nat /\ i \in 1..(Len(s) + 1)
  BY LenProperties
<1>2. e \in i..(Len(s) + 1) /\ \A j \in i..(e - 1) : s[j] # Space
  BY <1>1, NextSpaceFound
<1>3. w = SubSeq(s, i, e - 1)
  BY DEF Word
<1> HIDE DEF e, w
<1>4. /\ w \in Seq(Char) /\ Len(w) = e - i
      /\ \A k \in 1..(e - i) : w[k] = s[i - 1 + k]
  <2>1. /\ SubSeq(s, i, e - 1) \in Seq(Char)
        /\ Len(SubSeq(s, i, e - 1)) = e - i
        /\ \A k \in 1..(e - i) : SubSeq(s, i, e - 1)[k] = s[i - 1 + k]
    BY <1>1, <1>2, Apart
  <2> QED
    BY <1>3, <2>1
<1>5. IsWord(w)
  BY <1>1, <1>2, <1>3, PartIsWord
<1>6. w # <<>> => Head(w) # Colon
  <2> SUFFICES ASSUME w # <<>> PROVE Head(w) # Colon
    OBVIOUS
  <2>1. Len(w) # 0 /\ Head(w) = w[1]
    BY <1>4, EmptySeq
  <2>2. 1 \in 1..(e - i) /\ i - 1 + 1 = i
    BY <1>1, <1>2, <1>4, <2>1
  <2> QED
    BY <1>4, <2>1, <2>2
<1> QED
  BY <1>4, <1>5, <1>6 DEF IsMiddle, w

\* The last argument, without a colon
LEMMA LastRead ==
    ASSUME NEW s \in Seq(Char), NEW i \in 1..Len(s), s[i] # Colon,
           NextSpace(s, i) = Len(s) + 1
    PROVE  RestRead(s, i)
<1> DEFINE n == Len(s)
           w == Word(s, i)
           args == Arguments(s)[i]
           rest == <<Space>> \o SubSeq(s, i, n)
<1>1. n \in Nat
  BY LenProperties
<1>2. w \in Seq(Char) /\ IsMiddle(w)
  BY WordRead
<1>3. w = SubSeq(s, i, n) /\ After(s, i) = n + 1
  <2>1. (n + 1) - 1 = n /\ ~(n + 1 <= n)
    BY <1>1
  <2> QED
    BY <2>1 DEF Word, After, Behind
<1>4. args = <<w>> \o <<>>
  BY <1>3, ArgumentsFound
<1> HIDE DEF n, w, args
<1>5. /\ args = <<w>> /\ args \in Seq(Seq(Char)) /\ args # <<>>
      /\ \A k \in DOMAIN args : args[k] = w
  <2>1. /\ <<w>> \in Seq(Seq(Char)) /\ <<w>> # <<>>
        /\ \A k \in DOMAIN <<w>> : <<w>>[k] = w
    BY <1>2
  <2>2. <<w>> \o <<>> = <<w>>
    BY <2>1, ConcatEmptySeq
  <2> QED
    BY <1>4, <2>1, <2>2
<1>6. /\ <<>> \in Seq(Seq(Char)) /\ <<>> \in Seq(Char)
      /\ FALSE \in BOOLEAN
  BY EmptySeq
<1>7. Written(args, FALSE) = rest /\ rest \in Seq(Char)
  <2> DEFINE none == <<>>
  <2>1. /\ none \in Seq(Seq(Char)) /\ FALSE \in BOOLEAN
        /\ none = <<>> => ~FALSE
    BY <1>6
  <2> HIDE DEF none
  <2>2. /\ Written(<<w>> \o none, FALSE)
              = (<<Space>> \o w) \o Written(none, FALSE)
        /\ <<Space>> \o w \in Seq(Char)
    BY <1>2, <2>1, WrittenFirst
  <2>3. /\ Written(<<w>> \o <<>>, FALSE) = (<<Space>> \o w) \o <<>>
        /\ <<Space>> \o w \in Seq(Char)
    BY <2>2, WrittenNone DEF none
  <2>4. (<<Space>> \o w) \o <<>> = <<Space>> \o w
    BY <2>3, ConcatEmptySeq
  <2> QED
    BY <1>3, <1>4, <2>3, <2>4
<1> HIDE DEF rest
<1>8. rest = Written(args, FALSE) \o <<>>
  BY <1>7, ConcatEmptySeq
<1>9. Reads(args, FALSE, <<>>, rest)
  BY <1>2, <1>5, <1>8 DEF Reads
<1> QED
  BY <1>9 DEF RestRead, args, rest, n

\* An argument that a space ends, and what follows it
LEMMA MiddleRead ==
    ASSUME NEW s \in Seq(Char), NEW i \in 1..Len(s), s[i] # Colon,
           NextSpace(s, i) <= Len(s),
           RestRead(s, After(s, i))
    PROVE  RestRead(s, i)
<1> DEFINE n == Len(s)
           w == Word(s, i)
           e == NextSpace(s, i)
           args == Arguments(s)[i]
           rest == <<Space>> \o SubSeq(s, i, n)
           b == After(s, i)
           args2 == Arguments(s)[b]
           rest2 == <<Space>> \o SubSeq(s, b, n)
<1>1. n \in Nat /\ i \in 1..(n + 1)
  BY LenProperties
<1>2. e \in i..(n + 1) /\ e \in i..n /\ s[e] = Space /\ b = e + 1
  <2>1. e \in i..(n + 1) /\ s[e] = Space
    BY <1>1, NextSpaceFound
  <2> QED
    BY <1>1, <2>1 DEF After, Behind
<1>3. w \in Seq(Char) /\ IsMiddle(w) /\ w = SubSeq(s, i, e - 1)
  BY WordRead DEF Word
<1>4. args = <<w>> \o args2
  BY ArgumentsFound
<1>5. PICK trailing, last : Reads(args2, trailing, last, rest2)
  BY DEF RestRead
<1> HIDE DEF n, w, e, args, b, args2
<1>6. SubSeq(s, e, n) = rest2 /\ rest2 \in Seq(Char)
  <2>1. e \in 1..n /\ n \in e..n /\ e \in 1..(n + 1)
    BY <1>1, <1>2
  <2>2. SubSeq(s, e, n) = <<s[e]>> \o SubSeq(s, e + 1, n)
    BY <2>1, SubSeqRecursiveFirst DEF n
  <2>3. SubSeq(s, e, n) \in Seq(Char)
    BY <1>1, <1>2, Apart DEF n
  <2> QED
    BY <1>2, <2>2, <2>3
<1> HIDE DEF rest2
<1>7. SubSeq(s, i, n) = w \o rest2
  <2>1. /\ i \in 1..(Len(s) + 1) /\ e \in i..(Len(s) + 1)
    BY <1>1, <1>2 DEF n
  <2>2. SubSeq(s, i, Len(s)) = SubSeq(s, i, e - 1) \o SubSeq(s, e, Len(s))
    BY <2>1, Apart
  <2> QED
    BY <1>3, <1>6, <2>2 DEF n
<1> DEFINE written == Written(args, trailing)
           written2 == Written(args2, trailing)
           sp == <<Space>>
           first == sp \o w
<1>8. /\ args2 \in Seq(Seq(Char)) /\ trailing \in BOOLEAN
      /\ last \in {<<>>, <<Space>>} /\ (args2 = <<>> => ~trailing)
      /\ \A k \in DOMAIN args2 :
            k < Len(args2) \/ ~trailing => IsMiddle(args2[k])
      /\ rest2 = written2 \o last
  BY <1>5 DEF Reads
<1>9. /\ written = first \o written2
      /\ written2 \in Seq(Char) /\ first \in Seq(Char)
  BY <1>3, <1>4, <1>8, WrittenFirst
<1>10. /\ sp \in Seq(Char) /\ last \in Seq(Char)
       /\ rest = sp \o (w \o rest2)
  <2>1. <<Space>> \in Seq(Char) /\ <<>> \in Seq(Char)
    BY EmptySeq, MessageAssumption DEF MessageAssumption
  <2> QED
    BY <1>7, <1>8, <2>1
<1> HIDE DEF written, written2, rest, sp, first
<1>11. rest = written \o last
  <2>1. sp \o (w \o rest2) = first \o rest2
    <3>1. sp \in Seq(Char) /\ w \in Seq(Char) /\ rest2 \in Seq(Char)
      BY <1>3, <1>6, <1>10
    <3>2. Regroups(sp, w, rest2)
      BY <3>1, Regrouped
    <3> QED
      BY <3>2 DEF first, Regroups
  <2>2. first \in Seq(Char) /\ written2 \in Seq(Char) /\ last \in Seq(Char)
    BY <1>9, <1>10
  <2>3. (first \o written2) \o last = first \o (written2 \o last)
    <3>1. Regroups(first, written2, last)
      BY <2>2, Regrouped
    <3> QED
      BY <3>1 DEF Regroups
  <2> QED
    BY <1>8, <1>9, <1>10, <2>1, <2>3
<1>12. /\ args \in Seq(Seq(Char)) /\ args # <<>>
       /\ Len(args) = 1 + Len(args2) /\ Len(args2) \in Nat
       /\ DOMAIN args = 1..(1 + Len(args2)) /\ DOMAIN args2 = 1..Len(args2)
       /\ \A k \in 1..(1 + Len(args2)) :
             args[k] = IF k <= 1 THEN w ELSE args2[k - 1]
  <2> DEFINE one == <<w>>
  <2>1. one \in Seq(Seq(Char)) /\ Len(one) = 1 /\ one[1] = w
    BY <1>3, OneElement
  <2> HIDE DEF one
  <2>2. /\ one \o args2 \in Seq(Seq(Char))
        /\ Len(one \o args2) = Len(one) + Len(args2)
        /\ \A k \in 1..(Len(one) + Len(args2)) :
              (one \o args2)[k] = IF k <= Len(one) THEN one[k]
                                  ELSE args2[k - Len(one)]
    <3>1. one \in Seq(Seq(Char)) /\ args2 \in Seq(Seq(Char))
      BY <1>8, <2>1
    <3> QED
      BY ONLY <3>1, ConcatProperties
  <2>3. Len(args2) \in Nat /\ DOMAIN args2 = 1..Len(args2)
    BY <1>8, LenProperties
  <2>4. args = one \o args2
    BY <1>4 DEF one
  <2>5. \A k \in 1..(1 + Len(args2)) : k <= 1 => k = 1
    BY <2>3
  <2>6. DOMAIN args = 1..Len(args) /\ (args = <<>> => Len(args) = 0)
    BY <2>2, <2>4, LenProperties, EmptySeq
  <2>7. Len(args) = 1 + Len(args2) /\ 1 + Len(args2) # 0
    BY <2>1, <2>2, <2>3, <2>4
  <2> QED
    BY <2>1, <2>2, <2>3, <2>4, <2>5, <2>6, <2>7
<1>13. ASSUME NEW k \in DOMAIN args, k < Len(args) \/ ~trailing
       PROVE  IsMiddle(args[k])
  <2> DEFINE m == Len(args2)
  <2>1. /\ m \in Nat /\ k \in 1..(1 + m) /\ (k < 1 + m \/ ~trailing)
        /\ args[k] = IF k <= 1 THEN w ELSE args2[k - 1]
    BY <1>12, <1>13
  <2>2. \A j \in 1..m : j < m \/ ~trailing => IsMiddle(args2[j])
    BY <1>8, <1>12
  <2> HIDE DEF m
  <2>3. CASE k = 1
    BY <1>3, <2>1, <2>3
  <2>4. CASE k # 1
    <3>1. /\ ~(k <= 1) /\ k - 1 \in 1..m
          /\ k < 1 + m => k - 1 < m
      BY <2>1, <2>4
    <3>2. args[k] = args2[k - 1] /\ (k - 1 < m \/ ~trailing)
      BY <2>1, <3>1
    <3> QED
      BY <2>2, <3>1, <3>2
  <2> QED
    BY <2>3, <2>4
<1>14. Reads(args, trailing, last, rest)
  BY <1>8, <1>11, <1>12, <1>13 DEF Reads, written
<1> QED
  BY <1>14 DEF RestRead, args, rest, n

\* Nothing but a last space
LEMMA NothingRead ==
    ASSUME NEW s \in Seq(Char)
    PROVE  RestRead(s, Len(s) + 1)
<1> DEFINE args == Arguments(s)[Len(s) + 1]
           rest == <<Space>> \o SubSeq(s, Len(s) + 1, Len(s))
<1>1. args = <<>>
  BY ArgumentsFound
<1>2. <<Space>> \in Seq(Char) /\ <<>> \in Seq(Seq(Char)) /\ DOMAIN <<>> = {}
  BY EmptySeq, MessageAssumption DEF MessageAssumption
<1>3. rest = <<Space>>
  <2>1. SubSeq(s, Len(s) + 1, Len(s)) = <<>>
    BY LenProperties, SubSeqEmpty
  <2> QED
    BY <1>2, <2>1, ConcatEmptySeq
<1> HIDE DEF args, rest
<1>4. rest = Written(args, FALSE) \o <<Space>>
  BY <1>1, <1>2, <1>3, WrittenNone, ConcatEmptySeq
<1>5. Reads(args, FALSE, <<Space>>, rest)
  BY <1>1, <1>2, <1>4 DEF Reads
<1> QED
  BY <1>5 DEF RestRead, args, rest

LEMMA ArgumentsRead ==
    ASSUME NEW s \in Seq(Char)
    PROVE  \A i \in 1..(Len(s) + 1) : RestRead(s, i)
<1> DEFINE n == Len(s)
           M == {m \in Nat : m <= n =>
                              \A i \in (n + 1 - m)..(n + 1) : RestRead(s, i)}
<1>1. n \in Nat
  BY LenProperties
<1> HIDE DEF n
<1>2. 0 \in M
  <2>1. RestRead(s, n + 1)
    BY NothingRead DEF n
  <2>2. \A i \in (n + 1 - 0)..(n + 1) : i = n + 1
    BY <1>1
  <2> QED
    BY <2>1, <2>2
<1>3. ASSUME NEW m \in Nat, m \in M PROVE m + 1 \in M
  <2> SUFFICES ASSUME m + 1 <= n, NEW i \in (n + 1 - (m + 1))..(n + 1)
               PROVE  RestRead(s, i)
    OBVIOUS
  <2>1. \A j \in (n + 1 - m)..(n + 1) : RestRead(s, j)
    BY <1>1, <1>3
  <2>2. CASE i \in (n + 1 - m)..(n + 1)
    BY <2>1, <2>2
  <2>3. CASE i \notin (n + 1 - m)..(n + 1)
    <3>1. i = n - m /\ i \in 1..n /\ n + 1 - m = i + 1
      BY <1>1, <2>3
    <3>2. After(s, i) \in (i + 1)..(n + 1)
      BY <3>1, AfterType DEF n
    <3>3. RestRead(s, After(s, i))
      BY <2>1, <3>1, <3>2
    <3>4. NextSpace(s, i) = n + 1 \/ NextSpace(s, i) <= n
      <4>1. i \in 1..(n + 1)
        BY <1>1, <3>1
      <4>2. NextSpace(s, i) \in i..(n + 1)
        BY <4>1, NextSpaceFound DEF n
      <4> QED
        BY <1>1, <3>1, <4>2
    <3> QED
      BY <3>1, <3>3, <3>4, TrailingRead, LastRead, MiddleRead DEF n
  <2> QED
    BY <2>2, <2>3
<1> HIDE DEF M
<1>4. n \in M
  BY <1>1, <1>2, <1>3, Induction
<1>5. n + 1 - n = 1
  BY <1>1
<1> QED
  BY <1>1, <1>4, <1>5 DEF M, n

-----------------------------------------------------------------------------
(***************************************************************************)
(* message_parse: the command starts behind the prefix, if there is one,   *)
(* and ends at the next space or the end of the line.                      *)
(***************************************************************************)
Prefix(s) == IF HasPrefix(s) THEN NextSpace(s, 2) ELSE 0

CommandEnd(s) == NextSpace(s, Prefix(s) + 1)

LEMMA CommandPlace ==
    ASSUME NEW s \in Seq(Char), Parses(s)
    PROVE  /\ Prefix(s) \in 0..Len(s)
           /\ CommandEnd(s) \in (Prefix(s) + 1)..(Len(s) + 1)
           /\ \A j \in (Prefix(s) + 1)..(CommandEnd(s) - 1) : s[j] # Space
           /\ CommandEnd(s) <= Len(s) => s[CommandEnd(s)] = Space
           /\ HasPrefix(s) =>
                 /\ Prefix(s) >= 2 /\ s[Prefix(s)] = Space
                 /\ \A j \in 2..(Prefix(s) - 1) : s[j] # Space
<1>1. Len(s) \in Nat /\ (s # <<>> => Len(s) # 0)
  BY LenProperties, EmptySeq
<1>2. ASSUME HasPrefix(s)
      PROVE  /\ Prefix(s) \in 2..Len(s) /\ s[Prefix(s)] = Space
             /\ \A j \in 2..(Prefix(s) - 1) : s[j] # Space
  <2>1. 2 \in 1..(Len(s) + 1)
    BY <1>1, <1>2 DEF HasPrefix
  <2>2. Prefix(s) = NextSpace(s, 2) /\ NextSpace(s, 2) <= Len(s)
    BY <1>2 DEF Prefix, Parses
  <2>3. /\ NextSpace(s, 2) \in 2..(Len(s) + 1)
        /\ \A j \in 2..(NextSpace(s, 2) - 1) : s[j] # Space
        /\ NextSpace(s, 2) <= Len(s) => s[NextSpace(s, 2)] = Space
    BY <2>1, NextSpaceFound
  <2> QED
    BY <1>1, <2>2, <2>3
<1>3. ~HasPrefix(s) => Prefix(s) = 0
  BY DEF Prefix
<1>4. Prefix(s) \in 0..Len(s) /\ Prefix(s) + 1 \in 1..(Len(s) + 1)
  BY <1>1, <1>2, <1>3
<1>5. /\ CommandEnd(s) \in (Prefix(s) + 1)..(Len(s) + 1)
      /\ \A j \in (Prefix(s) + 1)..(CommandEnd(s) - 1) : s[j] # Space
      /\ CommandEnd(s) <= Len(s) => s[CommandEnd(s)] = Space
  BY <1>4, NextSpaceFound DEF CommandEnd
<1>6. HasPrefix(s) =>
         /\ Prefix(s) >= 2 /\ s[Prefix(s)] = Space
         /\ \A j \in 2..(Prefix(s) - 1) : s[j] # Space
  BY <1>1, <1>2
<1> QED
  BY <1>4, <1>5, <1>6

\* The parts, with these places
LEMMA PartsParsed ==
    ASSUME NEW s
    PROVE  LET m == message_parse(s)
               e == CommandEnd(s)
           IN  /\ m.command = Lowered(SubSeq(s, Prefix(s) + 1, e - 1))
               /\ m.argv = Arguments(s)[Behind(s, e)]
               /\ m.prefix =
                    IF ~HasPrefix(s) THEN Unset
                    ELSE SubSeq(s, 2, IF Prefix(s) - 2 > PrefixMax
                                        THEN PrefixMax + 1
                                        ELSE Prefix(s) - 1)
<1> DEFINE start == IF HasPrefix(s) THEN NextSpace(s, 2) + 1 ELSE 1
           end == NextSpace(s, start)
           cut == IF NextSpace(s, 2) - 2 > PrefixMax
                    THEN PrefixMax + 1 ELSE NextSpace(s, 2) - 1
           m == message_parse(s)
<1>1. /\ m.command = Lowered(SubSeq(s, start, end - 1))
      /\ m.argv = Arguments(s)[Behind(s, end)]
      /\ m.prefix = IF ~HasPrefix(s) THEN Unset ELSE SubSeq(s, 2, cut)
  BY DEF message_parse
<1> HIDE DEF m, cut
<1>2. start = Prefix(s) + 1 /\ end = CommandEnd(s)
  BY DEF Prefix, CommandEnd
<1>3. HasPrefix(s) => cut = IF Prefix(s) - 2 > PrefixMax
                                  THEN PrefixMax + 1 ELSE Prefix(s) - 1
  BY DEF Prefix, cut
<1> HIDE DEF start, end
<1> QED
  BY <1>1, <1>2, <1>3 DEF m

\* The command is a word, and keeps its length when it is turned to lowercase.
LEMMA CommandRead ==
    ASSUME NEW s \in Seq(Char), Parses(s)
    PROVE  LET command == message_parse(s).command
           IN  /\ command \in Seq(Char)
               /\ Len(command) = CommandEnd(s) - 1 - Prefix(s)
               /\ IsWord(command)
<1> DEFINE a == Prefix(s) + 1
           e == CommandEnd(s)
           w == SubSeq(s, a, e - 1)
           command == message_parse(s).command
<1>1. /\ Len(s) \in Nat /\ a \in 1..(Len(s) + 1) /\ e \in a..(Len(s) + 1)
      /\ \A j \in a..(e - 1) : s[j] # Space
      /\ e - a = e - 1 - Prefix(s)
  BY CommandPlace, LenProperties
<1>2. command = Lowered(w)
  BY PartsParsed
<1> HIDE DEF a, e, command
<1>3. w \in Seq(Char) /\ Len(w) = e - a
  BY <1>1, Apart
<1>4. IsWord(w)
  BY <1>1, PartIsWord
<1> HIDE DEF w
<1>5. /\ Len(w) \in Nat /\ DOMAIN w = 1..Len(w)
      /\ \A k \in 1..Len(w) : w[k] \in Char /\ w[k] # Space
  <2>1. /\ Len(w) \in Nat /\ DOMAIN w = 1..Len(w)
        /\ \A k \in 1..Len(w) : w[k] \in Char
    BY <1>3, LenProperties
  <2>2. \A k \in 1..Len(w) : w[k] # Space
    BY <1>4, <2>1 DEF IsWord, ToSet
  <2> QED
    BY <2>1, <2>2
<1>6. /\ Lower \in [Char -> Char]
      /\ \A c \in Char : Lower[c] = Space => c = Space
  BY MessageAssumption DEF MessageAssumption
<1>7. command = [k \in 1..Len(w) |-> Lower[w[k]]]
  BY <1>2, <1>5 DEF Lowered
<1>8. \A k \in 1..Len(w) : Lower[w[k]] \in Char /\ Lower[w[k]] # Space
  BY <1>5, <1>6
<1>9. /\ command \in Seq(Char) /\ Len(command) = Len(w)
      /\ DOMAIN command = 1..Len(w)
      /\ \A k \in 1..Len(w) : command[k] # Space
  BY <1>5, <1>7, <1>8
<1>10. IsWord(command)
  BY <1>9 DEF IsWord, ToSet
<1> QED
  BY <1>1, <1>3, <1>9, <1>10 DEF command, e

\* The arguments, from the space behind the command on
LEMMA ArgvRead ==
    ASSUME NEW s \in Seq(Char), Parses(s)
    PROVE  \E trailing, last :
              Reads(message_parse(s).argv, trailing, last,
                    SubSeq(s, CommandEnd(s), Len(s)))
<1> DEFINE n == Len(s)
           e == CommandEnd(s)
           b == Behind(s, e)
           argv == message_parse(s).argv
<1>1. n \in Nat /\ e \in 1..(n + 1) /\ (e <= n => s[e] = Space)
  BY CommandPlace, LenProperties
<1>2. argv = Arguments(s)[b]
  BY PartsParsed
<1> HIDE DEF e, argv
<1>3. CASE e <= n
  <2>1. b = e + 1 /\ b \in 1..(n + 1) /\ e \in 1..n
    BY <1>1, <1>3 DEF Behind
  <2>2. PICK trailing, last :
           Reads(argv, trailing, last, <<Space>> \o SubSeq(s, b, n))
    <3>1. RestRead(s, b)
      BY <2>1, ArgumentsRead
    <3> QED
      BY <1>2, <3>1 DEF RestRead
  <2>3. SubSeq(s, e, n) = <<s[e]>> \o SubSeq(s, e + 1, n)
    <3>1. n \in e..n
      BY <1>1, <1>3
    <3> QED
      BY <2>1, <3>1, SubSeqRecursiveFirst
  <2>4. SubSeq(s, e, n) = <<Space>> \o SubSeq(s, b, n)
    BY <1>1, <1>3, <2>1, <2>3
  <2> HIDE DEF n, b
  <2> QED
    BY <2>2, <2>4 DEF argv, e, n
<1>4. CASE ~(e <= n)
  <2>1. e = n + 1 /\ b = n + 1
    BY <1>1, <1>4 DEF Behind
  <2>2. argv = <<>>
    BY <1>2, <2>1, ArgumentsFound
  <2>3. SubSeq(s, e, n) = <<>>
    BY <1>1, <2>1, SubSeqEmpty
  <2>4. /\ <<>> \in Seq(Seq(Char)) /\ <<>> \in Seq(Char)
        /\ DOMAIN <<>> = {}
    BY EmptySeq
  <2> HIDE DEF n, b
  <2>5. SubSeq(s, e, n) = Written(argv, FALSE) \o <<>>
    BY <2>2, <2>3, <2>4, WrittenNone, ConcatEmptySeq
  <2>6. Reads(argv, FALSE, <<>>, SubSeq(s, e, n))
    BY <2>2, <2>4, <2>5 DEF Reads
  <2> QED
    BY <2>6 DEF argv, e, n
<1> QED
  BY <1>3, <1>4

LEMMA ParsedDerives ==
    ASSUME NEW s \in Seq(Char), Parses(s)
    PROVE  Derives(s, message_parse(s))
<1> DEFINE m == message_parse(s)
           n == Prefix(s)
           e == CommandEnd(s)
<1>1. PICK trailing, last : Reads(m.argv, trailing, last, SubSeq(s, e, Len(s)))
  BY ArgvRead
<1>2. /\ Len(s) \in Nat /\ n \in 0..Len(s) /\ e \in (n + 1)..(Len(s) + 1)
      /\ HasPrefix(s) =>
            n >= 2 /\ s[n] = Space /\ \A j \in 2..(n - 1) : s[j] # Space
      /\ ~HasPrefix(s) => n = 0
  BY CommandPlace, LenProperties DEF Prefix
<1>3. /\ m.command \in Seq(Char) /\ Len(m.command) = e - 1 - n
      /\ IsWord(m.command)
  BY CommandRead
<1>4. /\ m.command = Lowered(SubSeq(s, n + 1, e - 1))
      /\ m.prefix = IF ~HasPrefix(s) THEN Unset
                    ELSE SubSeq(s, 2, IF n - 2 > PrefixMax
                                        THEN PrefixMax + 1 ELSE n - 1)
  BY PartsParsed
<1> HIDE DEF m, n, e
<1>5. /\ n + Len(m.command) = e - 1
      /\ n + Len(m.command) + 1 = e
  BY <1>2, <1>3
<1>6. IF HasPrefix(s)
        THEN /\ n >= 2 /\ s[n] = Space /\ IsWord(SubSeq(s, 1, n - 1))
             /\ m.prefix =
                  SubSeq(s, 2, IF n > PrefixMax + 2 THEN PrefixMax + 1
                                                    ELSE n - 1)
        ELSE n = 0
  <2>1. CASE HasPrefix(s)
    <3>1. s[1] # Space
      BY <2>1, MessageAssumption DEF HasPrefix, MessageAssumption
    <3>2. \A j \in 1..(n - 1) : s[j] # Space
      <4>1. \A j \in 1..(n - 1) : j = 1 \/ j \in 2..(n - 1)
        BY <1>2
      <4> QED
        BY <1>2, <2>1, <3>1, <4>1
    <3>3. IsWord(SubSeq(s, 1, n - 1))
      <4>1. 1 \in 1..(Len(s) + 1) /\ n \in 1..(Len(s) + 1)
        BY <1>2, <2>1
      <4> QED
        BY <3>2, <4>1, PartIsWord
    <3>4. n - 2 > PrefixMax <=> n > PrefixMax + 2
      BY <1>2, MessageAssumption DEF MessageAssumption
    <3> QED
      BY <1>2, <1>4, <2>1, <3>3, <3>4
  <2>2. CASE ~HasPrefix(s)
    BY <1>2, <1>4, <2>2
  <2> QED
    BY <2>1, <2>2
<1>7. /\ trailing \in BOOLEAN /\ last \in {<<>>, <<Space>>}
      /\ \A k \in DOMAIN m.argv :
            k < Len(m.argv) \/ ~trailing => IsMiddle(m.argv[k])
      /\ SubSeq(s, n + Len(m.command) + 1, Len(s))
            = Written(m.argv, trailing) \o last
  BY <1>1, <1>5 DEF Reads
<1>8. m.command = Lowered(SubSeq(s, n + 1, n + Len(m.command)))
  BY <1>4, <1>5
<1>9. Derives(s, m)
  BY <1>2, <1>3, <1>6, <1>7, <1>8 DEF Derives
<1> QED
  BY <1>9 DEF m

-----------------------------------------------------------------------------
(***************************************************************************)
(* Every string has a bucket: hash is defined by recursion over it.        *)
(***************************************************************************)
LEMMA BucketType ==
    ASSUME NEW string \in Seq(Char)
    PROVE  Bucket(string) \in 0..(Buckets - 1)
<1> DEFINE n == Len(string)
           Mixed(i, v) == (v * 33 + Code[string[i]]) % HashRange
           step == [p \in (1..n) \X Nat |-> Mixed(p[1], p[2])]
           Is(g) == g = [i \in 0..n |->
                           IF i = 0 THEN 5381
                           ELSE (g[i - 1] * 33 + Code[string[i]]) % HashRange]
<1>1. n \in Nat /\ \A i \in 1..n : string[i] \in Char
  BY LenProperties
<1>2. /\ Code \in [Char -> Nat] /\ HashRange \in Nat \ {0}
      /\ Buckets \in Nat \ {0}
  BY MessageAssumption DEF MessageAssumption
<1>3. \A i \in 1..n : \A v \in Nat : Mixed(i, v) \in Nat
  <2> SUFFICES ASSUME NEW i \in 1..n, NEW v \in Nat PROVE Mixed(i, v) \in Nat
    OBVIOUS
  <2>1. Code[string[i]] \in Nat
    BY <1>1, <1>2
  <2>2. v * 33 + Code[string[i]] \in Nat
    BY <2>1
  <2> QED
    BY <1>2, <2>2
<1> HIDE DEF n
<1>4. /\ step \in [(1..n) \X Nat -> Nat]
      /\ \A i \in 1..n : \A v \in Nat : step[<<i, v>>] = Mixed(i, v)
  <2> HIDE DEF Mixed
  <2> QED
    BY <1>3
<1> HIDE DEF step
<1>5. PICK F : Recursive(F, n, Nat, 5381, step)
  <2> DEFINE V == Nat
             first == 5381
  <2>1. first \in V /\ step \in [(1..n) \X V -> V] /\ n \in Nat
    BY <1>1, <1>4
  <2> HIDE DEF V, first
  <2>2. \E F : Recursive(F, n, V, first, step)
    BY <2>1, RecursionExists
  <2> QED
    BY <2>2 DEF V, first
<1>6. /\ F \in [0..n -> Nat] /\ F[0] = 5381
      /\ \A i \in 1..n : F[i] = step[<<i, F[i - 1]>>]
  BY <1>5 DEF Recursive
<1>7. \A i \in 1..n : F[i] = Mixed(i, F[i - 1])
  <2> SUFFICES ASSUME NEW i \in 1..n PROVE F[i] = Mixed(i, F[i - 1])
    OBVIOUS
  <2>1. F[i - 1] \in Nat
    BY <1>1, <1>6
  <2> HIDE DEF Mixed
  <2>2. F[i] = step[<<i, F[i - 1]>>]
    BY <1>6
  <2>3. step[<<i, F[i - 1]>>] = Mixed(i, F[i - 1])
    BY <1>4, <2>1
  <2> QED
    BY <2>2, <2>3
<1>8. Is(F)
  <2> DEFINE G == [i \in 0..n |-> IF i = 0 THEN 5381 ELSE Mixed(i, F[i - 1])]
  <2>1. \A i \in 0..n : F[i] = G[i]
    <3> SUFFICES ASSUME NEW i \in 0..n PROVE F[i] = G[i]
      OBVIOUS
    <3>1. i = 0 \/ i \in 1..n
      BY <1>1
    <3> HIDE DEF Mixed
    <3> QED
      BY <1>6, <1>7, <3>1
  <2>2. F = [i \in 0..n |-> F[i]]
    BY <1>6
  <2>3. G = [i \in 0..n |-> G[i]]
    <3> HIDE DEF Mixed
    <3> QED
      OBVIOUS
  <2> HIDE DEF G
  <2>4. F = G
    BY <2>1, <2>2, <2>3
  <2> USE DEF G
  <2> QED
    BY <2>4
<1>9. \A g : Is(g) => g[n] \in Nat
  <2> SUFFICES ASSUME NEW g, Is(g) PROVE g[n] \in Nat
    OBVIOUS
  <2>1. \A i \in 0..n : g[i] = IF i = 0 THEN 5381 ELSE Mixed(i, g[i - 1])
    OBVIOUS
  <2> HIDE DEF Is, Mixed
  <2> DEFINE M == {m \in Nat : m <= n => g[m] \in Nat}
  <2>2. 0 \in M
    <3>1. 0 \in 0..n /\ 5381 \in Nat
      BY <1>1
    <3> QED
      BY <2>1, <3>1
  <2>3. ASSUME NEW m \in Nat, m \in M PROVE m + 1 \in M
    <3> SUFFICES ASSUME m + 1 <= n PROVE g[m + 1] \in Nat
      OBVIOUS
    <3>1. /\ m + 1 \in 1..n /\ m + 1 \in 0..n /\ m + 1 # 0
          /\ (m + 1) - 1 = m /\ g[m] \in Nat
      BY <1>1, <2>3
    <3>2. g[m + 1] = Mixed(m + 1, g[m])
      BY <2>1, <3>1
    <3> QED
      BY <1>3, <3>1, <3>2
  <2> HIDE DEF M
  <2>4. n \in M
    BY <1>1, <2>2, <2>3, Induction
  <2> QED
    BY <1>1, <2>4 DEF M
<1>10. hash(string) \in Nat
  <2>1. hash(string) = (CHOOSE g : Is(g))[n]
    BY DEF hash, n
  <2> HIDE DEF Is
  <2>2. Is(CHOOSE g : Is(g))
    BY <1>8
  <2> QED
    BY <1>9, <2>1, <2>2
<1> QED
  BY <1>2, <1>10 DEF Bucket

-----------------------------------------------------------------------------
(***************************************************************************)
(* The handlers for a command: those found in its bucket, and those that   *)
(* were registered for it                                                  *)
(***************************************************************************)
Called(found) == [k \in DOMAIN found |-> found[k].callback]

Wanted(chosen) == [k \in DOMAIN chosen |-> chosen[k][2]]

For(command) == {h \in Handlers : IsFor(command, h)}

CalledFor(handlers, command) == Called(Among(handlers, For(command)))

WantedFor(chosen, command) ==
    Wanted(Among(chosen, {command} \X Callback))

LEMMA CalledType ==
    ASSUME NEW found \in Seq(Handlers)
    PROVE  /\ Called(found) \in Seq(Callback)
           /\ Len(Called(found)) = Len(found)
           /\ \A k \in 1..Len(found) : Called(found)[k] = found[k].callback
<1>1. /\ Len(found) \in Nat /\ DOMAIN found = 1..Len(found)
      /\ \A k \in 1..Len(found) : found[k] \in Handlers
  BY LenProperties
<1>2. \A k \in 1..Len(found) : found[k].callback \in Callback
  BY <1>1 DEF Handlers
<1>3. Called(found) = [k \in 1..Len(found) |-> found[k].callback]
  BY <1>1 DEF Called
<1> QED
  BY <1>1, <1>2, <1>3

LEMMA WantedType ==
    ASSUME NEW T, NEW chosen \in Seq(T \X Callback)
    PROVE  /\ Wanted(chosen) \in Seq(Callback)
           /\ Len(Wanted(chosen)) = Len(chosen)
           /\ \A k \in 1..Len(chosen) : Wanted(chosen)[k] = chosen[k][2]
<1>1. /\ Len(chosen) \in Nat /\ DOMAIN chosen = 1..Len(chosen)
      /\ \A k \in 1..Len(chosen) : chosen[k] \in T \X Callback
  BY LenProperties
<1>2. \A k \in 1..Len(chosen) : chosen[k][2] \in Callback
  BY <1>1
<1>3. Wanted(chosen) = [k \in 1..Len(chosen) |-> chosen[k][2]]
  BY <1>1 DEF Wanted
<1> QED
  BY <1>1, <1>2, <1>3

\* One more of either
LEMMA CalledAppend ==
    ASSUME NEW found \in Seq(Handlers), NEW h \in Handlers
    PROVE  Called(Append(found, h)) = Append(Called(found), h.callback)
<1> DEFINE n == Len(found)
           longer == Append(found, h)
           p == Called(longer)
           q == Append(Called(found), h.callback)
<1>1. /\ n \in Nat /\ longer \in Seq(Handlers) /\ Len(longer) = n + 1
      /\ longer[n + 1] = h /\ \A k \in 1..n : longer[k] = found[k]
  BY LenProperties, AppendProperties
<1>2. h.callback \in Callback
  BY DEF Handlers
<1>3. /\ Called(found) \in Seq(Callback) /\ Len(Called(found)) = n
      /\ \A k \in 1..n : Called(found)[k] = found[k].callback
  BY CalledType
<1> HIDE DEF longer
<1>4. /\ p \in Seq(Callback) /\ Len(p) = n + 1
      /\ \A k \in 1..(n + 1) : p[k] = longer[k].callback
  BY <1>1, CalledType
<1>5. /\ q \in Seq(Callback) /\ Len(q) = n + 1 /\ q[n + 1] = h.callback
      /\ \A k \in 1..n : q[k] = found[k].callback
  <2> HIDE DEF n
  <2>1. /\ q \in Seq(Callback) /\ Len(q) = Len(Called(found)) + 1
        /\ q[Len(Called(found)) + 1] = h.callback
        /\ \A k \in 1..Len(Called(found)) : q[k] = Called(found)[k]
    BY <1>2, <1>3, AppendProperties
  <2> HIDE DEF q
  <2> QED
    BY <1>3, <2>1
<1> HIDE DEF n, p, q
<1>6. \A k \in 1..(n + 1) : p[k] = q[k]
  <2>1. \A k \in 1..(n + 1) : k = n + 1 \/ k \in 1..n
    BY <1>1
  <2> QED
    BY <1>1, <1>4, <1>5, <2>1
<1>7. p = q
  BY <1>4, <1>5, <1>6, SeqEqual
<1> QED
  BY <1>7 DEF p, q, longer

LEMMA WantedAppend ==
    ASSUME NEW T, NEW chosen \in Seq(T \X Callback), NEW r \in T \X Callback
    PROVE  Wanted(Append(chosen, r)) = Append(Wanted(chosen), r[2])
<1> DEFINE n == Len(chosen)
           longer == Append(chosen, r)
           p == Wanted(longer)
           q == Append(Wanted(chosen), r[2])
<1>1. /\ n \in Nat /\ longer \in Seq(T \X Callback) /\ Len(longer) = n + 1
      /\ longer[n + 1] = r /\ \A k \in 1..n : longer[k] = chosen[k]
  BY LenProperties, AppendProperties
<1>2. r[2] \in Callback
  OBVIOUS
<1>3. /\ Wanted(chosen) \in Seq(Callback) /\ Len(Wanted(chosen)) = n
      /\ \A k \in 1..n : Wanted(chosen)[k] = chosen[k][2]
  BY WantedType
<1> HIDE DEF longer
<1>4. /\ p \in Seq(Callback) /\ Len(p) = n + 1
      /\ \A k \in 1..(n + 1) : p[k] = longer[k][2]
  BY <1>1, WantedType
<1>5. /\ q \in Seq(Callback) /\ Len(q) = n + 1 /\ q[n + 1] = r[2]
      /\ \A k \in 1..n : q[k] = chosen[k][2]
  <2> HIDE DEF n
  <2>1. /\ q \in Seq(Callback) /\ Len(q) = Len(Wanted(chosen)) + 1
        /\ q[Len(Wanted(chosen)) + 1] = r[2]
        /\ \A k \in 1..Len(Wanted(chosen)) : q[k] = Wanted(chosen)[k]
    BY <1>2, <1>3, AppendProperties
  <2> HIDE DEF q
  <2> QED
    BY <1>3, <2>1
<1> HIDE DEF n, p, q
<1>6. \A k \in 1..(n + 1) : p[k] = q[k]
  <2>1. \A k \in 1..(n + 1) : k = n + 1 \/ k \in 1..n
    BY <1>1
  <2> QED
    BY <1>1, <1>4, <1>5, <2>1
<1>7. p = q
  BY <1>4, <1>5, <1>6, SeqEqual
<1> QED
  BY <1>7 DEF p, q, longer

(***************************************************************************)
(* The inductive invariant: the bucket of any command holds, among the     *)
(* handlers of the commands that share it, the ones registered for it, in  *)
(* the order they were.                                                    *)
(***************************************************************************)
TableExact ==
    \A c \in Seq(Char) :
       CalledFor(message_handlers[Bucket(c)], c) =
          WantedFor(registered, c)

MsgInv ==
    /\ MessageTypeOK
    /\ HandlersExact
    /\ TableExact

LEMMA InitMsgInv == MessageInit => MsgInv
<1> SUFFICES ASSUME MessageInit PROVE MsgInv
  OBVIOUS
<1>1. \A T : <<>> \in Seq(T)
  BY EmptySeq
<1>2. MessageTypeOK
  BY <1>1 DEF MessageInit, MessageTypeOK
<1>3. HandlersExact
  BY DEF MessageInit, HandlersExact
<1>4. ASSUME NEW c \in Seq(Char)
      PROVE  CalledFor(message_handlers[Bucket(c)], c) =
                WantedFor(registered, c)
  <2>1. message_handlers[Bucket(c)] = <<>> /\ registered = <<>>
    BY BucketType DEF MessageInit
  <2>2. \A S : Among(<<>>, S) = <<>>
    BY AmongEmpty
  <2>3. Called(<<>>) = <<>> /\ Wanted(<<>>) = <<>>
    BY DEF Called, Wanted
  <2> QED
    BY <2>1, <2>2, <2>3 DEF CalledFor, WantedFor
<1> QED
  BY <1>2, <1>3, <1>4 DEF MsgInv, TableExact

\* What one more handler changes for a command: nothing, unless it is for it
LEMMA CalledForAppend ==
    ASSUME NEW s \in Seq(Handlers), NEW h \in Handlers, NEW c
    PROVE  /\ CalledFor(s, c) \in Seq(Callback)
           /\ CalledFor(Append(s, h), c) =
                 IF h.command = c THEN Append(CalledFor(s, c), h.callback)
                                  ELSE CalledFor(s, c)
<1> DEFINE S == For(c)
           found == Among(s, S)
<1>1. h \in S <=> h.command = c
  BY DEF For, IsFor
<1>2. S \subseteq Handlers
  BY DEF For
<1>3. /\ found \in Seq(Handlers \cap S)
      /\ Among(Append(s, h), S) = IF h \in S THEN Append(found, h) ELSE found
  BY AmongAppend
<1>4. CalledFor(s, c) = Called(found)
      /\ CalledFor(Append(s, h), c) = Called(Among(Append(s, h), S))
  BY DEF CalledFor
<1> HIDE DEF S, found
<1>5. found \in Seq(Handlers)
  <2>1. Handlers \cap S = S
    BY <1>2
  <2>2. found \in Seq(S)
    BY <1>3, <2>1
  <2> QED
    BY <1>2, <2>2, SeqDef
<1>6. /\ Called(found) \in Seq(Callback)
      /\ Called(Append(found, h)) = Append(Called(found), h.callback)
  BY <1>5, CalledType, CalledAppend
<1> QED
  BY <1>1, <1>3, <1>4, <1>6

\* What registered lists
Registrations == Command \X Callback

LEMMA WantedForAppend ==
    ASSUME NEW s \in Seq(Registrations), NEW r \in Registrations, NEW c
    PROVE  WantedFor(Append(s, r), c) =
              IF r[1] = c THEN Append(WantedFor(s, c), r[2])
                          ELSE WantedFor(s, c)
<1> DEFINE S == {c} \X Callback
           chosen == Among(s, S)
<1>1. r \in S <=> r[1] = c
  BY DEF Registrations
<1>2. /\ WantedFor(s, c) = Wanted(chosen)
      /\ WantedFor(Append(s, r), c) = Wanted(Among(Append(s, r), S))
  BY DEF WantedFor
<1> HIDE DEF S
<1>3. /\ chosen \in Seq(Registrations \cap S)
      /\ Among(Append(s, r), S) =
            IF r \in S THEN Append(chosen, r) ELSE chosen
  BY AmongAppend
<1> HIDE DEF chosen
<1>4. chosen \in Seq(Registrations)
  BY <1>3, SeqDef
<1>5. Wanted(Append(chosen, r)) = Append(Wanted(chosen), r[2])
  BY <1>4, WantedAppend DEF Registrations
<1> QED
  BY <1>1, <1>2, <1>3, <1>5

LEMMA RegisterMsgInv ==
    ASSUME MsgInv, NEW command \in Command, NEW callback \in Callback,
           message_register_handler(command, callback)
    PROVE  MsgInv'
<1> DEFINE h == Handler(command, callback)
           b == Bucket(command)
           r == <<command, callback>>
<1>0. MessageTypeOK /\ TableExact
  BY DEF MsgInv
<1>1. /\ line = <<>>
      /\ message_handlers' =
            [message_handlers EXCEPT ![b] = Append(@, h)]
      /\ registered' = Append(registered, r)
      /\ line' = line /\ called' = called /\ too_large' = too_large
  BY DEF message_register_handler
<1>2. /\ h \in Handlers /\ h.command = command /\ h.callback = callback
      /\ r \in Registrations /\ r[1] = command /\ r[2] = callback
  BY DEF Handler, Handlers, Registrations
<1>3. command \in Seq(Char) /\ b \in 0..(Buckets - 1)
  BY <1>0, BucketType, MessageAssumption DEF MessageAssumption
<1>4. /\ message_handlers \in [0..(Buckets - 1) -> Seq(Handlers)]
      /\ registered \in Seq(Registrations)
  BY <1>0 DEF MessageTypeOK, Registrations
<1> HIDE DEF h, b, r
<1>5. MessageTypeOK'
  <2>1. Append(message_handlers[b], h) \in Seq(Handlers)
    BY <1>2, <1>3, <1>4, AppendProperties
  <2>2. registered' \in Seq(Registrations)
    BY <1>1, <1>2, <1>4, AppendProperties
  <2>3. message_handlers' \in [0..(Buckets - 1) -> Seq(Handlers)]
    BY <1>1, <1>4, <2>1
  <2> QED
    BY <1>0, <1>1, <2>2, <2>3 DEF MessageTypeOK, Registrations
<1>6. HandlersExact'
  BY <1>1 DEF HandlersExact
<1>7. ASSUME NEW c \in Seq(Char)
      PROVE  CalledFor(message_handlers'[Bucket(c)], c) =
                WantedFor(registered', c)
  <2> DEFINE d == Bucket(c)
             s == message_handlers[d]
  <2>1. d \in 0..(Buckets - 1) /\ s \in Seq(Handlers)
    BY <1>0, <1>4, BucketType
  <2>2. CalledFor(s, c) = WantedFor(registered, c)
    BY <1>0 DEF TableExact
  <2>3. WantedFor(registered', c) =
           IF command = c THEN Append(WantedFor(registered, c), callback)
                          ELSE WantedFor(registered, c)
    <3>1. WantedFor(Append(registered, r), c) =
             IF r[1] = c THEN Append(WantedFor(registered, c), r[2])
                         ELSE WantedFor(registered, c)
      BY <1>2, <1>4, WantedForAppend
    <3> QED
      BY <1>1, <1>2, <3>1
  <2>4. CASE d = b
    <3>1. message_handlers'[d] = Append(s, h)
      BY <1>1, <1>4, <2>1, <2>4
    <3>2. CalledFor(Append(s, h), c) =
             IF h.command = c THEN Append(CalledFor(s, c), h.callback)
                              ELSE CalledFor(s, c)
      BY <1>2, <2>1, CalledForAppend
    <3> QED
      BY <1>2, <2>2, <2>3, <3>1, <3>2
  <2>5. CASE d # b
    <3>1. message_handlers'[d] = s
      BY <1>1, <1>4, <2>1, <2>5
    <3>2. command # c
      BY <2>5 DEF b
    <3> QED
      BY <2>2, <2>3, <3>1, <3>2
  <2> QED
    BY <2>4, <2>5
<1>8. TableExact'
  BY <1>7 DEF TableExact, Bucket, hash, CalledFor, WantedFor
<1> QED
  BY <1>5, <1>6, <1>8 DEF MsgInv

LEMMA HandleMsgInv ==
    ASSUME MsgInv, NEW s \in Seq(Char), Handle(s)
    PROVE  MsgInv'
<1> DEFINE command == message_parse(s).command
           bucket == message_handlers[Bucket(command)]
<1>0. MessageTypeOK /\ TableExact
  BY DEF MsgInv
<1>1. /\ line' = s
      /\ message_handlers' = message_handlers /\ registered' = registered
      /\ too_large' \in BOOLEAN
      /\ called' = IF Parses(s) /\ ~too_large'
                     THEN message_dispatch_command(command)
                     ELSE <<>>
  BY DEF Handle
<1>2. /\ message_handlers \in [0..(Buckets - 1) -> Seq(Handlers)]
      /\ registered \in Seq(Command \X Callback)
  BY <1>0 DEF MessageTypeOK
<1>3. message_dispatch_command(command) = CalledFor(bucket, command)
  BY DEF message_dispatch_command, CalledFor, Called, For
<1>4. ASSUME Parses(s)
      PROVE  /\ CalledFor(bucket, command) \in Seq(Callback)
             /\ CalledFor(bucket, command) = WantedFor(registered, command)
  <2>1. command \in Seq(Char)
    BY <1>0, <1>4, CommandRead
  <2>2. Bucket(command) \in 0..(Buckets - 1)
    BY <1>0, <2>1, BucketType
  <2>3. bucket \in Seq(Handlers)
    BY <1>2, <2>2
  <2>4. CalledFor(bucket, command) = WantedFor(registered, command)
    BY <1>0, <2>1 DEF TableExact
  <2>5. CalledFor(bucket, command) \in Seq(Callback)
    <3> DEFINE S == For(command)
               found == Among(bucket, S)
    <3>1. CalledFor(bucket, command) = Called(found)
      BY DEF CalledFor
    <3>2. found \in Seq(Handlers)
      <4>1. PICK F : PickedAt(F, bucket, S, Handlers)
                     /\ found = F[Len(bucket)]
        BY <2>3, AmongPicked
      <4> HIDE DEF S, found, bucket
      <4>2. Len(bucket) \in 0..Len(bucket)
        BY <2>3, LenProperties
      <4>3. F[Len(bucket)] \in Seq(Handlers \cap S)
        BY <4>1, <4>2 DEF PickedAt
      <4> QED
        BY <4>1, <4>3, SeqDef
    <3> HIDE DEF found
    <3> QED
      BY <3>1, <3>2, CalledType
  <2> QED
    BY <2>4, <2>5
<1>5. MessageTypeOK'
  <2>1. called' \in Seq(Callback)
    BY <1>1, <1>3, <1>4, EmptySeq
  <2> QED
    BY <1>0, <1>1, <1>2, <2>1 DEF MessageTypeOK
<1>6. HandlersExact'
  <2>1. WantedFor(registered, command) =
           LET wanted == Among(registered, {command} \X Callback)
           IN  [k \in DOMAIN wanted |-> wanted[k][2]]
    BY DEF WantedFor, Wanted
  <2> QED
    BY <1>1, <1>3, <1>4, <2>1 DEF HandlersExact
<1>7. TableExact'
  BY <1>0, <1>1 DEF TableExact, Bucket, hash, CalledFor, WantedFor
<1> QED
  BY <1>5, <1>6, <1>7 DEF MsgInv

LEMMA NextMsgInv == MsgInv /\ [MessageNext]_messageVars => MsgInv'
<1> SUFFICES ASSUME MsgInv, [MessageNext]_messageVars PROVE MsgInv'
  OBVIOUS
<1>1. CASE \E command \in Command, callback \in Callback :
              message_register_handler(command, callback)
  BY <1>1, RegisterMsgInv
<1>2. CASE \E n \in 0..MaxLine : \E s \in [1..n -> Char] : Handle(s)
  <2>1. PICK n \in 0..MaxLine : \E s \in [1..n -> Char] : Handle(s)
    BY <1>2
  <2>2. PICK s \in [1..n -> Char] : Handle(s)
    BY <2>1
  <2>3. s \in Seq(Char)
    BY DEF MsgInv
  <2> QED
    BY <2>2, <2>3, HandleMsgInv
<1>3. CASE UNCHANGED messageVars
  BY <1>3 DEF messageVars, MsgInv, MessageTypeOK,
              HandlersExact, TableExact, CalledFor, WantedFor
<1> QED
  BY <1>1, <1>2, <1>3 DEF MessageNext

LEMMA AlwaysMsgInv == MessageSpec => []MsgInv
BY InitMsgInv, NextMsgInv, PTL DEF MessageSpec

(***************************************************************************)
(* The table of handlers, the lines and what they call stay what they are: *)
(* every handler is in a bucket of the table, and hash never leaves it.    *)
(***************************************************************************)
THEOREM MessageTypeCorrect == MessageSpec => []MessageTypeOK
<1>1. MsgInv => MessageTypeOK
  BY DEF MsgInv
<1> QED
  BY <1>1, AlwaysMsgInv, PTL

(***************************************************************************)
(* message_parse takes every line it accepts apart into all of its parts,  *)
(* so that the prefix, the command and the arguments with one space before *)
(* each give it back: however long it is, and whichever of its characters  *)
(* are spaces and colons.  A line of RFC 1459 with two spaces in a row is  *)
(* given back too, by an empty argument that the RFC does not have.        *)
(***************************************************************************)
THEOREM ParseCorrect == MessageSpec => []ParseDerives
<1>1. MsgInv => ParseDerives
  BY ParsedDerives DEF MsgInv, MessageTypeOK, ParseDerives
<1> QED
  BY <1>1, AlwaysMsgInv, PTL

(***************************************************************************)
(* A line calls the handlers registered for its command, each as often as  *)
(* and in the order it was registered, and no others, for any hash codes,  *)
(* number of buckets and handlers.                                         *)
(***************************************************************************)
THEOREM HandlersCorrect == MessageSpec => []HandlersExact
<1>1. MsgInv => HandlersExact
  BY DEF MsgInv
<1> QED
  BY <1>1, AlwaysMsgInv, PTL
=============================================================================
