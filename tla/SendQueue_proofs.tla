-------------------------- MODULE SendQueue_proofs --------------------------
(***************************************************************************)
(* The reference counts of the send queues are exact, for any finite set   *)
(* of clients, any buffers and messages, and queues of any bounded length; *)
(* and the queues implement separate streams of bytes.                     *)
(*                                                                         *)
(* The first lemmas are about queues as such, q and p, and count the       *)
(* places where a buffer is.                                               *)
(***************************************************************************)
EXTENDS SendQueue, Lemmas, TLAPS

Refs(q, b) ==
    {r \in Client \X (1..MaxQueue) :
       r[2] <= Len(q[r[1]]) /\ q[r[1]][r[2]].buffer = b}

\* Two sets with a bijection between them are equally large.
LEMMA SameSize ==
    ASSUME NEW S, NEW T, IsFiniteSet(S), NEW f \in [S -> T],
           \A x, y \in S : f[x] = f[y] => x = y,
           \A t \in T : \E x \in S : f[x] = t
    PROVE  IsFiniteSet(T) /\ Cardinality(T) = Cardinality(S)
<1>1. f \in Bijection(S, T)
  BY DEF Bijection, Injection, Surjection, IsInjective
<1>2. ExistsBijection(S, T)
  BY <1>1 DEF ExistsBijection
<1> QED
  BY <1>2, FS_Bijection

\* A set in two parts
LEMMA SizeOfParts ==
    ASSUME NEW S, NEW T, IsFiniteSet(S), IsFiniteSet(T), S \cap T = {}
    PROVE  Cardinality(S \cup T) = Cardinality(S) + Cardinality(T)
<1>1. Cardinality(S \cup T) =
        Cardinality(S) + Cardinality(T) - Cardinality(S \cap T)
  BY FS_Union
<1>2. Cardinality(S \cap T) = 0
  BY FS_EmptySet
<1>3. Cardinality(S) \in Nat /\ Cardinality(T) \in Nat
  BY FS_CardinalityType
<1> QED
  BY <1>1, <1>2, <1>3

LEMMA IntervalFinite ==
    ASSUME NEW n \in Nat, NEW S \in SUBSET (1..n)
    PROVE  IsFiniteSet(S) /\ Cardinality(S) \in Nat
<1>1. IsFiniteSet(1..n)
  BY FS_Interval
<1> QED
  BY <1>1, FS_Subset, FS_CardinalityType

\* There are finitely many places in the queues.
LEMMA RefsFinite ==
    ASSUME NEW q, NEW b
    PROVE  IsFiniteSet(Refs(q, b)) /\ Cardinality(Refs(q, b)) \in Nat
<1>0. IsFiniteSet(Client) /\ IsFiniteSet(1..MaxQueue)
  BY SendQueueAssumption, FS_Interval DEF SendQueueAssumption
<1>1. IsFiniteSet(Client \X (1..MaxQueue))
  BY <1>0, FS_Product
<1>2. Refs(q, b) \in SUBSET (Client \X (1..MaxQueue))
  BY DEF Refs
<1> QED
  BY <1>1, <1>2, FS_Subset, FS_CardinalityType

\* A place is a client and a position in its queue.
LEMMA RefsPlaces ==
    ASSUME NEW q, NEW b
    PROVE  /\ \A d \in Client, i \in 1..MaxQueue :
                 <<d, i>> \in Refs(q, b) <=>
                    i <= Len(q[d]) /\ q[d][i].buffer = b
           /\ \A r \in Refs(q, b) :
                 /\ r = <<r[1], r[2]>>
                 /\ r[1] \in Client /\ r[2] \in 1..MaxQueue
                 /\ r[2] <= Len(q[r[1]]) /\ q[r[1]][r[2]].buffer = b
BY DEF Refs

(***************************************************************************)
(* A queue that loses its first n elements loses the places of a buffer    *)
(* that are among them.                                                    *)
(***************************************************************************)
Shrunk(q, p, c, n) ==
    /\ \A d \in Client : Len(q[d]) \in 0..MaxQueue
    /\ n <= Len(q[c]) /\ Len(p[c]) = Len(q[c]) - n
    /\ \A i \in 1..Len(p[c]) : p[c][i].buffer = q[c][n + i].buffer
    /\ \A d \in Client \ {c} : p[d] = q[d]

\* The places of b among the first n elements of queue c
PlacesOf(q, c, n, b) == {i \in 1..n : q[c][i].buffer = b}

LEMMA RefsDropped ==
    ASSUME NEW q, NEW p, NEW b, NEW c \in Client, NEW n \in Nat,
           Shrunk(q, p, c, n)
    PROVE  Cardinality(Refs(p, b)) =
             Cardinality(Refs(q, b)) - Cardinality(PlacesOf(q, c, n, b))
<1> USE DEF Shrunk, PlacesOf
<1> DEFINE Leaving == PlacesOf(q, c, n, b)
           Gone == {r \in Refs(q, b) : r[1] = c /\ r[2] <= n}
           Left == Refs(q, b) \ Gone
           there == [i \in Leaving |-> <<c, i>>]
           back == [r \in Refs(p, b) |->
                      IF r[1] = c THEN <<c, r[2] + n>> ELSE r]
<1> MaxQueue \in Nat
  BY SendQueueAssumption DEF SendQueueAssumption
<1>1. IsFiniteSet(Leaving) /\ Cardinality(Leaving) \in Nat
  <2>1. Leaving \in SUBSET (1..n)
    OBVIOUS
  <2> HIDE DEF Leaving
  <2> QED
    BY <2>1, IntervalFinite
<1>2. Cardinality(Gone) = Cardinality(Leaving)
  <2>1. there \in [Leaving -> Gone]
    <3> SUFFICES ASSUME NEW i \in Leaving PROVE <<c, i>> \in Gone
      OBVIOUS
    <3>1. i \in 1..MaxQueue /\ i <= Len(q[c])
      OBVIOUS
    <3>2. <<c, i>> \in Refs(q, b)
      BY <3>1, RefsPlaces
    <3> QED
      BY <3>2
  <2>2. \A i, j \in Leaving : there[i] = there[j] => i = j
    OBVIOUS
  <2>3. \A r \in Gone : \E i \in Leaving : there[i] = r
    BY RefsPlaces
  <2> HIDE DEF Leaving, Gone, there
  <2> QED
    BY <1>1, <2>1, <2>2, <2>3, SameSize
<1>3. Cardinality(Left) = Cardinality(Refs(p, b))
  <2>1. ASSUME NEW r \in Refs(p, b)
        PROVE  /\ back[r] \in Left
               /\ back[r][1] = r[1]
               /\ back[r][2] = IF r[1] = c THEN r[2] + n ELSE r[2]
    <3>1. CASE r[1] = c
      <4>1. r[2] \in 1..Len(p[c]) /\ p[c][r[2]].buffer = b
        BY <3>1, RefsPlaces
      <4> DEFINE k == r[2] + n
      <4>2. k = r[2] + n /\ r[2] \in 1..(Len(q[c]) - n)
        BY <4>1
      <4> HIDE DEF k
      <4>3. k \in 1..MaxQueue /\ k <= Len(q[c]) /\ k > n /\ k = n + r[2]
        BY <4>2
      <4>4. q[c][k].buffer = b
        BY <4>1, <4>3
      <4>5. <<c, k>> \in Left
        BY <4>3, <4>4, RefsPlaces
      <4>6. back[r] = <<c, k>>
        BY <3>1 DEF k
      <4> QED
        BY <3>1, <4>2, <4>5, <4>6
    <3>2. CASE r[1] # c
      <4>1. r \in Refs(q, b)
        BY <3>2, RefsPlaces
      <4> QED
        BY <3>2, <4>1, RefsPlaces
    <3> QED
      BY <3>1, <3>2
  <2>2. back \in [Refs(p, b) -> Left]
    BY <2>1
  <2>3. ASSUME NEW r \in Refs(p, b), NEW s \in Refs(p, b),
               back[r] = back[s]
        PROVE  r = s
    <3>1. r[1] = s[1]
      BY <2>1, <2>3
    <3>2. r[2] = s[2]
      BY <2>1, <2>3, <3>1, RefsPlaces
    <3> QED
      BY <3>1, <3>2, RefsPlaces
  <2>4. ASSUME NEW r \in Left
        PROVE  \E s \in Refs(p, b) : back[s] = r
    <3>1. CASE r[1] = c
      <4>1. /\ r = <<c, r[2]>> /\ r[2] \in 1..MaxQueue
            /\ r[2] <= Len(q[c]) /\ q[c][r[2]].buffer = b
            /\ r[2] > n
        BY <3>1, RefsPlaces
      <4>2. r[2] - n \in 1..Len(p[c])
        BY <4>1
      <4>3. p[c][r[2] - n].buffer = b
        <5> DEFINE i == r[2] - n
        <5>1. i \in 1..Len(p[c]) /\ n + i = r[2]
          BY <4>1, <4>2
        <5> HIDE DEF i
        <5>2. p[c][i].buffer = q[c][n + i].buffer
          BY <5>1
        <5>3. p[c][i].buffer = b
          BY <4>1, <5>1, <5>2
        <5> QED
          BY <5>3 DEF i
      <4>4. <<c, r[2] - n>> \in Refs(p, b)
        BY <4>1, <4>2, <4>3, RefsPlaces
      <4>5. back[<<c, r[2] - n>>] = <<c, (r[2] - n) + n>>
        BY <4>4
      <4> QED
        BY <4>1, <4>4, <4>5
    <3>2. CASE r[1] # c
      <4>1. r \in Refs(p, b)
        BY <3>2, RefsPlaces
      <4> QED
        BY <3>2, <4>1
    <3> QED
      BY <3>1, <3>2
  <2> HIDE DEF Left, back
  <2> QED
    BY <2>2, <2>3, <2>4, RefsFinite, SameSize
<1>4. IsFiniteSet(Gone) /\ IsFiniteSet(Left)
  BY RefsFinite, FS_Subset
<1>5. Cardinality(Refs(q, b)) = Cardinality(Gone) + Cardinality(Left)
  <2>1. Gone \cup Left = Refs(q, b) /\ Gone \cap Left = {}
    OBVIOUS
  <2> HIDE DEF Gone, Left
  <2> QED
    BY <1>4, <2>1, SizeOfParts
<1> QED
  BY <1>1, <1>2, <1>3, <1>5, RefsFinite, FS_CardinalityType

(***************************************************************************)
(* Queues that get copies of a buffer they do not hold yet: its places are *)
(* as many as the copies, and those of the others stay.                    *)
(***************************************************************************)
Grown(q, p, b, copies) ==
    /\ \A d \in Client :
          /\ Len(q[d]) \in Nat
          /\ Len(p[d]) = Len(q[d]) + copies[d]
          /\ Len(p[d]) <= MaxQueue
          /\ \A i \in 1..Len(q[d]) : p[d][i] = q[d][i]
          /\ \A i \in 1..copies[d] : p[d][Len(q[d]) + i].buffer = b
    /\ Refs(q, b) = {}

LEMMA RefsAdded ==
    ASSUME NEW q, NEW p, NEW b, NEW copies \in [Client -> 0..MaxCopies],
           Grown(q, p, b, copies)
    PROVE  /\ Total(copies) \in Nat
           /\ Cardinality(Refs(p, b)) = Total(copies)
           /\ \A e : e # b => Refs(p, e) = Refs(q, e)
<1> USE DEF Grown
<1> MaxQueue \in Nat /\ MaxCopies \in Nat
  BY SendQueueAssumption DEF SendQueueAssumption
<1>0. \A d \in Client : copies[d] \in 0..MaxCopies
  OBVIOUS
<1> DEFINE Calls == {r \in Client \X (1..MaxCopies) : r[2] <= copies[r[1]]}
           put == [r \in Calls |-> <<r[1], Len(q[r[1]]) + r[2]>>]
<1>1. IsFiniteSet(Calls) /\ Cardinality(Calls) \in Nat
  <2>1. IsFiniteSet(Client) /\ IsFiniteSet(1..MaxCopies)
    BY SendQueueAssumption, IntervalFinite DEF SendQueueAssumption
  <2>2. IsFiniteSet(Client \X (1..MaxCopies))
    BY <2>1, FS_Product
  <2>3. Calls \in SUBSET (Client \X (1..MaxCopies))
    OBVIOUS
  <2> HIDE DEF Calls
  <2> QED
    BY <2>2, <2>3, FS_Subset, FS_CardinalityType
<1>2. ASSUME NEW r \in Calls
      PROVE  /\ put[r] \in Refs(p, b)
             /\ r = <<r[1], r[2]>> /\ r[1] \in Client /\ r[2] \in Nat
             /\ put[r][1] = r[1] /\ put[r][2] = Len(q[r[1]]) + r[2]
  <2> DEFINE k == Len(q[r[1]]) + r[2]
  <2>1. r = <<r[1], r[2]>> /\ r[1] \in Client /\ r[2] \in 1..copies[r[1]]
    BY <1>0
  <2>2. k \in 1..MaxQueue /\ k <= Len(p[r[1]]) /\ p[r[1]][k].buffer = b
    <3> DEFINE l == Len(q[r[1]])
               n == copies[r[1]]
    <3>1. l \in Nat /\ n \in Nat /\ l + n <= MaxQueue /\ r[2] \in 1..n
      BY <1>0, <2>1
    <3>2. Len(p[r[1]]) = l + n /\ p[r[1]][l + r[2]].buffer = b
      BY <2>1
    <3> HIDE DEF l, n
    <3>3. l + r[2] \in 1..MaxQueue /\ l + r[2] <= l + n
      BY <3>1
    <3> QED
      BY <3>2, <3>3 DEF l
  <2>3. put[r] = <<r[1], k>>
    OBVIOUS
  <2> HIDE DEF k, put
  <2>4. put[r] \in Refs(p, b)
    BY <2>1, <2>2, <2>3, RefsPlaces
  <2> QED
    BY <1>0, <2>1, <2>3, <2>4 DEF k
<1>3. put \in [Calls -> Refs(p, b)]
  BY <1>2
<1>4. ASSUME NEW r \in Calls, NEW s \in Calls, put[r] = put[s]
      PROVE  r = s
  <2>1. r[1] = s[1]
    BY <1>2, <1>4
  <2>2. Len(q[r[1]]) + r[2] = Len(q[r[1]]) + s[2]
    BY <1>2, <1>4, <2>1
  <2>3. r[2] = s[2]
    BY <1>2, <2>2
  <2> QED
    BY <1>2, <2>1, <2>3
<1>5. ASSUME NEW t \in Refs(p, b)
      PROVE  \E r \in Calls : put[r] = t
  <2>1. /\ t = <<t[1], t[2]>> /\ t[1] \in Client /\ t[2] \in 1..MaxQueue
        /\ t[2] <= Len(p[t[1]]) /\ p[t[1]][t[2]].buffer = b
    BY RefsPlaces
  <2>2. t[2] > Len(q[t[1]])
    <3> SUFFICES ASSUME t[2] <= Len(q[t[1]]) PROVE FALSE
      BY <2>1
    <3>1. t[2] \in 1..Len(q[t[1]])
      BY <2>1
    <3>2. q[t[1]][t[2]].buffer = b
      BY <2>1, <3>1
    <3> DEFINE d == t[1]
               i == t[2]
    <3>3. /\ d \in Client /\ i \in 1..MaxQueue
          /\ i <= Len(q[d]) /\ q[d][i].buffer = b
      BY <2>1, <3>1, <3>2
    <3> HIDE DEF d, i
    <3> QED
      BY <3>3, RefsPlaces
  <2> DEFINE k == t[2] - Len(q[t[1]])
  <2>3. k \in 1..MaxCopies /\ k <= copies[t[1]] /\ Len(q[t[1]]) + k = t[2]
    <3> DEFINE l == Len(q[t[1]])
               n == copies[t[1]]
    <3>1. /\ l \in Nat /\ n \in 0..MaxCopies /\ t[2] \in Nat
          /\ l < t[2] /\ t[2] <= l + n
      BY <1>0, <2>1, <2>2
    <3> HIDE DEF l, n
    <3>2. t[2] - l \in 1..MaxCopies /\ t[2] - l <= n /\ l + (t[2] - l) = t[2]
      BY <3>1
    <3> QED
      BY <3>2 DEF l, n
  <2> HIDE DEF k
  <2>4. <<t[1], k>> \in Calls
    BY <2>1, <2>3
  <2>5. put[<<t[1], k>>] = <<t[1], Len(q[t[1]]) + k>>
    BY <2>4
  <2> QED
    BY <2>1, <2>3, <2>4, <2>5
<1>6. Cardinality(Refs(p, b)) = Cardinality(Calls)
  <2> HIDE DEF Calls, put
  <2> QED
    BY <1>1, <1>3, <1>4, <1>5, SameSize
<1>7. ASSUME NEW e, e # b
      PROVE  Refs(p, e) = Refs(q, e)
  <2>1. ASSUME NEW r \in Refs(q, e)
        PROVE  r \in Refs(p, e)
    <3>1. /\ r = <<r[1], r[2]>> /\ r[1] \in Client /\ r[2] \in 1..MaxQueue
          /\ r[2] <= Len(q[r[1]]) /\ q[r[1]][r[2]].buffer = e
      BY RefsPlaces
    <3>2. r[2] <= Len(p[r[1]]) /\ p[r[1]][r[2]].buffer = e
      BY <1>0, <3>1
    <3> QED
      BY <3>1, <3>2, RefsPlaces
  <2>2. ASSUME NEW r \in Refs(p, e)
        PROVE  r \in Refs(q, e)
    <3>1. /\ r = <<r[1], r[2]>> /\ r[1] \in Client /\ r[2] \in 1..MaxQueue
          /\ r[2] <= Len(p[r[1]]) /\ p[r[1]][r[2]].buffer = e
      BY RefsPlaces
    <3>2. r[2] <= Len(q[r[1]])
      <4> SUFFICES ASSUME r[2] > Len(q[r[1]]) PROVE FALSE
        BY <3>1
      <4> DEFINE k == r[2] - Len(q[r[1]])
      <4>1. k \in 1..copies[r[1]] /\ r[2] = Len(q[r[1]]) + k
        <5> DEFINE l == Len(q[r[1]])
                   n == copies[r[1]]
        <5>1. /\ l \in Nat /\ n \in 0..MaxCopies /\ r[2] \in Nat
              /\ l < r[2] /\ r[2] <= l + n
          BY <1>0, <3>1
        <5> HIDE DEF l, n
        <5>2. r[2] - l \in 1..n /\ r[2] = l + (r[2] - l)
          BY <5>1
        <5> QED
          BY <5>2 DEF l, n
      <4> HIDE DEF k
      <4> QED
        BY <1>7, <3>1, <4>1
    <3>3. q[r[1]][r[2]].buffer = e
      BY <3>1, <3>2
    <3> QED
      BY <3>1, <3>2, <3>3, RefsPlaces
  <2> QED
    BY <2>1, <2>2
<1> QED
  BY <1>1, <1>6, <1>7 DEF Total

-----------------------------------------------------------------------------
Element == [buffer : Buffer, buffer_position : Nat]

IInv ==
    /\ TypeOK
    /\ \A c \in Client : Len(queue[c]) <= MaxQueue
    /\ \A c \in Client \ connected : queue[c] = <<>>
    /\ CountExact
    /\ QueueWellFormed

LEMMA ReferringRefs == \A b : Referring(b) = Refs(queue, b)
BY DEF Referring, Refs

LEMMA InitIInv == Init => IInv
<1> SUFFICES ASSUME Init PROVE IInv
  OBVIOUS
<1>1. TypeOK
  BY DEF Init, TypeOK
<1>2. \A c \in Client : Len(queue[c]) <= MaxQueue
  BY SendQueueAssumption DEF Init, SendQueueAssumption
<1>0. \A c \in Client \ connected : queue[c] = <<>>
  BY DEF Init
<1>3. CountExact
  BY DEF Init, CountExact, Referring
<1>4. QueueWellFormed
  BY DEF Init, QueueWellFormed
<1> QED
  BY <1>0, <1>1, <1>2, <1>3, <1>4 DEF IInv

\* The elements of two sequences, one after the other
LEMMA ConcatElements ==
    ASSUME NEW S, NEW s \in Seq(S), NEW t \in Seq(S)
    PROVE  /\ s \o t \in Seq(S)
           /\ Len(s) \in Nat /\ Len(t) \in Nat
           /\ Len(s \o t) = Len(s) + Len(t)
           /\ \A i \in 1..Len(s) : (s \o t)[i] = s[i]
           /\ \A i \in 1..Len(t) : (s \o t)[Len(s) + i] = t[i]
<1>1. Len(s) \in Nat /\ Len(t) \in Nat
  BY LenProperties
<1>2. s \o t \in Seq(S) /\ Len(s \o t) = Len(s) + Len(t)
  BY ConcatProperties
<1>3. \A i \in 1..(Len(s) + Len(t)) :
         (s \o t)[i] = IF i <= Len(s) THEN s[i] ELSE t[i - Len(s)]
  BY ConcatProperties
<1>4. ASSUME NEW i \in 1..Len(s)
      PROVE  (s \o t)[i] = s[i]
  <2>1. i \in 1..(Len(s) + Len(t)) /\ i <= Len(s)
    BY <1>1
  <2> QED
    BY <1>3, <2>1
<1>5. ASSUME NEW i \in 1..Len(t)
      PROVE  (s \o t)[Len(s) + i] = t[i]
  <2> DEFINE l == Len(s)
             k == Len(t)
  <2>1. l \in Nat /\ k \in Nat /\ i \in 1..k
    BY <1>1
  <2>2. \A j \in 1..(l + k) : (s \o t)[j] = IF j <= l THEN s[j] ELSE t[j - l]
    BY <1>3
  <2> HIDE DEF l, k
  <2>3. l + i \in 1..(l + k) /\ ~(l + i <= l) /\ (l + i) - l = i
    BY <2>1
  <2>4. (s \o t)[l + i] = t[i]
    BY <2>2, <2>3
  <2> QED
    BY <2>4 DEF l
<1> QED
  BY <1>1, <1>2, <1>4, <1>5

\* What send_enqueue_client makes of a queue whose end pointer is right
LEMMA AppendedQueue ==
    ASSUME IInv, NEW c \in Client, NEW b \in Buffer, NEW n \in Nat
    PROVE  /\ Appended(c, b, n) \in Seq(Element)
           /\ Len(Appended(c, b, n)) = Len(queue[c]) + n
           /\ \A i \in 1..Len(queue[c]) : Appended(c, b, n)[i] = queue[c][i]
           /\ \A i \in 1..n : Appended(c, b, n)[Len(queue[c]) + i] =
                                 [buffer |-> b, buffer_position |-> 0]
<1> DEFINE new == [i \in 1..n |-> [buffer |-> b, buffer_position |-> 0]]
<1>1. queue[c] \in Seq(Element)
  BY DEF IInv, TypeOK, Element
<1>2. send_queue_end[c] <=> queue[c] # <<>>
  BY DEF IInv, QueueWellFormed
<1>3. new \in Seq(Element)
  BY DEF Element
<1>7. Len(new) = n
  OBVIOUS
<1>4. \A i \in 1..n : new[i] = [buffer |-> b, buffer_position |-> 0]
  OBVIOUS
<1>5. Appended(c, b, n) = IF queue[c] = <<>> THEN new ELSE queue[c] \o new
  BY <1>2 DEF Appended
<1> HIDE DEF new
<1>6. Appended(c, b, n) = queue[c] \o new
  BY <1>1, <1>3, <1>5, ConcatEmptySeq
<1> QED
  <2> DEFINE s == queue[c]
  <2>1. s \in Seq(Element) /\ Appended(c, b, n) = s \o new
    BY <1>1, <1>6
  <2> HIDE DEF s
  <2>2. /\ s \o new \in Seq(Element)
        /\ Len(s \o new) = Len(s) + Len(new)
        /\ \A i \in 1..Len(s) : (s \o new)[i] = s[i]
        /\ \A i \in 1..Len(new) : (s \o new)[Len(s) + i] = new[i]
    BY <1>3, <2>1, ConcatElements
  <2>3. \A i \in 1..n : (s \o new)[Len(s) + i] =
                           [buffer |-> b, buffer_position |-> 0]
    BY <1>4, <1>7, <2>2
  <2> QED
    BY <1>7, <2>1, <2>2, <2>3 DEF s

\* send_enqueue_client changes the places of one buffer only.
LEMMA EnqueueRefs ==
    ASSUME IInv, NEW b \in Buffer, NEW m \in Message,
           NEW copies \in [Client -> 0..MaxCopies], Enqueue(b, m, copies)
    PROVE  /\ \A c \in Client :
                 /\ queue'[c] \in Seq(Element)
                 /\ Len(queue[c]) \in Nat /\ copies[c] \in Nat
                 /\ Len(queue'[c]) = Len(queue[c]) + copies[c]
                 /\ Len(queue'[c]) <= MaxQueue
                 /\ \A i \in 1..Len(queue[c]) : queue'[c][i] = queue[c][i]
                 /\ \A i \in 1..copies[c] :
                       queue'[c][Len(queue[c]) + i] =
                         [buffer |-> b, buffer_position |-> 0]
           /\ Refs(queue, b) = {}
           /\ Total(copies) \in Nat
           /\ Cardinality(Refs(queue', b)) = Total(copies)
           /\ \A e : e # b => Refs(queue', e) = Refs(queue, e)
<1> MaxQueue \in Nat /\ MaxCopies \in Nat
  BY SendQueueAssumption DEF SendQueueAssumption
<1>1. /\ b \notin allocated
      /\ queue \in [Client -> Seq(Element)]
      /\ queue' = [c \in Client |-> IF copies[c] = 0 THEN queue[c]
                                     ELSE Appended(c, b, copies[c])]
  BY DEF Enqueue, IInv, TypeOK, Element
<1>2. ASSUME NEW c \in Client
      PROVE  /\ queue'[c] \in Seq(Element)
             /\ Len(queue[c]) \in Nat /\ copies[c] \in Nat
             /\ Len(queue'[c]) = Len(queue[c]) + copies[c]
             /\ Len(queue'[c]) <= MaxQueue
             /\ \A i \in 1..Len(queue[c]) : queue'[c][i] = queue[c][i]
             /\ \A i \in 1..copies[c] : queue'[c][Len(queue[c]) + i] =
                                          [buffer |-> b, buffer_position |-> 0]
  <2>1. queue[c] \in Seq(Element) /\ Len(queue[c]) \in Nat /\ copies[c] \in Nat
    BY <1>1
  <2>2. CASE copies[c] = 0
    BY <1>1, <2>1, <2>2 DEF IInv
  <2>3. CASE copies[c] # 0
    <3>1. queue'[c] = Appended(c, b, copies[c])
      BY <1>1, <2>3
    <3>2. Len(queue[c]) + copies[c] <= MaxQueue
      BY <2>1, <2>3 DEF Enqueue
    <3> DEFINE n == copies[c]
               a == Appended(c, b, n)
    <3>3. n \in Nat /\ Len(queue[c]) + n <= MaxQueue
      BY <2>1, <3>2
    <3> HIDE DEF n
    <3>4. /\ a \in Seq(Element)
          /\ Len(a) = Len(queue[c]) + n
          /\ \A i \in 1..Len(queue[c]) : a[i] = queue[c][i]
          /\ \A i \in 1..n : a[Len(queue[c]) + i] =
                                [buffer |-> b, buffer_position |-> 0]
      BY <3>3, AppendedQueue
    <3>5. queue'[c] = a
      BY <3>1 DEF n
    <3> HIDE DEF a
    <3>6. /\ queue'[c] \in Seq(Element)
          /\ Len(queue'[c]) = Len(queue[c]) + n
          /\ Len(queue'[c]) <= MaxQueue
          /\ \A i \in 1..Len(queue[c]) : queue'[c][i] = queue[c][i]
          /\ \A i \in 1..n : queue'[c][Len(queue[c]) + i] =
                                [buffer |-> b, buffer_position |-> 0]
      BY <3>3, <3>4, <3>5
    <3> QED
      BY <2>1, <3>6 DEF n
  <2> QED
    BY <2>2, <2>3
<1>3. Refs(queue, b) = {}
  BY <1>1, ReferringRefs DEF IInv, CountExact
<1>4. /\ Total(copies) \in Nat
      /\ Cardinality(Refs(queue', b)) = Total(copies)
      /\ \A e : e # b => Refs(queue', e) = Refs(queue, e)
  <2>1. \A c \in Client : \A i \in 1..copies[c] :
           queue'[c][Len(queue[c]) + i].buffer = b
    BY <1>2
  <2>2. Grown(queue, queue', b, copies)
    BY <1>2, <1>3, <2>1 DEF Grown
  <2> QED
    BY <2>2, RefsAdded
<1> QED
  BY <1>2, <1>3, <1>4

LEMMA EnqueueIInv ==
    ASSUME IInv, NEW b \in Buffer, NEW m \in Message,
           NEW copies \in [Client -> 0..MaxCopies], Enqueue(b, m, copies)
    PROVE  IInv'
<1> MaxQueue \in Nat /\ MaxCopies \in Nat
  BY SendQueueAssumption DEF SendQueueAssumption
<1>1. /\ b \notin allocated
      /\ queue \in [Client -> Seq(Element)]
      /\ queue' = [c \in Client |-> IF copies[c] = 0 THEN queue[c]
                                     ELSE Appended(c, b, copies[c])]
  BY DEF Enqueue, IInv, TypeOK, Element
<1>2. \A c \in Client :
         /\ queue'[c] \in Seq(Element)
         /\ Len(queue[c]) \in Nat /\ copies[c] \in Nat
         /\ Len(queue'[c]) = Len(queue[c]) + copies[c]
         /\ Len(queue'[c]) <= MaxQueue
         /\ \A i \in 1..Len(queue[c]) : queue'[c][i] = queue[c][i]
         /\ \A i \in 1..copies[c] : queue'[c][Len(queue[c]) + i] =
                                      [buffer |-> b, buffer_position |-> 0]
  BY EnqueueRefs
<1>3. Refs(queue, b) = {}
  BY EnqueueRefs
<1>4. /\ Total(copies) \in Nat
      /\ Cardinality(Refs(queue', b)) = Total(copies)
      /\ \A e : e # b => Refs(queue', e) = Refs(queue, e)
  BY EnqueueRefs
<1>5. TypeOK'
  <2>1. queue' \in [Client -> Seq(Element)]
    BY <1>1, <1>2
  <2>2. gc_count' \in [Buffer -> Int] /\ contents' \in [Buffer -> Message]
    BY <1>4 DEF Enqueue, IInv, TypeOK
  <2>3. send_queue_end' \in [Client -> BOOLEAN]
    BY DEF Enqueue, IInv, TypeOK
  <2> QED
    BY <2>1, <2>2, <2>3 DEF Enqueue, IInv, TypeOK, Element
<1>6. CountExact'
  <2> SUFFICES ASSUME NEW e \in Buffer
               PROVE  IF e \in allocated'
                        THEN gc_count'[e] = Cardinality(Refs(queue', e))
                        ELSE Refs(queue', e) = {}
    BY DEF CountExact, Referring, Refs
  <2>1. CASE e = b
    BY <1>4, <2>1 DEF Enqueue, IInv, TypeOK
  <2>2. CASE e # b
    BY <1>4, <2>2, ReferringRefs DEF Enqueue, IInv, TypeOK, CountExact
  <2> QED
    BY <2>1, <2>2
<1>7. QueueWellFormed'
  <2> SUFFICES ASSUME NEW c \in Client
               PROVE  /\ send_queue_end'[c] <=> queue'[c] # <<>>
                      /\ \A i \in DOMAIN queue'[c] :
                            Length[contents'[queue'[c][i].buffer]]
                              - queue'[c][i].buffer_position > 0
    BY DEF QueueWellFormed, Remaining
  <2>1. send_queue_end'[c] <=> queue'[c] # <<>>
    <3>1. send_queue_end'[c] <=> send_queue_end[c] \/ copies[c] > 0
      BY DEF Enqueue
    <3>2. send_queue_end[c] <=> Len(queue[c]) > 0
      BY <1>1, EmptySeq, LenProperties DEF IInv, QueueWellFormed
    <3>3. Len(queue'[c]) > 0 <=> queue'[c] # <<>>
      BY <1>2, EmptySeq
    <3>4. Len(queue'[c]) > 0 <=> Len(queue[c]) > 0 \/ copies[c] > 0
      BY <1>2
    <3> QED
      BY <3>1, <3>2, <3>3, <3>4
  <2>2. ASSUME NEW i \in DOMAIN queue'[c]
        PROVE  Length[contents'[queue'[c][i].buffer]]
                 - queue'[c][i].buffer_position > 0
    <3>1. i \in 1..Len(queue'[c])
      BY <1>2, LenProperties
    <3>2. CASE i <= Len(queue[c])
      <4>1. i \in DOMAIN queue[c] /\ queue'[c][i] = queue[c][i]
        BY <1>1, <1>2, <3>1, <3>2, LenProperties
      <4>2. queue[c][i].buffer # b
        <5> SUFFICES ASSUME queue[c][i].buffer = b PROVE FALSE
          OBVIOUS
        <5>1. i \in 1..MaxQueue
          BY <1>2, <3>1, <3>2
        <5> QED
          BY <1>3, <3>2, <5>1, RefsPlaces
      <4>3. queue[c][i] \in Element
        BY <1>1, <4>1, ElementOfSeq, LenProperties
      <4>4. contents'[queue[c][i].buffer] = contents[queue[c][i].buffer]
        BY <4>2, <4>3 DEF Enqueue, IInv, TypeOK, Element
      <4>5. Remaining(queue[c][i]) > 0
        BY <4>1 DEF IInv, QueueWellFormed
      <4> QED
        BY <4>1, <4>4, <4>5 DEF Remaining
    <3>3. CASE i > Len(queue[c])
      <4> DEFINE k == i - Len(queue[c])
      <4>1. k \in 1..copies[c] /\ i = Len(queue[c]) + k
        <5> DEFINE l == Len(queue[c])
                   n == copies[c]
        <5>1. l \in Nat /\ n \in Nat /\ i \in 1..(l + n) /\ i > l
          BY <1>2, <3>1, <3>3
        <5> HIDE DEF l, n
        <5>2. i - l \in 1..n /\ i = l + (i - l)
          BY <5>1
        <5> QED
          BY <5>2 DEF l, n
      <4> HIDE DEF k
      <4>2. queue'[c][i] = [buffer |-> b, buffer_position |-> 0]
        BY <1>2, <4>1
      <4>3. contents'[b] = m
        BY DEF Enqueue, IInv, TypeOK
      <4> QED
        BY <4>2, <4>3, SendQueueAssumption DEF Remaining, SendQueueAssumption
    <3> QED
      BY <1>2, <3>1, <3>2, <3>3
  <2> QED
    BY <2>1, <2>2
<1>8. \A c \in Client \ connected' : queue'[c] = <<>>
  <2> SUFFICES ASSUME NEW c \in Client \ connected PROVE queue'[c] = <<>>
    BY DEF Enqueue
  <2>1. ~(copies[c] > 0) /\ copies[c] \in Nat
    BY DEF Enqueue
  <2>2. copies[c] = 0
    BY <2>1
  <2> QED
    BY <1>1, <2>2 DEF IInv
<1> QED
  BY <1>2, <1>5, <1>6, <1>7, <1>8 DEF IInv

(***************************************************************************)
(* send_release_buffer for the first n elements of a queue: the counts     *)
(* stay exact, and a buffer that is kept is still in a queue.              *)
(***************************************************************************)
Kept ==
    \A b \in Buffer :
       b \in allocated' /\ Refs(queue, b) # {} => Refs(queue', b) # {}

LEMMA ReleaseStep ==
    ASSUME IInv, NEW c \in Client, NEW n \in Nat, NEW q,
           DOMAIN q = 1..n, \A i \in 1..n : q[i] = queue[c][i],
           Release(q), Shrunk(queue, queue', c, n)
    PROVE  /\ CountExact'
           /\ gc_count' \in [Buffer -> Int]
           /\ allocated' \subseteq allocated
           /\ Kept
<1> DEFINE held(b) == Cardinality(Holding(q, b))
           before(b) == Cardinality(Refs(queue, b))
           after(b) == Cardinality(Refs(queue', b))
<1>1. ASSUME NEW b \in Buffer
      PROVE  /\ IsFiniteSet(Holding(q, b)) /\ held(b) \in Nat
             /\ before(b) \in Nat /\ after(b) \in Nat
             /\ after(b) = before(b) - held(b)
  <2>1. Holding(q, b) = PlacesOf(queue, c, n, b)
    BY DEF Holding, PlacesOf
  <2>2. IsFiniteSet(Holding(q, b)) /\ held(b) \in Nat
    <3>1. PlacesOf(queue, c, n, b) \in SUBSET (1..n)
      BY DEF PlacesOf
    <3> QED
      BY <2>1, <3>1, IntervalFinite
  <2>3. Cardinality(Refs(queue', b)) = Cardinality(Refs(queue, b))
                                   - Cardinality(PlacesOf(queue, c, n, b))
    BY RefsDropped
  <2>4. after(b) = before(b) - held(b)
    BY <2>1, <2>3
  <2> QED
    BY <2>2, <2>4, RefsFinite
<1>2. ASSUME NEW b \in Buffer
      PROVE  /\ before(b) = 0 <=> Refs(queue, b) = {}
             /\ after(b) = 0 <=> Refs(queue', b) = {}
             /\ held(b) = 0 <=> Holding(q, b) = {}
  BY <1>1, RefsFinite, FS_EmptySet
<1>3. ASSUME NEW b \in Buffer
      PROVE  /\ gc_count[b] \in Int /\ gc_count'[b] = gc_count[b] - held(b)
             /\ b \in allocated => gc_count[b] = before(b)
             /\ b \notin allocated => before(b) = 0
             /\ b \in allocated' <=>
                   /\ b \in allocated
                   /\ held(b) # 0 => ~(gc_count'[b] < 1)
  <2>1. gc_count[b] \in Int /\ gc_count'[b] = gc_count[b] - held(b)
    BY DEF Release, IInv, TypeOK
  <2>2. /\ b \in allocated => gc_count[b] = before(b)
        /\ b \notin allocated => before(b) = 0
    BY <1>2, ReferringRefs DEF IInv, CountExact
  <2>3. b \in allocated' <=> /\ b \in allocated
                             /\ held(b) # 0 => ~(gc_count'[b] < 1)
    BY <1>2 DEF Release, LastReference
  <2> QED
    BY <2>1, <2>2, <2>3
<1> HIDE DEF held, before, after
<1>4. ASSUME NEW b \in Buffer
      PROVE  IF b \in allocated' THEN gc_count'[b] = after(b)
                                 ELSE after(b) = 0
  <2>1. CASE b \in allocated
    BY <1>1, <1>3, <2>1
  <2>2. CASE b \notin allocated
    BY <1>1, <1>3, <2>2
  <2> QED
    BY <2>1, <2>2
<1>5. CountExact'
  <2> SUFFICES ASSUME NEW b \in Buffer
               PROVE  IF b \in allocated'
                        THEN gc_count'[b] = Cardinality(Refs(queue', b))
                        ELSE Refs(queue', b) = {}
    BY DEF CountExact, Referring, Refs
  <2> QED
    BY <1>2, <1>4 DEF after
<1>6. gc_count' \in [Buffer -> Int] /\ allocated' \subseteq allocated
  <2>1. gc_count' = [b \in Buffer |-> gc_count[b] - held(b)]
    BY DEF Release, held
  <2> QED
    BY <1>1, <1>3, <2>1 DEF Release
<1>7. ASSUME NEW b \in Buffer, b \in allocated', Refs(queue, b) # {}
      PROVE  Refs(queue', b) # {}
  <2>1. before(b) # 0 /\ gc_count'[b] = after(b)
    BY <1>2, <1>4, <1>7
  <2>2. after(b) # 0
    BY <1>1, <1>3, <1>7, <2>1
  <2> QED
    BY <1>2, <2>2
<1> QED
  BY <1>5, <1>6, <1>7 DEF Kept

LEMMA DeleteIInv ==
    ASSUME IInv, NEW c \in Client, Delete(c)
    PROVE  IInv' /\ Kept
<1>1. /\ queue \in [Client -> Seq(Element)]
      /\ queue' = [queue EXCEPT ![c] = <<>>]
      /\ send_queue_end' = [send_queue_end EXCEPT ![c] = FALSE]
      /\ contents' = contents
  BY DEF Delete, IInv, TypeOK, Element
<1>2. \A d \in Client : Len(queue[d]) \in 0..MaxQueue
  BY <1>1 DEF IInv
<1>3. Shrunk(queue, queue', c, Len(queue[c]))
  BY <1>1, <1>2 DEF Shrunk
<1>4. /\ CountExact' /\ gc_count' \in [Buffer -> Int]
      /\ allocated' \subseteq allocated /\ Kept
  <2>1. Release(queue[c]) /\ DOMAIN queue[c] = 1..Len(queue[c])
    BY <1>1, LenProperties DEF Delete
  <2>2. Len(queue[c]) \in Nat
    BY <1>2
  <2> QED
    BY <1>3, <2>1, <2>2, ReleaseStep
<1>5. TypeOK'
  <2>1. queue' \in [Client -> Seq(Element)]
    BY <1>1
  <2>2. connected' \subseteq Client /\ allocated' \subseteq Buffer
    BY <1>4 DEF Delete, IInv, TypeOK
  <2>3. /\ contents' \in [Buffer -> Message]
        /\ send_queue_end' \in [Client -> BOOLEAN]
    BY <1>1 DEF IInv, TypeOK
  <2> QED
    BY <1>4, <2>1, <2>2, <2>3 DEF TypeOK, Element
<1>6. \A d \in Client : Len(queue'[d]) <= MaxQueue
  BY <1>1, <1>2, SendQueueAssumption DEF SendQueueAssumption
<1>7. QueueWellFormed'
  BY <1>1 DEF IInv, TypeOK, QueueWellFormed, Remaining
<1>8. \A d \in Client \ connected' : queue'[d] = <<>>
  BY <1>1 DEF Delete, IInv
<1> QED
  BY <1>4, <1>5, <1>6, <1>7, <1>8 DEF IInv

LEMMA ConnectIInv ==
    ASSUME IInv, NEW c \in Client, Connect(c), queue[c] = <<>>
    PROVE  IInv'
<1>1. /\ queue' = queue /\ contents' = contents
      /\ allocated' = allocated /\ gc_count' = gc_count
  BY DEF Connect, IInv, TypeOK
<1>2. ~send_queue_end[c]
  BY DEF IInv, QueueWellFormed
<1>3. send_queue_end' = send_queue_end
  BY <1>2 DEF Connect, IInv, TypeOK
<1>4. TypeOK'
  BY <1>1, <1>3 DEF Connect, IInv, TypeOK
<1>5. CountExact'
  BY <1>1 DEF IInv, CountExact, Referring
<1>6. QueueWellFormed'
  BY <1>1, <1>3 DEF IInv, QueueWellFormed, Remaining
<1>7. \A d \in Client \ connected' : queue'[d] = <<>>
  BY <1>1 DEF Connect, IInv
<1> QED
  BY <1>1, <1>4, <1>5, <1>6, <1>7 DEF IInv

(***************************************************************************)
(* What send_callback_data_out leaves: the first `full' elements are gone, *)
(* and the position of the one after is `more' bytes further.              *)
(***************************************************************************)
LEMMA DataOutQueue ==
    ASSUME IInv, NEW c \in Client, NEW full \in 0..Len(queue[c]),
           NEW more \in Nat, DataOut(c, full, more)
    PROVE  /\ queue' \in [Client -> Seq(Element)]
           /\ Len(queue'[c]) = Len(queue[c]) - full
           /\ \A i \in 1..Len(queue'[c]) :
                 /\ queue'[c][i].buffer = queue[c][full + i].buffer
                 /\ queue'[c][i].buffer_position =
                      queue[c][full + i].buffer_position
                        + IF i = 1 THEN more ELSE 0
                 /\ queue[c][full + i] \in Element
                 /\ full + i \in 1..Len(queue[c])
           /\ \A d \in Client \ {c} : queue'[d] = queue[d]
<1> DEFINE q == queue[c]
           l == Len(q) - full
           step(i) == [q[full + i] EXCEPT !.buffer_position =
                         IF i = 1 THEN @ + more ELSE @]
           new == [i \in 1..l |-> step(i)]
<1>1. queue \in [Client -> Seq(Element)] /\ q \in Seq(Element)
  BY DEF IInv, TypeOK, Element
<1>2. queue' = [queue EXCEPT ![c] = new]
  BY DEF DataOut
<1>3. Len(q) \in Nat /\ full \in Nat /\ l \in Nat
  BY <1>1
<1>4. ASSUME NEW i \in 1..l
      PROVE  /\ full + i \in 1..Len(q) /\ q[full + i] \in Element
             /\ step(i) \in Element
             /\ step(i).buffer = q[full + i].buffer
             /\ step(i).buffer_position =
                  q[full + i].buffer_position + IF i = 1 THEN more ELSE 0
  <2>1. full + i \in 1..Len(q)
    BY <1>3
  <2>2. q[full + i] \in Element
    <3> HIDE DEF q
    <3> QED
      BY <1>1, <2>1, ElementOfSeq
  <2> DEFINE e == q[full + i]
  <2> HIDE DEF e
  <2>3. /\ step(i) = [e EXCEPT !.buffer_position =
                        IF i = 1 THEN @ + more ELSE @]
        /\ e \in Element
    BY <2>2 DEF e
  <2>4. /\ step(i) \in Element /\ step(i).buffer = e.buffer
        /\ step(i).buffer_position =
             e.buffer_position + IF i = 1 THEN more ELSE 0
    <3> HIDE DEF step
    <3> QED
      BY <2>3 DEF Element
  <2> QED
    BY <2>1, <2>2, <2>4 DEF e
<1> HIDE DEF step
<1>5. new \in Seq(Element) /\ Len(new) = l
  <2> HIDE DEF l
  <2> QED
    BY <1>3, <1>4
<1>6. queue'[c] = new /\ \A d \in Client \ {c} : queue'[d] = queue[d]
  <2> HIDE DEF new
  <2> QED
    BY <1>1, <1>2
<1>7. queue' \in [Client -> Seq(Element)]
  <2> HIDE DEF new
  <2> QED
    BY <1>1, <1>2, <1>5
<1>8. \A i \in 1..l : queue'[c][i] = step(i)
  BY <1>6
<1>9. Len(queue'[c]) = l
  BY <1>5, <1>6
<1> HIDE DEF new
<1> QED
  BY <1>4, <1>6, <1>7, <1>8, <1>9

LEMMA DataOutIInv ==
    ASSUME IInv, NEW c \in Client, NEW full \in 0..Len(queue[c]),
           NEW more \in Nat, DataOut(c, full, more)
    PROVE  IInv' /\ Kept
<1>1. /\ queue \in [Client -> Seq(Element)] /\ c \in connected
      /\ connected' = connected /\ contents' = contents
      /\ send_queue_end' =
            [send_queue_end EXCEPT ![c] = EndAfter(c, full)]
      /\ Release(SubSeq(queue[c], 1, full))
      /\ more > 0 => /\ full < Len(queue[c])
                     /\ more < Remaining(queue[c][full + 1])
  BY DEF DataOut, IInv, TypeOK, Element
<1>2. \A d \in Client : Len(queue[d]) \in 0..MaxQueue
  BY <1>1 DEF IInv
<1>3. full \in Nat /\ full <= Len(queue[c]) /\ Len(queue[c]) \in Nat
  BY <1>2
<1>4. Shrunk(queue, queue', c, full)
  BY <1>2, <1>3, DataOutQueue DEF Shrunk
<1>5. /\ CountExact' /\ gc_count' \in [Buffer -> Int]
      /\ allocated' \subseteq allocated /\ Kept
  <2> DEFINE q == SubSeq(queue[c], 1, full)
  <2>1. DOMAIN q = 1..full /\ \A i \in 1..full : q[i] = queue[c][i]
    BY <1>1, <1>3
  <2>2. Release(q)
    BY <1>1
  <2> HIDE DEF q
  <2> QED
    BY <1>3, <1>4, <2>1, <2>2, ReleaseStep
<1>6. TypeOK'
  <2>1. queue' \in [Client -> Seq(Element)]
    BY DataOutQueue
  <2>2. send_queue_end' \in [Client -> BOOLEAN]
    BY <1>1 DEF EndAfter, IInv, TypeOK
  <2> QED
    BY <1>1, <1>5, <2>1, <2>2 DEF IInv, TypeOK, Element
<1>7. \A d \in Client : Len(queue'[d]) <= MaxQueue
  <2>1. Len(queue'[c]) = Len(queue[c]) - full
    BY DataOutQueue
  <2>2. Len(queue'[c]) <= MaxQueue
    <3> DEFINE l == Len(queue[c])
               k == Len(queue'[c])
    <3>1. l \in 0..MaxQueue /\ full \in Nat /\ k = l - full
      BY <1>2, <1>3, <2>1
    <3>2. MaxQueue \in Nat
      BY SendQueueAssumption DEF SendQueueAssumption
    <3> HIDE DEF l, k
    <3>3. k <= MaxQueue
      BY <3>1, <3>2
    <3> QED
      BY <3>3 DEF k
  <2>3. \A d \in Client \ {c} : queue'[d] = queue[d]
    BY DataOutQueue
  <2> QED
    BY <1>2, <2>2, <2>3
<1>8. \A d \in Client \ connected' : queue'[d] = <<>>
  <2>1. \A d \in Client \ {c} : queue'[d] = queue[d]
    BY DataOutQueue
  <2> QED
    BY <1>1, <2>1 DEF IInv
<1>9. QueueWellFormed'
  <2> SUFFICES ASSUME NEW d \in Client
               PROVE  /\ send_queue_end'[d] <=> queue'[d] # <<>>
                      /\ \A i \in DOMAIN queue'[d] :
                            Length[contents[queue'[d][i].buffer]]
                              - queue'[d][i].buffer_position > 0
    BY <1>1 DEF QueueWellFormed, Remaining
  <2>1. CASE d # c
    <3>1. queue'[d] = queue[d]
      BY <2>1, DataOutQueue
    <3>2. send_queue_end'[d] = send_queue_end[d]
      BY <1>1, <2>1 DEF IInv, TypeOK
    <3> QED
      BY <3>1, <3>2 DEF IInv, QueueWellFormed, Remaining
  <2>2. CASE d = c
    <3> DEFINE l == Len(queue[c])
    <3>1. /\ queue'[c] \in Seq(Element) /\ Len(queue'[c]) = l - full
          /\ l \in Nat
      BY <1>3, DataOutQueue
    <3>2. send_queue_end'[c] <=> queue'[c] # <<>>
      <4>1. send_queue_end[c] <=> l > 0
        BY <1>1, <1>3, EmptySeq, LenProperties DEF IInv, QueueWellFormed
      <4>2. send_queue_end'[c] <=> IF full > 0 /\ full = l
                                     THEN FALSE ELSE send_queue_end[c]
        BY <1>1 DEF EndAfter, IInv, TypeOK
      <4>3. queue'[c] # <<>> <=> l - full > 0
        BY <3>1, EmptySeq
      <4> HIDE DEF l
      <4>4. full \in Nat /\ full <= l
        BY <1>3 DEF l
      <4> QED
        BY <3>1, <4>1, <4>2, <4>3, <4>4
    <3>3. ASSUME NEW i \in DOMAIN queue'[c]
          PROVE  Length[contents[queue'[c][i].buffer]]
                   - queue'[c][i].buffer_position > 0
      <4> DEFINE e == queue[c][full + i]
      <4>1. i \in 1..Len(queue'[c])
        BY <3>1, LenProperties
      <4>2. /\ queue'[c][i].buffer = e.buffer
            /\ queue'[c][i].buffer_position =
                 e.buffer_position + IF i = 1 THEN more ELSE 0
            /\ e \in Element /\ full + i \in 1..Len(queue[c])
        BY <4>1, DataOutQueue
      <4>3. Remaining(e) > 0
        BY <1>1, <4>2, LenProperties DEF IInv, QueueWellFormed
      <4>4. i = 1 /\ more > 0 => more < Remaining(e)
        BY <1>1
      <4> HIDE DEF e
      <4>5. contents[e.buffer] \in Message /\ e.buffer_position \in Nat
        BY <4>2 DEF IInv, TypeOK, Element
      <4>6. Length[contents[e.buffer]] \in Nat
        BY <4>5, SendQueueAssumption DEF SendQueueAssumption
      <4> QED
        BY <4>2, <4>3, <4>4, <4>5, <4>6 DEF Remaining
    <3> QED
      BY <2>2, <3>2, <3>3
  <2> QED
    BY <2>1, <2>2
<1> QED
  BY <1>5, <1>6, <1>7, <1>8, <1>9 DEF IInv

-----------------------------------------------------------------------------
\* The three actions that enqueue, with the copies each gives the clients
LEMMA EnqueueSteps ==
    ASSUME NEW b \in Buffer, NEW m \in Message,
           \/ \E c \in Client : Reply(b, m, c)
           \/ \E copies \in [Client -> 0..MaxCopies] : Notice(b, m, copies)
           \/ \E recipients \in SUBSET Client : Privmsg(b, m, recipients)
    PROVE  \E copies \in [Client -> 0..MaxCopies] : Enqueue(b, m, copies)
<1>0. 0 \in 0..MaxCopies /\ 1 \in 0..MaxCopies
  BY SendQueueAssumption DEF SendQueueAssumption
<1>1. ASSUME NEW c \in Client, Reply(b, m, c)
      PROVE  \E copies \in [Client -> 0..MaxCopies] : Enqueue(b, m, copies)
  <2> DEFINE once == [d \in Client |-> IF d = c THEN 1 ELSE 0]
  <2>1. once \in [Client -> 0..MaxCopies] /\ Enqueue(b, m, once)
    BY <1>0, <1>1 DEF Reply
  <2> QED
    BY <2>1
<1>2. ASSUME NEW recipients \in SUBSET Client, Privmsg(b, m, recipients)
      PROVE  \E copies \in [Client -> 0..MaxCopies] : Enqueue(b, m, copies)
  <2> DEFINE once == [c \in Client |-> IF c \in recipients THEN 1 ELSE 0]
  <2>1. once \in [Client -> 0..MaxCopies] /\ Enqueue(b, m, once)
    BY <1>0, <1>2 DEF Privmsg
  <2> QED
    BY <2>1
<1> QED
  BY <1>1, <1>2 DEF Notice

\* The part of the next element that is sent is a number of bytes.
LEMMA DataOutMore ==
    ASSUME IInv, NEW c \in Client, NEW full \in 0..Len(queue[c]),
           NEW more \in 0..(IF full = Len(queue[c]) THEN 0
                            ELSE Remaining(queue[c][full + 1]) - 1)
    PROVE  more \in Nat
<1> DEFINE e == queue[c][full + 1]
           k == IF full = Len(queue[c]) THEN 0 ELSE Remaining(e) - 1
<1>1. k \in Int
  <2>1. CASE full = Len(queue[c])
    BY <2>1
  <2>2. CASE full # Len(queue[c])
    <3>1. queue[c] \in Seq(Element)
      BY DEF IInv, TypeOK, Element
    <3>2. full + 1 \in 1..Len(queue[c])
      BY <2>2, <3>1
    <3>3. e \in Element
      BY <3>1, <3>2, ElementOfSeq
    <3> HIDE DEF e
    <3>4. contents[e.buffer] \in Message /\ e.buffer_position \in Nat
      BY <3>3 DEF IInv, TypeOK, Element
    <3>5. Length[contents[e.buffer]] \in Nat
      BY <3>4, SendQueueAssumption DEF SendQueueAssumption
    <3> QED
      BY <2>2, <3>4, <3>5 DEF Remaining
  <2> QED
    BY <2>1, <2>2
<1>2. more \in 0..k
  OBVIOUS
<1> HIDE DEF k
<1> QED
  BY <1>1, <1>2

LEMMA NextIInv == IInv /\ [Next]_vars => IInv'
<1> SUFFICES ASSUME IInv, [Next]_vars PROVE IInv'
  OBVIOUS
<1>1. ASSUME NEW c \in Client, Connect(c) PROVE IInv'
  <2>1. queue[c] = <<>>
    BY <1>1 DEF Connect, IInv
  <2> QED
    BY <1>1, <2>1, ConnectIInv
<1>2. ASSUME NEW b \in Buffer, NEW m \in Message,
             \/ \E c \in Client : Reply(b, m, c)
             \/ \E copies \in [Client -> 0..MaxCopies] : Notice(b, m, copies)
             \/ \E recipients \in SUBSET Client : Privmsg(b, m, recipients)
      PROVE  IInv'
  <2>1. PICK copies \in [Client -> 0..MaxCopies] : Enqueue(b, m, copies)
    BY <1>2, EnqueueSteps
  <2> QED
    BY <2>1, EnqueueIInv
<1>3. ASSUME NEW c \in Client, NEW full \in 0..Len(queue[c]),
             NEW more \in 0..(IF full = Len(queue[c]) THEN 0
                              ELSE Remaining(queue[c][full + 1]) - 1),
             DataOut(c, full, more)
      PROVE  IInv'
  <2>1. more \in Nat
    BY DataOutMore
  <2> QED
    BY <1>3, <2>1, DataOutIInv
<1>4. ASSUME NEW c \in Client, Delete(c) PROVE IInv'
  BY <1>4, DeleteIInv
<1>5. CASE UNCHANGED vars
  BY <1>5 DEF vars, IInv, TypeOK, CountExact, Referring, QueueWellFormed,
              Remaining
<1> QED
  BY <1>1, <1>2, <1>3, <1>4, <1>5 DEF Next

LEMMA AlwaysIInv == Spec => []IInv
BY InitIInv, NextIInv, PTL DEF Spec

(***************************************************************************)
(* Every variable keeps its type.                                          *)
(***************************************************************************)
THEOREM TypeCorrect == Spec => []TypeOK
<1>1. IInv => TypeOK
  BY DEF IInv
<1> QED
  BY <1>1, AlwaysIInv, PTL

(***************************************************************************)
(* send_enqueue_client and send_release_buffer keep gc_count the number of *)
(* queue elements a buffer is in, and no buffer is freed while it is in a  *)
(* queue, however many clients, buffers and copies there are.              *)
(***************************************************************************)
THEOREM CountsCorrect == Spec => []CountExact
<1>1. IInv => CountExact
  BY DEF IInv
<1> QED
  BY <1>1, AlwaysIInv, PTL

(***************************************************************************)
(* The end pointer of a queue is NULL exactly when the queue is empty, and *)
(* send_callback_data_out never keeps an element that is sent.             *)
(***************************************************************************)
THEOREM QueuesCorrect == Spec => []QueueWellFormed
<1>1. IInv => QueueWellFormed
  BY DEF IInv
<1> QED
  BY <1>1, AlwaysIInv, PTL

(***************************************************************************)
(* The step that takes a buffer out of the last queue frees it.            *)
(***************************************************************************)
THEOREM BuffersFreed == Spec => FreedWithLast
<1>1. ASSUME IInv, [Next]_vars,
             NEW b \in allocated \cap allocated', Referring(b) # {}
      PROVE  Referring(b)' # {}
  <2>0. Referring(b) = Refs(queue, b) /\ Referring(b)' = Refs(queue', b)
    BY DEF Referring, Refs
  <2>1. b \in Buffer /\ Refs(queue, b) # {}
    BY <1>1, <2>0 DEF IInv, TypeOK
  <2> SUFFICES Refs(queue', b) # {}
    BY <2>0
  <2>2. ASSUME NEW c \in Client, Connect(c) PROVE Refs(queue', b) # {}
    <3>1. queue' = queue
      BY <1>1, <2>2 DEF Connect, IInv, TypeOK
    <3> QED
      BY <2>1, <3>1
  <2>3. ASSUME NEW d \in Buffer, NEW m \in Message,
               \/ \E c \in Client : Reply(d, m, c)
               \/ \E copies \in [Client -> 0..MaxCopies] :
                     Notice(d, m, copies)
               \/ \E recipients \in SUBSET Client : Privmsg(d, m, recipients)
        PROVE  Refs(queue', b) # {}
    <3>1. PICK copies \in [Client -> 0..MaxCopies] : Enqueue(d, m, copies)
      BY <2>3, EnqueueSteps
    <3>2. \A e : e # d => Refs(queue', e) = Refs(queue, e)
      BY <1>1, <3>1, EnqueueRefs
    <3>3. d # b
      BY <3>1 DEF Enqueue
    <3> QED
      BY <2>1, <3>2, <3>3
  <2>4. ASSUME NEW c \in Client, NEW full \in 0..Len(queue[c]),
               NEW more \in 0..(IF full = Len(queue[c]) THEN 0
                                ELSE Remaining(queue[c][full + 1]) - 1),
               DataOut(c, full, more)
        PROVE  Refs(queue', b) # {}
    BY <1>1, <2>1, <2>4, DataOutMore, DataOutIInv DEF Kept
  <2>5. ASSUME NEW c \in Client, Delete(c) PROVE Refs(queue', b) # {}
    BY <1>1, <2>1, <2>5, DeleteIInv DEF Kept
  <2>6. CASE UNCHANGED vars
    BY <2>1, <2>6 DEF vars
  <2> QED
    BY <1>1, <2>2, <2>3, <2>4, <2>5, <2>6 DEF Next
<1>2. IInv /\ [Next]_vars =>
         \A b \in allocated \cap allocated' :
            Referring(b) # {} => Referring(b)' # {}
  BY <1>1
<1>3. IInv /\ [Next]_vars =>
         [\A b \in allocated \cap allocated' :
             Referring(b) # {} => Referring(b)' # {}]_vars
  BY <1>2
<1> QED
  BY <1>3, AlwaysIInv, PTL DEF Spec, FreedWithLast

-----------------------------------------------------------------------------
(***************************************************************************)
(* The bytes that an element, and a queue, have yet to give, when the      *)
(* buffers hold what k says.                                               *)
(***************************************************************************)
Byte == Message \X Nat

Piece(k, e) ==
    [j \in 1..(Length[k[e.buffer]] - e.buffer_position) |->
        <<k[e.buffer], e.buffer_position + j>>]

Pieces(k, q) == [i \in 1..Len(q) |-> Piece(k, q[i])]

LEMMA PieceType ==
    ASSUME NEW k \in [Buffer -> Message], NEW e \in Element
    PROVE  /\ Piece(k, e) \in Seq(Byte)
           /\ Length[k[e.buffer]] \in Nat /\ e.buffer_position \in Nat
<1>1. /\ k[e.buffer] \in Message /\ e.buffer_position \in Nat
      /\ Length[k[e.buffer]] \in Nat
  BY SendQueueAssumption DEF SendQueueAssumption, Element
<1> DEFINE p == e.buffer_position
           l == Length[k[e.buffer]] - p
           m == k[e.buffer]
           s == [j \in 1..l |-> <<m, p + j>>]
<1>2. l \in Int /\ p \in Nat /\ m \in Message
  BY <1>1
<1> HIDE DEF l, p, m
<1>3. s \in Seq(Byte)
  <2>1. CASE l \in Nat
    BY <1>2, <2>1 DEF Byte
  <2>2. CASE l \notin Nat
    <3>1. 1..l = 1..0
      BY <1>2, <2>2
    <3>2. s = <<>>
      BY <3>1
    <3> QED
      BY <3>2, EmptySeq
  <2> QED
    BY <2>1, <2>2
<1>4. Piece(k, e) = s
  BY DEF Piece, l, m, p
<1> QED
  BY <1>1, <1>3, <1>4

LEMMA PiecesType ==
    ASSUME NEW k \in [Buffer -> Message], NEW q \in Seq(Element)
    PROVE  /\ Pieces(k, q) \in Seq(Seq(Byte))
           /\ Len(Pieces(k, q)) = Len(q) /\ Len(q) \in Nat
           /\ \A i \in 1..Len(q) : Pieces(k, q)[i] = Piece(k, q[i])
                                   /\ Piece(k, q[i]) \in Seq(Byte)
<1>1. Len(q) \in Nat /\ \A i \in 1..Len(q) : q[i] \in Element
  BY LenProperties
<1>2. \A i \in 1..Len(q) : Piece(k, q[i]) \in Seq(Byte)
  BY <1>1, PieceType
<1> QED
  BY <1>1, <1>2 DEF Pieces

LEMMA ToSendPieces ==
    ASSUME IInv
    PROVE  ToSend = [c \in Client |-> FlattenSeq(Pieces(contents, queue[c]))]
<1>1. \A c \in Client : DOMAIN queue[c] = 1..Len(queue[c])
  BY LenProperties DEF IInv, TypeOK
<1>2. ASSUME NEW c \in Client
      PROVE  [i \in DOMAIN queue[c] |-> Rest(queue[c][i])]
               = Pieces(contents, queue[c])
  BY <1>1 DEF Pieces, Piece, Rest, Remaining
<1> QED
  BY <1>2 DEF ToSend

LEMMA ToSendPiecesNext ==
    ASSUME IInv'
    PROVE  ToSend' =
             [c \in Client |-> FlattenSeq(Pieces(contents', queue'[c]))]
<1>1. \A c \in Client : DOMAIN queue'[c] = 1..Len(queue'[c])
  BY LenProperties DEF IInv, TypeOK
<1>2. ASSUME NEW c \in Client
      PROVE  [i \in DOMAIN queue'[c] |-> Rest(queue[c][i])']
               = Pieces(contents', queue'[c])
  BY <1>1 DEF Pieces, Piece, Rest, Remaining
<1> QED
  BY <1>2 DEF ToSend

\* send_enqueue_client puts whole messages behind what waits.
LEMMA EnqueueStream ==
    ASSUME IInv, IInv', NEW b \in Buffer, NEW m \in Message,
           NEW copies \in [Client -> 0..MaxCopies], Enqueue(b, m, copies)
    PROVE  Stream!Post(m, copies)
<1>1. /\ contents \in [Buffer -> Message] /\ contents' \in [Buffer -> Message]
      /\ contents' = [contents EXCEPT ![b] = m]
      /\ wire' = Silence /\ connected' = connected
  BY DEF Enqueue, IInv, TypeOK
<1>2. ASSUME NEW c \in Client
      PROVE  FlattenSeq(Pieces(contents', queue'[c])) =
               FlattenSeq(Pieces(contents, queue[c]))
                 \o FlattenSeq([i \in 1..copies[c] |-> Stream!Bytes(m)])
  <2> DEFINE q == queue[c]
             p == queue'[c]
             n == Len(q)
             l == copies[c]
             old == Pieces(contents, q)
             new == [i \in 1..l |-> Stream!Bytes(m)]
             both == Pieces(contents', p)
  <2>0. q \in Seq(Element) /\ Len(q) <= MaxQueue
    BY DEF IInv, TypeOK, Element
  <2>1. /\ p \in Seq(Element)
        /\ n \in Nat /\ l \in Nat /\ Len(p) = n + l
        /\ \A i \in 1..n : p[i] = q[i]
        /\ \A i \in 1..l : p[n + i] = [buffer |-> b, buffer_position |-> 0]
    BY EnqueueRefs
  <2>2. \A i \in 1..n : q[i].buffer # b
    <3> SUFFICES ASSUME NEW i \in 1..n, q[i].buffer = b PROVE FALSE
      OBVIOUS
    <3>1. i \in 1..MaxQueue /\ i <= Len(q)
      BY <2>0, <2>1, SendQueueAssumption DEF SendQueueAssumption
    <3>2. <<c, i>> \in Refs(queue, b)
      BY <3>1, RefsPlaces
    <3> QED
      BY <3>2, EnqueueRefs
  <2> HIDE DEF q, p, n, l
  <2>3. /\ old \in Seq(Seq(Byte)) /\ Len(old) = n
        /\ both \in Seq(Seq(Byte)) /\ Len(both) = n + l
        /\ \A i \in 1..n : old[i] = Piece(contents, q[i])
        /\ \A i \in 1..(n + l) : both[i] = Piece(contents', p[i])
    BY <1>1, <2>0, <2>1, PiecesType DEF n
  <2>4. ASSUME NEW i \in 1..n PROVE both[i] = old[i]
    <3>1. i \in 1..(n + l) /\ p[i] = q[i] /\ q[i] \in Element
      BY <2>0, <2>1, ElementOfSeq DEF n
    <3>2. contents'[q[i].buffer] = contents[q[i].buffer]
      BY <1>1, <2>2, <3>1 DEF Element
    <3>3. Piece(contents', q[i]) = Piece(contents, q[i])
      BY <3>2 DEF Piece
    <3> QED
      BY <2>3, <3>1, <3>3
  <2>5. Stream!Bytes(m) \in Seq(Byte)
    BY SendQueueAssumption DEF Stream!Bytes, Byte, SendQueueAssumption
  <2>6. ASSUME NEW i \in 1..l PROVE both[n + i] = Stream!Bytes(m)
    <3>1. n + i \in 1..(n + l)
      BY <2>1
    <3> DEFINE e == [buffer |-> b, buffer_position |-> 0]
    <3>2. both[n + i] = Piece(contents', e)
      BY <2>1, <2>3, <3>1
    <3>3. /\ contents'[e.buffer] = m /\ e.buffer_position = 0
          /\ Length[m] - 0 = Length[m] /\ \A j \in Nat : 0 + j = j
      BY <1>1, SendQueueAssumption DEF SendQueueAssumption
    <3>4. Piece(contents', e) = Stream!Bytes(m)
      BY <3>3 DEF Piece, Stream!Bytes
    <3> QED
      BY <3>2, <3>4
  <2>7. /\ new \in Seq(Seq(Byte)) /\ Len(new) = l
        /\ \A i \in 1..l : new[i] = Stream!Bytes(m)
    BY <2>1, <2>5
  <2> HIDE DEF old, new, both
  <2>8. both = old \o new
    <3>1. /\ old \o new \in Seq(Seq(Byte)) /\ Len(old \o new) = n + l
          /\ \A i \in 1..n : (old \o new)[i] = old[i]
          /\ \A i \in 1..l : (old \o new)[n + i] = new[i]
      <4> DEFINE S == Seq(Byte)
      <4>1. old \in Seq(S) /\ new \in Seq(S)
        BY <2>3, <2>7
      <4> HIDE DEF S
      <4>2. /\ old \o new \in Seq(S)
            /\ Len(old \o new) = Len(old) + Len(new)
            /\ \A i \in 1..Len(old) : (old \o new)[i] = old[i]
            /\ \A i \in 1..Len(new) : (old \o new)[Len(old) + i] = new[i]
        BY <4>1, ConcatElements
      <4> QED
        BY <2>3, <2>7, <4>2 DEF S
    <3>2. ASSUME NEW i \in 1..(n + l) PROVE both[i] = (old \o new)[i]
      <4>1. CASE i \in 1..n
        BY <2>4, <3>1, <4>1
      <4>2. CASE i \notin 1..n
        <5>1. i - n \in 1..l /\ n + (i - n) = i
          BY <2>1, <4>2
        <5> QED
          BY <2>6, <2>7, <3>1, <5>1
      <4> QED
        BY <4>1, <4>2
    <3> QED
      BY <2>3, <3>1, <3>2, SeqEqual
  <2>9. FlattenSeq(both) = FlattenSeq(old) \o FlattenSeq(new)
    BY <2>3, <2>7, <2>8, FlattenConcat
  <2> QED
    BY <2>9 DEF old, new, both, q, p, l
<1>3. ToSend' = [c \in Client |->
                   ToSend[c] \o Stream!Repeated(Stream!Bytes(m), copies[c])]
  <2>1. /\ \A c \in Client :
             ToSend[c] = FlattenSeq(Pieces(contents, queue[c]))
        /\ ToSend' =
             [c \in Client |-> FlattenSeq(Pieces(contents', queue'[c]))]
    BY ToSendPieces, ToSendPiecesNext
  <2>2. \A c \in Client :
           Stream!Repeated(Stream!Bytes(m), copies[c]) =
             FlattenSeq([i \in 1..copies[c] |-> Stream!Bytes(m)])
    BY DEF Stream!Repeated, Stream!FlattenSeq, FlattenSeq
  <2> QED
    BY <1>2, <2>1, <2>2, Zenon
<1> QED
  BY <1>1, <1>3 DEF Stream!Post, Stream!Silence, Silence

\* A sequence as what is in front of an element, the element, and the rest
LEMMA InThree ==
    ASSUME NEW T, NEW r \in Seq(T), NEW n \in Nat, n < Len(r)
    PROVE  r = [i \in 1..n |-> r[i]]
                 \o (<<r[n + 1]>>
                       \o [i \in 1..(Len(r) - n - 1) |-> r[n + 1 + i]])
<1> DEFINE l == Len(r)
           e == r[n + 1]
           s == [i \in 1..n |-> r[i]]
           t == [i \in 1..(l - n - 1) |-> r[n + 1 + i]]
           o == <<e>>
           u == o \o t
           v == s \o u
<1>1. l \in Nat /\ l - n - 1 \in Nat /\ \A i \in 1..l : r[i] \in T
  BY LenProperties
<1>2. /\ s \in Seq(T) /\ Len(s) = n
      /\ \A i \in 1..n : s[i] = r[i]
  <2>1. \A i \in 1..n : r[i] \in T
    BY <1>1
  <2> QED
    BY <2>1
<1>3. /\ t \in Seq(T) /\ Len(t) = l - n - 1
      /\ \A i \in 1..(l - n - 1) : t[i] = r[n + 1 + i]
  <2>1. \A i \in 1..(l - n - 1) : r[n + 1 + i] \in T
    BY <1>1
  <2> QED
    BY <1>1, <2>1
<1>4. o \in Seq(T) /\ Len(o) = 1 /\ o[1] = r[n + 1]
  BY <1>1
<1> HIDE DEF l, s, t, o
<1>5. /\ u \in Seq(T) /\ Len(u) = l - n
      /\ u[1] = r[n + 1]
      /\ \A i \in 1..(l - n - 1) : u[1 + i] = r[n + 1 + i]
  <2>0. o \in Seq(T) /\ t \in Seq(T)
    BY <1>3, <1>4
  <2>1. /\ u \in Seq(T) /\ Len(u) = Len(o) + Len(t)
        /\ \A i \in 1..Len(o) : u[i] = o[i]
        /\ \A i \in 1..Len(t) : u[Len(o) + i] = t[i]
    BY <2>0, ConcatElements
  <2> QED
    BY <1>1, <1>3, <1>4, <2>1
<1> HIDE DEF u
<1>6. /\ v \in Seq(T) /\ Len(v) = l
      /\ \A i \in 1..n : v[i] = r[i]
      /\ \A i \in 1..(l - n) : v[n + i] = u[i]
  <2>0. s \in Seq(T) /\ u \in Seq(T)
    BY <1>2, <1>5
  <2>1. /\ v \in Seq(T) /\ Len(v) = Len(s) + Len(u)
        /\ \A i \in 1..Len(s) : v[i] = s[i]
        /\ \A i \in 1..Len(u) : v[Len(s) + i] = u[i]
    BY <2>0, ConcatElements
  <2> QED
    BY <1>1, <1>2, <1>5, <2>1
<1> HIDE DEF v
<1>7. ASSUME NEW i \in 1..l PROVE r[i] = v[i]
  <2>1. CASE i \in 1..n
    BY <1>6, <2>1
  <2>2. CASE i = n + 1
    BY <1>1, <1>5, <1>6, <2>2
  <2>3. CASE i > n + 1
    <3>1. /\ i - n \in 1..(l - n) /\ n + (i - n) = i
          /\ i - n - 1 \in 1..(l - n - 1) /\ 1 + (i - n - 1) = i - n
          /\ n + 1 + (i - n - 1) = i
      BY <1>1, <2>3
    <3> QED
      BY <1>5, <1>6, <3>1
  <2> QED
    BY <1>1, <2>1, <2>2, <2>3
<1>8. r = v
  BY <1>6, <1>7, SeqEqual DEF l
<1> QED
  BY <1>8 DEF l, s, t, o, u, v

\* send_callback_data_out gives the socket the front of what waits.
LEMMA DataOutStream ==
    ASSUME IInv, IInv', NEW c \in Client, NEW full \in 0..Len(queue[c]),
           NEW more \in Nat, DataOut(c, full, more)
    PROVE  \E k \in 0..Len(ToSend[c]) : Stream!Write(c, k)
<1> DEFINE q == queue[c]
           p == queue'[c]
           n == Len(q)
           e == Piece(contents, q[full + 1])
           T == Seq(Byte)
           front == [i \in 1..full |-> Piece(contents, q[i])]
           back == [i \in 1..(n - full - 1) |->
                      Piece(contents, q[full + 1 + i])]
           part == IF more = 0 THEN <<>> ELSE SubSeq(e, 1, more)
           sent == FlattenSeq(front) \o part
<1>1. /\ contents \in [Buffer -> Message] /\ contents' = contents
      /\ queue \in [Client -> Seq(Element)] /\ q \in Seq(Element)
      /\ connected' = connected /\ c \in connected
      /\ wire' = [to |-> c,
                  bytes |-> FlattenSeq([i \in 1..full |-> Rest(q[i])])
                              \o IF more = 0 THEN <<>>
                                 ELSE SubSeq(Rest(q[full + 1]), 1, more)]
      /\ more > 0 => full < n /\ more < Remaining(q[full + 1])
  BY DEF DataOut, IInv, TypeOK, Element
<1>2. /\ p \in Seq(Element) /\ Len(p) = n - full
      /\ \A i \in 1..Len(p) :
            /\ p[i].buffer = q[full + i].buffer
            /\ p[i].buffer_position =
                 q[full + i].buffer_position + IF i = 1 THEN more ELSE 0
      /\ \A d \in Client \ {c} : queue'[d] = queue[d]
  BY DataOutQueue
<1>3. wire' = [to |-> c, bytes |-> sent]
  <2>1. \A x : Rest(x) = Piece(contents, x)
    BY DEF Rest, Remaining, Piece
  <2> QED
    BY <1>1, <2>1
<1>4. n \in Nat /\ full \in 0..n
  BY <1>1, LenProperties
<1>5. /\ Pieces(contents, q) \in Seq(T) /\ Len(Pieces(contents, q)) = n
      /\ \A i \in 1..n : Pieces(contents, q)[i] = Piece(contents, q[i])
                         /\ Piece(contents, q[i]) \in T
  BY <1>1, PiecesType
<1>6. /\ Pieces(contents', p) \in Seq(T)
      /\ Len(Pieces(contents', p)) = n - full
      /\ \A i \in 1..(n - full) :
            Pieces(contents', p)[i] = Piece(contents, p[i])
  BY <1>1, <1>2, PiecesType
<1>7. front \in Seq(T) /\ Len(front) = full
  BY <1>4, <1>5
<1> DEFINE waiting == FlattenSeq(Pieces(contents, q))
           left == FlattenSeq(Pieces(contents', p))
<1>8. waiting = sent \o left /\ sent \in T /\ left \in T
  <2>1. CASE full = n
    <3>1. more = 0 /\ part = <<>>
      BY <1>1, <1>4, <2>1
    <3>2. Pieces(contents, q) = front
      BY <2>1 DEF Pieces
    <3>3. Pieces(contents', p) = <<>>
      BY <1>4, <1>6, <2>1, EmptySeq
    <3>4. FlattenSeq(front) \in T /\ <<>> \in T
      BY <1>7, FlattenConcat, EmptySeq
    <3>5. sent = FlattenSeq(front) /\ left = <<>>
      BY <3>1, <3>3, <3>4, FlattenEmpty, ConcatEmptySeq
    <3> QED
      BY <3>2, <3>4, <3>5, ConcatEmptySeq
  <2>2. CASE full # n
    <3> DEFINE f == Piece(contents, p[1])
    <3>1. /\ full + 1 \in 1..n /\ n - full - 1 \in Nat /\ 1 \in 1..(n - full)
          /\ q[full + 1] \in Element /\ p[1] \in Element
      <4>1. /\ full + 1 \in 1..n /\ n - full - 1 \in Nat
            /\ 1 \in 1..(n - full)
        BY <1>4, <2>2
      <4>2. q[full + 1] \in Element
        BY <1>1, <4>1, ElementOfSeq
      <4>3. p[1] \in Element
        BY <1>2, <4>1, ElementOfSeq
      <4> QED
        BY <4>1, <4>2, <4>3
    <3>2. e \in T /\ f \in T /\ back \in Seq(T) /\ Len(back) = n - full - 1
      <4>1. \A i \in 1..(n - full - 1) : full + 1 + i \in 1..n
        BY <1>4, <3>1
      <4>2. e \in T /\ f \in T
        BY <1>1, <1>5, <3>1, PieceType
      <4>3. \A i \in 1..(n - full - 1) : Piece(contents, q[full + 1 + i]) \in T
        BY <1>5, <4>1
      <4> HIDE DEF T, e, f
      <4> QED
        BY <3>1, <4>2, <4>3
    <3>3. part \in T /\ e = part \o f
      <4> DEFINE m == contents[q[full + 1].buffer]
                 a == q[full + 1].buffer_position
                 l == Length[m] - a
      <4>1. /\ p[1].buffer = q[full + 1].buffer
            /\ p[1].buffer_position = a + more
        BY <1>2, <3>1
      <4>2. Length[m] \in Nat /\ a \in Nat
        BY <1>1, <3>1, PieceType
      <4>3. l \in Nat /\ more \in 0..l
        <5>1. Remaining(q[full + 1]) > 0
          BY <1>1, <3>1, LenProperties DEF IInv, QueueWellFormed
        <5> QED
          BY <1>1, <4>2, <5>1 DEF Remaining
      <4>4. /\ e = [j \in 1..l |-> <<m, a + j>>]
            /\ f = [j \in 1..(Length[m] - (a + more)) |->
                       <<m, (a + more) + j>>]
        BY <4>1 DEF Piece
      <4>5. Length[m] - (a + more) = l - more
        BY <4>2, <4>3
      <4>6. Len(e) = l /\ Len(f) = l - more
        <5> HIDE DEF e, f, l, m, a
        <5>1. l - more \in Nat
          BY <4>3
        <5> QED
          BY <4>3, <4>4, <4>5, <5>1
      <4>7. /\ part \in T /\ Len(part) = more
            /\ \A j \in 1..more : part[j] = e[j]
        <5>1. CASE more = 0
          BY <5>1, EmptySeq
        <5>2. CASE more # 0
          <6>1. /\ more \in 1..l /\ \A j \in 1..more : e[j] \in Byte
            BY <3>2, <4>3, <4>6, <5>2, ElementOfSeq
          <6> HIDE DEF e
          <6>2. /\ SubSeq(e, 1, more) \in T
                /\ Len(SubSeq(e, 1, more)) = more - 1 + 1
                /\ \A j \in 1..(more - 1 + 1) :
                      SubSeq(e, 1, more)[j] = e[1 + j - 1]
            BY <6>1, SubSeqProperties
          <6> QED
            BY <5>2, <6>1, <6>2
        <5> QED
          BY <5>1, <5>2
      <4> HIDE DEF part, l, m, a
      <4>8. /\ part \o f \in T /\ Len(part \o f) = l
            /\ \A j \in 1..more : (part \o f)[j] = part[j]
            /\ \A j \in 1..(l - more) : (part \o f)[more + j] = f[j]
        <5> HIDE DEF f
        <5>0. part \in Seq(Byte) /\ f \in Seq(Byte)
          BY <3>2, <4>7
        <5>1. /\ part \o f \in Seq(Byte)
              /\ Len(part \o f) = Len(part) + Len(f)
              /\ \A i \in 1..Len(part) : (part \o f)[i] = part[i]
              /\ \A i \in 1..Len(f) : (part \o f)[Len(part) + i] = f[i]
          BY <5>0, ConcatElements
        <5> QED
          BY <4>3, <4>6, <4>7, <5>1
      <4>9. ASSUME NEW j \in 1..l PROVE e[j] = (part \o f)[j]
        <5>1. CASE j \in 1..more
          BY <4>7, <4>8, <5>1
        <5>2. CASE j \notin 1..more
          <6>1. /\ j - more \in 1..(l - more) /\ more + (j - more) = j
                /\ (a + more) + (j - more) = a + j
            BY <4>2, <4>3, <5>2
          <6>2. f[j - more] = <<m, a + j>> /\ e[j] = <<m, a + j>>
            BY <4>4, <4>5, <6>1
          <6> QED
            BY <4>8, <6>1, <6>2
        <5> QED
          BY <5>1, <5>2
      <4> HIDE DEF e, f
      <4> QED
        BY <3>2, <4>6, <4>7, <4>8, <4>9, SeqEqual
    <3>4. Pieces(contents, q) = front \o (<<e>> \o back)
      <4> DEFINE r == Pieces(contents, q)
      <4>1. /\ r \in Seq(T) /\ full \in Nat /\ full < Len(r) /\ Len(r) = n
            /\ \A i \in 1..n : r[i] = Piece(contents, q[i])
        BY <1>4, <1>5, <2>2
      <4>2. /\ \A i \in 1..full : r[i] = Piece(contents, q[i])
            /\ r[full + 1] = e
            /\ \A i \in 1..(n - full - 1) :
                  r[full + 1 + i] = Piece(contents, q[full + 1 + i])
        <5>1. /\ \A i \in 1..full : i \in 1..n
              /\ \A i \in 1..(n - full - 1) : full + 1 + i \in 1..n
          BY <1>4, <3>1
        <5> QED
          BY <3>1, <4>1, <5>1
      <4> HIDE DEF r, e, T
      <4>3. /\ front = [i \in 1..full |-> r[i]]
            /\ back = [i \in 1..(Len(r) - full - 1) |-> r[full + 1 + i]]
        BY <4>1, <4>2
      <4>4. r = front \o (<<e>> \o back)
        <5> HIDE DEF front, back
        <5> QED
          BY <4>1, <4>2, <4>3, InThree
      <4> QED
        BY <4>4 DEF r
    <3>5. Pieces(contents', p) = <<f>> \o back
      <4> DEFINE r == Pieces(contents', p)
                 l == n - full
      <4>1. /\ r \in Seq(T) /\ 0 < Len(r) /\ Len(r) = l /\ l \in Nat
            /\ \A i \in 1..l : r[i] = Piece(contents, p[i])
        BY <1>1, <1>4, <1>6, <2>2
      <4>2. ASSUME NEW i \in 1..(l - 0 - 1)
            PROVE  r[0 + 1 + i] = Piece(contents, q[full + 1 + i])
        <5>1. /\ 0 + 1 + i = i + 1 /\ i + 1 \in 1..l /\ i + 1 # 1
              /\ full + (i + 1) = full + 1 + i /\ full + 1 + i \in 1..n
          BY <1>4
        <5>2. q[full + 1 + i] \in Element
          <6> HIDE DEF q
          <6> QED
            BY <1>1, <5>1, ElementOfSeq DEF n
        <5>3. /\ p[i + 1].buffer = q[full + 1 + i].buffer
              /\ p[i + 1].buffer_position = q[full + 1 + i].buffer_position
          <6>1. i + 1 \in 1..Len(p)
            BY <1>2, <5>1
          <6>2. /\ p[i + 1].buffer = q[full + (i + 1)].buffer
                /\ p[i + 1].buffer_position =
                     q[full + (i + 1)].buffer_position + 0
            BY <1>2, <5>1, <6>1
          <6>3. q[full + 1 + i].buffer_position + 0 =
                  q[full + 1 + i].buffer_position
            BY <5>2 DEF Element
          <6> QED
            BY <5>1, <6>2, <6>3
        <5>4. Piece(contents, p[i + 1]) = Piece(contents, q[full + 1 + i])
          BY <5>3 DEF Piece
        <5> QED
          BY <4>1, <5>1, <5>4
      <4>3. r[0 + 1] = f
        BY <4>1
      <4>4. l - 0 - 1 = n - full - 1
        BY <1>4
      <4> HIDE DEF r, f, T, l
      <4>5. back = [i \in 1..(Len(r) - 0 - 1) |-> r[0 + 1 + i]]
        BY <4>1, <4>2, <4>4
      <4>6. r = [i \in 1..0 |-> r[i]] \o (<<f>> \o back)
        <5> HIDE DEF back
        <5> QED
          BY <4>1, <4>3, <4>5, InThree
      <4>7. [i \in 1..0 |-> r[i]] = <<>>
        OBVIOUS
      <4>8. <<f>> \o back \in Seq(T)
        <5>1. <<f>> \in Seq(T)
          BY <3>2
        <5> HIDE DEF back
        <5> QED
          BY <3>2, <5>1, ConcatProperties
      <4>9. <<>> \o (<<f>> \o back) = <<f>> \o back
        BY <4>8, ConcatEmptySeq
      <4> QED
        BY <4>6, <4>7, <4>9 DEF r
    <3> HIDE DEF e, f, back, front, part
    <3>6. ASSUME NEW x \in T
          PROVE  /\ FlattenSeq(<<x>> \o back) = x \o FlattenSeq(back)
                 /\ <<x>> \o back \in Seq(T)
                 /\ FlattenSeq(back) \in T
      <4>1. <<x>> \in Seq(T)
        OBVIOUS
      <4>2. <<x>> \in Seq(Seq(Byte)) /\ back \in Seq(Seq(Byte))
        BY <3>2, <4>1
      <4> DEFINE o == <<x>>
      <4> HIDE DEF o
      <4>3. /\ FlattenSeq(o \o back) = FlattenSeq(o) \o FlattenSeq(back)
            /\ FlattenSeq(back) \in Seq(Byte)
            /\ o \o back \in Seq(Seq(Byte))
        BY <4>2, FlattenConcat, ConcatProperties DEF o
      <4> QED
        BY <4>3, FlattenSingle DEF o
    <3> DEFINE rest == <<e>> \o back
    <3>7. rest \in Seq(Seq(Byte)) /\ front \in Seq(Seq(Byte))
      BY <1>7, <3>2, <3>6
    <3> HIDE DEF rest
    <3>8. /\ FlattenSeq(front \o rest) = FlattenSeq(front) \o FlattenSeq(rest)
          /\ FlattenSeq(front) \in Seq(Byte)
      BY <3>7, FlattenConcat
    <3> DEFINE a == FlattenSeq(front)
               z == FlattenSeq(back)
    <3>9. /\ waiting = a \o (e \o z) /\ left = f \o z
          /\ a \in T /\ z \in T
      BY <3>2, <3>4, <3>5, <3>6, <3>8 DEF rest
    <3>10. \A x, y, w \in Seq(Byte) : /\ (x \o y) \o w = x \o (y \o w)
                                      /\ x \o y \in Seq(Byte)
      BY Associative
    <3> HIDE DEF a, z, waiting, left
    <3>11. /\ a \o ((part \o f) \o z) = (a \o part) \o (f \o z)
           /\ a \o part \in T /\ f \o z \in T
      <4>1. a \in T /\ part \in T /\ f \in T /\ z \in T
        BY <3>2, <3>3, <3>9
      <4>2. /\ a \o part \in T /\ f \o z \in T
            /\ (part \o f) \o z = part \o (f \o z)
        BY <3>10, <4>1
      <4>3. (a \o part) \o (f \o z) = a \o (part \o (f \o z))
        <5> DEFINE y == f \o z
        <5>1. y \in Seq(Byte) /\ a \in Seq(Byte) /\ part \in Seq(Byte)
          BY <4>1, <4>2
        <5> HIDE DEF y
        <5>2. (a \o part) \o y = a \o (part \o y)
          BY <3>10, <5>1
        <5> QED
          BY <5>2 DEF y
      <4> QED
        BY <4>2, <4>3
    <3> QED
      BY <3>3, <3>9, <3>11 DEF a
  <2> QED
    BY <2>1, <2>2
<1> HIDE DEF sent, left, waiting
<1>9. /\ ToSend[c] = waiting
      /\ ToSend' = [ToSend EXCEPT ![c] = left]
  <2>1. ToSend = [d \in Client |-> FlattenSeq(Pieces(contents, queue[d]))]
    BY ToSendPieces
  <2>2. ToSend' = [d \in Client |-> FlattenSeq(Pieces(contents', queue'[d]))]
    BY ToSendPiecesNext
  <2>3. \A d \in Client \ {c} : Pieces(contents', queue'[d]) =
                                  Pieces(contents, queue[d])
    BY <1>1, <1>2
  <2> QED
    BY <2>1, <2>2, <2>3 DEF waiting, left
<1>10. /\ Len(sent) \in 0..Len(waiting)
       /\ SubSeq(waiting, 1, Len(sent)) = sent
       /\ SubSeq(waiting, Len(sent) + 1, Len(waiting)) = left
  BY <1>8, CutApart
<1>11. Stream!Write(c, Len(sent))
  BY <1>1, <1>3, <1>9, <1>10 DEF Stream!Write
<1> QED
  BY <1>9, <1>10, <1>11

LEMMA NextStream == IInv /\ IInv' /\ [Next]_vars => [Stream!Next]_(Stream!vars)
<1> SUFFICES ASSUME IInv, IInv', [Next]_vars
             PROVE  Stream!Next \/ UNCHANGED Stream!vars
  OBVIOUS
<1>1. ASSUME NEW c \in Client, Connect(c) PROVE Stream!Next
  <2>1. queue' = queue /\ contents' = contents
    BY <1>1 DEF Connect, IInv, TypeOK
  <2>2. ToSend' = ToSend
    BY <2>1, ToSendPieces, ToSendPiecesNext
  <2>3. Stream!Connect(c)
    BY <1>1, <2>2 DEF Connect, Stream!Connect, Silence, Stream!Silence
  <2> QED
    BY <2>3 DEF Stream!Next
<1>2. ASSUME NEW b \in Buffer, NEW m \in Message,
             \/ \E c \in Client : Reply(b, m, c)
             \/ \E copies \in [Client -> 0..MaxCopies] : Notice(b, m, copies)
             \/ \E recipients \in SUBSET Client : Privmsg(b, m, recipients)
      PROVE  Stream!Next
  <2>1. PICK copies \in [Client -> 0..MaxCopies] : Enqueue(b, m, copies)
    BY <1>2, EnqueueSteps
  <2>2. Stream!Post(m, copies)
    BY <2>1, EnqueueStream
  <2>3. \A c \in Client : copies[c] > 0 => c \in connected
    BY <2>1 DEF Enqueue
  <2> QED
    BY <2>2, <2>3 DEF Stream!Next
<1>3. ASSUME NEW c \in Client, NEW full \in 0..Len(queue[c]),
             NEW more \in 0..(IF full = Len(queue[c]) THEN 0
                              ELSE Remaining(queue[c][full + 1]) - 1),
             DataOut(c, full, more)
      PROVE  Stream!Next
  <2>1. more \in Nat
    BY DataOutMore
  <2>2. \E k \in 0..Len(ToSend[c]) : Stream!Write(c, k)
    BY <1>3, <2>1, DataOutStream
  <2> QED
    BY <2>2 DEF Stream!Next
<1>4. ASSUME NEW c \in Client, Delete(c) PROVE Stream!Next
  <2>1. /\ queue' = [queue EXCEPT ![c] = <<>>] /\ contents' = contents
        /\ queue \in [Client -> Seq(Element)]
    BY <1>4 DEF Delete, IInv, TypeOK, Element
  <2>2. Pieces(contents', <<>>) = <<>>
    BY DEF Pieces
  <2>3. ToSend' = [ToSend EXCEPT ![c] = <<>>]
    <3>1. ToSend = [d \in Client |-> FlattenSeq(Pieces(contents, queue[d]))]
      BY ToSendPieces
    <3>2. ToSend' =
            [d \in Client |-> FlattenSeq(Pieces(contents', queue'[d]))]
      BY ToSendPiecesNext
    <3> QED
      BY <2>1, <2>2, <3>1, <3>2, FlattenEmpty
  <2>4. Stream!Close(c)
    BY <1>4, <2>3 DEF Delete, Stream!Close, Silence, Stream!Silence
  <2> QED
    BY <2>4 DEF Stream!Next
<1>5. CASE UNCHANGED vars
  <2>1. queue' = queue /\ contents' = contents
    BY <1>5 DEF vars
  <2>2. ToSend' = ToSend
    BY <2>1, ToSendPieces, ToSendPiecesNext
  <2> QED
    BY <1>5, <2>2 DEF vars, Stream!vars
<1> QED
  BY <1>1, <1>2, <1>3, <1>4, <1>5 DEF Next

(***************************************************************************)
(* Every client is sent its messages whole, once and in order: the counted *)
(* buffers that the queues share, partly sent and reused, implement one    *)
(* stream of bytes for each client.                                        *)
(***************************************************************************)
THEOREM StreamsCorrect == Spec => StreamSpec
<1>1. Init => Stream!Init
  <2> SUFFICES ASSUME Init PROVE Stream!Init
    OBVIOUS
  <2>1. ToSend = [c \in Client |-> FlattenSeq(Pieces(contents, queue[c]))]
    BY InitIInv, ToSendPieces
  <2>2. \A c \in Client : Pieces(contents, queue[c]) = <<>>
    BY DEF Init, Pieces
  <2> QED
    BY <2>1, <2>2, FlattenEmpty DEF Init, Stream!Init, Silence, Stream!Silence
<1> QED
  BY <1>1, NextStream, AlwaysIInv, PTL DEF Spec, StreamSpec, Stream!Spec
=============================================================================
