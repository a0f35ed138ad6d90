-------------------------- MODULE NickTable_proofs --------------------------
(***************************************************************************)
(* The nickname index is exact until two nicknames in use share a bucket,  *)
(* for any number of records, nicknames and buckets.                       *)
(***************************************************************************)
EXTENDS NickTable, Lemmas, TLAPS

(***************************************************************************)
(* The fields of the records and the table hold what they are declared to  *)
(* hold, whether or not buckets are shared.                                *)
(***************************************************************************)
THEOREM TypeCorrect == Spec => []TypeOK
<1>1. Init => TypeOK
  BY DEF Init, TypeOK
<1>2. TypeOK /\ [Next]_vars => TypeOK'
  <2> SUFFICES ASSUME TypeOK, [Next]_vars PROVE TypeOK'
    OBVIOUS
  <2> USE DEF TypeOK
  <2>1. ASSUME NEW c \in Client, AllocateNew(c) PROVE TypeOK'
    BY <2>1 DEF AllocateNew
  <2>2. ASSUME NEW c \in Client, NEW n \in Nick, SetNickname(c, n)
        PROVE  TypeOK'
    BY <2>2, NickTableAssumption
       DEF SetNickname, NextOf, Linked, Unlinked
  <2>3. ASSUME NEW c \in Client, Delete(c) PROVE TypeOK'
    BY <2>3, NickTableAssumption DEF Delete, Unlinked
  <2>4. CASE UNCHANGED vars
    BY <2>4 DEF vars
  <2> QED BY <2>1, <2>2, <2>3, <2>4 DEF Next
<1> QED BY <1>1, <1>2, PTL DEF Spec

-----------------------------------------------------------------------------
\* The head of a bucket is a client that has a nickname of that bucket.
HeadsLive ==
    \A b \in Bucket :
       client_nickname[b] # NULL =>
          /\ client_nickname[b] \in clients
          /\ nickname[client_nickname[b]] # NULL
          /\ Hash[nickname[client_nickname[b]]] = b

\* A client that has a nickname is the head of the bucket.
Filed ==
    \A c \in clients :
       nickname[c] # NULL => client_nickname[Hash[nickname[c]]] = c

\* Nothing follows a record in its bucket.
NoChains == \A c \in Client : nickname_next[c] = NULL

Shape == TypeOK /\ HeadsLive /\ Filed /\ NoChains

(***************************************************************************)
(* The inductive invariant.  Once a bucket is shared nothing is claimed of *)
(* the table but its type.                                                 *)
(***************************************************************************)
IInv == TypeOK /\ (~crowded => Shape)

LEMMA InitIInv == Init => IInv
BY DEF Init, IInv, Shape, TypeOK, HeadsLive, Filed, NoChains


(***************************************************************************)
(* client_nickname_hashtable_remove empties the bucket of the client, so   *)
(* that the bucket of the new nickname is empty when the client is added.  *)
(***************************************************************************)
LEMMA BucketFree ==
    ASSUME Shape, ~crowded', NEW c \in Client, NEW n \in Nick,
           SetNickname(c, n)
    PROVE  Unlinked(c)[Hash[n]] = NULL
<1> DEFINE h == client_nickname[Hash[n]]
<1> Hash[n] \in Bucket
  BY NickTableAssumption
<1>1. h # NULL => h = c
  BY DEF Shape, HeadsLive, SetNickname, Shared
<1>2. CASE nickname[c] = NULL
  BY <1>1, <1>2 DEF Shape, HeadsLive, Unlinked
<1>3. CASE nickname[c] # NULL
  <2> Hash[nickname[c]] \in Bucket
    BY <1>3, NickTableAssumption DEF Shape, TypeOK
  <2>1. CASE Hash[nickname[c]] = Hash[n]
    BY <1>3, <2>1 DEF Shape, TypeOK, NoChains, Unlinked
  <2>2. CASE Hash[nickname[c]] # Hash[n]
    BY <1>1, <1>3, <2>2 DEF Shape, TypeOK, HeadsLive, Unlinked
  <2> QED BY <2>1, <2>2
<1> QED BY <1>2, <1>3

LEMMA NextShape ==
    ASSUME Shape, ~crowded', [Next]_vars, TypeOK'
    PROVE  Shape'
<1> USE DEF Shape
<1>1. ASSUME NEW c \in Client, AllocateNew(c) PROVE Shape'
  <2>1. HeadsLive'
    BY <1>1 DEF AllocateNew, HeadsLive, TypeOK
  <2>2. Filed'
    BY <1>1 DEF AllocateNew, Filed, TypeOK
  <2>3. NoChains'
    BY <1>1 DEF AllocateNew, NoChains, TypeOK
  <2> QED BY <2>1, <2>2, <2>3
<1>2. ASSUME NEW c \in Client, NEW n \in Nick, SetNickname(c, n) PROVE Shape'
  <2> Hash[n] \in Bucket
    BY NickTableAssumption
  <2>1. nickname_next' = nickname_next
    BY <1>2, BucketFree DEF SetNickname, NextOf
  <2>2. ASSUME NEW b \in Bucket
        PROVE  client_nickname'[b] =
                  IF b = Hash[n] THEN c
                  ELSE IF nickname[c] # NULL /\ b = Hash[nickname[c]] THEN NULL
                  ELSE client_nickname[b]
    BY <1>2, NickTableAssumption
       DEF SetNickname, Linked, Unlinked, TypeOK, NoChains
  <2>3. ASSUME NEW d \in Client
        PROVE  nickname'[d] = IF d = c THEN n ELSE nickname[d]
    BY <1>2 DEF SetNickname, TypeOK
  <2>4. c \in clients /\ clients' = clients /\ clients \subseteq Client
    BY <1>2 DEF SetNickname, TypeOK
  <2>5. HeadsLive'
    <3> SUFFICES ASSUME NEW b \in Bucket, client_nickname'[b] # NULL
                 PROVE  /\ client_nickname'[b] \in clients
                        /\ nickname'[client_nickname'[b]] # NULL
                        /\ Hash[nickname'[client_nickname'[b]]] = b
      BY <2>4 DEF HeadsLive
    <3>1. CASE b = Hash[n]
      BY <2>2, <2>3, <2>4, <3>1, NickTableAssumption
    <3>2. CASE b # Hash[n]
      BY <2>2, <2>3, <2>4, <3>2 DEF HeadsLive
    <3> QED BY <3>1, <3>2
  <2>6. Filed'
    <3> SUFFICES ASSUME NEW d \in clients, nickname'[d] # NULL
                 PROVE  client_nickname'[Hash[nickname'[d]]] = d
      BY <2>4 DEF Filed
    <3>1. CASE d = c
      BY <2>2, <2>3, <2>4, <3>1
    <3>2. CASE d # c
      <4>1. nickname'[d] = nickname[d] /\ Hash[nickname[d]] \in Bucket
        BY <2>3, <2>4, <3>2, NickTableAssumption DEF TypeOK
      <4>2. Hash[nickname[d]] # Hash[n]
        BY <1>2, <3>2, <4>1 DEF SetNickname, Shared
      <4>3. client_nickname[Hash[nickname[d]]] = d
        BY <4>1 DEF Filed
      <4>4. nickname[c] # NULL => Hash[nickname[d]] # Hash[nickname[c]]
        BY <2>4, <3>2, <4>3 DEF Filed
      <4> QED BY <2>2, <4>1, <4>2, <4>3, <4>4
    <3> QED BY <3>1, <3>2
  <2> QED BY <2>1, <2>5, <2>6 DEF NoChains
<1>3. ASSUME NEW c \in Client, Delete(c) PROVE Shape'
  <2>1. ASSUME NEW b \in Bucket
        PROVE  client_nickname'[b] =
                  IF nickname[c] # NULL /\ b = Hash[nickname[c]] THEN NULL
                  ELSE client_nickname[b]
    BY <1>3, NickTableAssumption DEF Delete, Unlinked, TypeOK, NoChains
  <2>2. ASSUME NEW d \in Client, d # c PROVE nickname'[d] = nickname[d]
    BY <1>3, <2>2 DEF Delete, TypeOK
  <2>3. clients' = clients \ {c} /\ clients \subseteq Client /\ c \in clients
    BY <1>3 DEF Delete, TypeOK
  <2>4. HeadsLive'
    BY <2>1, <2>2, <2>3 DEF HeadsLive
  <2>5. Filed'
    <3> SUFFICES ASSUME NEW d \in clients, d # c, nickname[d] # NULL
                 PROVE  client_nickname'[Hash[nickname[d]]] = d
      BY <2>2, <2>3 DEF Filed
    <3>1. Hash[nickname[d]] \in Bucket
      BY <2>3, NickTableAssumption DEF TypeOK
    <3>2. nickname[c] # NULL => Hash[nickname[d]] # Hash[nickname[c]]
      BY <2>3 DEF Filed
    <3> QED BY <2>1, <3>1, <3>2 DEF Filed
  <2>6. NoChains'
    BY <1>3 DEF Delete, NoChains, TypeOK
  <2> QED BY <2>4, <2>5, <2>6
<1>4. CASE UNCHANGED vars
  BY <1>4 DEF vars, HeadsLive, Filed, NoChains
<1> QED BY <1>1, <1>2, <1>3, <1>4 DEF Next

(***************************************************************************)
(* In that shape of the table every lookup is answered, and rightly.       *)
(***************************************************************************)
LEMMA ShapeMakesExact == ASSUME Shape PROVE \A n \in Nick : Answers(n)
<1> SUFFICES ASSUME NEW n \in Nick PROVE Answers(n)
  OBVIOUS
<1> DEFINE head == client_nickname[Hash[n]]
           Past == {q \in clients : nickname[q] \notin {n, NULL}}
<1> Hash[n] \in Bucket /\ n # NULL /\ NULL \notin clients
  BY NickTableAssumption DEF Shape, TypeOK
<1>1. CASE \E c \in clients : nickname[c] = n
  <2>1. PICK c \in clients : nickname[c] = n
    BY <1>1
  <2>2. head = c /\ c \notin Past
    BY <2>1 DEF Shape, Filed
  <2>3. Ends(n) = {c}
    BY <2>2, WalkStopsAtOnce DEF Ends
  <2>4. \A d \in clients : nickname[d] = n => d = c
    BY <2>2 DEF Shape, Filed
  <2> QED BY <2>1, <2>3, <2>4 DEF Finds, Answers
<1>2. CASE \A c \in clients : nickname[c] # n
  <2>1. CASE head = NULL
    <3>1. head \notin Past
      BY <2>1
    <3> QED BY <1>2, <2>1, <3>1, WalkStopsAtOnce DEF Ends, FindsNone, Answers
  <2>2. CASE head # NULL
    <3>1. head \in Past /\ nickname_next[head] = NULL
      BY <1>2, <2>2 DEF Shape, TypeOK, HeadsLive, NoChains
    <3>2. nickname_next[head] \notin Past
      BY <3>1
    <3> QED BY <1>2, <3>1, <3>2, WalkStopsAtNext DEF Ends, FindsNone, Answers
  <2> QED BY <2>1, <2>2
<1> QED BY <1>1, <1>2

LEMMA NextIInv == ASSUME IInv, [Next]_vars, TypeOK' PROVE IInv'
<1>1. ~crowded' => ~crowded
  BY DEF Next, AllocateNew, SetNickname, Delete, vars
<1> QED BY <1>1, NextShape DEF IInv

(***************************************************************************)
(* Until two nicknames in use share a bucket, a lookup returns the one     *)
(* client that has the nickname or NULL: client_set_nickname and           *)
(* client_delete keep the index exact, in any order and number.            *)
(***************************************************************************)
THEOREM IndexCorrect == Spec => []IndexExact
<1>1. IInv /\ TypeOK' /\ [Next]_vars => IInv'
  BY NextIInv
<1>2. IInv => IndexExact
  BY ShapeMakesExact DEF IInv, IndexExact
<1> QED BY <1>1, <1>2, InitIInv, TypeCorrect, PTL DEF Spec

-----------------------------------------------------------------------------
\* A client without a nickname that takes n hides none of the others.
LEMMA FirstNicknameHidesNobody ==
    ASSUME TypeOK, NEW c \in Client, NEW n \in Nick, SetNickname(c, n),
           nickname[c] = NULL, NEW m \in Nick, NEW d \in clients, Finds(m, d)
    PROVE  Finds(m, d)'
<1> DEFINE head == client_nickname[Hash[m]]
           Past == {q \in clients : nickname[q] \notin {m, NULL}}
           Past2 == {q \in clients : nickname'[q] \notin {m, NULL}}
<1>1. /\ NULL \notin Client \cup Nick
      /\ Hash[m] \in Bucket /\ Hash[n] \in Bucket
  BY NickTableAssumption
<1>2. WalkEnds(head, nickname_next, Past) = {d} /\ nickname[d] = m
  BY DEF Finds, Ends
<1>3. d # c /\ d # NULL /\ m # n
  BY <1>1, <1>2 DEF TypeOK, SetNickname, FindsNone, Finds
<1>4. c \notin Past /\ c \notin Walked(head, nickname_next, Past)
  BY <1>2, <1>3 DEF WalkEnds
<1>5. /\ clients' = clients /\ nickname'[d] = m
      /\ Past2 = Past \cup {c}
  BY <1>1, <1>2, <1>3 DEF SetNickname, TypeOK
<1>6. /\ nickname_next' = NextOf(client_nickname, c, n)
      /\ client_nickname' = [client_nickname EXCEPT ![Hash[n]] = c]
  BY DEF SetNickname, Unlinked, Linked
<1>7. \A q \in Past : nickname_next'[q] = nickname_next[q]
  BY <1>4, <1>6 DEF NextOf, TypeOK
<1> HIDE DEF Past, Past2
<1>8. WalkEnds(client_nickname'[Hash[m]], nickname_next', Past2) = {d}
  <2>1. CASE Hash[m] # Hash[n]
    <3>1. client_nickname'[Hash[m]] = head
      BY <1>1, <1>6, <2>1 DEF TypeOK
    <3>2. /\ Past2 \ {c} = Past \ {c}
          /\ \A q \in Past \ {c} : nickname_next'[q] = nickname_next[q]
      BY <1>5, <1>7
    <3> QED
      BY <1>2, <1>4, <3>1, <3>2, WalkAway
  <2>2. CASE Hash[m] = Hash[n]
    <3>1. client_nickname'[Hash[m]] = c
      BY <1>1, <1>6, <2>2 DEF TypeOK
    <3>2. head # NULL
      <4> SUFFICES ASSUME head = NULL PROVE FALSE
        OBVIOUS
      <4>1. head \notin Past
        BY <1>1 DEF Past, TypeOK
      <4> QED
        BY <1>2, <1>3, <4>1, WalkStopsAtOnce
    <3>3. nickname_next'[c] = head
      BY <1>6, <2>2, <3>2 DEF NextOf, TypeOK
    <3> HIDE DEF head
    <3> QED
      BY <1>2, <1>4, <1>5, <1>7, <3>1, <3>3, WalkInFront
  <2> QED
    BY <2>1, <2>2
<1> QED
  BY <1>5, <1>8 DEF Finds, Ends, Past2

(***************************************************************************)
(* client_nickname_hashtable_add loses no entry, whatever removals have    *)
(* left in the buckets: the client is found at once, and when it had no    *)
(* nickname before, so is everybody who was found.                         *)
(***************************************************************************)
THEOREM AddCorrect == Spec => AddHidesNobody
<1>1. ASSUME TypeOK, NEW c \in Client, NEW n \in Nick, SetNickname(c, n)
      PROVE  Finds(n, c)'
  <2>1. Hash[n] \in Bucket
    BY NickTableAssumption
  <2>2. client_nickname'[Hash[n]] = c
    BY <1>1, <2>1 DEF SetNickname, Linked, Unlinked, TypeOK
  <2>3. c \in clients' /\ nickname'[c] = n
    BY <1>1 DEF SetNickname, TypeOK
  <2>4. c \notin {q \in clients' : nickname'[q] \notin {n, NULL}}
    BY <2>3
  <2> QED
    BY <2>2, <2>3, <2>4, WalkStopsAtOnce DEF Finds, Ends
<1>2. TypeOK => \A c \in Client, n \in Nick :
                  SetNickname(c, n) =>
                     /\ Finds(n, c)'
                     /\ nickname[c] = NULL =>
                           \A m \in Nick, d \in clients :
                              Finds(m, d) => Finds(m, d)'
  BY <1>1, FirstNicknameHidesNobody
<1> QED
  BY <1>2, TypeCorrect, PTL DEF AddHidesNobody

=============================================================================
