-------------------------- MODULE ActionListProofs --------------------------
(***************************************************************************)
(* Lemmas about the operators of ActionList: where add_callback inserts,   *)
(* and what execute() calls of the CLOSED lists of sockets.                *)
(***************************************************************************)
EXTENDS ActionList, SequenceTheorems, FiniteSetTheorems, WellFoundedInduction, TLAPS

-----------------------------------------------------------------------------
(* What add_callback does to the list.                                     *)

(* A set of places in a list that is not empty has a last one.             *)
LEMMA MaxOfPlaces ==
    ASSUME NEW n \in Nat, NEW I, I \subseteq 1 .. n, I # {}
    PROVE  Max(I) \in I /\ \A i \in I : i <= Max(I)
<1> DEFINE T == {n - i : i \in I}
<1>1. T \subseteq Nat /\ T # {}
  <2>1. \A i \in I : n - i \in Nat
    OBVIOUS
  <2>2. T \subseteq Nat
    BY <2>1
  <2>3. PICK i \in I : TRUE
    OBVIOUS
  <2>4. n - i \in T
    BY <2>3
  <2>. QED BY <2>2, <2>4
<1>2. PICK x \in T : \A y \in T : ~ (<<y, x>> \in OpToRel(<, Nat))
  BY <1>1, NatLessThanWellFounded, WFMin
<1>3. \A y \in T : ~(y < x)
  BY <1>1, <1>2 DEF OpToRel
<1>4. PICK k \in I : x = n - k
  BY <1>2
<1>5. \A i \in I : k >= i
  <2>. TAKE i \in I
  <2>1. ~(n - i < n - k)
    BY <1>3, <1>4
  <2>. QED BY <2>1
<1>6. \E m \in I : \A i \in I : m >= i
  BY <1>4, <1>5
<1>7. Max(I) \in I /\ \A i \in I : Max(I) >= i
  BY <1>6 DEF Max
<1>. QED BY <1>7

(* InsertAt opens a gap at place k.                                        *)
LEMMA InsertAtFacts ==
    ASSUME NEW S, NEW s \in Seq(S), NEW k \in 1 .. Len(s) + 1, NEW e \in S
    PROVE  /\ InsertAt(s, k, e) \in Seq(S)
           /\ Len(InsertAt(s, k, e)) = Len(s) + 1
           /\ \A j \in 1 .. Len(s) + 1 :
                 InsertAt(s, k, e)[j] = IF j < k THEN s[j]
                                        ELSE IF j = k THEN e ELSE s[j - 1]
<1> DEFINE left == SubSeq(s, 1, k - 1)
           right == SubSeq(s, k, Len(s))
<1>0. Len(s) \in Nat /\ \A j \in 1 .. Len(s) : s[j] \in S
  BY LenProperties
<1>1. /\ left \in Seq(S) /\ Len(left) = k - 1
      /\ \A j \in 1 .. k - 1 : left[j] = s[j]
  <2>1. \A j \in 1 .. k - 1 : s[j] \in S
    BY <1>0
  <2>2. 1 \in Int /\ k - 1 \in Int
    OBVIOUS
  <2>. QED BY <1>0, <2>1, <2>2, SubSeqProperties
<1>2. /\ right \in Seq(S) /\ Len(right) = Len(s) - k + 1
      /\ \A j \in 1 .. Len(s) - k + 1 : right[j] = s[k + j - 1]
  <2>1. \A j \in k .. Len(s) : s[j] \in S
    BY <1>0
  <2>2. k \in Int /\ Len(s) \in Int
    BY <1>0
  <2>. QED BY <1>0, <2>1, <2>2, SubSeqProperties
<1> HIDE DEF left, right
<1> DEFINE front == left \o <<e>>
<1>3. /\ front \in Seq(S) /\ Len(front) = k
      /\ \A j \in 1 .. k : front[j] = IF j < k THEN s[j] ELSE e
  <2>1. front = Append(left, e)
    BY <1>1, AppendIsConcat
  <2>. QED BY <1>1, <2>1, AppendProperties
<1> HIDE DEF front
<1>4. /\ front \o right \in Seq(S)
      /\ Len(front \o right) = Len(front) + Len(right)
      /\ \A j \in 1 .. Len(front) + Len(right) :
            (front \o right)[j] = IF j <= Len(front) THEN front[j] ELSE right[j - Len(front)]
  BY <1>2, <1>3, ConcatProperties
<1>5. InsertAt(s, k, e) = front \o right
  BY DEF InsertAt, front, left, right
<1>6. Len(front) + Len(right) = Len(s) + 1
  BY <1>0, <1>2, <1>3
<1>7. ASSUME NEW j \in 1 .. Len(s) + 1
      PROVE  (front \o right)[j] = IF j < k THEN s[j] ELSE IF j = k THEN e ELSE s[j - 1]
  <2>1. CASE j <= k
    BY <1>0, <1>3, <1>4, <1>6, <2>1
  <2>2. CASE ~(j <= k)
    <3>1. (front \o right)[j] = right[j - k]
      BY <1>0, <1>3, <1>4, <1>6, <2>2
    <3>2. j - k \in 1 .. Len(s) - k + 1 /\ k + (j - k) - 1 = j - 1
      BY <1>0, <2>2
    <3>3. right[j - k] = s[k + (j - k) - 1]
      BY <1>2, <3>2
    <3>. QED BY <2>2, <3>1, <3>2, <3>3
  <2>. QED BY <1>0, <2>1, <2>2
<1>. QED BY <1>4, <1>5, <1>6, <1>7

(* add_callback inserts behind the last callback that is not queued at the *)
(* end, or in front of all.                                                *)
LEMMA AddCallbackFacts ==
    ASSUME NEW S, NEW list \in Seq(S), NEW new
    PROVE  \E k \in 0 .. Len(list) :
              /\ AddCallback(list, new) = InsertAt(list, k + 1, new)
              /\ k # 0 => ~Queued(list[k])
              /\ \A i \in 1 .. Len(list) : i > k => Queued(list[i])
<1> DEFINE I == {i \in 1 .. Len(list) : ~Queued(list[i])}
           k == IF I # {} THEN Max(I) ELSE 0
<1>1. AddCallback(list, new) = InsertAt(list, k + 1, new)
  BY DEF AddCallback, SelectLastInSeq
<1>2. Len(list) \in Nat
  BY LenProperties
<1>3. CASE I = {}
  <2>1. k = 0 /\ \A i \in 1 .. Len(list) : Queued(list[i])
    BY <1>3
  <2>. QED BY <1>1, <1>2, <2>1
<1>4. CASE I # {}
  <2>1. k \in I /\ \A i \in I : i <= k
    BY <1>2, <1>4, MaxOfPlaces
  <2> HIDE DEF k
  <2>2. \A i \in 1 .. Len(list) : i > k => Queued(list[i])
    BY <1>2, <2>1
  <2>. QED BY <1>1, <1>2, <2>1, <2>2
<1>. QED BY <1>3, <1>4

(* What the list is then.                                                  *)
InsertedBehind(S, list, new, k) ==
    /\ AddCallback(list, new) \in Seq(S)
    /\ Len(AddCallback(list, new)) = Len(list) + 1
    /\ \A j \in 1 .. Len(list) + 1 :
          AddCallback(list, new)[j] = IF j < k + 1 THEN list[j]
                                      ELSE IF j = k + 1 THEN new ELSE list[j - 1]
    /\ k # 0 => ~Queued(list[k])
    /\ \A i \in 1 .. Len(list) : i > k => Queued(list[i])

LEMMA AddCallbackInserts ==
    ASSUME NEW S, NEW list \in Seq(S), NEW new \in S
    PROVE  \E k \in 0 .. Len(list) : InsertedBehind(S, list, new, k)
<1>1. PICK k \in 0 .. Len(list) :
          /\ AddCallback(list, new) = InsertAt(list, k + 1, new)
          /\ k # 0 => ~Queued(list[k])
          /\ \A i \in 1 .. Len(list) : i > k => Queued(list[i])
  BY AddCallbackFacts
<1> DEFINE place == k + 1
<1>2. place \in 1 .. Len(list) + 1
  BY LenProperties
<1>3. AddCallback(list, new) = InsertAt(list, place, new)
  BY <1>1
<1> HIDE DEF place
<1>4. /\ InsertAt(list, place, new) \in Seq(S)
      /\ Len(InsertAt(list, place, new)) = Len(list) + 1
      /\ \A j \in 1 .. Len(list) + 1 :
            InsertAt(list, place, new)[j] = IF j < place THEN list[j]
                                            ELSE IF j = place THEN new ELSE list[j - 1]
  BY <1>2, InsertAtFacts
<1>. QED BY <1>1, <1>3, <1>4 DEF place, InsertedBehind

(* The first callback of a list.                                           *)
LEMMA FirstCallback ==
    ASSUME NEW S, NEW first \in S
    PROVE  AddCallback(<<>>, first) = <<first>>
<1> DEFINE empty == <<>>
           place == 1
           list == InsertAt(empty, place, first)
<1>1. empty \in Seq(S) /\ Len(empty) = 0 /\ place = 1
  OBVIOUS
<1> HIDE DEF empty, place
<1>2. AddCallback(empty, first) = list
  <2>1. PICK k \in 0 .. Len(empty) : AddCallback(empty, first) = InsertAt(empty, k + 1, first)
    BY <1>1, AddCallbackFacts
  <2>2. k + 1 = place
    BY <1>1, <2>1
  <2>. QED BY <2>1, <2>2
<1>3. list \in Seq(S) /\ Len(list) = 1 /\ list[1] = first
  <2>1. place \in 1 .. Len(empty) + 1
    BY <1>1
  <2>2. /\ list \in Seq(S) /\ Len(list) = Len(empty) + 1
        /\ \A j \in 1 .. Len(empty) + 1 :
              list[j] = IF j < place THEN empty[j]
                        ELSE IF j = place THEN first ELSE empty[j - 1]
    <3>1. \A s \in Seq(S) : \A k \in 1 .. Len(s) + 1 :
             /\ InsertAt(s, k, first) \in Seq(S) /\ Len(InsertAt(s, k, first)) = Len(s) + 1
             /\ \A j \in 1 .. Len(s) + 1 :
                   InsertAt(s, k, first)[j] = IF j < k THEN s[j]
                                              ELSE IF j = k THEN first ELSE s[j - 1]
      BY InsertAtFacts
    <3>. QED BY <1>1, <2>1, <3>1
  <2> HIDE DEF list
  <2>. QED BY <1>1, <2>1, <2>2
<1> HIDE DEF list
<1>4. list = <<first>>
  BY <1>3
<1>. QED BY <1>2, <1>4 DEF empty

(* A second one comes before a first that is queued at the end, as the     *)
(* hook of CLOSED comes before the eraser.                                 *)
LEMMA SecondCallback ==
    ASSUME NEW S, NEW queued \in S, NEW second \in S, Queued(queued)
    PROVE  AddCallback(AddCallback(<<>>, queued), second) = <<second, queued>>
<1> DEFINE one == <<queued>>
           two == <<second, queued>>
           place == 1
           list == InsertAt(one, place, second)
<1>1. /\ one \in Seq(S) /\ Len(one) = 1 /\ one[1] = queued
      /\ two \in Seq(S) /\ Len(two) = 2 /\ two[1] = second /\ two[2] = queued
      /\ place = 1
  OBVIOUS
<1> HIDE DEF one, two, place
<1>2. AddCallback(one, second) = list
  <2>1. PICK k \in 0 .. Len(one) :
            /\ AddCallback(one, second) = InsertAt(one, k + 1, second)
            /\ k # 0 => ~Queued(one[k])
    BY <1>1, AddCallbackFacts
  <2>2. k + 1 = place
    BY <1>1, <2>1
  <2>. QED BY <2>1, <2>2
<1>3. list \in Seq(S) /\ Len(list) = 2 /\ list[1] = second /\ list[2] = queued
  <2>1. place \in 1 .. Len(one) + 1 /\ 2 \in 1 .. Len(one) + 1
    BY <1>1
  <2>2. /\ list \in Seq(S) /\ Len(list) = Len(one) + 1
        /\ \A j \in 1 .. Len(one) + 1 :
              list[j] = IF j < place THEN one[j]
                        ELSE IF j = place THEN second ELSE one[j - 1]
    BY <1>1, <2>1, InsertAtFacts
  <2> HIDE DEF list
  <2>3. list[1] = second /\ list[2] = one[2 - 1]
    BY <1>1, <2>1, <2>2
  <2>. QED BY <1>1, <2>2, <2>3
<1> HIDE DEF list
<1>4. list = two
  <2>1. Len(list) = Len(two) /\ \A i \in 1 .. Len(list) : list[i] = two[i]
    <3>1. \A i \in 1 .. 2 : i = 1 \/ i = 2
      OBVIOUS
    <3>. QED BY <1>1, <1>3, <3>1
  <2>. QED BY <1>1, <1>3, <2>1, SeqEqual
<1>5. AddCallback(<<>>, queued) = one
  BY FirstCallback DEF one
<1>. QED BY <1>2, <1>4, <1>5 DEF two

-----------------------------------------------------------------------------
(* What execute() calls of short lists.                                    *)

(* The only callback, if it is not skipped.                                *)
LEMMA ExecutedOne ==
    ASSUME NEW only, "SKIP" \notin only.flags
    PROVE  Executed(<<only>>) = <<only>>
<1>1. CalledPlaces(<<only>>) = {1}
  BY DEF CalledPlaces
<1>2. Cardinality({1}) = 1
  BY FS_Singleton
<1>3. Kth({1}, 1) = 1
  <2>1. {j \in {1} : j <= 1} = {1}
    OBVIOUS
  <2>2. \A i \in {1} : Cardinality({j \in {1} : j <= i}) = 1
    BY <1>2, <2>1
  <2>. QED BY <2>2 DEF Kth
<1>4. Executed(<<only>>) = [k \in 1 .. 1 |-> <<only>>[Kth({1}, k)]]
  BY <1>1, <1>2 DEF Executed
<1>5. \A k \in 1 .. 1 : <<only>>[Kth({1}, k)] = only
  BY <1>3
<1>. QED BY <1>4, <1>5

(* Both callbacks, if neither is skipped and the first does not stop.      *)
LEMMA ExecutedTwo ==
    ASSUME NEW a, NEW b, "SKIP" \notin a.flags, "SKIP" \notin b.flags,
           "STOP_AFTER" \notin a.flags
    PROVE  Executed(<<a, b>>) = <<a, b>>
<1> DEFINE list == <<a, b>>
<1>1. CalledPlaces(list) = {1, 2}
  <2>1. Len(list) = 2 /\ list[1] = a /\ list[2] = b
    OBVIOUS
  <2>2. 1 .. 2 = {1, 2}
    OBVIOUS
  <2>. QED BY <2>1, <2>2 DEF CalledPlaces
<1>2. Cardinality({1}) = 1 /\ Cardinality({1, 2}) = 2
  <2>1. IsFiniteSet({1}) /\ Cardinality({1}) = 1
    BY FS_Singleton
  <2>2. {1, 2} = {1} \cup {2} /\ 2 \notin {1}
    OBVIOUS
  <2>3. Cardinality({1} \cup {2}) = Cardinality({1}) + 1
    BY <2>1, <2>2, FS_AddElement
  <2>. QED BY <2>1, <2>2, <2>3
<1>3. Kth({1, 2}, 1) = 1 /\ Kth({1, 2}, 2) = 2
  <2> DEFINE upTo(i) == {j \in {1, 2} : j <= i}
  <2>1. upTo(1) = {1} /\ upTo(2) = {1, 2}
    OBVIOUS
  <2>2. \A i \in {1, 2} : Cardinality(upTo(i)) = i
    BY <1>2, <2>1
  <2> HIDE DEF upTo
  <2>3. \A k \in {1, 2} : (CHOOSE i \in {1, 2} : Cardinality(upTo(i)) = k) = k
    BY <2>2
  <2>. QED BY <2>3 DEF Kth, upTo
<1>4. Executed(list) = [k \in 1 .. 2 |-> list[Kth({1, 2}, k)]]
  BY <1>1, <1>2 DEF Executed
<1>5. \A k \in 1 .. 2 : Kth({1, 2}, k) = k
  BY <1>3
<1>6. Executed(list) = [k \in 1 .. 2 |-> list[k]]
  BY <1>4, <1>5
<1>. QED BY <1>6

=============================================================================
