------------------------ MODULE ActionHandlerProofs ------------------------
(***************************************************************************)
(* Proofs about ActionHandler, for lists of any length and callbacks with  *)
(* any flags: the order of the list, what a walk calls and in what order,  *)
(* and the two promises the containers rest on, that the eraser is called  *)
(* last and that the list of a destroyed object is not read.               *)
(***************************************************************************)
EXTENDS ActionHandler, ActionListProofs

Indexes == 1 .. Len(executor_list)

ListType ==
    /\ executor_list \in Seq(Callbacks) /\ Len(executor_list) <= MaxCallbacks
    /\ \A i \in Indexes : executor_list[i].id <= Len(executor_list)
    /\ pos \in Nat /\ ran \in Seq(Callbacks) /\ alive \in BOOLEAN

(* A walk that goes on after the object was destroyed has passed, without  *)
(* stopping, the callback that destroyed it.                               *)
PastDestroyer ==
    ~alive /\ pos # 0 =>
        \E i \in Indexes : /\ i < pos
                           /\ executor_list[i].id = destroyer
                           /\ "STOP_AFTER" \notin executor_list[i].flags

(* The places in the list that are not skipped, and those that also stop.  *)
Calling == {i \in Indexes : "SKIP" \notin executor_list[i].flags}
Stopping == {i \in Calling : "STOP_AFTER" \in executor_list[i].flags}

CalledUpTo(n) == ToSet(ran) = {executor_list[i] : i \in {j \in Calling : j <= n}}

(* What a walk has called: all it passed that is not skipped, up to the    *)
(* one that stopped it, if there was one.                                  *)
RanInv ==
    /\ pos # 0 =>
          /\ CalledUpTo(pos - 1)
          /\ \A i \in Stopping : i >= pos
    /\ pos = 0 /\ ran # <<>> =>
          \/ \E i \in Stopping : CalledUpTo(i) /\ Last(ran) = executor_list[i]
          \/ Stopping = {}

Inv == ListType /\ Ordered /\ PastDestroyer /\ RanInv

-----------------------------------------------------------------------------
(* The steps.                                                              *)

(* An empty list.                                                          *)
LEMMA InitInv == ActionInit => Inv
<1>. SUFFICES ASSUME ActionInit PROVE Inv
  OBVIOUS
<1>1. ListType
  BY MaxCallbacksAssumption DEF ActionInit, ListType, Indexes
<1>2. Ordered
  BY DEF ActionInit, Ordered
<1>3. PastDestroyer /\ RanInv
  BY DEF ActionInit, PastDestroyer, RanInv
<1>. QED BY <1>1, <1>2, <1>3 DEF Inv

(* on() keeps the order: the new callback, the youngest, comes behind all  *)
(* that are not queued and before all that are.                            *)
LEMMA OnInv ==
    ASSUME Inv, NEW flags \in SUBSET ActionFlags, On(flags)
    PROVE  Inv'
<1> DEFINE n == Len(executor_list)
           new == [id |-> n + 1, flags |-> flags]
<1>1. /\ n \in Nat /\ n < MaxCallbacks /\ new \in Callbacks
      /\ executor_list \in Seq(Callbacks)
      /\ \A i \in 1 .. n : executor_list[i] \in Callbacks /\ executor_list[i].id <= n
  <2>1. /\ executor_list \in Seq(Callbacks) /\ n \in Nat /\ n < MaxCallbacks
        /\ \A i \in 1 .. n : executor_list[i].id <= n
    BY LenProperties DEF Inv, ListType, Indexes, On
  <2>2. n + 1 \in 1 .. MaxCallbacks
    BY <2>1, MaxCallbacksAssumption
  <2>3. new \in Callbacks
    BY <2>2 DEF Callbacks
  <2>. QED BY <2>1, <2>3, ElementOfSeq
<1> HIDE DEF new
<1>2. PICK k \in 0 .. n : InsertedBehind(Callbacks, executor_list, new, k)
  BY <1>1, AddCallbackInserts
<1>3. /\ executor_list' \in Seq(Callbacks) /\ Len(executor_list') = n + 1
      /\ \A j \in 1 .. n + 1 :
            executor_list'[j] = IF j < k + 1 THEN executor_list[j]
                                ELSE IF j = k + 1 THEN new ELSE executor_list[j - 1]
      /\ k # 0 => ~Queued(executor_list[k])
      /\ \A i \in 1 .. n : i > k => Queued(executor_list[i])
  BY <1>2 DEF On, new, InsertedBehind
<1> HIDE DEF n
<1>4. /\ new.id = n + 1 /\ \A i \in 1 .. n : executor_list[i].id \in 1 .. n
  BY <1>1 DEF Callbacks, new
<1>5. \A i \in 1 .. n : i <= k => ~Queued(executor_list[i])
  BY <1>1, <1>3 DEF Inv, Ordered, n
<1>6. Ordered'
  <2>. SUFFICES ASSUME NEW i \in 1 .. n + 1, NEW j \in 1 .. n + 1, i < j
                PROVE  IF Queued(executor_list'[i])
                       THEN /\ Queued(executor_list'[j])
                            /\ executor_list'[i].id > executor_list'[j].id
                       ELSE \/ Queued(executor_list'[j])
                            \/ executor_list'[i].id < executor_list'[j].id
    BY <1>3 DEF Ordered
  <2>1. CASE j < k + 1
    <3>1. i \in 1 .. n /\ j \in 1 .. n /\ i < k + 1
      BY <1>1, <2>1
    <3>2. executor_list'[i] = executor_list[i] /\ executor_list'[j] = executor_list[j]
      BY <1>3, <2>1, <3>1
    <3>. QED BY <3>1, <3>2 DEF Inv, Ordered, n
  <2>2. CASE i < k + 1 /\ j = k + 1
    <3>1. i \in 1 .. n /\ i <= k
      BY <1>1, <2>2
    <3>2. executor_list'[i] = executor_list[i] /\ executor_list'[j] = new
      BY <1>3, <2>2
    <3>. QED BY <1>1, <1>4, <1>5, <3>1, <3>2
  <2>3. CASE i < k + 1 /\ j > k + 1
    <3>1. i \in 1 .. n /\ i <= k /\ j - 1 \in 1 .. n /\ j - 1 > k
      BY <1>1, <2>3
    <3>2. executor_list'[i] = executor_list[i] /\ executor_list'[j] = executor_list[j - 1]
      BY <1>1, <1>3, <2>3
    <3>. QED BY <1>3, <1>5, <3>1, <3>2
  <2>4. CASE i = k + 1 /\ j > k + 1
    <3>1. j - 1 \in 1 .. n /\ j - 1 > k
      BY <1>1, <2>4
    <3>2. executor_list'[i] = new /\ executor_list'[j] = executor_list[j - 1]
      BY <1>1, <1>3, <2>4
    <3>. QED BY <1>1, <1>3, <1>4, <3>1, <3>2
  <2>5. CASE i > k + 1
    <3>1. i - 1 \in 1 .. n /\ j - 1 \in 1 .. n /\ i - 1 < j - 1
      BY <1>1, <2>5
    <3>2. /\ executor_list'[i] = executor_list[i - 1]
          /\ executor_list'[j] = executor_list[j - 1]
      BY <1>1, <1>3, <2>5
    <3>. QED BY <3>1, <3>2 DEF Inv, Ordered, n
  <2>. QED BY <1>1, <2>1, <2>2, <2>3, <2>4, <2>5
<1>7. ListType'
  <2>1. \A j \in 1 .. n + 1 : executor_list'[j].id <= n + 1
    <3>. TAKE j \in 1 .. n + 1
    <3>1. CASE j < k + 1
      <4>1. j \in 1 .. n /\ executor_list'[j] = executor_list[j]
        BY <1>1, <1>3, <3>1
      <4>. QED BY <1>1, <1>4, <4>1
    <3>2. CASE j = k + 1
      BY <1>1, <1>3, <1>4, <3>2
    <3>3. CASE j > k + 1
      <4>1. j - 1 \in 1 .. n /\ executor_list'[j] = executor_list[j - 1]
        BY <1>1, <1>3, <3>3
      <4>. QED BY <1>1, <1>4, <4>1
    <3>. QED BY <1>1, <3>1, <3>2, <3>3
  <2>2. pos' \in Nat /\ ran' \in Seq(Callbacks) /\ alive' \in BOOLEAN
    BY DEF On, Inv, ListType
  <2>3. n + 1 <= MaxCallbacks
    BY <1>1, MaxCallbacksAssumption
  <2>. QED BY <1>3, <2>1, <2>2, <2>3 DEF ListType, Indexes
<1>8. PastDestroyer' /\ RanInv'
  BY DEF On, PastDestroyer, RanInv
<1>. QED BY <1>6, <1>7, <1>8 DEF Inv

(* execute() starts: nothing was passed and nothing called.                *)
LEMMA ExecuteInv == ASSUME Inv, Execute PROVE Inv'
<1>1. ListType'
  BY DEF Execute, Inv, ListType, Indexes
<1>2. Ordered' /\ PastDestroyer'
  BY DEF Execute, Inv, Ordered, PastDestroyer
<1>3. RanInv'
  <2>1. /\ pos' = 1 /\ ran' = <<>> /\ executor_list' = executor_list
        /\ Len(executor_list) \in Nat
    BY LenProperties DEF Execute, Inv, ListType
  <2>2. CalledUpTo(0)'
    BY <2>1 DEF CalledUpTo, Calling, Indexes, ToSet
  <2>3. \A i \in Stopping' : i >= 1
    BY <2>1 DEF Stopping, Calling, Indexes
  <2>. QED BY <2>1, <2>2, <2>3 DEF RanInv
<1>. QED BY <1>1, <1>2, <1>3 DEF Inv

(* Calling the callback at the place of the walk adds it to what was       *)
(* called.                                                                 *)
LEMMA CalledUpToNext ==
    ASSUME ListType, pos \in Calling, CalledUpTo(pos - 1),
           ran' = Append(ran, executor_list[pos]), executor_list' = executor_list
    PROVE  /\ ToSet(ran') = {executor_list[i] : i \in {j \in Calling : j <= pos}}
           /\ Last(ran') = executor_list[pos] /\ ran' \in Seq(Callbacks)
<1> DEFINE executor == executor_list[pos]
           before == {j \in Calling : j <= pos - 1}
           after == {j \in Calling : j <= pos}
<1>1. /\ executor \in Callbacks /\ ran \in Seq(Callbacks) /\ Len(ran) \in Nat
      /\ pos \in Nat /\ Calling \subseteq Nat
  BY LenProperties, ElementOfSeq DEF ListType, Calling, Indexes
<1>2. /\ ran' \in Seq(Callbacks) /\ Len(ran') = Len(ran) + 1
      /\ \A i \in 1 .. Len(ran) : ran'[i] = ran[i]
      /\ ran'[Len(ran) + 1] = executor
  BY <1>1, AppendProperties
<1>3. ToSet(ran') = ToSet(ran) \cup {executor}
  <2>1. /\ DOMAIN ran = 1 .. Len(ran) /\ DOMAIN ran' = 1 .. Len(ran) + 1
    BY <1>1, <1>2, LenProperties
  <2>2. 1 .. Len(ran) + 1 = (1 .. Len(ran)) \cup {Len(ran) + 1}
    BY <1>1
  <2>. QED BY <1>2, <2>1, <2>2 DEF ToSet
<1>4. after = before \cup {pos}
  <2>1. \A j \in Calling : j <= pos <=> j <= pos - 1 \/ j = pos
    BY <1>1
  <2>. QED BY <2>1
<1>5. ToSet(ran') = {executor_list[i] : i \in after}
  <2> HIDE DEF after, before
  <2>1. ToSet(ran) = {executor_list[i] : i \in before}
    BY DEF CalledUpTo, before
  <2>. QED BY <1>3, <1>4, <2>1
<1>. QED BY <1>2, <1>5 DEF Last

(* One turn of the walk.                                                   *)
LEMMA TurnInv == ASSUME Inv, Turn PROVE Inv'
<1>0. PICK p \in Nat : p = pos
  BY DEF Inv, ListType
<1> DEFINE executor == executor_list[p]
<1>1. /\ p \in Indexes /\ Len(executor_list) \in Nat
      /\ executor_list' = executor_list /\ destroyer' = destroyer
      /\ CalledUpTo(p - 1) /\ \A i \in Stopping : i >= p
  BY <1>0, LenProperties DEF Turn, Inv, ListType, RanInv, Indexes
<1>2. Ordered' /\ Calling' = Calling /\ Stopping' = Stopping
  BY <1>1 DEF Inv, Ordered, Calling, Stopping, Indexes
<1>3. Calling \subseteq Nat /\ Stopping \subseteq Calling
  BY <1>1 DEF Calling, Stopping, Indexes
<1>4. CASE "SKIP" \in executor.flags
  <2>1. pos' = p + 1 /\ ran' = ran /\ alive' = alive
    BY <1>0, <1>4 DEF Turn
  <2>2. ListType'
    BY <1>1, <2>1 DEF Inv, ListType, Indexes
  <2>3. PastDestroyer'
    BY <1>0, <1>1, <2>1 DEF Inv, PastDestroyer, Indexes
  <2>4. p \notin Calling
    BY <1>4 DEF Calling
  <2>5. {j \in Calling : j <= p} = {j \in Calling : j <= p - 1}
    <3>1. \A j \in Calling : j <= p <=> j <= p - 1
      BY <1>3, <2>4
    <3>. QED BY <3>1
  <2>6. ToSet(ran') = {executor_list'[i] : i \in {j \in Calling' : j <= p}}
    BY <1>1, <1>2, <2>1, <2>5 DEF CalledUpTo
  <2>7. \A i \in Stopping' : i >= p + 1
    BY <1>1, <1>2, <1>3, <2>4
  <2>8. RanInv'
    <3>1. pos' # 0 /\ pos' - 1 = p
      BY <2>1
    <3>. QED BY <2>1, <2>6, <2>7, <3>1 DEF RanInv, CalledUpTo
  <2>. QED BY <1>2, <2>2, <2>3, <2>8 DEF Inv
<1>5. CASE "SKIP" \notin executor.flags
  <2>1. /\ p \in Calling /\ ran' = Append(ran, executor)
        /\ alive' = (alive /\ executor.id # destroyer)
        /\ pos' = IF "STOP_AFTER" \in executor.flags THEN 0 ELSE p + 1
    BY <1>0, <1>1, <1>5 DEF Turn, Calls, Calling
  <2>2. /\ ToSet(ran') = {executor_list[i] : i \in {j \in Calling : j <= p}}
        /\ Last(ran') = executor /\ ran' \in Seq(Callbacks)
    BY <1>0, <1>1, <2>1, CalledUpToNext DEF Inv
  <2>3. ToSet(ran') = {executor_list'[i] : i \in {j \in Calling' : j <= p}}
    BY <1>1, <1>2, <2>2
  <2>4. ListType'
    BY <1>1, <2>1, <2>2 DEF Inv, ListType, Indexes
  <2>5. CASE "STOP_AFTER" \in executor.flags
    <3>1. pos' = 0 /\ p \in Stopping'
      BY <1>2, <2>1, <2>5 DEF Stopping
    <3>2. Last(ran') = executor_list'[p]
      BY <1>1, <2>2
    <3>3. RanInv'
      BY <2>3, <3>1, <3>2 DEF RanInv, CalledUpTo
    <3>4. PastDestroyer'
      BY <3>1 DEF PastDestroyer
    <3>. QED BY <1>2, <2>4, <3>3, <3>4 DEF Inv
  <2>6. CASE "STOP_AFTER" \notin executor.flags
    <3>1. pos' = p + 1 /\ p \notin Stopping
      BY <2>1, <2>6 DEF Stopping
    <3>2. pos' # 0 /\ pos' - 1 = p
      BY <3>1
    <3>3. \A i \in Stopping' : i >= pos'
      BY <1>1, <1>2, <1>3, <3>1
    <3>4. RanInv'
      BY <2>3, <3>2, <3>3 DEF RanInv, CalledUpTo
    <3>5. PastDestroyer'
      <4>. SUFFICES ASSUME ~alive'
                    PROVE  \E i \in Indexes : /\ i < p + 1
                                              /\ executor_list[i].id = destroyer
                                              /\ "STOP_AFTER" \notin executor_list[i].flags
        BY <1>1, <3>1 DEF PastDestroyer, Indexes
      <4>1. CASE ~alive
        <5>1. PICK i \in Indexes : /\ i < p
                                   /\ executor_list[i].id = destroyer
                                   /\ "STOP_AFTER" \notin executor_list[i].flags
          BY <1>0, <1>1, <4>1 DEF Inv, PastDestroyer, Indexes
        <5>2. i < p + 1
          BY <5>1 DEF Indexes
        <5>. QED BY <5>1, <5>2
      <4>2. CASE alive
        <5>1. executor.id = destroyer
          BY <2>1, <4>2
        <5>2. p < p + 1
          OBVIOUS
        <5>. QED BY <1>1, <2>6, <5>1, <5>2
      <4>. QED BY <4>1, <4>2
    <3>. QED BY <1>2, <2>4, <3>4, <3>5 DEF Inv
  <2>. QED BY <2>5, <2>6
<1>. QED BY <1>4, <1>5

(* The walk comes to the end of the list.                                  *)
LEMMA WalkEndsInv == ASSUME Inv, WalkEnds PROVE Inv'
<1>1. /\ executor_list' = executor_list /\ ran' = ran /\ alive' = alive
      /\ pos' = 0 /\ pos > Len(executor_list) /\ pos \in Nat
      /\ Len(executor_list) \in Nat
  BY LenProperties DEF WalkEnds, Inv, ListType
<1>2. ListType'
  BY <1>1 DEF Inv, ListType, Indexes
<1>3. Ordered' /\ PastDestroyer'
  BY <1>1 DEF Inv, Ordered, PastDestroyer
<1>4. Stopping' = {}
  <2>1. \A i \in Stopping : i >= pos /\ i \in 1 .. Len(executor_list)
    BY <1>1 DEF Inv, RanInv, Stopping, Calling, Indexes
  <2>2. Stopping' = Stopping
    BY <1>1 DEF Stopping, Calling, Indexes
  <2>. QED BY <1>1, <2>1, <2>2
<1>5. RanInv'
  BY <1>1, <1>4 DEF RanInv
<1>. QED BY <1>2, <1>3, <1>5 DEF Inv

(* Every step preserves the invariant.                                     *)
LEMMA NextInv == ASSUME Inv, [ActionNext]_actionVars PROVE Inv'
<1>1. CASE \E flags \in SUBSET ActionFlags : On(flags)
  BY <1>1, OnInv
<1>2. CASE Execute
  BY <1>2, ExecuteInv
<1>3. CASE Turn
  BY <1>3, TurnInv
<1>4. CASE WalkEnds
  BY <1>4, WalkEndsInv
<1>5. CASE UNCHANGED actionVars
  BY <1>5 DEF actionVars, Inv, ListType, Ordered, PastDestroyer, RanInv, CalledUpTo,
              Stopping, Calling, Indexes
<1>. QED BY <1>1, <1>2, <1>3, <1>4, <1>5 DEF ActionNext

(* The invariant holds in every reachable state.                           *)
THEOREM InvInvariant == ActionSpec => []Inv
<1>. QED BY InitInv, NextInv, PTL DEF ActionSpec

-----------------------------------------------------------------------------
(* What the run checks, for lists of any length.                           *)

(* The flags order the list: whatever the order of the calls of on().      *)
THEOREM ListIsOrdered == ActionSpec => []Ordered
<1>1. Inv => Ordered
  BY DEF Inv
<1>. QED BY InvInvariant, <1>1, PTL

(* execute() reads no list that a callback destroyed, unless that callback *)
(* neither stops the list nor is its last.                                 *)
THEOREM NoDestroyedListRead == ActionSpec => []DestroyedListNotRead
<1>1. Inv => DestroyedListNotRead
  <2>. SUFFICES ASSUME Inv, ~alive, pos \in 1 .. Len(executor_list)
                PROVE  \E i \in 1 .. Len(executor_list) - 1 :
                          /\ executor_list[i].id = destroyer
                          /\ "STOP_AFTER" \notin executor_list[i].flags
    BY DEF DestroyedListNotRead
  <2>1. Len(executor_list) \in Nat
    BY LenProperties DEF Inv, ListType
  <2>2. PICK i \in Indexes : /\ i < pos
                             /\ executor_list[i].id = destroyer
                             /\ "STOP_AFTER" \notin executor_list[i].flags
    BY <2>1 DEF Inv, PastDestroyer
  <2>3. i \in 1 .. Len(executor_list) - 1
    BY <2>1, <2>2 DEF Indexes
  <2>. QED BY <2>2, <2>3
<1>. QED BY InvInvariant, <1>1, PTL

(* The eraser of a container, the first callback of its list, is called    *)
(* last and only after all the others: it stops the walk, nothing else     *)
(* does, and what Ordered allows behind it has a lower number than one.    *)
THEOREM EraserIsLast == ActionSpec => []EraserRunsLast
<1> DEFINE eraser(c) == c.id = 1 /\ c.flags = {"QUEUE_END", "STOP_AFTER"}
           others == {c \in ToSet(executor_list) : ~eraser(c)}
<1>1. ASSUME Inv, pos = 0, ran # <<>>, others # ToSet(executor_list),
             \A c \in others : "STOP_AFTER" \notin c.flags
      PROVE  /\ eraser(Last(ran))
             /\ \A c \in others : "SKIP" \notin c.flags => c \in ToSet(ran)
  <2>1. /\ Len(executor_list) \in Nat /\ Indexes = DOMAIN executor_list
        /\ \A i \in Indexes : executor_list[i].id \in 1 .. MaxCallbacks
    <3>1. executor_list \in Seq(Callbacks)
      BY <1>1 DEF Inv, ListType
    <3>2. \A i \in 1 .. Len(executor_list) : executor_list[i] \in Callbacks
      BY <3>1, ElementOfSeq
    <3>. QED BY <3>1, <3>2, LenProperties DEF Indexes, Callbacks
  <2>2. PICK i \in Indexes : eraser(executor_list[i])
    BY <1>1, <2>1 DEF ToSet
  <2>3. i \in Stopping
    BY <2>2 DEF Stopping, Calling
  <2>4. PICK s \in Stopping : CalledUpTo(s) /\ Last(ran) = executor_list[s]
    BY <1>1, <2>3 DEF Inv, RanInv
  <2>5. s \in Indexes /\ executor_list[s] \in ToSet(executor_list)
    BY <2>1 DEF Stopping, Calling, ToSet
  <2>6. eraser(executor_list[s])
    BY <1>1, <2>5 DEF Stopping
  <2>7. ASSUME NEW c \in others, "SKIP" \notin c.flags
        PROVE  c \in ToSet(ran)
    <3>1. PICK j \in Indexes : c = executor_list[j]
      BY <2>1, <2>7 DEF ToSet
    <3>2. ~(s < j)
      <4>. SUFFICES ASSUME s < j PROVE FALSE
        OBVIOUS
      <4>1. Queued(executor_list[s]) /\ executor_list[s].id = 1
        BY <2>6 DEF Queued
      <4>2. executor_list[s].id > executor_list[j].id
        BY <1>1, <2>5, <3>1, <4>1 DEF Inv, Ordered, Indexes
      <4>. QED BY <2>1, <3>1, <4>1, <4>2
    <3>3. j \in {k \in Calling : k <= s}
      <4>1. j <= s
        BY <2>1, <2>5, <3>1, <3>2 DEF Indexes
      <4>. QED BY <2>7, <3>1, <4>1 DEF Calling
    <3>. QED BY <2>4, <3>1, <3>3 DEF CalledUpTo
  <2>. QED BY <2>4, <2>6, <2>7
<1>2. Inv => EraserRunsLast
  BY <1>1 DEF EraserRunsLast
<1>. QED BY InvInvariant, <1>2, PTL

-----------------------------------------------------------------------------
(* The order of the calls: a walk calls what Executed says, one after the  *)
(* other.  The rank of a place is how many places up to it are called.     *)

Rank(list, n) == Cardinality({j \in CalledPlaces(list) : j <= n})

(* The calls are those of the places up to n, each at its rank, and every  *)
(* rank is that of a place.                                                *)
CalledInOrder(list, calls, n) ==
    /\ Len(calls) = Rank(list, n)
    /\ \A i \in CalledPlaces(list) : i <= n => calls[Rank(list, i)] = list[i]
    /\ \A k \in 1 .. Rank(list, n) :
          \E i \in CalledPlaces(list) : i <= n /\ Rank(list, i) = k

OrderInv ==
    /\ pos # 0 => CalledInOrder(executor_list, ran, pos - 1)
    /\ pos = 0 /\ ran # <<>> => CalledInOrder(executor_list, ran, Len(executor_list))

(* The places up to n are finitely many.                                   *)
LEMMA RankFacts ==
    ASSUME NEW list, Len(list) \in Nat, NEW n \in Nat
    PROVE  /\ CalledPlaces(list) \subseteq 1 .. Len(list)
           /\ IsFiniteSet({j \in CalledPlaces(list) : j <= n})
           /\ Rank(list, n) \in Nat
<1>1. CalledPlaces(list) \subseteq 1 .. Len(list)
  BY DEF CalledPlaces
<1>2. IsFiniteSet(1 .. Len(list))
  BY FS_Interval
<1>3. {j \in CalledPlaces(list) : j <= n} \subseteq 1 .. Len(list)
  BY <1>1
<1>4. IsFiniteSet({j \in CalledPlaces(list) : j <= n})
  BY <1>2, <1>3, FS_Subset
<1>5. Rank(list, n) \in Nat
  BY <1>4, FS_CardinalityType DEF Rank
<1>. QED BY <1>1, <1>4, <1>5

(* A called place has a positive rank, that of no later place is smaller.  *)
LEMMA RankIsMonotone ==
    ASSUME NEW list, Len(list) \in Nat, NEW n \in Nat,
           NEW i \in CalledPlaces(list), i <= n
    PROVE  Rank(list, i) \in 1 .. Rank(list, n)
<1> DEFINE upto(m) == {j \in CalledPlaces(list) : j <= m}
<1>1. i \in Nat /\ CalledPlaces(list) \subseteq Nat
  <2>1. CalledPlaces(list) \subseteq 1 .. Len(list)
    BY RankFacts
  <2>. QED BY <2>1
<1>2. /\ IsFiniteSet(upto(i)) /\ IsFiniteSet(upto(n))
      /\ Rank(list, i) \in Nat /\ Rank(list, n) \in Nat
  BY <1>1, RankFacts
<1>3. upto(i) \subseteq upto(n)
  <2>1. \A j \in CalledPlaces(list) : j <= i => j <= n
    BY <1>1
  <2>. QED BY <2>1
<1>4. Rank(list, i) <= Rank(list, n)
  BY <1>2, <1>3, FS_Subset, FS_CardinalityType DEF Rank
<1>5. Rank(list, i) # 0
  <2>1. i \in upto(i)
    BY <1>1
  <2>2. upto(i) # {}
    BY <2>1
  <2>. QED BY <1>2, <2>2, FS_EmptySet DEF Rank
<1>. QED BY <1>2, <1>4, <1>5

(* No call, no place passed.                                               *)
LEMMA NothingCalled ==
    ASSUME NEW list, Len(list) \in Nat
    PROVE  CalledInOrder(list, <<>>, 0)
<1>1. CalledPlaces(list) \subseteq 1 .. Len(list)
  BY RankFacts, 0 \in Nat
<1>2. \A i \in CalledPlaces(list) : ~(i <= 0)
  BY <1>1
<1>3. {j \in CalledPlaces(list) : j <= 0} = {}
  BY <1>2
<1>4. Rank(list, 0) = 0
  BY <1>3, FS_EmptySet DEF Rank
<1>5. Len(<<>>) = 0
  OBVIOUS
<1>. QED BY <1>2, <1>4, <1>5 DEF CalledInOrder

(* A place that is not called changes nothing.                             *)
LEMMA PassedInOrder ==
    ASSUME NEW list, Len(list) \in Nat, NEW calls, NEW n \in Nat, NEW m \in Nat, n <= m,
           \A i \in CalledPlaces(list) : i <= m => i <= n, CalledInOrder(list, calls, n)
    PROVE  CalledInOrder(list, calls, m)
<1>1. CalledPlaces(list) \subseteq 1 .. Len(list)
  BY RankFacts
<1>2. \A i \in CalledPlaces(list) : i <= m <=> i <= n
  BY <1>1
<1>3. {j \in CalledPlaces(list) : j <= m} = {j \in CalledPlaces(list) : j <= n}
  BY <1>2
<1>4. Rank(list, m) = Rank(list, n)
  BY <1>3 DEF Rank
<1>. QED BY <1>2, <1>4 DEF CalledInOrder

(* A place that is called has the next rank.                               *)
LEMMA NextInOrder ==
    ASSUME NEW S, NEW list, Len(list) \in Nat, NEW calls \in Seq(S),
           NEW n \in CalledPlaces(list), list[n] \in S,
           CalledInOrder(list, calls, n - 1)
    PROVE  CalledInOrder(list, Append(calls, list[n]), n)
<1> DEFINE upto(m) == {j \in CalledPlaces(list) : j <= m}
           longer == Append(calls, list[n])
<1>1. /\ n \in Nat /\ n - 1 \in Nat /\ CalledPlaces(list) \subseteq Nat
      /\ \A i \in CalledPlaces(list) : i <= n <=> i <= n - 1 \/ i = n
      /\ ~(n <= n - 1)
  <2>1. CalledPlaces(list) \subseteq 1 .. Len(list)
    BY RankFacts, 0 \in Nat
  <2>. QED BY <2>1
<1>2. upto(n) = upto(n - 1) \cup {n} /\ n \notin upto(n - 1)
  BY <1>1
<1>3. IsFiniteSet(upto(n - 1)) /\ Rank(list, n - 1) \in Nat
  BY <1>1, RankFacts
<1>4. Rank(list, n) = Rank(list, n - 1) + 1
  BY <1>2, <1>3, FS_AddElement DEF Rank
<1>5. Len(calls) = Rank(list, n - 1)
  BY DEF CalledInOrder
<1>6. /\ Len(longer) = Rank(list, n)
      /\ \A k \in 1 .. Rank(list, n - 1) : longer[k] = calls[k]
      /\ longer[Rank(list, n)] = list[n]
  BY <1>4, <1>5, AppendProperties
<1> HIDE DEF longer, upto
<1>7. ASSUME NEW i \in CalledPlaces(list), i <= n
      PROVE  longer[Rank(list, i)] = list[i]
  <2>1. CASE i <= n - 1
    <3>1. Rank(list, i) \in 1 .. Rank(list, n - 1)
      BY <1>1, <2>1, RankIsMonotone
    <3>2. calls[Rank(list, i)] = list[i]
      BY <2>1 DEF CalledInOrder
    <3>. QED BY <1>6, <3>1, <3>2
  <2>2. CASE i = n
    BY <1>6, <2>2
  <2>. QED BY <1>1, <1>7, <2>1, <2>2
<1>8. ASSUME NEW k \in 1 .. Rank(list, n)
      PROVE  \E i \in CalledPlaces(list) : i <= n /\ Rank(list, i) = k
  <2>1. CASE k = Rank(list, n)
    <3>1. n <= n
      BY <1>1
    <3>. QED BY <2>1, <3>1
  <2>2. CASE k # Rank(list, n)
    <3>1. k \in 1 .. Rank(list, n - 1)
      BY <1>3, <1>4, <2>2
    <3>2. PICK i \in CalledPlaces(list) : i <= n - 1 /\ Rank(list, i) = k
      BY <3>1 DEF CalledInOrder
    <3>. QED BY <1>1, <3>2
  <2>. QED BY <2>1, <2>2
<1>. QED BY <1>6, <1>7, <1>8 DEF CalledInOrder, longer

(* A walk that passed the whole list in order called what Executed says:   *)
(* Kth is a place of that rank, and each rank is the rank of a call.       *)
LEMMA InOrderIsExecuted ==
    ASSUME NEW S, NEW list, Len(list) \in Nat, NEW calls \in Seq(S),
           CalledInOrder(list, calls, Len(list))
    PROVE  calls = Executed(list)
<1> DEFINE places == CalledPlaces(list)
           n == Cardinality(places)
<1>1. places \subseteq 1 .. Len(list) /\ n \in Nat
  <2>1. places \subseteq 1 .. Len(list)
    BY RankFacts
  <2>2. IsFiniteSet(1 .. Len(list))
    BY FS_Interval
  <2>. QED BY <2>1, <2>2, FS_Subset, FS_CardinalityType
<1>2. Rank(list, Len(list)) = n
  <2>1. {j \in places : j <= Len(list)} = places
    BY <1>1
  <2>. QED BY <2>1 DEF Rank
<1>3. Len(calls) = n /\ DOMAIN calls = 1 .. n
  BY <1>2, LenProperties DEF CalledInOrder
<1>4. ASSUME NEW k \in 1 .. n
      PROVE  calls[k] = list[Kth(places, k)]
  <2>1. \E i \in places : Cardinality({j \in places : j <= i}) = k
    BY <1>2 DEF CalledInOrder, Rank
  <2>2. /\ Kth(places, k) \in places
        /\ Cardinality({j \in places : j <= Kth(places, k)}) = k
    BY <2>1 DEF Kth
  <2>3. Rank(list, Kth(places, k)) = k
    BY <2>2 DEF Rank
  <2>4. Kth(places, k) <= Len(list)
    BY <1>1, <2>2
  <2>. QED BY <2>2, <2>3, <2>4 DEF CalledInOrder
<1>5. calls = [k \in 1 .. n |-> calls[k]]
  BY <1>3
<1>6. Executed(list) = [k \in 1 .. n |-> list[Kth(places, k)]]
  BY DEF Executed
<1>. QED BY <1>4, <1>5, <1>6

(* A called place is one of Calling; no called place lies behind one that  *)
(* stops.                                                                  *)
LEMMA PlacesAndStops ==
    CalledPlaces(executor_list) = {i \in Calling : \A s \in Stopping : i <= s}
BY DEF CalledPlaces, Calling, Stopping, Indexes

(* Nothing is called before the first step.                                *)
LEMMA InitOrder == ActionInit => OrderInv
BY DEF ActionInit, OrderInv

(* A turn calls the next place, or passes one that is not called.          *)
LEMMA TurnOrder == ASSUME Inv, OrderInv, Turn PROVE OrderInv'
<1>0. PICK p \in Nat : p = pos
  BY DEF Inv, ListType
<1> DEFINE executor == executor_list[p]
           size == Len(executor_list)
<1>1. /\ p \in Indexes /\ p # 0 /\ p - 1 \in Nat /\ size \in Nat /\ p <= size
      /\ executor \in Callbacks /\ ran \in Seq(Callbacks)
      /\ executor_list' = executor_list
      /\ CalledInOrder(executor_list, ran, p - 1) /\ \A i \in Stopping : i >= p
  <2>1. /\ p \in Indexes /\ size \in Nat /\ executor_list' = executor_list
        /\ executor_list \in Seq(Callbacks) /\ ran \in Seq(Callbacks)
    BY <1>0, LenProperties DEF Turn, Inv, ListType, Indexes
  <2>2. p # 0 /\ p - 1 \in Nat /\ p <= size
    BY <2>1 DEF Indexes
  <2>3. executor \in Callbacks
    BY <2>1, ElementOfSeq DEF Indexes
  <2>. QED BY <1>0, <2>1, <2>2, <2>3 DEF Inv, RanInv, OrderInv
<1>2. /\ CalledPlaces(executor_list) = {i \in Calling : \A s \in Stopping : i <= s}
      /\ Calling \subseteq Nat /\ Stopping \subseteq Calling
      /\ CalledPlaces(executor_list) \subseteq Nat
  <2>1. Calling \subseteq Nat /\ Stopping \subseteq Calling
    BY <1>1 DEF Calling, Stopping, Indexes
  <2>. QED BY <2>1, PlacesAndStops
<1> HIDE DEF size
<1>3. CASE "SKIP" \in executor.flags
  <2>1. pos' = p + 1 /\ ran' = ran
    BY <1>0, <1>3 DEF Turn
  <2>2. p \notin CalledPlaces(executor_list)
    BY <1>2, <1>3 DEF Calling
  <2>3. \A i \in CalledPlaces(executor_list) : i <= p => i <= p - 1
    BY <1>0, <1>2, <2>2
  <2>4. CalledInOrder(executor_list, ran, p)
    BY <1>1, <2>3, PassedInOrder DEF size
  <2>5. pos' # 0 /\ pos' - 1 = p
    BY <2>1
  <2>. QED BY <1>1, <2>1, <2>4, <2>5 DEF OrderInv
<1>4. CASE "SKIP" \notin executor.flags
  <2>1. /\ p \in Calling /\ ran' = Append(ran, executor)
        /\ pos' = IF "STOP_AFTER" \in executor.flags THEN 0 ELSE p + 1
    BY <1>0, <1>1, <1>4 DEF Turn, Calls, Calling
  <2>2. p \in CalledPlaces(executor_list)
    <3>1. \A s \in Stopping : p <= s
      BY <1>1, <1>2
    <3>. QED BY <1>2, <2>1, <3>1
  <2>3. CalledInOrder(executor_list, ran', p)
    BY <1>1, <2>1, <2>2, NextInOrder DEF size
  <2>4. CASE "STOP_AFTER" \in executor.flags
    <3>1. pos' = 0 /\ p \in Stopping
      BY <2>1, <2>4 DEF Stopping
    <3>2. \A i \in CalledPlaces(executor_list) : i <= p
      BY <1>2, <3>1
    <3>3. CalledInOrder(executor_list, ran', size)
      BY <1>1, <2>3, <3>2, PassedInOrder DEF size
    <3>. QED BY <1>1, <3>1, <3>3 DEF OrderInv, size
  <2>5. CASE "STOP_AFTER" \notin executor.flags
    <3>1. pos' # 0 /\ pos' - 1 = p
      BY <2>1, <2>5
    <3>. QED BY <1>1, <2>3, <3>1 DEF OrderInv
  <2>. QED BY <2>4, <2>5
<1>. QED BY <1>3, <1>4

(* Every step keeps the calls in order.  on() and execute() forget them.   *)
LEMMA NextOrder == ASSUME Inv, OrderInv, [ActionNext]_actionVars PROVE OrderInv'
<1>1. CASE \E flags \in SUBSET ActionFlags : On(flags)
  BY <1>1 DEF On, OrderInv
<1>2. CASE Execute
  <2>1. /\ Len(executor_list) \in Nat /\ executor_list' = executor_list
        /\ ran' = <<>> /\ pos' = 1
    BY <1>2, LenProperties DEF Execute, Inv, ListType
  <2>2. pos' - 1 = 0 /\ pos' # 0
    BY <2>1
  <2>3. CalledInOrder(executor_list', ran', 0)
    BY <2>1, NothingCalled
  <2>. QED BY <2>2, <2>3 DEF OrderInv
<1>3. CASE Turn
  BY <1>3, TurnOrder
<1>4. CASE WalkEnds
  <2>1. /\ executor_list' = executor_list /\ ran' = ran /\ pos' = 0
        /\ Len(executor_list) \in Nat /\ pos \in Nat /\ pos > Len(executor_list)
    BY <1>4, LenProperties DEF WalkEnds, Inv, ListType
  <2>2. pos - 1 \in Nat /\ Len(executor_list) <= pos - 1 /\ pos # 0
    BY <2>1
  <2>3. CalledInOrder(executor_list, ran, pos - 1)
    BY <2>2 DEF OrderInv
  <2>4. CalledInOrder(executor_list, ran, Len(executor_list))
    <3>1. CalledPlaces(executor_list) \subseteq 1 .. Len(executor_list)
      BY <2>1, RankFacts
    <3>2. {j \in CalledPlaces(executor_list) : j <= pos - 1}
             = {j \in CalledPlaces(executor_list) : j <= Len(executor_list)}
      BY <2>1, <2>2, <3>1
    <3>3. Rank(executor_list, pos - 1) = Rank(executor_list, Len(executor_list))
      BY <3>2 DEF Rank
    <3>4. \A i \in CalledPlaces(executor_list) :
             i <= Len(executor_list) /\ i <= pos - 1
      BY <2>1, <2>2, <3>1
    <3>. QED BY <2>3, <3>3, <3>4 DEF CalledInOrder
  <2>. QED BY <2>1, <2>4 DEF OrderInv
<1>5. CASE UNCHANGED actionVars
  BY <1>5 DEF actionVars, OrderInv
<1>. QED BY <1>1, <1>2, <1>3, <1>4, <1>5 DEF ActionNext

(* A walk that has ended called what Executed says, in that order: no      *)
(* callback twice, none that is skipped, none behind one that stops.       *)
THEOREM CallsAreExecuted == ActionSpec => []WalkIsExecuted
<1>1. Inv /\ OrderInv => WalkIsExecuted
  <2>. SUFFICES ASSUME Inv, OrderInv, pos = 0, ran # <<>>
                PROVE  ran = Executed(executor_list)
    BY DEF WalkIsExecuted
  <2>1. Len(executor_list) \in Nat /\ ran \in Seq(Callbacks)
    BY LenProperties DEF Inv, ListType
  <2>2. CalledInOrder(executor_list, ran, Len(executor_list))
    BY DEF OrderInv
  <2>. QED BY <2>1, <2>2, InOrderIsExecuted
<1>. QED BY InvInvariant, InitOrder, NextOrder, <1>1, PTL DEF ActionSpec

=============================================================================
