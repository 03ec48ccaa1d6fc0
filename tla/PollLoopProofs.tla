--------------------------- MODULE PollLoopProofs ---------------------------
(***************************************************************************)
(* Proofs about PollLoop, for every set of descriptors and objects, every  *)
(* width of the counter and every bound on what a callback does.           *)
(***************************************************************************)
EXTENDS PollLoop, SequenceTheorems, FiniteSetTheorems, TLAPS

USE DEF Callbacks

-----------------------------------------------------------------------------
(* Lemmas about the operators of PollHandler.                              *)

(* RemoveAt, which delete_socket applies to both vectors, closes the gap.  *)
LEMMA RemoveAtFacts ==
    ASSUME NEW S, NEW s \in Seq(S), NEW i \in 1 .. Len(s)
    PROVE  /\ RemoveAt(s, i) \in Seq(S)
           /\ Len(RemoveAt(s, i)) = Len(s) - 1
           /\ \A j \in 1 .. Len(s) - 1 :
                 RemoveAt(s, i)[j] = IF j < i THEN s[j] ELSE s[j + 1]
<1> DEFINE left == SubSeq(s, 1, i - 1)
           right == SubSeq(s, i + 1, Len(s))
<1>1. /\ left \in Seq(S) /\ Len(left) = i - 1
      /\ \A j \in 1 .. i - 1 : left[j] = s[j]
  <2>1. \A j \in 1 .. i - 1 : s[j] \in S  BY LenProperties
  <2>2. 1 \in Int /\ i - 1 \in Int  OBVIOUS
  <2>3. QED BY <2>1, <2>2, SubSeqProperties, LenProperties
<1>2. /\ right \in Seq(S) /\ Len(right) = Len(s) - i
      /\ \A j \in 1 .. Len(s) - i : right[j] = s[i + j]
  <2>1. \A j \in i + 1 .. Len(s) : s[j] \in S  BY LenProperties
  <2>2. i + 1 \in Int /\ Len(s) \in Int  BY LenProperties
  <2>3. QED BY <2>1, <2>2, SubSeqProperties, LenProperties
<1> HIDE DEF left, right
<1> DEFINE both == left \o right
<1>3. /\ both \in Seq(S)
      /\ Len(both) = Len(left) + Len(right)
      /\ \A j \in 1 .. Len(left) + Len(right) :
            both[j] = IF j <= Len(left) THEN left[j] ELSE right[j - Len(left)]
  BY <1>1, <1>2, ConcatProperties
<1>4. RemoveAt(s, i) = both  BY DEF RemoveAt, left, right
<1> HIDE DEF both
<1>5. Len(s) \in Nat  BY LenProperties
<1>6. Len(left) + Len(right) = Len(s) - 1  BY <1>1, <1>2, <1>5
<1>7. ASSUME NEW j \in 1 .. Len(s) - 1
      PROVE  both[j] = IF j < i THEN s[j] ELSE s[j + 1]
  <2>1. CASE j < i
    <3>1. j <= Len(left) /\ j \in 1 .. i - 1  BY <1>1, <1>5, <2>1
    <3>2. both[j] = left[j]  BY <1>3, <1>6, <3>1
    <3>3. QED BY <1>1, <2>1, <3>1, <3>2
  <2>2. CASE ~(j < i)
    <3>1. both[j] = right[j - (i - 1)]
      <4>1. ~(j <= Len(left))  BY <1>1, <1>5, <2>2
      <4>2. QED BY <1>1, <1>3, <1>6, <4>1
    <3>2. j - (i - 1) \in 1 .. Len(s) - i  BY <1>5, <2>2
    <3>3. i + (j - (i - 1)) = j + 1  BY <1>5
    <3>4. QED BY <1>2, <2>2, <3>1, <3>2, <3>3
  <2>3. QED BY <2>1, <2>2
<1>8. QED BY <1>3, <1>4, <1>6, <1>7

(* std::find on a vector without duplicates finds the entry of a           *)
(* registered descriptor, and end() for any other.                         *)
LEMMA FindFacts ==
    ASSUME HandlerTypeOK, NEW fd,
           \A i, j \in Indexes : sockets[i].fd = sockets[j].fd => i = j
    PROVE  /\ Find(fd) \in 0 .. Len(sockets)
           /\ Find(fd) # 0 => sockets[Find(fd)].fd = fd
           /\ Find(fd) = 0 <=> fd \notin Registered
<1> DEFINE I == {i \in 1 .. Len(sockets) : sockets[i].fd = fd}
<1>1. Find(fd) = IF I # {} THEN Min(I) ELSE 0  BY DEF Find, SelectInSeq
<1>2. Len(sockets) \in Nat  BY LenProperties DEF HandlerTypeOK
<1>3. CASE I = {}
  BY <1>1, <1>2, <1>3 DEF Registered
<1>4. CASE I # {}
  <2>1. PICK k \in I : TRUE  BY <1>4
  <2>2. I = {k}  BY <2>1 DEF Indexes
  <2>3. Min({k}) = k  BY <2>1, <1>2 DEF Min
  <2>4. Find(fd) = k  BY <1>1, <2>2, <2>3
  <2>5. QED BY <2>1, <2>4, <1>2 DEF Registered
<1>5. QED BY <1>3, <1>4

-----------------------------------------------------------------------------
(* The operations of the handler keep its vectors typed and paired.        *)

HandlerInv == HandlerTypeOK /\ Paired

(* What HandlerInv says of the lengths and the entries of the vectors.     *)
LEMMA HandlerFacts ==
    ASSUME HandlerInv
    PROVE  /\ Len(sockets) \in Nat /\ Len(socket_ptrs) = Len(sockets)
           /\ \A i \in Indexes : sockets[i] \in PollFd /\ socket_ptrs[i] \in Ptrs
BY LenProperties, ElementOfSeq DEF HandlerInv, HandlerTypeOK, Paired, Indexes

(* ++invalid, the wraparound included.                                     *)
LEMMA BumpRefFacts ==
    ASSUME invalid \in Refs, BumpRef
    PROVE  /\ invalid' \in Refs
           /\ invalid' \in {invalid + 1, invalid + 1 - RefModulus}
BY RefModulusAssumption DEF BumpRef, Refs

(* add_socket puts one entry, of which nothing is reported, behind all.    *)
LEMMA AddSocketFacts ==
    ASSUME HandlerInv, NEW fd \in Fds, NEW ptr \in Ptrs, AddSocket(fd, ptr)
    PROVE  /\ Len(sockets') = Len(sockets) + 1 /\ Len(socket_ptrs') = Len(sockets) + 1
           /\ \A i \in Indexes :
                 sockets'[i] = sockets[i] /\ socket_ptrs'[i] = socket_ptrs[i]
           /\ sockets'[Len(sockets) + 1] =
                 [fd |-> fd, events |-> {"POLLIN"}, revents |-> {}]
           /\ socket_ptrs'[Len(sockets) + 1] = ptr
           /\ Indexes' = Indexes \cup {Len(sockets) + 1}
<1> DEFINE entry == [fd |-> fd, events |-> {"POLLIN"}, revents |-> {}]
<1>1. entry \in PollFd  BY FlagsAssumption DEF PollFd, Interests
<1>2. sockets' = Append(sockets, entry) /\ socket_ptrs' = Append(socket_ptrs, ptr)
  BY DEF AddSocket
<1> HIDE DEF entry
<1>3. /\ Len(sockets') = Len(sockets) + 1 /\ Len(socket_ptrs') = Len(sockets) + 1
      /\ \A i \in Indexes :
            sockets'[i] = sockets[i] /\ socket_ptrs'[i] = socket_ptrs[i]
      /\ sockets'[Len(sockets) + 1] = entry /\ socket_ptrs'[Len(sockets) + 1] = ptr
  BY <1>1, <1>2, HandlerFacts DEF HandlerInv, HandlerTypeOK, Indexes
<1>4. Indexes' = Indexes \cup {Len(sockets) + 1}  BY <1>3, HandlerFacts DEF Indexes
<1>5. QED BY <1>3, <1>4 DEF entry

(* add_socket appends to both vectors; the new descriptor is not a         *)
(* duplicate.                                                              *)
LEMMA AddSocketKeepsHandlerInv ==
    ASSUME HandlerInv, NEW fd \in Fds, NEW ptr \in Owners[fd],
           fd \notin Registered, AddSocket(fd, ptr)
    PROVE  HandlerInv'
<1> DEFINE entry == [fd |-> fd, events |-> {"POLLIN"}, revents |-> {}]
<1>1. entry \in PollFd  BY FlagsAssumption DEF PollFd, Interests
<1>2. ptr \in Ptrs  BY OwnersAssumption
<1>3. HandlerTypeOK'
  BY <1>1, <1>2, BumpRefFacts DEF HandlerInv, HandlerTypeOK, AddSocket
<1>4. /\ Len(sockets') = Len(sockets) + 1 /\ Len(socket_ptrs') = Len(sockets) + 1
      /\ \A i \in Indexes :
            sockets'[i] = sockets[i] /\ socket_ptrs'[i] = socket_ptrs[i]
      /\ sockets'[Len(sockets) + 1] = entry /\ socket_ptrs'[Len(sockets) + 1] = ptr
      /\ Indexes' = Indexes \cup {Len(sockets) + 1}
  BY <1>2, AddSocketFacts
<1> HIDE DEF entry
<1>5. entry.fd = fd  BY DEF entry
<1>6. \A i \in Indexes : sockets[i].fd # fd  BY DEF Registered, Indexes
<1>7. \A i \in Indexes' : i \in Indexes \/ i = Len(sockets) + 1
  BY <1>4
<1>8. ASSUME NEW i \in Indexes', NEW j \in Indexes', sockets'[i].fd = sockets'[j].fd
      PROVE  i = j
  BY <1>4, <1>5, <1>6, <1>7, <1>8 DEF HandlerInv, Paired, Indexes
<1>9. \A i \in Indexes' : socket_ptrs'[i] \in Owners[sockets'[i].fd]
  BY <1>4, <1>5, <1>7 DEF HandlerInv, Paired, Indexes
<1>10. QED BY <1>3, <1>4, <1>8, <1>9 DEF HandlerInv, Paired

(* delete_socket takes the entry of the descriptor out of both vectors, if *)
(* it finds one, and keeps every other.                                    *)
LEMMA DeleteSocketFacts ==
    ASSUME HandlerInv, NEW fd \in Fds, DeleteSocket(fd)
    PROVE  /\ fd \notin Registered => UNCHANGED <<sockets, socket_ptrs>>
           /\ \A j \in Indexes' : \E i \in Indexes :
                 sockets[i].fd # fd /\ sockets'[j] = sockets[i]
                                   /\ socket_ptrs'[j] = socket_ptrs[i]
           /\ \A i \in Indexes : sockets[i].fd # fd =>
                 \E j \in Indexes' : sockets'[j] = sockets[i]
                                    /\ socket_ptrs'[j] = socket_ptrs[i]
<1> DEFINE k == Find(fd)
<1>1. /\ k \in 0 .. Len(sockets)
      /\ k # 0 => sockets[k].fd = fd
      /\ k = 0 <=> fd \notin Registered
  BY FindFacts DEF HandlerInv, Paired
<1>2. CASE k = 0
  <2>1. sockets' = sockets /\ socket_ptrs' = socket_ptrs  BY <1>2 DEF DeleteSocket
  <2>2. \A i \in Indexes : sockets[i].fd # fd  BY <1>1, <1>2 DEF Registered, Indexes
  <2>3. QED BY <2>1, <2>2 DEF Indexes
<1>3. CASE k # 0
  <2> HIDE DEF k
  <2>1. k \in 1 .. Len(sockets) /\ k \in 1 .. Len(socket_ptrs)
    BY <1>1, <1>3, HandlerFacts
  <2>2. sockets' = RemoveAt(sockets, k) /\ socket_ptrs' = RemoveAt(socket_ptrs, k)
    BY <1>3 DEF DeleteSocket, k
  <2>3. /\ Len(sockets') = Len(sockets) - 1
        /\ \A j \in 1 .. Len(sockets) - 1 :
              sockets'[j] = IF j < k THEN sockets[j] ELSE sockets[j + 1]
    BY <2>1, <2>2, RemoveAtFacts DEF HandlerInv, HandlerTypeOK
  <2>4. \A j \in 1 .. Len(sockets) - 1 :
           socket_ptrs'[j] = IF j < k THEN socket_ptrs[j] ELSE socket_ptrs[j + 1]
    BY <2>1, <2>2, RemoveAtFacts, HandlerFacts DEF HandlerInv, HandlerTypeOK
  <2>5. Len(sockets) \in Nat  BY HandlerFacts
  <2>6. \A i \in Indexes : sockets[i].fd = fd <=> i = k
    BY <1>1, <1>3, <2>1 DEF HandlerInv, Paired, Indexes
  <2>7. ASSUME NEW j \in Indexes'
        PROVE  \E i \in Indexes : /\ i # k /\ sockets'[j] = sockets[i]
                                  /\ socket_ptrs'[j] = socket_ptrs[i]
    <3>1. CASE j < k  BY <2>1, <2>3, <2>4, <2>5, <3>1 DEF Indexes
    <3>2. CASE ~(j < k)
      <4>1. j + 1 \in Indexes /\ j + 1 # k  BY <2>1, <2>3, <2>5, <3>2 DEF Indexes
      <4>2. QED BY <2>3, <2>4, <3>2, <4>1 DEF Indexes
    <3>3. QED BY <3>1, <3>2
  <2>8. ASSUME NEW i \in Indexes, i # k
        PROVE  \E j \in Indexes' : sockets'[j] = sockets[i] /\ socket_ptrs'[j] = socket_ptrs[i]
    <3>1. CASE i < k  BY <2>1, <2>3, <2>4, <2>5, <3>1 DEF Indexes
    <3>2. CASE ~(i < k)
      <4>1. i - 1 \in Indexes' /\ ~(i - 1 < k) /\ (i - 1) + 1 = i
        BY <2>1, <2>3, <2>5, <2>8, <3>2 DEF Indexes
      <4>2. QED BY <2>3, <2>4, <4>1 DEF Indexes
    <3>3. QED BY <3>1, <3>2
  <2>9. fd \in Registered  BY <1>1, <1>3
  <2>10. QED BY <2>6, <2>7, <2>8, <2>9
<1>4. QED BY <1>2, <1>3

(* delete_socket closes the same gap in both vectors, or finds nothing.    *)
LEMMA DeleteSocketKeepsHandlerInv ==
    ASSUME HandlerInv, NEW fd \in Fds, DeleteSocket(fd)
    PROVE  HandlerInv'
<1> DEFINE k == Find(fd)
<1>1. invalid' \in Refs  BY BumpRefFacts DEF HandlerInv, HandlerTypeOK, DeleteSocket
<1>2. k \in 0 .. Len(sockets)  BY FindFacts DEF HandlerInv, Paired
<1>3. CASE k = 0
  <2>1. sockets' = sockets /\ socket_ptrs' = socket_ptrs  BY <1>3 DEF DeleteSocket
  <2>2. QED BY <1>1, <2>1 DEF HandlerInv, HandlerTypeOK, Paired, Indexes
<1>4. CASE k # 0
  <2> HIDE DEF k
  <2>1. k \in 1 .. Len(sockets) /\ k \in 1 .. Len(socket_ptrs)
    BY <1>2, <1>4, HandlerFacts
  <2>2. sockets' = RemoveAt(sockets, k) /\ socket_ptrs' = RemoveAt(socket_ptrs, k)
    BY <1>4 DEF DeleteSocket, k
  <2>3. /\ sockets' \in Seq(PollFd) /\ Len(sockets') = Len(sockets) - 1
        /\ \A j \in 1 .. Len(sockets) - 1 :
              sockets'[j] = IF j < k THEN sockets[j] ELSE sockets[j + 1]
    BY <2>1, <2>2, RemoveAtFacts DEF HandlerInv, HandlerTypeOK
  <2>4. /\ socket_ptrs' \in Seq(Ptrs) /\ Len(socket_ptrs') = Len(socket_ptrs) - 1
        /\ \A j \in 1 .. Len(socket_ptrs) - 1 :
              socket_ptrs'[j] = IF j < k THEN socket_ptrs[j] ELSE socket_ptrs[j + 1]
    BY <2>1, <2>2, RemoveAtFacts DEF HandlerInv, HandlerTypeOK
  <2>5. HandlerTypeOK'  BY <1>1, <2>3, <2>4 DEF HandlerTypeOK
  <2> DEFINE old(j) == IF j < k THEN j ELSE j + 1
  <2>6. \A j \in Indexes' : /\ old(j) \in Indexes
                            /\ sockets'[j] = sockets[old(j)]
                            /\ socket_ptrs'[j] = socket_ptrs[old(j)]
    BY <2>1, <2>3, <2>4, HandlerFacts DEF Indexes
  <2>7. \A i, j \in Indexes' : old(i) = old(j) => i = j
    BY <2>1, <2>3, HandlerFacts DEF Indexes
  <2> HIDE DEF old
  <2>8. Paired'
    BY <2>3, <2>4, <2>6, <2>7, HandlerFacts DEF HandlerInv, Paired
  <2>9. QED BY <2>5, <2>8 DEF HandlerInv
<1>5. QED BY <1>3, <1>4

(* Whatever only rewrites the events or revents of entries.                *)
LEMMA RewriteKeepsHandlerInv ==
    ASSUME HandlerInv, UNCHANGED <<socket_ptrs, invalid>>,
           sockets' \in Seq(PollFd), Len(sockets') = Len(sockets),
           \A i \in Indexes : sockets'[i].fd = sockets[i].fd
    PROVE  HandlerInv'
BY DEF HandlerInv, HandlerTypeOK, Paired, Indexes

-----------------------------------------------------------------------------
(* The inductive invariant of the loop.                                    *)

(* The counter is ahead of handler_ref by the changes of the callback that *)
(* runs, modulo RefModulus; outside of callbacks there are none.           *)
CountingInv ==
    /\ pc \in Callbacks =>
          invalid \in {handler_ref + changes, handler_ref + changes - RefModulus}
    /\ pc \notin Callbacks => changes = 0
    /\ cycle.changed => pc \in Callbacks /\ changes > 0

(* Until the callback makes a change the iterator stands on its entry.     *)
CursorInv ==
    /\ pc # "idle" => it >= 1
    /\ pc \in Callbacks /\ changes = 0 =>
          it \in Indexes /\ sockets[it].fd = cur.fd /\ socket_ptrs[it] = cur.ptr

(* During a call whose poll(2) succeeded the vector holds no flag that was *)
(* not reported by it, whatever callbacks add and delete.                  *)
FreshInv ==
    /\ pc = "idle" => cycle = NoCycle
    /\ pc # "idle" /\ ~cycle.failed =>
          \A i \in Indexes : \A flag \in sockets[i].revents :
              <<sockets[i].fd, flag>> \in cycle.reported
    /\ FreshEvents

IInv == TypeOK /\ Paired /\ CountingInv /\ CursorInv /\ FreshInv

(* A new handler, whose counter starts anywhere, that is not being polled. *)
LEMMA InitIInv == Init => IInv
<1> SUFFICES ASSUME Init PROVE IInv  OBVIOUS
<1> USE DEF Init, HandlerInit
<1>1. TypeOK
  BY RefModulusAssumption, MaxHookChangesAssumption
     DEF TypeOK, HandlerTypeOK, Refs, Cycles, NoCycle
<1>2. Paired  BY DEF Paired, Indexes
<1>3. CountingInv /\ CursorInv  BY DEF CountingInv, CursorInv, NoCycle
<1>4. FreshInv  BY DEF FreshInv, FreshEvents, NoCycle
<1>5. QED BY <1>1, <1>2, <1>3, <1>4 DEF IInv

(* ref_has_changed() counts modulo RefModulus, and a callback makes fewer  *)
(* changes than that.                                                      *)
LEMMA IInvRefTracksChanges == IInv => RefTracksChanges
BY RefModulusAssumption, MaxHookChangesAssumption
   DEF IInv, TypeOK, HandlerTypeOK, CountingInv, RefTracksChanges, RefHasChanged, Refs

-----------------------------------------------------------------------------
(* The pieces the steps of the loop are made of.                           *)

(* events::poll returns.                                                   *)
LEMMA LeaveKeepsIInv ==
    ASSUME IInv, Leave
    PROVE  IInv'
<1> USE DEF Leave, handlerVars
<1>1. TypeOK'
  BY RefModulusAssumption, MaxHookChangesAssumption
     DEF IInv, TypeOK, HandlerTypeOK, Refs, Cycles, NoCycle
<1>2. Paired'  BY DEF IInv, Paired, Indexes
<1>3. CountingInv' /\ CursorInv'  BY DEF CountingInv, CursorInv, NoCycle
<1>4. FreshInv'  BY DEF FreshInv, FreshEvents, NoCycle
<1>5. QED BY <1>1, <1>2, <1>3, <1>4 DEF IInv

(* on_readable() or on_writeable() starts, in an iteration nothing         *)
(* disturbed so far.                                                       *)
LEMMA CallKeepsIInv ==
    ASSUME IInv, NEW event \in Interests, Call(event, invalid),
           pc # "idle", changes = 0, it \in Indexes, event \in sockets[it].revents
    PROVE  IInv'
<1> USE DEF Call, handlerVars
<1>1. /\ sockets[it].fd \in Fds /\ socket_ptrs[it] \in Ptrs
      /\ event \in Flags
  BY HandlerFacts DEF IInv, TypeOK, HandlerInv, PollFd, Interests
<1>2. TypeOK'
  <2>1. HandlerTypeOK'  BY DEF IInv, TypeOK, HandlerTypeOK
  <2>2. cur' \in Calls  BY <1>1 DEF Calls
  <2>3. cycle' \in Cycles  BY <1>1 DEF IInv, TypeOK, Cycles, Events
  <2>4. handler_ref' \in Refs  BY DEF IInv, TypeOK, HandlerTypeOK
  <2>5. QED BY <2>1, <2>2, <2>3, <2>4 DEF IInv, TypeOK
<1>3. Paired'  BY DEF IInv, Paired, Indexes
<1>4. CountingInv'
  BY DEF IInv, TypeOK, HandlerTypeOK, CountingInv, Refs, Cycles
<1>5. CursorInv'  BY DEF IInv, CursorInv, Indexes
<1>6. FreshInv'
  <2>1. /\ cycle'.failed = cycle.failed /\ cycle'.reported = cycle.reported
        /\ cycle'.delivered = cycle.delivered \cup {<<sockets[it].fd, event>>}
    BY DEF IInv, TypeOK, Cycles
  <2>2. pc' # "idle"  OBVIOUS
  <2>3. QED BY <2>1, <2>2 DEF IInv, FreshInv, FreshEvents, Indexes
<1>7. QED BY <1>2, <1>3, <1>4, <1>5, <1>6 DEF IInv

(* An iteration ends, by break or with ++it.                               *)
LEMMA EndIterationKeepsIInv ==
    ASSUME IInv, NEW ref \in Refs, EndIteration(ref), pc # "idle",
           changes > 0 => RefHasChanged(ref)
    PROVE  IInv'
<1>1. CASE Leave  BY <1>1, LeaveKeepsIInv
<1>2. CASE ~Leave
  <2>1. /\ pc' = "scan" /\ it' = it + 1 /\ n_changes' = n_changes - 1
        /\ handler_ref' = ref /\ cur' = NoCall /\ changes' = 0
        /\ UNCHANGED <<handlerVars, cycle>> /\ ~RefHasChanged(ref)
    BY <1>2 DEF EndIteration
  <2>2. changes = 0 /\ ~cycle.changed
    BY <2>1 DEF IInv, TypeOK, CountingInv
  <2>3. TypeOK'
    BY <2>1 DEF IInv, TypeOK, HandlerTypeOK, handlerVars
  <2>4. Paired'  BY <2>1 DEF IInv, Paired, Indexes, handlerVars
  <2>5. CountingInv' /\ CursorInv'
    BY <2>1, <2>2 DEF IInv, TypeOK, CountingInv, CursorInv
  <2>6. FreshInv'
    BY <2>1 DEF IInv, FreshInv, FreshEvents, Indexes, handlerVars
  <2>7. QED BY <2>3, <2>4, <2>5, <2>6 DEF IInv
<1>3. QED BY <1>1, <1>2

-----------------------------------------------------------------------------
(* Every step keeps the invariant.                                         *)

(* A structural change, wherever user code runs.                           *)
LEMMA CountChangeFacts ==
    ASSUME IInv, UserCode, CountChange, BumpRef,
           UNCHANGED <<pc, it, handler_ref, n_changes, cur>>
    PROVE  /\ changes' \in 0 .. MaxHookChanges /\ cycle' \in Cycles
           /\ cycle'.failed = cycle.failed /\ cycle'.reported = cycle.reported
           /\ cycle'.delivered = cycle.delivered
           /\ pc = "idle" => cycle' = cycle
           /\ CountingInv' /\ CursorInv'
<1>1. invalid' \in {invalid + 1, invalid + 1 - RefModulus}
  BY BumpRefFacts DEF IInv, TypeOK, HandlerTypeOK
<1>2. /\ changes \in Nat /\ changes <= MaxHookChanges /\ handler_ref \in Int
      /\ invalid \in Int /\ invalid < RefModulus /\ RefModulus \in Nat
      /\ MaxHookChanges \in Nat /\ MaxHookChanges < RefModulus /\ cycle \in Cycles
  BY RefModulusAssumption, MaxHookChangesAssumption
     DEF IInv, TypeOK, HandlerTypeOK, Refs
<1>3. CASE pc = "idle"
  <2>1. changes' = changes /\ cycle' = cycle /\ pc' = "idle"
    BY <1>3 DEF CountChange
  <2>2. changes = 0 /\ ~cycle.changed
    BY <1>3 DEF IInv, CountingInv
  <2>3. QED BY <1>2, <2>1, <2>2 DEF CountingInv, CursorInv
<1>4. CASE pc # "idle"
  <2>1. /\ pc \in Callbacks /\ pc' = pc
        /\ changes < MaxHookChanges /\ changes' = changes + 1
        /\ cycle' = [cycle EXCEPT !.changed = TRUE]
    BY <1>4 DEF CountChange
  <2>2. /\ cycle' \in Cycles
        /\ cycle'.failed = cycle.failed /\ cycle'.reported = cycle.reported
        /\ cycle'.delivered = cycle.delivered
    BY <1>2, <2>1 DEF Cycles
  <2>3. invalid \in {handler_ref + changes, handler_ref + changes - RefModulus}
    BY <2>1 DEF IInv, CountingInv
  <2>4. 0 <= invalid' /\ invalid' < RefModulus /\ handler_ref >= 0 /\ handler_ref < RefModulus
    BY BumpRefFacts, <1>2 DEF IInv, TypeOK, HandlerTypeOK, Refs
  <2>5. invalid' \in {handler_ref + changes', handler_ref + changes' - RefModulus}
    BY <1>1, <1>2, <2>1, <2>3, <2>4
  <2>6. CountingInv'  BY <1>2, <2>1, <2>5 DEF CountingInv
  <2>7. CursorInv'  BY <1>2, <2>1 DEF IInv, CursorInv
  <2>8. QED BY <1>2, <1>4, <2>1, <2>2, <2>6, <2>7
<1>5. QED BY <1>3, <1>4

(* add_socket, called by the application or by a callback.                 *)
LEMMA AddKeepsIInv ==
    ASSUME IInv, NEW fd \in Fds, NEW ptr \in Owners[fd], Add(fd, ptr)
    PROVE  IInv'
<1> USE DEF Add
<1>1. HandlerInv'
  BY AddSocketKeepsHandlerInv DEF IInv, TypeOK, HandlerInv
<1>2. /\ changes' \in 0 .. MaxHookChanges /\ cycle' \in Cycles
      /\ cycle'.failed = cycle.failed /\ cycle'.reported = cycle.reported
      /\ cycle'.delivered = cycle.delivered
      /\ pc = "idle" => cycle' = cycle
      /\ CountingInv' /\ CursorInv'
  BY CountChangeFacts DEF AddSocket
<1>3. TypeOK'
  BY <1>1, <1>2 DEF IInv, TypeOK, HandlerInv
<1>4. FreshInv'
  <2> DEFINE entry == [fd |-> fd, events |-> {"POLLIN"}, revents |-> {}]
  <2>1. entry \in PollFd /\ entry.revents = {}
    BY FlagsAssumption DEF PollFd, Interests
  <2>2. \A i \in Indexes' : \/ i \in Indexes /\ sockets'[i] = sockets[i]
                            \/ sockets'[i] = entry
    BY HandlerFacts DEF IInv, TypeOK, HandlerInv, HandlerTypeOK, AddSocket, Indexes
  <2> HIDE DEF entry
  <2>3. QED BY <1>2, <2>1, <2>2 DEF IInv, FreshInv, FreshEvents
<1>5. QED BY <1>1, <1>2, <1>3, <1>4 DEF IInv, HandlerInv

(* delete_socket, called by the application or by a callback.              *)
LEMMA DeleteKeepsIInv ==
    ASSUME IInv, NEW fd \in Fds, Delete(fd)
    PROVE  IInv'
<1> USE DEF Delete
<1>1. HandlerInv'
  BY DeleteSocketKeepsHandlerInv DEF IInv, TypeOK, HandlerInv
<1>2. /\ changes' \in 0 .. MaxHookChanges /\ cycle' \in Cycles
      /\ cycle'.failed = cycle.failed /\ cycle'.reported = cycle.reported
      /\ cycle'.delivered = cycle.delivered
      /\ pc = "idle" => cycle' = cycle
      /\ CountingInv' /\ CursorInv'
  BY CountChangeFacts DEF DeleteSocket
<1>3. TypeOK'
  BY <1>1, <1>2 DEF IInv, TypeOK, HandlerInv
<1>4. FreshInv'
  <2>1. \A i \in Indexes' : \E j \in Indexes : sockets'[i] = sockets[j]
    BY DeleteSocketFacts DEF IInv, TypeOK, HandlerInv
  <2>2. QED BY <1>2, <2>1 DEF IInv, FreshInv, FreshEvents
<1>5. QED BY <1>1, <1>2, <1>3, <1>4 DEF IInv, HandlerInv

(* socket_want_read and socket_want_write rewrite the events of an entry.  *)
LEMMA WantFacts ==
    ASSUME HandlerInv, NEW fd \in Fds, NEW active \in BOOLEAN, Want(fd, active)
    PROVE  /\ UNCHANGED <<socket_ptrs, invalid, loopVars>>
           /\ sockets' \in Seq(PollFd) /\ Len(sockets') = Len(sockets)
           /\ \A i \in Indexes : /\ sockets'[i].fd = sockets[i].fd
                                 /\ sockets'[i].revents = sockets[i].revents
                                 /\ sockets[i].fd # fd => sockets'[i] = sockets[i]
<1> DEFINE k == Find(fd)
<1>1. PICK flag \in Interests : SetInterest(fd, flag, active)
  BY FlagsAssumption DEF Want, SocketWantRead, SocketWantWrite, Interests
<1>2. k \in 0 .. Len(sockets) /\ (k # 0 => sockets[k].fd = fd)
  BY FindFacts DEF HandlerInv, Paired
<1> DEFINE new == IF active THEN sockets[k].events \cup {flag}
                            ELSE sockets[k].events \ {flag}
<1>3. k # 0 => sockets' = [sockets EXCEPT ![k] = [sockets[k] EXCEPT !.events = new]]
  BY <1>1 DEF SetInterest
<1>4. k = 0 => sockets' = sockets
  BY <1>1 DEF SetInterest
<1>5. UNCHANGED <<socket_ptrs, invalid, loopVars>>
  BY <1>1 DEF SetInterest, Want
<1> HIDE DEF k
<1>6. Len(sockets) \in Nat /\ \A i \in Indexes : sockets[i] \in PollFd
  BY HandlerFacts
<1>7. k # 0 => new \in SUBSET Interests
  BY <1>2, <1>6 DEF Indexes, PollFd
<1> HIDE DEF new
<1>8. CASE k = 0  BY <1>4, <1>5, <1>8 DEF HandlerInv, HandlerTypeOK
<1>9. CASE k # 0
  <2> DEFINE entry == [sockets[k] EXCEPT !.events = new]
  <2>1. k \in 1 .. Len(sockets) /\ sockets[k] \in PollFd
    BY <1>2, <1>6, <1>9 DEF Indexes
  <2>2. entry \in PollFd /\ entry.fd = sockets[k].fd /\ entry.revents = sockets[k].revents
    BY <1>7, <1>9, <2>1 DEF PollFd
  <2> HIDE DEF entry
  <2>3. sockets' = [sockets EXCEPT ![k] = entry]  BY <1>3, <1>9 DEF entry
  <2>4. /\ sockets' \in Seq(PollFd) /\ Len(sockets') = Len(sockets)
        /\ \A i \in Indexes : sockets'[i] = IF i = k THEN entry ELSE sockets[i]
    BY <2>1, <2>2, <2>3, ExceptSeq DEF HandlerInv, HandlerTypeOK, Indexes
  <2>5. QED BY <1>2, <1>5, <1>9, <2>1, <2>2, <2>4 DEF Indexes
<1>10. QED BY <1>8, <1>9

(* They keep the invariant, wherever they are called.                      *)
LEMMA WantKeepsIInv ==
    ASSUME IInv, NEW fd \in Fds, NEW active \in BOOLEAN, Want(fd, active)
    PROVE  IInv'
<1>1. HandlerInv  BY DEF IInv, TypeOK, HandlerInv
<1>2. /\ UNCHANGED <<socket_ptrs, invalid, loopVars>>
      /\ sockets' \in Seq(PollFd) /\ Len(sockets') = Len(sockets)
      /\ \A i \in Indexes : /\ sockets'[i].fd = sockets[i].fd
                            /\ sockets'[i].revents = sockets[i].revents
  BY <1>1, WantFacts
<1>3. HandlerInv'
  BY <1>1, <1>2, RewriteKeepsHandlerInv
<1>4. Indexes' = Indexes  BY <1>2 DEF Indexes
<1>5. TypeOK' /\ CountingInv'
  BY <1>2, <1>3 DEF IInv, TypeOK, HandlerInv, loopVars, CountingInv
<1>6. CursorInv' /\ FreshInv'
  BY <1>2, <1>4 DEF IInv, loopVars, CursorInv, FreshInv, FreshEvents
<1>7. QED BY <1>3, <1>5, <1>6 DEF IInv, HandlerInv

(* A vector whose revents were rewritten by poll(2).                       *)
LEMMA WithReventsFacts ==
    ASSUME IInv, NEW revents \in [Indexes -> SUBSET Flags],
           sockets' = WithRevents(revents), UNCHANGED <<socket_ptrs, invalid>>
    PROVE  /\ HandlerInv' /\ Indexes' = Indexes
           /\ \A i \in Indexes : /\ sockets'[i].fd = sockets[i].fd
                                 /\ sockets'[i].events = sockets[i].events
                                 /\ sockets'[i].revents = revents[i]
<1>1. Len(sockets) \in Nat /\ \A i \in Indexes : sockets[i] \in PollFd
  BY HandlerFacts DEF IInv, TypeOK, HandlerInv
<1> DEFINE entry(i) == [sockets[i] EXCEPT !.revents = revents[i]]
<1>2. \A i \in Indexes : /\ entry(i) \in PollFd
                         /\ entry(i).fd = sockets[i].fd
                         /\ entry(i).events = sockets[i].events
                         /\ entry(i).revents = revents[i]
  BY <1>1 DEF PollFd
<1>3. sockets' = [i \in 1 .. Len(sockets) |-> entry(i)]  BY DEF WithRevents, Indexes
<1> HIDE DEF entry
<1>4. sockets' \in Seq(PollFd) /\ Len(sockets') = Len(sockets)
  BY <1>1, <1>2, <1>3 DEF Indexes
<1>5. \A i \in Indexes : sockets'[i] = entry(i)  BY <1>3 DEF Indexes
<1>6. HandlerInv'
  BY <1>2, <1>4, <1>5, RewriteKeepsHandlerInv DEF IInv, TypeOK, HandlerInv
<1>7. QED BY <1>2, <1>4, <1>5, <1>6 DEF Indexes

(* poll(2) has returned, n is its result.                                  *)
LEMMA StartLoopKeepsIInv ==
    ASSUME IInv, NEW n \in Int, pc = "idle", StartLoop(n),
           NEW revents \in [Indexes -> SUBSET Flags], sockets' = WithRevents(revents),
           cycle' \in Cycles, cycle'.delivered = {}, ~cycle'.changed,
           cycle'.failed \/ \A i \in Indexes : \A flag \in revents[i] :
                               <<sockets[i].fd, flag>> \in cycle'.reported
    PROVE  IInv'
<1> USE DEF StartLoop
<1>1. /\ HandlerInv' /\ Indexes' = Indexes
      /\ \A i \in Indexes : /\ sockets'[i].fd = sockets[i].fd
                            /\ sockets'[i].revents = revents[i]
  BY WithReventsFacts
<1>2. TypeOK'  BY <1>1 DEF IInv, TypeOK, HandlerInv
<1>3. CountingInv' /\ CursorInv'  BY DEF IInv, CountingInv, CursorInv
<1>4. FreshInv'  BY <1>1 DEF FreshInv, FreshEvents
<1>5. QED BY <1>1, <1>2, <1>3, <1>4 DEF IInv, HandlerInv

(* poll(2) succeeds: it writes down in the vector what it reports.         *)
LEMMA PollReturnsKeepsIInv == IInv /\ PollReturns => IInv'
<1> SUFFICES ASSUME IInv, PollReturns PROVE IInv'  OBVIOUS
<1>1. PICK revents \in [Indexes -> SUBSET Flags] :
         /\ sockets' = WithRevents(revents)
         /\ StartLoop(Cardinality({i \in Indexes : revents[i] # {}}))
         /\ cycle' = [NoCycle EXCEPT !.reported =
                        {e \in Events : \E i \in Indexes :
                            sockets[i].fd = e[1] /\ e[2] \in revents[i]}]
  BY DEF PollReturns
<1>2. pc = "idle"  BY DEF PollReturns
<1> DEFINE reported == {e \in Events : \E i \in Indexes :
                            sockets[i].fd = e[1] /\ e[2] \in revents[i]}
<1>3. /\ cycle' \in Cycles /\ cycle'.delivered = {} /\ ~cycle'.changed
      /\ cycle'.reported = reported
  <2>1. reported \in SUBSET Events  OBVIOUS
  <2> HIDE DEF reported
  <2>2. cycle' = [NoCycle EXCEPT !.reported = reported]  BY <1>1 DEF reported
  <2>3. QED BY <2>1, <2>2 DEF Cycles, NoCycle
<1>4. \A i \in Indexes : \A flag \in revents[i] : <<sockets[i].fd, flag>> \in reported
  <2>1. \A i \in Indexes : sockets[i].fd \in Fds
    BY HandlerFacts DEF IInv, TypeOK, HandlerInv, PollFd
  <2>2. QED BY <2>1 DEF Events
<1>5. Cardinality({i \in Indexes : revents[i] # {}}) \in Int
  <2>1. IsFiniteSet(Indexes)
    BY HandlerFacts, FS_Interval DEF IInv, TypeOK, HandlerInv, Indexes
  <2>2. IsFiniteSet({i \in Indexes : revents[i] # {}})  BY <2>1, FS_Subset
  <2>3. QED BY <2>2, FS_CardinalityType
<1>6. QED
  BY <1>1, <1>2, <1>3, <1>4, <1>5, StartLoopKeepsIInv

(* poll(2) fails: the loop runs over old revents, or none.                 *)
LEMMA PollFailsKeepsIInv == IInv /\ PollFails => IInv'
<1> SUFFICES ASSUME IInv, PollFails PROVE IInv'  OBVIOUS
<1>1. /\ pc = "idle" /\ StartLoop(-1) /\ cycle' = [NoCycle EXCEPT !.failed = TRUE]
      /\ sockets' \in {sockets, WithRevents([i \in Indexes |-> {}])}
  BY DEF PollFails
<1>2. /\ cycle' \in Cycles /\ cycle'.delivered = {} /\ ~cycle'.changed /\ cycle'.failed
  BY <1>1 DEF Cycles, NoCycle
<1> DEFINE none == [i \in Indexes |-> {}]
<1>3. CASE sockets' = WithRevents(none)
  <2>1. none \in [Indexes -> SUBSET Flags]  OBVIOUS
  <2> HIDE DEF none
  <2>2. -1 \in Int  OBVIOUS
  <2>3. QED BY <1>1, <1>2, <1>3, <2>1, <2>2, StartLoopKeepsIInv
<1>4. CASE sockets' = sockets
  <2>1. TypeOK'  BY <1>1, <1>2, <1>4 DEF IInv, TypeOK, HandlerTypeOK, StartLoop
  <2>2. Paired'  BY <1>1, <1>4 DEF IInv, Paired, Indexes, StartLoop
  <2>3. CountingInv' /\ CursorInv'
    BY <1>1, <1>2 DEF IInv, CountingInv, CursorInv, StartLoop
  <2>4. FreshInv'  BY <1>1, <1>2 DEF FreshInv, FreshEvents, StartLoop
  <2>5. QED BY <2>1, <2>2, <2>3, <2>4 DEF IInv
<1>5. QED BY <1>1, <1>3, <1>4

(* The loop looks at an entry, or at end().                                *)
LEMMA ScanKeepsIInv == IInv /\ Scan => IInv'
<1> SUFFICES ASSUME IInv, Scan PROVE IInv'  OBVIOUS
<1>1. pc = "scan" /\ changes = 0
  BY DEF IInv, CountingInv, Scan, ScanEnd, ScanSkip, ScanRead, ScanWrite, ScanError, AtEntry
<1>2. invalid \in Refs /\ ~RefHasChanged(invalid)
  BY DEF IInv, TypeOK, HandlerTypeOK, RefHasChanged
<1>3. AtEntry => it \in Indexes /\ sockets[it].revents \subseteq Flags
  BY <1>1, HandlerFacts
     DEF IInv, TypeOK, HandlerInv, CursorInv, AtEntry, Indexes, PollFd
<1>4. CASE ScanEnd  BY <1>4, LeaveKeepsIInv DEF ScanEnd
<1>5. CASE ScanSkip
  <2>1. TypeOK' /\ Paired'
    BY <1>2, <1>5 DEF ScanSkip, IInv, TypeOK, HandlerTypeOK, Paired, Indexes, handlerVars
  <2>2. CountingInv' /\ CursorInv'
    BY <1>1, <1>5 DEF ScanSkip, IInv, TypeOK, CountingInv, CursorInv
  <2>3. FreshInv'
    BY <1>5 DEF ScanSkip, IInv, FreshInv, FreshEvents, Indexes, handlerVars
  <2>4. QED BY <2>1, <2>2, <2>3 DEF IInv
<1>6. CASE ScanRead
  <2>1. "POLLIN" \in Interests  BY FlagsAssumption DEF Interests
  <2>2. QED BY <1>1, <1>3, <1>6, <2>1, CallKeepsIInv DEF ScanRead
<1>7. CASE ScanWrite
  <2>1. "POLLOUT" \in Interests  BY <1>3, <1>7 DEF Interests, ScanWrite
  <2>2. QED BY <1>1, <1>3, <1>7, <2>1, CallKeepsIInv DEF ScanWrite
<1>8. CASE ScanError
  BY <1>1, <1>2, <1>8, EndIterationKeepsIInv DEF ScanError
<1>9. QED BY <1>4, <1>5, <1>6, <1>7, <1>8 DEF Scan

(* A callback returns to the loop, which breaks if its reference changed.  *)
LEMMA CallbackReturnsKeepsIInv == IInv /\ (ReadReturns \/ WriteReturns) => IInv'
<1> SUFFICES ASSUME IInv, ReadReturns \/ WriteReturns PROVE IInv'  OBVIOUS
<1>1. pc \in Callbacks  BY DEF ReadReturns, WriteReturns
<1>2. RefHasChanged(handler_ref) <=> changes > 0
  BY <1>1, IInvRefTracksChanges DEF RefTracksChanges
<1>3. handler_ref \in Refs /\ changes \in Nat
  BY MaxHookChangesAssumption DEF IInv, TypeOK
<1>4. CASE EndIteration(handler_ref)
  BY <1>1, <1>2, <1>3, <1>4, EndIterationKeepsIInv
<1>5. CASE Leave  BY <1>5, LeaveKeepsIInv
<1>6. CASE /\ ~RefHasChanged(handler_ref) /\ "POLLOUT" \in sockets[it].revents
           /\ Call("POLLOUT", handler_ref)
  <2>1. changes = 0 /\ handler_ref = invalid
    BY <1>2, <1>3, <1>6 DEF RefHasChanged
  <2>2. it \in Indexes  BY <1>1, <2>1 DEF IInv, CursorInv
  <2>3. "POLLOUT" \in Interests
    BY <1>6, <2>2, HandlerFacts DEF IInv, TypeOK, HandlerInv, PollFd, Interests
  <2>4. QED BY <1>1, <1>6, <2>1, <2>2, <2>3, CallKeepsIInv
<1>7. QED BY <1>4, <1>5, <1>6 DEF ReadReturns, WriteReturns

(* Every step of PollLoop keeps the invariant.                             *)
LEMMA NextKeepsIInv == IInv /\ [Next]_vars => IInv'
<1> SUFFICES ASSUME IInv, [Next]_vars PROVE IInv'  OBVIOUS
<1>1. CASE UserStep
  BY <1>1, AddKeepsIInv, DeleteKeepsIInv, WantKeepsIInv DEF UserStep
<1>2. CASE PollReturns \/ PollFails
  BY <1>2, PollReturnsKeepsIInv, PollFailsKeepsIInv
<1>3. CASE LoopStep
  BY <1>3, ScanKeepsIInv, CallbackReturnsKeepsIInv DEF LoopStep
<1>4. CASE UNCHANGED vars
  BY <1>4 DEF vars, handlerVars, loopVars, IInv, TypeOK, HandlerTypeOK, Paired, Indexes,
              CountingInv, CursorInv, FreshInv, FreshEvents
<1>5. QED BY <1>1, <1>2, <1>3, <1>4 DEF Next

-----------------------------------------------------------------------------
(* The theorems.                                                           *)

(* The invariant holds in every state of every execution.                  *)
LEMMA IInvInvariant == Spec => []IInv
BY InitIInv, NextKeepsIInv, PTL DEF Spec

(* The vectors, the iterator and the counter of events::poll keep their    *)
(* types whatever callbacks do to the handler.                             *)
THEOREM TypeCorrect == Spec => []TypeOK
BY IInvInvariant, PTL DEF IInv

(* add_socket and delete_socket keep sockets and socket_ptrs paired.       *)
THEOREM VectorsPaired == Spec => []Paired
BY IInvInvariant, PTL DEF IInv

(* ref_has_changed() answers exactly whether the callback added or deleted *)
(* a descriptor, from any start of the counter, as long as a callback      *)
(* makes fewer changes than the counter has values.                        *)
THEOREM RefIsExact == Spec => []RefTracksChanges
BY IInvInvariant, IInvRefTracksChanges, PTL

(* While ref_has_changed() answers no, poll_impl may go on using its       *)
(* iterator and the index computed from it.                                *)
THEOREM CursorIsStable == Spec => []CursorStable
<1>1. IInv => CursorStable
  <2> SUFFICES ASSUME IInv, pc \in Callbacks, ~RefHasChanged(handler_ref)
               PROVE  /\ it \in Indexes
                      /\ sockets[it].fd = cur.fd /\ socket_ptrs[it] = cur.ptr
    BY DEF CursorStable
  <2>1. changes = 0
    BY IInvRefTracksChanges, MaxHookChangesAssumption DEF RefTracksChanges, IInv, TypeOK
  <2>2. QED BY <2>1 DEF IInv, CursorInv
<1>2. QED BY <1>1, IInvInvariant, PTL

(* A callback only runs for an event the poll(2) of this call reported for *)
(* its descriptor, unless poll(2) failed.                                  *)
THEOREM EventsAreFresh == Spec => []FreshEvents
<1>1. IInv => FreshEvents  BY DEF IInv, FreshInv
<1>2. QED BY <1>1, IInvInvariant, PTL

(* After a callback added or deleted a descriptor this call of             *)
(* events::poll makes no further callback.                                 *)
THEOREM ChangesEndTheCycle == Spec => ChangeEndsCycle
<1>1. IInv /\ [Next]_vars => [cycle.changed => cycle'.delivered \subseteq cycle.delivered]_vars
  <2> SUFFICES ASSUME IInv, Next, cycle.changed
               PROVE  cycle'.delivered \subseteq cycle.delivered
    OBVIOUS
  <2>1. pc \in Callbacks /\ RefHasChanged(handler_ref)
    BY IInvRefTracksChanges DEF IInv, CountingInv, RefTracksChanges
  <2>2. CASE UserStep
    <3>1. cycle' = cycle \/ CountChange  BY <2>2 DEF UserStep, Add, Delete, Want, loopVars
    <3>2. cycle \in Cycles  BY DEF IInv, TypeOK
    <3>3. QED BY <3>1, <3>2 DEF CountChange, Cycles
  <2>3. CASE LoopStep
    <3>1. Leave
      BY <2>1, <2>3 DEF LoopStep, Scan, ScanEnd, ScanSkip, ScanRead, ScanWrite, ScanError,
                        AtEntry, ReadReturns, WriteReturns, EndIteration
    <3>2. QED BY <3>1 DEF Leave, NoCycle
  <2>4. CASE PollReturns \/ PollFails  BY <2>1, <2>4 DEF PollReturns, PollFails
  <2>5. QED BY <2>2, <2>3, <2>4 DEF Next
<1>2. QED BY <1>1, IInvInvariant, PTL DEF Spec, ChangeEndsCycle

=============================================================================
