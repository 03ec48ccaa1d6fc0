--------------------------- MODULE DispatchProofs ---------------------------
(***************************************************************************)
(* PollLoop implements EventDispatch, for every set of descriptors and     *)
(* objects, every width of the counter and every bound on what a callback  *)
(* does; and what the walk over the vector delivers in one call of         *)
(* events::poll.                                                           *)
(***************************************************************************)
EXTENDS PollLoopProofs

USE DEF Callbacks

-----------------------------------------------------------------------------
(* What the walk has delivered, as far as no callback added or deleted a   *)
(* descriptor.                                                             *)

(* cur is the callback that runs, and a callback that made a change is     *)
(* written down as such.                                                   *)
CallInv ==
    /\ cur = NoCall <=> pc \notin Callbacks
    /\ pc = "in_cb" => cur.event = "POLLIN"
    /\ pc = "out_cb" => cur.event = "POLLOUT"
    /\ changes > 0 => cycle.changed

(* The entries the iterator has not come to.                               *)
Due(i) == IF pc = "scan" THEN i >= it ELSE i > it

(* Nothing was delivered yet of the entries to come, nor, while            *)
(* on_readable() runs, the POLLOUT of its entry.                           *)
UndeliveredInv ==
    pc # "idle" /\ changes = 0 =>
        /\ \A i \in Indexes : Due(i) =>
              \A e \in cycle.delivered : e[1] # sockets[i].fd
        /\ pc = "in_cb" => <<cur.fd, "POLLOUT">> \notin cycle.delivered

(* Everything was delivered of the entries passed, and of the one whose    *)
(* callback runs what comes up to that callback.                           *)
DeliveredInv ==
    pc # "idle" /\ changes = 0 =>
        /\ \A i \in Indexes : i < it =>
              \A event \in sockets[i].revents \cap Interests :
                  <<sockets[i].fd, event>> \in cycle.delivered
        /\ pc \in Callbacks => sockets[it].revents # {}
        /\ pc = "in_cb" => <<cur.fd, "POLLIN">> \in cycle.delivered
        /\ pc = "out_cb" => \A event \in sockets[it].revents \cap Interests :
                               <<cur.fd, event>> \in cycle.delivered

(* The entries n_changes still counts.                                     *)
Left == {i \in Indexes : i >= it /\ sockets[i].revents # {}}

(* The vector still holds everything poll(2) reported, and n_changes is    *)
(* the number of entries left with something to report.                    *)
CountInv ==
    pc # "idle" /\ changes = 0 /\ ~cycle.failed =>
        /\ \A e \in cycle.reported : \E i \in Indexes :
              e[1] = sockets[i].fd /\ e[2] \in sockets[i].revents
        /\ n_changes = Cardinality(Left)

WalkInv == CallInv /\ UndeliveredInv /\ DeliveredInv /\ CountInv

(* Nobody is being called.                                                 *)
LEMMA InitWalkInv == Init => WalkInv
BY DEF Init, WalkInv, CallInv, UndeliveredInv, DeliveredInv, CountInv, NoCycle

(* events::poll returns.                                                   *)
LEMMA LeaveKeepsWalkInv == Leave => WalkInv'
BY DEF Leave, WalkInv, CallInv, UndeliveredInv, DeliveredInv, CountInv

(* After a structural change the walk only has to be told that it was one. *)
LEMMA ChangeKeepsWalkInv ==
    ASSUME IInv, IInv', WalkInv, UserCode, CountChange,
           UNCHANGED <<pc, it, handler_ref, n_changes, cur>>
    PROVE  WalkInv'
<1>1. changes \in Nat /\ changes' \in Nat /\ cycle \in Cycles
  BY MaxHookChangesAssumption DEF IInv, TypeOK
<1>2. CASE pc = "idle"
  BY <1>2 DEF CountChange, WalkInv, CallInv, UndeliveredInv, DeliveredInv, CountInv
<1>3. CASE pc # "idle"
  <2>1. changes' = changes + 1 /\ cycle' = [cycle EXCEPT !.changed = TRUE]
    BY <1>3 DEF CountChange
  <2>2. changes' # 0 /\ cycle'.changed  BY <1>1, <2>1 DEF Cycles
  <2>3. QED BY <2>2 DEF WalkInv, CallInv, UndeliveredInv, DeliveredInv, CountInv
<1>4. QED BY <1>2, <1>3

(* Whatever leaves the loop, the descriptors and their revents alone.      *)
LEMMA RewriteKeepsWalkInv ==
    ASSUME WalkInv, UNCHANGED loopVars, Indexes' = Indexes,
           \A i \in Indexes : /\ sockets'[i].fd = sockets[i].fd
                             /\ sockets'[i].revents = sockets[i].revents,
           pc \in Callbacks /\ changes = 0 => it \in Indexes
    PROVE  WalkInv'
<1> USE DEF loopVars
<1>1. CallInv'  BY DEF WalkInv, CallInv
<1>2. UndeliveredInv'  BY DEF WalkInv, UndeliveredInv, Due
<1>3. DeliveredInv'  BY DEF WalkInv, DeliveredInv
<1>4. Left' = Left  BY DEF Left
<1>5. CountInv'  BY <1>4 DEF WalkInv, CountInv
<1>6. QED BY <1>1, <1>2, <1>3, <1>5 DEF WalkInv

(* The walk begins.                                                        *)
LEMMA StartLoopKeepsWalkInv ==
    ASSUME IInv, WalkInv, IInv', pc = "idle", NEW n, StartLoop(n),
           cycle'.delivered = {},
           cycle'.failed \/
             /\ \A e \in cycle'.reported : \E i \in Indexes' :
                  e[1] = sockets'[i].fd /\ e[2] \in sockets'[i].revents
             /\ n = Cardinality({i \in Indexes' : sockets'[i].revents # {}})
    PROVE  WalkInv'
<1> USE DEF StartLoop
<1>1. changes' = 0 /\ cur' = NoCall
  BY DEF IInv, CountingInv, WalkInv, CallInv
<1>2. CallInv'  BY <1>1 DEF CallInv
<1>3. UndeliveredInv'  BY DEF UndeliveredInv
<1>4. \A i \in Indexes' : i >= it' /\ ~(i < it')
  BY HandlerFacts DEF IInv, TypeOK, Indexes
<1>5. DeliveredInv'  BY <1>4 DEF DeliveredInv
<1>6. Left' = {i \in Indexes' : sockets'[i].revents # {}}  BY <1>4 DEF Left
<1>7. CountInv'  BY <1>6 DEF CountInv
<1>8. QED BY <1>2, <1>3, <1>5, <1>7 DEF WalkInv

(* A callback starts: its event was not delivered before, and now is.      *)
LEMMA CallKeepsWalkInv ==
    ASSUME IInv, WalkInv, NEW event \in Interests, NEW ref, Call(event, ref),
           pc # "idle", changes = 0, it \in Indexes, event \in sockets[it].revents,
           \/ pc = "scan" /\ (event = "POLLIN" \/ "POLLIN" \notin sockets[it].revents)
           \/ pc = "in_cb" /\ event = "POLLOUT"
    PROVE  WalkInv' /\ <<cur'.fd, cur'.event>> \notin cycle.delivered
<1> DEFINE fd == sockets[it].fd
<1>1. /\ pc' = IF event = "POLLIN" THEN "in_cb" ELSE "out_cb"
      /\ cur'.fd = fd /\ cur'.event = event /\ cur' # NoCall
      /\ it' = it /\ n_changes' = n_changes /\ changes' = 0
      /\ UNCHANGED handlerVars /\ Indexes' = Indexes
  BY FlagsAssumption DEF Call, handlerVars, NoCall, Indexes, Interests
<1>2. /\ cycle'.delivered = cycle.delivered \cup {<<fd, event>>}
      /\ cycle'.reported = cycle.reported /\ cycle'.failed = cycle.failed
  BY DEF Call, IInv, TypeOK, Cycles
<1>3. event \in {"POLLIN", "POLLOUT"} /\ Interests \subseteq {"POLLIN", "POLLOUT"}
  BY FlagsAssumption DEF Interests
<1>4. it \in Nat /\ \A i \in Indexes : i \in Nat  BY DEF Indexes
<1>5. \A i \in Indexes : sockets[i].fd = fd => i = it  BY DEF IInv, Paired
<1>6. pc \in Callbacks => cur.fd = fd  BY DEF IInv, CursorInv
<1>7. <<fd, event>> \notin cycle.delivered
  <2>1. CASE pc = "scan"  BY <1>4, <2>1 DEF WalkInv, UndeliveredInv, Due
  <2>2. CASE pc = "in_cb"  BY <1>6, <2>2 DEF WalkInv, UndeliveredInv
  <2>3. QED BY <2>1, <2>2
<1> HIDE DEF fd
<1>8. CallInv'  BY <1>1, <1>3 DEF CallInv
<1>9. UndeliveredInv'
  <2>1. ASSUME NEW i \in Indexes, i > it, NEW e \in cycle'.delivered
        PROVE  e[1] # sockets[i].fd
    <3>1. sockets[i].fd # fd  BY <1>4, <1>5, <2>1
    <3>2. Due(i)  BY <1>4, <2>1 DEF Due
    <3>3. QED BY <1>2, <2>1, <3>1, <3>2 DEF WalkInv, UndeliveredInv
  <2>2. ASSUME event = "POLLIN"
        PROVE  <<fd, "POLLOUT">> \notin cycle'.delivered
    <3>1. pc = "scan"  BY <2>2
    <3>2. <<fd, "POLLOUT">> \notin cycle.delivered
      BY <1>4, <3>1 DEF WalkInv, UndeliveredInv, Due, fd
    <3>3. QED BY <1>2, <2>2, <3>2
  <2>3. \A i \in Indexes' : Due(i)' => i > it  BY <1>1 DEF Due
  <2>4. QED BY <1>1, <2>1, <2>2, <2>3 DEF UndeliveredInv, handlerVars
<1>10. DeliveredInv'
  <2>1. \A i \in Indexes : i < it =>
           \A e \in sockets[i].revents \cap Interests :
               <<sockets[i].fd, e>> \in cycle'.delivered
    BY <1>2 DEF WalkInv, DeliveredInv
  <2>2. ASSUME event = "POLLOUT", NEW e \in sockets[it].revents \cap Interests
        PROVE  <<fd, e>> \in cycle'.delivered
    <3>1. e = event \/ e = "POLLIN"  BY <1>3, <2>2
    <3>2. e = "POLLIN" /\ e # event => pc = "in_cb"  BY <2>2
    <3>3. QED BY <1>2, <1>6, <3>1, <3>2 DEF WalkInv, DeliveredInv
  <2>3. sockets[it].revents # {}  OBVIOUS
  <2>4. <<fd, event>> \in cycle'.delivered  BY <1>2
  <2>5. sockets' = sockets  BY <1>1 DEF handlerVars
  <2>6. QED BY <1>1, <1>3, <2>1, <2>2, <2>3, <2>4, <2>5 DEF DeliveredInv
<1>11. CountInv'
  <2>1. Left' = Left  BY <1>1 DEF Left, handlerVars
  <2>2. QED BY <1>1, <1>2, <2>1 DEF WalkInv, CountInv, handlerVars
<1>12. QED BY <1>1, <1>7, <1>8, <1>9, <1>10, <1>11 DEF WalkInv

(* ++it past an entry of which everything was delivered.                   *)
LEMMA AdvanceKeepsWalkInv ==
    ASSUME IInv, WalkInv, changes = 0, it \in Indexes,
           \A event \in sockets[it].revents \cap Interests :
               <<sockets[it].fd, event>> \in cycle.delivered,
           pc # "idle", pc' = "scan", it' = it + 1, cur' = NoCall, changes' = 0,
           UNCHANGED <<handlerVars, cycle>>,
           n_changes' = IF sockets[it].revents = {} THEN n_changes ELSE n_changes - 1
    PROVE  WalkInv'
<1>1. sockets' = sockets /\ cycle' = cycle /\ Indexes' = Indexes
  BY DEF handlerVars, Indexes
<1>2. it \in Nat /\ (\A i \in Indexes : i \in Nat) /\ n_changes \in Int
  BY DEF IInv, TypeOK, Indexes
<1>3. CallInv'  BY DEF CallInv
<1>4. UndeliveredInv'
  <2>1. \A i \in Indexes : Due(i)' => Due(i)  BY <1>2 DEF Due
  <2>2. QED BY <1>1, <2>1 DEF WalkInv, UndeliveredInv
<1>5. DeliveredInv'
  <2>1. \A i \in Indexes : i < it + 1 => i < it \/ i = it  BY <1>2
  <2>2. QED BY <1>1, <2>1 DEF WalkInv, DeliveredInv
<1>6. CountInv'
  <2>1. Left' = Left \ {it}
    <3>1. \A i \in Indexes : i >= it' <=> i >= it /\ i # it  BY <1>2
    <3>2. Left' = {i \in Indexes : i >= it' /\ sockets[i].revents # {}}  BY <1>1 DEF Left
    <3>3. QED BY <3>1, <3>2 DEF Left
  <2>2. it \in Left <=> sockets[it].revents # {}  BY <1>2 DEF Left
  <2>3. IsFiniteSet(Left)
    <3>1. IsFiniteSet(Indexes)
      BY HandlerFacts, FS_Interval DEF IInv, TypeOK, HandlerInv, Indexes
    <3>2. QED BY <3>1, FS_Subset DEF Left
  <2>4. n_changes = Cardinality(Left) => n_changes' = Cardinality(Left')
    BY <2>1, <2>2, <2>3, FS_RemoveElement
  <2>5. QED BY <1>1, <2>4 DEF WalkInv, CountInv
<1>7. QED BY <1>3, <1>4, <1>5, <1>6 DEF WalkInv

(* An iteration ends, by break or with ++it.                               *)
LEMMA EndIterationKeepsWalkInv ==
    ASSUME IInv, WalkInv, NEW ref, EndIteration(ref), pc # "idle",
           changes > 0 => RefHasChanged(ref),
           changes = 0 =>
              /\ it \in Indexes /\ sockets[it].revents # {}
              /\ \A event \in sockets[it].revents \cap Interests :
                     <<sockets[it].fd, event>> \in cycle.delivered
    PROVE  WalkInv'
<1>1. CASE Leave  BY <1>1, LeaveKeepsWalkInv
<1>2. CASE ~Leave
  <2>1. /\ pc' = "scan" /\ it' = it + 1 /\ n_changes' = n_changes - 1
        /\ cur' = NoCall /\ changes' = 0
        /\ UNCHANGED <<handlerVars, cycle>> /\ ~RefHasChanged(ref)
    BY <1>2 DEF EndIteration
  <2>2. changes = 0
    BY <2>1, MaxHookChangesAssumption DEF IInv, TypeOK
  <2>3. QED BY <2>1, <2>2, AdvanceKeepsWalkInv
<1>3. QED BY <1>1, <1>2

(* The loop looks at an entry, or at end().                                *)
LEMMA ScanKeepsWalkInv == IInv /\ WalkInv /\ Scan => WalkInv'
<1> SUFFICES ASSUME IInv, WalkInv, Scan PROVE WalkInv'  OBVIOUS
<1>1. pc = "scan" /\ changes = 0 /\ cur = NoCall
  BY DEF IInv, CountingInv, WalkInv, CallInv,
         Scan, ScanEnd, ScanSkip, ScanRead, ScanWrite, ScanError, AtEntry
<1>2. AtEntry => it \in Indexes /\ sockets[it].revents \subseteq Flags
  BY <1>1, HandlerFacts
     DEF IInv, TypeOK, HandlerInv, CursorInv, AtEntry, Indexes, PollFd
<1>3. CASE ScanEnd  BY <1>3, LeaveKeepsWalkInv DEF ScanEnd
<1>4. CASE ScanSkip
  <2>1. /\ it \in Indexes /\ pc' = "scan" /\ it' = it + 1 /\ n_changes' = n_changes
        /\ cur' = NoCall /\ changes' = 0
        /\ UNCHANGED <<handlerVars, cycle>> /\ sockets[it].revents = {}
    BY <1>1, <1>2, <1>4 DEF ScanSkip
  <2>2. QED BY <1>1, <2>1, AdvanceKeepsWalkInv
<1>5. CASE ScanRead
  <2>1. "POLLIN" \in Interests  BY FlagsAssumption DEF Interests
  <2>2. QED BY <1>1, <1>2, <1>5, <2>1, CallKeepsWalkInv DEF ScanRead
<1>6. CASE ScanWrite
  <2>1. "POLLOUT" \in Interests  BY <1>2, <1>6 DEF Interests, ScanWrite
  <2>2. QED BY <1>1, <1>2, <1>6, <2>1, CallKeepsWalkInv DEF ScanWrite
<1>7. CASE ScanError
  <2>1. /\ it \in Indexes /\ sockets[it].revents = {"POLLERR"} /\ EndIteration(invalid)
    BY <1>2, <1>7 DEF ScanError
  <2>2. sockets[it].revents \cap Interests = {} /\ sockets[it].revents # {}
    BY <2>1 DEF Interests
  <2>3. QED BY <1>1, <2>1, <2>2, EndIterationKeepsWalkInv
<1>8. QED BY <1>3, <1>4, <1>5, <1>6, <1>7 DEF Scan

(* A callback returns to the loop.                                         *)
LEMMA CallbackReturnsKeepsWalkInv ==
    IInv /\ WalkInv /\ (ReadReturns \/ WriteReturns) => WalkInv'
<1> SUFFICES ASSUME IInv, WalkInv, ReadReturns \/ WriteReturns PROVE WalkInv'  OBVIOUS
<1>1. pc \in Callbacks /\ pc # "idle"  BY DEF ReadReturns, WriteReturns
<1>2. RefHasChanged(handler_ref) <=> changes > 0
  BY <1>1, IInvRefTracksChanges DEF RefTracksChanges
<1>3. changes \in Nat
  BY MaxHookChangesAssumption DEF IInv, TypeOK
<1>4. changes = 0 =>
         /\ it \in Indexes /\ sockets[it].fd = cur.fd /\ sockets[it].revents # {}
         /\ sockets[it].revents \cap Interests \subseteq {"POLLIN", "POLLOUT"}
  BY <1>1, FlagsAssumption DEF IInv, CursorInv, WalkInv, DeliveredInv, Interests
<1>5. CASE Leave  BY <1>5, LeaveKeepsWalkInv
<1>6. CASE ReadReturns /\ EndIteration(handler_ref) /\ ~Leave
  <2>1. changes = 0 => \A event \in sockets[it].revents \cap Interests :
                          <<sockets[it].fd, event>> \in cycle.delivered
    <3>1. changes = 0 => "POLLOUT" \notin sockets[it].revents
      BY <1>2, <1>3, <1>6, FlagsAssumption DEF ReadReturns, Call, EndIteration
    <3>2. pc = "in_cb"  BY <1>6 DEF ReadReturns
    <3>3. QED BY <1>1, <1>4, <3>1, <3>2 DEF WalkInv, DeliveredInv
  <2>2. QED BY <1>1, <1>2, <1>4, <1>6, <2>1, EndIterationKeepsWalkInv
<1>7. CASE WriteReturns
  <2>1. changes = 0 => \A event \in sockets[it].revents \cap Interests :
                          <<sockets[it].fd, event>> \in cycle.delivered
    BY <1>1, <1>4, <1>7 DEF WriteReturns, WalkInv, DeliveredInv
  <2>2. QED BY <1>1, <1>2, <1>4, <1>7, <2>1, EndIterationKeepsWalkInv DEF WriteReturns
<1>8. CASE /\ pc = "in_cb" /\ ~RefHasChanged(handler_ref)
           /\ "POLLOUT" \in sockets[it].revents /\ Call("POLLOUT", handler_ref)
  <2>1. changes = 0  BY <1>2, <1>3, <1>8
  <2>2. "POLLOUT" \in Interests
    BY <1>4, <1>8, <2>1, HandlerFacts DEF IInv, TypeOK, HandlerInv, PollFd, Interests
  <2>3. QED BY <1>4, <1>8, <2>1, <2>2, CallKeepsWalkInv
<1>9. QED BY <1>5, <1>6, <1>7, <1>8 DEF ReadReturns, WriteReturns

(* poll(2) succeeds: it reports what it writes down, and says of how many  *)
(* entries.                                                                *)
LEMMA PollReturnsKeepsWalkInv == IInv /\ WalkInv /\ PollReturns => WalkInv'
<1> SUFFICES ASSUME IInv, WalkInv, PollReturns PROVE WalkInv'  OBVIOUS
<1> DEFINE Reported(revents) ==
               {e \in Events : \E i \in Indexes :
                   sockets[i].fd = e[1] /\ e[2] \in revents[i]}
<1>1. PICK revents \in [Indexes -> SUBSET Flags] :
         /\ sockets' = WithRevents(revents)
         /\ StartLoop(Cardinality({i \in Indexes : revents[i] # {}}))
         /\ cycle' = [NoCycle EXCEPT !.reported = Reported(revents)]
  BY DEF PollReturns
<1>2. pc = "idle" /\ IInv'  BY PollReturnsKeepsIInv DEF PollReturns
<1> HIDE DEF Reported
<1>3. cycle'.delivered = {} /\ cycle'.reported = Reported(revents)
  BY <1>1 DEF NoCycle
<1>4. /\ Indexes' = Indexes
      /\ \A i \in Indexes : /\ sockets'[i].fd = sockets[i].fd
                            /\ sockets'[i].revents = revents[i]
  BY <1>1, WithReventsFacts DEF StartLoop
<1>5. \A e \in Reported(revents) : \E i \in Indexes' :
         e[1] = sockets'[i].fd /\ e[2] \in sockets'[i].revents
  BY <1>4 DEF Reported
<1>6. {i \in Indexes : revents[i] # {}} = {i \in Indexes' : sockets'[i].revents # {}}
  BY <1>4
<1>7. StartLoop(Cardinality({i \in Indexes' : sockets'[i].revents # {}}))
  BY <1>1, <1>6
<1>8. QED BY <1>2, <1>3, <1>5, <1>7, StartLoopKeepsWalkInv

(* poll(2) fails: the walk runs over old revents, or none.                 *)
LEMMA PollFailsKeepsWalkInv == IInv /\ WalkInv /\ PollFails => WalkInv'
<1> SUFFICES ASSUME IInv, WalkInv, PollFails PROVE WalkInv'  OBVIOUS
<1>1. /\ pc = "idle" /\ StartLoop(-1) /\ cycle'.delivered = {} /\ cycle'.failed
      /\ IInv'
  BY PollFailsKeepsIInv DEF PollFails, NoCycle
<1>2. QED BY <1>1, StartLoopKeepsWalkInv

(* The handler is called by the application or by a callback.              *)
LEMMA UserStepKeepsWalkInv == IInv /\ WalkInv /\ UserStep => WalkInv'
<1> SUFFICES ASSUME IInv, WalkInv, UserStep PROVE WalkInv'  OBVIOUS
<1>1. ASSUME NEW fd \in Fds, NEW ptr \in Owners[fd], Add(fd, ptr)
      PROVE  WalkInv'
  BY <1>1, AddKeepsIInv, ChangeKeepsWalkInv DEF Add
<1>2. ASSUME NEW fd \in Fds, Delete(fd)
      PROVE  WalkInv'
  BY <1>2, DeleteKeepsIInv, ChangeKeepsWalkInv DEF Delete
<1>3. ASSUME NEW fd \in Fds, NEW active \in BOOLEAN, Want(fd, active)
      PROVE  WalkInv'
  <2>1. /\ UNCHANGED loopVars
        /\ Len(sockets') = Len(sockets)
        /\ \A i \in Indexes : /\ sockets'[i].fd = sockets[i].fd
                              /\ sockets'[i].revents = sockets[i].revents
    BY <1>3, WantFacts DEF IInv, TypeOK, HandlerInv
  <2>2. Indexes' = Indexes  BY <2>1 DEF Indexes
  <2>3. pc \in Callbacks /\ changes = 0 => it \in Indexes  BY DEF IInv, CursorInv
  <2>4. QED BY <2>1, <2>2, <2>3, RewriteKeepsWalkInv
<1>4. QED BY <1>1, <1>2, <1>3 DEF UserStep

(* Every step of PollLoop keeps what the walk has delivered true.          *)
LEMMA NextKeepsWalkInv == IInv /\ WalkInv /\ [Next]_vars => WalkInv'
<1> SUFFICES ASSUME IInv, WalkInv, [Next]_vars PROVE WalkInv'  OBVIOUS
<1>1. CASE UserStep  BY <1>1, UserStepKeepsWalkInv
<1>2. CASE PollReturns \/ PollFails
  BY <1>2, PollReturnsKeepsWalkInv, PollFailsKeepsWalkInv
<1>3. CASE LoopStep
  BY <1>3, ScanKeepsWalkInv, CallbackReturnsKeepsWalkInv DEF LoopStep
<1>4. CASE UNCHANGED vars
  <2>1. UNCHANGED loopVars /\ Indexes' = Indexes /\ sockets' = sockets
    BY <1>4 DEF vars, handlerVars, Indexes
  <2>2. pc \in Callbacks /\ changes = 0 => it \in Indexes  BY DEF IInv, CursorInv
  <2>3. QED BY <2>1, <2>2, RewriteKeepsWalkInv
<1>5. QED BY <1>1, <1>2, <1>3, <1>4 DEF Next

(* It holds in every state of every execution.                             *)
LEMMA WalkInvInvariant == Spec => [](IInv /\ WalkInv)
<1>1. Init => IInv /\ WalkInv  BY InitIInv, InitWalkInv
<1>2. IInv /\ WalkInv /\ [Next]_vars => (IInv /\ WalkInv)'
  BY NextKeepsIInv, NextKeepsWalkInv
<1>3. QED BY <1>1, <1>2, PTL DEF Spec

-----------------------------------------------------------------------------
(* The theorems about one call of events::poll.                            *)

(* The steps that start a callback.                                        *)
Starts == \/ ScanRead \/ ScanWrite
          \/ /\ pc = "in_cb" /\ ~RefHasChanged(handler_ref)
             /\ "POLLOUT" \in sockets[it].revents /\ Call("POLLOUT", handler_ref)

(* A callback only starts for an event that was not delivered before, of   *)
(* the entry the iterator stands on.                                       *)
LEMMA StartFacts ==
    ASSUME IInv, WalkInv, Starts
    PROVE  \E event \in Interests :
              /\ it \in Indexes /\ event \in sockets[it].revents
              /\ Call(event, handler_ref')
              /\ <<sockets[it].fd, event>> \notin cycle.delivered
              /\ pc = "scan" \/ (pc = "in_cb" /\ changes = 0)
<1>1. pc = "scan" => changes = 0  BY DEF IInv, CountingInv
<1>2. AtEntry => it \in Indexes /\ sockets[it].revents \subseteq Flags
  BY HandlerFacts DEF IInv, TypeOK, HandlerInv, CursorInv, AtEntry, Indexes, PollFd
<1>3. ASSUME NEW event \in Interests, NEW ref, Call(event, ref)
      PROVE  /\ cur'.fd = sockets[it].fd /\ cur'.event = event /\ handler_ref' = ref
  BY <1>3 DEF Call
<1>4. CASE ScanRead
  <2>1. "POLLIN" \in Interests  BY FlagsAssumption DEF Interests
  <2>2. /\ pc = "scan" /\ it \in Indexes /\ "POLLIN" \in sockets[it].revents
        /\ Call("POLLIN", invalid)
    BY <1>2, <1>4 DEF ScanRead, AtEntry
  <2>3. <<cur'.fd, cur'.event>> \notin cycle.delivered
    BY <1>1, <2>1, <2>2, CallKeepsWalkInv
  <2>4. QED BY <1>3, <2>1, <2>2, <2>3
<1>5. CASE ScanWrite
  <2>1. "POLLOUT" \in Interests  BY <1>2, <1>5 DEF Interests, ScanWrite
  <2>2. /\ pc = "scan" /\ it \in Indexes /\ "POLLOUT" \in sockets[it].revents
        /\ Call("POLLOUT", invalid) /\ "POLLIN" \notin sockets[it].revents
    BY <1>2, <1>5 DEF ScanWrite, AtEntry
  <2>3. <<cur'.fd, cur'.event>> \notin cycle.delivered
    BY <1>1, <2>1, <2>2, CallKeepsWalkInv
  <2>4. QED BY <1>3, <2>1, <2>2, <2>3
<1>6. CASE /\ pc = "in_cb" /\ ~RefHasChanged(handler_ref)
           /\ "POLLOUT" \in sockets[it].revents /\ Call("POLLOUT", handler_ref)
  <2>1. changes = 0
    BY <1>6, IInvRefTracksChanges, MaxHookChangesAssumption DEF RefTracksChanges, IInv, TypeOK
  <2>2. it \in Indexes  BY <1>6, <2>1 DEF IInv, CursorInv
  <2>3. "POLLOUT" \in Interests
    BY <1>6, <2>2, HandlerFacts DEF IInv, TypeOK, HandlerInv, PollFd, Interests
  <2>4. <<cur'.fd, cur'.event>> \notin cycle.delivered
    BY <1>6, <2>1, <2>2, <2>3, CallKeepsWalkInv
  <2>5. QED BY <1>3, <1>6, <2>1, <2>2, <2>3, <2>4
<1>7. QED BY <1>4, <1>5, <1>6 DEF Starts

(* Every other step of the loop ends an iteration or the call.             *)
LEMMA LoopStepCases ==
    ASSUME LoopStep, ~Starts, ~Leave
    PROVE  /\ UNCHANGED <<handlerVars, cycle>>
           /\ pc' = "scan"
           /\ cur' = NoCall \/ (cur' = cur /\ pc = "scan")
BY DEF LoopStep, Scan, ScanEnd, ScanSkip, ScanError, AtEntry, ReadReturns, WriteReturns,
       EndIteration, Starts

(* One call of events::poll runs no callback of a descriptor twice, even   *)
(* when the descriptor is deleted and added again meanwhile.               *)
THEOREM DeliveredOnce == Spec => AtMostOnce
<1>1. IInv /\ WalkInv /\ [Next]_vars =>
         [cur' # cur /\ cur' # NoCall => <<cur'.fd, cur'.event>> \notin cycle.delivered]_vars
  <2> SUFFICES ASSUME IInv, WalkInv, Next, cur' # cur, cur' # NoCall
               PROVE  <<cur'.fd, cur'.event>> \notin cycle.delivered
    OBVIOUS
  <2>1. Starts
    <3>1. LoopStep
      BY DEF Next, UserStep, Add, Delete, Want, loopVars, PollReturns, PollFails, StartLoop
    <3>2. ~Leave  BY DEF Leave
    <3>3. QED BY <3>1, <3>2, LoopStepCases
  <2>2. PICK event \in Interests : /\ Call(event, handler_ref')
                                   /\ <<sockets[it].fd, event>> \notin cycle.delivered
    BY <2>1, StartFacts
  <2>3. cur'.fd = sockets[it].fd /\ cur'.event = event  BY <2>2 DEF Call
  <2>4. QED BY <2>2, <2>3
<1>2. QED BY <1>1, WalkInvInvariant, PTL DEF Spec, AtMostOnce

(* An undisturbed call may end once the entry the iterator stands on is    *)
(* served and nothing is reported of those behind it.                      *)
LEMMA EverythingDelivered ==
    ASSUME IInv, WalkInv, pc # "idle", changes = 0, ~cycle.failed,
           \A i \in Indexes : i >= it =>
              \A event \in sockets[i].revents \cap Interests :
                  <<sockets[i].fd, event>> \in cycle.delivered
    PROVE  cycle.reported \cap (Fds \X Interests) \subseteq cycle.delivered
<1> SUFFICES ASSUME NEW e \in cycle.reported, e \in Fds \X Interests
             PROVE  e \in cycle.delivered
  OBVIOUS
<1>1. PICK i \in Indexes : e[1] = sockets[i].fd /\ e[2] \in sockets[i].revents
  BY DEF WalkInv, CountInv
<1>2. e = <<sockets[i].fd, e[2]>> /\ e[2] \in sockets[i].revents \cap Interests
  BY <1>1
<1>3. i < it \/ i >= it  BY DEF IInv, TypeOK, Indexes
<1>4. QED BY <1>2, <1>3 DEF WalkInv, DeliveredInv

(* n_changes = 1: the entry the iterator stands on is the last with        *)
(* something to report.                                                    *)
LEMMA LastOfTheReported ==
    ASSUME IInv, WalkInv, pc # "idle", changes = 0, ~cycle.failed,
           it \in Indexes, sockets[it].revents # {}, n_changes = 1
    PROVE  \A i \in Indexes : i > it => sockets[i].revents = {}
<1>1. Cardinality(Left) = 1  BY DEF WalkInv, CountInv
<1>2. it \in Nat /\ \A i \in Indexes : i \in Nat  BY DEF Indexes
<1>3. IsFiniteSet(Left)
  <2>1. IsFiniteSet(Indexes)
    BY HandlerFacts, FS_Interval DEF IInv, TypeOK, HandlerInv, Indexes
  <2>2. QED BY <2>1, FS_Subset DEF Left
<1>4. PICK x : Left = {x}  BY <1>1, <1>3, FS_Singleton
<1>5. it \in Left  BY <1>2 DEF Left
<1>6. \A i \in Indexes : i > it => i \notin Left  BY <1>2, <1>4, <1>5
<1>7. \A i, j \in Nat : i > j => i >= j  OBVIOUS
<1>8. QED BY <1>2, <1>6, <1>7, Zenon DEF Left

(* A call of events::poll that no callback disturbs delivers everything    *)
(* poll(2) reported: the n_changes shortcut and the breaks lose nothing.   *)
THEOREM CyclesAreComplete == Spec => CompleteCycle
<1> DEFINE Complete == cycle.reported \cap (Fds \X Interests) \subseteq cycle.delivered
<1>1. IInv /\ WalkInv /\ [Next]_vars =>
         [pc # "idle" /\ pc' = "idle" /\ ~cycle.failed /\ ~cycle.changed => Complete]_vars
  <2> SUFFICES ASSUME IInv, WalkInv, Next, pc # "idle", pc' = "idle",
                      ~cycle.failed, ~cycle.changed
               PROVE  Complete
    OBVIOUS
  <2>1. changes = 0
    BY MaxHookChangesAssumption DEF IInv, TypeOK, WalkInv, CallInv
  <2>2. LoopStep
    BY DEF Next, UserStep, Add, Delete, Want, loopVars, PollReturns, PollFails
  <2>3. pc \in Callbacks => ~RefHasChanged(handler_ref)
    BY <2>1, IInvRefTracksChanges DEF RefTracksChanges
  <2>4. it \in Nat /\ \A i \in Indexes : i \in Nat  BY DEF IInv, TypeOK, Indexes
  <2>5. Interests \subseteq {"POLLIN", "POLLOUT"}  BY FlagsAssumption DEF Interests
  <2>6. CASE ScanEnd
    <3>1. \A i \in Indexes : ~(i >= it)
      BY <2>4, <2>6, HandlerFacts DEF ScanEnd, IInv, TypeOK, HandlerInv, Indexes
    <3>2. QED BY <2>1, <3>1, EverythingDelivered
  <2>7. ASSUME it \in Indexes, sockets[it].revents # {}, n_changes = 1,
               \A event \in sockets[it].revents \cap Interests :
                   <<sockets[it].fd, event>> \in cycle.delivered
        PROVE  Complete
    <3>1. \A i \in Indexes : i > it => sockets[i].revents = {}
      BY <2>1, <2>7, LastOfTheReported
    <3>2. \A i \in Indexes : i >= it => i = it \/ i > it  BY <2>4
    <3>3. QED BY <2>1, <2>7, <3>1, <3>2, EverythingDelivered
  <2>8. CASE ScanError
    <3>1. it \in Indexes /\ sockets[it].revents = {"POLLERR"} /\ n_changes = 1
      <4>1. it \in Indexes
        BY <2>8, HandlerFacts DEF ScanError, AtEntry, IInv, TypeOK, HandlerInv, CursorInv, Indexes
      <4>2. ~RefHasChanged(invalid)  BY DEF RefHasChanged
      <4>3. QED BY <2>8, <4>1, <4>2 DEF ScanError, EndIteration
    <3>2. sockets[it].revents \cap Interests = {} /\ sockets[it].revents # {}
      BY <3>1 DEF Interests
    <3>3. QED BY <2>7, <3>1, <3>2
  <2>9. CASE ReadReturns \/ WriteReturns
    <3>1. pc \in Callbacks  BY <2>9 DEF ReadReturns, WriteReturns
    <3>2. it \in Indexes /\ sockets[it].fd = cur.fd /\ sockets[it].revents # {}
      BY <2>1, <3>1 DEF IInv, CursorInv, WalkInv, DeliveredInv
    <3>3. n_changes = 1 /\ (pc = "in_cb" => "POLLOUT" \notin sockets[it].revents)
      BY <2>3, <2>9, <3>1 DEF ReadReturns, WriteReturns, EndIteration, Call
    <3>4. \A event \in sockets[it].revents \cap Interests :
             <<sockets[it].fd, event>> \in cycle.delivered
      BY <2>1, <2>5, <3>1, <3>2, <3>3 DEF WalkInv, DeliveredInv
    <3>5. QED BY <2>7, <3>2, <3>3, <3>4
  <2>10. ~ScanSkip /\ ~ScanRead /\ ~ScanWrite
    BY DEF ScanSkip, ScanRead, ScanWrite, AtEntry, Call
  <2>11. QED BY <2>2, <2>6, <2>8, <2>9, <2>10 DEF LoopStep, Scan
<1>2. QED BY <1>1, WalkInvInvariant, PTL DEF Spec, CompleteCycle

-----------------------------------------------------------------------------
(* The refinement mapping, read at an entry of the vectors.                *)

(* The events still to be delivered, while the loop runs.                  *)
StillReported ==
    {e \in Registered \X Interests : e[2] \in reportOf[e[1]]} \ cycle.delivered

Mapped ==
    /\ Registered = {sockets[i].fd : i \in Indexes}
    /\ registryOf = [fd \in Registered |-> registryOf[fd]]
    /\ reportOf = [fd \in Registered |-> reportOf[fd]]
    /\ \A i \in Indexes :
          /\ registryOf[sockets[i].fd] = [ptr |-> socket_ptrs[i],
                                          events |-> sockets[i].events]
          /\ reportOf[sockets[i].fd] = sockets[i].revents \cap Interests
    /\ pendingOf = IF pc = "idle" THEN {} ELSE StillReported

(* std::find on a paired vector is the inverse of indexing it.             *)
LEMMA MappedHere == IInv => Mapped
<1> SUFFICES ASSUME IInv PROVE Mapped  OBVIOUS
<1>1. \A i \in Indexes : Find(sockets[i].fd) = i /\ sockets[i].fd \in Registered
  <2> TAKE i \in Indexes
  <2>1. sockets[i].fd \in Registered  BY DEF Registered, Indexes
  <2>2. Find(sockets[i].fd) \in Indexes /\ sockets[Find(sockets[i].fd)].fd = sockets[i].fd
    BY <2>1, FindFacts, HandlerFacts DEF IInv, TypeOK, HandlerInv, Paired, Indexes
  <2>3. QED BY <2>1, <2>2 DEF IInv, Paired
<1>2. Registered = {sockets[i].fd : i \in Indexes}  BY DEF Registered, Indexes
<1>3. /\ registryOf = [fd \in Registered |-> registryOf[fd]]
      /\ \A fd \in Registered : registryOf[fd] = [ptr |-> socket_ptrs[Find(fd)],
                                                  events |-> sockets[Find(fd)].events]
  BY DEF registryOf
<1>4. /\ reportOf = [fd \in Registered |-> reportOf[fd]]
      /\ DOMAIN reportOf = Registered
      /\ \A fd \in Registered : reportOf[fd] = sockets[Find(fd)].revents \cap Interests
  BY DEF reportOf
<1>5. pendingOf = IF pc = "idle" THEN {} ELSE StillReported
  <2>1. {e \in Registered \X Interests : e[2] \in reportOf[e[1]]} =
           {e \in Registered \X Interests : e[2] \in sockets[Find(e[1])].revents}
    BY <1>4
  <2>2. QED BY <2>1 DEF pendingOf, StillReported
<1>6. QED BY <1>1, <1>2, <1>3, <1>4, <1>5 DEF Mapped

(* And so after a step.                                                    *)
LEMMA MappedNext == IInv' => Mapped'
BY MappedHere, PTL

(* As long as no entry changes, neither do the registry and the report.    *)
LEMMA SameEntries ==
    ASSUME IInv, IInv', UNCHANGED <<sockets, socket_ptrs>>
    PROVE  registryOf' = registryOf /\ reportOf' = reportOf
<1>1. Mapped /\ Mapped'  BY MappedHere, MappedNext
<1>2. Indexes' = Indexes /\ Registered' = Registered  BY DEF Indexes, Registered
<1>3. ASSUME NEW fd \in Registered
      PROVE  registryOf'[fd] = registryOf[fd] /\ reportOf'[fd] = reportOf[fd]
  <2>1. PICK i \in Indexes : sockets[i].fd = fd  BY <1>1 DEF Mapped
  <2>2. /\ registryOf[fd] = [ptr |-> socket_ptrs[i], events |-> sockets[i].events]
        /\ reportOf[fd] = sockets[i].revents \cap Interests
    BY <1>1, <2>1 DEF Mapped
  <2>3. /\ registryOf'[sockets'[i].fd] = [ptr |-> socket_ptrs'[i], events |-> sockets'[i].events]
        /\ reportOf'[sockets'[i].fd] = sockets'[i].revents \cap Interests
    BY <1>1, <1>2 DEF Mapped
  <2>4. QED BY <2>1, <2>2, <2>3
<1>4. /\ registryOf' = [fd \in Registered |-> registryOf'[fd]]
      /\ reportOf' = [fd \in Registered |-> reportOf'[fd]]
  BY <1>1, <1>2 DEF Mapped
<1>5. /\ registryOf = [fd \in Registered |-> registryOf[fd]]
      /\ reportOf = [fd \in Registered |-> reportOf[fd]]
  BY <1>1 DEF Mapped
<1>6. QED BY <1>3, <1>4, <1>5, Zenon

-----------------------------------------------------------------------------
(* Every step of PollLoop is a step of EventDispatch, or changes nothing   *)
(* EventDispatch sees.                                                     *)

(* The empty vectors are the empty registry.                               *)
LEMMA InitImplements == Init => Dispatch!DispatchInit
<1> SUFFICES ASSUME Init PROVE Dispatch!DispatchInit  OBVIOUS
<1>1. Mapped  BY InitIInv, MappedHere
<1>2. Registered = {}  BY DEF Registered, Init, HandlerInit
<1>3. pc = "idle" /\ cur = NoCall  BY DEF Init
<1>4. ASSUME NEW f, f = [x \in {} |-> f[x]]
      PROVE  f = <<>>
  <2>1. 0 \in Nat /\ f \in [1 .. 0 -> {}]  BY <1>4
  <2>2. f \in Seq({})  BY <2>1, SeqDef
  <2>3. Len(f) = 0  BY <2>1, <2>2, LenProperties
  <2>4. QED BY <2>2, <2>3, EmptySeq
<1>5. registryOf = <<>> /\ reportOf = <<>>  BY <1>1, <1>2, <1>4 DEF Mapped
<1>6. QED BY <1>1, <1>3, <1>5 DEF Mapped, Dispatch!DispatchInit

(* add_socket registers the descriptor; nothing is reported of it.         *)
LEMMA AddImplements ==
    ASSUME IInv, IInv', NEW fd \in Fds, NEW ptr \in Owners[fd], Add(fd, ptr)
    PROVE  Dispatch!Register(fd, ptr)
<1> DEFINE entry == [ptr |-> ptr, events |-> {"POLLIN"}]
<1>1. Mapped /\ Mapped'  BY MappedHere, MappedNext
<1>2. /\ Indexes' = Indexes \cup {Len(sockets) + 1}
      /\ \A i \in Indexes : sockets'[i] = sockets[i] /\ socket_ptrs'[i] = socket_ptrs[i]
      /\ sockets'[Len(sockets) + 1] = [fd |-> fd, events |-> {"POLLIN"}, revents |-> {}]
      /\ socket_ptrs'[Len(sockets) + 1] = ptr
  BY AddSocketFacts, OwnersAssumption DEF Add, IInv, TypeOK, HandlerInv
<1>3. Registered' = Registered \cup {fd} /\ fd \notin Registered
  <2>1. Registered = {sockets[i].fd : i \in Indexes}  BY <1>1 DEF Mapped
  <2>2. Registered' = {sockets'[i].fd : i \in Indexes'}  BY <1>1 DEF Mapped
  <2>3. QED BY <1>2, <2>1, <2>2 DEF Add
<1>4. ASSUME NEW x \in Registered
      PROVE  registryOf'[x] = registryOf[x] /\ reportOf'[x] = reportOf[x]
  <2>1. PICK i \in Indexes : sockets[i].fd = x  BY <1>1 DEF Mapped
  <2>2. /\ registryOf[x] = [ptr |-> socket_ptrs[i], events |-> sockets[i].events]
        /\ reportOf[x] = sockets[i].revents \cap Interests
    BY <1>1, <2>1 DEF Mapped
  <2>3. /\ registryOf'[sockets'[i].fd] = [ptr |-> socket_ptrs'[i], events |-> sockets'[i].events]
        /\ reportOf'[sockets'[i].fd] = sockets'[i].revents \cap Interests
    BY <1>1, <1>2 DEF Mapped
  <2>4. QED BY <1>2, <2>1, <2>2, <2>3
<1>5. registryOf'[fd] = entry /\ reportOf'[fd] = {}
  <2> DEFINE i == Len(sockets) + 1
  <2>1. /\ i \in Indexes' /\ sockets'[i].fd = fd /\ socket_ptrs'[i] = ptr
        /\ sockets'[i].events = {"POLLIN"} /\ sockets'[i].revents = {}
    BY <1>2
  <2> HIDE DEF i
  <2>2. /\ registryOf'[sockets'[i].fd] = [ptr |-> socket_ptrs'[i], events |-> sockets'[i].events]
        /\ reportOf'[sockets'[i].fd] = sockets'[i].revents \cap Interests
    BY <1>1, <2>1 DEF Mapped
  <2>3. QED BY <2>1, <2>2
<1> HIDE DEF entry
<1>6. /\ DOMAIN registryOf = Registered /\ DOMAIN reportOf = Registered
      /\ registryOf' = [x \in Registered' |-> registryOf'[x]]
      /\ reportOf' = [x \in Registered' |-> reportOf'[x]]
  BY <1>1 DEF Mapped
<1>7. registryOf' = Dispatch!With(registryOf, fd, entry)
  <2>1. \A x \in Registered' :
           registryOf'[x] = IF x = fd THEN entry ELSE registryOf[x]
    BY <1>3, <1>4, <1>5
  <2>2. QED BY <1>3, <1>6, <2>1 DEF Dispatch!With
<1>8. reportOf' = Dispatch!With(reportOf, fd, {})
  <2>1. \A x \in Registered' : reportOf'[x] = IF x = fd THEN {} ELSE reportOf[x]
    BY <1>3, <1>4, <1>5
  <2>2. QED BY <1>3, <1>6, <2>1 DEF Dispatch!With
<1>9. pendingOf' = pendingOf
  <2>1. pc' = pc /\ (pc # "idle" => cycle'.delivered = cycle.delivered)
    BY DEF Add, CountChange, IInv, TypeOK, Cycles
  <2>2. pc # "idle" => StillReported' = StillReported
    BY <1>3, <1>4, <1>5, <2>1 DEF StillReported
  <2>3. QED BY <1>1, <2>1, <2>2 DEF Mapped
<1>10. cur' = cur  BY DEF Add
<1>11. QED
  BY <1>3, <1>6, <1>7, <1>8, <1>9, <1>10 DEF Dispatch!Register, Dispatch!Dispatched, entry

(* delete_socket takes the descriptor out of the registry, with what was   *)
(* reported of it; when it finds none it changes nothing.                  *)
LEMMA DeleteImplements ==
    ASSUME IInv, IInv', NEW fd \in Fds, Delete(fd)
    PROVE  Dispatch!Deregister(fd) \/ UNCHANGED Dispatch!dispatchVars
<1>1. Mapped /\ Mapped'  BY MappedHere, MappedNext
<1>2. /\ fd \notin Registered => UNCHANGED <<sockets, socket_ptrs>>
      /\ \A j \in Indexes' : \E i \in Indexes :
            sockets[i].fd # fd /\ sockets'[j] = sockets[i]
                              /\ socket_ptrs'[j] = socket_ptrs[i]
      /\ \A i \in Indexes : sockets[i].fd # fd =>
            \E j \in Indexes' : sockets'[j] = sockets[i]
                               /\ socket_ptrs'[j] = socket_ptrs[i]
  BY DeleteSocketFacts DEF Delete, IInv, TypeOK, HandlerInv
<1>3. cur' = cur /\ pc' = pc /\ (pc # "idle" => cycle'.delivered = cycle.delivered)
  BY DEF Delete, CountChange, IInv, TypeOK, Cycles
<1>4. CASE fd \notin Registered
  <2>1. registryOf' = registryOf /\ reportOf' = reportOf
    BY <1>2, <1>4, SameEntries
  <2>2. Registered' = Registered  BY <1>2, <1>4 DEF Registered
  <2>3. pc # "idle" => StillReported' = StillReported
    BY <1>3, <2>1, <2>2 DEF StillReported
  <2>4. pendingOf' = pendingOf  BY <1>1, <1>3, <2>3 DEF Mapped
  <2>5. QED BY <1>3, <2>1, <2>4 DEF Dispatch!dispatchVars
<1>5. CASE fd \in Registered
  <2>1. Registered' = Registered \ {fd}
    <3>1. Registered = {sockets[i].fd : i \in Indexes}  BY <1>1 DEF Mapped
    <3>2. Registered' = {sockets'[i].fd : i \in Indexes'}  BY <1>1 DEF Mapped
    <3>3. \A x \in Registered' : x \in Registered /\ x # fd  BY <1>2, <3>1, <3>2
    <3>4. \A x \in Registered : x # fd => x \in Registered'  BY <1>2, <3>1, <3>2
    <3>5. QED BY <3>3, <3>4
  <2>2. ASSUME NEW x \in Registered'
        PROVE  registryOf'[x] = registryOf[x] /\ reportOf'[x] = reportOf[x]
    <3>1. PICK j \in Indexes' : sockets'[j].fd = x  BY <1>1 DEF Mapped
    <3>2. PICK i \in Indexes : sockets'[j] = sockets[i] /\ socket_ptrs'[j] = socket_ptrs[i]
      BY <1>2
    <3>3. /\ registryOf[sockets[i].fd] = [ptr |-> socket_ptrs[i], events |-> sockets[i].events]
          /\ reportOf[sockets[i].fd] = sockets[i].revents \cap Interests
      BY <1>1 DEF Mapped
    <3>4. /\ registryOf'[x] = [ptr |-> socket_ptrs'[j], events |-> sockets'[j].events]
          /\ reportOf'[x] = sockets'[j].revents \cap Interests
      BY <1>1, <3>1 DEF Mapped
    <3>5. QED BY <3>1, <3>2, <3>3, <3>4
  <2>3. /\ DOMAIN registryOf = Registered /\ DOMAIN reportOf = Registered
        /\ registryOf' = [x \in Registered' |-> registryOf'[x]]
        /\ reportOf' = [x \in Registered' |-> reportOf'[x]]
    BY <1>1 DEF Mapped
  <2>4. registryOf' = Dispatch!Restrict(registryOf, Registered \ {fd})
    BY <2>1, <2>2, <2>3 DEF Dispatch!Restrict
  <2>5. reportOf' = Dispatch!Restrict(reportOf, Registered \ {fd})
    BY <2>1, <2>2, <2>3 DEF Dispatch!Restrict
  <2>6. pendingOf' = {e \in pendingOf : e[1] # fd}
    <3>1. pc # "idle" => StillReported' = {e \in StillReported : e[1] # fd}
      BY <1>3, <2>1, <2>2 DEF StillReported
    <3>2. QED BY <1>1, <1>3, <3>1 DEF Mapped
  <2>7. QED
    BY <1>3, <1>5, <2>3, <2>4, <2>5, <2>6 DEF Dispatch!Deregister, Dispatch!Dispatched
<1>6. QED BY <1>4, <1>5

(* socket_want_read and socket_want_write change what is asked for, and    *)
(* nothing that was reported.                                              *)
LEMMA WantImplements ==
    ASSUME IInv, IInv', NEW fd \in Fds, NEW active \in BOOLEAN, Want(fd, active)
    PROVE  \/ \E events \in SUBSET Interests : Dispatch!SetEvents(fd, events)
           \/ UNCHANGED Dispatch!dispatchVars
<1>1. Mapped /\ Mapped'  BY MappedHere, MappedNext
<1>2. /\ UNCHANGED <<socket_ptrs, invalid, loopVars>>
      /\ Len(sockets') = Len(sockets)
      /\ \A i \in Indexes : /\ sockets'[i].fd = sockets[i].fd
                            /\ sockets'[i].revents = sockets[i].revents
                            /\ sockets[i].fd # fd => sockets'[i] = sockets[i]
  BY WantFacts DEF IInv, TypeOK, HandlerInv
<1>3. Indexes' = Indexes  BY <1>2 DEF Indexes
<1>4. Registered' = Registered  BY <1>1, <1>2, <1>3 DEF Mapped
<1>5. ASSUME NEW x \in Registered
      PROVE  /\ reportOf'[x] = reportOf[x]
             /\ x # fd => registryOf'[x] = registryOf[x]
             /\ registryOf'[x] = [registryOf[x] EXCEPT !.events = registryOf'[x].events]
             /\ registryOf'[x].events \in SUBSET Interests
  <2>1. PICK i \in Indexes : sockets[i].fd = x  BY <1>1 DEF Mapped
  <2>2. /\ registryOf[x] = [ptr |-> socket_ptrs[i], events |-> sockets[i].events]
        /\ reportOf[x] = sockets[i].revents \cap Interests
    BY <1>1, <2>1 DEF Mapped
  <2>3. /\ registryOf'[x] = [ptr |-> socket_ptrs'[i], events |-> sockets'[i].events]
        /\ reportOf'[x] = sockets'[i].revents \cap Interests
    <3>1. sockets'[i].fd = x /\ i \in Indexes'  BY <1>2, <1>3, <2>1
    <3>2. /\ registryOf'[sockets'[i].fd] = [ptr |-> socket_ptrs'[i], events |-> sockets'[i].events]
          /\ reportOf'[sockets'[i].fd] = sockets'[i].revents \cap Interests
      BY <1>1, <3>1 DEF Mapped
    <3>3. QED BY <3>1, <3>2
  <2>4. sockets'[i].events \in SUBSET Interests
    <3>1. sockets' \in Seq(PollFd)  BY DEF IInv, TypeOK, HandlerTypeOK
    <3>2. sockets'[i] \in PollFd  BY <1>3, <3>1, ElementOfSeq DEF Indexes
    <3>3. QED BY <3>2 DEF PollFd
  <2>5. QED BY <1>2, <2>1, <2>2, <2>3, <2>4
<1>6. /\ registryOf = [x \in Registered |-> registryOf[x]]
      /\ reportOf = [x \in Registered |-> reportOf[x]]
      /\ registryOf' = [x \in Registered |-> registryOf'[x]]
      /\ reportOf' = [x \in Registered |-> reportOf'[x]]
  BY <1>1, <1>4 DEF Mapped
<1>7. reportOf' = reportOf
  <2>1. [x \in Registered |-> reportOf'[x]] = [x \in Registered |-> reportOf[x]]  BY <1>5
  <2>2. QED BY <1>6, <2>1
<1>8. pendingOf' = pendingOf
  <2>1. pc' = pc /\ cycle' = cycle  BY <1>2 DEF loopVars
  <2>2. StillReported' = StillReported  BY <1>4, <1>7, <2>1 DEF StillReported
  <2>3. QED BY <1>1, <2>1, <2>2 DEF Mapped
<1>9. cur' = cur  BY <1>2 DEF loopVars
<1>10. CASE fd \in Registered
  <2> DEFINE events == registryOf'[fd].events
  <2>1. registryOf' = [registryOf EXCEPT ![fd] = [registryOf[fd] EXCEPT !.events = events]]
    <3>1. registryOf'[fd] = [registryOf[fd] EXCEPT !.events = events]  BY <1>5, <1>10
    <3> HIDE DEF events
    <3>2. QED BY <1>5, <1>6, <1>10, <3>1
  <2>2. Registered = DOMAIN registryOf  BY <1>6
  <2>3. events \in SUBSET Interests  BY <1>5, <1>10
  <2> HIDE DEF events
  <2>4. Dispatch!SetEvents(fd, events)
    BY <1>7, <1>8, <1>9, <1>10, <2>1, <2>2 DEF Dispatch!SetEvents, Dispatch!Dispatched
  <2>5. QED BY <2>3, <2>4
<1>11. CASE fd \notin Registered
  <2>1. [x \in Registered |-> registryOf'[x]] = [x \in Registered |-> registryOf[x]]
    BY <1>5, <1>11
  <2>2. QED BY <1>6, <1>7, <1>8, <1>9, <2>1 DEF Dispatch!dispatchVars
<1>12. QED BY <1>10, <1>11

(* Whatever poll(2) returns, it leaves the registry alone, and what is     *)
(* written down in the vector is what the loop has to deliver.             *)
LEMMA StartLoopMaps ==
    ASSUME IInv, IInv', WalkInv, pc = "idle", ~Empty, NEW n, StartLoop(n),
           cycle'.delivered = {}, Indexes' = Indexes,
           \A i \in Indexes : /\ sockets'[i].fd = sockets[i].fd
                             /\ sockets'[i].events = sockets[i].events
    PROVE  /\ Registered # {} /\ Registered' = Registered
           /\ cur = NoCall /\ cur' = NoCall
           /\ registryOf' = registryOf
           /\ pendingOf' = Dispatch!EventsOf(reportOf')
<1>1. Mapped /\ Mapped'  BY MappedHere, MappedNext
<1>2. /\ Registered = {sockets[i].fd : i \in Indexes}
      /\ Registered' = {sockets'[i].fd : i \in Indexes'}
  BY <1>1 DEF Mapped
<1>3. Registered' = Registered  BY <1>2
<1>4. Registered # {}
  <2>1. Len(sockets) \in Nat \ {0}  BY EmptySeq DEF IInv, TypeOK, HandlerTypeOK, Empty
  <2>2. 1 \in Indexes  BY <2>1 DEF Indexes
  <2>3. QED BY <1>2, <2>2
<1>5. cur = NoCall /\ cur' = NoCall  BY DEF WalkInv, CallInv, StartLoop
<1>6. ASSUME NEW x \in Registered
      PROVE  registryOf'[x] = registryOf[x]
  <2>1. PICK i \in Indexes : sockets[i].fd = x  BY <1>2
  <2>2. registryOf[x] = [ptr |-> socket_ptrs[i], events |-> sockets[i].events]
    BY <1>1, <2>1 DEF Mapped
  <2>3. registryOf'[sockets'[i].fd] = [ptr |-> socket_ptrs'[i], events |-> sockets'[i].events]
    BY <1>1 DEF Mapped
  <2>4. QED BY <2>1, <2>2, <2>3 DEF StartLoop
<1>7. /\ registryOf = [x \in Registered |-> registryOf[x]]
      /\ registryOf' = [x \in Registered |-> registryOf'[x]]
      /\ DOMAIN reportOf' = Registered'
  BY <1>1, <1>3 DEF Mapped
<1>8. registryOf' = registryOf
  <2>1. [x \in Registered |-> registryOf'[x]] = [x \in Registered |-> registryOf[x]]  BY <1>6
  <2>2. QED BY <1>7, <2>1
<1>9. pendingOf' = Dispatch!EventsOf(reportOf')
  <2>1. pendingOf' = StillReported'  BY <1>1 DEF Mapped, StartLoop
  <2>2. QED BY <1>7, <2>1 DEF StillReported, Dispatch!EventsOf
<1>10. QED BY <1>3, <1>4, <1>5, <1>8, <1>9

(* poll(2) succeeds: it reports of each descriptor what was asked for.     *)
LEMMA PollReturnsImplements ==
    IInv /\ IInv' /\ WalkInv /\ PollReturns => Dispatch!PollSucceeds
<1> SUFFICES ASSUME IInv, IInv', WalkInv, PollReturns PROVE Dispatch!PollSucceeds  OBVIOUS
<1>1. PICK revents \in [Indexes -> SUBSET Flags] :
         /\ \A i \in Indexes : revents[i] \subseteq Reportable(i)
         /\ sockets' = WithRevents(revents)
         /\ StartLoop(Cardinality({i \in Indexes : revents[i] # {}}))
  BY DEF PollReturns
<1>2. pc = "idle" /\ ~Empty /\ cycle'.delivered = {}  BY DEF PollReturns, NoCycle
<1>3. /\ Indexes' = Indexes
      /\ \A i \in Indexes : /\ sockets'[i].fd = sockets[i].fd
                            /\ sockets'[i].events = sockets[i].events
                            /\ sockets'[i].revents = revents[i]
  BY <1>1, WithReventsFacts DEF StartLoop
<1>4. /\ Registered # {} /\ Registered' = Registered
      /\ cur = NoCall /\ cur' = NoCall
      /\ registryOf' = registryOf
      /\ pendingOf' = Dispatch!EventsOf(reportOf')
  BY <1>1, <1>2, <1>3, StartLoopMaps
<1>5. Mapped /\ Mapped'  BY MappedHere, MappedNext
<1>6. ASSUME NEW x \in Registered
      PROVE  reportOf'[x] \subseteq registryOf[x].events /\ reportOf'[x] \in SUBSET Interests
  <2>1. PICK i \in Indexes : sockets[i].fd = x  BY <1>5 DEF Mapped
  <2>2. registryOf[x] = [ptr |-> socket_ptrs[i], events |-> sockets[i].events]
    BY <1>5, <2>1 DEF Mapped
  <2>3. reportOf'[sockets'[i].fd] = sockets'[i].revents \cap Interests
    BY <1>3, <1>5 DEF Mapped
  <2>4. revents[i] \subseteq sockets[i].events \cup (Flags \ Interests)
    BY <1>1 DEF Reportable
  <2>5. QED BY <1>3, <2>1, <2>2, <2>3, <2>4
<1>7. reportOf' = [x \in Registered |-> reportOf'[x]] /\ DOMAIN registryOf = Registered
  BY <1>4, <1>5 DEF Mapped
<1>8. reportOf' \in [Registered -> SUBSET Interests]  BY <1>6, <1>7
<1>9. QED BY <1>4, <1>6, <1>7, <1>8 DEF Dispatch!PollSucceeds, Dispatch!Dispatched

(* poll(2) fails: what it wrote down before stands again, or is gone.      *)
LEMMA PollFailsImplements ==
    IInv /\ IInv' /\ WalkInv /\ PollFails => Dispatch!PollErrs
<1> SUFFICES ASSUME IInv, IInv', WalkInv, PollFails PROVE Dispatch!PollErrs  OBVIOUS
<1> DEFINE none == [i \in Indexes |-> {}]
<1>1. /\ pc = "idle" /\ ~Empty /\ StartLoop(-1) /\ cycle'.delivered = {}
      /\ sockets' \in {sockets, WithRevents(none)}
  BY DEF PollFails, NoCycle
<1>2. none \in [Indexes -> SUBSET Flags] /\ \A i \in Indexes : none[i] = {}  OBVIOUS
<1> HIDE DEF none
<1>3. Mapped /\ Mapped'  BY MappedHere, MappedNext
<1>4. CASE sockets' = sockets
  <2>1. Indexes' = Indexes  BY <1>4 DEF Indexes
  <2>2. reportOf' = reportOf  BY <1>1, <1>4, SameEntries DEF StartLoop
  <2>3. /\ Registered # {} /\ cur = NoCall /\ cur' = NoCall /\ registryOf' = registryOf
        /\ pendingOf' = Dispatch!EventsOf(reportOf')
    BY <1>1, <1>4, <2>1, StartLoopMaps
  <2>4. DOMAIN registryOf = Registered  BY <1>3 DEF Mapped
  <2>5. QED BY <2>2, <2>3, <2>4 DEF Dispatch!PollErrs, Dispatch!Dispatched
<1>5. CASE sockets' = WithRevents(none)
  <2>1. /\ Indexes' = Indexes
        /\ \A i \in Indexes : /\ sockets'[i].fd = sockets[i].fd
                              /\ sockets'[i].events = sockets[i].events
                              /\ sockets'[i].revents = {}
    BY <1>1, <1>2, <1>5, WithReventsFacts DEF StartLoop
  <2>2. /\ Registered # {} /\ Registered' = Registered
        /\ cur = NoCall /\ cur' = NoCall /\ registryOf' = registryOf
        /\ pendingOf' = Dispatch!EventsOf(reportOf')
    BY <1>1, <2>1, StartLoopMaps
  <2>3. ASSUME NEW x \in Registered
        PROVE  reportOf'[x] = {}
    <3>1. PICK i \in Indexes : sockets[i].fd = x  BY <1>3 DEF Mapped
    <3>2. reportOf'[sockets'[i].fd] = sockets'[i].revents \cap Interests
      BY <1>3, <2>1 DEF Mapped
    <3>3. QED BY <2>1, <3>1, <3>2
  <2>4. reportOf' = [x \in Registered |-> reportOf'[x]] /\ DOMAIN registryOf = Registered
    BY <1>3, <2>2 DEF Mapped
  <2>5. reportOf' = [x \in Registered |-> {}]  BY <2>3, <2>4
  <2>6. QED BY <2>2, <2>4, <2>5 DEF Dispatch!PollErrs, Dispatch!Dispatched
<1>6. QED BY <1>1, <1>4, <1>5

(* on_readable() or on_writeable() is called: on the object the descriptor *)
(* is registered for, for an event that is still to be delivered.          *)
LEMMA StartImplements ==
    ASSUME IInv, IInv', WalkInv, Starts
    PROVE  \E fd \in Fds, event \in Interests : Dispatch!Deliver(fd, event)
<1>1. PICK event \in Interests :
         /\ it \in Indexes /\ event \in sockets[it].revents
         /\ Call(event, handler_ref')
         /\ <<sockets[it].fd, event>> \notin cycle.delivered
         /\ pc = "scan" \/ (pc = "in_cb" /\ changes = 0)
  BY StartFacts
<1> DEFINE fd == sockets[it].fd
<1>2. fd \in Fds  BY <1>1, HandlerFacts DEF IInv, TypeOK, HandlerInv, PollFd
<1>3. Mapped /\ Mapped'  BY MappedHere, MappedNext
<1>4. fd \in Registered /\ registryOf[fd].ptr = socket_ptrs[it] /\ event \in reportOf[fd]
  <2>1. registryOf[fd] = [ptr |-> socket_ptrs[it], events |-> sockets[it].events]
    BY <1>1, <1>3 DEF Mapped
  <2>2. fd \in Registered /\ reportOf[fd] = sockets[it].revents \cap Interests
    BY <1>1, <1>3 DEF Mapped
  <2>3. QED BY <1>1, <2>1, <2>2
<1>5. /\ cur' = [fd |-> fd, ptr |-> socket_ptrs[it], event |-> event]
      /\ UNCHANGED <<sockets, socket_ptrs>>
      /\ cycle'.delivered = cycle.delivered \cup {<<fd, event>>}
      /\ pc' # "idle"
  BY <1>1 DEF Call, handlerVars, IInv, TypeOK, Cycles
<1>6. cur = NoCall \/ cur = [fd |-> fd, ptr |-> socket_ptrs[it], event |-> "POLLIN"]
  <2>1. CASE pc = "scan"  BY <2>1 DEF WalkInv, CallInv
  <2>2. CASE pc = "in_cb" /\ changes = 0
    <3>1. cur \in Calls /\ cur.event = "POLLIN"
      BY <2>2 DEF IInv, TypeOK, WalkInv, CallInv
    <3>2. cur.fd = fd /\ cur.ptr = socket_ptrs[it]  BY <2>2 DEF IInv, CursorInv
    <3>3. QED BY <3>1, <3>2 DEF Calls
  <2>3. QED BY <1>1, <2>1, <2>2
<1> HIDE DEF fd
<1>7. registryOf' = registryOf /\ reportOf' = reportOf  BY <1>5, SameEntries
<1>8. <<fd, event>> \in pendingOf /\ pendingOf' = pendingOf \ {<<fd, event>>}
  <2>1. pc # "idle"  BY <1>1
  <2>2. pendingOf = StillReported /\ pendingOf' = StillReported'
    BY <1>3, <1>5, <2>1 DEF Mapped
  <2>3. Registered' = Registered  BY <1>5 DEF Registered
  <2>4. StillReported' = StillReported \ {<<fd, event>>}
    BY <1>5, <1>7, <2>3 DEF StillReported
  <2>5. <<fd, event>> \in StillReported
    BY <1>1, <1>4 DEF StillReported, fd
  <2>6. QED BY <2>2, <2>4, <2>5
<1>9. Dispatch!Deliver(fd, event)
  BY <1>4, <1>5, <1>6, <1>7, <1>8 DEF Dispatch!Deliver
<1>10. QED BY <1>2, <1>9

(* break, or the end of the vector.                                        *)
LEMMA LeaveImplements ==
    ASSUME IInv, IInv', Leave
    PROVE  Dispatch!Finish
<1>1. registryOf' = registryOf /\ reportOf' = reportOf  BY SameEntries DEF Leave, handlerVars
<1>2. pendingOf' = {}  BY MappedNext DEF Mapped, Leave
<1>3. QED BY <1>1, <1>2 DEF Leave, Dispatch!Finish

(* The walk goes on to the next entry, after a callback or without one.    *)
LEMMA AdvanceImplements ==
    ASSUME IInv, IInv', WalkInv, LoopStep, ~Starts, ~Leave
    PROVE  Dispatch!Return \/ UNCHANGED Dispatch!dispatchVars
<1>1. /\ UNCHANGED <<handlerVars, cycle>> /\ pc' = "scan"
      /\ cur' = NoCall \/ (cur' = cur /\ pc = "scan")
  BY LoopStepCases
<1>2. pc # "idle"
  BY DEF LoopStep, Scan, ScanEnd, ScanSkip, ScanRead, ScanWrite, ScanError, AtEntry,
         ReadReturns, WriteReturns
<1>3. Mapped /\ Mapped'  BY MappedHere, MappedNext
<1>4. registryOf' = registryOf /\ reportOf' = reportOf
  BY <1>1, SameEntries DEF handlerVars
<1>5. pendingOf' = pendingOf
  <2>1. Registered' = Registered  BY <1>1 DEF Registered, handlerVars
  <2>2. StillReported' = StillReported  BY <1>1, <1>4, <2>1 DEF StillReported
  <2>3. QED BY <1>1, <1>2, <1>3, <2>2 DEF Mapped
<1>6. QED BY <1>1, <1>4, <1>5 DEF Dispatch!Return, Dispatch!dispatchVars

(* Whatever the callbacks do to the handler, poll_impl only ever runs      *)
(* on_readable() and on_writeable() on the object a descriptor is          *)
(* registered for at that moment, for an event written down for it since   *)
(* it was registered, and once per call of events::poll.                   *)
THEOREM LoopImplementsDispatch == Spec => ImplementsDispatch
<1>1. IInv /\ IInv' /\ WalkInv /\ [Next]_vars =>
         [Dispatch!DispatchNext]_(Dispatch!dispatchVars)
  <2> SUFFICES ASSUME IInv, IInv', WalkInv, [Next]_vars
               PROVE  Dispatch!DispatchNext \/ UNCHANGED Dispatch!dispatchVars
    OBVIOUS
  <2>1. CASE UserStep
    <3>1. ASSUME NEW fd \in Fds, NEW ptr \in Owners[fd], Add(fd, ptr)
          PROVE  Dispatch!DispatchNext
      BY <3>1, AddImplements DEF Dispatch!DispatchNext
    <3>2. ASSUME NEW fd \in Fds, Delete(fd)
          PROVE  Dispatch!DispatchNext \/ UNCHANGED Dispatch!dispatchVars
      BY <3>2, DeleteImplements DEF Dispatch!DispatchNext
    <3>3. ASSUME NEW fd \in Fds, NEW active \in BOOLEAN, Want(fd, active)
          PROVE  Dispatch!DispatchNext \/ UNCHANGED Dispatch!dispatchVars
      BY <3>3, WantImplements DEF Dispatch!DispatchNext
    <3>4. QED BY <2>1, <3>1, <3>2, <3>3 DEF UserStep
  <2>2. CASE PollReturns \/ PollFails
    BY <2>2, PollReturnsImplements, PollFailsImplements DEF Dispatch!DispatchNext
  <2>3. CASE LoopStep
    <3>1. CASE Starts  BY <3>1, StartImplements DEF Dispatch!DispatchNext
    <3>2. CASE Leave  BY <3>2, LeaveImplements DEF Dispatch!DispatchNext
    <3>3. CASE ~Starts /\ ~Leave
      BY <2>3, <3>3, AdvanceImplements DEF Dispatch!DispatchNext
    <3>4. QED BY <3>1, <3>2, <3>3
  <2>4. CASE UNCHANGED vars
    <3>1. UNCHANGED <<sockets, socket_ptrs, pc, cur, cycle>>
      BY <2>4 DEF vars, handlerVars, loopVars
    <3>2. registryOf' = registryOf /\ reportOf' = reportOf  BY <3>1, SameEntries
    <3>3. Registered' = Registered  BY <3>1 DEF Registered
    <3>4. StillReported' = StillReported  BY <3>1, <3>2, <3>3 DEF StillReported
    <3>5. pendingOf' = pendingOf  BY <3>1, <3>4, MappedHere, MappedNext DEF Mapped
    <3>6. QED BY <3>1, <3>2, <3>5 DEF Dispatch!dispatchVars
  <2>5. QED BY <2>1, <2>2, <2>3, <2>4 DEF Next
<1>2. QED
  BY <1>1, InitImplements, WalkInvInvariant, PTL
     DEF Spec, ImplementsDispatch, Dispatch!DispatchSpec

=============================================================================
