------------------------------ MODULE PollLoop ------------------------------
(***************************************************************************)
(* events::poll on a handler: the call to poll(2) and the loop of          *)
(* poll_impl<POLL> that turns the returned pollfds into calls of           *)
(* on_readable() and on_writeable().                                       *)
(*                                                                         *)
(* The program is single-threaded.  User code runs in three places: in the *)
(* application between two calls of events::poll (pc = "idle"), inside     *)
(* on_readable() (pc = "in_cb") and inside on_writeable() (pc = "out_cb"). *)
(* Wherever it runs it may call any operation of the handler, which is     *)
(* what the loop has to survive: it holds an iterator into the vector the  *)
(* callback changes.                                                       *)
(*                                                                         *)
(* A callback that polls the same handler again is not modelled here.      *)
(***************************************************************************)
EXTENDS PollHandler

CONSTANTS
    Owners,         \* Owners[fd]: the objects fd may be registered for
    MaxHookChanges  \* bound on add_socket and delete_socket per callback

ASSUME OwnersAssumption == Owners \in [Fds -> SUBSET Ptrs]

(* "the value can overflow as long as the overflowed value is not same as  *)
(* the old value" (polling_handler.hpp): what the counter asks of a        *)
(* callback.                                                               *)
ASSUME MaxHookChangesAssumption ==
    MaxHookChanges \in Nat /\ MaxHookChanges < RefModulus

VARIABLES
    pc,           \* where the thread is
    it,           \* index of the entry the iterator points to, 0 outside the loop
    handler_ref,  \* local of poll_impl
    n_changes,    \* local of poll_impl
    cur,          \* the callback being run: descriptor, object and event, or NoCall
    changes,      \* history: structural changes since handler_ref was read
    cycle         \* history: what this call of events::poll reported and delivered

loopVars == <<pc, it, handler_ref, n_changes, cur, changes, cycle>>
vars == <<handlerVars, loopVars>>

NoCall == [fd |-> "none", ptr |-> "none", event |-> "none"]
NoCycle == [reported |-> {}, delivered |-> {}, changed |-> FALSE, failed |-> FALSE]

Calls == [fd : Fds, ptr : Ptrs, event : Interests]
Events == Fds \X Flags
Cycles == [reported : SUBSET Events, delivered : SUBSET Events,
           changed : BOOLEAN, failed : BOOLEAN]
Callbacks == {"in_cb", "out_cb"}

Init ==
    /\ HandlerInit
    /\ pc = "idle" /\ it = 0 /\ handler_ref = 0 /\ n_changes = 0
    /\ cur = NoCall /\ changes = 0 /\ cycle = NoCycle

-----------------------------------------------------------------------------
(* User code calling the handler.                                          *)

UserCode == pc \in {"idle"} \cup Callbacks

(* A structural change counts against the callback that makes it.          *)
CountChange ==
    \/ pc = "idle" /\ UNCHANGED <<changes, cycle>>
    \/ /\ pc \in Callbacks /\ changes < MaxHookChanges
       /\ changes' = changes + 1
       /\ cycle' = [cycle EXCEPT !.changed = TRUE]

(* The kernel never hands out an open descriptor twice and a socket leaves *)
(* the handler before it is closed, so a descriptor is not added while it  *)
(* is registered.                                                          *)
Add(fd, ptr) ==
    /\ UserCode
    /\ fd \notin Registered
    /\ AddSocket(fd, ptr)
    /\ CountChange
    /\ UNCHANGED <<pc, it, handler_ref, n_changes, cur>>

Delete(fd) ==
    /\ UserCode
    /\ DeleteSocket(fd)
    /\ CountChange
    /\ UNCHANGED <<pc, it, handler_ref, n_changes, cur>>

Want(fd, active) ==
    /\ UserCode
    /\ \/ SocketWantRead(fd, active)
       \/ "POLLOUT" \in Flags /\ SocketWantWrite(fd, active)
    /\ UNCHANGED loopVars

-----------------------------------------------------------------------------
(* The call to poll(2).                                                    *)

Indexes == 1 .. Len(sockets)

(* The vector with the revents poll(2) wrote in it.                        *)
WithRevents(revents) ==
    [i \in Indexes |-> [sockets[i] EXCEPT !.revents = revents[i]]]

(* The flags poll(2) may report for entry i.                               *)
Reportable(i) == sockets[i].events \cup (Flags \ Interests)

(* Entry into the loop, n being what poll(2) returned.                     *)
StartLoop(n) ==
    /\ pc' = "scan" /\ it' = 1 /\ n_changes' = n
    /\ UNCHANGED <<socket_ptrs, invalid, handler_ref, cur, changes>>

(* poll(2) returns the number of entries with something to report; 0 is a  *)
(* timeout.  An empty handler is not polled.                               *)
PollReturns ==
    /\ pc = "idle" /\ ~Empty
    /\ \E revents \in [Indexes -> SUBSET Flags] :
          /\ \A i \in Indexes : revents[i] \subseteq Reportable(i)
          /\ sockets' = WithRevents(revents)
          /\ StartLoop(Cardinality({i \in Indexes : revents[i] # {}}))
          /\ cycle' = [NoCycle EXCEPT !.reported =
                         {e \in Events : \E i \in Indexes :
                             sockets[i].fd = e[1] /\ e[2] \in revents[i]}]

(* poll(2) returns -1, for instance on EINTR; the code does not look.      *)
(* Linux clears the revents of an interrupted call; the BSDs and macOS,    *)
(* whose sa_len the sources need, leave the array as it was.               *)
PollFails ==
    /\ pc = "idle" /\ ~Empty
    /\ sockets' \in {sockets, WithRevents([i \in Indexes |-> {}])}
    /\ StartLoop(-1)
    /\ cycle' = [NoCycle EXCEPT !.failed = TRUE]

-----------------------------------------------------------------------------
(* The loop of poll_impl.                                                  *)

(* break, or the end of the vector: events::poll returns.                  *)
Leave ==
    /\ pc' = "idle" /\ it' = 0 /\ handler_ref' = 0 /\ n_changes' = 0
    /\ cur' = NoCall /\ changes' = 0 /\ cycle' = NoCycle
    /\ UNCHANGED handlerVars

(* socket_ptrs[it - begin()]->on_readable() or ->on_writeable(), in an     *)
(* iteration that read ref.                                                *)
Call(event, ref) ==
    /\ pc' = IF event = "POLLIN" THEN "in_cb" ELSE "out_cb"
    /\ cur' = [fd |-> sockets[it].fd, ptr |-> socket_ptrs[it], event |-> event]
    /\ cycle' = [cycle EXCEPT !.delivered = @ \cup {<<sockets[it].fd, event>>}]
    /\ handler_ref' = ref
    /\ UNCHANGED <<handlerVars, it, n_changes, changes>>

(* Mutations of EndIteration: the counter is compared too early, the walk  *)
(* starts over after a change.                                             *)
EndIterationEarly(ref) ==
    \/ (n_changes \in {1, 2} \/ RefHasChanged(ref)) /\ Leave
    \/ /\ n_changes \notin {1, 2} /\ ~RefHasChanged(ref)
       /\ pc' = "scan" /\ it' = it + 1 /\ n_changes' = n_changes - 1
       /\ handler_ref' = ref /\ cur' = NoCall /\ changes' = 0
       /\ UNCHANGED <<handlerVars, cycle>>

EndIterationRestarts(ref) ==
    \/ n_changes = 1 /\ Leave
    \/ /\ n_changes # 1
       /\ pc' = "scan" /\ it' = (IF RefHasChanged(ref) THEN 1 ELSE it + 1)
       /\ n_changes' = n_changes - 1
       /\ handler_ref' = ref /\ cur' = NoCall /\ changes' = 0
       /\ UNCHANGED <<handlerVars, cycle>>

(* n_changes--, then break or ++it, in an iteration that read ref.         *)
EndIteration(ref) ==
    \/ (n_changes = 1 \/ RefHasChanged(ref)) /\ Leave
    \/ /\ n_changes # 1 /\ ~RefHasChanged(ref)
       /\ pc' = "scan" /\ it' = it + 1 /\ n_changes' = n_changes - 1
       /\ handler_ref' = ref /\ cur' = NoCall /\ changes' = 0
       /\ UNCHANGED <<handlerVars, cycle>>

(* it == end()                                                             *)
ScanEnd == pc = "scan" /\ it > Len(sockets) /\ Leave

AtEntry == pc = "scan" /\ it <= Len(sockets)

(* A mutation of ScanSkip: break instead of continue.                      *)
ScanSkipBreaks == AtEntry /\ sockets[it].revents = {} /\ Leave

(* revents == 0: continue.                                                 *)
ScanSkip ==
    /\ AtEntry /\ sockets[it].revents = {}
    /\ it' = it + 1 /\ handler_ref' = invalid
    /\ UNCHANGED <<handlerVars, pc, n_changes, cur, changes, cycle>>

(* A mutation of ScanRead: events is looked at instead of revents.         *)
ScanReadEvents ==
    /\ AtEntry /\ "POLLIN" \in sockets[it].events
    /\ Call("POLLIN", invalid)

ScanRead ==
    /\ AtEntry /\ "POLLIN" \in sockets[it].revents
    /\ Call("POLLIN", invalid)

ScanWrite ==
    /\ AtEntry
    /\ "POLLIN" \notin sockets[it].revents /\ "POLLOUT" \in sockets[it].revents
    /\ Call("POLLOUT", invalid)

(* Only POLLERR, POLLHUP or POLLNVAL: the entry is counted, and nobody is  *)
(* told.                                                                   *)
ScanError ==
    /\ AtEntry /\ sockets[it].revents = {"POLLERR"}
    /\ EndIteration(invalid)

Scan == ScanEnd \/ ScanSkip \/ ScanRead \/ ScanWrite \/ ScanError

(* on_readable() returned.                                                 *)
ReadReturns ==
    /\ pc = "in_cb"
    /\ \/ RefHasChanged(handler_ref) /\ Leave
       \/ /\ ~RefHasChanged(handler_ref)
          /\ \/ "POLLOUT" \in sockets[it].revents /\ Call("POLLOUT", handler_ref)
             \/ "POLLOUT" \notin sockets[it].revents /\ EndIteration(handler_ref)

(* on_writeable() returned.                                                *)
WriteReturns ==
    /\ pc = "out_cb"
    /\ EndIteration(handler_ref)

UserStep ==
    \/ \E fd \in Fds : \E ptr \in Owners[fd] : Add(fd, ptr)
    \/ \E fd \in Fds : Delete(fd)
    \/ \E fd \in Fds, active \in BOOLEAN : Want(fd, active)

LoopStep == Scan \/ ReadReturns \/ WriteReturns

Next == UserStep \/ PollReturns \/ PollFails \/ LoopStep

Spec == Init /\ [][Next]_vars

(* The application calls events::poll again and again, as every main() of  *)
(* the examples does, the loop runs on, and callbacks return.              *)
Fairness == WF_vars(PollReturns \/ PollFails) /\ WF_vars(LoopStep)

FairSpec == Spec /\ Fairness

-----------------------------------------------------------------------------
(* Types.                                                                  *)
TypeOK ==
    /\ HandlerTypeOK
    /\ pc \in {"idle", "scan"} \cup Callbacks
    /\ it \in Nat
    /\ handler_ref \in Refs
    /\ n_changes \in Int
    /\ cur \in Calls \cup {NoCall}
    /\ changes \in 0 .. MaxHookChanges
    /\ cycle \in Cycles

(* The two vectors stay paired: one object per descriptor, no descriptor   *)
(* twice, and the object at an index is one the descriptor may belong to.  *)
(* handler_impl.hpp says so of its vectors, poll_impl indexes the second   *)
(* with an iterator of the first, and no operation touches both at once.   *)
Paired ==
    /\ Len(sockets) = Len(socket_ptrs)
    /\ \A i, j \in Indexes : sockets[i].fd = sockets[j].fd => i = j
    /\ \A i \in Indexes : socket_ptrs[i] \in Owners[sockets[i].fd]

(* As long as ref_has_changed() answers no, the iterator of poll_impl      *)
(* still points to the entry whose callback runs, and socket_ptrs still    *)
(* holds its object at that index: the code may go on using both.          *)
CursorStable ==
    pc \in Callbacks /\ ~RefHasChanged(handler_ref) =>
        /\ it \in Indexes
        /\ sockets[it].fd = cur.fd
        /\ socket_ptrs[it] = cur.ptr

(* ref_has_changed() answers exactly whether a descriptor was added or     *)
(* deleted since get_ref(), in spite of the wraparound of the counter and  *)
(* of its uninitialised start.  That is what its name says and poll_impl   *)
(* relies on; its doc says the opposite, see RefSameAsDocumented.          *)
RefTracksChanges ==
    pc \in Callbacks => (RefHasChanged(handler_ref) <=> changes > 0)

(* "@return true if references are same" (polling_handler.hpp, of          *)
(* ref_has_changed): true as long as nothing was added or deleted.  Not    *)
(* so: it is true when they differ.                                        *)
RefSameAsDocumented ==
    pc \in Callbacks => (RefHasChanged(handler_ref) <=> changes = 0)

(* A callback only runs for an event the poll(2) of this call reported,    *)
(* provided it did not fail: no revents of an earlier call, of a deleted   *)
(* entry or of a neighbour is taken for this descriptor's.  A poll(2) that *)
(* fails and leaves the array alone has them dispatched once more.         *)
FreshEvents == ~cycle.failed => cycle.delivered \subseteq cycle.reported

(* A call of events::poll that ends undisturbed has delivered everything   *)
(* that was reported: neither the n_changes shortcut nor the breaks lose   *)
(* an event when no callback adds or deletes a descriptor.                 *)
CompleteCycle ==
    [][pc # "idle" /\ pc' = "idle" /\ ~cycle.failed /\ ~cycle.changed =>
          cycle.reported \cap (Fds \X Interests) \subseteq cycle.delivered]_vars

(* One call of events::poll runs no callback of a descriptor twice, even   *)
(* when the descriptor is deleted and added again meanwhile.               *)
AtMostOnce ==
    [][cur' # cur /\ cur' # NoCall => <<cur'.fd, cur'.event>> \notin cycle.delivered]_vars

(* A structural change ends the call: once a callback has changed the      *)
(* vectors, poll_impl dispatches nothing more from the array poll(2)       *)
(* filled.  It may have moved, so that nothing else would be safe; the     *)
(* price is EveryReadyIsCalled.                                            *)
ChangeEndsCycle ==
    [][cycle.changed => cycle'.delivered \subseteq cycle.delivered]_vars

-----------------------------------------------------------------------------
(* Whenever the descriptor is polled it is reported readable.              *)
StaysReady(fd) == pc # "idle" => <<fd, "POLLIN">> \in cycle.reported

Served(fd) == <<fd, "POLLIN">> \in cycle.delivered

(* A descriptor that stays registered and readable is read again and       *)
(* again, unless calls of events::poll keep being cut short, before its    *)
(* turn, by a callback that adds or deletes a descriptor.  Without that    *)
(* condition it does not hold: a listener at the front that accepts in     *)
(* every call starves the entries behind it.                               *)
ServedUnlessPreempted ==
    \A fd \in Fds :
        <>[](fd \in Registered /\ StaysReady(fd) /\ (cycle.changed => Served(fd)))
            => []<>Served(fd)

-----------------------------------------------------------------------------
(* The loop implements EventDispatch.  The registry and the report are the *)
(* two vectors read as functions of the descriptor; pending is what the    *)
(* revents still hold while the loop runs.                                 *)

registryOf ==
    [fd \in Registered |-> [ptr |-> socket_ptrs[Find(fd)],
                            events |-> sockets[Find(fd)].events]]

reportOf == [fd \in Registered |-> sockets[Find(fd)].revents \cap Interests]

pendingOf ==
    IF pc = "idle" THEN {}
    ELSE {e \in Registered \X Interests :
              e[2] \in sockets[Find(e[1])].revents} \ cycle.delivered

(* "this call will for every socket readable or writeable, respectively    *)
(* call the on_readable, and on_writeable members" (poll_impl.hpp): no     *)
(* event that poll(2) reported is left for a socket that is still          *)
(* registered.  Not so when a callback has added or deleted another one.   *)
EveryReadyIsCalled ==
    [][pc # "idle" /\ pc' = "idle" /\ ~cycle.failed => pendingOf = {}]_vars

Dispatch == INSTANCE EventDispatch
                WITH registry <- registryOf, report <- reportOf,
                     pending <- pendingOf, call <- cur

(* Whatever the callbacks do to the handler, poll_impl only ever runs      *)
(* on_readable() and on_writeable() on the object a descriptor is          *)
(* registered for at that moment, for an event written down for it since   *)
(* it was registered, and once per call of events::poll.                   *)
ImplementsDispatch == Dispatch!DispatchSpec

=============================================================================
