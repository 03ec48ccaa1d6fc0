--------------------------- MODULE EventDispatch ---------------------------
(***************************************************************************)
(* What unisock::events::poll promises to the code above it, with no       *)
(* vectors, iterators or counters: a registry of the descriptors being     *)
(* polled, the events of the current call of events::poll that are still   *)
(* to be delivered, and the callback being run.                            *)
(*                                                                         *)
(* A callback runs on the object the descriptor is registered for now, for *)
(* an event poll(2) wrote down for it since it was registered, and at most *)
(* once per call.  A descriptor that is deleted, or deleted and added      *)
(* again, loses its pending events.                                        *)
(***************************************************************************)
EXTENDS Integers, Functions

CONSTANTS
    Fds, Ptrs, Owners,
    Interests,   \* the events a callback exists for
    NoCall       \* no callback is running

VARIABLES
    registry,  \* descriptor -> object and interests
    report,    \* descriptor -> what poll(2) last wrote down for it
    pending,   \* events of this call of events::poll not delivered yet
    call       \* the callback being run, or NoCall

dispatchVars == <<registry, report, pending, call>>

Dispatched == DOMAIN registry

DispatchInit ==
    /\ registry = <<>> /\ report = <<>>
    /\ pending = {} /\ call = NoCall

(* Replaces or adds the value of f at x.                                   *)
With(f, x, v) == [y \in DOMAIN f \cup {x} |-> IF y = x THEN v ELSE f[y]]

Register(fd, ptr) ==
    /\ fd \notin Dispatched
    /\ registry' = With(registry, fd, [ptr |-> ptr, events |-> {"POLLIN"}])
    /\ report' = With(report, fd, {})
    /\ UNCHANGED <<pending, call>>

Deregister(fd) ==
    /\ fd \in Dispatched
    /\ registry' = Restrict(registry, Dispatched \ {fd})
    /\ report' = Restrict(report, Dispatched \ {fd})
    /\ pending' = {e \in pending : e[1] # fd}
    /\ UNCHANGED call

SetEvents(fd, events) ==
    /\ fd \in Dispatched
    /\ registry' = [registry EXCEPT ![fd].events = events]
    /\ UNCHANGED <<report, pending, call>>

(* The events of a report.                                                 *)
EventsOf(r) == {e \in (DOMAIN r) \X Interests : e[2] \in r[e[1]]}

(* poll(2) succeeded: it only writes down what was asked for.              *)
PollSucceeds ==
    /\ call = NoCall /\ Dispatched # {}
    /\ report' \in [Dispatched -> SUBSET Interests]
    /\ \A fd \in Dispatched : report'[fd] \subseteq registry[fd].events
    /\ pending' = EventsOf(report')
    /\ UNCHANGED <<registry, call>>

(* poll(2) failed: the old report stands again, or is wiped.               *)
PollErrs ==
    /\ call = NoCall /\ Dispatched # {}
    /\ report' \in {report, [fd \in Dispatched |-> {}]}
    /\ pending' = EventsOf(report')
    /\ UNCHANGED <<registry, call>>

(* POLLOUT is delivered right after POLLIN of the same socket; otherwise   *)
(* a callback starts when none is running.                                 *)
Deliver(fd, event) ==
    /\ <<fd, event>> \in pending
    /\ call = NoCall
          \/ call = [fd |-> fd, ptr |-> registry[fd].ptr, event |-> "POLLIN"]
    /\ call' = [fd |-> fd, ptr |-> registry[fd].ptr, event |-> event]
    /\ pending' = pending \ {<<fd, event>>}
    /\ UNCHANGED <<registry, report>>

Return ==
    /\ call # NoCall /\ call' = NoCall
    /\ UNCHANGED <<registry, report, pending>>

(* events::poll returns, whether or not it delivered everything.           *)
Finish ==
    /\ call' = NoCall /\ pending' = {}
    /\ UNCHANGED <<registry, report>>

DispatchNext ==
    \/ \E fd \in Fds : \E ptr \in Owners[fd] : Register(fd, ptr)
    \/ \E fd \in Fds : Deregister(fd)
    \/ \E fd \in Fds, events \in SUBSET Interests : SetEvents(fd, events)
    \/ PollSucceeds
    \/ PollErrs
    \/ \E fd \in Fds, event \in Interests : Deliver(fd, event)
    \/ Return
    \/ Finish

DispatchSpec == DispatchInit /\ [][DispatchNext]_dispatchVars

=============================================================================
