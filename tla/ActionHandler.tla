--------------------------- MODULE ActionHandler ---------------------------
(***************************************************************************)
(* One action of an unisock::events::action_handler: on() adds callbacks,  *)
(* execute() walks the list.  The walk is modelled one callback at a time, *)
(* and shown to call what ActionList!Executed says.                        *)
(*                                                                         *)
(* One of the callbacks may destroy the object the action belongs to, and  *)
(* the list with it.  A callback that calls on() for the action being      *)
(* executed is left out: the walk holds iterators into the vector on()     *)
(* inserts in, which is undefined behaviour.                               *)
(***************************************************************************)
EXTENDS ActionList, Integers

CONSTANT MaxCallbacks  \* bound on the calls of on()

ASSUME MaxCallbacksAssumption == MaxCallbacks \in Nat

VARIABLES
    executor_list,
    destroyer,      \* the callback that destroys the object, 0 for none
    alive,          \* is there still an object?
    pos,            \* position of the walk, 0 when execute() is not running
    ran             \* history: what the running or last walk called

actionVars == <<executor_list, destroyer, alive, pos, ran>>

Callbacks == [id : 1 .. MaxCallbacks, flags : SUBSET ActionFlags]

ActionInit ==
    /\ executor_list = <<>> /\ pos = 0 /\ ran = <<>>
    /\ destroyer \in 0 .. MaxCallbacks /\ alive = TRUE

(* action_handler::on: callbacks are numbered in the order they are added. *)
On(flags) ==
    /\ alive /\ pos = 0 /\ Len(executor_list) < MaxCallbacks
    /\ executor_list' = AddCallback(executor_list,
                            [id |-> Len(executor_list) + 1, flags |-> flags])
    /\ ran' = <<>>
    /\ UNCHANGED <<pos, destroyer, alive>>

(* action_handler::execute                                                 *)
Execute ==
    /\ alive /\ pos = 0 /\ pos' = 1 /\ ran' = <<>>
    /\ UNCHANGED <<executor_list, destroyer, alive>>

(* A callback runs; what it destroys is gone when it returns.              *)
Calls(executor) ==
    /\ ran' = Append(ran, executor)
    /\ alive' = (alive /\ executor.id # destroyer)

(* Mutations of Turn: the list is stopped before the STOP_AFTER callback;  *)
(* the walk looks at the callback once more before it stops.               *)
TurnStopsBefore ==
    /\ pos \in 1 .. Len(executor_list)
    /\ LET executor == executor_list[pos]
           stop == "STOP_AFTER" \in executor.flags
       IN  /\ pos' = IF stop THEN 0 ELSE pos + 1
           /\ ran' = IF stop \/ "SKIP" \in executor.flags THEN ran ELSE Append(ran, executor)
    /\ UNCHANGED <<executor_list, destroyer, alive>>

TurnLooksAgain ==
    /\ pos \in 1 .. Len(executor_list)
    /\ LET executor == executor_list[pos] IN
       IF executor \in ToSet(ran) THEN pos' = 0 /\ UNCHANGED <<ran, alive>>
       ELSE IF "SKIP" \in executor.flags THEN pos' = pos + 1 /\ UNCHANGED <<ran, alive>>
       ELSE /\ Calls(executor)
            /\ pos' = IF "STOP_AFTER" \in executor.flags THEN pos ELSE pos + 1
    /\ UNCHANGED <<executor_list, destroyer>>

(* One turn of the loop of action::execute; 0 ends the walk.               *)
Turn ==
    /\ pos \in 1 .. Len(executor_list)
    /\ LET executor == executor_list[pos] IN
       \/ "SKIP" \in executor.flags /\ pos' = pos + 1 /\ UNCHANGED <<ran, alive>>
       \/ /\ "SKIP" \notin executor.flags
          /\ Calls(executor)
          /\ pos' = IF "STOP_AFTER" \in executor.flags THEN 0 ELSE pos + 1
    /\ UNCHANGED <<executor_list, destroyer>>

(* The end the loop compares with was read before the first turn.          *)
WalkEnds ==
    /\ pos > Len(executor_list) /\ pos' = 0
    /\ UNCHANGED <<executor_list, destroyer, alive, ran>>

ActionNext ==
    \/ \E flags \in SUBSET ActionFlags : On(flags)
    \/ Execute \/ Turn \/ WalkEnds

ActionSpec == ActionInit /\ [][ActionNext]_actionVars

-----------------------------------------------------------------------------
(* The list is in the order the flags ask for: callbacks without QUEUE_END *)
(* in the order they were added, then the others, newest first ("the new   *)
(* action will be inserted before the already queued actions").            *)
Ordered ==
    \A i, j \in 1 .. Len(executor_list) : i < j =>
        LET a == executor_list[i]
            b == executor_list[j]
        IN  IF Queued(a) THEN Queued(b) /\ a.id > b.id ELSE Queued(b) \/ a.id < b.id

(* A finished walk called exactly what Executed says, in that order.       *)
WalkIsExecuted ==
    pos = 0 /\ ran # <<>> => ran = Executed(executor_list)

(* What socket_container builds on: a callback added first, with QUEUE_END *)
(* and STOP_AFTER, is the last one called, whatever is added later and     *)
(* however it is flagged, unless another callback stops the list or it is  *)
(* itself skipped.  It is what destroys the object that owns the list.     *)
EraserRunsLast ==
    LET eraser(c) == c.id = 1 /\ c.flags = {"QUEUE_END", "STOP_AFTER"}
        others == {c \in ToSet(executor_list) : ~eraser(c)}
    IN  /\ pos = 0 /\ ran # <<>>
        /\ others # ToSet(executor_list)
        /\ \A c \in others : "STOP_AFTER" \notin c.flags
        => /\ eraser(Last(ran))
           /\ \A c \in others : "SKIP" \notin c.flags => c \in ToSet(ran)

(* "if this object is destroyed by the execution, should return now"       *)
(* (action_hanlder.hpp): execute() does not look at the list of a          *)
(* destroyed object any more, if the callback that destroys it is flagged  *)
(* STOP_AFTER or has nothing behind it, as the READABLE callback of a      *)
(* connection has unless user code adds one.                               *)
DestroyedListNotRead ==
    ~alive /\ pos \in 1 .. Len(executor_list) =>
        \E i \in 1 .. Len(executor_list) - 1 :
            executor_list[i].id = destroyer /\ "STOP_AFTER" \notin executor_list[i].flags

=============================================================================
