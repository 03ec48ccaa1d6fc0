----------------------------- MODULE ActionList -----------------------------
(***************************************************************************)
(* unisock::events::action: the list of callbacks of one action, as a      *)
(* sequence of records with a set of flags each.  A callback has whatever  *)
(* other fields the module that uses the list gives it.                    *)
(***************************************************************************)
EXTENDS SequencesExt

ActionFlags == {"SKIP", "STOP_AFTER", "QUEUE_END"}

Queued(callback) == "QUEUE_END" \in callback.flags

(* A mutation of AddCallback: the base() of the reverse iterator is        *)
(* forgotten, the new callback lands one place too early.                  *)
AddCallbackEarly(list, callback) ==
    LET behind == SelectLastInSeq(list, LAMBDA c : ~Queued(c)) IN
    InsertAt(list, IF behind = 0 THEN 1 ELSE behind, callback)

(* Another: QUEUE_END is only looked at on the new callback.               *)
AddCallbackBack(list, callback) ==
    IF Queued(callback) THEN Append(list, callback)
    ELSE InsertAt(list, SelectLastInSeq(list, LAMBDA c : ~Queued(c)) + 1, callback)

(* action::add_callback: the reverse search stops at the last callback     *)
(* that is not queued at the end, and inserts behind it, whatever flags    *)
(* the new callback has.                                                   *)
AddCallback(list, callback) ==
    InsertAt(list, SelectLastInSeq(list, LAMBDA c : ~Queued(c)) + 1, callback)

(* The places of the callbacks action::execute calls: those that are not   *)
(* skipped, up to the first of them that stops it.                         *)
CalledPlaces(list) ==
    LET kept == {i \in 1 .. Len(list) : "SKIP" \notin list[i].flags}
        stops == {i \in kept : "STOP_AFTER" \in list[i].flags}
    IN  {i \in kept : \A s \in stops : i <= s}

Kth(places, k) == CHOOSE i \in places : Cardinality({j \in places : j <= i}) = k

(* Those callbacks, in order.                                              *)
Executed(list) ==
    LET places == CalledPlaces(list) IN
    [k \in 1 .. Cardinality(places) |-> list[Kth(places, k)]]

=============================================================================
