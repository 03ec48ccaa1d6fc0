----------------------------- MODULE Standalone -----------------------------
(***************************************************************************)
(* The classes that do their work without a handler, one of them at a      *)
(* time: an action list, the sending side of a connection, a socket        *)
(* address.                                                                *)
(***************************************************************************)
EXTENDS ActionHandler, Connection, SocketAddress

VARIABLE class  \* the class there is an object of

standaloneVars == <<class, actionVars, connectionVars, addressVars>>

Init ==
    /\ class \in {"action_handler", "connection", "socket_address"}
    /\ ActionInit /\ ConnectionInit /\ AddressInit

Next ==
    /\ UNCHANGED class
    /\ \/ /\ class = "action_handler" /\ ActionNext
          /\ UNCHANGED <<connectionVars, addressVars>>
       \/ /\ class = "connection" /\ ConnectionNext
          /\ UNCHANGED <<actionVars, addressVars>>
       \/ /\ class = "socket_address" /\ AddressNext
          /\ UNCHANGED <<actionVars, connectionVars>>

(* Of the three, only a connection is promised anything by its             *)
(* surroundings.                                                           *)
Spec ==
    /\ Init /\ [][Next]_standaloneVars
    /\ class = "connection" => WF_connectionVars(FlushStep)

=============================================================================
