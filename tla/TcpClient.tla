----------------------------- MODULE TcpClient -----------------------------
(***************************************************************************)
(* unisock::tcp::client: connections opened by connect(), and close().     *)
(***************************************************************************)
EXTENDS SocketContainer

Connections == "connections"

(* The actions user code may hook on a client.                             *)
ClientHooks == CommonHooks \cup {"ERROR", "CONNECT"}

-----------------------------------------------------------------------------
(* client::connect: socket(), the map, getaddrinfo(), connect().           *)

ConnectFailsToOpen ==
    /\ MayCall("connect") /\ UserCalls(<<ErrorTask>>)
    /\ UNCHANGED <<open, objects, dispatchVars>>

ConnectNotInserted ==
    /\ MayCall("connect") /\ MakeSocketFails(Connections)
    /\ UserCalls(<<ErrorTask>>)

(* Success executes CONNECT.  When getaddrinfo() fails ERROR comes before  *)
(* the close, when connect() fails after it.                               *)
Connect(obj) ==
    /\ MayCall("connect") /\ MakeSocket(Connections, obj, "CLOSED")
    /\ \/ UserCalls(<<HookTask("CONNECT", obj)>>)
       \/ UserCalls(<<ErrorTask, CloseTask(obj)>>)
       \/ UserCalls(<<CloseTask(obj), ErrorTask>>)

(* client::close                                                           *)
CloseClient ==
    /\ MayCall("close_client") /\ SafeToDrain(Connections)
    /\ UserCalls(<<DrainTask(Connections)>>)
    /\ UNCHANGED <<open, objects, dispatchVars>>

-----------------------------------------------------------------------------
ClientCalls ==
    \/ ConnectFailsToOpen \/ ConnectNotInserted \/ CloseClient
    \/ \E obj \in Ptrs \ Live : Connect(obj)

ClientDispatch == Receive(Connections)

=============================================================================
