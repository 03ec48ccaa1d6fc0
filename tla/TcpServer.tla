----------------------------- MODULE TcpServer -----------------------------
(***************************************************************************)
(* unisock::tcp::server: listeners that accept clients, their hooks, and   *)
(* close().                                                                *)
(***************************************************************************)
EXTENDS SocketContainer

Listeners == "listeners"
Clients == "clients"

(* The actions user code may hook on a server.                             *)
ServerHooks == CommonHooks \cup {"ERROR", "LISTEN", "ACCEPT", "DISCONNECT"}

AcceptTask == [do |-> "accept"]

-----------------------------------------------------------------------------
(* What the application and the hooks call.                                *)

(* server::listen: socket(), the map, then getaddrinfo(), bind() and       *)
(* listen(), each of which may fail.  Every failure executes ERROR; from   *)
(* getaddrinfo() on it then closes the socket.                             *)
ListenFailsToOpen ==
    /\ MayCall("listen") /\ UserCalls(<<ErrorTask>>)
    /\ UNCHANGED <<open, objects, dispatchVars>>

ListenNotInserted ==
    /\ MayCall("listen") /\ MakeSocketFails(Listeners)
    /\ UserCalls(<<ErrorTask>>)

Listen(obj) ==
    /\ MayCall("listen") /\ MakeSocket(Listeners, obj, "CLOSED")
    /\ \/ UserCalls(<<HookTask("LISTEN", obj)>>)
       \/ UserCalls(<<ErrorTask, CloseTask(obj)>>)

(* A mutation of CloseServer: the ERROR hook of a listen() that has still  *)
(* to close its socket closes the server.                                  *)
CloseServerAnywhere ==
    /\ MayCall("close_server")
    /\ UserCalls(<<DrainTask(Clients), DrainTask(Listeners)>>)
    /\ UNCHANGED <<open, objects, dispatchVars>>

(* server::close: clients first, then listeners.                           *)
CloseServer ==
    /\ MayCall("close_server") /\ SafeToDrain(Listeners)
    /\ UserCalls(<<DrainTask(Clients), DrainTask(Listeners)>>)
    /\ UNCHANGED <<open, objects, dispatchVars>>

-----------------------------------------------------------------------------
(* What events::poll calls: on_readable() of a socket it was told of.      *)

ReadableListeners ==
    {fd \in Dispatched : objects[registry[fd].ptr].container = Listeners}

(* server::accept, the READABLE callback of a listener: ::accept fails, or *)
(* returns a descriptor.                                                   *)
AcceptFails ==
    /\ todo = <<>> /\ \E fd \in ReadableListeners : Deliver(fd, "POLLIN")
    /\ todo' = <<ErrorTask>>
    /\ UNCHANGED <<open, objects>>

AcceptStarts ==
    /\ todo = <<>> /\ CanOpen
    /\ \E fd \in ReadableListeners : Deliver(fd, "POLLIN")
    /\ todo' = <<AcceptTask>>
    /\ UNCHANGED <<open, objects>>

(* make_socket, the hooks of the client, ACCEPT.  AcceptInserts shows that *)
(* make_socket cannot fail here.                                           *)
Accept(obj) ==
    /\ Running("accept") /\ MakeSocket(Clients, obj, "DISCONNECT")
    /\ ReplaceBy(<<HookTask("ACCEPT", obj)>>)

-----------------------------------------------------------------------------
ServerCalls ==
    \/ ListenFailsToOpen \/ ListenNotInserted \/ CloseServer
    \/ \E obj \in Ptrs \ Live : Listen(obj)

ServerDispatch == AcceptFails \/ AcceptStarts \/ Receive(Clients)

ServerStep == \E obj \in Ptrs \ Live : Accept(obj)

-----------------------------------------------------------------------------
(* "insert could have failed and returned a nullptr however this should    *)
(* not happen" (server.hpp): no client that lost its descriptor is still   *)
(* in the map when the kernel hands the descriptor out again.              *)
AcceptInserts == Running("accept") => ~HasKey(Clients, LowestFree)

=============================================================================
