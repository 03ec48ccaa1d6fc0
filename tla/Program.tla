------------------------------- MODULE Program ------------------------------
(***************************************************************************)
(* A program with a tcp::server, a tcp::client, raw::sockets and           *)
(* udp::sockets on one handler, as the constructors that take a handler    *)
(* allow.  They share the handler, the descriptors of the process, the     *)
(* thread and the hooks' author.                                           *)
(***************************************************************************)
EXTENDS TcpServer, TcpClient, UdpSocket

ASSUME ContainersAssumption == {Listeners, Clients, Connections} \subseteq Containers

vars == <<dispatchVars, lifeVars>>

Init == ContainerInit

UserStep ==
    ServerCalls \/ ClientCalls \/ RawCalls \/ UdpCalls \/ \E obj \in Live : UserClose(obj)

PollStep ==
    Poll \/ BackToPoll \/ ServerDispatch \/ ClientDispatch \/ RawReadable \/ UdpReceive

LibraryStep == Close \/ Erase \/ Drain \/ ServerStep \/ UdpBound

Next == UserStep \/ PollStep \/ LibraryStep \/ HookReturns

Spec == Init /\ [][Next]_vars

(* The library runs on and hooks return; nothing makes the application     *)
(* call anything.                                                          *)
FairSpec == Spec /\ WF_vars(LibraryStep \/ HookReturns)

-----------------------------------------------------------------------------
(* When server::close() returns, the server holds no socket any more: no   *)
(* hook of a socket closed late brings one back into a container drained   *)
(* before.                                                                 *)
CloseLeavesNothing ==
    [][Running("drain") /\ Head(todo) = DrainTask(Listeners) /\ Len(todo') < Len(todo)
            => Sockets(Clients) \cup Sockets(Listeners) = {}]_vars

(* Every call of the library returns, close() of a container included:     *)
(* "will call basic_actions::CLOSE handler that deletes the socket from    *)
(* the std::map" (socket_container.hpp) is why its loop ends.              *)
CallsReturn == todo # <<>> ~> todo = <<>>

(* "insert error, should not happen unless socket was not previously       *)
(* deleted" (socket_container.hpp).  Not so for a connection opened again  *)
(* by the CLOSED hook of the one that was lost: the kernel hands out the   *)
(* same descriptor, whose old entry the eraser has not removed yet.        *)
InsertNeverFails == [][~ListenNotInserted /\ ~ConnectNotInserted]_vars

=============================================================================
