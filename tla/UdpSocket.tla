----------------------------- MODULE UdpSocket -----------------------------
(***************************************************************************)
(* unisock::udp::socket over raw::socket: a socket that user code declares *)
(* itself, opens or binds, and closes, any number of times.  It reads by   *)
(* itself, and remaps the hooks of the raw socket to its own.              *)
(***************************************************************************)
EXTENDS RawSocket

(* The actions of its own that user code may hook on a udp socket.         *)
UdpHooks == {"UDP_RECEIVE", "BIND", "UDP_CLOSED"}

BoundTask(obj) == [do |-> "bound", obj |-> obj]

-----------------------------------------------------------------------------
(* udp open: nothing to do for a socket that is open.                      *)
UdpOpen(obj) ==
    /\ MayCall("open")
    /\ objects[obj].sock < 0
    /\ OpenSocket(obj) /\ UserCalls(<<>>)

(* socket() fails; ERROR is executed.  bind() does not look at what open() *)
(* returned and goes on.                                                   *)
UdpOpenFails(obj) ==
    /\ objects[obj].sock < 0
    /\ \/ MayCall("open") /\ UserCalls(<<ErrorTask>>)
       \/ MayCall("bind") /\ UserCalls(<<ErrorTask, BoundTask(obj)>>)
    /\ UNCHANGED <<open, objects, dispatchVars>>

(* udp bind: "socket should not be bound more that once,, thus should be   *)
(* uninitialized" is asserted, and user code must see to it.               *)
UdpBind(obj) ==
    /\ MayCall("bind") /\ objects[obj].sock = -1
    /\ OpenSocket(obj) /\ UserCalls(<<BoundTask(obj)>>)

(* The rest of bind: addrinfo() or ::bind fails, as the latter must        *)
(* without a descriptor, or the socket is bound.  After a failure it stays *)
(* open.                                                                   *)
UdpBound ==
    /\ Running("bound")
    /\ LET obj == Head(todo).obj IN
       \/ ReplaceBy(<<ErrorTask>>)
       \/ objects[obj].sock >= 0 /\ ReplaceBy(<<HookTask("BIND", obj)>>)
    /\ UNCHANGED <<open, objects, dispatchVars>>

(* raw::socket::recvfrom, the READABLE callback: a message, remapped to    *)
(* RECEIVE, or an error.  Nothing closes the socket.                       *)
UdpReceive ==
    \E fd \in Dispatched :
        LET obj == registry[fd].ptr IN
        /\ todo = <<>> /\ obj \in UserSockets \ RawSockets
        /\ Deliver(fd, "POLLIN")
        /\ todo' \in {<<HookTask("UDP_RECEIVE", obj)>>, <<ErrorTask>>}
        /\ UNCHANGED <<open, objects>>

(* send_to and sendmsg: only a failure is seen by user code.               *)
UdpSendFails(obj) ==
    /\ MayCall("send_to") /\ objects[obj].sock >= 0
    /\ UserCalls(<<ErrorTask>>)
    /\ UNCHANGED <<open, objects, dispatchVars>>

-----------------------------------------------------------------------------
UdpCalls ==
    \E obj \in UserSockets \ RawSockets :
        UdpOpen(obj) \/ UdpOpenFails(obj) \/ UdpBind(obj) \/ UdpSendFails(obj)

=============================================================================
