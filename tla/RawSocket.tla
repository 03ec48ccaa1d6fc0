----------------------------- MODULE RawSocket -----------------------------
(***************************************************************************)
(* unisock::raw::socket: a socket that user code declares itself, opens,   *)
(* binds and closes any number of times, and reads by itself: the library  *)
(* only tells it that the socket is readable.                              *)
(***************************************************************************)
EXTENDS SocketContainer

(* The actions a raw socket adds to those of every socket, of which        *)
(* READABLE and CLOSED are user code's as well.                            *)
RawHooks == {"RECVMSG", "RECVFROM"}
BasicHooks == {"READABLE", "SOCKET_CLOSED"}

-----------------------------------------------------------------------------
(* socket::open, which gives the object a descriptor and its handler an    *)
(* entry.                                                                  *)
OpenSocket(obj) ==
    /\ CanOpen /\ BaseOpen
    /\ objects' = [objects EXCEPT ![obj].sock = LowestFree]
    /\ Register(LowestFree, obj)

(* Opening an open socket would overwrite its descriptor: user code must   *)
(* see to it that it does not.                                             *)
RawOpen(obj) ==
    /\ MayCall("raw_open") /\ objects[obj].sock = -1
    /\ OpenSocket(obj) /\ UserCalls(<<>>)

RawOpenFails(obj) ==
    /\ MayCall("raw_open") /\ objects[obj].sock = -1
    /\ UserCalls(<<ErrorTask>>)
    /\ UNCHANGED <<open, objects, dispatchVars>>

(* on_readable() executes READABLE, where user code may read, or not.      *)
RawReadable ==
    \E fd \in Dispatched :
        /\ todo = <<>> /\ registry[fd].ptr \in RawSockets
        /\ Deliver(fd, "POLLIN")
        /\ todo' = <<HookTask("READABLE", registry[fd].ptr)>>
        /\ UNCHANGED <<open, objects>>

(* recvmsg() and recvfrom() do not wait: a message and its hook, or ERROR. *)
RawReceives(obj) ==
    /\ MayCall("raw_receive") /\ objects[obj].sock >= 0
    /\ \/ \E hook \in RawHooks : UserCalls(<<HookTask(hook, obj)>>)
       \/ UserCalls(<<ErrorTask>>)
    /\ UNCHANGED <<open, objects, dispatchVars>>

(* socket::bind, sendmsg() and send_to(): only a failure is seen by user   *)
(* code.                                                                   *)
RawCallFails(obj) ==
    /\ MayCall("raw_send") /\ objects[obj].sock >= 0
    /\ UserCalls(<<ErrorTask>>)
    /\ UNCHANGED <<open, objects, dispatchVars>>

-----------------------------------------------------------------------------
RawCalls ==
    \E obj \in RawSockets :
        RawOpen(obj) \/ RawOpenFails(obj) \/ RawReceives(obj) \/ RawCallFails(obj)

=============================================================================
