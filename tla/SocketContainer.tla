-------------------------- MODULE SocketContainer --------------------------
(***************************************************************************)
(* Sockets from open() to the destruction of their object:                 *)
(* unisock::socket, unisock::socket_container and the CLOSED action that   *)
(* ties them, over the handler (EventDispatch) and the descriptors of the  *)
(* kernel.  TcpServer, TcpClient and UdpSocket are built on it.            *)
(*                                                                         *)
(* The library is single-threaded and calls user hooks in the middle of    *)
(* its own operations, which call the library again.  `todo` is that call  *)
(* stack: the tasks still to be run, innermost first.  A task that calls   *)
(* something is replaced by what it calls, followed by what it does        *)
(* afterwards.  User code makes at most MaxCalls library calls per hook,   *)
(* MaxDepth tasks deep.                                                    *)
(***************************************************************************)
EXTENDS EventDispatch, ActionList, FiniteSetsExt

CONSTANTS
    Containers,  \* the socket_containers of the program
    UserSockets, \* sockets that user code declares itself: no container owns them
    RawSockets,  \* those of them that are raw::sockets, not udp::sockets
    HookOps,     \* HookOps[hook]: the operations user code calls in that hook
    MaxCalls,
    MaxDepth

ASSUME FdsAssumption == Fds \subseteq Nat
ASSUME SocketsAssumption == RawSockets \subseteq UserSockets /\ UserSockets \subseteq Ptrs
ASSUME MaxCallsAssumption == MaxCalls \in Nat

VARIABLES
    open,     \* descriptors open in the kernel
    objects,  \* live socket objects: address -> container, key, _sock, CLOSED list
    todo      \* the call stack

lifeVars == <<open, objects, todo>>

-----------------------------------------------------------------------------
(* Tasks.                                                                  *)

CloseTask(obj) == [do |-> "close", obj |-> obj]
EraseTask(obj) == [do |-> "erase", obj |-> obj]
DrainTask(container) == [do |-> "drain", container |-> container]
HookTask(hook, obj) == [do |-> "hook", hook |-> hook, obj |-> obj, calls |-> MaxCalls]
ErrorTask == [do |-> "hook", hook |-> "ERROR", obj |-> NoCall, calls |-> MaxCalls]

(* The actions of tcp::common_actions that are in the lists of the server  *)
(* and the client.                                                         *)
CommonHooks == {"RECEIVE", "CLOSED"}

Running(name) == todo # <<>> /\ Head(todo).do = name

(* The running task is replaced by tasks.                                  *)
ReplaceBy(tasks) == todo' = tasks \o Tail(todo)

(* User code runs: the application between two calls of events::poll, or   *)
(* a hook.                                                                 *)
AppRuns == todo = <<>> /\ call = NoCall /\ pending = {}

MayCall(op) ==
    \/ AppRuns
    \/ /\ Running("hook") /\ Head(todo).calls > 0 /\ Len(todo) < MaxDepth
       /\ op \in HookOps[Head(todo).hook]

(* User code makes a call that runs tasks, and goes on when it returns.    *)
UserCalls(tasks) ==
    IF todo = <<>> THEN todo' = tasks
    ELSE ReplaceBy(tasks \o <<[Head(todo) EXCEPT !.calls = @ - 1]>>)

-----------------------------------------------------------------------------
(* The kernel and the containers.                                          *)

(* The kernel hands out the lowest descriptor that is not open.            *)
LowestFree == Min(Fds \ open)

CanOpen == Fds \ open # {}

Live == DOMAIN objects

(* std::map<int, _SocketType> of a container, as the set of its objects;   *)
(* begin() is the one with the lowest key.                                 *)
Sockets(container) == {obj \in Live : objects[obj].container = container}

Begin(container) ==
    CHOOSE obj \in Sockets(container) :
        \A other \in Sockets(container) : objects[obj].key <= objects[other].key

HasKey(container, fd) == \E obj \in Sockets(container) : objects[obj].key = fd

(* socket_base::open succeeds.                                             *)
BaseOpen == open' = open \cup {LowestFree}

(* The action _insert_socket adds to CLOSED.                               *)
Eraser == [exec |-> "erase", flags |-> {"QUEUE_END", "STOP_AFTER"}]

(* A mutation of ClosedHook: it ends the CLOSED list.                      *)
ClosedHookStops(hook) == [exec |-> hook, flags |-> {"STOP_AFTER"}]

(* What server::listen, server::accept and client::connect add to CLOSED.  *)
ClosedHook(hook) == [exec |-> hook, flags |-> {}]

(* A mutation of Insert: an entry that is there already is not respected.  *)
InsertAnyway(container, fd, obj, hook) ==
    /\ objects' = With(objects, obj,
                       [container |-> container, key |-> fd, sock |-> fd,
                        closed |-> AddCallback(AddCallback(<<>>, Eraser), ClosedHook(hook))])
    /\ Register(fd, obj)

(* make_socket followed by on<CLOSED>: the map entry, its CLOSED list and  *)
(* the handler entry.  A failed insertion keeps the descriptor open and    *)
(* returns nullptr.                                                        *)
Insert(container, fd, obj, hook) ==
    /\ ~HasKey(container, fd)
    /\ objects' = With(objects, obj,
                       [container |-> container, key |-> fd, sock |-> fd,
                        closed |-> AddCallback(AddCallback(<<>>, Eraser), ClosedHook(hook))])
    /\ Register(fd, obj)

NotInserted(container, fd) ==
    /\ HasKey(container, fd)
    /\ UNCHANGED <<objects, dispatchVars>>

(* make_socket: a descriptor is opened, or was accepted, and inserted.     *)
MakeSocket(container, obj, hook) ==
    CanOpen /\ BaseOpen /\ Insert(container, LowestFree, obj, hook)

MakeSocketFails(container) ==
    CanOpen /\ BaseOpen /\ NotInserted(container, LowestFree)

-----------------------------------------------------------------------------
(* Steps of the library.                                                   *)

(* What executing the CLOSED list of an object runs.                       *)
ClosedTasks(obj) ==
    LET list == Executed(objects[obj].closed) IN
    [i \in 1 .. Len(list) |->
        IF list[i].exec = "erase" THEN EraseTask(obj) ELSE HookTask(list[i].exec, obj)]

(* A mutation of Close: the handler entry stays.                           *)
CloseKeepsEntry ==
    /\ Running("close")
    /\ LET obj == Head(todo).obj
           fd == objects[obj].sock
       IN  \/ fd < 0 /\ ReplaceBy(<<>>) /\ UNCHANGED <<open, objects, dispatchVars>>
           \/ /\ fd >= 0
              /\ open' = open \ {fd}
              /\ objects' = [objects EXCEPT ![obj].sock = -1]
              /\ ReplaceBy(ClosedTasks(obj))
              /\ UNCHANGED dispatchVars

(* A mutation of BaseClose: the descriptor is not given back.              *)
BaseCloseForgets(obj) ==
    /\ objects' = [objects EXCEPT ![obj].sock = -1]
    /\ UNCHANGED open

(* socket_base::close, of an open socket.                                  *)
BaseClose(obj) ==
    /\ open' = open \ {objects[obj].sock}
    /\ objects' = [objects EXCEPT ![obj].sock = -1]

(* socket::close                                                           *)
Close ==
    /\ Running("close")
    /\ LET obj == Head(todo).obj
           fd == objects[obj].sock
       IN  \/ fd < 0 /\ ReplaceBy(<<>>) /\ UNCHANGED <<open, objects, dispatchVars>>
           \/ fd >= 0 /\ Deregister(fd) /\ BaseClose(obj) /\ ReplaceBy(ClosedTasks(obj))

(* The eraser: sockets.erase(socket_key) destroys the object.              *)
Erase ==
    /\ Running("erase")
    /\ objects' = Restrict(objects, Live \ {Head(todo).obj})
    /\ ReplaceBy(<<>>)
    /\ UNCHANGED <<open, dispatchVars>>

(* A mutation of Drain: if instead of while.                               *)
DrainOnce ==
    /\ Running("drain")
    /\ LET container == Head(todo).container IN
       IF Sockets(container) = {} THEN ReplaceBy(<<>>)
       ELSE ReplaceBy(<<CloseTask(Begin(container))>>)
    /\ UNCHANGED <<open, objects, dispatchVars>>

(* One turn of the loop of socket_container::close.                        *)
Drain ==
    /\ Running("drain")
    /\ LET container == Head(todo).container IN
       IF Sockets(container) = {} THEN ReplaceBy(<<>>)
       ELSE todo' = <<CloseTask(Begin(container))>> \o todo
    /\ UNCHANGED <<open, objects, dispatchVars>>

(* A hook returns.                                                         *)
HookReturns ==
    /\ Running("hook") /\ ReplaceBy(<<>>)
    /\ UNCHANGED <<open, objects, dispatchVars>>

(* listen() and connect() may execute ERROR and then close their socket,   *)
(* through a pointer: nothing may destroy it in between.  User code never  *)
(* saw that socket, and must see to it that it does not close its          *)
(* container either.                                                       *)
ToBeClosed(obj) == CloseTask(obj) \in ToSet(todo)

SafeToDrain(container) == \A obj \in Sockets(container) : ~ToBeClosed(obj)

(* User code closes a connection it has a pointer to: connection::close.   *)
UserClose(obj) ==
    /\ MayCall("close") /\ ~ToBeClosed(obj)
    /\ UserCalls(<<CloseTask(obj)>>)
    /\ UNCHANGED <<open, objects, dispatchVars>>

(* connection_base::recv, the READABLE callback of a connection: a         *)
(* message, an end of stream, or an error, which only the socket's own     *)
(* ERROR action, without a callback, hears of.                             *)
Receive(container) ==
    \E fd \in Dispatched :
        LET obj == registry[fd].ptr IN
        /\ todo = <<>> /\ objects[obj].container = container
        /\ Deliver(fd, "POLLIN")
        /\ todo' \in {<<HookTask("RECEIVE", obj)>>, <<CloseTask(obj)>>, <<>>}
        /\ UNCHANGED <<open, objects>>

(* The callback events::poll made has returned; events::poll goes on, or   *)
(* returns.                                                                *)
BackToPoll ==
    /\ todo = <<>> /\ (Return \/ Finish)
    /\ UNCHANGED lifeVars

Poll ==
    /\ AppRuns /\ (PollSucceeds \/ PollErrs)
    /\ UNCHANGED lifeVars

(* A socket of the user's, just constructed.                               *)
UserSocket(obj) ==
    [container |-> "none", key |-> -1, sock |-> -1,
     closed |-> AddCallback(<<>>, ClosedHook(IF obj \in RawSockets THEN "SOCKET_CLOSED"
                                             ELSE "UDP_CLOSED"))]

ContainerInit ==
    /\ DispatchInit
    /\ open = {} /\ todo = <<>>
    /\ objects = [obj \in UserSockets |-> UserSocket(obj)]

-----------------------------------------------------------------------------
(* Properties of every program built on containers.                        *)

(* Types; the objects of a container have distinct keys, a socket's key is *)
(* its descriptor as long as it has one, and no two sockets share one.     *)
TypeOK ==
    /\ open \subseteq Fds
    /\ UserSockets \subseteq Live /\ Live \subseteq Ptrs
    /\ \A obj \in Live :
          /\ obj \in UserSockets => objects[obj].sock \in Fds \cup {-1}
          /\ obj \notin UserSockets =>
                /\ objects[obj].container \in Containers
                /\ objects[obj].key \in Fds
                /\ objects[obj].sock \in {-1, objects[obj].key}
    /\ \A obj, other \in Live : obj # other =>
          /\ objects[obj].sock = objects[other].sock => objects[obj].sock = -1
          /\ <<objects[obj].container, objects[obj].key>>
                = <<objects[other].container, objects[other].key>> => obj \in UserSockets
    /\ DOMAIN report = Dispatched /\ pending \subseteq EventsOf(report)

(* What events::poll may dispatch to is exactly the sockets that are open: *)
(* a handler entry belongs to a live object that holds that descriptor,    *)
(* and every live object that holds one has its entry.  The handler keeps  *)
(* raw pointers into the maps.                                             *)
RegistryMatchesObjects ==
    /\ \A fd \in Dispatched :
          /\ registry[fd].ptr \in Live
          /\ objects[registry[fd].ptr].sock = fd
    /\ \A obj \in Live : objects[obj].sock >= 0 =>
          /\ objects[obj].sock \in Dispatched \cap open
          /\ registry[objects[obj].sock].ptr = obj

(* No descriptor is left open without an object that would close it:       *)
(* "insert error, should not happen unless socket was not previously       *)
(* deleted" (socket_container.hpp).                                        *)
NoDescriptorLeak == \A fd \in open : \E obj \in Live : objects[obj].sock = fd

(* No call in progress will touch an object that was destroyed under it,   *)
(* and a CLOSED or DISCONNECT hook can still look at the connection whose  *)
(* end it is told of.                                                      *)
NoDanglingTask ==
    \A i \in 1 .. Len(todo) :
        \/ todo[i].do \in {"close", "erase"}
        \/ todo[i].do = "hook" /\ todo[i].hook \in {"CLOSED", "DISCONNECT"}
        => todo[i].obj \in Live

(* A socket that was closed is destroyed by exactly one pending call of    *)
(* its eraser, an open one by none: it is neither erased twice nor left    *)
(* behind in its map, however closes are nested.                           *)
OneEraserPerClosed ==
    \A obj \in Live \ UserSockets :
        Cardinality({i \in 1 .. Len(todo) : todo[i] = EraseTask(obj)})
            = IF objects[obj].sock < 0 THEN 1 ELSE 0

=============================================================================
