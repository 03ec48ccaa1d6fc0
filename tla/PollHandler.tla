---------------------------- MODULE PollHandler ----------------------------
(***************************************************************************)
(* unisock::events::handler over handler_impl<handler_types::POLL>: the    *)
(* set of descriptors a program polls on, kept in two parallel vectors,    *)
(* and the reference counter by which events::poll notices that a callback *)
(* invalidated its iterator.                                               *)
(*                                                                         *)
(* `sockets` is the std::vector<pollfd> handed to poll(2); entry i of      *)
(* `socket_ptrs` is the socket object of entry i of `sockets`.  A pollfd   *)
(* is a record, its two bit masks are sets of flags.                       *)
(***************************************************************************)
EXTENDS Integers, FiniteSets, SequencesExt

CONSTANTS
    Fds,        \* descriptors the process can hold
    Ptrs,       \* addresses of unisock::socket_base objects
    Flags,      \* the poll(2) flags an instance tells apart
    RefModulus  \* number of values of `ushort invalid`: 65536 in the program

(* POLLERR, POLLHUP and POLLNVAL are reported whether or not they were     *)
(* asked for; events::poll looks at none of them, so one flag stands for   *)
(* the three.                                                              *)
ASSUME FlagsAssumption ==
    "POLLIN" \in Flags /\ Flags \subseteq {"POLLIN", "POLLOUT", "POLLERR"}

ASSUME RefModulusAssumption == RefModulus \in Nat \ {0, 1}

VARIABLES
    sockets,     \* std::vector<pollfd>
    socket_ptrs, \* std::vector<socket_base*>
    invalid      \* ushort, counts the structural changes modulo RefModulus

handlerVars == <<sockets, socket_ptrs, invalid>>

Refs == 0 .. RefModulus - 1

(* The flags a socket can ask for.                                         *)
Interests == Flags \ {"POLLERR"}

PollFd == [fd : Fds, events : SUBSET Interests, revents : SUBSET Flags]

HandlerTypeOK ==
    /\ sockets \in Seq(PollFd)
    /\ socket_ptrs \in Seq(Ptrs)
    /\ invalid \in Refs

(* The constructor does not initialise `invalid`: the counter may start    *)
(* from any value.                                                         *)
HandlerInit ==
    /\ sockets = <<>>
    /\ socket_ptrs = <<>>
    /\ invalid \in Refs

(* std::find over the pollfds with operator==(pollfd, int); 0 is end().    *)
Find(fd) == SelectInSeq(sockets, LAMBDA entry : entry.fd = fd)

Registered == {sockets[i].fd : i \in 1 .. Len(sockets)}

(* handler::empty                                                          *)
Empty == sockets = <<>>

(* A mutation of BumpRef: the counter does not wrap.                       *)
BumpRefWide == invalid' = invalid + 1

(* ++invalid on a ushort                                                   *)
BumpRef == invalid' = (IF invalid = RefModulus - 1 THEN 0 ELSE invalid + 1)

(* A mutation of AddSocket: the counter is not moved.                      *)
AddSocketUncounted(fd, ptr) ==
    /\ sockets' = Append(sockets, [fd |-> fd, events |-> {"POLLIN"}, revents |-> {}])
    /\ socket_ptrs' = Append(socket_ptrs, ptr)
    /\ UNCHANGED invalid

(* handler::add_socket                                                     *)
AddSocket(fd, ptr) ==
    /\ sockets' = Append(sockets, [fd |-> fd, events |-> {"POLLIN"}, revents |-> {}])
    /\ socket_ptrs' = Append(socket_ptrs, ptr)
    /\ BumpRef

(* Mutations of DeleteSocket: the object stays in its vector, the wrong    *)
(* object is removed, the counter is not moved.                            *)
DeleteSocketKeepsPtr(fd) ==
    LET i == Find(fd) IN
    /\ sockets' = IF i = 0 THEN sockets ELSE RemoveAt(sockets, i)
    /\ UNCHANGED socket_ptrs
    /\ BumpRef

DeleteSocketLastPtr(fd) ==
    LET i == Find(fd) IN
    /\ sockets' = IF i = 0 THEN sockets ELSE RemoveAt(sockets, i)
    /\ socket_ptrs' = IF i = 0 THEN socket_ptrs ELSE Front(socket_ptrs)
    /\ BumpRef

DeleteSocketUncounted(fd) ==
    LET i == Find(fd) IN
    /\ sockets' = IF i = 0 THEN sockets ELSE RemoveAt(sockets, i)
    /\ socket_ptrs' = IF i = 0 THEN socket_ptrs ELSE RemoveAt(socket_ptrs, i)
    /\ UNCHANGED invalid

(* handler::delete_socket: the counter moves even when the descriptor is   *)
(* not found.                                                              *)
DeleteSocket(fd) ==
    LET i == Find(fd) IN
    /\ sockets' = IF i = 0 THEN sockets ELSE RemoveAt(sockets, i)
    /\ socket_ptrs' = IF i = 0 THEN socket_ptrs ELSE RemoveAt(socket_ptrs, i)
    /\ BumpRef

(* it->events |= flag, or it->events &= ~flag *)
SetInterest(fd, flag, active) ==
    LET i == Find(fd) IN
    /\ sockets' = IF i = 0 THEN sockets
                  ELSE [sockets EXCEPT ![i].events =
                            IF active THEN @ \cup {flag} ELSE @ \ {flag}]
    /\ UNCHANGED <<socket_ptrs, invalid>>

SocketWantRead(fd, active) == SetInterest(fd, "POLLIN", active)

SocketWantWrite(fd, active) == SetInterest(fd, "POLLOUT", active)

(* ref_has_changed(old_ref) *)
RefHasChanged(old_ref) == old_ref # invalid

=============================================================================
