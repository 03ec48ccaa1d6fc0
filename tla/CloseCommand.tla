---------------------------- MODULE CloseCommand ----------------------------
(***************************************************************************)
(* The programs examples/tcp-client and examples/tcp-server.  Each client  *)
(* program connects, says hello in its CONNECT hook, and polls until its   *)
(* connection is closed; the server closes everything from inside its      *)
(* RECEIVE hook when what one recv() returned is the command "close", here *)
(* typed by an operator over a connection of its own.                      *)
(*                                                                         *)
(* A connection is its state in the kernel: waiting to be accepted, then   *)
(* accepted, then closed by the server, or reset, which is what the kernel *)
(* makes of a connection closed before all of it was accepted and read.    *)
(***************************************************************************)
EXTENDS Integers

CONSTANTS Callers, Operator

ASSUME CloseCommandAssumption == Operator \notin Callers

VARIABLES
    programs,    \* where the client programs and the operator are
    links,       \* their connections
    unread,      \* what the server has not read of each connection
    tcp_server,  \* where the server program is
    heard,       \* history: how the server read the command
    listeners    \* the addresses listen() succeeded for

closeCommandVars == <<programs, links, unread, tcp_server, heard, listeners>>

Peers == Callers \cup {Operator}

(* What the server listens on; the client programs connect to the first,   *)
(* the operator may connect to any.                                        *)
Addresses == {"127.0.0.1:8000", "[::1]:8000", "[::1]:8001"}

Dialled(p) == IF p = Operator THEN Addresses ELSE {"127.0.0.1:8000"}

CloseCommandInit ==
    /\ programs = [p \in Peers |-> "connect"]
    /\ links = [p \in Peers |-> "none"] /\ unread = [p \in Peers |-> "nothing"]
    /\ tcp_server = "listen" /\ heard = "nothing" /\ listeners = {}

Goes(p, to) == programs' = [programs EXCEPT ![p] = to]
Becomes(p, state) == links' = [links EXCEPT ![p] = state]

-----------------------------------------------------------------------------
(* The client programs.                                                    *)

(* client::connect succeeds while the listeners are open, accepted or not. *)
PeerConnects(p) ==
    /\ programs[p] = "connect" /\ Dialled(p) \cap listeners # {}
    /\ Goes(p, "send") /\ Becomes(p, "queued")
    /\ UNCHANGED <<unread, tcp_server, heard, listeners>>

(* It fails when the one it asks for is not: ERROR, no socket left to      *)
(* poll, the end.                                                          *)
PeerRefused(p) ==
    /\ programs[p] = "connect" /\ Dialled(p) \ listeners # {}
    /\ Goes(p, "done")
    /\ UNCHANGED <<links, unread, tcp_server, heard, listeners>>

(* connection::send in the CONNECT hook, and the operator's line.  Sent to *)
(* a server that closed the connection it brings the reset.                *)
PeerSends(p) ==
    /\ programs[p] = "send" /\ Goes(p, "poll")
    /\ \/ /\ links[p] \in {"queued", "accepted"}
          /\ unread' = [unread EXCEPT ![p] = IF p = Operator THEN "command" ELSE "hello"]
          /\ UNCHANGED links
       \/ links[p] = "closed" /\ Becomes(p, "reset") /\ UNCHANGED unread
    /\ UNCHANGED <<tcp_server, heard, listeners>>

(* After the reset ::send fails, and the kernel has told of it, or SIGPIPE *)
(* ends the program: the library neither blocks nor ignores that signal.   *)
PeerSendsInVain(p) ==
    /\ programs[p] = "send" /\ links[p] = "reset"
    /\ \/ Goes(p, "poll") /\ Becomes(p, "closed")
       \/ Goes(p, "done") /\ UNCHANGED links
    /\ UNCHANGED <<unread, tcp_server, heard, listeners>>

(* A mutation of PeerHears: a reset ends nothing.                          *)
PeerIgnoresReset(p) ==
    /\ programs[p] = "poll"
    /\ links[p] = "closed" /\ Goes(p, "done") /\ UNCHANGED links
    /\ UNCHANGED <<unread, tcp_server, heard, listeners>>

(* recv() returns 0: the connection is closed, and with its only socket    *)
(* the program ends; or it fails once, and returns 0 from then on.         *)
PeerHears(p) ==
    /\ programs[p] = "poll"
    /\ \/ links[p] = "closed" /\ Goes(p, "done") /\ UNCHANGED links
       \/ links[p] = "reset" /\ Becomes(p, "closed") /\ UNCHANGED programs
    /\ UNCHANGED <<unread, tcp_server, heard, listeners>>

(* The operator may hang up.                                               *)
OperatorQuits ==
    /\ programs[Operator] = "poll" /\ Goes(Operator, "done")
    /\ UNCHANGED <<links, unread, tcp_server, heard, listeners>>

-----------------------------------------------------------------------------
(* The server program.                                                     *)

(* The three calls of listen(), any of which may fail; what fails is       *)
(* closed.  With no listener events::poll returns false at once.           *)
ServerListens ==
    /\ tcp_server = "listen"
    /\ listeners' \in SUBSET Addresses
    /\ tcp_server' = IF listeners' = {} THEN "done" ELSE "poll"
    /\ UNCHANGED <<programs, links, unread, heard>>

ServerTakes(p) ==
    /\ tcp_server = "poll" /\ links[p] = "queued" /\ Becomes(p, "accepted")
    /\ UNCHANGED <<programs, unread, tcp_server, heard, listeners>>

(* A mutation of ServerReads: any message is the command.                  *)
ServerObeysAll(p) ==
    /\ tcp_server = "poll" /\ links[p] = "accepted" /\ unread[p] # "nothing"
    /\ unread' = [unread EXCEPT ![p] = "nothing"]
    /\ tcp_server' = "close"
    /\ UNCHANGED <<programs, links, heard, listeners>>

(* recv() and the RECEIVE hook.  What recv() returns is a message to the   *)
(* hook, however TCP cut the stream: a command in two pieces is none.      *)
ServerReads(p) ==
    /\ tcp_server = "poll" /\ links[p] = "accepted"
    /\ \/ /\ unread[p] \in {"hello", "rest"}
          /\ unread' = [unread EXCEPT ![p] = "nothing"]
          /\ UNCHANGED <<tcp_server, heard>>
       \/ /\ unread[p] = "command"
          /\ \/ /\ unread' = [unread EXCEPT ![p] = "nothing"]
                /\ heard' = "command" /\ tcp_server' = "close"
             \/ /\ unread' = [unread EXCEPT ![p] = "rest"]
                /\ heard' = "pieces" /\ UNCHANGED tcp_server
    /\ UNCHANGED <<programs, links, listeners>>

(* recv() returns 0 for the operator who hung up.                          *)
ServerLosesOperator ==
    /\ tcp_server = "poll" /\ links[Operator] = "accepted"
    /\ programs[Operator] = "done" /\ unread[Operator] = "nothing"
    /\ Becomes(Operator, "closed")
    /\ UNCHANGED <<programs, unread, tcp_server, heard, listeners>>

(* server::close, first the clients ...                                    *)
ServerClosesOne(p) ==
    /\ tcp_server = "close" /\ links[p] = "accepted"
    /\ Becomes(p, IF unread[p] = "nothing" THEN "closed" ELSE "reset")
    /\ UNCHANGED <<programs, unread, tcp_server, heard, listeners>>

(* ... then the listeners, with whom they have not accepted.  events::poll *)
(* returns false, and the program ends.                                    *)
ServerClosesListeners ==
    /\ tcp_server = "close" /\ \A p \in Peers : links[p] # "accepted"
    /\ links' = [p \in Peers |-> IF links[p] = "queued" THEN "reset" ELSE links[p]]
    /\ tcp_server' = "done" /\ listeners' = {}
    /\ UNCHANGED <<programs, unread, heard>>

-----------------------------------------------------------------------------
PeerProgram(p) ==
    \/ PeerConnects(p) \/ PeerRefused(p)
    \/ PeerSends(p) \/ PeerSendsInVain(p) \/ PeerHears(p)

TcpServerProgram ==
    \/ ServerListens \/ ServerLosesOperator \/ ServerClosesListeners
    \/ \E p \in Peers : ServerTakes(p) \/ ServerReads(p) \/ ServerClosesOne(p)

CloseCommandNext == OperatorQuits \/ TcpServerProgram \/ \E p \in Peers : PeerProgram(p)

(* The programs run on while they can; every step of the server uses up    *)
(* what events::poll told it of.  The operator need not do anything.       *)
CloseCommandFairness ==
    /\ WF_closeCommandVars(TcpServerProgram)
    /\ \A p \in Callers : WF_closeCommandVars(PeerProgram(p))

-----------------------------------------------------------------------------
CloseCommandTypeOK ==
    /\ programs \in [Peers -> {"connect", "send", "poll", "done"}]
    /\ links \in [Peers -> {"none", "queued", "accepted", "closed", "reset"}]
    /\ unread \in [Peers -> {"nothing", "hello", "command", "rest"}]
    /\ tcp_server \in {"listen", "poll", "close", "done"}
    /\ heard \in {"nothing", "command", "pieces"}
    /\ listeners \subseteq Addresses

(* No client program loses its connection while the command was not given, *)
(* and none is left with one when the server has ended: close(), called    *)
(* inside the RECEIVE hook of one connection, lets go of all of them.      *)
ConnectionsFollowCommand ==
    \A p \in Callers :
        /\ links[p] \in {"closed", "reset"} => heard = "command"
        /\ tcp_server = "done" => links[p] \notin {"queued", "accepted"}

(* Once the operator's line is sent, everything ends, the server and every *)
(* client program, connected, waiting, or not connected yet, unless TCP    *)
(* cut the line in pieces.                                                 *)
CommandEndsAll ==
    unread[Operator] = "command" ~>
        \/ heard = "pieces"
        \/ tcp_server = "done" /\ \A p \in Callers : programs[p] = "done"

=============================================================================
