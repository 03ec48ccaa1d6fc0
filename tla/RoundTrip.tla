----------------------------- MODULE RoundTrip -----------------------------
(***************************************************************************)
(* The two programs of examples/tcp-rtt-speed-test over TCP.  The client   *)
(* program opens its connections one after the other, sends a message in   *)
(* each CONNECT hook and polls; the server program sends the message back  *)
(* on a connection once it has all of it; the client closes a connection   *)
(* whose message came back.  Each program is one thread.                   *)
(*                                                                         *)
(* All bytes are the same, so a stream is the number of its bytes.  The    *)
(* sockets are blocking: ::send returns when the kernel has taken          *)
(* everything, unless it is interrupted.                                   *)
(***************************************************************************)
EXTENDS Integers

CONSTANTS
    NClients,          \* argument of the client program
    MESSAGE,           \* sizeof(MESSAGE_STR)
    RECV_BUFFER_SIZE,
    Capacity,          \* bytes the kernel holds for one direction of a connection
    MaxInterrupts      \* bound on the signals that interrupt a ::send

ASSUME RoundTripAssumption ==
    /\ {NClients, MESSAGE, RECV_BUFFER_SIZE, Capacity} \subseteq Nat \ {0}
    /\ MaxInterrupts \in 0 .. 1  \* the next one resends bytes: see Connection

VARIABLES
    client,      \* where the client program is: what, on which connection, bytes left
    server,      \* where the server program is
    conns,       \* the connections
    interrupts,  \* history: number of interrupted ::sends
    errors       \* history: which program printed an error, about which connection

roundTripVars == <<client, server, conns, interrupts, errors>>

Clients == 1 .. NClients

At(what, c, left) == [at |-> what, conn |-> c, left |-> left]

Polling == At("poll", 0, 0)

(* A connection before connect(): what its two ends are, the bytes on the  *)
(* way up and down, total_recv_bytes of both ends, and what their          *)
(* send_buffers hold, which is one message at most.                        *)
NewConnection ==
    [client |-> "new", server |-> "new", up |-> 0, down |-> 0,
     replied |-> 0, received |-> 0, client_buffer |-> 0, server_buffer |-> 0]

RoundTripInit ==
    /\ client = At("connect", 1, 0) /\ server = Polling
    /\ conns = [c \in Clients |-> NewConnection]
    /\ interrupts = 0 /\ errors = {}

Prints(program, c) == errors' = errors \cup {<<program, c>>}

-----------------------------------------------------------------------------
(* The client program.                                                     *)

(* The loop over the clients goes on after connection c.                   *)
ConnectNext(c) ==
    client' = IF c < NClients THEN At("connect", c + 1, 0)
              ELSE IF \A other \in Clients : conns'[other].client \in {"closed", "failed"}
                   THEN At("done", 0, 0) ELSE Polling

(* connect() succeeds, accepted or not, and the CONNECT hook sends.        *)
ClientConnects ==
    /\ client.at = "connect"
    /\ conns' = [conns EXCEPT ![client.conn].client = "open"]
    /\ client' = At("send", client.conn, MESSAGE)
    /\ UNCHANGED <<server, interrupts, errors>>

(* connect() fails: the socket, if there is one, is closed, the hooks      *)
(* CLOSED and ERROR print an error each, and the loop goes on.             *)
ConnectFails ==
    /\ client.at = "connect"
    /\ conns' = [conns EXCEPT ![client.conn].client = "failed",
                              ![client.conn].server = "closed"]
    /\ Prints("client", client.conn)
    /\ ConnectNext(client.conn)
    /\ UNCHANGED <<server, interrupts>>

(* The kernel takes n bytes of the message; with the last of them send()   *)
(* and the hook return.                                                    *)
ClientSends(n) ==
    /\ client.at = "send" /\ n <= client.left
    /\ conns[client.conn].up + n <= Capacity
    /\ conns' = [conns EXCEPT ![client.conn].up = @ + n]
    /\ IF n < client.left THEN client' = [client EXCEPT !.left = @ - n]
       ELSE ConnectNext(client.conn)
    /\ UNCHANGED <<server, interrupts, errors>>

(* ::send returns early: the leftover goes to the send_buffer, which the   *)
(* connection of a client has no WRITEABLE callback to flush.              *)
ClientInterrupted ==
    /\ interrupts < MaxInterrupts
    /\ client.at = "send" /\ client.left < MESSAGE
    /\ conns' = [conns EXCEPT ![client.conn].client_buffer = client.left]
    /\ ConnectNext(client.conn)
    /\ interrupts' = interrupts + 1
    /\ UNCHANGED <<server, errors>>

(* recv() and the RECEIVE hook: the connection is closed with the last     *)
(* byte of the message, and the program ends with the last connection.     *)
ClientReceives(c, n) ==
    /\ client = Polling /\ conns[c].client = "open"
    /\ n <= conns[c].down
    /\ LET replied == conns[c].replied + n IN
       /\ conns' = [conns EXCEPT ![c].down = @ - n, ![c].replied = replied,
                       ![c].client = IF replied = MESSAGE THEN "closed" ELSE "open"]
       /\ IF replied > MESSAGE THEN Prints("client", c) ELSE UNCHANGED errors
    /\ ConnectNext(NClients)
    /\ UNCHANGED <<server, interrupts>>

-----------------------------------------------------------------------------
(* The server program.                                                     *)

(* accept()                                                                *)
ServerAccepts(c) ==
    /\ server = Polling /\ conns[c].client # "new" /\ conns[c].server = "new"
    /\ conns' = [conns EXCEPT ![c].server = "open"]
    /\ UNCHANGED <<client, server, interrupts, errors>>

(* A mutation of ServerReceives: what is there is sent back at once.       *)
ServerEchoes(c, n) ==
    /\ server = Polling /\ conns[c].server = "open"
    /\ n <= conns[c].up
    /\ conns' = [conns EXCEPT ![c].up = @ - n, ![c].received = @ + n]
    /\ server' = At("send", c, MESSAGE)
    /\ IF conns'[c].received > MESSAGE THEN Prints("server", c) ELSE UNCHANGED errors
    /\ UNCHANGED <<client, interrupts>>

(* recv() and the RECEIVE hook: the message is sent back when it is        *)
(* complete.                                                               *)
ServerReceives(c, n) ==
    /\ server = Polling /\ conns[c].server = "open"
    /\ n <= conns[c].up
    /\ conns' = [conns EXCEPT ![c].up = @ - n, ![c].received = @ + n]
    /\ server' = IF conns'[c].received = MESSAGE THEN At("send", c, MESSAGE) ELSE server
    /\ IF conns'[c].received > MESSAGE THEN Prints("server", c) ELSE UNCHANGED errors
    /\ UNCHANGED <<client, interrupts>>

(* recv() returns 0: the connection is closed, with the DISCONNECT hook,   *)
(* which looks once more at what was received.                             *)
ServerHearsEnd(c) ==
    /\ server = Polling /\ conns[c].server = "open"
    /\ conns[c].client = "closed" /\ conns[c].up = 0
    /\ conns' = [conns EXCEPT ![c].server = "closed"]
    /\ IF conns[c].received # MESSAGE THEN Prints("server", c) ELSE UNCHANGED errors
    /\ UNCHANGED <<client, server, interrupts>>

(* The WRITEABLE callback: send_flush() offers what is in the send_buffer. *)
ServerFlushes(c) ==
    /\ server = Polling /\ conns[c].server = "open"
    /\ conns[c].server_buffer > 0 /\ conns[c].down < Capacity
    /\ server' = At("flush", c, conns[c].server_buffer)
    /\ UNCHANGED <<client, conns, interrupts, errors>>

(* A mutation of Popped: the message stays in the send_buffer.             *)
NotPopped(what, buffer) == buffer

(* The send_buffer after the kernel took everything.                       *)
Popped(what, buffer) == IF what = "flush" THEN 0 ELSE buffer

(* The kernel takes n bytes.                                               *)
ServerSends(n) ==
    /\ server.at \in {"send", "flush"} /\ n <= server.left
    /\ conns[server.conn].down + n <= Capacity
    /\ conns' = [conns EXCEPT ![server.conn].down = @ + n,
                    ![server.conn].server_buffer =
                        IF n < server.left THEN @ ELSE Popped(server.at, @)]
    /\ server' = IF n < server.left THEN [server EXCEPT !.left = @ - n] ELSE Polling
    /\ UNCHANGED <<client, interrupts, errors>>

(* A mutation of Leftover: it is thrown away.                              *)
LeftoverDropped(what, left, buffer) == buffer

(* The send_buffer after ::send returned early: send() keeps what is left, *)
(* send_flush() leaves the message whole.                                  *)
Leftover(what, left, buffer) == IF what = "send" THEN left ELSE buffer

ServerInterrupted ==
    /\ interrupts < MaxInterrupts
    /\ server.at \in {"send", "flush"}
    /\ server.left < (IF server.at = "send" THEN MESSAGE
                      ELSE conns[server.conn].server_buffer)
    /\ conns' = [conns EXCEPT ![server.conn].server_buffer =
                    Leftover(server.at, server.left, @)]
    /\ server' = Polling
    /\ interrupts' = interrupts + 1
    /\ UNCHANGED <<client, errors>>

-----------------------------------------------------------------------------
ClientThread ==
    \/ ClientConnects
    \/ \E n \in 1 .. MESSAGE : ClientSends(n)
    \/ \E c \in Clients, n \in 1 .. RECV_BUFFER_SIZE : ClientReceives(c, n)

ServerOn(c) ==
    \/ ServerAccepts(c) \/ ServerHearsEnd(c) \/ ServerFlushes(c)
    \/ \E n \in 1 .. RECV_BUFFER_SIZE : ServerReceives(c, n)

ServerThread == (\E n \in 1 .. MESSAGE : ServerSends(n)) \/ \E c \in Clients : ServerOn(c)

RoundTripNext ==
    ConnectFails \/ ClientThread \/ ClientInterrupted \/ ServerThread \/ ServerInterrupted

(* Both programs run on while they can.  Every step but an interruption    *)
(* brings bytes or connections forward, so that events::poll cannot keep   *)
(* passing one connection over for another.                                *)
RoundTripFairness == WF_roundTripVars(ClientThread) /\ WF_roundTripVars(ServerThread)

-----------------------------------------------------------------------------
RoundTripTypeOK ==
    /\ client \in [at : {"connect", "send", "poll", "done"}, conn : 0 .. NClients,
                   left : 0 .. MESSAGE]
    /\ server \in [at : {"poll", "send", "flush"}, conn : 0 .. NClients, left : 0 .. MESSAGE]
    /\ conns \in [Clients ->
            [client : {"new", "open", "closed", "failed"},
             server : {"new", "open", "closed"},
             up : 0 .. Capacity, down : 0 .. Capacity,
             replied : 0 .. MESSAGE, received : 0 .. MESSAGE,
             client_buffer : 0 .. MESSAGE, server_buffer : 0 .. MESSAGE]]
    /\ interrupts \in 0 .. MaxInterrupts
    /\ errors \subseteq {"client", "server"} \X Clients

LeftOf(program, c) == IF program.conn = c THEN program.left ELSE 0

(* Every byte of a message is in exactly one place on its way: with the    *)
(* program that sends it, in its send_buffer, with the kernel, or counted  *)
(* by the other program.                                                   *)
BytesConserved ==
    \A c \in Clients :
        LET conn == conns[c] IN
        /\ conn.client = "open" =>
              LeftOf(client, c) + conn.client_buffer + conn.up + conn.received = MESSAGE
        /\ conn.received = MESSAGE =>
              LeftOf(server, c) + conn.down + conn.replied
                 + (IF server.at = "flush" /\ server.conn = c THEN 0 ELSE conn.server_buffer)
                    = MESSAGE

(* The errors that are printed, "connection received more bytes" and       *)
(* "disconnected connection did not recv all bytes" among them, are about  *)
(* connections connect() could not make, and of those the client prints    *)
(* one.  Of a connection that was made neither program has an error to     *)
(* print: not the client when its connection is closed, nor the server     *)
(* when it hears of it.                                                    *)
ErrorsAreOfFailedConnects ==
    errors = {<<"client", c>> : c \in {d \in Clients : conns[d].client = "failed"}}

(* Every message comes back and both programs let go of every connection,  *)
(* so that the client program ends, unless a signal left the end of a      *)
(* message in the send_buffer of a client, which nobody flushes.           *)
EveryRoundTripEnds ==
    \/ <>[](client.at = "done" /\ \A c \in Clients : conns[c].server = "closed")
    \/ <>[](\E c \in Clients : conns[c].client_buffer > 0)

=============================================================================
