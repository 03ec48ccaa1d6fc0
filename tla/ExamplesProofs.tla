--------------------------- MODULE ExamplesProofs ---------------------------
(***************************************************************************)
(* What the example programs promise for every number of clients, message  *)
(* length, capacity of the kernel and number of faults.                    *)
(***************************************************************************)
EXTENDS Examples, TLAPS

-----------------------------------------------------------------------------
(* client and server: why no byte of a round trip is lost or counted       *)
(* twice.  That the bytes on the two ways of a connection add up is        *)
(* inductive together with where each program can be and what it has not   *)
(* touched yet.                                                            *)

(* The client program connects in order, and sends what it has left on a   *)
(* connection whose send_buffer is empty.                                  *)
ClientPlace ==
    /\ client.at \in {"connect", "send"} => client.conn \in Clients
    /\ client.at \in {"poll", "done"} => client.conn = 0
    /\ client.at # "send" => client.left = 0
    /\ client.at = "send" => /\ client.left > 0
                             /\ conns[client.conn].client = "open"
                             /\ conns[client.conn].client_buffer = 0

(* The server program sends on open connections, what it has all of.       *)
ServerPlace ==
    /\ server.at = "poll" => server = Polling
    /\ server.at # "poll" => /\ server.conn \in Clients /\ server.left > 0
                             /\ conns[server.conn].server = "open"
                             /\ conns[server.conn].received = MESSAGE
    /\ server.at = "send" => conns[server.conn].server_buffer = 0
    /\ server.at = "flush" => conns[server.conn].server_buffer > 0

(* The connections that are not tried yet.                                 *)
Untried(c) ==
    \/ client.at = "connect" /\ c >= client.conn
    \/ client.at = "send" /\ c > client.conn

(* A connection is untouched, on its way up, on its way down, or done.     *)
Stage(c) ==
    LET conn == conns[c] IN
    /\ conn.client = "new" <=> Untried(c)
    /\ conn.client = "new" => conn = NewConnection
    /\ conn.server = "closed" => conn.client \in {"closed", "failed"}
    /\ conn.server = "new" => conn.received = 0
    /\ conn.received < MESSAGE =>
          conn.down = 0 /\ conn.replied = 0 /\ conn.server_buffer = 0
    /\ conn.client = "failed" => conn.server = "closed" /\ conn.received = 0
    /\ conn.client = "closed" =>
          /\ conn.up = 0 /\ conn.down = 0
          /\ conn.client_buffer = 0 /\ conn.server_buffer = 0
          /\ conn.received = MESSAGE /\ conn.replied = MESSAGE
    /\ conn.server_buffer > 0 => interrupts > 0

RoundTripInv ==
    /\ RoundTripTypeOK /\ ClientPlace /\ ServerPlace
    /\ \A c \in Clients : Stage(c)
    /\ BytesConserved

ConnectionRecord ==
    [client : {"new", "open", "closed", "failed"}, server : {"new", "open", "closed"},
     up : 0 .. Capacity, down : 0 .. Capacity,
     replied : 0 .. MESSAGE, received : 0 .. MESSAGE,
     client_buffer : 0 .. MESSAGE, server_buffer : 0 .. MESSAGE]

-----------------------------------------------------------------------------
(* The part of BytesConserved that speaks of one connection.               *)
Balanced(c) ==
    LET conn == conns[c] IN
    /\ conn.client = "open" =>
          LeftOf(client, c) + conn.client_buffer + conn.up + conn.received = MESSAGE
    /\ conn.received = MESSAGE =>
          LeftOf(server, c) + conn.down + conn.replied
             + (IF server.at = "flush" /\ server.conn = c THEN 0 ELSE conn.server_buffer)
                = MESSAGE

(* A byte is looked for connection by connection.                          *)
LEMMA BalancedEach ==
    /\ BytesConserved <=> \A c \in Clients : Balanced(c)
    /\ BytesConserved' <=> \A c \in Clients : Balanced(c)'
  BY DEF BytesConserved, Balanced, LeftOf

(* What the types say of the numbers and of each connection.               *)
LEMMA Types ==
    ASSUME RoundTripTypeOK
    PROVE  /\ NClients \in Nat \ {0} /\ MESSAGE \in Nat \ {0} /\ Capacity \in Nat \ {0}
           /\ conns \in [Clients -> ConnectionRecord]
           /\ client.left \in 0 .. MESSAGE /\ server.left \in 0 .. MESSAGE
           /\ client.conn \in 0 .. NClients /\ server.conn \in 0 .. NClients
           /\ 0 \notin Clients /\ Clients \subseteq Nat
  BY RoundTripAssumption DEF RoundTripTypeOK, ConnectionRecord, Clients

(* The first connection is tried first.                                    *)
LEMMA RoundTripInitInv == RoundTripInit => RoundTripInv
<1>. SUFFICES ASSUME RoundTripInit PROVE RoundTripInv
  OBVIOUS
<1>1. NClients \in Nat \ {0} /\ MESSAGE \in Nat \ {0} /\ Capacity \in Nat \ {0} /\ 1 \in Clients
  BY RoundTripAssumption DEF Clients
<1>2. RoundTripTypeOK
  BY <1>1, RoundTripAssumption
     DEF RoundTripInit, RoundTripTypeOK, NewConnection, At, Polling, Clients
<1>3. ClientPlace /\ ServerPlace
  BY <1>1 DEF RoundTripInit, ClientPlace, ServerPlace, At, Polling
<1>4. ASSUME NEW c \in Clients PROVE Stage(c) /\ Balanced(c)
  BY <1>1
     DEF RoundTripInit, Stage, Untried, Balanced, LeftOf, NewConnection, At, Polling, Clients
<1>. QED BY <1>2, <1>3, <1>4, BalancedEach DEF RoundTripInv

(* A step on connection c leaves the others alone when it neither takes    *)
(* bytes to them nor from them.                                            *)
LEMMA OtherConnection ==
    ASSUME RoundTripInv, NEW c \in Clients, NEW other \in Clients, other # c,
           conns'[other] = conns[other], interrupts' \in {interrupts, interrupts + 1},
           LeftOf(client, other)' = LeftOf(client, other),
           Untried(other)' <=> Untried(other),
           server' = server \/ (server.conn # other /\ server'.conn # other)
    PROVE  Stage(other)' /\ Balanced(other)'
<1>1. Stage(other) /\ Balanced(other) /\ interrupts \in Nat
  BY BalancedEach, RoundTripAssumption DEF RoundTripInv, RoundTripTypeOK
<1>2. Stage(other)'
  BY <1>1 DEF Stage
<1>3. Balanced(other)'
  BY <1>1 DEF Balanced, LeftOf
<1>. QED BY <1>2, <1>3

-----------------------------------------------------------------------------
(* The client program.                                                     *)

(* The loop over the clients: the next one is tried, or events::poll is    *)
(* called, or the program ends.                                            *)
LEMMA ConnectNextPlace ==
    ASSUME NEW c \in Clients, ConnectNext(c), NClients \in Nat \ {0}, MESSAGE \in Nat \ {0}
    PROVE  /\ client' \in [at : {"connect", "poll", "done"}, conn : 0 .. NClients, left : {0}]
           /\ client'.left = 0
           /\ client'.at = "connect" => client'.conn = c + 1 /\ client'.conn \in Clients
           /\ client'.at # "connect" => client'.conn = 0 /\ c = NClients
           /\ \A other \in Clients : Untried(other)' <=> other > c
           /\ \A other \in Clients : LeftOf(client, other)' = 0
  BY DEF ConnectNext, At, Polling, Untried, LeftOf, Clients

(* What holds after a step on one connection, put together.                *)
LEMMA StepInv ==
    ASSUME RoundTripTypeOK', ClientPlace', ServerPlace', NEW c \in Clients,
           Stage(c)' /\ Balanced(c)',
           \A other \in Clients \ {c} : Stage(other)' /\ Balanced(other)'
    PROVE  RoundTripInv'
  BY BalancedEach DEF RoundTripInv

(* connect() and the CONNECT hook.                                         *)
LEMMA ClientConnectsInv == ASSUME RoundTripInv, ClientConnects PROVE RoundTripInv'
<1>1. PICK c \in Clients :
      /\ c = client.conn /\ client.at = "connect" /\ RoundTripTypeOK
      /\ conns' = [conns EXCEPT ![c].client = "open"]
      /\ client' = At("send", c, MESSAGE)
      /\ UNCHANGED <<server, interrupts, errors>>
  BY DEF ClientConnects, RoundTripInv, ClientPlace
<1>2. /\ client'.at = "send" /\ client'.conn = c /\ client'.left = MESSAGE
      /\ Stage(c) /\ Balanced(c) /\ conns[c] = NewConnection
      /\ conns'[c] = [NewConnection EXCEPT !.client = "open"]
      /\ \A other \in Clients \ {c} : conns'[other] = conns[other]
      /\ MESSAGE \in Nat \ {0}
  BY <1>1, Types, BalancedEach DEF At, RoundTripInv, Stage, Untried
<1>3. RoundTripTypeOK'
  BY <1>1, <1>2, Types DEF RoundTripTypeOK, At
<1>4. ClientPlace' /\ ServerPlace'
  BY <1>1, <1>2, Types
     DEF RoundTripInv, ClientPlace, ServerPlace, NewConnection
<1>5. Stage(c)' /\ Balanced(c)'
  BY <1>1, <1>2, Types
     DEF Stage, Untried, Balanced, LeftOf, NewConnection, RoundTripInv, ServerPlace
<1>6. ASSUME NEW other \in Clients \ {c} PROVE Stage(other)' /\ Balanced(other)'
  <2>1. LeftOf(client, other)' = LeftOf(client, other) /\ (Untried(other)' <=> Untried(other))
    BY <1>1, <1>2, Types DEF LeftOf, Untried
  <2>. QED BY <1>1, <1>2, <2>1, OtherConnection
<1>. QED BY <1>1, <1>3, <1>4, <1>5, <1>6, StepInv

(* connect() fails.                                                        *)
LEMMA ConnectFailsInv == ASSUME RoundTripInv, ConnectFails PROVE RoundTripInv'
<1>1. PICK c \in Clients :
      /\ c = client.conn /\ client.at = "connect" /\ RoundTripTypeOK
      /\ conns' = [conns EXCEPT ![c].client = "failed", ![c].server = "closed"]
      /\ ConnectNext(c)
      /\ errors' = errors \cup {<<"client", c>>}
      /\ UNCHANGED <<server, interrupts>>
  BY DEF ConnectFails, Prints, RoundTripInv, ClientPlace
<1>2. /\ Stage(c) /\ Balanced(c) /\ conns[c] = NewConnection
      /\ conns'[c] = [NewConnection EXCEPT !.client = "failed", !.server = "closed"]
      /\ \A other \in Clients \ {c} : conns'[other] = conns[other]
      /\ MESSAGE \in Nat \ {0}
  <2>1. Stage(c) /\ Balanced(c) /\ conns[c] = NewConnection
    BY <1>1, Types, BalancedEach DEF RoundTripInv, Stage, Untried
  <2>2. conns'[c] = [conns[c] EXCEPT !.client = "failed", !.server = "closed"]
    BY <1>1, Types
  <2>. QED BY <1>1, <2>1, <2>2, Types
<1>3. RoundTripTypeOK'
  BY <1>1, <1>2, Types, ConnectNextPlace DEF RoundTripTypeOK
<1>4. ClientPlace' /\ ServerPlace'
  BY <1>1, <1>2, Types, ConnectNextPlace
     DEF RoundTripInv, ClientPlace, ServerPlace, NewConnection
<1>5. Stage(c)' /\ Balanced(c)'
  BY <1>1, <1>2, Types, ConnectNextPlace
     DEF Stage, Balanced, NewConnection, RoundTripInv, ServerPlace
<1>6. ASSUME NEW other \in Clients \ {c} PROVE Stage(other)' /\ Balanced(other)'
  <2>1. LeftOf(client, other)' = LeftOf(client, other)
    BY <1>1, Types, ConnectNextPlace DEF LeftOf, RoundTripInv, ClientPlace
  <2>2. Untried(other)' <=> Untried(other)
    BY <1>1, Types, ConnectNextPlace DEF Untried, Clients
  <2>. QED BY <1>1, <1>2, <2>1, <2>2, OtherConnection
<1>. QED BY <1>1, <1>3, <1>4, <1>5, <1>6, StepInv

(* The kernel takes bytes of the client's message, the last one perhaps.   *)
LEMMA ClientSendsInv ==
    ASSUME RoundTripInv, NEW n \in 1 .. MESSAGE, ClientSends(n) PROVE RoundTripInv'
<1>1. PICK c \in Clients :
      /\ c = client.conn /\ client.at = "send" /\ RoundTripTypeOK
      /\ n <= client.left /\ conns[c].up + n <= Capacity
      /\ conns' = [conns EXCEPT ![c].up = @ + n]
      /\ UNCHANGED <<server, interrupts, errors>>
  BY DEF ClientSends, RoundTripInv, ClientPlace
<1>2. /\ n \in Nat \ {0} /\ MESSAGE \in Nat \ {0}
      /\ Stage(c) /\ Balanced(c) /\ conns[c] \in ConnectionRecord
      /\ conns[c].client = "open" /\ conns[c].client_buffer = 0
      /\ conns'[c] = [conns[c] EXCEPT !.up = @ + n]
      /\ \A other \in Clients \ {c} : conns'[other] = conns[other]
  BY <1>1, Types, BalancedEach DEF RoundTripInv, ClientPlace
<1>3. conns' \in [Clients -> ConnectionRecord]
  BY <1>1, <1>2, Types DEF ConnectionRecord
<1>4. CASE n < client.left
  <2>1. client' = [client EXCEPT !.left = @ - n]
    BY <1>1, <1>4 DEF ClientSends
  <2>2. /\ client'.at = "send" /\ client'.conn = c /\ client'.left = client.left - n
        /\ client'.left \in 1 .. MESSAGE
    BY <1>1, <1>2, <1>4, <2>1, Types DEF RoundTripTypeOK
  <2>3. RoundTripTypeOK'
    BY <1>1, <1>2, <1>3, <1>4, <2>1, Types DEF RoundTripTypeOK, ConnectionRecord
  <2>4. ClientPlace' /\ ServerPlace'
    BY <1>1, <1>2, <2>2, Types DEF RoundTripInv, ClientPlace, ServerPlace, ConnectionRecord
  <2>5. Stage(c)' /\ Balanced(c)'
    BY <1>1, <1>2, <2>2, Types
       DEF Stage, Untried, Balanced, LeftOf, ConnectionRecord, NewConnection
  <2>6. ASSUME NEW other \in Clients \ {c} PROVE Stage(other)' /\ Balanced(other)'
    <3>1. LeftOf(client, other)' = LeftOf(client, other) /\ (Untried(other)' <=> Untried(other))
      BY <1>1, <2>2 DEF LeftOf, Untried
    <3>. QED BY <1>1, <1>2, <3>1, OtherConnection
  <2>. QED BY <2>3, <2>4, <2>5, <2>6, StepInv
<1>5. CASE ~(n < client.left)
  <2>1. ConnectNext(c) /\ n = client.left
    BY <1>1, <1>2, <1>5, Types DEF ClientSends
  <2>2. RoundTripTypeOK'
    BY <1>1, <1>2, <1>3, <2>1, Types, ConnectNextPlace DEF RoundTripTypeOK, ConnectionRecord
  <2>3. ClientPlace' /\ ServerPlace'
    BY <1>1, <1>2, <2>1, Types, ConnectNextPlace
       DEF RoundTripInv, ClientPlace, ServerPlace, ConnectionRecord
  <2>4. Stage(c)' /\ Balanced(c)'
    BY <1>1, <1>2, <2>1, Types, ConnectNextPlace
       DEF Stage, Untried, Balanced, LeftOf, ConnectionRecord
  <2>5. ASSUME NEW other \in Clients \ {c} PROVE Stage(other)' /\ Balanced(other)'
    <3>1. LeftOf(client, other)' = LeftOf(client, other)
      BY <1>1, <2>1, Types, ConnectNextPlace DEF LeftOf
    <3>2. Untried(other)' <=> Untried(other)
      BY <1>1, <2>1, Types, ConnectNextPlace DEF Untried
    <3>. QED BY <1>1, <1>2, <3>1, <3>2, OtherConnection
  <2>. QED BY <2>2, <2>3, <2>4, <2>5, StepInv
<1>. QED BY <1>4, <1>5

(* What a signal leaves of the message goes to the send_buffer.            *)
LEMMA ClientInterruptedInv == ASSUME RoundTripInv, ClientInterrupted PROVE RoundTripInv'
<1>1. PICK c \in Clients :
      /\ c = client.conn /\ client.at = "send" /\ RoundTripTypeOK
      /\ conns' = [conns EXCEPT ![c].client_buffer = client.left]
      /\ ConnectNext(c)
      /\ interrupts' = interrupts + 1 /\ interrupts < MaxInterrupts
      /\ UNCHANGED <<server, errors>>
  BY DEF ClientInterrupted, RoundTripInv, ClientPlace
<1>2. /\ MESSAGE \in Nat \ {0} /\ interrupts \in Nat /\ client.left \in 0 .. MESSAGE
      /\ Stage(c) /\ Balanced(c) /\ conns[c] \in ConnectionRecord
      /\ conns[c].client = "open" /\ conns[c].client_buffer = 0
      /\ conns'[c] = [conns[c] EXCEPT !.client_buffer = client.left]
      /\ \A other \in Clients \ {c} : conns'[other] = conns[other]
  BY <1>1, Types, BalancedEach, RoundTripAssumption
     DEF RoundTripInv, ClientPlace, RoundTripTypeOK
<1>3. conns' \in [Clients -> ConnectionRecord]
  BY <1>1, <1>2, Types DEF ConnectionRecord
<1>4. RoundTripTypeOK'
  BY <1>1, <1>2, <1>3, Types, ConnectNextPlace, RoundTripAssumption
     DEF RoundTripTypeOK, ConnectionRecord
<1>5. ClientPlace' /\ ServerPlace'
  BY <1>1, <1>2, Types, ConnectNextPlace
     DEF RoundTripInv, ClientPlace, ServerPlace, ConnectionRecord
<1>6. Stage(c)' /\ Balanced(c)'
  BY <1>1, <1>2, Types, ConnectNextPlace
     DEF Stage, Untried, Balanced, LeftOf, ConnectionRecord
<1>7. ASSUME NEW other \in Clients \ {c} PROVE Stage(other)' /\ Balanced(other)'
  <2>1. LeftOf(client, other)' = LeftOf(client, other)
    BY <1>1, Types, ConnectNextPlace DEF LeftOf
  <2>2. Untried(other)' <=> Untried(other)
    BY <1>1, Types, ConnectNextPlace DEF Untried
  <2>. QED BY <1>1, <1>2, <2>1, <2>2, OtherConnection
<1>. QED BY <1>4, <1>5, <1>6, <1>7, StepInv

(* recv(): when the message is back, nothing of it is anywhere else.       *)
LEMMA ClientReceivesInv ==
    ASSUME RoundTripInv, NEW c \in Clients, NEW n \in 1 .. RECV_BUFFER_SIZE,
           ClientReceives(c, n)
    PROVE  RoundTripInv'
<1>. DEFINE replied == conns[c].replied + n
<1>1. /\ client = Polling /\ n <= conns[c].down /\ n \in Nat \ {0} /\ RoundTripTypeOK
      /\ conns' = [conns EXCEPT ![c].down = @ - n, ![c].replied = replied,
                      ![c].client = IF replied = MESSAGE THEN "closed" ELSE "open"]
      /\ ConnectNext(NClients) /\ UNCHANGED <<server, interrupts>>
      /\ errors' \subseteq errors \cup {<<"client", c>>}
  BY RoundTripAssumption DEF ClientReceives, Prints, RoundTripInv
<1>2. /\ MESSAGE \in Nat \ {0} /\ NClients \in Clients
      /\ client.at = "poll" /\ client.conn = 0
      /\ Stage(c) /\ Balanced(c) /\ conns[c] \in ConnectionRecord
      /\ conns[c].client = "open" /\ ServerPlace
      /\ \A other \in Clients \ {c} : conns'[other] = conns[other]
  BY <1>1, Types, BalancedEach DEF RoundTripInv, Polling, At, ClientReceives, Clients
<1>3. conns'[c] = [conns[c] EXCEPT !.down = @ - n, !.replied = replied,
                      !.client = IF replied = MESSAGE THEN "closed" ELSE "open"]
  BY <1>1, <1>2, Types
<1>4. /\ conns[c].received = MESSAGE
      /\ LeftOf(server, c) \in Nat /\ (server.conn = c => LeftOf(server, c) > 0)
  <2>1. conns[c].received \in Nat /\ conns[c].received <= MESSAGE /\ conns[c].down > 0
    BY <1>1, <1>2 DEF ConnectionRecord
  <2>2. conns[c].received = MESSAGE
    BY <1>2, <2>1 DEF Stage
  <2>3. LeftOf(server, c) \in Nat /\ (server.conn = c => LeftOf(server, c) > 0)
    BY <1>1, <1>2, Types DEF LeftOf, ServerPlace, Polling, At
  <2>. QED BY <2>2, <2>3
<1>5. replied \in 0 .. MESSAGE /\ conns[c].down - n \in 0 .. Capacity
  BY <1>1, <1>2, <1>4, Types DEF Balanced, ConnectionRecord
<1>6. replied = MESSAGE =>
          /\ conns[c].up = 0 /\ conns[c].client_buffer = 0
          /\ conns[c].down - n = 0 /\ conns[c].server_buffer = 0 /\ server.conn # c
  BY <1>1, <1>2, <1>4, <1>5, Types DEF Balanced, ConnectionRecord, LeftOf
<1>7. conns' \in [Clients -> ConnectionRecord]
  <2>1. conns'[c] \in ConnectionRecord
    BY <1>2, <1>3, <1>5 DEF ConnectionRecord
  <2>. QED BY <1>1, <1>2, <2>1, Types
<1>8. RoundTripTypeOK'
  <2>1. client' \in [at : {"connect", "send", "poll", "done"}, conn : 0 .. NClients,
                     left : 0 .. MESSAGE]
    BY <1>1, <1>2, Types, ConnectNextPlace
  <2>. QED BY <1>1, <1>7, <2>1 DEF RoundTripTypeOK, ConnectionRecord
<1>9. ClientPlace'
  BY <1>1, <1>2, Types, ConnectNextPlace DEF ClientPlace
<1>10. ServerPlace'
  BY <1>1, <1>2, <1>3, Types DEF ServerPlace, ConnectionRecord
<1>11. Stage(c)'
  <2>1. ~Untried(c)'
    BY <1>1, <1>2, Types, ConnectNextPlace DEF Clients
  <2>2. /\ conns'[c].up = conns[c].up /\ conns'[c].received = conns[c].received
        /\ conns'[c].client_buffer = conns[c].client_buffer
        /\ conns'[c].server_buffer = conns[c].server_buffer
        /\ conns'[c].server = conns[c].server
        /\ conns'[c].down = conns[c].down - n /\ conns'[c].replied = replied
        /\ conns'[c].client = IF replied = MESSAGE THEN "closed" ELSE "open"
    BY <1>2, <1>3 DEF ConnectionRecord
  <2>. QED
    BY <1>1, <1>2, <1>4, <1>5, <1>6, <2>1, <2>2 DEF Stage
<1>12. Balanced(c)'
  <2>1. LeftOf(client, c)' = 0 /\ LeftOf(client, c) = 0 /\ LeftOf(server, c)' = LeftOf(server, c)
    BY <1>1, <1>2, Types, ConnectNextPlace DEF LeftOf, Clients
  <2>. QED
    BY <1>1, <1>2, <1>3, <1>4, <1>5, <2>1, Types DEF Balanced, ConnectionRecord
<1>13. ASSUME NEW other \in Clients \ {c} PROVE Stage(other)' /\ Balanced(other)'
  <2>1. LeftOf(client, other)' = LeftOf(client, other)
    BY <1>1, <1>2, Types, ConnectNextPlace DEF LeftOf, Clients
  <2>2. Untried(other)' <=> Untried(other)
    BY <1>1, <1>2, Types, ConnectNextPlace DEF Untried, Clients
  <2>. QED BY <1>1, <1>2, <2>1, <2>2, OtherConnection
<1>. QED BY <1>8, <1>9, <1>10, <1>11, <1>12, <1>13, StepInv

-----------------------------------------------------------------------------
(* The server program.                                                     *)

(* While the server works on connection c, the others wait.                *)
LEMMA ServerLeavesOthers ==
    ASSUME RoundTripInv, NEW c \in Clients, NEW other \in Clients \ {c},
           conns'[other] = conns[other], interrupts' \in {interrupts, interrupts + 1},
           client' = client, server.conn \in {0, c}, server'.conn \in {0, c}
    PROVE  Stage(other)' /\ Balanced(other)'
<1>1. server.conn # other /\ server'.conn # other
  BY Types DEF RoundTripInv
<1>2. LeftOf(client, other)' = LeftOf(client, other) /\ (Untried(other)' <=> Untried(other))
  BY DEF LeftOf, Untried
<1>. QED BY <1>1, <1>2, OtherConnection

(* accept()                                                                *)
LEMMA ServerAcceptsInv ==
    ASSUME RoundTripInv, NEW c \in Clients, ServerAccepts(c) PROVE RoundTripInv'
<1>1. /\ server = Polling /\ server.at = "poll" /\ server.conn = 0 /\ RoundTripTypeOK
      /\ conns[c].client # "new" /\ conns[c].server = "new"
      /\ conns' = [conns EXCEPT ![c].server = "open"]
      /\ UNCHANGED <<client, server, interrupts, errors>>
  BY DEF ServerAccepts, RoundTripInv, Polling, At
<1>2. /\ Stage(c) /\ Balanced(c) /\ conns[c] \in ConnectionRecord
      /\ conns'[c] = [conns[c] EXCEPT !.server = "open"]
      /\ \A other \in Clients \ {c} : conns'[other] = conns[other]
      /\ conns' \in [Clients -> ConnectionRecord]
  BY <1>1, Types, BalancedEach DEF RoundTripInv, ConnectionRecord
<1>3. RoundTripTypeOK'
  BY <1>1, <1>2 DEF RoundTripTypeOK, ConnectionRecord
<1>4. ClientPlace' /\ ServerPlace'
  BY <1>1, <1>2 DEF RoundTripInv, ClientPlace, ServerPlace, ConnectionRecord
<1>5. Stage(c)' /\ Balanced(c)'
  BY <1>1, <1>2 DEF Stage, Untried, Balanced, LeftOf, ConnectionRecord
<1>6. ASSUME NEW other \in Clients \ {c} PROVE Stage(other)' /\ Balanced(other)'
  BY <1>1, <1>2, ServerLeavesOthers
<1>. QED BY <1>3, <1>4, <1>5, <1>6, StepInv

(* recv(): the whole message turns round at once.                          *)
LEMMA ServerReceivesInv ==
    ASSUME RoundTripInv, NEW c \in Clients, NEW n \in 1 .. RECV_BUFFER_SIZE,
           ServerReceives(c, n)
    PROVE  RoundTripInv'
<1>. DEFINE received == conns[c].received + n
<1>1. /\ server = Polling /\ server.at = "poll" /\ server.conn = 0 /\ RoundTripTypeOK
      /\ conns[c].server = "open" /\ n <= conns[c].up /\ n \in Nat \ {0}
      /\ conns' = [conns EXCEPT ![c].up = @ - n, ![c].received = @ + n]
      /\ server' = IF conns'[c].received = MESSAGE THEN At("send", c, MESSAGE) ELSE server
      /\ errors' \subseteq errors \cup {<<"server", c>>}
      /\ UNCHANGED <<client, interrupts>>
  BY RoundTripAssumption DEF ServerReceives, Prints, RoundTripInv, Polling, At
<1>2. /\ Stage(c) /\ Balanced(c) /\ conns[c] \in ConnectionRecord
      /\ \A other \in Clients \ {c} : conns'[other] = conns[other]
      /\ MESSAGE \in Nat \ {0} /\ LeftOf(client, c) \in Nat /\ LeftOf(server, c) = 0
      /\ ClientPlace
  BY <1>1, Types, BalancedEach DEF RoundTripInv, LeftOf, Polling, At
<1>3. conns'[c] = [conns[c] EXCEPT !.up = @ - n, !.received = @ + n]
  BY <1>1, Types
<1>4. conns[c].client = "open"
  BY <1>1, <1>2 DEF Stage, NewConnection, ConnectionRecord
<1>5. /\ received \in 1 .. MESSAGE /\ conns[c].received < MESSAGE
      /\ conns[c].down = 0 /\ conns[c].replied = 0 /\ conns[c].server_buffer = 0
  BY <1>1, <1>2, <1>4 DEF Stage, Balanced, ConnectionRecord
<1>6. /\ conns'[c].up = conns[c].up - n /\ conns'[c].received = received
      /\ conns'[c].client = "open" /\ conns'[c].server = "open"
      /\ conns'[c].client_buffer = conns[c].client_buffer
      /\ conns'[c].down = 0 /\ conns'[c].replied = 0 /\ conns'[c].server_buffer = 0
  <2>1. conns[c].server = "open"
    BY <1>1
  <2>. QED BY <1>2, <1>3, <1>4, <1>5, <2>1 DEF ConnectionRecord
<1>7. conns' \in [Clients -> ConnectionRecord]
  <2>1. conns'[c] \in ConnectionRecord
    BY <1>1, <1>2, <1>3, <1>5, Types DEF ConnectionRecord
  <2>. QED BY <1>1, <1>2, <2>1, Types
<1>8. /\ server.at = "poll" /\ server.conn = 0 /\ server.left = 0
      /\ \/ /\ received = MESSAGE /\ server' = At("send", c, MESSAGE)
            /\ server'.at = "send" /\ server'.conn = c /\ server'.left = MESSAGE
         \/ received < MESSAGE /\ server' = server
  BY <1>1, <1>5, <1>6, <1>2 DEF At, Polling
<1>9. RoundTripTypeOK'
  <2>1. server' \in [at : {"poll", "send", "flush"}, conn : 0 .. NClients, left : 0 .. MESSAGE]
    BY <1>1, <1>2, <1>8, Types DEF RoundTripTypeOK, At, Clients
  <2>. QED BY <1>1, <1>7, <2>1 DEF RoundTripTypeOK, ConnectionRecord
<1>10. ClientPlace'
  BY <1>1, <1>2, <1>4, <1>6, Types DEF ClientPlace
<1>11. ServerPlace'
  <2>1. CASE received = MESSAGE
    BY <1>2, <1>6, <1>8, <2>1 DEF ServerPlace
  <2>2. CASE received < MESSAGE
    BY <1>1, <1>2, <1>6, <1>8, <2>2 DEF ServerPlace
  <2>. QED BY <1>8, <2>1, <2>2
<1>12. Stage(c)'
  BY <1>1, <1>2, <1>4, <1>5, <1>6 DEF Stage, Untried
<1>13. Balanced(c)'
  <2>1. /\ LeftOf(client, c)' = LeftOf(client, c)
        /\ received = MESSAGE => LeftOf(server, c)' = MESSAGE
    BY <1>1, <1>2, <1>5, <1>8 DEF LeftOf
  <2>. QED
    BY <1>1, <1>2, <1>4, <1>5, <1>6, <2>1 DEF Balanced, ConnectionRecord
<1>14. ASSUME NEW other \in Clients \ {c} PROVE Stage(other)' /\ Balanced(other)'
  <2>1. server'.conn \in {0, c}
    BY <1>1, <1>8 DEF At
  <2>. QED BY <1>1, <1>2, <2>1, ServerLeavesOthers
<1>. QED BY <1>9, <1>10, <1>11, <1>12, <1>13, <1>14, StepInv

(* recv() returns 0.                                                       *)
LEMMA ServerHearsEndInv ==
    ASSUME RoundTripInv, NEW c \in Clients, ServerHearsEnd(c) PROVE RoundTripInv'
<1>1. /\ server = Polling /\ server.at = "poll" /\ server.conn = 0 /\ RoundTripTypeOK
      /\ conns[c].client = "closed" /\ conns[c].server = "open"
      /\ conns' = [conns EXCEPT ![c].server = "closed"]
      /\ errors' \subseteq errors \cup {<<"server", c>>}
      /\ UNCHANGED <<client, server, interrupts>>
  BY DEF ServerHearsEnd, Prints, RoundTripInv, Polling, At
<1>2. /\ Stage(c) /\ Balanced(c) /\ conns[c] \in ConnectionRecord
      /\ conns'[c] = [conns[c] EXCEPT !.server = "closed"]
      /\ \A other \in Clients \ {c} : conns'[other] = conns[other]
      /\ conns' \in [Clients -> ConnectionRecord]
  BY <1>1, Types, BalancedEach DEF RoundTripInv, ConnectionRecord
<1>3. RoundTripTypeOK'
  BY <1>1, <1>2 DEF RoundTripTypeOK, ConnectionRecord
<1>4. ClientPlace' /\ ServerPlace'
  BY <1>1, <1>2 DEF RoundTripInv, ClientPlace, ServerPlace, ConnectionRecord
<1>5. Stage(c)' /\ Balanced(c)'
  BY <1>1, <1>2 DEF Stage, Untried, Balanced, LeftOf, ConnectionRecord
<1>6. ASSUME NEW other \in Clients \ {c} PROVE Stage(other)' /\ Balanced(other)'
  BY <1>1, <1>2, ServerLeavesOthers
<1>. QED BY <1>3, <1>4, <1>5, <1>6, StepInv

(* The WRITEABLE callback: what waits is offered, and stays in the buffer. *)
LEMMA ServerFlushesInv ==
    ASSUME RoundTripInv, NEW c \in Clients, ServerFlushes(c) PROVE RoundTripInv'
<1>1. /\ server = Polling /\ server.at = "poll" /\ server.conn = 0 /\ server.left = 0
      /\ conns[c].server = "open" /\ conns[c].server_buffer > 0 /\ RoundTripTypeOK
      /\ server' = At("flush", c, conns[c].server_buffer)
      /\ server'.at = "flush" /\ server'.conn = c /\ server'.left = conns[c].server_buffer
      /\ UNCHANGED <<client, conns, interrupts, errors>>
  BY DEF ServerFlushes, RoundTripInv, Polling, At
<1>2. /\ Stage(c) /\ Balanced(c) /\ conns[c] \in ConnectionRecord
      /\ MESSAGE \in Nat \ {0} /\ c # 0
  BY <1>1, Types, BalancedEach DEF RoundTripInv
<1>3. conns[c].received = MESSAGE
  BY <1>1, <1>2 DEF Stage, ConnectionRecord
<1>4. RoundTripTypeOK'
  <2>1. server' \in [at : {"poll", "send", "flush"}, conn : 0 .. NClients, left : 0 .. MESSAGE]
    BY <1>1, <1>2, Types DEF At, Clients, ConnectionRecord
  <2>. QED BY <1>1, <2>1 DEF RoundTripTypeOK
<1>5. ClientPlace' /\ ServerPlace'
  BY <1>1, <1>2, <1>3 DEF RoundTripInv, ClientPlace, ServerPlace
<1>6. Stage(c)' /\ Balanced(c)'
  BY <1>1, <1>2, <1>3 DEF Stage, Untried, Balanced, LeftOf, ConnectionRecord
<1>7. ASSUME NEW other \in Clients \ {c} PROVE Stage(other)' /\ Balanced(other)'
  BY <1>1, <1>2, ServerLeavesOthers
<1>. QED BY <1>4, <1>5, <1>6, <1>7, StepInv

(* The kernel takes bytes of the reply, or of what was left of it.         *)
LEMMA ServerSendsInv ==
    ASSUME RoundTripInv, NEW n \in 1 .. MESSAGE, ServerSends(n) PROVE RoundTripInv'
<1>1. PICK c \in Clients :
      /\ c = server.conn /\ server.at \in {"send", "flush"} /\ RoundTripTypeOK
      /\ n <= server.left /\ conns[c].down + n <= Capacity
      /\ conns' = [conns EXCEPT ![c].down = @ + n,
                      ![c].server_buffer = IF n < server.left THEN @ ELSE Popped(server.at, @)]
      /\ server' = IF n < server.left THEN [server EXCEPT !.left = @ - n] ELSE Polling
      /\ UNCHANGED <<client, interrupts, errors>>
  BY DEF ServerSends, RoundTripInv, ServerPlace
<1>2. /\ n \in Nat \ {0} /\ MESSAGE \in Nat \ {0} /\ server.left \in 0 .. MESSAGE /\ c # 0
      /\ Stage(c) /\ Balanced(c) /\ conns[c] \in ConnectionRecord
      /\ conns[c].server = "open" /\ conns[c].received = MESSAGE
      /\ server.at = "send" => conns[c].server_buffer = 0
      /\ server.at = "flush" => conns[c].server_buffer > 0
      /\ \A other \in Clients \ {c} : conns'[other] = conns[other]
      /\ ClientPlace
  BY <1>1, Types, BalancedEach DEF RoundTripInv, ServerPlace
<1>. DEFINE left == server.left - n
            buffer == IF n < server.left THEN conns[c].server_buffer ELSE 0
<1>3. conns'[c] = [conns[c] EXCEPT !.down = @ + n, !.server_buffer = buffer]
  <2>1. conns'[c] = [conns[c] EXCEPT !.down = @ + n,
              !.server_buffer = IF n < server.left THEN @ ELSE Popped(server.at, @)]
    BY <1>1, Types
  <2>2. n < server.left \/ Popped(server.at, conns[c].server_buffer) = 0
    BY <1>1, <1>2 DEF Popped
  <2>. QED BY <1>2, <2>1, <2>2
<1>4. /\ buffer \in 0 .. MESSAGE /\ conns[c].down + n \in 0 .. Capacity /\ left \in 0 .. MESSAGE
      /\ n < server.left <=> left > 0
  BY <1>1, <1>2, Types DEF ConnectionRecord
<1>5. /\ conns'[c].up = conns[c].up /\ conns'[c].received = MESSAGE
      /\ conns'[c].client = conns[c].client /\ conns'[c].server = "open"
      /\ conns'[c].client_buffer = conns[c].client_buffer
      /\ conns'[c].down = conns[c].down + n /\ conns'[c].replied = conns[c].replied
      /\ conns'[c].server_buffer = buffer
  BY <1>2, <1>3 DEF ConnectionRecord
<1>6. \/ /\ left > 0 /\ server' = [server EXCEPT !.left = left]
         /\ server'.at = server.at /\ server'.conn = c /\ server'.left = left
      \/ left = 0 /\ server' = Polling /\ server'.at = "poll" /\ server'.conn = 0
  BY <1>1, <1>4 DEF RoundTripTypeOK, Polling, At
<1>7. RoundTripTypeOK'
  <2>1. conns'[c] \in ConnectionRecord
    BY <1>2, <1>3, <1>4 DEF ConnectionRecord
  <2>2. conns' \in [Clients -> ConnectionRecord]
    <3>1. conns \in [Clients -> ConnectionRecord]
      BY <1>1, Types
    <3>2. conns' = [o \in Clients |-> conns'[o]]
      BY <1>1, <3>1
    <3>3. \A o \in Clients : conns'[o] \in ConnectionRecord
      BY <1>2, <2>1, <3>1
    <3>. QED BY <3>2, <3>3
  <2>3. server' \in [at : {"poll", "send", "flush"}, conn : 0 .. NClients, left : 0 .. MESSAGE]
    BY <1>1, <1>2, <1>4, <1>6, Types DEF RoundTripTypeOK, Polling, At
  <2>. QED BY <1>1, <2>2, <2>3 DEF RoundTripTypeOK, ConnectionRecord
<1>8. ClientPlace'
  <2>1. \A o \in Clients : /\ conns'[o].client = conns[o].client
                           /\ conns'[o].client_buffer = conns[o].client_buffer
    BY <1>2, <1>5
  <2>. QED BY <1>1, <1>2, <2>1 DEF ClientPlace
<1>9. ServerPlace'
  BY <1>1, <1>2, <1>4, <1>5, <1>6 DEF ServerPlace
<1>10. /\ left + n + conns[c].down + conns[c].replied
            + (IF server.at = "flush" THEN 0 ELSE conns[c].server_buffer) = MESSAGE
       /\ conns[c].client \notin {"closed", "failed"}
  BY <1>1, <1>2, <1>4 DEF Stage, Balanced, LeftOf, ConnectionRecord, NewConnection
<1>11. Stage(c)'
  <2>1. conns[c].client # "new"
    BY <1>2 DEF Stage, NewConnection
  <2>2. /\ conns'[c].received = MESSAGE /\ conns'[c].server = "open"
        /\ conns'[c].client = conns[c].client /\ conns'[c].client \notin {"closed", "failed"}
    BY <1>5, <1>10
  <2>3. ~Untried(c)
    BY <1>2, <2>1 DEF Stage
  <2>4. ~Untried(c)'
    BY <1>1, <2>3 DEF Untried
  <2>5. conns'[c].server_buffer > 0 => interrupts' > 0
    <3>1. interrupts' = interrupts /\ conns'[c].server_buffer = buffer
      BY <1>1, <1>5
    <3>2. buffer > 0 => conns[c].server_buffer > 0
      OBVIOUS
    <3>. QED BY <1>2, <3>1, <3>2 DEF Stage
  <2>. QED BY <1>2, <2>1, <2>2, <2>4, <2>5 DEF Stage
<1>12. Balanced(c)'
  <2>1. LeftOf(client, c)' = LeftOf(client, c) /\ LeftOf(server, c)' = left
    BY <1>1, <1>2, <1>4, <1>6 DEF LeftOf
  <2>2. conns'[c].client = "open" =>
            LeftOf(client, c)' + conns'[c].client_buffer + conns'[c].up + conns'[c].received
                = MESSAGE
    BY <1>2, <1>5, <2>1 DEF Balanced
  <2>3. LeftOf(server, c)' + conns'[c].down + conns'[c].replied
            + (IF server'.at = "flush" /\ server'.conn = c THEN 0 ELSE conns'[c].server_buffer)
                = MESSAGE
    <3>1. CASE left > 0
      BY <1>1, <1>2, <1>4, <1>5, <1>6, <1>10, <2>1, <3>1 DEF ConnectionRecord
    <3>2. CASE left = 0
      BY <1>1, <1>2, <1>4, <1>5, <1>6, <1>10, <2>1, <3>2 DEF ConnectionRecord
    <3>. QED BY <1>4, <3>1, <3>2
  <2>. QED BY <2>2, <2>3 DEF Balanced
<1>13. ASSUME NEW other \in Clients \ {c} PROVE Stage(other)' /\ Balanced(other)'
  BY <1>1, <1>2, <1>6, ServerLeavesOthers
<1>. QED BY <1>7, <1>8, <1>9, <1>11, <1>12, <1>13, StepInv

(* What a signal leaves of the reply goes to the send_buffer; it does not  *)
(* interrupt a flush, which is what another signal left.                   *)
LEMMA ServerInterruptedInv == ASSUME RoundTripInv, ServerInterrupted PROVE RoundTripInv'
<1>1. PICK c \in Clients :
      /\ c = server.conn /\ server.at \in {"send", "flush"} /\ RoundTripTypeOK
      /\ conns' = [conns EXCEPT ![c].server_buffer = Leftover(server.at, server.left, @)]
      /\ server' = Polling /\ server'.at = "poll" /\ server'.conn = 0
      /\ interrupts' = interrupts + 1 /\ interrupts < MaxInterrupts
      /\ UNCHANGED <<client, errors>>
  BY DEF ServerInterrupted, RoundTripInv, ServerPlace, Polling, At
<1>2. /\ MESSAGE \in Nat \ {0} /\ server.left \in 0 .. MESSAGE /\ c # 0
      /\ interrupts = 0 /\ interrupts' = 1 /\ MaxInterrupts = 1
      /\ Stage(c) /\ Balanced(c) /\ conns[c] \in ConnectionRecord
      /\ conns[c].server = "open" /\ conns[c].received = MESSAGE
      /\ server.at = "send" => conns[c].server_buffer = 0
      /\ server.at = "flush" => conns[c].server_buffer > 0
      /\ server.left > 0 /\ ClientPlace
      /\ \A other \in Clients \ {c} : conns'[other] = conns[other]
  BY <1>1, Types, BalancedEach, RoundTripAssumption
     DEF RoundTripInv, ServerPlace, RoundTripTypeOK
<1>3. server.at = "send" /\ conns[c].server_buffer = 0
  BY <1>1, <1>2 DEF Stage
<1>4. conns'[c] = [conns[c] EXCEPT !.server_buffer = server.left]
  BY <1>1, <1>3, Types DEF Leftover
<1>5. /\ conns'[c].up = conns[c].up /\ conns'[c].received = MESSAGE
      /\ conns'[c].client = conns[c].client /\ conns'[c].server = "open"
      /\ conns'[c].client_buffer = conns[c].client_buffer
      /\ conns'[c].down = conns[c].down /\ conns'[c].replied = conns[c].replied
      /\ conns'[c].server_buffer = server.left
  BY <1>2, <1>4 DEF ConnectionRecord
<1>6. RoundTripTypeOK'
  <2>1. conns'[c] \in ConnectionRecord
    BY <1>2, <1>4 DEF ConnectionRecord
  <2>2. conns' \in [Clients -> ConnectionRecord]
    BY <1>1, <1>2, <2>1, Types
  <2>3. server' \in [at : {"poll", "send", "flush"}, conn : 0 .. NClients, left : 0 .. MESSAGE]
    BY <1>1, <1>2, Types DEF Polling, At
  <2>. QED BY <1>1, <1>2, <2>2, <2>3 DEF RoundTripTypeOK, ConnectionRecord
<1>7. ClientPlace' /\ ServerPlace'
  BY <1>1, <1>2, <1>5 DEF ClientPlace, ServerPlace
<1>8. /\ server.left + conns[c].down + conns[c].replied = MESSAGE
      /\ conns[c].client \notin {"closed", "failed", "new"}
  BY <1>1, <1>2, <1>3 DEF Stage, Balanced, LeftOf, ConnectionRecord, NewConnection
<1>9. Stage(c)'
  BY <1>1, <1>2, <1>5, <1>8 DEF Stage, Untried
<1>10. Balanced(c)'
  BY <1>1, <1>2, <1>5, <1>8 DEF Balanced, LeftOf, ConnectionRecord
<1>11. ASSUME NEW other \in Clients \ {c} PROVE Stage(other)' /\ Balanced(other)'
  BY <1>1, <1>2, ServerLeavesOthers
<1>. QED BY <1>6, <1>7, <1>9, <1>10, <1>11, StepInv

-----------------------------------------------------------------------------
(* Every step of the two programs preserves the invariant.                 *)
LEMMA RoundTripNextInv ==
    ASSUME RoundTripInv, [RoundTripNext]_roundTripVars PROVE RoundTripInv'
<1>1. CASE ClientThread
  BY <1>1, ClientConnectsInv, ClientSendsInv, ClientReceivesInv DEF ClientThread
<1>2. CASE ConnectFails \/ ClientInterrupted \/ ServerInterrupted
  BY <1>2, ConnectFailsInv, ClientInterruptedInv, ServerInterruptedInv
<1>3. CASE ServerThread
  BY <1>3, ServerSendsInv, ServerAcceptsInv, ServerReceivesInv, ServerHearsEndInv,
     ServerFlushesInv
     DEF ServerThread, ServerOn
<1>4. CASE UNCHANGED roundTripVars
  BY <1>4
     DEF roundTripVars, RoundTripInv, RoundTripTypeOK, ClientPlace, ServerPlace, Stage,
         Untried, BytesConserved, LeftOf
<1>. QED BY <1>1, <1>2, <1>3, <1>4 DEF RoundTripNext

(* The connections connect() failed for.                                   *)
Failed == {c \in Clients : conns[c].client = "failed"}

(* An error is printed when a connection fails, and at no other time: the  *)
(* bytes of a connection that was made add up.                             *)
LEMMA ErrorsNext ==
    ASSUME RoundTripInv, RoundTripInv', ErrorsAreOfFailedConnects,
           [RoundTripNext]_roundTripVars
    PROVE  ErrorsAreOfFailedConnects'
<1>1. /\ RoundTripTypeOK /\ RoundTripTypeOK' /\ MESSAGE \in Nat
      /\ conns \in [Clients -> ConnectionRecord] /\ ClientPlace /\ ServerPlace
      /\ conns' \in [Clients -> ConnectionRecord]
      /\ \A c \in Clients : Stage(c)
  BY Types DEF RoundTripInv, RoundTripTypeOK, ConnectionRecord
<1>2. SUFFICES \/ Failed' = Failed /\ errors' = errors
               \/ \E c \in Clients : /\ Failed' = Failed \cup {c}
                                     /\ errors' = errors \cup {<<"client", c>>}
  BY DEF ErrorsAreOfFailedConnects, Failed
<1>3. CASE ConnectFails
  BY <1>1, <1>3 DEF ConnectFails, Prints, ClientPlace, Failed
<1>4. ASSUME NEW c \in Clients, NEW n \in 1 .. RECV_BUFFER_SIZE, ClientReceives(c, n)
      PROVE  Failed' = Failed /\ errors' = errors
  <2>1. ~(conns[c].replied + n > MESSAGE)
    BY <1>1, <1>4 DEF ClientReceives, ConnectionRecord
  <2>. QED BY <1>1, <1>4, <2>1 DEF ClientReceives, Failed
<1>5. ASSUME NEW c \in Clients, NEW n \in 1 .. RECV_BUFFER_SIZE, ServerReceives(c, n)
      PROVE  Failed' = Failed /\ errors' = errors
  <2>1. ~(conns'[c].received > MESSAGE)
    BY <1>1, <1>5 DEF ConnectionRecord
  <2>. QED BY <1>1, <1>5, <2>1 DEF ServerReceives, Failed
<1>6. ASSUME NEW c \in Clients, ServerHearsEnd(c) PROVE Failed' = Failed /\ errors' = errors
  BY <1>1, <1>6 DEF ServerHearsEnd, Stage, Failed
<1>7. CASE ClientConnects
  <2>1. client.conn \in Clients /\ conns[client.conn].client = "new"
    BY <1>1, <1>7 DEF ClientConnects, ClientPlace, Stage, Untried, Clients
  <2>. QED BY <1>1, <1>7, <2>1 DEF ClientConnects, Failed
<1>8. CASE ClientInterrupted \/ ServerInterrupted \/ (\E n \in 1 .. MESSAGE : ServerSends(n))
        \/ (\E n \in 1 .. MESSAGE : ClientSends(n))
        \/ (\E c \in Clients : ServerAccepts(c) \/ ServerFlushes(c))
  <2>1. errors' = errors
    BY <1>8
       DEF ClientInterrupted, ServerInterrupted, ServerSends, ClientSends, ServerAccepts,
           ServerFlushes
  <2>2. ASSUME NEW d \in Clients PROVE conns'[d].client = conns[d].client
    <3>1. conns[d] \in ConnectionRecord
      BY <1>1
    <3>2. CASE ClientInterrupted \/ ServerInterrupted
      BY <1>1, <3>1, <3>2 DEF ClientInterrupted, ServerInterrupted, ConnectionRecord
    <3>3. ASSUME NEW n \in 1 .. MESSAGE, ClientSends(n)
          PROVE  conns'[d].client = conns[d].client
      BY <1>1, <3>1, <3>3 DEF ClientSends, ConnectionRecord
    <3>4. ASSUME NEW n \in 1 .. MESSAGE, ServerSends(n)
          PROVE  conns'[d].client = conns[d].client
      BY <1>1, <3>1, <3>4 DEF ServerSends, ConnectionRecord
    <3>5. ASSUME NEW c \in Clients, ServerAccepts(c) \/ ServerFlushes(c)
          PROVE  conns'[d].client = conns[d].client
      BY <1>1, <3>1, <3>5 DEF ServerAccepts, ServerFlushes, ConnectionRecord
    <3>. QED BY <1>8, <3>2, <3>3, <3>4, <3>5
  <2>. QED BY <2>1, <2>2 DEF Failed
<1>9. CASE UNCHANGED roundTripVars
  BY <1>9 DEF roundTripVars, Failed
<1>. QED
  BY <1>3, <1>4, <1>5, <1>6, <1>7, <1>8, <1>9
     DEF RoundTripNext, ClientThread, ServerThread, ServerOn

-----------------------------------------------------------------------------
(* udp-client and udp-server: the number of turns is inductive with the    *)
(* types alone.                                                            *)

UdpEchoInv == UdpEchoTypeOK /\ TurnsConserved

(* The client has the first turn.                                          *)
LEMMA UdpEchoInitInv == UdpEchoInit => UdpEchoInv
  BY UdpEchoAssumption
     DEF UdpEchoInit, UdpEchoInv, UdpEchoTypeOK, TurnsConserved, Turns, Faults

(* A fault is counted, and no other fault is.                              *)
LEMMA FaultCounted ==
    ASSUME UdpEchoTypeOK, NEW fault \in Faults, Fault(fault)
    PROVE  /\ faults' \in [Faults -> 0 .. MaxFaults]
           /\ faults'[fault] = faults[fault] + 1
           /\ \A other \in Faults \ {fault} : faults'[other] = faults[other]
  BY UdpEchoAssumption DEF Fault, UdpEchoTypeOK

(* Every step passes a turn on, or is a fault that adds or takes one.      *)
LEMMA UdpEchoNextInv == ASSUME UdpEchoInv, [UdpEchoNext]_udpEchoVars PROVE UdpEchoInv'
<1>0. /\ UdpEchoTypeOK /\ TurnsConserved
      /\ {"lost", "duplicated", "interrupted"} = Faults
      /\ \A fault \in Faults : faults[fault] \in Nat
  BY UdpEchoAssumption DEF UdpEchoInv, Faults, UdpEchoTypeOK
<1>1. Lose => /\ faults' \in [Faults -> 0 .. MaxFaults]
              /\ faults'["lost"] = faults["lost"] + 1
              /\ faults'["duplicated"] = faults["duplicated"]
              /\ faults'["interrupted"] = faults["interrupted"]
  BY <1>0, FaultCounted DEF Lose, Faults
<1>2. Fault("duplicated") =>
              /\ faults' \in [Faults -> 0 .. MaxFaults]
              /\ faults'["duplicated"] = faults["duplicated"] + 1
              /\ faults'["lost"] = faults["lost"]
              /\ faults'["interrupted"] = faults["interrupted"]
  BY <1>0, FaultCounted DEF Faults
<1>3. Fault("interrupted") =>
              /\ faults' \in [Faults -> 0 .. MaxFaults]
              /\ faults'["interrupted"] = faults["interrupted"] + 1
              /\ faults'["lost"] = faults["lost"]
              /\ faults'["duplicated"] = faults["duplicated"]
  BY <1>0, FaultCounted DEF Faults
<1>4. CASE ClientSendsTo \/ ClientSendFails \/ ClientPolls
  BY <1>0, <1>1, <1>4
     DEF ClientSendsTo, ClientSendFails, ClientPolls, UdpEchoInv, UdpEchoTypeOK,
         TurnsConserved, Turns
<1>5. CASE ClientPollInterrupted
  BY <1>0, <1>3, <1>5
     DEF ClientPollInterrupted, UdpEchoInv, UdpEchoTypeOK, TurnsConserved, Turns
<1>6. CASE ServerBinds \/ ServerHears \/ ServerAnswers
  BY <1>0, <1>1, <1>6
     DEF ServerBinds, ServerHears, ServerAnswers, UdpEchoInv, UdpEchoTypeOK,
         TurnsConserved, Turns
<1>7. CASE NetworkLoses \/ NetworkDuplicates
  BY <1>0, <1>1, <1>2, <1>7
     DEF NetworkLoses, NetworkDuplicates, UdpEchoInv, UdpEchoTypeOK, TurnsConserved, Turns
<1>8. CASE UNCHANGED udpEchoVars
  BY <1>8 DEF udpEchoVars, UdpEchoInv, UdpEchoTypeOK, TurnsConserved, Turns
<1>. QED
  BY <1>4, <1>5, <1>6, <1>7, <1>8 DEF UdpEchoNext, UdpPrograms, UdpFaults

-----------------------------------------------------------------------------
(* tcp-client and tcp-server: what a client may see of its connection      *)
(* follows from where the server is, and that from what it heard: a server *)
(* that ends without the command could not listen, and nobody was ever     *)
(* connected to it.                                                        *)

CloseCommandInv ==
    /\ CloseCommandTypeOK /\ ConnectionsFollowCommand
    /\ tcp_server = "close" => heard = "command"
    /\ heard = "command" => tcp_server \in {"close", "done"}
    /\ tcp_server \in {"listen", "done"} => listeners = {}
    /\ tcp_server = "listen" \/ (tcp_server = "done" /\ heard # "command") =>
          \A p \in Peers : links[p] = "none"

(* Nobody is connected.                                                    *)
LEMMA CloseCommandInitInv == CloseCommandInit => CloseCommandInv
  BY DEF CloseCommandInit, CloseCommandInv, CloseCommandTypeOK, ConnectionsFollowCommand, Peers

(* A client program takes a step, or the operator does.                    *)
LEMMA PeerInv ==
    ASSUME CloseCommandInv, NEW p \in Peers, PeerProgram(p) \/ OperatorQuits
    PROVE  CloseCommandInv'
<1>1. /\ UNCHANGED <<tcp_server, heard>>
      /\ links' \in [Peers -> {"none", "queued", "accepted", "closed", "reset"}]
      /\ \A q \in Peers \ {p} : links'[q] = links[q]
      /\ links'[p] \in {"closed", "reset"} => links[p] \in {"closed", "reset"}
      /\ links'[p] \in {"queued", "accepted"} =>
            links[p] \in {"queued", "accepted"} \/ tcp_server # "done"
      /\ links'[p] # "none" => links[p] # "none" \/ tcp_server \notin {"listen", "done"}
      /\ UNCHANGED listeners
  BY DEF PeerProgram, PeerConnects, PeerRefused, PeerSends, PeerSendsInVain, PeerHears,
         OperatorQuits, Goes, Becomes, CloseCommandInv, CloseCommandTypeOK
<1>2. CloseCommandTypeOK'
  BY <1>1
     DEF PeerProgram, PeerConnects, PeerRefused, PeerSends, PeerSendsInVain, PeerHears,
         OperatorQuits, Goes, CloseCommandInv, CloseCommandTypeOK, Peers
<1>3. ConnectionsFollowCommand'
  BY <1>1 DEF CloseCommandInv, ConnectionsFollowCommand, Peers
<1>4. tcp_server = "listen" \/ (tcp_server = "done" /\ heard # "command") =>
          \A q \in Peers : links'[q] = "none"
  BY <1>1 DEF CloseCommandInv
<1>. QED BY <1>1, <1>2, <1>3, <1>4 DEF CloseCommandInv

(* The server takes a step: it closes a client of its own accord only in   *)
(* close(), and close() ends when it has let go of all of them.            *)
LEMMA TcpServerInv == ASSUME CloseCommandInv, TcpServerProgram PROVE CloseCommandInv'
<1>1. CASE ServerListens
  BY <1>1
     DEF ServerListens, Peers, CloseCommandInv, CloseCommandTypeOK, ConnectionsFollowCommand
<1>2. CASE ServerLosesOperator
  BY <1>2, CloseCommandAssumption
     DEF ServerLosesOperator, Becomes, Peers, CloseCommandInv, CloseCommandTypeOK,
         ConnectionsFollowCommand
<1>3. CASE ServerClosesListeners
  BY <1>3
     DEF ServerClosesListeners, Peers, CloseCommandInv, CloseCommandTypeOK,
         ConnectionsFollowCommand
<1>4. ASSUME NEW p \in Peers, ServerTakes(p) PROVE CloseCommandInv'
  BY <1>4
     DEF ServerTakes, Becomes, Peers, CloseCommandInv, CloseCommandTypeOK,
         ConnectionsFollowCommand
<1>5. ASSUME NEW p \in Peers, ServerReads(p) PROVE CloseCommandInv'
  <2>1. /\ UNCHANGED <<programs, links, listeners>> /\ tcp_server = "poll"
        /\ tcp_server' \in {"poll", "close"}
        /\ tcp_server' = "close" => heard' = "command"
        /\ heard' \in {heard, "command", "pieces"}
        /\ unread' \in {[unread EXCEPT ![p] = "nothing"], [unread EXCEPT ![p] = "rest"]}
    BY <1>5 DEF ServerReads
  <2>2. unread' \in [Peers -> {"nothing", "hello", "command", "rest"}]
    BY <2>1 DEF CloseCommandInv, CloseCommandTypeOK
  <2>3. heard # "command" /\ (tcp_server' = "close" <=> heard' = "command")
    BY <1>5 DEF ServerReads, CloseCommandInv
  <2>4. CloseCommandTypeOK'
    BY <2>1, <2>2 DEF CloseCommandInv, CloseCommandTypeOK
  <2>5. ConnectionsFollowCommand'
    BY <2>1, <2>3 DEF CloseCommandInv, ConnectionsFollowCommand
  <2>. QED BY <2>1, <2>3, <2>4, <2>5 DEF CloseCommandInv
<1>6. ASSUME NEW p \in Peers, ServerClosesOne(p) PROVE CloseCommandInv'
  BY <1>6
     DEF ServerClosesOne, Becomes, Peers, CloseCommandInv, CloseCommandTypeOK,
         ConnectionsFollowCommand
<1>. QED BY <1>1, <1>2, <1>3, <1>4, <1>5, <1>6 DEF TcpServerProgram

(* Every step of the programs preserves the invariant.                     *)
LEMMA CloseCommandNextInv ==
    ASSUME CloseCommandInv, [CloseCommandNext]_closeCommandVars PROVE CloseCommandInv'
<1>1. CASE OperatorQuits \/ \E p \in Peers : PeerProgram(p)
  BY <1>1, PeerInv DEF Peers
<1>2. CASE TcpServerProgram
  BY <1>2, TcpServerInv
<1>3. CASE UNCHANGED closeCommandVars
  BY <1>3
     DEF closeCommandVars, CloseCommandInv, CloseCommandTypeOK, ConnectionsFollowCommand
<1>. QED BY <1>1, <1>2, <1>3 DEF CloseCommandNext

-----------------------------------------------------------------------------
(* What holds of the three pairs of programs, whichever was started.       *)

ExamplesInv == RoundTripInv /\ UdpEchoInv /\ CloseCommandInv

(* Only one pair moves, and the invariants of the others do not see it.    *)
LEMMA ExamplesNextInv == ASSUME ExamplesInv, [Next]_examplesVars PROVE ExamplesInv'
<1>1. [RoundTripNext]_roundTripVars /\ [UdpEchoNext]_udpEchoVars
        /\ [CloseCommandNext]_closeCommandVars
  BY DEF Next, examplesVars
<1>. QED BY <1>1, RoundTripNextInv, UdpEchoNextInv, CloseCommandNextInv DEF ExamplesInv

(* The invariant of the programs holds in every reachable state.           *)
THEOREM ExamplesInvariant == Spec => []ExamplesInv
<1>1. Init => ExamplesInv
  BY RoundTripInitInv, UdpEchoInitInv, CloseCommandInitInv DEF Init, ExamplesInv
<1>. QED BY <1>1, ExamplesNextInv, PTL DEF Spec

(* The example programs have their types.                                  *)
THEOREM ExamplesTypeCorrect == Spec => []TypeOK
<1>1. ExamplesInv => TypeOK
  BY DEF ExamplesInv, RoundTripInv, UdpEchoInv, CloseCommandInv, TypeOK
<1>. QED BY ExamplesInvariant, <1>1, PTL

(* Every byte of a round trip is in one place, for every number of clients,*)
(* message, receive buffer and capacity of the kernel.                     *)
THEOREM RoundTripBytesConserved == Spec => []BytesConserved
<1>1. ExamplesInv => BytesConserved
  BY DEF ExamplesInv, RoundTripInv
<1>. QED BY ExamplesInvariant, <1>1, PTL

(* And so the two programs have no error to print about a connection that *)
(* was made, and the client one about each that was not.                   *)
THEOREM RoundTripErrors == Spec => []ErrorsAreOfFailedConnects
<1>1. Init => ErrorsAreOfFailedConnects
  BY DEF Init, RoundTripInit, ErrorsAreOfFailedConnects, NewConnection
<1>2. ExamplesInv /\ ExamplesInv' /\ ErrorsAreOfFailedConnects /\ [Next]_examplesVars
        => ErrorsAreOfFailedConnects'
  BY ErrorsNext DEF ExamplesInv, Next, examplesVars
<1>. QED BY <1>1, <1>2, ExamplesInvariant, PTL DEF Spec

(* The turns of the udp exchange are conserved, for every number of faults.*)
THEOREM UdpTurnsConserved == Spec => []TurnsConserved
<1>1. ExamplesInv => TurnsConserved
  BY DEF ExamplesInv, UdpEchoInv
<1>. QED BY ExamplesInvariant, <1>1, PTL

(* The connections of the tcp examples follow the close command, for every *)
(* set of clients.                                                         *)
THEOREM ConnectionsDoFollowCommand == Spec => []ConnectionsFollowCommand
<1>1. ExamplesInv => ConnectionsFollowCommand
  BY DEF ExamplesInv, CloseCommandInv
<1>. QED BY ExamplesInvariant, <1>1, PTL

=============================================================================
