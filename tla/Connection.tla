----------------------------- MODULE Connection -----------------------------
(***************************************************************************)
(* The sending side of tcp::connection_base: send(), the send_buffer of    *)
(* messages the kernel did not take whole, and send_flush(), which         *)
(* server::accept makes the WRITEABLE callback of a client's socket.       *)
(*                                                                         *)
(* Bytes are numbered in the order the application sends them.  A ::send   *)
(* that fails changes nothing, in send() and in send_flush().              *)
(***************************************************************************)
EXTENDS Integers, SequencesExt

CONSTANTS
    MaxMessage, \* bound on the length of a message
    MaxBytes,   \* bound on the bytes the application sends
    MaxWire     \* bound on the bytes offered to the kernel, resent ones included

ASSUME ConnectionAssumption ==
    MaxMessage \in Nat \ {0} /\ MaxBytes \in Nat /\ MaxWire \in Nat

VARIABLES
    send_buffer,  \* std::queue<std::string>
    want_write,   \* is POLLOUT among the events of the socket?
    accepted,     \* history: the bytes of the messages for which send() returned true
    wire,         \* history: the bytes the kernel took, in order
    careful       \* history: nothing was sent while older bytes waited, and the
                  \* kernel took whole what send_flush() offered

connectionVars == <<send_buffer, want_write, accepted, wire, careful>>

Byte == 1 .. MaxBytes

ConnectionInit ==
    /\ send_buffer = <<>> /\ want_write = FALSE
    /\ accepted = <<>> /\ wire = <<>> /\ careful = TRUE

(* The next n bytes of the application.                                    *)
Message(n) == [i \in 1 .. n |-> Len(accepted) + i]

From(message, n_bytes) == SubSeq(message, n_bytes + 1, Len(message))

-----------------------------------------------------------------------------
(* Mutations of KeepLeftover: a leftover of nothing is queued too, the     *)
(* leftover is queued in front or whole, POLLOUT is not asked for.         *)
KeepEvenNothing(message, n_bytes) ==
    send_buffer' = Append(send_buffer, From(message, n_bytes)) /\ want_write' = TRUE

KeepInFront(message, n_bytes) ==
    IF n_bytes = Len(message) THEN UNCHANGED <<send_buffer, want_write>>
    ELSE send_buffer' = <<From(message, n_bytes)>> \o send_buffer /\ want_write' = TRUE

KeepWhole(message, n_bytes) ==
    IF n_bytes = Len(message) THEN UNCHANGED <<send_buffer, want_write>>
    ELSE send_buffer' = Append(send_buffer, message) /\ want_write' = TRUE

KeepUnarmed(message, n_bytes) ==
    IF n_bytes = Len(message) THEN UNCHANGED <<send_buffer, want_write>>
    ELSE send_buffer' = Append(send_buffer, From(message, n_bytes)) /\ UNCHANGED want_write

(* What send() does with the bytes the kernel left.                        *)
KeepLeftover(message, n_bytes) ==
    IF n_bytes = Len(message) THEN UNCHANGED <<send_buffer, want_write>>
    ELSE send_buffer' = Append(send_buffer, From(message, n_bytes)) /\ want_write' = TRUE

(* connection_base::send of n bytes, of which the kernel takes n_bytes.    *)
(* The message goes to the kernel even when older bytes are waiting.       *)
Send(n, n_bytes) ==
    /\ Len(accepted) + n <= MaxBytes
    /\ accepted' = accepted \o Message(n)
    /\ wire' = wire \o SubSeq(Message(n), 1, n_bytes)
    /\ careful' = (careful /\ send_buffer = <<>>)
    /\ KeepLeftover(Message(n), n_bytes)

(* Mutations of PopFlushed: a message taken in part is dropped, POLLOUT is *)
(* left on.                                                                *)
PopAlways(n_bytes) == send_buffer' = Tail(send_buffer) /\ want_write' = FALSE

PopStaysArmed(n_bytes) ==
    /\ send_buffer' = IF n_bytes < Len(Head(send_buffer)) THEN send_buffer
                      ELSE Tail(send_buffer)
    /\ UNCHANGED want_write

(* What send_flush() does after the kernel took n_bytes of the oldest      *)
(* message.  The result of substr() is dropped: a message that was taken   *)
(* in part stays whole in the buffer.                                      *)
PopFlushed(n_bytes) ==
    IF n_bytes < Len(Head(send_buffer)) THEN UNCHANGED <<send_buffer, want_write>>
    ELSE send_buffer' = Tail(send_buffer) /\ want_write' = FALSE

(* connection_base::send_flush, the WRITEABLE callback.                    *)
SendFlush(n_bytes) ==
    /\ want_write /\ send_buffer # <<>>
    /\ Len(wire) < MaxWire
    /\ n_bytes \in 1 .. Len(Head(send_buffer))
    /\ wire' = wire \o SubSeq(Head(send_buffer), 1, n_bytes)
    /\ careful' = (careful /\ n_bytes = Len(Head(send_buffer)))
    /\ PopFlushed(n_bytes)
    /\ UNCHANGED accepted

SendStep == \E n \in 1 .. MaxMessage : \E n_bytes \in 1 .. n : Send(n, n_bytes)

FlushStep == \E n_bytes \in 1 .. MaxMessage : SendFlush(n_bytes)

ConnectionNext == SendStep \/ FlushStep

(* The socket becomes writeable again and the application keeps polling;   *)
(* it need not send again.                                                 *)
ConnectionSpec == ConnectionInit /\ [][ConnectionNext]_connectionVars /\ WF_connectionVars(FlushStep)

-----------------------------------------------------------------------------
ConnectionTypeOK ==
    /\ send_buffer \in Seq(Seq(Byte) \ {<<>>})
    /\ want_write \in BOOLEAN /\ careful \in BOOLEAN
    /\ accepted \in Seq(Byte) /\ wire \in Seq(Byte)

Buffered == UNION {ToSet(send_buffer[i]) : i \in DOMAIN send_buffer}

(* No byte is lost: what send() answered true for is on the wire or still  *)
(* waiting, whatever the kernel leaves.                                    *)
NothingLost == ToSet(accepted) \subseteq ToSet(wire) \cup Buffered

Increasing(message) ==
    \A i, j \in DOMAIN message : i < j => message[i] < message[j]

(* What waits in send_buffer waits in the order send() queued it, nothing  *)
(* twice.                                                                  *)
BufferInOrder ==
    /\ \A m \in DOMAIN send_buffer : Increasing(send_buffer[m])
    /\ \A m, k \in DOMAIN send_buffer : m < k =>
          \A b \in ToSet(send_buffer[m]), d \in ToSet(send_buffer[k]) : b < d

(* socket_want_write: POLLOUT is only asked for while something waits; a   *)
(* writeable socket with nothing to write would make every events::poll    *)
(* return at once.                                                         *)
NoIdleWakeups == want_write => send_buffer # <<>>

Oldest == IF send_buffer = <<>> THEN <<>> ELSE Head(send_buffer)

(* send() and send_flush() give an application that sends nothing while    *)
(* older bytes wait, on a kernel that takes a flush whole, the stream it   *)
(* expects: one message waits at most, and what is on the wire and then    *)
(* that message is what it sent.                                           *)
StreamWhenCareful == careful => Len(send_buffer) <= 1 /\ wire \o Oldest = accepted

(* And send_flush() empties the buffer of such an application.             *)
DrainsWhenCareful == send_buffer # <<>> /\ careful ~> send_buffer = <<>> \/ ~careful

(* "next poll, if socket is writeable, the send_buffer will be flushed by  *)
(* send_flush until it becames empty" (connection.hpp).                    *)
BufferDrains == send_buffer # <<>> ~> send_buffer = <<>>

(* "sends contents stored to the send buffer" (connection.hpp): the        *)
(* leftover is sent, not what went out before.  Not so after a partial     *)
(* flush, which sends the same bytes again.                                *)
SentOnce == \A i, j \in 1 .. Len(wire) : wire[i] = wire[j] => i = j

=============================================================================
