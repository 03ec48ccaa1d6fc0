--------------------------- MODULE ConnectionProofs ---------------------------
(***************************************************************************)
(* What send() and send_flush() promise whatever the messages and whatever *)
(* the kernel takes of them.  Bytes are numbered as they are sent, so that *)
(* the buffer is in order because what joins it is newer than all it holds *)
(* (Numbered, BufferedAccepted).                                           *)
(***************************************************************************)
EXTENDS Connection, SequenceTheorems, TLAPS

Numbered ==
    Len(accepted) <= MaxBytes /\ \A i \in 1 .. Len(accepted) : accepted[i] = i

BufferedAccepted == Buffered \subseteq 1 .. Len(accepted)

Inv ==
    /\ ConnectionTypeOK /\ Numbered /\ BufferedAccepted
    /\ NothingLost /\ BufferInOrder /\ NoIdleWakeups /\ StreamWhenCareful

-----------------------------------------------------------------------------
(* Sequences.                                                              *)

(* The elements of a concatenation.                                        *)
LEMMA ConcatElements ==
    ASSUME NEW S, NEW s \in Seq(S), NEW t \in Seq(S)
    PROVE  ToSet(s \o t) = ToSet(s) \cup ToSet(t)
<1>1. /\ s \o t \in Seq(S) /\ Len(s \o t) = Len(s) + Len(t)
      /\ Len(s) \in Nat /\ Len(t) \in Nat
      /\ DOMAIN s = 1 .. Len(s) /\ DOMAIN t = 1 .. Len(t)
      /\ DOMAIN (s \o t) = 1 .. Len(s) + Len(t)
  BY ConcatProperties, LenProperties
<1>2. \A i \in 1 .. Len(s) + Len(t) :
          (s \o t)[i] = IF i <= Len(s) THEN s[i] ELSE t[i - Len(s)]
  BY ConcatProperties
<1>3. ASSUME NEW x \in ToSet(s \o t) PROVE x \in ToSet(s) \cup ToSet(t)
  <2>1. PICK i \in 1 .. Len(s) + Len(t) : x = (s \o t)[i]
    BY <1>1 DEF ToSet
  <2>2. CASE i <= Len(s)
    BY <1>1, <1>2, <2>1, <2>2 DEF ToSet
  <2>3. CASE ~(i <= Len(s))
    <3>1. i - Len(s) \in DOMAIN t /\ x = t[i - Len(s)]
      BY <1>1, <1>2, <2>1, <2>3
    <3>. QED BY <3>1 DEF ToSet
  <2>. QED BY <2>2, <2>3
<1>4. ASSUME NEW x \in ToSet(s) PROVE x \in ToSet(s \o t)
  <2>1. PICK i \in DOMAIN s : x = s[i]
    BY DEF ToSet
  <2>2. i \in DOMAIN (s \o t) /\ (s \o t)[i] = x
    BY <1>1, <1>2, <2>1
  <2>. QED BY <2>2 DEF ToSet
<1>5. ASSUME NEW x \in ToSet(t) PROVE x \in ToSet(s \o t)
  <2>1. PICK i \in DOMAIN t : x = t[i]
    BY DEF ToSet
  <2>2. Len(s) + i \in DOMAIN (s \o t) /\ (s \o t)[Len(s) + i] = x
    BY <1>1, <1>2, <2>1
  <2>. QED BY <2>2 DEF ToSet
<1>. QED BY <1>3, <1>4, <1>5

(* What the kernel takes of a message and what it leaves, byte by byte.    *)
LEMMA SentAndLeft ==
    ASSUME NEW message \in Seq(Byte), NEW k \in 0 .. Len(message)
    PROVE  /\ SubSeq(message, 1, k) \in Seq(Byte) /\ From(message, k) \in Seq(Byte)
           /\ Len(SubSeq(message, 1, k)) = k /\ Len(From(message, k)) = Len(message) - k
           /\ \A i \in 1 .. Len(message) - k : From(message, k)[i] = message[k + i]
           /\ SubSeq(message, 1, k) \o From(message, k) = message
           /\ ToSet(message) = ToSet(SubSeq(message, 1, k)) \cup ToSet(From(message, k))
<1>1. Len(message) \in Nat /\ \A i \in 1 .. Len(message) : message[i] \in Byte
  BY LenProperties, ElementOfSeq
<1>2. /\ SubSeq(message, 1, k) \in Seq(Byte) /\ Len(SubSeq(message, 1, k)) = k
      /\ \A i \in 1 .. k : SubSeq(message, 1, k)[i] = message[i]
  <2>1. \A i \in 1 .. k : message[i] \in Byte
    BY <1>1
  <2>. QED BY <1>1, <2>1, SubSeqProperties
<1>3. /\ From(message, k) \in Seq(Byte) /\ Len(From(message, k)) = Len(message) - k
      /\ \A i \in 1 .. Len(message) - k : From(message, k)[i] = message[k + i]
  <2>1. \A i \in k + 1 .. Len(message) : message[i] \in Byte
    BY <1>1
  <2>. QED BY <1>1, <2>1, SubSeqProperties DEF From
<1>4. SubSeq(message, 1, k) \o From(message, k) = message
  <2>. DEFINE whole == SubSeq(message, 1, k) \o From(message, k)
  <2>1. /\ whole \in Seq(Byte) /\ Len(whole) = Len(message)
        /\ \A i \in 1 .. Len(message) :
              whole[i] = IF i <= k THEN SubSeq(message, 1, k)[i] ELSE From(message, k)[i - k]
    BY <1>1, <1>2, <1>3, ConcatProperties
  <2>2. ASSUME NEW i \in 1 .. Len(message) PROVE whole[i] = message[i]
    BY <1>1, <1>2, <1>3, <2>1
  <2>. QED BY <2>1, <2>2, SeqEqual
<1>5. ToSet(message) = ToSet(SubSeq(message, 1, k)) \cup ToSet(From(message, k))
  <2>. DEFINE first == SubSeq(message, 1, k)
              rest == From(message, k)
  <2>1. first \in Seq(Byte) /\ rest \in Seq(Byte) /\ first \o rest = message
    BY <1>2, <1>3, <1>4
  <2>. HIDE DEF first, rest
  <2>2. ToSet(first \o rest) = ToSet(first) \cup ToSet(rest)
    BY <2>1, ConcatElements
  <2>. QED BY <2>1, <2>2 DEF first, rest
<1>. QED BY <1>2, <1>3, <1>4, <1>5

-----------------------------------------------------------------------------
(* send()                                                                  *)

(* Nothing is sent yet.                                                    *)
LEMMA InitInv == ConnectionInit => Inv
<1>. SUFFICES ASSUME ConnectionInit PROVE Inv
  OBVIOUS
<1>1. <<>> \in Seq(Byte) /\ <<>> \in Seq(Seq(Byte) \ {<<>>}) /\ ToSet(<<>>) = {}
      /\ DOMAIN <<>> = {} /\ Len(<<>>) = 0 /\ <<>> \o <<>> = <<>>
  BY EmptySeq, ConcatEmptySeq DEF ToSet
<1>2. ConnectionTypeOK /\ NoIdleWakeups
  BY <1>1 DEF ConnectionInit, ConnectionTypeOK, NoIdleWakeups
<1>3. Numbered
  BY <1>1, ConnectionAssumption DEF ConnectionInit, Numbered
<1>4. BufferedAccepted /\ NothingLost
  BY <1>1 DEF ConnectionInit, BufferedAccepted, Buffered, NothingLost
<1>5. BufferInOrder /\ StreamWhenCareful
  BY <1>1 DEF ConnectionInit, BufferInOrder, StreamWhenCareful, Oldest
<1>. QED BY <1>2, <1>3, <1>4, <1>5 DEF Inv

(* The next message is made of the bytes after those that were accepted.   *)
LEMMA NextMessage ==
    ASSUME ConnectionTypeOK, Numbered, NEW n \in Nat \ {0}, Len(accepted) + n <= MaxBytes
    PROVE  /\ Message(n) \in Seq(Byte) /\ Len(Message(n)) = n
           /\ \A i \in 1 .. n : Message(n)[i] = Len(accepted) + i
           /\ accepted \o Message(n) \in Seq(Byte)
           /\ Len(accepted \o Message(n)) = Len(accepted) + n
           /\ \A i \in 1 .. Len(accepted) + n : (accepted \o Message(n))[i] = i
<1>1. accepted \in Seq(Byte) /\ Len(accepted) \in Nat
  BY LenProperties DEF ConnectionTypeOK
<1>2. /\ Message(n) \in Seq(Byte) /\ Len(Message(n)) = n
      /\ \A i \in 1 .. n : Message(n)[i] = Len(accepted) + i
  <2>1. \A i \in 1 .. n : Len(accepted) + i \in Byte
    BY <1>1, ConnectionAssumption DEF Byte
  <2>2. Message(n) \in [1 .. n -> Byte]
    BY <2>1 DEF Message
  <2>. QED BY <1>1, <2>2, SeqDef DEF Message
<1>3. /\ accepted \o Message(n) \in Seq(Byte)
      /\ Len(accepted \o Message(n)) = Len(accepted) + n
      /\ \A i \in 1 .. Len(accepted) + n : (accepted \o Message(n))[i] =
              IF i <= Len(accepted) THEN accepted[i] ELSE Message(n)[i - Len(accepted)]
  <2>. DEFINE next == Message(n)
  <2>1. next \in Seq(Byte) /\ Len(next) = n
    BY <1>2
  <2>. HIDE DEF next
  <2>2. /\ accepted \o next \in Seq(Byte)
        /\ Len(accepted \o next) = Len(accepted) + Len(next)
        /\ \A i \in 1 .. Len(accepted) + Len(next) : (accepted \o next)[i] =
              IF i <= Len(accepted) THEN accepted[i] ELSE next[i - Len(accepted)]
    BY <1>1, <2>1, ConcatProperties
  <2>. QED BY <2>1, <2>2 DEF next
<1>4. ASSUME NEW i \in 1 .. Len(accepted) + n PROVE (accepted \o Message(n))[i] = i
  BY <1>1, <1>2, <1>3 DEF Numbered
<1>. QED BY <1>2, <1>3, <1>4

(* A leftover that joins the buffer is newer than all that waits there.    *)
LEMMA KeepInOrder ==
    ASSUME ConnectionTypeOK, BufferInOrder, BufferedAccepted,
           NEW left \in Seq(Byte) \ {<<>>}, Increasing(left),
           \A b \in ToSet(left) : b > Len(accepted),
           send_buffer' = Append(send_buffer, left)
    PROVE  /\ send_buffer' \in Seq(Seq(Byte) \ {<<>>}) /\ send_buffer' # <<>>
           /\ Len(send_buffer') = Len(send_buffer) + 1
           /\ send_buffer'[Len(send_buffer) + 1] = left
           /\ BufferInOrder'
           /\ Buffered' = Buffered \cup ToSet(left)
<1>. DEFINE T == Seq(Byte) \ {<<>>}
            last == Len(send_buffer) + 1
<1>1. /\ send_buffer \in Seq(T) /\ Len(send_buffer) \in Nat
      /\ DOMAIN send_buffer = 1 .. Len(send_buffer)
  BY LenProperties DEF ConnectionTypeOK
<1>2. /\ send_buffer' \in Seq(T) /\ send_buffer' # <<>> /\ Len(send_buffer') = last
      /\ DOMAIN send_buffer' = 1 .. last
      /\ \A i \in 1 .. Len(send_buffer) : send_buffer'[i] = send_buffer[i]
      /\ send_buffer'[last] = left
  <2>1. /\ Append(send_buffer, left) \in Seq(T) /\ Append(send_buffer, left) # <<>>
        /\ Len(Append(send_buffer, left)) = last
        /\ \A i \in 1 .. Len(send_buffer) : Append(send_buffer, left)[i] = send_buffer[i]
        /\ Append(send_buffer, left)[last] = left
    BY <1>1, AppendProperties
  <2>. QED BY <2>1, LenProperties
<1>3. \A m \in DOMAIN send_buffer' : Increasing(send_buffer'[m])
  BY <1>1, <1>2 DEF BufferInOrder
<1>4. ASSUME NEW m \in DOMAIN send_buffer', NEW k \in DOMAIN send_buffer', m < k,
             NEW b \in ToSet(send_buffer'[m]), NEW d \in ToSet(send_buffer'[k])
      PROVE  b < d
  <2>1. m \in DOMAIN send_buffer /\ b \in ToSet(send_buffer[m])
    BY <1>1, <1>2, <1>4
  <2>2. CASE k = last
    <3>1. b \in 1 .. Len(accepted)
      BY <2>1 DEF BufferedAccepted, Buffered
    <3>2. d \in ToSet(left) /\ d > Len(accepted) /\ d \in Nat /\ Len(accepted) \in Nat
      <4>1. d \in ToSet(left) /\ d > Len(accepted)
        BY <1>2, <2>2
      <4>2. left \in Seq(Byte) /\ accepted \in Seq(Byte)
        BY DEF ConnectionTypeOK
      <4>3. ToSet(left) \subseteq Byte
        BY <4>2, LenProperties, ElementOfSeq DEF ToSet
      <4>. QED BY <4>1, <4>2, <4>3, LenProperties DEF Byte
    <3>. QED BY <3>1, <3>2
  <2>3. CASE k # last
    BY <1>1, <1>2, <1>4, <2>1, <2>3 DEF BufferInOrder
  <2>. QED BY <2>2, <2>3
<1>5. BufferInOrder'
  BY <1>3, <1>4 DEF BufferInOrder
<1>6. Buffered' = Buffered \cup ToSet(left)
  <2>1. ASSUME NEW x \in Buffered' PROVE x \in Buffered \cup ToSet(left)
    <3>1. PICK i \in DOMAIN send_buffer' : x \in ToSet(send_buffer'[i])
      BY DEF Buffered
    <3>2. i = last \/ i \in DOMAIN send_buffer
      BY <1>1, <1>2
    <3>. QED BY <1>1, <1>2, <3>1, <3>2 DEF Buffered
  <2>2. ASSUME NEW x \in Buffered \cup ToSet(left) PROVE x \in Buffered'
    <3>1. CASE x \in Buffered
      <4>1. PICK i \in DOMAIN send_buffer : x \in ToSet(send_buffer[i])
        BY <3>1 DEF Buffered
      <4>2. i \in DOMAIN send_buffer' /\ x \in ToSet(send_buffer'[i])
        BY <1>1, <1>2, <4>1
      <4>. QED BY <4>2 DEF Buffered
    <3>2. CASE x \in ToSet(left)
      <4>1. last \in DOMAIN send_buffer' /\ x \in ToSet(send_buffer'[last])
        BY <1>1, <1>2, <3>2
      <4>. QED BY <4>1 DEF Buffered
    <3>. QED BY <2>2, <3>1, <3>2
  <2>. QED BY <2>1, <2>2
<1>. QED BY <1>2, <1>5, <1>6

(* What is on the wire grows by what the kernel takes.                     *)
LEMMA WireGrows ==
    ASSUME ConnectionTypeOK, NEW sent \in Seq(Byte), wire' = wire \o sent
    PROVE  wire' \in Seq(Byte) /\ ToSet(wire') = ToSet(wire) \cup ToSet(sent)
  BY ConcatProperties, ConcatElements DEF ConnectionTypeOK

(* send(), whatever the kernel takes.                                      *)
LEMMA SendInv ==
    ASSUME Inv, NEW n \in 1 .. MaxMessage, NEW n_bytes \in 1 .. n, Send(n, n_bytes)
    PROVE  Inv'
<1>. DEFINE L == Len(accepted)
            message == Message(n)
            sent == SubSeq(message, 1, n_bytes)
            left == From(message, n_bytes)
<1>1. /\ ConnectionTypeOK /\ L \in Nat /\ n \in Nat \ {0} /\ n_bytes \in Nat \ {0} /\ n_bytes <= n
      /\ L + n <= MaxBytes /\ accepted' = accepted \o message /\ wire' = wire \o sent
      /\ accepted \in Seq(Byte) /\ wire \in Seq(Byte)
  BY ConnectionAssumption, LenProperties DEF Inv, ConnectionTypeOK, Send
<1>2. /\ message \in Seq(Byte) /\ Len(message) = n
      /\ \A i \in 1 .. n : message[i] = L + i
      /\ accepted' \in Seq(Byte) /\ Len(accepted') = L + n
      /\ \A i \in 1 .. L + n : accepted'[i] = i
  BY <1>1, NextMessage DEF Inv
<1>3. /\ sent \in Seq(Byte) /\ left \in Seq(Byte) /\ Len(left) = n - n_bytes
      /\ \A i \in 1 .. n - n_bytes : left[i] = L + n_bytes + i
      /\ sent \o left = message
      /\ ToSet(message) = ToSet(sent) \cup ToSet(left)
  <2>. HIDE DEF message
  <2>1. n_bytes \in 0 .. Len(message)
    BY <1>1, <1>2
  <2>2. /\ sent \in Seq(Byte) /\ left \in Seq(Byte) /\ Len(left) = n - n_bytes
        /\ \A i \in 1 .. n - n_bytes : left[i] = message[n_bytes + i]
        /\ sent \o left = message
        /\ ToSet(message) = ToSet(sent) \cup ToSet(left)
    BY <1>2, <2>1, SentAndLeft
  <2>3. ASSUME NEW i \in 1 .. n - n_bytes PROVE left[i] = L + n_bytes + i
    BY <1>1, <1>2, <2>2
  <2>. QED BY <2>2, <2>3
<1>. HIDE DEF message, sent, left
<1>4. Numbered' /\ wire' \in Seq(Byte) /\ ToSet(wire') = ToSet(wire) \cup ToSet(sent)
  BY <1>1, <1>2, <1>3, WireGrows DEF Numbered
<1>5. ToSet(accepted') = ToSet(accepted) \cup ToSet(message)
  BY <1>1, <1>2, ConcatElements
<1>6. /\ \A b \in ToSet(left) : b > L /\ b \in 1 .. L + n
      /\ Increasing(left)
  <2>1. DOMAIN left = 1 .. n - n_bytes
    BY <1>3, LenProperties
  <2>2. \A i \in 1 .. n - n_bytes : left[i] > L /\ left[i] \in 1 .. L + n
    BY <1>1, <1>3
  <2>3. \A b \in ToSet(left) : b > L /\ b \in 1 .. L + n
    BY <2>1, <2>2 DEF ToSet
  <2>4. Increasing(left)
    BY <1>1, <1>3, <2>1 DEF Increasing
  <2>. QED BY <2>3, <2>4
<1>7. ConnectionTypeOK' /\ BufferInOrder' /\ NoIdleWakeups' /\ Buffered' = Buffered \cup ToSet(left)
  <2>1. careful' \in BOOLEAN /\ KeepLeftover(message, n_bytes)
    BY DEF Send, Inv, ConnectionTypeOK, message
  <2>2. CASE n_bytes = n
    <3>1. left = <<>> /\ UNCHANGED <<send_buffer, want_write>>
      BY <1>1, <1>2, <1>3, <2>1, <2>2, EmptySeq DEF KeepLeftover
    <3>2. ToSet(left) = {}
      BY <3>1 DEF ToSet
    <3>. QED
      BY <1>2, <1>4, <2>1, <3>1, <3>2
         DEF Inv, ConnectionTypeOK, BufferInOrder, NoIdleWakeups, Buffered
  <2>3. CASE n_bytes # n
    <3>1. send_buffer' = Append(send_buffer, left) /\ want_write' = TRUE /\ left # <<>>
      BY <1>1, <1>2, <1>3, <2>1, <2>3, EmptySeq DEF KeepLeftover, left
    <3>2. /\ send_buffer' \in Seq(Seq(Byte) \ {<<>>}) /\ send_buffer' # <<>>
          /\ BufferInOrder' /\ Buffered' = Buffered \cup ToSet(left)
      BY <1>3, <1>6, <3>1, KeepInOrder DEF Inv
    <3>. QED BY <1>2, <1>4, <2>1, <3>1, <3>2 DEF ConnectionTypeOK, NoIdleWakeups
  <2>. QED BY <2>2, <2>3
<1>8. BufferedAccepted' /\ NothingLost'
  <2>1. Buffered \subseteq 1 .. L + n
    BY <1>1 DEF Inv, BufferedAccepted
  <2>2. BufferedAccepted'
    BY <1>2, <1>6, <1>7, <2>1 DEF BufferedAccepted
  <2>3. NothingLost'
    BY <1>3, <1>4, <1>5, <1>7 DEF Inv, NothingLost
  <2>. QED BY <2>2, <2>3
<1>9. StreamWhenCareful'
  <2>. SUFFICES ASSUME careful' PROVE Len(send_buffer') <= 1 /\ wire' \o Oldest' = accepted'
    BY DEF StreamWhenCareful
  <2>1. /\ careful /\ send_buffer = <<>> /\ Len(send_buffer) = 0
        /\ KeepLeftover(message, n_bytes)
    BY DEF Send, message
  <2>2. wire = accepted
    BY <1>1, <2>1, ConcatEmptySeq DEF Inv, StreamWhenCareful, Oldest
  <2>3. wire' \o left = accepted'
    <3>1. (wire \o sent) \o left = wire \o (sent \o left)
      <4>1. wire \in Seq(Byte) /\ sent \in Seq(Byte) /\ left \in Seq(Byte)
        BY <1>1, <1>3
      <4>. QED BY <4>1, ConcatAssociative
    <3>. QED BY <1>1, <1>3, <2>2, <3>1
  <2>4. Len(send_buffer') <= 1 /\ Oldest' = left
    <3>1. CASE n_bytes = n
      <4>1. left = <<>> /\ send_buffer' = <<>>
        BY <1>1, <1>2, <1>3, <2>1, <3>1, EmptySeq DEF KeepLeftover
      <4>. QED BY <2>1, <4>1 DEF Oldest
    <3>2. CASE n_bytes # n
      <4>1. send_buffer' = Append(send_buffer, left) /\ left # <<>>
        BY <1>1, <1>2, <1>3, <2>1, <3>2, EmptySeq DEF KeepLeftover, left
      <4>2. /\ send_buffer' \in Seq(Seq(Byte) \ {<<>>}) /\ send_buffer' # <<>>
            /\ Len(send_buffer') = 1 /\ send_buffer'[1] = left
        BY <1>3, <1>6, <2>1, <4>1, KeepInOrder DEF Inv
      <4>3. Head(send_buffer') = left
        BY <4>2
      <4>. QED BY <4>2, <4>3 DEF Oldest
    <3>. QED BY <3>1, <3>2
  <2>. QED BY <2>3, <2>4
<1>. QED BY <1>4, <1>7, <1>8, <1>9 DEF Inv

-----------------------------------------------------------------------------
(* send_flush()                                                            *)

(* The buffer without its oldest message.                                  *)
LEMMA PopInOrder ==
    ASSUME ConnectionTypeOK, BufferInOrder, send_buffer # <<>>, send_buffer' = Tail(send_buffer)
    PROVE  /\ send_buffer' \in Seq(Seq(Byte) \ {<<>>})
           /\ Len(send_buffer') = Len(send_buffer) - 1
           /\ BufferInOrder'
           /\ Buffered' \subseteq Buffered
           /\ Buffered \subseteq Buffered' \cup ToSet(Head(send_buffer))
<1>. DEFINE T == Seq(Byte) \ {<<>>}
<1>1. /\ send_buffer \in Seq(T) /\ Len(send_buffer) \in Nat
      /\ DOMAIN send_buffer = 1 .. Len(send_buffer)
  BY LenProperties DEF ConnectionTypeOK
<1>2. /\ send_buffer' \in Seq(T) /\ Len(send_buffer') = Len(send_buffer) - 1
      /\ DOMAIN send_buffer' = 1 .. Len(send_buffer) - 1
      /\ \A i \in 1 .. Len(send_buffer) - 1 : send_buffer'[i] = send_buffer[i + 1]
      /\ Head(send_buffer) = send_buffer[1]
  <2>1. /\ Tail(send_buffer) \in Seq(T) /\ Len(Tail(send_buffer)) = Len(send_buffer) - 1
        /\ \A i \in 1 .. Len(Tail(send_buffer)) : Tail(send_buffer)[i] = send_buffer[i + 1]
    BY <1>1, HeadTailProperties
  <2>2. Head(send_buffer) = send_buffer[1]
    BY <1>1
  <2>. QED BY <1>1, <2>1, <2>2, LenProperties
<1>3. \A i \in DOMAIN send_buffer' :
          i + 1 \in DOMAIN send_buffer /\ send_buffer'[i] = send_buffer[i + 1]
  BY <1>1, <1>2
<1>4. BufferInOrder'
  <2>1. \A m \in DOMAIN send_buffer' : Increasing(send_buffer'[m])
    BY <1>3 DEF BufferInOrder
  <2>2. ASSUME NEW m \in DOMAIN send_buffer', NEW k \in DOMAIN send_buffer', m < k,
               NEW b \in ToSet(send_buffer'[m]), NEW d \in ToSet(send_buffer'[k])
        PROVE  b < d
    <3>1. m + 1 < k + 1
      BY <1>1, <1>2, <2>2
    <3>. QED BY <1>3, <3>1 DEF BufferInOrder
  <2>. QED BY <2>1, <2>2 DEF BufferInOrder
<1>5. Buffered' \subseteq Buffered
  BY <1>3 DEF Buffered
<1>6. ASSUME NEW x \in Buffered PROVE x \in Buffered' \cup ToSet(Head(send_buffer))
  <2>1. PICK i \in DOMAIN send_buffer : x \in ToSet(send_buffer[i])
    BY DEF Buffered
  <2>2. CASE i = 1
    BY <1>2, <2>1, <2>2
  <2>3. CASE i # 1
    <3>1. i - 1 \in DOMAIN send_buffer' /\ x \in ToSet(send_buffer'[i - 1])
      BY <1>1, <1>2, <2>1, <2>3
    <3>. QED BY <3>1 DEF Buffered
  <2>. QED BY <2>2, <2>3
<1>. QED BY <1>2, <1>4, <1>5, <1>6

(* send_flush(), whatever the kernel takes.                                *)
LEMMA FlushInv == ASSUME Inv, NEW n_bytes \in Nat, SendFlush(n_bytes) PROVE Inv'
<1>. DEFINE message == Head(send_buffer)
            sent == SubSeq(message, 1, n_bytes)
<1>1. /\ ConnectionTypeOK /\ send_buffer # <<>> /\ want_write /\ PopFlushed(n_bytes)
      /\ wire' = wire \o sent /\ accepted' = accepted
      /\ careful' = (careful /\ n_bytes = Len(message)) /\ n_bytes \in 1 .. Len(message)
      /\ accepted \in Seq(Byte) /\ wire \in Seq(Byte)
  BY DEF Inv, ConnectionTypeOK, SendFlush
<1>2. message \in Seq(Byte) /\ Len(message) \in Nat
  <2>1. message \in Seq(Byte) \ {<<>>}
    BY <1>1, HeadTailProperties DEF ConnectionTypeOK
  <2>. QED BY <2>1, LenProperties
<1>3. sent \in Seq(Byte) /\ (n_bytes = Len(message) => sent = message)
  <2>. HIDE DEF message
  <2>1. sent \in Seq(Byte)
    BY <1>1, <1>2, SentAndLeft
  <2>2. SubSeq(message, 1, Len(message)) = message
    BY <1>2, SubSeqFull
  <2>. QED BY <2>1, <2>2
<1>. HIDE DEF message, sent
<1>4. wire' \in Seq(Byte) /\ ToSet(wire') = ToSet(wire) \cup ToSet(sent)
  BY <1>1, <1>3, WireGrows
<1>5. careful' \in BOOLEAN /\ Numbered'
  BY <1>1 DEF Inv, ConnectionTypeOK, Numbered
<1>6. CASE n_bytes < Len(message)
  <2>1. UNCHANGED <<send_buffer, want_write>> /\ ~careful'
    <3>1. n_bytes # Len(message)
      BY <1>1, <1>2, <1>6
    <3>2. UNCHANGED <<send_buffer, want_write>>
      BY <1>1, <1>6 DEF PopFlushed, message
    <3>. QED BY <1>1, <3>1, <3>2
  <2>2. ConnectionTypeOK' /\ BufferInOrder' /\ NoIdleWakeups' /\ Buffered' = Buffered
    BY <1>1, <1>4, <1>5, <2>1 DEF Inv, ConnectionTypeOK, BufferInOrder, NoIdleWakeups, Buffered
  <2>3. BufferedAccepted' /\ NothingLost' /\ StreamWhenCareful'
    BY <1>1, <1>4, <2>1, <2>2 DEF Inv, BufferedAccepted, NothingLost, StreamWhenCareful
  <2>. QED BY <1>5, <2>2, <2>3 DEF Inv
<1>7. CASE ~(n_bytes < Len(message))
  <2>1. /\ n_bytes = Len(message) /\ sent = message
        /\ send_buffer' = Tail(send_buffer) /\ want_write' = FALSE
    BY <1>1, <1>2, <1>3, <1>7 DEF PopFlushed, message
  <2>2. /\ send_buffer' \in Seq(Seq(Byte) \ {<<>>})
        /\ Len(send_buffer') = Len(send_buffer) - 1
        /\ BufferInOrder'
        /\ Buffered' \subseteq Buffered
        /\ Buffered \subseteq Buffered' \cup ToSet(message)
    BY <1>1, <2>1, PopInOrder DEF Inv, message
  <2>3. ConnectionTypeOK' /\ NoIdleWakeups'
    BY <1>1, <1>4, <1>5, <2>1, <2>2 DEF ConnectionTypeOK, NoIdleWakeups
  <2>4. BufferedAccepted' /\ NothingLost'
    BY <1>1, <1>4, <2>1, <2>2 DEF Inv, BufferedAccepted, NothingLost
  <2>5. StreamWhenCareful'
    <3>. SUFFICES ASSUME careful' PROVE Len(send_buffer') <= 1 /\ wire' \o Oldest' = accepted'
      BY DEF StreamWhenCareful
    <3>1. careful /\ Len(send_buffer) <= 1 /\ wire \o message = accepted
      BY <1>1 DEF Inv, StreamWhenCareful, Oldest, message
    <3>2. send_buffer' = <<>>
      <4>1. Len(send_buffer) \in Nat /\ Len(send_buffer') \in Nat
        BY <1>1, <2>2, LenProperties DEF ConnectionTypeOK
      <4>2. Len(send_buffer') = 0
        BY <2>2, <3>1, <4>1
      <4>. QED BY <2>2, <4>2, EmptySeq
    <3>3. wire' = accepted'
      BY <1>1, <2>1, <3>1
    <3>4. accepted' \o <<>> = accepted'
      BY <1>1, ConcatEmptySeq
    <3>. QED BY <3>2, <3>3, <3>4, EmptySeq DEF Oldest
  <2>. QED BY <1>5, <2>2, <2>3, <2>4, <2>5 DEF Inv
<1>. QED BY <1>6, <1>7

-----------------------------------------------------------------------------
(* Every step preserves the invariant.                                     *)
LEMMA NextInv == ASSUME Inv, [ConnectionNext]_connectionVars PROVE Inv'
<1>1. CASE SendStep
  BY <1>1, SendInv DEF SendStep
<1>2. CASE FlushStep
  BY <1>2, FlushInv, ConnectionAssumption DEF FlushStep
<1>3. CASE UNCHANGED connectionVars
  BY <1>3
     DEF connectionVars, Inv, ConnectionTypeOK, Numbered, BufferedAccepted, Buffered, NothingLost,
         BufferInOrder, NoIdleWakeups, StreamWhenCareful, Oldest
<1>. QED BY <1>1, <1>2, <1>3 DEF ConnectionNext

(* The invariant holds in every reachable state.                           *)
THEOREM InvInvariant == ConnectionSpec => []Inv
<1>. QED BY InitInv, NextInv, PTL DEF ConnectionSpec

(* A connection has its types.                                             *)
THEOREM ConnectionTypeCorrect == ConnectionSpec => []ConnectionTypeOK
<1>1. Inv => ConnectionTypeOK
  BY DEF Inv
<1>. QED BY InvInvariant, <1>1, PTL

(* send() and send_flush() lose no byte, whatever the kernel takes.        *)
THEOREM NoByteLost == ConnectionSpec => []NothingLost
<1>1. Inv => NothingLost
  BY DEF Inv
<1>. QED BY InvInvariant, <1>1, PTL

(* What waits is in the order of the calls of send().                      *)
THEOREM BufferStaysInOrder == ConnectionSpec => []BufferInOrder
<1>1. Inv => BufferInOrder
  BY DEF Inv
<1>. QED BY InvInvariant, <1>1, PTL

(* POLLOUT is never asked for without something to write.                  *)
THEOREM NeverIdleWakeups == ConnectionSpec => []NoIdleWakeups
<1>1. Inv => NoIdleWakeups
  BY DEF Inv
<1>. QED BY InvInvariant, <1>1, PTL

(* Careful use carries a byte stream.                                      *)
THEOREM CarefulUseStreams == ConnectionSpec => []StreamWhenCareful
<1>1. Inv => StreamWhenCareful
  BY DEF Inv
<1>. QED BY InvInvariant, <1>1, PTL

=============================================================================
