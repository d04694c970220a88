------------------------------- MODULE Protocol -------------------------------
(***************************************************************************)
(* src/src/common/protocol.c: messages on a TCP connection, one direction  *)
(* of it.  The stream has no messages, only bytes; send and recv move as   *)
(* many as the kernel likes.  A message is a header, which gives the type  *)
(* and the length of the payload, and the payload.                         *)
(*                                                                         *)
(* A byte is <<m, i>>, the i-th of message m: enough to see whether the    *)
(* receiver puts the bytes together as the sender took them apart.  An     *)
(* interrupted call (EINTR) moves no byte and is a stuttering step.        *)
(***************************************************************************)
EXTENDS Integers, Sequences

CONSTANTS HEADER,            \* bytes of a header (8 in the code)
          Lengths,           \* bound: the lengths of the payloads
          MAX_PAYLOAD_SIZE,  \* the receiver's buffer
          BUFFER,            \* bound: bytes the kernel holds
          SENT,              \* bound: the messages sent on the connection
          Foreign            \* the sender is not one of these programs

ASSUME ProtocolAssumption == /\ HEADER \in Nat \ {0}
                             /\ Lengths \subseteq Nat
                             /\ MAX_PAYLOAD_SIZE \in Nat
                             /\ BUFFER \in Nat \ {0}
                             /\ SENT \in Nat
                             /\ Foreign \in BOOLEAN

VARIABLES sent,      \* the messages send_message was called for
          written,   \* bytes of the last one that send_all has sent
          stream,    \* the bytes on their way
          ended,     \* the sender has closed or died
          buffer,    \* the bytes recv_all has put together
          received,  \* what receive_message has returned
          closed     \* the receiver has closed

sender == <<sent, written, ended>>
receiver == <<buffer, received, closed>>
vars == <<sender, stream, receiver>>

Messages == [number : 1 .. SENT, type : {"OK", "ERR"}, length : Lengths]

Total(m) == HEADER + m.length

Bytes(m) == [i \in 1 .. Total(m) |-> <<m, i>>]

\* What the receiver takes for a message that is not one.
Torn == [number |-> 0, type |-> "TORN", length |-> 0]

\* The fields keep their ranges.
TypeOK == /\ sent \in Seq(Messages)
          /\ written \in Nat
          /\ \A s \in {stream, buffer} : \A k \in DOMAIN s : s[k] \in Messages \X (Nat \ {0})
          /\ Len(stream) <= BUFFER
          /\ received \in Seq(Messages)
          /\ ended \in BOOLEAN /\ closed \in BOOLEAN

-----------------------------------------------------------------------------
(* send_message.                                                           *)

Current == sent[Len(sent)]

Sending == sent # <<>> /\ written < Total(Current)

\* A message of no type is not sent; there is one sender, one message at a time.
SendMessage(m) == /\ ~ended
                  /\ ~Sending
                  /\ m.number = Len(sent) + 1
                  /\ m.type # "ERR" \/ Foreign
                  /\ sent' = Append(sent, m)
                  /\ written' = 0
                  /\ UNCHANGED <<ended, stream, receiver>>

\* send_all completes the header first, then the payload.
Block(done, m) == IF done < HEADER THEN HEADER ELSE Total(m)

SendFromStart ==  \* variant: the cursor does not follow what is sent
  /\ ~ended /\ ~closed /\ Sending
  /\ \E k \in 1 .. Block(written, Current) - written :
       /\ Len(stream) + k <= BUFFER
       /\ stream' = stream \o SubSeq(Bytes(Current), 1, k)
       /\ written' = written + k
  /\ UNCHANGED <<sent, ended, receiver>>

\* One call of send.
Send == /\ ~ended /\ ~closed /\ Sending
        /\ \E k \in 1 .. Block(written, Current) - written :
             /\ Len(stream) + k <= BUFFER
             /\ stream' = stream \o SubSeq(Bytes(Current), written + 1, written + k)
             /\ written' = written + k
        /\ UNCHANGED <<sent, ended, receiver>>

\* The sender closes, dies, or gives up because send fails; what it had begun to
\* send goes no further.
Leave == /\ ~ended
         /\ ended' = TRUE
         /\ sent' = IF Sending THEN SubSeq(sent, 1, Len(sent) - 1) ELSE sent
         /\ UNCHANGED <<written, stream, receiver>>

-----------------------------------------------------------------------------
(* receive_message.                                                        *)

InHeader(bytes) == Len(bytes) < HEADER

\* What a complete header says, a complete block is.
Header(bytes) == bytes[1][1]

IsWhole(bytes) == \A i \in DOMAIN bytes : bytes[i] = <<Header(bytes), i>>

\* The type is known, and the payload fits in the buffer.
IsAccepted(m) == m.type # "ERR" /\ m.length <= MAX_PAYLOAD_SIZE

WantedHeader == HEADER  \* variant: only headers are received

Wanted == IF InHeader(buffer) THEN HEADER ELSE Total(Header(buffer))

\* recv_all and the checks, once the buffer holds "bytes".
Take(bytes) ==
  \/ /\ Len(bytes) < HEADER
     /\ buffer' = bytes
     /\ UNCHANGED <<received, closed>>
  \/ /\ Len(bytes) >= HEADER
     /\ ~IsAccepted(Header(bytes))
     /\ closed' = TRUE
     /\ buffer' = <<>>
     /\ UNCHANGED received
  \/ /\ Len(bytes) \in HEADER .. Total(Header(bytes)) - 1
     /\ IsAccepted(Header(bytes))
     /\ buffer' = bytes
     /\ UNCHANGED <<received, closed>>
  \/ /\ Len(bytes) = Total(Header(bytes))
     /\ IsAccepted(Header(bytes))
     /\ received' = Append(received, IF IsWhole(bytes) THEN Header(bytes) ELSE Torn)
     /\ buffer' = <<>>
     /\ UNCHANGED closed

ReceiveOnce ==  \* variant: recv is taken to fill the whole block
  /\ ~closed /\ stream # <<>>
  /\ \E k \in 1 .. Wanted - Len(buffer) :
       /\ k <= Len(stream)
       /\ LET bytes == buffer \o SubSeq(stream, 1, k)
          IN  Take(bytes \o [i \in 1 .. Wanted - Len(bytes) |-> stream[1]])
       /\ stream' = SubSeq(stream, k + 1, Len(stream))
  /\ UNCHANGED sender

\* One call of recv.
Receive == /\ ~closed /\ stream # <<>>
           /\ \E k \in 1 .. Wanted - Len(buffer) :
                /\ k <= Len(stream)
                /\ Take(buffer \o SubSeq(stream, 1, k))
                /\ stream' = SubSeq(stream, k + 1, Len(stream))
           /\ UNCHANGED sender

ReceiveEndOnly ==  \* variant: at the end of the stream in a message, recv is called again
  /\ ~closed /\ stream = <<>> /\ ended /\ buffer = <<>>
  /\ closed' = TRUE
  /\ UNCHANGED <<buffer, sender, stream, received>>

\* recv finds the end of the stream, between two messages or inside one.
ReceiveEnd == /\ ~closed /\ stream = <<>> /\ ended
              /\ closed' = TRUE
              /\ buffer' = <<>>
              /\ UNCHANGED <<sender, stream, received>>

-----------------------------------------------------------------------------
Init == /\ sent = <<>> /\ written = 0 /\ ended = FALSE
        /\ stream = <<>>
        /\ buffer = <<>> /\ received = <<>> /\ closed = FALSE

Next == (\E m \in Messages : SendMessage(m)) \/ Send \/ Leave \/ Receive \/ ReceiveEnd

Spec == Init /\ [][Next]_vars

\* A sender that has begun a message goes on or leaves, and a receiver that has
\* something to read reads it: select reports it again and again.
FairSpec == Spec /\ WF_vars(Send \/ (Leave /\ Sending)) /\ WF_vars(Receive \/ ReceiveEnd)

-----------------------------------------------------------------------------
(* Properties.                                                             *)

Connection == INSTANCE Channel WITH
                Accepted <- {m \in Messages : IsAccepted(m)},
                queue <- SubSeq(sent, Len(received) + 1, Len(sent)),
                taken <- received

\* However the kernel cuts the stream, and wherever the sender dies, the receiver
\* gets whole messages, each once and in order (doc.md:9).
IsChannel == Connection!Spec

\* Whatever is sent is received, unless the sender dies first or the receiver
\* refuses what comes before it (doc.md:5).
Delivered == \A n \in 1 .. SENT : Len(sent) >= n ~> (Len(received) >= n \/ Len(sent) < n \/ closed)

\* receive_message, which blocks the only thread of the board, returns, if the
\* sender goes on with what it has begun (protocol.c:65).
ReceiveReturns == (buffer # <<>>) ~> (buffer = <<>>)
=============================================================================
