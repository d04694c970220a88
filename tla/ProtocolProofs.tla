---------------------------- MODULE ProtocolProofs ----------------------------
(***************************************************************************)
(* The messages: module Protocol implements module Channel, for every size *)
(* of header, payload and buffer and however the kernel cuts the stream.   *)
(*                                                                         *)
(* The invariant gives every byte on its way a place: start[j] is where    *)
(* message j begins, counted from the first byte of the message the        *)
(* receiver is at, and the byte at start[j] + i is the i-th of message j.  *)
(* There may be one message more than "sent" holds: one a sender that left *)
(* had begun.                                                              *)
(***************************************************************************)
EXTENDS Protocol, SequenceTheorems, TLAPS

-----------------------------------------------------------------------------
(* The invariant.                                                          *)

InTransit == Len(buffer) + Len(stream)

\* The bytes the receiver has put together, then those still on their way.
Byte(k) == IF k <= Len(buffer) THEN buffer[k] ELSE stream[k - Len(buffer)]

Starts(begun) == [1 .. Len(begun) + 1 -> Int]

Placed(begun, start) ==
  /\ start[Len(received) + 1] = 0
  /\ \A j \in 1 .. Len(begun) : start[j + 1] = start[j] + Total(begun[j])
  /\ \A j, h \in 1 .. Len(begun) + 1 : j <= h => start[j] <= start[h]

\* The bytes on their way are those of "begun", "done" of the last one's.
Flows(begun, done, start) ==
  /\ Len(received) <= Len(begun)
  /\ Placed(begun, start)
  /\ IF begun = <<>> THEN done = 0 /\ InTransit = 0
     ELSE done \in 0 .. Total(begun[Len(begun)]) /\ InTransit = start[Len(begun)] + done
  /\ \A j \in Len(received) + 1 .. Len(begun) : \A i \in 1 .. Total(begun[j]) :
       start[j] + i <= InTransit => Byte(start[j] + i) = <<begun[j], i>>

\* The messages begun are those sent, and one the sender left in.
Begun(begun, done) ==
  \/ begun = sent /\ (sent # <<>> => done = written) /\ (ended => ~Sending)
  \/ /\ ended /\ begun # <<>>
     /\ sent = SubSeq(begun, 1, Len(begun) - 1) /\ done < Total(begun[Len(begun)])

Flowing == \E begun \in Seq(Messages), done \in Nat :
             Begun(begun, done) /\ \E start \in Starts(begun) : Flows(begun, done, start)

MessageBytes == Messages \X (Nat \ {0})

Kept == /\ sent \in Seq(Messages) /\ received \in Seq(Messages)
        /\ stream \in Seq(MessageBytes) /\ buffer \in Seq(MessageBytes)
        /\ Len(stream) <= BUFFER
        /\ written \in Nat /\ ended \in BOOLEAN /\ closed \in BOOLEAN

\* What is received was sent, and not while its sender was still at it.
Behind == /\ Len(received) <= Len(sent)
          /\ ~ended /\ Sending => Len(received) < Len(sent)
          /\ ~ended /\ sent # <<>> => written <= Total(Current)

\* The receiver holds less than the message it is at, and nothing once closed.
Partial == buffer # <<>> => ~closed /\ Len(buffer) < Wanted

PInv == Kept /\ Behind /\ Partial /\ (~closed => Flowing)

\* A message has a header, so at least one byte, and a length.
LEMMA Totals == /\ HEADER \in Nat /\ HEADER > 0
                /\ \A m \in Messages : Total(m) \in Nat /\ Total(m) >= HEADER /\ m.length \in Nat
<1>1. HEADER \in Nat /\ HEADER > 0 /\ Lengths \subseteq Nat
  BY ProtocolAssumption
<1>2. ASSUME NEW m \in Messages
      PROVE  Total(m) \in Nat /\ Total(m) >= HEADER /\ m.length \in Nat
  <2>1. m.length \in Nat
    BY <1>1 DEF Messages
  <2>2. QED BY <1>1, <2>1 DEF Total
<1>3. QED BY <1>1, <1>2

\* PInv holds on a new connection.
LEMMA InitPInv == Init => PInv
<1> SUFFICES ASSUME Init PROVE PInv
  OBVIOUS
<1>1. /\ sent = <<>> /\ received = <<>> /\ stream = <<>> /\ buffer = <<>>
      /\ written = 0 /\ ended = FALSE /\ closed = FALSE
  BY DEF Init
<1>2. Kept /\ Behind /\ Partial
  <2>1. BUFFER \in Nat
    BY ProtocolAssumption
  <2>2. /\ sent \in Seq(Messages) /\ received \in Seq(Messages)
        /\ stream \in Seq(MessageBytes) /\ buffer \in Seq(MessageBytes)
    BY <1>1
  <2>3. Len(stream) <= BUFFER
    BY <1>1, <2>1
  <2>4. written \in Nat /\ ended \in BOOLEAN /\ closed \in BOOLEAN
    BY <1>1
  <2>5. Len(received) <= Len(sent)
    BY <1>1
  <2>6. Behind
    BY <1>1, <2>5 DEF Behind, Sending
  <2>7. QED BY <1>1, <2>2, <2>3, <2>4, <2>6 DEF Kept, Partial
<1>3. Begun(<<>>, 0)
  BY <1>1 DEF Begun, Sending
<1> DEFINE start == [j \in 1 .. 1 |-> 0]
<1>4. start \in Starts(<<>>) /\ Flows(<<>>, 0, start)
  BY <1>1 DEF Starts, Flows, Placed, InTransit
<1>5. <<>> \in Seq(Messages) /\ 0 \in Nat
  OBVIOUS
<1> HIDE DEF start
<1>6. Flowing
  BY <1>3, <1>4, <1>5 DEF Flowing
<1>7. QED BY <1>2, <1>6 DEF PInv

\* What Flows says of the places, in one piece.
LEMMA FlowFacts ==
  ASSUME received \in Seq(Messages), NEW begun \in Seq(Messages), NEW start \in Starts(begun),
         NEW done \in Nat, Flows(begun, done, start), NEW n \in Nat, n = Len(begun)
  PROVE  /\ Len(received) \in Nat /\ Len(received) <= n
         /\ \A j \in 1 .. n + 1 : start[j] \in Int
         /\ start[Len(received) + 1] = 0
         /\ \A j \in 1 .. n : start[j + 1] = start[j] + Total(begun[j])
         /\ \A j, h \in 1 .. n + 1 : j <= h => start[j] <= start[h]
<1>1. Len(received) \in Nat /\ Len(received) <= n
  BY DEF Flows
<1>2. start \in [1 .. n + 1 -> Int]
  BY DEF Starts
<1>3. Placed(begun, start)
  BY DEF Flows
<1>4. QED BY <1>1, <1>2, <1>3 DEF Placed

-----------------------------------------------------------------------------
(* The sender.                                                             *)

\* Until it leaves, the sender has begun what it has sent.
LEMMA StillSending ==
  ASSUME ~ended, NEW begun \in Seq(Messages), NEW done \in Nat, Begun(begun, done)
  PROVE  begun = sent /\ (sent # <<>> => done = written)
BY DEF Begun

\* Adding a message.
LEMMA Appending ==
  ASSUME NEW S, NEW s \in Seq(S), NEW m \in S, NEW t, t = Append(s, m)
  PROVE  /\ t \in Seq(S) /\ Len(t) = Len(s) + 1 /\ t # <<>>
         /\ \A i \in 1 .. Len(s) : t[i] = s[i]
         /\ t[Len(s) + 1] = m
OBVIOUS

\* Adding one sequence to another.
LEMMA Joining ==
  ASSUME NEW S, NEW s \in Seq(S), NEW t \in Seq(S)
  PROVE  /\ s \o t \in Seq(S) /\ Len(s \o t) = Len(s) + Len(t)
         /\ \A i \in 1 .. Len(s) : (s \o t)[i] = s[i]
         /\ \A i \in 1 .. Len(t) : (s \o t)[Len(s) + i] = t[i]
OBVIOUS

\* Taking a part of a sequence.
LEMMA Cutting ==
  ASSUME NEW S, NEW s \in Seq(S), NEW a \in Nat, NEW b \in Nat, a <= b, b <= Len(s)
  PROVE  /\ SubSeq(s, a + 1, b) \in Seq(S) /\ Len(SubSeq(s, a + 1, b)) = b - a
         /\ \A i \in 1 .. b - a : SubSeq(s, a + 1, b)[i] = s[a + i]
OBVIOUS

\* A new message begins where the last one ends: none of it is on its way.
LEMMA SendMessageKeeps ==
  ASSUME PInv, NEW m \in Messages, SendMessage(m)
  PROVE  PInv'
<1>1. /\ ~ended /\ ~Sending /\ sent' = Append(sent, m) /\ written' = 0
      /\ UNCHANGED <<ended, stream, buffer, received, closed>>
  BY DEF SendMessage, receiver
<1>2. Kept /\ Behind /\ Partial /\ (~closed => Flowing)
  BY DEF PInv
<1>3. sent \in Seq(Messages) /\ received \in Seq(Messages) /\ written \in Nat
  BY <1>2 DEF Kept
<1>4. /\ sent' \in Seq(Messages) /\ Len(sent') = Len(sent) + 1 /\ sent' # <<>>
      /\ \A i \in 1 .. Len(sent) : sent'[i] = sent[i]
      /\ sent'[Len(sent) + 1] = m
  BY <1>1, <1>3, Appending
<1>5. Kept'
  BY <1>1, <1>2, <1>4 DEF Kept
<1>6. Total(m) \in Nat /\ Total(m) > 0
  BY Totals
<1>7. Current' = m
  BY <1>4 DEF Current
<1>8. Behind'
  BY <1>1, <1>2, <1>3, <1>4, <1>6, <1>7 DEF Behind
<1>9. Partial'
  BY <1>1, <1>2 DEF Partial, Wanted
<1>10. ASSUME ~closed PROVE Flowing'
  <2>1. PICK begun \in Seq(Messages), done \in Nat :
          Begun(begun, done) /\ \E start \in Starts(begun) : Flows(begun, done, start)
    BY <1>2, <1>10 DEF Flowing
  <2>2. begun = sent /\ (sent # <<>> => done = written)
    BY <1>1, <2>1, StillSending
  <2>3. PICK start \in Starts(sent) : Flows(sent, done, start)
    BY <2>1, <2>2
  <2>3a. PICK n \in Nat : n = Len(sent)
    BY <1>3
  <2>3b. PICK new \in Seq(Messages) : new = sent'
    BY <1>4
  <2> DEFINE next == [j \in 1 .. n + 2 |-> IF j <= n + 1 THEN start[j] ELSE start[n + 1] + Total(m)]
  <2>4. /\ Len(received) \in Nat /\ Len(received) <= n
        /\ \A j \in 1 .. n + 1 : start[j] \in Int
        /\ start[Len(received) + 1] = 0
        /\ \A j \in 1 .. n : start[j + 1] = start[j] + Total(sent[j])
        /\ \A j, h \in 1 .. n + 1 : j <= h => start[j] <= start[h]
    BY <1>3, <2>3, <2>3a, FlowFacts
  <2>5. InTransit = start[n + 1]
    <3>1. CASE sent = <<>>
      <4>1. n = 0 /\ Len(received) = 0
        BY <2>4, <2>3a, <3>1
      <4>2. QED BY <2>3, <2>4, <2>3a, <3>1, <4>1 DEF Flows
    <3>2. CASE sent # <<>>
      <4>1. n \in 1 .. n /\ Total(sent[n]) \in Nat
        BY <1>3, <2>3a, <3>2, Totals
      <4>2. written >= Total(sent[n]) /\ done = written
        BY <1>1, <1>3, <2>2, <2>3a, <3>2, <4>1 DEF Sending, Current
      <4>3. done \in 0 .. Total(sent[n]) /\ InTransit = start[n] + done
        BY <2>3, <2>3a, <3>2 DEF Flows
      <4>4. QED BY <2>4, <4>1, <4>2, <4>3
    <3>3. QED BY <3>1, <3>2
  <2>6. InTransit' = InTransit /\ \A k \in Int : Byte(k)' = Byte(k)
    BY <1>1 DEF InTransit, Byte
  <2>7. /\ Len(new) = n + 1 /\ new # <<>> /\ new[n + 1] = m
        /\ \A i \in 1 .. n : new[i] = sent[i]
    BY <1>4, <2>3a, <2>3b
  <2>8. /\ \A j \in 1 .. n + 1 : next[j] = start[j]
        /\ next[n + 2] = start[n + 1] + Total(m)
        /\ next \in [1 .. n + 2 -> Int]
    BY <1>6, <2>4
  <2> HIDE DEF next
  <2>9. next \in Starts(new)
    BY <2>4, <2>7, <2>8 DEF Starts
  <2>10. Placed(new, next)'
    <3>1. next[Len(received') + 1] = 0
      BY <1>1, <2>4, <2>8
    <3>2. ASSUME NEW j \in 1 .. n + 1 PROVE next[j + 1] = next[j] + Total(new[j])
      <4>1. CASE j = n + 1
        BY <2>4, <2>7, <2>8, <4>1
      <4>2. CASE j # n + 1
        <5>1. j \in 1 .. n /\ j + 1 \in 1 .. n + 1 /\ new[j] = sent[j]
          BY <2>4, <2>7, <4>2
        <5>2. QED BY <2>4, <2>8, <5>1
      <4>3. QED BY <4>1, <4>2
    <3>3. ASSUME NEW j \in 1 .. n + 2, NEW h \in 1 .. n + 2, j <= h PROVE next[j] <= next[h]
      <4>1. CASE h # n + 2
        BY <2>4, <2>8, <3>3, <4>1
      <4>2. CASE h = n + 2
        <5>1. CASE j = n + 2
          BY <2>4, <2>8, <4>2, <5>1, <1>6
        <5>2. CASE j # n + 2
          <6>1. j \in 1 .. n + 1 /\ n + 1 \in 1 .. n + 1
            BY <2>4, <5>2
          <6>2. start[j] <= start[n + 1]
            BY <2>4, <6>1
          <6>3. QED BY <1>6, <2>4, <2>8, <4>2, <6>1, <6>2
        <5>3. QED BY <5>1, <5>2
      <4>3. QED BY <4>1, <4>2
    <3>4. Len(new) + 1 = n + 2
      BY <2>4, <2>7
    <3>5. QED BY <2>7, <3>1, <3>2, <3>3, <3>4 DEF Placed
  <2>11. ASSUME NEW j \in Len(received) + 1 .. n + 1, NEW i \in 1 .. Total(new[j]),
                next[j] + i <= InTransit
         PROVE  Byte(next[j] + i)' = <<new[j], i>>
    <3>1. j \in 1 .. n
      <4>1. j # n + 1
        BY <2>4, <2>5, <2>8, <2>11
      <4>2. QED BY <2>4, <4>1
    <3>2. new[j] = sent[j] /\ next[j] = start[j] /\ j \in Len(received) + 1 .. n
      <4>1. new[j] = sent[j]
        BY <2>7, <3>1
      <4>2. next[j] = start[j]
        BY <2>8, <3>1
      <4>3. QED BY <2>11, <3>1, <4>1, <4>2
    <3>3. Byte(start[j] + i) = <<sent[j], i>>
      BY <2>3, <2>11, <2>3a, <3>2 DEF Flows
    <3>4. next[j] + i \in Int
      BY <2>4, <3>1, <3>2
    <3>5. QED BY <2>6, <3>2, <3>3, <3>4
  <2>12. Flows(new, 0, next)'
    <3>1. 0 \in 0 .. Total(new[Len(new)]) /\ InTransit' = next[Len(new)] + 0
      BY <1>6, <2>4, <2>5, <2>6, <2>7, <2>8
    <3>2. Len(received') <= Len(new)
      BY <1>1, <2>4, <2>7
    <3>3. QED BY <1>1, <2>6, <2>7, <2>10, <2>11, <3>1, <3>2 DEF Flows
  <2>13. Begun(new, 0)'
    BY <1>1, <2>7, <2>3b, <1>6, <1>7 DEF Begun, Sending
  <2>14. QED BY <2>9, <2>12, <2>13 DEF Flowing
<1>11. QED BY <1>1, <1>5, <1>8, <1>9, <1>10 DEF PInv

\* The bytes of a part of a message.
LEMMA PartBytes ==
  ASSUME NEW m \in Messages, NEW done \in Nat, NEW k \in Nat, done + k <= Total(m)
  PROVE  /\ SubSeq(Bytes(m), done + 1, done + k) \in Seq(MessageBytes)
         /\ Len(SubSeq(Bytes(m), done + 1, done + k)) = k
         /\ \A x \in 1 .. k : SubSeq(Bytes(m), done + 1, done + k)[x] = <<m, done + x>>
<1>1. Total(m) \in Nat
  BY Totals
<1>2. \A i \in 1 .. Total(m) : <<m, i>> \in MessageBytes
  BY DEF MessageBytes
<1>3. /\ Bytes(m) \in Seq(MessageBytes) /\ Len(Bytes(m)) = Total(m)
      /\ \A i \in 1 .. Total(m) : Bytes(m)[i] = <<m, i>>
  <2>1. Bytes(m) \in [1 .. Total(m) -> MessageBytes]
    BY <1>2 DEF Bytes
  <2>2. \A i \in 1 .. Total(m) : Bytes(m)[i] = <<m, i>>
    BY DEF Bytes
  <2> HIDE DEF MessageBytes
  <2>3. QED BY <1>1, <2>1, <2>2
<1> DEFINE bytes == Bytes(m)
<1> HIDE DEF bytes, MessageBytes
<1>4. bytes \in Seq(MessageBytes) /\ Len(bytes) = Total(m)
  BY <1>3 DEF bytes
<1>5. /\ SubSeq(bytes, done + 1, done + k) \in Seq(MessageBytes)
      /\ Len(SubSeq(bytes, done + 1, done + k)) = k
      /\ \A x \in 1 .. k : SubSeq(bytes, done + 1, done + k)[x] = bytes[done + x]
  BY <1>1, <1>4
<1>6. \A x \in 1 .. k : bytes[done + x] = <<m, done + x>>
  BY <1>1, <1>3 DEF bytes
<1>7. QED BY <1>5, <1>6 DEF bytes

\* What is sent goes to the end of the stream.
LEMMA SendKeeps ==
  ASSUME PInv, Send
  PROVE  PInv'
<1>1. /\ ~ended /\ ~closed /\ sent # <<>> /\ written < Total(Current)
      /\ UNCHANGED <<sent, ended, buffer, received, closed>>
  BY DEF Send, Sending, receiver
<1>2. Kept /\ Behind /\ Partial /\ Flowing
  BY <1>1 DEF PInv
<1>3. /\ sent \in Seq(Messages) /\ received \in Seq(Messages) /\ written \in Nat
      /\ stream \in Seq(MessageBytes) /\ buffer \in Seq(MessageBytes)
  BY <1>2 DEF Kept
<1>4. PICK n \in Nat : n = Len(sent) /\ n > 0
  BY <1>1, <1>3
<1>5. PICK m \in Messages : m = sent[n] /\ m = Current
  BY <1>3, <1>4 DEF Current
<1>6. Total(m) \in Nat /\ HEADER \in Nat /\ Total(m) >= HEADER
  BY Totals
<1>7. PICK k \in 1 .. Block(written, Current) - written :
        /\ Len(stream) + k <= BUFFER
        /\ stream' = stream \o SubSeq(Bytes(Current), written + 1, written + k)
        /\ written' = written + k
  BY DEF Send
<1>8. k \in Nat /\ k > 0 /\ written + k <= Total(m)
  BY <1>1, <1>3, <1>5, <1>6, <1>7 DEF Block
<1>9. PICK part \in Seq(MessageBytes) :
        /\ stream' = stream \o part /\ Len(part) = k
        /\ \A x \in 1 .. k : part[x] = <<m, written + x>>
  BY <1>3, <1>5, <1>7, <1>8, PartBytes
<1>10. /\ stream' \in Seq(MessageBytes) /\ Len(stream') = Len(stream) + k
       /\ \A x \in 1 .. Len(stream) : stream'[x] = stream[x]
       /\ \A x \in 1 .. k : stream'[Len(stream) + x] = <<m, written + x>>
  <2> HIDE DEF MessageBytes
  <2>1. /\ stream' \in Seq(MessageBytes) /\ Len(stream') = Len(stream) + k
        /\ \A x \in 1 .. Len(stream) : stream'[x] = stream[x]
        /\ \A x \in 1 .. k : stream'[Len(stream) + x] = part[x]
    <3>1. /\ stream \o part \in Seq(MessageBytes) /\ Len(stream \o part) = Len(stream) + Len(part)
          /\ \A x \in 1 .. Len(stream) : (stream \o part)[x] = stream[x]
          /\ \A x \in 1 .. Len(part) : (stream \o part)[Len(stream) + x] = part[x]
      BY <1>3, Joining
    <3>2. stream' = stream \o part /\ Len(part) = k
      BY <1>9
    <3>3. QED BY ONLY <3>1, <3>2
  <2>2. QED BY <1>9, <2>1
<1>11. Kept'
  BY <1>1, <1>2, <1>3, <1>7, <1>8, <1>10 DEF Kept
<1>12. Behind'
  <2>1. Current' = m
    BY <1>1, <1>4, <1>5 DEF Current
  <2>2. Len(received) < Len(sent)
    BY <1>1, <1>2 DEF Behind, Sending
  <2>3. QED BY <1>1, <1>3, <1>7, <1>8, <2>1, <2>2 DEF Behind
<1>13. Partial'
  BY <1>1, <1>2 DEF Partial, Wanted
<1>14. Flowing'
  <2>1. PICK begun \in Seq(Messages), done \in Nat :
          Begun(begun, done) /\ \E start \in Starts(begun) : Flows(begun, done, start)
    BY <1>2 DEF Flowing
  <2>2. begun = sent /\ done = written
    BY <1>1, <2>1, StillSending
  <2>3. PICK start \in Starts(begun) : Flows(begun, done, start)
    BY <2>1
  <2>4. /\ Len(received) \in Nat /\ Len(received) <= n
        /\ \A j \in 1 .. n + 1 : start[j] \in Int
        /\ start[Len(received) + 1] = 0
        /\ \A j \in 1 .. n : start[j + 1] = start[j] + Total(begun[j])
        /\ \A j, h \in 1 .. n + 1 : j <= h => start[j] <= start[h]
    BY <1>3, <1>4, <2>2, <2>3, FlowFacts
  <2>5. InTransit = start[n] + done /\ InTransit \in Nat
    BY <1>1, <1>3, <1>4, <2>2, <2>3 DEF Flows, InTransit
  <2>6. InTransit' = InTransit + k
    BY <1>1, <1>3, <1>8, <1>10 DEF InTransit
  <2>7. /\ \A x \in 1 .. InTransit : Byte(x)' = Byte(x)
        /\ \A x \in 1 .. k : \A y \in Int : y = InTransit + x => Byte(y)' = <<m, written + x>>
    <3>1. PICK b \in Nat, l \in Nat : b = Len(buffer) /\ l = Len(stream)
      BY <1>3
    <3>2. \A x \in Int : /\ Byte(x) = IF x <= b THEN buffer[x] ELSE stream[x - b]
                         /\ Byte(x)' = IF x <= b THEN buffer[x] ELSE stream'[x - b]
      BY <1>1, <3>1 DEF Byte
    <3>3. /\ InTransit = b + l
          /\ \A x \in 1 .. l : stream'[x] = stream[x]
          /\ \A x \in 1 .. k : stream'[l + x] = <<m, written + x>>
      BY <1>10, <3>1 DEF InTransit
    <3>4. ASSUME NEW x \in 1 .. InTransit PROVE Byte(x)' = Byte(x)
      <4>1. CASE x <= b
        BY <3>2, <4>1
      <4>2. CASE x > b
        <5>1. x - b \in 1 .. l
          BY <3>3, <4>2
        <5>2. QED BY <3>2, <3>3, <4>2, <5>1
      <4>3. QED BY <3>1, <3>3, <4>1, <4>2
    <3>5. ASSUME NEW x \in 1 .. k, NEW y \in Int, y = InTransit + x
          PROVE  Byte(y)' = <<m, written + x>>
      <4>1. y > b /\ y - b = l + x
        BY <3>3, <3>5
      <4>2. Byte(y)' = stream'[y - b]
        BY <3>2, <4>1
      <4>3. QED BY <3>3, <4>1, <4>2
    <3>6. QED BY <3>4, <3>5
  <2>8. PICK total \in Nat : total = done + k
    BY <1>8
  <2>9. Begun(begun, total)'
    BY <1>1, <1>7, <2>2, <2>8 DEF Begun
  <2>11. ASSUME NEW j \in Len(received) + 1 .. n, NEW i \in 1 .. Total(begun[j]),
                start[j] + i <= InTransit + k
         PROVE  Byte(start[j] + i)' = <<begun[j], i>>
    <3>1. /\ j \in 1 .. n /\ j \in 1 .. n + 1 /\ begun[j] \in Messages /\ Total(begun[j]) \in Nat
          /\ Len(received) + 1 \in 1 .. n + 1
      BY <1>4, <2>2, <2>4, Totals
    <3>2. start[j] \in Int /\ start[j] >= 0
      BY <2>4, <3>1
    <3>3. CASE start[j] + i <= InTransit
      <4>1. Byte(start[j] + i) = <<begun[j], i>>
        BY <1>4, <2>2, <2>3, <3>3 DEF Flows
      <4>2. start[j] + i \in 1 .. InTransit
        <5>1. PICK a \in Nat, it \in Nat : a = start[j] /\ it = InTransit
          BY <2>5, <3>2
        <5>2. a + i <= it /\ i \in Nat /\ i > 0
          BY <3>1, <3>3, <5>1
        <5>3. QED BY ONLY <5>1, <5>2
      <4>3. QED BY <2>7, <4>1, <4>2
    <3>4. CASE start[j] + i > InTransit
      <4>1. j = n
        <5>1. SUFFICES ASSUME j # n PROVE FALSE
          OBVIOUS
        <5>2. j + 1 \in 1 .. n + 1 /\ n \in 1 .. n + 1 /\ j + 1 <= n
          BY <1>4, <3>1, <5>1
        <5>3. start[j] + Total(begun[j]) <= start[n]
          BY <2>4, <3>1, <5>2
        <5>4. start[n] \in Int
          BY <2>4, <5>2
        <5>5. PICK a \in Int, z \in Int, c \in Nat :
                a = start[j] /\ z = start[n] /\ c = Total(begun[j])
          BY <3>1, <3>2, <5>4
        <5>6. a + c <= z /\ InTransit = z + done /\ a + i > InTransit /\ i \in 1 .. c
          BY <2>5, <3>4, <5>3, <5>5
        <5>7. QED BY ONLY <5>6, a \in Int, z \in Int, c \in Nat, done \in Nat
      <4>2. i - written \in 1 .. k
        <5>1. start[n] + i <= start[n] + done + k /\ start[n] + i > start[n] + done
          BY <2>5, <2>11, <3>4, <4>1
        <5>2. start[n] \in Int
          BY <2>4, <3>1, <4>1
        <5>3. i \in Nat
          BY <3>1
        <5>4. QED BY <1>3, <1>8, <2>2, <5>1, <5>2, <5>3
      <4>3. PICK x \in 1 .. k : x = i - written
        BY <4>2
      <4>4. start[j] + i = InTransit + x /\ i = written + x /\ start[j] + i \in Int
        <5>1. i \in Nat /\ start[j] \in Int /\ written \in Nat /\ x = i - written
          BY <1>3, <3>1, <3>2, <4>3
        <5>2. InTransit = start[j] + written
          BY <2>2, <2>5, <4>1
        <5>3. \A a, v, y \in Int : a + y = a + v + (y - v) /\ y = v + (y - v) /\ a + y \in Int
          OBVIOUS
        <5>4. i \in Int /\ written \in Int
          BY <5>1
        <5>5. QED BY <5>1, <5>2, <5>3, <5>4
      <4>5. begun[j] = m
        BY <1>5, <2>2, <4>1
      <4>6. Byte(start[j] + i)' = <<m, written + x>>
        BY <2>7, <4>4
      <4>7. QED BY <4>4, <4>5, <4>6
    <3>5. QED BY <2>5, <3>2, <3>3, <3>4
  <2>12. Placed(begun, start)'
    BY <1>1, <2>3 DEF Flows, Placed
  <2>13. Flows(begun, total, start)'
    <3>1. begun # <<>> /\ total \in 0 .. Total(begun[Len(begun)])
      <4>1. begun # <<>> /\ begun[Len(begun)] = m
        BY <1>1, <1>4, <1>5, <2>2
      <4>2. total \in 0 .. Total(m)
        BY <1>3, <1>6, <1>8, <2>2, <2>8
      <4>3. QED BY <4>1, <4>2
    <3>2. InTransit' = start[Len(begun)] + total
      <4>1. start[n] \in Int
        BY <1>4, <2>4
      <4>2. QED BY <1>4, <1>8, <2>2, <2>5, <2>6, <2>8, <4>1
    <3>3. QED BY <1>1, <1>4, <2>2, <2>4, <2>6, <2>11, <2>12, <3>1, <3>2 DEF Flows
  <2>14. QED BY <2>9, <2>13 DEF Flowing
<1>15. QED BY <1>1, <1>11, <1>12, <1>13, <1>14 DEF PInv

\* What the sender had begun and not sent is not among the messages any more.
LEMMA LeaveKeeps ==
  ASSUME PInv, Leave
  PROVE  PInv'
<1>1. /\ ~ended /\ ended' = TRUE
      /\ sent' = IF Sending THEN SubSeq(sent, 1, Len(sent) - 1) ELSE sent
      /\ UNCHANGED <<written, stream, buffer, received, closed>>
  BY DEF Leave, receiver
<1>2. Kept /\ Behind /\ Partial /\ (~closed => Flowing)
  BY DEF PInv
<1>3. sent \in Seq(Messages) /\ received \in Seq(Messages) /\ written \in Nat
  BY <1>2 DEF Kept
<1>4. /\ sent' \in Seq(Messages)
      /\ Len(sent') = IF Sending THEN Len(sent) - 1 ELSE Len(sent)
  <2>1. CASE Sending
    <3>1. Len(sent) > 0
      BY <1>3, <2>1 DEF Sending
    <3>2. sent' = SubSeq(sent, 1, Len(sent) - 1)
      BY <1>1, <2>1
    <3>3. /\ SubSeq(sent, 1, Len(sent) - 1) \in Seq(Messages)
          /\ Len(SubSeq(sent, 1, Len(sent) - 1)) = Len(sent) - 1
      <4>1. PICK z \in Nat, n \in Nat : z = 0 /\ n = Len(sent) - 1 /\ n <= Len(sent)
        <5>1. PICK l \in Nat : l = Len(sent) /\ l > 0
          <6>1. Len(sent) \in Nat
            BY <1>3
          <6>2. QED BY <3>1, <6>1
        <5>2. 0 \in Nat /\ l - 1 \in Nat /\ l - 1 <= l
          BY ONLY <5>1
        <5>3. QED BY ONLY <5>1, <5>2
      <4>2. SubSeq(sent, z + 1, n) \in Seq(Messages) /\ Len(SubSeq(sent, z + 1, n)) = n - z
        <5>1. z <= n
          BY <4>1
        <5>2. QED BY ONLY <1>3, <4>1, <5>1, Cutting
      <4>3. z + 1 = 1 /\ n - z = n
        BY <4>1
      <4>4. QED BY <4>1, <4>2, <4>3
    <3>4. sent' \in Seq(Messages) /\ Len(sent') = Len(sent) - 1
      BY ONLY <3>2, <3>3
    <3>5. QED BY <2>1, <3>4
  <2>2. CASE ~Sending
    <3>1. sent' = sent
      BY <1>1, <2>2
    <3>2. QED BY <1>3, <2>2, <3>1
  <2>3. QED BY <2>1, <2>2
<1>5. Kept'
  BY <1>1, <1>2, <1>4 DEF Kept
<1>6. Behind'
  BY <1>1, <1>2, <1>3, <1>4 DEF Behind
<1>7. Partial'
  BY <1>1, <1>2 DEF Partial, Wanted
<1>8. ASSUME ~closed PROVE Flowing'
  <2>1. PICK begun \in Seq(Messages), done \in Nat :
          Begun(begun, done) /\ \E start \in Starts(begun) : Flows(begun, done, start)
    BY <1>2, <1>8 DEF Flowing
  <2>2. begun = sent /\ (sent # <<>> => done = written)
    BY <1>1, <2>1, StillSending
  <2>3. Begun(begun, done)'
    <3>1. CASE Sending
      BY <1>1, <2>2, <3>1 DEF Begun, Sending, Current
    <3>2. CASE ~Sending
      BY <1>1, <2>2, <3>2 DEF Begun, Sending, Current
    <3>3. QED BY <3>1, <3>2
  <2>4. ASSUME NEW start \in Starts(begun), Flows(begun, done, start)
        PROVE  Flows(begun, done, start)'
    BY <1>1, <2>4 DEF Flows, Placed, InTransit, Byte
  <2>5. QED BY <2>1, <2>3, <2>4 DEF Flowing
<1>9. QED BY <1>1, <1>5, <1>6, <1>7, <1>8 DEF PInv

-----------------------------------------------------------------------------
(* The receiver.                                                           *)

\* The message the receiver is at: its bytes are the first on their way.
LEMMA AtMessage ==
  ASSUME PInv, ~closed, InTransit > 0
  PROVE  \E begun \in Seq(Messages), done \in Nat :
           /\ Begun(begun, done)
           /\ Len(received) < Len(begun)
           /\ \A i \in 1 .. Total(begun[Len(received) + 1]) :
                i <= InTransit => Byte(i) = <<begun[Len(received) + 1], i>>
           /\ Len(received) + 1 = Len(begun) => InTransit = done
           /\ \E start \in Starts(begun) : Flows(begun, done, start)
<1>1. Kept /\ Flowing
  BY DEF PInv
<1>2. received \in Seq(Messages) /\ InTransit \in Nat
  BY <1>1 DEF Kept, InTransit
<1>3. PICK begun \in Seq(Messages), done \in Nat :
        Begun(begun, done) /\ \E start \in Starts(begun) : Flows(begun, done, start)
  BY <1>1 DEF Flowing
<1>4. PICK start \in Starts(begun) : Flows(begun, done, start)
  BY <1>3
<1>5. PICK n \in Nat : n = Len(begun)
  OBVIOUS
<1>6. PICK r \in Nat : r = Len(received)
  BY <1>2
<1>7. /\ r <= n
      /\ \A j \in 1 .. n + 1 : start[j] \in Int
      /\ start[r + 1] = 0
      /\ \A j \in 1 .. n : start[j + 1] = start[j] + Total(begun[j])
  BY <1>2, <1>4, <1>5, <1>6, FlowFacts
<1>8. begun # <<>> /\ n \in 1 .. n
  BY <1>4, <1>5 DEF Flows
<1>9. begun[n] \in Messages /\ Total(begun[n]) \in Nat
  BY <1>5, <1>8, Totals
<1>10. done <= Total(begun[n]) /\ InTransit = start[n] + done
  BY <1>4, <1>5, <1>8 DEF Flows
<1>11. r < n
  <2>1. r # n
    <3>1. SUFFICES ASSUME r = n PROVE FALSE
      OBVIOUS
    <3>2. start[n] \in Int /\ start[n] + Total(begun[n]) = 0
      BY <1>7, <1>8, <3>1
    <3>3. QED BY <1>9, <1>10, <3>2
  <2>2. QED BY <1>7, <2>1
<1>12. r + 1 = n => InTransit = done
  BY <1>7, <1>10
<1>13. ASSUME NEW i \in 1 .. Total(begun[r + 1]), i <= InTransit
       PROVE  Byte(i) = <<begun[r + 1], i>>
  <2>1. r + 1 \in r + 1 .. n
    BY <1>11
  <2>2. start[r + 1] + i <= InTransit => Byte(start[r + 1] + i) = <<begun[r + 1], i>>
    BY <1>4, <1>5, <1>6, <2>1 DEF Flows
  <2>3. Total(begun[r + 1]) \in Nat
    BY <1>5, <1>11, Totals
  <2>4. start[r + 1] + i = i
    BY <1>7, <2>3
  <2>5. QED BY <1>13, <2>2, <2>4
<1>14. QED BY <1>3, <1>5, <1>6, <1>11, <1>12, <1>13

\* More of the message the receiver is at, but not all of it.
More(first) == /\ UNCHANGED <<received, closed>>
               /\ Len(buffer') < HEADER \/ Len(buffer') < Total(first)
               /\ \A i \in 1 .. Len(buffer') : buffer'[i] = <<first, i>>
               /\ InTransit' = InTransit
               /\ \A x \in 1 .. InTransit : Byte(x)' = Byte(x)

\* A header the receiver does not accept.
Refused(first) == ~IsAccepted(first) /\ closed' = TRUE /\ buffer' = <<>> /\ UNCHANGED received

\* The whole of a message it accepts, and nothing of the next one.
Complete(first) == /\ IsAccepted(first)
                   /\ received' = Append(received, first)
                   /\ buffer' = <<>> /\ UNCHANGED closed
                   /\ InTransit >= Total(first) /\ InTransit' = InTransit - Total(first)
                   /\ \A x \in 1 .. InTransit' : Byte(x)' = Byte(x + Total(first))

\* One call of recv gives bytes of one message, in order.
LEMMA ReceiveCases ==
  ASSUME PInv, Receive
  PROVE  /\ UNCHANGED sender /\ ~closed
         /\ stream' \in Seq(MessageBytes) /\ Len(stream') <= Len(stream)
         /\ buffer' \in Seq(MessageBytes)
         /\ \E begun \in Seq(Messages), done \in Nat :
              /\ Begun(begun, done)
              /\ Len(received) < Len(begun)
              /\ Len(received) + 1 = Len(begun) => InTransit = done
              /\ \E start \in Starts(begun) : Flows(begun, done, start)
              /\ \/ More(begun[Len(received) + 1])
                 \/ Refused(begun[Len(received) + 1])
                 \/ Complete(begun[Len(received) + 1])
<1>1. ~closed /\ stream # <<>> /\ UNCHANGED sender
  BY DEF Receive
<1>2. Kept /\ Partial
  BY DEF PInv
<1>3. /\ received \in Seq(Messages)
      /\ stream \in Seq(MessageBytes) /\ buffer \in Seq(MessageBytes)
  BY <1>2 DEF Kept
<1>4. PICK b \in Nat, l \in Nat : b = Len(buffer) /\ l = Len(stream) /\ l > 0
  BY <1>1, <1>3
<1>5. PICK k \in 1 .. Wanted - Len(buffer) :
        /\ k <= Len(stream)
        /\ Take(buffer \o SubSeq(stream, 1, k))
        /\ stream' = SubSeq(stream, k + 1, Len(stream))
  BY DEF Receive
<1>6. InTransit = b + l /\ InTransit > 0
  BY <1>4 DEF InTransit
<1>7. PICK begun \in Seq(Messages), done \in Nat :
        /\ Begun(begun, done)
        /\ Len(received) < Len(begun)
        /\ \A i \in 1 .. Total(begun[Len(received) + 1]) :
             i <= InTransit => Byte(i) = <<begun[Len(received) + 1], i>>
        /\ Len(received) + 1 = Len(begun) => InTransit = done
        /\ \E start \in Starts(begun) : Flows(begun, done, start)
  BY <1>1, <1>6, AtMessage
<1>8. PICK first \in Messages : first = begun[Len(received) + 1]
  BY <1>3, <1>7
<1>9. /\ Total(first) \in Nat /\ HEADER \in Nat /\ HEADER > 0 /\ Total(first) >= HEADER
  BY Totals
<1>10. /\ \A x \in Int : Byte(x) = IF x <= b THEN buffer[x] ELSE stream[x - b]
       /\ \A i \in 1 .. Total(first) : i <= InTransit => Byte(i) = <<first, i>>
  BY <1>4, <1>7, <1>8 DEF Byte
<1>11. PICK w \in Nat : w = Wanted /\ w <= Total(first)
  <2>1. CASE b < HEADER
    BY <1>4, <1>9, <2>1 DEF Wanted, InHeader
  <2>2. CASE b >= HEADER
    <3>1. Byte(1) = buffer[1]
      <4>1. 1 \in Int /\ 1 <= b
        BY <1>9, <2>2
      <4>2. QED BY <1>10, <4>1
    <3>4. Byte(1) = <<first, 1>>
      <4>1. 1 \in 1 .. Total(first) /\ 1 <= InTransit
        BY <1>6, <1>9
      <4>2. QED BY <1>10, <4>1
    <3>2. Header(buffer) = first
      BY <3>1, <3>4 DEF Header
    <3>3. QED BY <1>4, <1>9, <2>2, <3>2 DEF Wanted, InHeader
  <2>3. QED BY <1>9, <2>1, <2>2
<1>12. k \in Nat /\ k > 0 /\ k <= l /\ b + k <= Total(first)
  BY <1>4, <1>5, <1>9, <1>11
<1>13. PICK bytes \in Seq(MessageBytes) :
         /\ bytes = buffer \o SubSeq(stream, 1, k) /\ Len(bytes) = b + k
         /\ \A i \in 1 .. b : bytes[i] = buffer[i]
         /\ \A i \in 1 .. k : bytes[b + i] = stream[i]
  <2>1. PICK zero \in Nat : zero = 0
    OBVIOUS
  <2>2. PICK part \in Seq(MessageBytes) :
          /\ part = SubSeq(stream, zero + 1, k) /\ Len(part) = k - zero
          /\ \A i \in 1 .. k - zero : part[i] = stream[zero + i]
    <3>1. zero <= k /\ k <= Len(stream) /\ k \in Nat
      BY <1>4, <1>12, <2>1
    <3>2. /\ SubSeq(stream, zero + 1, k) \in Seq(MessageBytes)
          /\ Len(SubSeq(stream, zero + 1, k)) = k - zero
          /\ \A i \in 1 .. k - zero : SubSeq(stream, zero + 1, k)[i] = stream[zero + i]
      BY ONLY <1>3, <2>1, <3>1, Cutting
    <3>3. QED BY <3>2
  <2>3. part = SubSeq(stream, 1, k) /\ Len(part) = k /\ \A i \in 1 .. k : part[i] = stream[i]
    BY <1>12, <2>1, <2>2
  <2>4. /\ buffer \o part \in Seq(MessageBytes) /\ Len(buffer \o part) = Len(buffer) + Len(part)
        /\ \A i \in 1 .. Len(buffer) : (buffer \o part)[i] = buffer[i]
        /\ \A i \in 1 .. Len(part) : (buffer \o part)[Len(buffer) + i] = part[i]
    <3>1. buffer \in Seq(MessageBytes)
      BY <1>3
    <3>2. PICK b1 \in Seq(MessageBytes) : b1 = buffer
      BY <3>1
    <3>3. /\ b1 \o part \in Seq(MessageBytes) /\ Len(b1 \o part) = Len(b1) + Len(part)
          /\ \A i \in 1 .. Len(b1) : (b1 \o part)[i] = b1[i]
          /\ \A i \in 1 .. Len(part) : (b1 \o part)[Len(b1) + i] = part[i]
      BY ONLY b1 \in Seq(MessageBytes), part \in Seq(MessageBytes), Joining
    <3>4. QED BY ONLY <3>2, <3>3
  <2>5. QED BY <1>4, <2>3, <2>4
<1>14. /\ stream' \in Seq(MessageBytes) /\ Len(stream') = l - k
       /\ \A x \in 1 .. l - k : stream'[x] = stream[k + x]
  BY <1>3, <1>4, <1>5, <1>12, Cutting
<1>15. ASSUME NEW i \in 1 .. b + k
       PROVE  bytes[i] = Byte(i) /\ bytes[i] = <<first, i>>
  <2>1. i \in 1 .. Total(first) /\ i <= InTransit /\ i \in Int
    BY <1>6, <1>9, <1>12
  <2>2. Byte(i) = <<first, i>>
    BY <1>10, <2>1
  <2>3. bytes[i] = Byte(i)
    <3>1. CASE i <= b
      <4>1. i \in 1 .. b
        BY <2>1, <3>1
      <4>2. QED BY <1>10, <1>13, <2>1, <3>1, <4>1
    <3>2. CASE ~(i <= b)
      <4>1. PICK h \in 1 .. k : h = i - b /\ i = b + h
        BY <1>12, <2>1, <3>2
      <4>2. bytes[i] = stream[h]
        BY <1>13, <4>1
      <4>3. Byte(i) = stream[h]
        BY <1>10, <2>1, <3>2, <4>1
      <4>4. QED BY <4>2, <4>3
    <3>3. QED BY <3>1, <3>2
  <2>4. QED BY <2>2, <2>3
<1>16. Header(bytes) = first /\ IsWhole(bytes)
  <2>1. bytes[1] = <<first, 1>>
    BY <1>12, <1>15
  <2>2. Header(bytes) = first
    BY <2>1 DEF Header
  <2>3. DOMAIN bytes = 1 .. b + k
    BY <1>13
  <2>4. QED BY <1>15, <2>2, <2>3 DEF IsWhole
<1>17. ASSUME buffer' = bytes, UNCHANGED <<received, closed>>, Len(bytes) < Total(first)
       PROVE  More(first)
  <2>1. InTransit' = InTransit
    <3>1. Len(buffer') = b + k /\ Len(stream') = l - k
      BY <1>13, <1>14, <1>17
    <3>2. QED BY <1>6, <1>12, <3>1 DEF InTransit
  <2>2. ASSUME NEW x \in 1 .. InTransit PROVE Byte(x)' = Byte(x)
    <3>1. Byte(x)' = IF x <= b + k THEN bytes[x] ELSE stream'[x - (b + k)]
      BY <1>13, <1>17 DEF Byte
    <3>2. CASE x <= b + k
      <4>1. x \in 1 .. b + k
        BY <1>6, <1>12, <3>2
      <4>2. QED BY <1>15, <3>1, <3>2, <4>1
    <3>3. CASE ~(x <= b + k)
      <4>1. PICK h \in 1 .. l - k : h = x - (b + k) /\ k + h = x - b
        BY <1>6, <1>12, <3>3
      <4>2. x \in Int /\ ~(x <= b)
        BY <1>6, <1>12, <3>3
      <4>3. Byte(x)' = stream'[h] /\ stream'[h] = stream[k + h]
        BY <1>14, <3>1, <3>3, <4>1
      <4>4. Byte(x) = stream[k + h]
        BY <1>10, <4>1, <4>2
      <4>5. QED BY <4>3, <4>4
    <3>4. QED BY <3>2, <3>3
  <2>3. \A i \in 1 .. Len(buffer') : buffer'[i] = <<first, i>>
    BY <1>13, <1>15, <1>17
  <2>4. QED BY <1>17, <2>1, <2>2, <2>3 DEF More
<1>18. ASSUME ~IsAccepted(first), closed' = TRUE, buffer' = <<>>, UNCHANGED received
       PROVE  Refused(first)
  BY <1>18 DEF Refused
<1>19. ASSUME Len(bytes) = Total(first), IsAccepted(first),
              received' = Append(received, first), buffer' = <<>>, UNCHANGED closed
       PROVE  Complete(first)
  <2>1. b + k = Total(first)
    BY <1>13, <1>19
  <2>2. InTransit' = l - k
    <3>1. Len(buffer') = 0
      BY <1>19
    <3>2. QED BY <1>12, <1>14, <3>1 DEF InTransit
  <2>3. InTransit >= Total(first) /\ InTransit' = InTransit - Total(first)
    BY <1>6, <1>12, <2>1, <2>2
  <2>4. ASSUME NEW x \in 1 .. l - k PROVE Byte(x)' = Byte(x + Total(first))
    <3>1. Byte(x)' = stream'[x]
      <4>1. Len(buffer') = 0 /\ x > 0 /\ x - 0 = x
        BY <1>12, <1>19
      <4>2. ~(x <= Len(buffer')) /\ x - Len(buffer') = x
        BY <4>1
      <4>3. QED BY <4>2 DEF Byte
    <3>2. PICK y \in Int : y = x + Total(first) /\ ~(y <= b) /\ y - b = k + x
      BY <1>12, <2>1
    <3>3. Byte(y) = stream[k + x]
      BY <1>10, <3>2
    <3>4. stream'[x] = stream[k + x]
      BY <1>14
    <3>5. QED BY <3>1, <3>2, <3>3, <3>4
  <2>5. QED BY <1>19, <2>2, <2>3, <2>4 DEF Complete
<1>20. More(first) \/ Refused(first) \/ Complete(first)
  <2>1. Take(bytes)
    BY <1>5, <1>13
  <2>2. CASE Len(bytes) < HEADER /\ buffer' = bytes /\ UNCHANGED <<received, closed>>
    <3>1. Len(bytes) < Total(first)
      BY <1>9, <1>12, <1>13, <2>2
    <3>2. QED BY <1>17, <2>2, <3>1
  <2>3. CASE ~IsAccepted(first) /\ closed' = TRUE /\ buffer' = <<>> /\ UNCHANGED received
    BY <1>18, <2>3
  <2>4. CASE /\ Len(bytes) \in HEADER .. Total(first) - 1
             /\ buffer' = bytes /\ UNCHANGED <<received, closed>>
    <3>1. Len(bytes) < Total(first)
      BY <1>9, <2>4
    <3>2. QED BY <1>17, <2>4, <3>1
  <2>5. CASE /\ Len(bytes) = Total(first) /\ IsAccepted(first)
             /\ received' = Append(received, first) /\ buffer' = <<>> /\ UNCHANGED closed
    BY <1>19, <2>5
  <2>6. QED BY <1>16, <2>1, <2>2, <2>3, <2>4, <2>5 DEF Take
<1>21. /\ stream' \in Seq(MessageBytes) /\ Len(stream') <= Len(stream)
       /\ buffer' \in Seq(MessageBytes)
  <2>1. Len(stream') <= Len(stream)
    BY <1>4, <1>12, <1>14
  <2>2. buffer' = <<>> \/ buffer' = bytes
    BY <1>5, <1>13 DEF Take
  <2>3. <<>> \in Seq(MessageBytes)
    OBVIOUS
  <2>4. QED BY <1>13, <1>14, <2>1, <2>2, <2>3
<1>22. QED BY <1>1, <1>7, <1>8, <1>20, <1>21

\* A message received whole is one that was sent, and the sender is done with it.
LEMMA CompleteWasSent ==
  ASSUME sent \in Seq(Messages), received \in Seq(Messages), NEW begun \in Seq(Messages),
         NEW done \in Nat, Begun(begun, done), Len(received) < Len(begun),
         Len(received) + 1 = Len(begun) => InTransit = done,
         InTransit >= Total(begun[Len(received) + 1])
  PROVE  /\ Len(received) + 1 <= Len(sent)
         /\ sent[Len(received) + 1] = begun[Len(received) + 1]
         /\ ~ended /\ Sending => Len(received) + 1 < Len(sent)
<1>1. PICK r \in Nat, n \in Nat : r = Len(received) /\ n = Len(begun) /\ r < n
  OBVIOUS
<1>2. r + 1 \in 1 .. n /\ Total(begun[r + 1]) \in Nat
  <2>1. r + 1 \in 1 .. n
    BY <1>1
  <2>2. begun[r + 1] \in Messages
    BY <1>1, <2>1
  <2>3. QED BY <2>1, <2>2, Totals
<1>3. CASE begun = sent /\ (sent # <<>> => done = written)
  <2>1. sent # <<>> /\ done = written
    BY <1>1, <1>3
  <2>2. ASSUME Sending PROVE r + 1 # n
    <3>1. SUFFICES ASSUME r + 1 = n PROVE FALSE
      OBVIOUS
    <3>2. InTransit = done /\ InTransit >= Total(begun[n])
      BY <1>1, <3>1
    <3>3. done < Total(begun[n])
      BY <1>1, <1>3, <2>1, <2>2 DEF Sending, Current
    <3>4. Total(begun[n]) \in Nat
      BY <1>2, <3>1
    <3>5. QED BY <3>2, <3>3, <3>4
  <2>3. QED BY <1>1, <1>3, <2>2
<1>4. CASE /\ ended /\ begun # <<>>
           /\ sent = SubSeq(begun, 1, Len(begun) - 1) /\ done < Total(begun[Len(begun)])
  <2>1. r + 1 # n
    <3>1. SUFFICES ASSUME r + 1 = n PROVE FALSE
      OBVIOUS
    <3>2. InTransit = done /\ InTransit >= Total(begun[n]) /\ done < Total(begun[n])
      BY <1>1, <1>4, <3>1
    <3>3. Total(begun[n]) \in Nat
      BY <1>2, <3>1
    <3>4. QED BY <3>2, <3>3
  <2>2. PICK z \in Nat, p \in Nat : z = 0 /\ p = n - 1 /\ r + 1 <= p
    BY <1>1, <2>1
  <2>3. /\ Len(SubSeq(begun, z + 1, p)) = p - z
        /\ \A i \in 1 .. p - z : SubSeq(begun, z + 1, p)[i] = begun[z + i]
    <3>1. z <= p /\ p <= Len(begun)
      BY <1>1, <2>2
    <3>2. QED BY ONLY begun \in Seq(Messages), z \in Nat, p \in Nat, <3>1, Cutting
  <2>4. z + 1 = 1 /\ p - z = p /\ r + 1 \in 1 .. p - z /\ z + (r + 1) = r + 1
    BY <2>2
  <2>5. sent = SubSeq(begun, z + 1, p)
    BY <1>1, <1>4, <2>2, <2>4
  <2>6. Len(sent) = p
    BY <2>3, <2>4, <2>5
  <2>7. sent[r + 1] = begun[r + 1]
    BY <2>3, <2>4, <2>5
  <2>8. QED BY <1>1, <1>4, <2>2, <2>6, <2>7
<1>5. QED BY <1>3, <1>4 DEF Begun

\* What was on its way stays so when the receiver has more of a message.
LEMMA MoreKeeps ==
  ASSUME PInv, UNCHANGED sender, ~closed, buffer' \in Seq(MessageBytes),
         NEW begun \in Seq(Messages), NEW done \in Nat, NEW start \in Starts(begun),
         Begun(begun, done), Flows(begun, done, start), Len(received) < Len(begun),
         More(begun[Len(received) + 1])
  PROVE  Behind' /\ Partial' /\ Flowing'
<1>1. /\ received' = received /\ closed' = closed /\ sent' = sent /\ written' = written
      /\ ended' = ended
  BY DEF More, sender
<1>2. Behind'
  BY <1>1 DEF PInv, Behind, Sending, Current
<1>3. received \in Seq(Messages) /\ InTransit \in Nat
  BY DEF PInv, Kept, InTransit
<1>4. PICK first \in Messages : first = begun[Len(received) + 1]
  BY <1>3
<1>5. /\ Len(buffer') < HEADER \/ Len(buffer') < Total(first)
      /\ \A i \in 1 .. Len(buffer') : buffer'[i] = <<first, i>>
      /\ InTransit' = InTransit /\ \A x \in 1 .. InTransit : Byte(x)' = Byte(x)
  BY <1>4 DEF More
<1>6. Partial'
  <2>1. CASE Len(buffer') < HEADER
    BY <1>1, <2>1 DEF Partial, Wanted, InHeader
  <2>2. CASE ~(Len(buffer') < HEADER)
    <3>1. 1 \in 1 .. Len(buffer')
      BY <2>2, Totals
    <3>2. buffer'[1] = <<first, 1>>
      BY <1>5, <3>1
    <3>3. Header(buffer') = first
      BY <3>2 DEF Header
    <3>4. QED BY <1>1, <1>5, <2>2, <3>3 DEF Partial, Wanted, InHeader
  <2>3. QED BY <2>1, <2>2
<1>7. Begun(begun, done)'
  BY <1>1 DEF Begun, Sending, Current
<1>8. PICK r \in Nat, n \in Nat : r = Len(received) /\ n = Len(begun)
  BY <1>3
<1>9. /\ r <= n
      /\ \A j \in 1 .. n + 1 : start[j] \in Int
      /\ start[r + 1] = 0
      /\ \A j, h \in 1 .. n + 1 : j <= h => start[j] <= start[h]
  BY <1>3, <1>8, FlowFacts
<1>10. ASSUME NEW j \in r + 1 .. n, NEW i \in 1 .. Total(begun[j]), start[j] + i <= InTransit
       PROVE  Byte(start[j] + i)' = <<begun[j], i>>
  <2>1. j \in 1 .. n /\ j \in 1 .. n + 1 /\ r + 1 \in 1 .. n + 1
    BY <1>8, <1>9
  <2>2. start[j] \in Int /\ start[j] >= 0
    BY <1>9, <2>1
  <2>3. Total(begun[j]) \in Nat
    <3>1. begun[j] \in Messages
      BY <1>8, <2>1
    <3>2. QED BY <3>1, Totals
  <2>4. start[j] + i \in 1 .. InTransit
    BY <1>3, <1>10, <2>2, <2>3
  <2>5. Byte(start[j] + i) = <<begun[j], i>>
    BY <1>8, <1>10 DEF Flows
  <2>6. QED BY <1>5, <2>4, <2>5
<1>11. Flows(begun, done, start)'
  BY <1>1, <1>5, <1>8, <1>10 DEF Flows, Placed
<1>12. QED BY <1>2, <1>6, <1>7, <1>11 DEF Flowing

\* Places are counted from the next message once one is received.
LEMMA CompleteKeeps ==
  ASSUME PInv, UNCHANGED sender, ~closed,
         NEW begun \in Seq(Messages), NEW done \in Nat, NEW start \in Starts(begun),
         Begun(begun, done), Flows(begun, done, start), Len(received) < Len(begun),
         Len(received) + 1 = Len(begun) => InTransit = done,
         Complete(begun[Len(received) + 1])
  PROVE  received' \in Seq(Messages) /\ Behind' /\ Partial' /\ Flowing'
<1>1. /\ closed' = closed /\ sent' = sent /\ written' = written /\ ended' = ended
      /\ buffer' = <<>>
  BY DEF Complete, sender
<1>2. received \in Seq(Messages) /\ sent \in Seq(Messages) /\ InTransit \in Nat
  BY DEF PInv, Kept, InTransit
<1>3. PICK first \in Messages : first = begun[Len(received) + 1]
  BY <1>2
<1>4. PICK T \in Nat : T = Total(first)
  BY Totals
<1>5. /\ received' = Append(received, first)
      /\ InTransit >= T /\ InTransit' = InTransit - T
      /\ \A x \in 1 .. InTransit' : Byte(x)' = Byte(x + T)
  BY <1>3, <1>4 DEF Complete
<1>6. PICK r \in Nat, n \in Nat : r = Len(received) /\ n = Len(begun) /\ r < n
  BY <1>2
<1>7. received' \in Seq(Messages) /\ Len(received') = r + 1
  <2>1. \A t : t = Append(received, first) => t \in Seq(Messages) /\ Len(t) = Len(received) + 1
    BY <1>2
  <2>2. QED BY <1>5, <1>6, <2>1
<1>8. /\ r + 1 <= Len(sent) /\ (~ended /\ Sending => r + 1 < Len(sent))
  BY <1>2, <1>3, <1>4, <1>5, <1>6, CompleteWasSent
<1>9. Behind'
  <2>1. Len(received') <= Len(sent')
    BY <1>1, <1>7, <1>8
  <2>2. (~ended /\ Sending => Len(received) < Len(sent))'
    BY <1>1, <1>7, <1>8 DEF Sending, Current
  <2>3. (~ended /\ sent # <<>> => written <= Total(Current))'
    BY <1>1 DEF PInv, Behind, Current
  <2>4. QED BY <2>1, <2>2, <2>3 DEF Behind
<1>10. Partial'
  BY <1>1 DEF Partial
<1>11. Begun(begun, done)'
  BY <1>1 DEF Begun, Sending, Current
<1>12. /\ \A j \in 1 .. n + 1 : start[j] \in Int
       /\ start[r + 1] = 0
       /\ \A j \in 1 .. n : start[j + 1] = start[j] + Total(begun[j])
       /\ \A j, h \in 1 .. n + 1 : j <= h => start[j] <= start[h]
  BY <1>2, <1>6, FlowFacts
<1>13. \A j \in 1 .. n : begun[j] \in Messages /\ Total(begun[j]) \in Nat
  BY <1>6, Totals
<1>14. start[r + 2] = T
  <2>1. r + 1 \in 1 .. n /\ (r + 1) + 1 = r + 2
    BY <1>6
  <2>2. start[(r + 1) + 1] = start[r + 1] + Total(begun[r + 1])
    BY <1>12, <2>1
  <2>3. Total(begun[r + 1]) = T
    BY <1>3, <1>4, <1>6
  <2>4. QED BY <1>12, <2>1, <2>2, <2>3
<1>15. PICK moved \in Starts(begun) : \A j \in 1 .. n + 1 : moved[j] = start[j] - T
  <2> DEFINE f == [j \in 1 .. n + 1 |-> start[j] - T]
  <2>1. f \in [1 .. n + 1 -> Int] /\ \A j \in 1 .. n + 1 : f[j] = start[j] - T
    BY <1>12
  <2> HIDE DEF f
  <2>2. QED BY <1>6, <2>1 DEF Starts
<1>16. Placed(begun, moved)'
  <2>1. moved[Len(received') + 1] = 0
    <3>1. r + 2 \in 1 .. n + 1 /\ Len(received') + 1 = r + 2
      BY <1>6, <1>7
    <3>2. moved[r + 2] = start[r + 2] - T
      BY <1>15, <3>1
    <3>3. QED BY <1>14, <3>1, <3>2
  <2>2. ASSUME NEW j \in 1 .. Len(begun)
        PROVE  moved[j + 1] = moved[j] + Total(begun[j])
    <3>1. j \in 1 .. n /\ j \in 1 .. n + 1 /\ j + 1 \in 1 .. n + 1
      BY <1>6
    <3>2. /\ moved[j + 1] = start[j + 1] - T /\ moved[j] = start[j] - T
          /\ start[j + 1] = start[j] + Total(begun[j])
      BY <1>12, <1>15, <3>1
    <3>3. start[j] \in Int /\ Total(begun[j]) \in Nat
      BY <1>12, <1>13, <3>1
    <3>4. QED BY ONLY <3>2, <3>3, T \in Nat
  <2>3. ASSUME NEW j \in 1 .. Len(begun) + 1, NEW h \in 1 .. Len(begun) + 1, j <= h
        PROVE  moved[j] <= moved[h]
    <3>1. j \in 1 .. n + 1 /\ h \in 1 .. n + 1
      BY <1>6
    <3>2. moved[j] = start[j] - T /\ moved[h] = start[h] - T /\ start[j] <= start[h]
      BY <1>12, <1>15, <2>3, <3>1
    <3>3. start[j] \in Int /\ start[h] \in Int
      BY <1>12, <3>1
    <3>4. QED BY ONLY <3>2, <3>3, T \in Nat
  <2>4. QED BY <2>1, <2>2, <2>3 DEF Placed
<1>17. ASSUME NEW j \in r + 2 .. n, NEW i \in 1 .. Total(begun[j]), moved[j] + i <= InTransit'
       PROVE  Byte(moved[j] + i)' = <<begun[j], i>>
  <2>1. j \in 1 .. n /\ j \in 1 .. n + 1 /\ r + 2 \in 1 .. n + 1 /\ j \in r + 1 .. n
    BY <1>6
  <2>2. PICK a \in Int : a = start[j] /\ a >= T
    <3>1. r + 2 <= j /\ start[j] \in Int /\ start[r + 2] = T
      BY <1>12, <1>14, <2>1
    <3>2. start[r + 2] <= start[j]
      BY <1>12, <2>1, <3>1
    <3>3. QED BY ONLY <3>1, <3>2, T \in Nat
  <2>3. moved[j] = a - T
    BY <1>15, <2>1, <2>2
  <2>4. i \in Nat /\ i >= 1
    BY <1>13, <2>1
  <2>5. PICK x \in Int : x = (a - T) + i /\ x >= 1 /\ x + T = a + i
    BY <2>2, <2>4
  <2>6. x \in 1 .. InTransit' /\ a + i <= InTransit
    <3>1. PICK it \in Int : it = InTransit /\ InTransit' = it - T
      BY <1>2, <1>5
    <3>2. x <= it - T
      BY <1>17, <2>3, <2>5, <3>1
    <3>3. QED BY <2>5, <3>1, <3>2
  <2>7. Byte(x)' = Byte(x + T)
    BY <1>5, <2>6
  <2>8. Byte(a + i) = <<begun[j], i>>
    BY <1>6, <2>1, <2>2, <2>6 DEF Flows
  <2>9. QED BY <2>3, <2>5, <2>7, <2>8
<1>18. Flows(begun, done, moved)'
  <2>1. begun # <<>> /\ n \in 1 .. n + 1
    BY <1>6
  <2>2. done \in 0 .. Total(begun[Len(begun)]) /\ InTransit = start[n] + done
    BY <1>6, <2>1 DEF Flows
  <2>3. InTransit' = moved[n] + done
    <3>1. start[n] \in Int /\ moved[n] = start[n] - T
      BY <1>12, <1>15, <2>1
    <3>2. QED BY <1>5, <2>2, <3>1
  <2>4. Len(received') <= Len(begun) /\ Len(received') + 1 = r + 2
    BY <1>6, <1>7
  <2>5. QED BY <1>6, <1>16, <1>17, <2>1, <2>2, <2>3, <2>4 DEF Flows
<1>19. QED BY <1>7, <1>9, <1>10, <1>11, <1>18 DEF Flowing

\* Receiving keeps PInv.
LEMMA ReceiveKeeps ==
  ASSUME PInv, Receive
  PROVE  PInv'
<1>1. /\ UNCHANGED sender /\ ~closed
      /\ stream' \in Seq(MessageBytes) /\ Len(stream') <= Len(stream)
      /\ buffer' \in Seq(MessageBytes)
  BY ReceiveCases
<1>2. PICK begun \in Seq(Messages), done \in Nat :
        /\ Begun(begun, done)
        /\ Len(received) < Len(begun)
        /\ Len(received) + 1 = Len(begun) => InTransit = done
        /\ \E start \in Starts(begun) : Flows(begun, done, start)
        /\ \/ More(begun[Len(received) + 1])
           \/ Refused(begun[Len(received) + 1])
           \/ Complete(begun[Len(received) + 1])
  BY ReceiveCases
<1>3. PICK start \in Starts(begun) : Flows(begun, done, start)
  BY <1>2
<1>4. Kept
  BY DEF PInv
<1>5. ASSUME received' \in Seq(Messages), closed' \in BOOLEAN
      PROVE  Kept'
  <2>1. Len(stream') <= BUFFER
    <3>1. Len(stream) \in Nat /\ Len(stream') \in Nat /\ BUFFER \in Nat /\ Len(stream) <= BUFFER
      BY <1>1, <1>4, ProtocolAssumption DEF Kept
    <3>2. QED BY <1>1, <3>1
  <2>2. QED BY <1>1, <1>4, <1>5, <2>1 DEF Kept, sender
<1>6. CASE More(begun[Len(received) + 1])
  <2>1. Behind' /\ Partial' /\ Flowing'
    BY <1>1, <1>2, <1>3, <1>6, MoreKeeps
  <2>2. Kept'
    BY <1>4, <1>5, <1>6 DEF Kept, More
  <2>3. QED BY <2>1, <2>2 DEF PInv
<1>7. CASE Refused(begun[Len(received) + 1])
  <2>1. Kept'
    BY <1>4, <1>5, <1>7 DEF Kept, Refused
  <2>2. Behind'
    BY <1>1, <1>7 DEF PInv, Behind, Refused, Sending, Current, sender
  <2>3. Partial' /\ closed'
    BY <1>7 DEF Refused, Partial
  <2>4. QED BY <2>1, <2>2, <2>3 DEF PInv
<1>8. CASE Complete(begun[Len(received) + 1])
  <2>1. received' \in Seq(Messages) /\ Behind' /\ Partial' /\ Flowing'
    BY <1>1, <1>2, <1>3, <1>8, CompleteKeeps
  <2>2. Kept'
    BY <1>4, <1>5, <1>8, <2>1 DEF Kept, Complete
  <2>3. QED BY <2>1, <2>2 DEF PInv
<1>9. QED BY <1>2, <1>6, <1>7, <1>8

-----------------------------------------------------------------------------
(* Every behaviour.                                                        *)

\* Every step keeps PInv.
LEMMA PInvStep == PInv /\ [Next]_vars => PInv'
<1> SUFFICES ASSUME PInv, [Next]_vars PROVE PInv'
  OBVIOUS
<1>1. CASE \E m \in Messages : SendMessage(m)
  BY <1>1, SendMessageKeeps
<1>2. CASE Send
  BY <1>2, SendKeeps
<1>3. CASE Leave
  BY <1>3, LeaveKeeps
<1>4. CASE Receive
  BY <1>4, ReceiveKeeps
<1>5. CASE ReceiveEnd
  <2>1. /\ closed' = TRUE /\ buffer' = <<>>
        /\ UNCHANGED <<sent, written, ended, stream, received>>
    BY <1>5 DEF ReceiveEnd, sender
  <2>2. <<>> \in Seq(MessageBytes)
    OBVIOUS
  <2>3. Kept'
    BY <2>1, <2>2 DEF PInv, Kept
  <2>4. Behind' /\ Partial'
    BY <2>1 DEF PInv, Behind, Partial, Sending, Current
  <2>5. QED BY <2>1, <2>3, <2>4 DEF PInv
<1>6. CASE UNCHANGED vars
  <2>1. UNCHANGED <<sent, written, ended, stream, buffer, received, closed>>
    BY <1>6 DEF vars, sender, receiver
  <2>2. Kept' /\ Behind' /\ Partial'
    BY <2>1 DEF PInv, Kept, Behind, Partial, Sending, Current, Wanted, InHeader
  <2>3. ASSUME ~closed' PROVE Flowing'
    <3>1. PICK begun \in Seq(Messages), done \in Nat :
            Begun(begun, done) /\ \E start \in Starts(begun) : Flows(begun, done, start)
      BY <2>1, <2>3 DEF PInv, Flowing
    <3>2. PICK start \in Starts(begun) : Flows(begun, done, start)
      BY <3>1
    <3>3. Begun(begun, done)'
      BY <2>1, <3>1 DEF Begun, Sending, Current
    <3>4. Flows(begun, done, start)'
      BY <2>1, <3>2 DEF Flows, Placed, InTransit, Byte
    <3>5. QED BY <3>3, <3>4 DEF Flowing
  <2>4. QED BY <2>2, <2>3 DEF PInv
<1>7. QED BY <1>1, <1>2, <1>3, <1>4, <1>5, <1>6 DEF Next

\* PInv is an invariant.
LEMMA AlwaysP == Spec => []PInv
<1>1. Init => PInv
  BY InitPInv
<1>2. PInv /\ [Next]_vars => PInv'
  BY PInvStep
<1>3. QED BY <1>1, <1>2, PTL DEF Spec

\* What is on its way, and what is received, are bytes of messages and messages;
\* and never more bytes than the kernel holds.
THEOREM MessagesTyped == Spec => []TypeOK
<1>1. PInv => TypeOK
  <2> SUFFICES ASSUME PInv PROVE TypeOK
    OBVIOUS
  <2>1. Kept
    BY DEF PInv
  <2>2. ASSUME NEW s \in {stream, buffer}, NEW k \in DOMAIN s
        PROVE  s[k] \in Messages \X (Nat \ {0})
    BY <2>1 DEF Kept, MessageBytes
  <2>3. QED BY <2>1, <2>2 DEF Kept, TypeOK
<1>2. QED BY <1>1, AlwaysP, PTL

-----------------------------------------------------------------------------
(* The channel: its queue is what is sent and not received.                *)

\* The queue after the first r of s, element by element.
LEMMA QueueOf ==
  ASSUME NEW S, NEW s \in Seq(S), NEW r \in Nat, r <= Len(s),
         NEW q, q = SubSeq(s, r + 1, Len(s))
  PROVE  /\ q \in Seq(S) /\ Len(q) = Len(s) - r
         /\ \A i \in 1 .. Len(s) - r : q[i] = s[r + i]
<1>1. Len(s) \in Nat
  OBVIOUS
<1>2. QED BY <1>1, Cutting

\* Sending puts a message at the end of the queue.
LEMMA QueuePut ==
  ASSUME NEW S, NEW s \in Seq(S), NEW m \in S, NEW r \in Nat, r <= Len(s),
         NEW t, t = Append(s, m)
  PROVE  SubSeq(t, r + 1, Len(t)) = Append(SubSeq(s, r + 1, Len(s)), m)
<1>1. /\ t \in Seq(S) /\ Len(t) = Len(s) + 1
      /\ \A i \in 1 .. Len(s) : t[i] = s[i]
      /\ t[Len(s) + 1] = m
  BY Appending
<1>2. PICK n \in Nat : n = Len(s)
  OBVIOUS
<1>3. PICK q : q = SubSeq(s, r + 1, Len(s))
  OBVIOUS
<1>4. q \in Seq(S) /\ Len(q) = n - r /\ \A i \in 1 .. n - r : q[i] = s[r + i]
  BY <1>2, <1>3, QueueOf
<1>5. PICK p : p = SubSeq(t, r + 1, Len(t))
  OBVIOUS
<1>6. /\ p \in Seq(S) /\ Len(p) = (n + 1) - r
      /\ \A i \in 1 .. (n + 1) - r : p[i] = t[r + i]
  <2>1. r <= Len(t)
    BY <1>1, <1>2
  <2>2. p \in Seq(S) /\ Len(p) = Len(t) - r /\ \A i \in 1 .. Len(t) - r : p[i] = t[r + i]
    <3>1. t \in Seq(S)
      BY <1>1
    <3>2. QED BY ONLY <1>5, <2>1, <3>1, r \in Nat, QueueOf
  <2>3. QED BY <1>1, <1>2, <2>2
<1>7. PICK x : x = Append(q, m)
  OBVIOUS
<1>8. /\ x \in Seq(S) /\ Len(x) = (n - r) + 1
      /\ \A i \in 1 .. n - r : x[i] = q[i]
      /\ x[(n - r) + 1] = m
  <2>1. /\ x \in Seq(S) /\ Len(x) = Len(q) + 1
        /\ \A i \in 1 .. Len(q) : x[i] = q[i]
        /\ x[Len(q) + 1] = m
    <3>1. q \in Seq(S)
      BY <1>4
    <3>2. QED BY ONLY <1>7, <3>1, m \in S, Appending
  <2>2. QED BY <1>4, <2>1
<1>9. Len(p) = Len(x)
  BY <1>2, <1>6, <1>8
<1>10. ASSUME NEW i \in 1 .. Len(p) PROVE p[i] = x[i]
  <2>1. i \in 1 .. (n + 1) - r /\ p[i] = t[r + i]
    BY <1>6
  <2>2. CASE i \in 1 .. n - r
    <3>1. r + i \in 1 .. n
      BY <2>2
    <3>2. QED BY <1>1, <1>2, <1>4, <1>8, <2>1, <2>2, <3>1
  <2>3. CASE i \notin 1 .. n - r
    <3>1. i = (n - r) + 1 /\ r + i = n + 1
      BY <1>2, <2>1, <2>3
    <3>2. QED BY <1>1, <1>2, <1>8, <2>1, <3>1
  <2>4. QED BY <2>2, <2>3
<1>11. p = x
  BY <1>6, <1>8, <1>9, <1>10, SeqEqual
<1>12. QED BY <1>3, <1>5, <1>7, <1>11

\* Receiving takes the first.
LEMMA QueueTake ==
  ASSUME NEW S, NEW s \in Seq(S), NEW r \in Nat, r < Len(s),
         NEW q, q = SubSeq(s, r + 1, Len(s))
  PROVE  q # <<>> /\ Head(q) = s[r + 1] /\ Tail(q) = SubSeq(s, (r + 1) + 1, Len(s))
<1>1. PICK n \in Nat, a \in Nat : n = Len(s) /\ a = r + 1 /\ a <= n
  OBVIOUS
<1>2. Head(SubSeq(s, a, n)) = s[a] /\ Tail(SubSeq(s, a, n)) = SubSeq(s, a + 1, n)
  <2>1. a \in 1 .. Len(s) /\ n \in a .. Len(s)
    BY <1>1
  <2>2. QED BY ONLY <2>1, s \in Seq(S), HeadTailOfSubSeq
<1>3. Len(q) = n - r
  <2>1. r <= Len(s)
    BY <1>1
  <2>2. Len(q) = Len(s) - r
    BY ONLY <2>1, s \in Seq(S), r \in Nat, q = SubSeq(s, r + 1, Len(s)), QueueOf
  <2>3. QED BY <1>1, <2>2
<1>4. q # <<>>
  BY <1>1, <1>3
<1>5. q = SubSeq(s, a, n)
  BY <1>1
<1>6. Head(q) = s[a] /\ Tail(q) = SubSeq(s, a + 1, n)
  BY ONLY <1>2, <1>5
<1>7. QED BY ONLY <1>1, <1>4, <1>6

\* A sender that dies in a message takes it from the end of the queue.
LEMMA QueueLeave ==
  ASSUME NEW s \in Seq(Messages), NEW r \in Nat, r < Len(s),
         NEW q, q = SubSeq(s, r + 1, Len(s)), NEW t, t = SubSeq(s, 1, Len(s) - 1),
         NEW p, p = SubSeq(t, r + 1, Len(t))
  PROVE  q # <<>> /\ p = SubSeq(q, 1, Len(q) - 1)
<1>1. PICK n \in Nat : n = Len(s) - 1 /\ r <= n /\ Len(s) = n + 1
  <2>1. Len(s) \in Nat
    OBVIOUS
  <2>2. Len(s) - 1 \in Nat /\ r <= Len(s) - 1 /\ Len(s) = (Len(s) - 1) + 1
    BY <2>1
  <2>3. QED BY <2>2
<1>2. /\ q \in Seq(Messages) /\ Len(q) = (n + 1) - r
      /\ \A i \in 1 .. (n + 1) - r : q[i] = s[r + i]
  BY <1>1, QueueOf
<1>3. PICK zero \in Nat : zero = 0
  OBVIOUS
<1>4. t \in Seq(Messages) /\ Len(t) = n /\ \A i \in 1 .. n : t[i] = s[i]
  <2>1. zero <= n /\ n <= Len(s) /\ t = SubSeq(s, zero + 1, n) /\ n - zero = n
    BY <1>1, <1>3
  <2>2. /\ SubSeq(s, zero + 1, n) \in Seq(Messages) /\ Len(SubSeq(s, zero + 1, n)) = n - zero
        /\ \A i \in 1 .. n - zero : SubSeq(s, zero + 1, n)[i] = s[zero + i]
    BY <2>1, Cutting
  <2>3. \A i \in 1 .. n : zero + i = i
    BY <1>3
  <2>4. QED BY <2>1, <2>2, <2>3
<1>6. p \in Seq(Messages) /\ Len(p) = n - r /\ \A i \in 1 .. n - r : p[i] = t[r + i]
  <2>1. t \in Seq(Messages) /\ r <= Len(t)
    BY <1>1, <1>4
  <2>2. p \in Seq(Messages) /\ Len(p) = Len(t) - r /\ \A i \in 1 .. Len(t) - r : p[i] = t[r + i]
    BY ONLY p = SubSeq(t, r + 1, Len(t)), <2>1, r \in Nat, QueueOf
  <2>3. QED BY <1>4, <2>2
<1>7. PICK h \in Nat : h = n - r /\ h <= Len(q) /\ Len(q) - 1 = h
  <2>1. Len(q) = (n + 1) - r
    BY <1>2
  <2>2. n - r \in Nat /\ n - r <= (n + 1) - r /\ ((n + 1) - r) - 1 = n - r
    BY <1>1
  <2>3. QED BY <2>1, <2>2
<1>8. PICK x : x = SubSeq(q, 1, Len(q) - 1)
  OBVIOUS
<1>9. x \in Seq(Messages) /\ Len(x) = h /\ \A i \in 1 .. h : x[i] = q[i]
  <2>1. zero <= h /\ x = SubSeq(q, zero + 1, h) /\ h - zero = h
    BY <1>3, <1>7, <1>8
  <2>2. /\ SubSeq(q, zero + 1, h) \in Seq(Messages) /\ Len(SubSeq(q, zero + 1, h)) = h - zero
        /\ \A i \in 1 .. h - zero : SubSeq(q, zero + 1, h)[i] = q[zero + i]
    BY <1>2, <1>7, <2>1, Cutting
  <2>3. \A i \in 1 .. h : zero + i = i
    BY <1>3
  <2>4. QED BY <2>1, <2>2, <2>3
<1>10. ASSUME NEW i \in 1 .. Len(p) PROVE p[i] = x[i]
  <2>1. i \in 1 .. n - r /\ i \in 1 .. h /\ r + i \in 1 .. n /\ i \in 1 .. (n + 1) - r
    BY <1>1, <1>6, <1>7
  <2>2. p[i] = t[r + i] /\ t[r + i] = s[r + i] /\ x[i] = q[i] /\ q[i] = s[r + i]
    BY <1>2, <1>4, <1>6, <1>9, <2>1
  <2>3. QED BY <2>2
<1>11. p = x
  <2>1. Len(p) = Len(x) /\ p \in Seq(Messages) /\ x \in Seq(Messages)
    BY <1>6, <1>7, <1>9
  <2>2. QED BY ONLY <1>10, <2>1, SeqEqual
<1>12. q # <<>>
  <2>1. Len(q) # 0
    BY <1>1, <1>2
  <2>2. QED BY ONLY <2>1
<1>13. QED BY <1>8, <1>11, <1>12, Zenon

\* What Connection calls queue: sent and not received.
Queue == SubSeq(sent, Len(received) + 1, Len(sent))

\* A step of the sender is a step of the channel, or none.
LEMMA SenderSteps ==
  ASSUME PInv, PInv'
  PROVE  /\ \A m \in Messages : SendMessage(m) => Connection!Put(m)
         /\ Send => UNCHANGED Connection!vars
         /\ Leave => Connection!Leave
<1>1. Kept /\ Behind
  BY DEF PInv
<1>2. sent \in Seq(Messages) /\ received \in Seq(Messages)
  BY <1>1 DEF Kept
<1>3. PICK r \in Nat : r = Len(received) /\ r <= Len(sent)
  BY <1>1, <1>2 DEF Behind
<1>4. ASSUME NEW m \in Messages, SendMessage(m)
      PROVE  Connection!Put(m)
  <2>1. /\ ~ended /\ sent' = Append(sent, m)
        /\ UNCHANGED <<ended, received, closed>>
    BY <1>4 DEF SendMessage, receiver
  <2>2. PICK s \in Seq(Messages) : s = sent
    BY <1>2
  <2>2a. PICK t : t = sent'
    OBVIOUS
  <2>3. SubSeq(t, r + 1, Len(t)) = Append(SubSeq(s, r + 1, Len(s)), m)
    <3>1. t = Append(s, m) /\ r <= Len(s)
      BY <1>3, <2>1, <2>2, <2>2a
    <3>2. QED BY ONLY <3>1, s \in Seq(Messages), m \in Messages, r \in Nat, QueuePut
  <2>4. Queue' = Append(Queue, m)
    BY <1>3, <2>1, <2>2, <2>2a, <2>3 DEF Queue
  <2>5. QED BY <2>1, <2>4 DEF Connection!Put, Queue
<1>5. ASSUME Send PROVE UNCHANGED Connection!vars
  BY <1>5 DEF Send, receiver, Connection!vars
<1>6. ASSUME Leave PROVE Connection!Leave
  <2>1. /\ ~ended /\ ended' = TRUE
        /\ sent' = IF Sending THEN SubSeq(sent, 1, Len(sent) - 1) ELSE sent
        /\ UNCHANGED <<received, closed>>
    BY <1>6 DEF Leave, receiver
  <2>2. CASE ~Sending
    <3>1. Queue' = Queue
      BY <2>1, <2>2 DEF Queue
    <3>2. QED BY <2>1, <3>1 DEF Connection!Leave, Queue
  <2>3. CASE Sending
    <3>1. r < Len(sent)
      BY <1>1, <1>3, <2>1, <2>3 DEF Behind
    <3>2. PICK s, t, q, p :
            /\ s \in Seq(Messages)
            /\ s = sent /\ t = sent' /\ q = Queue /\ p = SubSeq(t, r + 1, Len(t))
      BY <1>2
    <3>3. s \in Seq(Messages)
      BY <3>2
    <3>4. q = SubSeq(s, r + 1, Len(s)) /\ t = SubSeq(s, 1, Len(s) - 1) /\ r < Len(s)
      BY <1>3, <2>1, <2>3, <3>1, <3>2 DEF Queue
    <3>5. q # <<>> /\ p = SubSeq(q, 1, Len(q) - 1)
      BY ONLY <3>2, <3>3, <3>4, r \in Nat, QueueLeave
    <3>6. Queue # <<>> /\ Queue' = SubSeq(Queue, 1, Len(Queue) - 1)
      BY <1>3, <2>1, <3>2, <3>5 DEF Queue
    <3>7. QED BY <2>1, <3>6 DEF Connection!Leave, Queue
  <2>4. QED BY <2>2, <2>3
<1>7. QED BY <1>4, <1>5, <1>6

\* The message the receiver is at is the first of the queue, unless the sender
\* left in it.
LEMMA FirstOfQueue ==
  ASSUME sent \in Seq(Messages), received \in Seq(Messages), NEW begun \in Seq(Messages),
         NEW done \in Nat, Begun(begun, done), Len(received) < Len(begun)
  PROVE  IF Len(received) < Len(sent)
         THEN /\ Queue # <<>> /\ Head(Queue) = begun[Len(received) + 1]
              /\ Tail(Queue) = SubSeq(sent, (Len(received) + 1) + 1, Len(sent))
         ELSE ended
<1>1. PICK r \in Nat, n \in Nat : r = Len(received) /\ n = Len(begun) /\ r < n
  OBVIOUS
<1>2. ASSUME r < Len(sent)
      PROVE  /\ Queue # <<>> /\ Head(Queue) = sent[r + 1]
             /\ Tail(Queue) = SubSeq(sent, (r + 1) + 1, Len(sent))
  <2>1. PICK s \in Seq(Messages) : s = sent
    OBVIOUS
  <2>1a. PICK q : q = Queue /\ q = SubSeq(s, r + 1, Len(s))
    BY <1>1, <2>1 DEF Queue
  <2>2. q # <<>> /\ Head(q) = s[r + 1] /\ Tail(q) = SubSeq(s, (r + 1) + 1, Len(s))
    <3>1. r < Len(s) /\ q = SubSeq(s, r + 1, Len(s))
      BY <1>2, <2>1, <2>1a
    <3>2. QED BY ONLY <3>1, s \in Seq(Messages), r \in Nat, QueueTake
  <2>3. QED BY ONLY <2>1, <2>1a, <2>2
<1>3. ASSUME r < Len(sent) PROVE sent[r + 1] = begun[r + 1]
  <2>1. CASE begun = sent
    BY <2>1
  <2>2. CASE begun # <<>> /\ sent = SubSeq(begun, 1, Len(begun) - 1)
    <3>1. PICK z \in Nat, p \in Nat : z = 0 /\ p = n - 1 /\ p <= n
      BY <1>1
    <3>2. /\ Len(SubSeq(begun, z + 1, p)) = p - z
          /\ \A i \in 1 .. p - z : SubSeq(begun, z + 1, p)[i] = begun[z + i]
      <4>1. z <= p /\ p <= Len(begun)
        BY <1>1, <3>1
      <4>2. QED BY ONLY begun \in Seq(Messages), z \in Nat, p \in Nat, <4>1, Cutting
    <3>3. sent = SubSeq(begun, z + 1, p)
      BY <1>1, <2>2, <3>1
    <3>4. Len(sent) = p /\ \A i \in 1 .. p : sent[i] = begun[z + i]
      <4>1. p - z = p
        BY <3>1
      <4>2. QED BY ONLY <3>2, <3>3, <4>1
    <3>5. r + 1 \in 1 .. p /\ z + (r + 1) = r + 1
      BY <1>3, <3>1, <3>4
    <3>6. QED BY ONLY <3>4, <3>5
  <2>3. QED BY <2>1, <2>2 DEF Begun
<1>4. ASSUME ~(r < Len(sent)) PROVE ended
  <2>1. begun # sent
    BY <1>1, <1>4
  <2>2. QED BY <2>1 DEF Begun
<1>5. QED BY <1>1, <1>2, <1>3, <1>4

\* There is no queue without one of its messages.
LEMMA QueueIsEmpty ==
  ASSUME sent \in Seq(Messages), received \in Seq(Messages), ~(Len(received) < Len(sent)),
         Len(received) <= Len(sent)
  PROVE  Queue = <<>>
<1>1. Len(sent) < Len(received) + 1
  OBVIOUS
<1>2. QED BY <1>1, SubSeqEmpty DEF Queue

\* What the receiver wants is not more than the message it is at.
LEMMA WantedIsLess ==
  ASSUME buffer \in Seq(MessageBytes), buffer # <<>>, NEW first \in Messages, Byte(1) = <<first, 1>>
  PROVE  Wanted \in Nat /\ Wanted <= Total(first)
<1>1. Total(first) \in Nat /\ HEADER \in Nat /\ Total(first) >= HEADER
  BY Totals
<1>2. buffer[1] = <<first, 1>>
  <2>1. 1 <= Len(buffer)
    OBVIOUS
  <2>2. QED BY <2>1 DEF Byte
<1>3. Header(buffer) = first
  BY <1>2 DEF Header
<1>4. Wanted = HEADER \/ Wanted = Total(first)
  BY <1>3 DEF Wanted
<1>5. QED BY <1>1, <1>4

\* At the end of the stream everything sent is received.
LEMMA EndOfStream ==
  ASSUME PInv, ~closed, ended, stream = <<>>
  PROVE  ~(Len(received) < Len(sent))
<1>1. Kept /\ Partial /\ Flowing
  BY DEF PInv
<1>2. /\ sent \in Seq(Messages) /\ received \in Seq(Messages) /\ buffer \in Seq(MessageBytes)
      /\ written \in Nat
  BY <1>1 DEF Kept
<1>3. SUFFICES ASSUME Len(received) < Len(sent) PROVE FALSE
  OBVIOUS
<1>4. PICK begun \in Seq(Messages), done \in Nat :
        Begun(begun, done) /\ \E start \in Starts(begun) : Flows(begun, done, start)
  BY <1>1 DEF Flowing
<1>5. PICK start \in Starts(begun) : Flows(begun, done, start)
  BY <1>4
<1>6. PICK n \in Nat, r \in Nat : n = Len(begun) /\ r = Len(received)
  BY <1>2
<1>7. /\ r <= n
      /\ \A j \in 1 .. n + 1 : start[j] \in Int
      /\ start[r + 1] = 0
      /\ \A j \in 1 .. n : start[j + 1] = start[j] + Total(begun[j])
      /\ \A j, h \in 1 .. n + 1 : j <= h => start[j] <= start[h]
  BY <1>2, <1>5, <1>6, FlowFacts
<1>8. InTransit = Len(buffer)
  BY <1>2 DEF InTransit
<1>9. r < n /\ (r + 1 < n \/ done = Total(begun[n]))
  <2>1. CASE begun = sent /\ (sent # <<>> => done = written) /\ ~Sending
    <3>1. r < n /\ sent # <<>> /\ n \in 1 .. n
      BY <1>2, <1>3, <1>6, <2>1
    <3>2. ~(done < Total(begun[n]))
      BY <1>6, <2>1, <3>1 DEF Sending, Current
    <3>3. done \in 0 .. Total(begun[n])
      BY <1>5, <1>6, <2>1, <3>1 DEF Flows
    <3>4. Total(begun[n]) \in Nat
      BY <1>6, <3>1, Totals
    <3>5. QED BY <3>1, <3>2, <3>3, <3>4
  <2>2. CASE begun # <<>> /\ sent = SubSeq(begun, 1, Len(begun) - 1)
    <3>1. n # 0
      BY <1>6, <2>2
    <3>2. PICK z \in Nat, p \in Nat : z = 0 /\ p = n - 1
      BY <3>1
    <3>3. Len(SubSeq(begun, z + 1, p)) = p - z
      <4>1. z <= p /\ p <= Len(begun)
        BY <1>6, <3>2
      <4>2. QED BY ONLY begun \in Seq(Messages), z \in Nat, p \in Nat, <4>1, Cutting
    <3>4. sent = SubSeq(begun, z + 1, p)
      BY <1>6, <2>2, <3>2
    <3>5. Len(sent) = p - z
      BY ONLY <3>3, <3>4
    <3>6. QED BY <1>3, <1>6, <3>2, <3>5
  <2>3. QED BY <1>4, <2>1, <2>2 DEF Begun
<1>10. PICK first \in Messages : first = begun[r + 1]
  BY <1>6, <1>9
<1>11. Total(first) \in Nat /\ Total(first) > 0
  BY Totals
<1>12. start[r + 2] = Total(first)
  <2>1. r + 1 \in 1 .. n /\ (r + 1) + 1 = r + 2
    BY <1>6, <1>9
  <2>2. start[(r + 1) + 1] = start[r + 1] + Total(begun[r + 1])
    BY <1>7, <2>1
  <2>3. QED BY <1>7, <1>10, <1>11, <2>1, <2>2
<1>13. n \in 1 .. n + 1 /\ n \in 1 .. n /\ InTransit = start[n] + done
  <2>1. n \in 1 .. n + 1 /\ n \in 1 .. n /\ begun # <<>>
    BY <1>6, <1>9
  <2>2. InTransit = start[n] + done
    BY <1>5, <1>6, <2>1 DEF Flows
  <2>3. QED BY <2>1, <2>2
<1>14. InTransit >= Total(first)
  <2>1. CASE r + 1 < n
    <3>1. r + 2 \in 1 .. n + 1 /\ r + 2 <= n
      BY <2>1
    <3>2. start[r + 2] <= start[n] /\ start[n] \in Int
      BY <1>7, <1>13, <3>1
    <3>3. QED BY <1>11, <1>12, <1>13, <3>2
  <2>2. CASE ~(r + 1 < n)
    <3>1. r + 1 = n
      BY <1>9, <2>2
    <3>2. done = Total(first) /\ start[n] = 0
      BY <1>7, <1>9, <1>10, <2>2, <3>1
    <3>3. QED BY <1>11, <1>13, <3>2
  <2>3. QED BY <2>1, <2>2
<1>15. buffer # <<>>
  BY <1>8, <1>11, <1>14
<1>16. Byte(1) = <<first, 1>>
  <2>1. InTransit > 0
    BY <1>2, <1>8, <1>15
  <2>2. r + 1 \in r + 1 .. n /\ 1 \in 1 .. Total(first)
    BY <1>9, <1>11
  <2>3. start[r + 1] + 1 <= InTransit => Byte(start[r + 1] + 1) = <<begun[r + 1], 1>>
    BY <1>5, <1>6, <1>10, <2>2 DEF Flows
  <2>4. start[r + 1] + 1 = 1 /\ 1 <= InTransit
    BY <1>2, <1>7, <1>8, <2>1
  <2>5. QED BY <1>10, <2>3, <2>4
<1>17. Wanted \in Nat /\ Wanted <= Total(first)
  BY <1>2, <1>15, <1>16, WantedIsLess
<1>18. Len(buffer) < Wanted
  BY <1>1, <1>15 DEF Partial
<1>19. QED BY <1>2, <1>8, <1>11, <1>14, <1>17, <1>18

\* A step of the receiver is a step of the channel, or none.
LEMMA ReceiverSteps ==
  ASSUME PInv, PInv'
  PROVE  /\ Receive => Connection!Take \/ Connection!GiveUp \/ UNCHANGED Connection!vars
         /\ ReceiveEnd => Connection!GiveUp
<1>1. Kept /\ Behind
  BY DEF PInv
<1>2. sent \in Seq(Messages) /\ received \in Seq(Messages)
  BY <1>1 DEF Kept
<1>3. PICK r \in Nat : r = Len(received) /\ r <= Len(sent)
  BY <1>1, <1>2 DEF Behind
<1>4. ASSUME Receive
      PROVE  Connection!Take \/ Connection!GiveUp \/ UNCHANGED Connection!vars
  <2>1. UNCHANGED sender /\ ~closed
    BY <1>4, ReceiveCases
  <2>2. PICK begun \in Seq(Messages), done \in Nat :
          /\ Begun(begun, done)
          /\ Len(received) < Len(begun)
          /\ Len(received) + 1 = Len(begun) => InTransit = done
          /\ \/ More(begun[Len(received) + 1])
             \/ Refused(begun[Len(received) + 1])
             \/ Complete(begun[Len(received) + 1])
    BY <1>4, ReceiveCases
  <2>3. PICK first \in Messages : first = begun[Len(received) + 1]
    BY <1>2, <2>2
  <2>4. sent' = sent /\ ended' = ended
    BY <2>1 DEF sender
  <2>5. IF Len(received) < Len(sent)
        THEN /\ Queue # <<>> /\ Head(Queue) = first
             /\ Tail(Queue) = SubSeq(sent, (Len(received) + 1) + 1, Len(sent))
        ELSE ended
    BY <1>2, <2>2, <2>3, FirstOfQueue
  <2>6. CASE More(first)
    BY <2>4, <2>6 DEF More, Connection!vars
  <2>7. CASE Refused(first)
    <3>1. ~IsAccepted(first) /\ closed' = TRUE /\ received' = received
      BY <2>7 DEF Refused
    <3>2. Queue' = Queue
      BY <2>4, <3>1 DEF Queue
    <3>3. IF Queue = <<>> THEN ended ELSE Head(Queue) \notin {m \in Messages : IsAccepted(m)}
      <4>1. CASE Len(received) < Len(sent)
        BY <2>5, <3>1, <4>1
      <4>2. CASE ~(Len(received) < Len(sent))
        BY <1>2, <1>3, <2>5, <4>2, QueueIsEmpty
      <4>3. QED BY <4>1, <4>2
    <3>4. QED BY <2>1, <2>4, <3>1, <3>2, <3>3 DEF Connection!GiveUp, Queue
  <2>8. CASE Complete(first)
    <3>1. /\ IsAccepted(first) /\ received' = Append(received, first) /\ closed' = closed
          /\ InTransit >= Total(first)
      BY <2>8 DEF Complete
    <3>2. Len(received) < Len(sent)
      <4>1. Len(received) + 1 <= Len(sent)
        BY <1>2, <2>2, <2>3, <3>1, CompleteWasSent
      <4>2. QED BY <1>2, <4>1
    <3>3. Len(received') = Len(received) + 1
      BY <1>2, <3>1
    <3>4. Queue' = Tail(Queue)
      BY <2>4, <2>5, <3>2, <3>3 DEF Queue
    <3>5. Queue # <<>> /\ Head(Queue) = first /\ Head(Queue) \in {m \in Messages : IsAccepted(m)}
      BY <2>5, <3>1, <3>2
    <3>6. QED BY <2>1, <2>4, <3>1, <3>4, <3>5 DEF Connection!Take, Queue
  <2>9. QED BY <2>2, <2>3, <2>6, <2>7, <2>8
<1>5. ASSUME ReceiveEnd PROVE Connection!GiveUp
  <2>1. /\ ~closed /\ stream = <<>> /\ ended /\ closed' = TRUE
        /\ sent' = sent /\ received' = received /\ ended' = ended
    BY <1>5 DEF ReceiveEnd, sender
  <2>2. Queue = <<>>
    BY <1>2, <1>3, <2>1, EndOfStream, QueueIsEmpty
  <2>3. Queue' = Queue
    BY <2>1 DEF Queue
  <2>4. QED BY <2>1, <2>2, <2>3 DEF Connection!GiveUp, Queue
<1>6. QED BY <1>4, <1>5

\* The receiver gets whole messages, each once and in order, however the kernel
\* cuts the stream and wherever the sender dies: the protocol implements the
\* channel.
THEOREM StreamIsChannel == Spec => IsChannel
<1>1. Init => Connection!Init
  <2> SUFFICES ASSUME Init PROVE Connection!Init
    OBVIOUS
  <2>1. sent = <<>> /\ received = <<>> /\ ended = FALSE /\ closed = FALSE
    BY DEF Init
  <2>2. sent \in Seq(Messages) /\ received \in Seq(Messages)
    BY <2>1
  <2>3. Queue = <<>>
    BY <2>1, <2>2, QueueIsEmpty
  <2>4. QED BY <2>1, <2>3 DEF Connection!Init, Queue
<1>2. PInv /\ PInv' /\ [Next]_vars => [Connection!Next]_(Connection!vars)
  <2> SUFFICES ASSUME PInv, PInv', [Next]_vars
               PROVE  Connection!Next \/ UNCHANGED Connection!vars
    OBVIOUS
  <2>1. CASE \E m \in Messages : SendMessage(m)
    BY <2>1, SenderSteps DEF Connection!Next
  <2>2. CASE Send
    BY <2>2, SenderSteps
  <2>3. CASE Leave
    BY <2>3, SenderSteps DEF Connection!Next
  <2>4. CASE Receive
    BY <2>4, ReceiverSteps DEF Connection!Next
  <2>5. CASE ReceiveEnd
    BY <2>5, ReceiverSteps DEF Connection!Next
  <2>6. CASE UNCHANGED vars
    BY <2>6 DEF vars, sender, receiver, Connection!vars
  <2>7. QED BY <2>1, <2>2, <2>3, <2>4, <2>5, <2>6 DEF Next
<1>3. QED BY <1>1, <1>2, AlwaysP, PTL DEF Spec, IsChannel, Connection!Spec
=============================================================================
