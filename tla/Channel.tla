-------------------------------- MODULE Channel --------------------------------
(***************************************************************************)
(* What a connection promises, as modules Lavagna and Utente use it: whole *)
(* messages, each once and in order, up to the end.                        *)
(***************************************************************************)
EXTENDS Integers, Sequences

CONSTANTS Messages,  \* what can be sent
          Accepted   \* what the receiver accepts

VARIABLES queue,   \* sent, not yet received
          taken,   \* received
          ended,   \* the sender has closed or died
          closed   \* the receiver has closed

vars == <<queue, taken, ended, closed>>

Init == queue = <<>> /\ taken = <<>> /\ ended = FALSE /\ closed = FALSE

Put(m) == /\ ~ended
          /\ queue' = Append(queue, m)
          /\ UNCHANGED <<taken, ended, closed>>

Take == /\ ~closed
        /\ queue # <<>>
        /\ Head(queue) \in Accepted
        /\ queue' = Tail(queue)
        /\ taken' = Append(taken, Head(queue))
        /\ UNCHANGED <<ended, closed>>

\* The receiver closes on what it does not accept, or at the end.
GiveUp == /\ ~closed
           /\ IF queue = <<>> THEN ended ELSE Head(queue) \notin Accepted
           /\ closed' = TRUE
           /\ UNCHANGED <<queue, taken, ended>>

\* The sender closes, or dies and with it its last message.
Leave == /\ ~ended
         /\ ended' = TRUE
         /\ \/ UNCHANGED queue
            \/ queue # <<>> /\ queue' = SubSeq(queue, 1, Len(queue) - 1)
         /\ UNCHANGED <<taken, closed>>

Next == (\E m \in Messages : Put(m)) \/ Take \/ GiveUp \/ Leave

Spec == Init /\ [][Next]_vars
=============================================================================
