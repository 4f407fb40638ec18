----------------------------- MODULE ByteStream ------------------------------
(* What a direction of a proxied connection promises, as TCP does: the        *)
(* receiver reads the sender's chunks once each, in order and without a gap,  *)
(* as far as the connection lasts, and a clean end only behind the last one.  *)
(* Chunk k is the number k.                                                   *)
EXTENDS Naturals, Sequences

VARIABLES sent,    \* chunks the sender has sent
          closed,  \* the sender has closed its side: there are no more
          rcvd,    \* chunks the receiver has read, in the order it read them
          end      \* the end it has read: "none" so far, "eof" or "reset"

Init == sent = 0 /\ closed = FALSE /\ rcvd = <<>> /\ end = "none"

Send  == ~closed /\ sent' = sent + 1 /\ UNCHANGED <<closed, rcvd, end>>
Close == ~closed /\ closed' = TRUE /\ UNCHANGED <<sent, rcvd, end>>

Receive == /\ end = "none" /\ Len(rcvd) < sent
           /\ rcvd' = Append(rcvd, Len(rcvd) + 1)
           /\ UNCHANGED <<sent, closed, end>>
ReadEof == /\ end = "none" /\ closed /\ Len(rcvd) = sent
           /\ end' = "eof"
           /\ UNCHANGED <<sent, closed, rcvd>>

\* The connection may break at any time; what was on its way is not read.
Break == /\ end = "none" /\ end' = "reset"
         /\ UNCHANGED <<sent, closed, rcvd>>

Next == Send \/ Close \/ Receive \/ ReadEof \/ Break
Spec == Init /\ [][Next]_<<sent, closed, rcvd, end>>
==============================================================================
