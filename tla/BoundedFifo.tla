---------------------------- MODULE BoundedFifo ----------------------------
(***************************************************************************)
(* What a message queue of pgos promises its users: a FIFO of at most      *)
(* Depth messages.  A message is put at the tail or taken from the head;   *)
(* nothing is lost, duplicated or overtaken.                               *)
(***************************************************************************)
EXTENDS Naturals, Sequences

CONSTANTS Msgs, Depth

VARIABLES fifo,       \* messages put and not yet taken
          delivered   \* messages taken, in the order they were taken

Init == fifo = <<>> /\ delivered = <<>>

Put == /\ Len(fifo) < Depth
       /\ \E m \in Msgs : fifo' = Append(fifo, m)
       /\ UNCHANGED delivered

Take == /\ fifo # <<>>
        /\ delivered' = Append(delivered, Head(fifo))
        /\ fifo' = Tail(fifo)

Next == Put \/ Take

Spec == Init /\ [][Next]_<<fifo, delivered>>
=============================================================================
