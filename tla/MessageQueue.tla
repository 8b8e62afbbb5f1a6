---------------------------- MODULE MessageQueue ----------------------------
(***************************************************************************)
(* What hdl/rtl/async_msg_fifo.vhd promises the decoder and the registers  *)
(* on its two sides, whatever its two clocks do: a queue of bounded depth  *)
(* that may refuse a message but never loses, repeats, reorders or alters  *)
(* one it took, until it is reset.                                         *)
(***************************************************************************)
EXTENDS Integers, Sequences

CONSTANTS Data,     \* messages
          Depth

VARIABLES queue,    \* the messages taken and not yet delivered
          delivered \* the last message delivered

vars == <<queue, delivered>>

Init == queue = <<>>

(* A message may be delivered while another is taken. *)
Move(took, gave) ==
  /\ gave => queue # <<>> /\ delivered' = Head(queue)
  /\ ~gave => UNCHANGED delivered
  /\ LET left == IF gave THEN Tail(queue) ELSE queue
     IN queue' = left \o took
  /\ Len(queue') <= Depth

Reset == queue' = <<>> /\ UNCHANGED delivered

Next ==
  \/ \E took \in {<<>>} \cup {<<d>> : d \in Data}, gave \in BOOLEAN : Move(took, gave)
  \/ Reset

Spec == Init /\ [][Next]_vars
=============================================================================
