--------------------------- MODULE FragmentQueue ----------------------------
(***************************************************************************)
(* What MediaTrack promises its users: a bounded first-in first-out queue  *)
(* that hands every fragment it accepted to the pipeline, exactly once and *)
(* in the order of the presentation.                                       *)
(***************************************************************************)
EXTENDS Naturals, Sequences

CONSTANTS Capacity, Last

VARIABLES
  cached,      (* numbers of the fragments accepted and not yet handed on  *)
  delivered    (* numbers of the fragments handed to the pipeline          *)

queueVars == <<cached, delivered>>

QueueInit == cached = <<>> /\ delivered = <<>>

(* The fragment after the last one accepted is accepted.                   *)
Accept ==
  /\ Len(cached) < Capacity
  /\ Len(delivered) + Len(cached) < Last
  /\ cached' = Append(cached, Len(delivered) + Len(cached) + 1)
  /\ UNCHANGED delivered

Deliver ==
  /\ cached # <<>>
  /\ delivered' = Append(delivered, Head(cached))
  /\ cached' = Tail(cached)

QueueNext == Accept \/ Deliver

QueueSpec == QueueInit /\ [][QueueNext]_queueVars
=============================================================================
