----------------------------- MODULE FrameChannel -----------------------------
(***************************************************************************)
(* What the capture thread and the DSP thread may rely on: a first-in      *)
(* first-out channel with Capacity places.  The frame in the hands of the  *)
(* DSP thread still occupies its place.  A frame is refused only when all  *)
(* places are taken, and a frame that was accepted is neither lost, nor    *)
(* duplicated, nor overtaken, nor altered.                                 *)
(***************************************************************************)
EXTENDS Naturals, Sequences

CONSTANT Capacity   (* capacity_chunks, 64 in AudioSystem *)

VARIABLES
  offered,  (* frames offered so far; frame n is the n-th of them         *)
  inFlight, (* accepted frames not yet taken, oldest first                *)
  busy,     (* whether the DSP thread works on a frame                    *)
  delivered (* the last frame it took, 0 for none                         *)

chanVars == <<offered, inFlight, busy, delivered>>

Occupied == Len(inFlight) + (IF busy THEN 1 ELSE 0)

ChanInit ==
  /\ offered = 0
  /\ inFlight = <<>>
  /\ busy = FALSE
  /\ delivered = 0

Accept ==
  /\ Occupied < Capacity
  /\ offered' = offered + 1
  /\ inFlight' = Append(inFlight, offered + 1)
  /\ UNCHANGED <<busy, delivered>>

Refuse ==
  /\ Occupied = Capacity
  /\ offered' = offered + 1
  /\ UNCHANGED <<inFlight, busy, delivered>>

Take ==
  /\ ~busy
  /\ inFlight # <<>>
  /\ busy' = TRUE
  /\ delivered' = Head(inFlight)
  /\ inFlight' = Tail(inFlight)
  /\ UNCHANGED offered

Finish ==
  /\ busy
  /\ busy' = FALSE
  /\ UNCHANGED <<offered, inFlight, delivered>>

ChanNext == Accept \/ Refuse \/ Take \/ Finish

ChanSpec == ChanInit /\ [][ChanNext]_chanVars
===============================================================================
