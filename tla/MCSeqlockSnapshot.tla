-------------------------- MODULE MCSeqlockSnapshot ---------------------------
(***************************************************************************)
(* The instance of SeqlockSnapshot that TLC checks: two of the threads     *)
(* that read, and an AudioSnapshot cut into the fewest words that can tear.*)
(* The readers are not declared symmetric: ReadReturns is a liveness       *)
(* property.                                                               *)
(***************************************************************************)
EXTENDS SeqlockSnapshot

MCReaders == {"render", "osc"}
MCWords == {"head", "tail"}
===============================================================================
