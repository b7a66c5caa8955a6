--------------------------- MODULE SnapshotRegister ---------------------------
(***************************************************************************)
(* What the snapshot channel of Listeningway promises its readers: a       *)
(* register that holds the number of the last published AudioSnapshot.     *)
(* A read that succeeds returns, in one step, the snapshot that is current *)
(* at that step.  A read that gives up returns a mixture whose words were  *)
(* each either the default, or published, or on the way to be published.   *)
(***************************************************************************)
EXTENDS Naturals

CONSTANTS
  Readers,   (* the threads that call read()                            *)
  Words      (* the machine words memcpy moves an AudioSnapshot by      *)

VARIABLES
  current,   (* number of the last snapshot published, 0 for none       *)
  result,    (* what the last read() of each reader returned            *)
  good       (* whether that read() succeeded                           *)

regVars == <<current, result, good>>

(* The payload of snapshot n: every word of it carries the number n.      *)
Payload(n) == [w \in Words |-> n]

RegInit ==
  /\ current = 0
  /\ result = [r \in Readers |-> Payload(0)]
  /\ good = [r \in Readers |-> TRUE]

RegPublish ==
  /\ current' = current + 1
  /\ UNCHANGED <<result, good>>

RegRead(r) ==
  /\ result' = [result EXCEPT ![r] = Payload(current)]
  /\ good' = [good EXCEPT ![r] = TRUE]
  /\ UNCHANGED current

RegGiveUp(r) ==
  /\ \E mixture \in [Words -> 0 .. current + 1] :
        result' = [result EXCEPT ![r] = mixture]
  /\ good' = [good EXCEPT ![r] = FALSE]
  /\ UNCHANGED current

RegNext ==
  \/ RegPublish
  \/ \E r \in Readers : RegRead(r) \/ RegGiveUp(r)

RegSpec == RegInit /\ [][RegNext]_regVars
===============================================================================
