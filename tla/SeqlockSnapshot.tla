--------------------------- MODULE SeqlockSnapshot ----------------------------
(***************************************************************************)
(* SeqlockSnapshot (src/audio/snapshot/seqlock_snapshot.h): one writer,    *)
(* the DSP thread, publishes an AudioSnapshot under a sequence counter;    *)
(* any number of readers copy it out and retry a bounded number of times.  *)
(*                                                                         *)
(* memcpy is not atomic: it moves one word per step, in any order, and the *)
(* steps of the writer and of the readers interleave.  The fences of the   *)
(* code order the counter against the payload, so the interleaving of the  *)
(* steps below is what a reader can observe.                               *)
(***************************************************************************)
EXTENDS Naturals

CONSTANTS
  Readers,    (* threads calling read(): render, OSC, OpenRGB            *)
  Words,      (* words of an AudioSnapshot                               *)
  MaxSpin,    (* kMaxSpin, the attempts a read() makes                   *)
  MaxPublish  (* bound: snapshots published in a behaviour               *)

ASSUME MaxSpinAssumption == MaxSpin \in Nat \ {0}
ASSUME MaxPublishAssumption == MaxPublish \in Nat

VARIABLES
  seq,        (* seq_                                                    *)
  data,       (* data_, word by word: the number of the publish it is of *)
  toWrite,    (* words the writer's memcpy has still to store            *)
  pc,         (* where each reader is in read()                          *)
  spin,       (* failed or running attempts of its loop                  *)
  s1,         (* the counter it saw before copying                       *)
  out,        (* its local copy                                          *)
  toCopy,     (* words its memcpy has still to load                      *)
  result,     (* what its last read() returned                           *)
  good        (* whether that was by "return out;  // consistent"        *)

writerVars == <<seq, data, toWrite>>
readerVars == <<pc, spin, s1, out, toCopy, result, good>>
vars == <<writerVars, readerVars>>

Payload(n) == [w \in Words |-> n]

(* The snapshot that the even counter value s stands for.                 *)
SnapshotNumber(s) == s \div 2

Odd(s) == s % 2 = 1

Init ==
  /\ seq = 0
  /\ data = Payload(0)
  /\ toWrite = {}
  /\ pc = [r \in Readers |-> "idle"]
  /\ spin = [r \in Readers |-> 0]
  /\ s1 = [r \in Readers |-> 0]
  /\ out = [r \in Readers |-> Payload(0)]
  /\ toCopy = [r \in Readers |-> {}]
  /\ result = [r \in Readers |-> Payload(0)]
  /\ good = [r \in Readers |-> TRUE]

-------------------------------------------------------------------------------
(* The writer: publish().                                                 *)

(* The counter becomes odd before the payload is touched.                 *)
BeginPublish ==
  /\ ~Odd(seq)
  /\ SnapshotNumber(seq) < MaxPublish
  /\ seq' = seq + 1
  /\ toWrite' = Words
  /\ UNCHANGED <<data, readerVars>>

(* One word of the writer's memcpy.                                       *)
StoreWord ==
  /\ Odd(seq)
  /\ \E w \in toWrite :
        /\ data' = [data EXCEPT ![w] = SnapshotNumber(seq) + 1]
        /\ toWrite' = toWrite \ {w}
  /\ UNCHANGED <<seq, readerVars>>

(* A mutant of EndPublish: the second store overtakes the memcpy.         *)
EndPublishEarly ==
  /\ Odd(seq)
  /\ seq' = seq + 1
  /\ UNCHANGED <<data, toWrite, readerVars>>

(* The counter becomes even, two above where it started.                  *)
EndPublish ==
  /\ Odd(seq)
  /\ toWrite = {}
  /\ seq' = seq + 1
  /\ UNCHANGED <<data, toWrite, readerVars>>

-------------------------------------------------------------------------------
(* A reader: read().                                                      *)

(* spin and out are 0 and all default here: Return left them so.          *)
BeginRead(r) ==
  /\ pc[r] = "idle"
  /\ pc' = [pc EXCEPT ![r] = "attempt"]
  /\ UNCHANGED <<writerVars, spin, s1, out, toCopy, result, good>>

(* A mutant of SeeOdd: the attempt does not count towards kMaxSpin.       *)
SeeOddForFree(r) ==
  /\ pc[r] = "attempt"
  /\ spin[r] < MaxSpin
  /\ Odd(seq)
  /\ UNCHANGED vars

(* "if (s1 & 1u) continue": the writer is in its memcpy.                  *)
SeeOdd(r) ==
  /\ pc[r] = "attempt"
  /\ spin[r] < MaxSpin
  /\ Odd(seq)
  /\ spin' = [spin EXCEPT ![r] = @ + 1]
  /\ UNCHANGED <<writerVars, pc, s1, out, toCopy, result, good>>

SeeEven(r) ==
  /\ pc[r] = "attempt"
  /\ spin[r] < MaxSpin
  /\ ~Odd(seq)
  /\ s1' = [s1 EXCEPT ![r] = seq]
  /\ pc' = [pc EXCEPT ![r] = "copy"]
  /\ toCopy' = [toCopy EXCEPT ![r] = Words]
  /\ UNCHANGED <<writerVars, spin, out, result, good>>

(* One word of the reader's memcpy.                                       *)
LoadWord(r) ==
  /\ pc[r] = "copy"
  /\ \E w \in toCopy[r] :
        /\ out' = [out EXCEPT ![r] = [@ EXCEPT ![w] = data[w]]]
        /\ toCopy' = [toCopy EXCEPT ![r] = @ \ {w}]
  /\ UNCHANGED <<writerVars, pc, spin, s1, result, good>>

(* read() returns its local copy; its locals go out of scope.             *)
Return(r, success) ==
  /\ result' = [result EXCEPT ![r] = out[r]]
  /\ good' = [good EXCEPT ![r] = success]
  /\ pc' = [pc EXCEPT ![r] = "idle"]
  /\ spin' = [spin EXCEPT ![r] = 0]
  /\ s1' = [s1 EXCEPT ![r] = 0]
  /\ out' = [out EXCEPT ![r] = Payload(0)]
  /\ UNCHANGED <<writerVars, toCopy>>

(* A mutant of Confirm: the counter is not compared again.                *)
ConfirmBlindly(r) ==
  /\ pc[r] = "copy"
  /\ toCopy[r] = {}
  /\ Return(r, TRUE)

(* "if (s1 == s2) return out;  // consistent".                            *)
Confirm(r) ==
  /\ pc[r] = "copy"
  /\ toCopy[r] = {}
  /\ s1[r] = seq
  /\ Return(r, TRUE)

(* The counter moved while the reader copied: next turn of the loop.      *)
Retry(r) ==
  /\ pc[r] = "copy"
  /\ toCopy[r] = {}
  /\ s1[r] # seq
  /\ spin' = [spin EXCEPT ![r] = @ + 1]
  /\ s1' = [s1 EXCEPT ![r] = 0]
  /\ pc' = [pc EXCEPT ![r] = "attempt"]
  /\ UNCHANGED <<writerVars, out, toCopy, result, good>>

(* The loop is over: the last partial copy, or the zero default, goes out.*)
GiveUp(r) ==
  /\ pc[r] = "attempt"
  /\ spin[r] = MaxSpin
  /\ Return(r, FALSE)

-------------------------------------------------------------------------------
Writer == BeginPublish \/ StoreWord \/ EndPublish

(* The steps of a read() that has begun.                                  *)
ReadStep(r) ==
  SeeOdd(r) \/ SeeEven(r) \/ LoadWord(r) \/ Confirm(r) \/ Retry(r) \/ GiveUp(r)

Next == Writer \/ \E r \in Readers : BeginRead(r) \/ ReadStep(r)

(* A reader's thread keeps running once it called read().  Nothing is     *)
(* assumed of the writer: it may stop for ever in the middle of a publish.*)
Fairness == \A r \in Readers : WF_vars(ReadStep(r))

Spec == Init /\ [][Next]_vars /\ Fairness

-------------------------------------------------------------------------------
(* Properties                                                             *)

TypeOK ==
  /\ seq \in Nat
  /\ data \in [Words -> Nat]
  /\ toWrite \subseteq Words
  /\ pc \in [Readers -> {"idle", "attempt", "copy"}]
  /\ spin \in [Readers -> 0 .. MaxSpin]
  /\ s1 \in [Readers -> Nat]
  /\ out \in [Readers -> [Words -> Nat]]
  /\ toCopy \in [Readers -> SUBSET Words]
  /\ result \in [Readers -> [Words -> Nat]]
  /\ good \in [Readers -> BOOLEAN]

(* All words of a copy come from one publish (or all from none).          *)
Whole(copy) == \A v, w \in Words : copy[v] = copy[w]

(* A read() that returned through "s1 == s2" is never torn: its words all *)
(* come from the same publish, however the two memcpys interleaved.       *)
GoodReadsAreWhole == \A r \in Readers : good[r] => Whole(result[r])

(* While the counter is even the payload is the snapshot it stands for;   *)
(* while it is odd the words not yet stored still carry the previous one. *)
CounterDescribesPayload ==
  \A w \in Words :
    data[w] = IF Odd(seq) /\ w \notin toWrite
              THEN SnapshotNumber(seq) + 1
              ELSE SnapshotNumber(seq)

(* What a reader copied so far is the snapshot of its s1, as long as the  *)
(* counter still shows s1; an attempt that copies has not been counted.   *)
CopyMatchesCounter ==
  \A r \in Readers :
    pc[r] = "copy" =>
      /\ spin[r] < MaxSpin
      /\ ~Odd(s1[r])
      /\ s1[r] <= seq
      /\ s1[r] = seq =>
           \A w \in Words \ toCopy[r] : out[r][w] = SnapshotNumber(seq)

(* No reader holds a word newer than the publish under way.               *)
NothingFromTheFuture ==
  \A r \in Readers, w \in Words : out[r][w] <= SnapshotNumber(seq) + 1

(* The invariant that makes GoodReadsAreWhole inductive.                  *)
SeqlockInv ==
  /\ TypeOK
  /\ ~Odd(seq) => toWrite = {}
  /\ CounterDescribesPayload
  /\ CopyMatchesCounter
  /\ NothingFromTheFuture
  /\ GoodReadsAreWhole

(* The register of SnapshotRegister, its current value read off seq_.     *)
Register ==
  INSTANCE SnapshotRegister WITH current <- SnapshotNumber(seq)

(* The seqlock implements the register: a successful read() takes effect  *)
(* at its second load of the counter and returns the snapshot current     *)
(* then, so successive reads of one thread never go back in time; and a   *)
(* read() that gave up shows no word newer than the publish under way.    *)
ImplementsRegister == Register!RegSpec

(* read() is bounded: it returns even if the writer never moves again     *)
(* half way through a publish (the counter then stays odd).               *)
ReadReturns == \A r \in Readers : (pc[r] # "idle") ~> (pc[r] = "idle")
===============================================================================
