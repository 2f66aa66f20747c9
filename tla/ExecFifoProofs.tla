--------------------------- MODULE ExecFifoProofs ---------------------------
(***************************************************************************)
(* Proofs about ExecFifo, for any set of starters, killed or not.  The     *)
(* argument counts the one byte init writes: it is not yet written, in the *)
(* pipe, lost, or read by exactly one starter, and only a starter that has *)
(* read it removes the fifo and reports success.                           *)
(***************************************************************************)
EXTENDS ExecFifo, TLAPS

IInv ==
  /\ TypeOK
  /\ init \in {"setup", "opening", "writing"} => wrote = "no"
  /\ wrote = "no" => buf = 0 /\ \A s \in Starters : got[s] = 0
  /\ buf = 1 => \A s \in Starters : got[s] = 0
  /\ \A s, t \in Starters : got[s] = 1 /\ got[t] = 1 => s = t
  /\ \A s \in Starters : main[s] \in {"remove", "ok"} => got[s] = 1
  /\ \A s \in Starters : main[s] = "ok" => path = "absent"

(* What becomes of the byte once init has written it: while init lives, a  *)
(* starter has it, one was killed, or it is in the pipe of a starter that  *)
(* has opened the fifo.                                                    *)
CameFor(s) == main[s] = "killed" \/ got[s] = 1 \/ (buf = 1 /\ opener[s] = "open")

RInv ==
  /\ \A s \in Starters : main[s] \in {"idle", "checked"} => opener[s] = "none"
  /\ init \in WriterPcs => \A s \in Starters : opener[s] # "blocked"
  /\ init # "dead" => \A s \in Starters : main[s] # "rereading"
  /\ init \in {"closing", "hooks", "user"} => \E s \in Starters : CameFor(s)

(* The initial state satisfies the invariant.                              *)
LEMMA InitIInv == Init => IInv
BY DEF Init, IInv, TypeOK, InitPcs, StarterPcs, StarterDone

(* A step of init preserves it.                                            *)
LEMMA InitStepIInv == IInv /\ (InitStep \/ InitDies) => IInv'
<1> SUFFICES ASSUME IInv, InitStep \/ InitDies PROVE IInv'
  OBVIOUS
<1> USE DEF IInv, TypeOK, InitPcs
<1>1. CASE InitOpen
  BY <1>1 DEF InitOpen, Woken
<1>2. CASE InitWrite
  BY <1>2 DEF InitWrite
<1>3. CASE InitClose
  BY <1>3 DEF InitClose, KeepBuffer
<1>4. CASE InitExec
  BY <1>4 DEF InitExec
<1>5. CASE InitDies
  BY <1>5 DEF InitDies, KeepBuffer
<1>6. QED
  BY <1>1, <1>2, <1>3, <1>4, <1>5 DEF InitStep

(* A step of a starter, or its death, preserves it.                        *)
LEMMA StartStepIInv ==
  ASSUME NEW s \in Starters, IInv, StartStep(s) \/ StartKilled(s)
  PROVE  IInv'
<1> USE DEF IInv, TypeOK, StarterPcs, StarterDone
<1>1. CASE StartCheck(s)
  BY <1>1 DEF StartCheck
<1>2. CASE StartOpen(s)
  BY <1>2 DEF StartOpen, InitPcs
<1>3. CASE StartOpened(s)
  BY <1>3 DEF StartOpened
<1>4. CASE StartTimeout(s)
  BY <1>4 DEF StartTimeout, KeepBuffer
<1>5. CASE StartRead(s)
  <2>1. buf = 1 /\ buf' = 0 /\ wrote = "yes"
    BY <1>5 DEF StartRead
  <2>2. \A t \in Starters : got[t] = 0
    BY <2>1
  <2>3. got'[s] = 1 /\ got' \in [Starters -> 0..1]
        /\ \A t \in Starters : t # s => got'[t] = 0
    BY <1>5, <2>2 DEF StartRead
  <2>4. QED
    BY <1>5, <2>1, <2>3 DEF StartRead
<1>6. CASE StartEOF(s)
  BY <1>6 DEF StartEOF, KeepBuffer
<1>7. CASE StartRemove(s)
  BY <1>7 DEF StartRemove, KeepBuffer
<1>8. CASE StartKilled(s)
  BY <1>8 DEF StartKilled, KeepBuffer
<1>9. QED
  BY <1>1, <1>2, <1>3, <1>4, <1>5, <1>6, <1>7, <1>8 DEF StartStep

(* The invariant holds in every reachable state.                           *)
THEOREM Invariance == Spec => []IInv
<1>1. IInv /\ [Next]_vars => IInv'
  <2> SUFFICES ASSUME IInv, [Next]_vars PROVE IInv'
    OBVIOUS
  <2>1. CASE UNCHANGED vars
    BY <2>1 DEF vars, IInv, TypeOK
  <2>2. QED
    BY <2>1, InitStepIInv, StartStepIInv DEF Next, Terminated
<1>2. QED
  BY <1>1, InitIInv, PTL DEF Spec

(* At most one of any number of racing starts reports success.             *)
THEOREM AtMostOneStartTheorem == Spec => []AtMostOneStart
<1>1. IInv => AtMostOneStart
  BY DEF IInv, AtMostOneStart
<1>2. QED
  BY <1>1, Invariance, PTL

(* A start that reports success has released init and removed the fifo.    *)
THEOREM SuccessMeansReleasedTheorem == Spec => []SuccessMeansReleased
<1>1. IInv => SuccessMeansReleased
  <2> SUFFICES ASSUME IInv, NEW s \in Starters, main[s] = "ok"
               PROVE  wrote = "yes" /\ path = "absent"
    BY DEF SuccessMeansReleased
  <2>1. got[s] = 1 /\ path = "absent"
    BY DEF IInv
  <2>2. wrote \in {"no", "yes"} /\ wrote # "no"
    BY <2>1 DEF IInv, TypeOK
  <2>3. QED
    BY <2>1, <2>2
<1>2. QED
  BY <1>1, Invariance, PTL

-----------------------------------------------------------------------------
(* The user's process runs only because a start has come for it *)

(* A step of init preserves the second invariant.                          *)
LEMMA InitStepRInv == IInv /\ RInv /\ (InitStep \/ InitDies) => RInv'
<1> SUFFICES ASSUME IInv, RInv, InitStep \/ InitDies PROVE RInv'
  OBVIOUS
<1> USE DEF IInv, RInv, TypeOK, InitPcs, WriterPcs, CameFor
<1>1. CASE InitOpen
  BY <1>1 DEF InitOpen, Woken
<1>2. CASE InitWrite
  BY <1>2 DEF InitWrite, HasReader
<1>3. CASE InitClose
  BY <1>3 DEF InitClose, KeepBuffer, PipeHeld, HasReader
<1>4. CASE InitExec
  BY <1>4 DEF InitExec
<1>5. CASE InitDies
  BY <1>5 DEF InitDies
<1>6. QED
  BY <1>1, <1>2, <1>3, <1>4, <1>5 DEF InitStep

(* So does a step of a starter, or its death: the byte is lost only with   *)
(* the last starter that holds the pipe, and then that one was killed.     *)
LEMMA StartStepRInv ==
  ASSUME NEW s \in Starters, IInv, RInv, StartStep(s) \/ StartKilled(s)
  PROVE  RInv'
<1> USE DEF IInv, RInv, TypeOK, InitPcs, StarterPcs, StarterDone, WriterPcs, CameFor
<1>1. CASE StartCheck(s)
  BY <1>1 DEF StartCheck
<1>2. CASE StartOpen(s)
  BY <1>2 DEF StartOpen
<1>3. CASE StartOpened(s)
  BY <1>3 DEF StartOpened
<1>4. CASE StartTimeout(s)
  BY <1>4 DEF StartTimeout
<1>5. CASE StartRead(s)
  BY <1>5 DEF StartRead
<1>6. CASE StartEOF(s)
  BY <1>6 DEF StartEOF, KeepBuffer
<1>7. CASE StartRemove(s)
  BY <1>7 DEF StartRemove
<1>8. CASE StartKilled(s)
  BY <1>8 DEF StartKilled
<1>9. QED
  BY <1>1, <1>2, <1>3, <1>4, <1>5, <1>6, <1>7, <1>8 DEF StartStep

(* The byte is counted right, and the user's process runs only after a     *)
(* start has come for it, for any number of starts.                        *)
THEOREM ByteIsCountedTheorem == Spec => []ByteIsCounted
<1>1. Init => RInv
  BY DEF Init, RInv, WriterPcs
<1>2. IInv /\ RInv /\ [Next]_vars => RInv'
  <2> SUFFICES ASSUME IInv, RInv, [Next]_vars PROVE RInv'
    OBVIOUS
  <2>1. CASE UNCHANGED vars
    BY <2>1 DEF vars, RInv, CameFor
  <2>2. QED
    BY <2>1, InitStepRInv, StartStepRInv DEF Next, Terminated
<1>3. IInv /\ RInv => ByteIsCounted
  BY DEF IInv, RInv, TypeOK, CameFor, ByteIsCounted, ReleasedByAStart
<1>4. QED
  BY <1>1, <1>2, <1>3, Invariance, PTL DEF Spec

=============================================================================
