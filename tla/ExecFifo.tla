------------------------------ MODULE ExecFifo ------------------------------
(***************************************************************************)
(* The exec fifo of a created container: any number of concurrent          *)
(* `runc start` (or the exec half of `runc run`) against the one           *)
(* `runc init` that waits to be released.  Each starter runs               *)
(* Container.exec: a goroutine blocks in open(2) on the fifo while the     *)
(* main flow polls every 100 ms whether init still exists.  The kernel's   *)
(* rules for fifos (who waits for whom in open, when a read returns EOF,   *)
(* when unread data is lost, EPIPE) are part of the model.  init may die   *)
(* at any time, and a starter may be killed at any time if CanCrash.       *)
(***************************************************************************)
EXTENDS Naturals

CONSTANTS Starters,     \* the `runc start` processes
          CanCrash      \* may a starter be SIGKILLed?

ASSUME CanCrashAssumption == CanCrash \in BOOLEAN

VARIABLES
  init,      \* the init process, see InitPcs
  wrote,     \* init has written its byte: "no", "yes"
  path,      \* the fifo in the state directory: "present", "absent"
  buf,       \* bytes in the pipe: 0 or 1
  main,      \* [Starters -> StarterPcs], the flow of Container.exec
  opener,    \* [Starters -> "none", "blocked", "open"], awaitFifoOpen
  got        \* [Starters -> bytes read]

vars == <<init, wrote, path, buf, main, opener, got>>

InitPcs == {"setup", "opening", "writing", "closing", "hooks", "user", "dead"}
StarterDone == {"ok", "err", "killed"}
StarterPcs == {"idle", "checked", "await", "reading", "rereading", "remove"}
              \cup StarterDone

(* The init states in which it counts as a writer of the fifo. *)
WriterPcs == {"opening", "writing", "closing"}

-----------------------------------------------------------------------------
(* The kernel's fifo *)

(* Somebody holds a read end; a blocked open(2) counts already. *)
HasReader(m, o) == \E s \in Starters : o[s] # "none" \/ m[s] = "rereading"

(* The pipe lives while somebody holds or opens an end of it. *)
PipeHeld(i, m, o) == i \in WriterPcs \/ HasReader(m, o)

(* The unread bytes vanish with the last holder. *)
KeepBuffer(n) == buf' = IF PipeHeld(init', main', opener') THEN n ELSE 0

(* The open(2) calls for reading that a writer's open completes. *)
Woken == [s \in Starters |-> IF opener[s] = "blocked" THEN "open" ELSE opener[s]]

-----------------------------------------------------------------------------

Init ==
  /\ init = "setup" /\ wrote = "no"
  /\ path = "present" /\ buf = 0
  /\ main = [s \in Starters |-> "idle"]
  /\ opener = [s \in Starters |-> "none"]
  /\ got = [s \in Starters |-> 0]

(* Mutant of the next step: opened without blocking, its error ignored. *)
InitOpenNonBlocking ==
  /\ init = "setup"
  /\ init' = IF HasReader(main, opener) THEN "writing" ELSE "hooks"
  /\ opener' = Woken
  /\ UNCHANGED <<wrote, path, buf, main, got>>

(* linuxStandardInit: reopen the fifo O_WRONLY; waits for a reader. *)
InitOpen ==
  /\ init = "setup"
  /\ init' = IF HasReader(main, opener) THEN "writing" ELSE "opening"
  /\ opener' = Woken
  /\ UNCHANGED <<wrote, path, buf, main, got>>

(* Mutant of the next step: two bytes are written. *)
InitWriteTwice ==
  /\ init = "writing"
  /\ IF HasReader(main, opener)
       THEN init' = "closing" /\ wrote' = "yes" /\ buf' = 2
       ELSE init' = "dead" /\ UNCHANGED wrote /\ buf' = 0
  /\ UNCHANGED <<path, main, opener, got>>

(* Write of "0"; without a reader it fails with EPIPE and Init returns. *)
InitWrite ==
  /\ init = "writing"
  /\ IF HasReader(main, opener)
       THEN init' = "closing" /\ wrote' = "yes" /\ buf' = 1
       ELSE init' = "dead" /\ UNCHANGED wrote /\ buf' = 0
  /\ UNCHANGED <<path, main, opener, got>>

(* Close of the fifo, before the StartContainer hooks. *)
InitClose ==
  /\ init = "closing"
  /\ init' = "hooks"
  /\ UNCHANGED <<wrote, path, main, opener, got>>
  /\ KeepBuffer(buf)

(* The StartContainer hooks and execve; either may fail. *)
InitExec ==
  /\ init = "hooks"
  /\ init' \in {"user", "dead"}
  /\ UNCHANGED <<wrote, path, buf, main, opener, got>>

(* The process exits or is killed. *)
InitDies ==
  /\ init # "dead"
  /\ init' = "dead"
  /\ UNCHANGED <<wrote, path, main, opener, got>>
  /\ KeepBuffer(buf)

-----------------------------------------------------------------------------
(* runc start *)

(* Load and Status: only a created container gets to Exec. *)
StartCheck(s) ==
  /\ main[s] = "idle"
  /\ main' = [main EXCEPT ![s] =
                IF path = "present" /\ init # "dead" THEN "checked" ELSE "err"]
  /\ UNCHANGED <<init, wrote, path, buf, opener, got>>

(* awaitFifoOpen: the goroutine enters open(2).  It fails without the      *)
(* file, completes at once if there is a writer (which it wakes if that    *)
(* was waiting), and blocks otherwise.                                     *)
StartOpen(s) ==
  /\ main[s] = "checked"
  /\ IF path = "absent"
       THEN /\ main' = [main EXCEPT ![s] = "err"]
            /\ UNCHANGED <<opener, init>>
       ELSE /\ main' = [main EXCEPT ![s] = "await"]
            /\ opener' = [opener EXCEPT ![s] =
                            IF init \in WriterPcs THEN "open" ELSE "blocked"]
            /\ init' = IF init = "opening" THEN "writing" ELSE init
  /\ UNCHANGED <<wrote, path, buf, got>>

(* select: the goroutine's result is there. *)
StartOpened(s) ==
  /\ main[s] = "await" /\ opener[s] = "open"
  /\ main' = [main EXCEPT ![s] = "reading"]
  /\ UNCHANGED <<init, wrote, path, buf, opener, got>>

(* Mutant of the next step: a dead init is an error without a second look. *)
StartTimeoutNoRetry(s) ==
  /\ main[s] = "await" /\ init = "dead"
  /\ main' = [main EXCEPT ![s] = "err"]
  /\ opener' = [opener EXCEPT ![s] = "none"]
  /\ UNCHANGED <<init, wrote, path, got>>
  /\ KeepBuffer(buf)

(* Mutant of the next step: as long as the fifo is there, wait on. *)
StartTimeoutWhileFifo(s) ==
  /\ main[s] = "await" /\ init = "dead"
  /\ IF path = "present"
       THEN UNCHANGED <<main, opener>>
       ELSE /\ main' = [main EXCEPT ![s] = "err"]
            /\ opener' = [opener EXCEPT ![s] = "none"]
  /\ UNCHANGED <<init, wrote, path, got>>
  /\ KeepBuffer(buf)

(* select: 100 ms have passed and init is gone; the fifo is opened again,  *)
(* without blocking.                                                       *)
StartTimeout(s) ==
  /\ main[s] = "await" /\ init = "dead"
  /\ IF path = "present"
       THEN main' = [main EXCEPT ![s] = "rereading"] /\ UNCHANGED opener
       ELSE /\ main' = [main EXCEPT ![s] = "err"]
            /\ opener' = [opener EXCEPT ![s] = "none"]
  /\ UNCHANGED <<init, wrote, path, got>>
  /\ KeepBuffer(buf)

(* io.ReadAll: the byte. *)
StartRead(s) ==
  /\ main[s] \in {"reading", "rereading"} /\ buf > 0
  /\ buf' = buf - 1
  /\ got' = [got EXCEPT ![s] = @ + 1]
  /\ UNCHANGED <<init, wrote, path, main, opener>>

(* Mutant of the next step: an empty read is a success. *)
StartEOFUnchecked(s) ==
  /\ main[s] \in {"reading", "rereading"} /\ buf = 0 /\ init \notin WriterPcs
  /\ main' = [main EXCEPT ![s] = "remove"]
  /\ UNCHANGED <<init, wrote, path, opener, got>>
  /\ KeepBuffer(0)

(* io.ReadAll: EOF.  An empty fifo is the error "cannot start an already   *)
(* running container", or "container process is already dead".             *)
StartEOF(s) ==
  /\ main[s] \in {"reading", "rereading"} /\ buf = 0 /\ init \notin WriterPcs
  /\ IF got[s] > 0
       THEN main' = [main EXCEPT ![s] = "remove"] /\ UNCHANGED opener
       ELSE /\ main' = [main EXCEPT ![s] = "err"]
            /\ opener' = [opener EXCEPT ![s] = "none"]
  /\ UNCHANGED <<init, wrote, path, got>>
  /\ KeepBuffer(0)

(* Mutant of the next step: the fifo is left in place. *)
StartRemoveOmitted(s) ==
  /\ main[s] = "remove"
  /\ main' = [main EXCEPT ![s] = "ok"]
  /\ opener' = [opener EXCEPT ![s] = "none"]
  /\ UNCHANGED <<init, wrote, path, got>>
  /\ KeepBuffer(buf)

(* handleFifoResult: os.Remove, ErrNotExist ignored; runc start exits. *)
StartRemove(s) ==
  /\ main[s] = "remove"
  /\ path' = "absent"
  /\ main' = [main EXCEPT ![s] = "ok"]
  /\ opener' = [opener EXCEPT ![s] = "none"]
  /\ UNCHANGED <<init, wrote, got>>
  /\ KeepBuffer(buf)

(* SIGKILL to runc start. *)
StartKilled(s) ==
  /\ CanCrash
  /\ main[s] \notin StarterDone \cup {"idle"}
  /\ main' = [main EXCEPT ![s] = "killed"]
  /\ opener' = [opener EXCEPT ![s] = "none"]
  /\ UNCHANGED <<init, wrote, path, got>>
  /\ KeepBuffer(buf)

-----------------------------------------------------------------------------

InitStep == InitOpen \/ InitWrite \/ InitClose \/ InitExec

StartStep(s) ==
  \/ StartCheck(s) \/ StartOpen(s) \/ StartOpened(s) \/ StartTimeout(s)
  \/ StartRead(s) \/ StartEOF(s) \/ StartRemove(s)

Terminated ==
  init = "dead" /\ (\A s \in Starters : main[s] \in StarterDone) /\ UNCHANGED vars

Next ==
  \/ InitStep \/ InitDies
  \/ \E s \in Starters : StartStep(s) \/ StartKilled(s)
  \/ Terminated

Spec == Init /\ [][Next]_vars

(* init and the starters are scheduled; nothing makes init exit.           *)
FairSpec == Spec /\ WF_vars(InitStep) /\ \A s \in Starters : WF_vars(StartStep(s))

-----------------------------------------------------------------------------
(* Properties *)

(* Every variable has its type; at most one byte is ever in the fifo, and  *)
(* no start reads more than one.                                           *)
TypeOK ==
  /\ init \in InitPcs /\ wrote \in {"no", "yes"}
  /\ path \in {"present", "absent"} /\ buf \in 0..1
  /\ main \in [Starters -> StarterPcs]
  /\ opener \in [Starters -> {"none", "blocked", "open"}]
  /\ got \in [Starters -> 0..1]

(* However many `runc start` race, at most one of them reports success.    *)
AtMostOneStart ==
  \A s, t \in Starters : main[s] = "ok" /\ main[t] = "ok" => s = t

(* A start that reports success did release init: init got past its write, *)
(* and the fifo is gone, so that the container counts as running.          *)
SuccessMeansReleased ==
  \A s \in Starters : main[s] = "ok" => wrote = "yes" /\ path = "absent"

(* The user's process runs only after some start has opened the fifo: one  *)
(* that was killed since, one that has the byte or will read it.           *)
ReleasedByAStart ==
  init \in {"hooks", "user"} =>
    \E s \in Starters : main[s] = "killed" \/ got[s] > 0 \/ opener[s] = "open"

(* Once init has been released some start gets to report it, even when the *)
(* user's process exits before the starters look: what the second,         *)
(* non-blocking open is for.  Only the death of a starter excuses it.      *)
ReleaseIsReported == wrote = "yes" ~> \E s \in Starters : main[s] \in {"ok", "killed"}

(* No start outlives the container: once init is gone they all return.     *)
StartReturnsOnceInitGone ==
  \A s \in Starters : main[s] # "idle" /\ init = "dead" ~> main[s] \in StarterDone

(* The fifo of a container whose process runs goes away, so that           *)
(* refreshState tells created from running.                                *)
FifoGoesAway == init = "user" ~> (path = "absent" \/ init = "dead")

(* The same, where the death of a starter is an excuse.                    *)
FifoRemoved ==
  init = "user" ~> path = "absent" \/ init = "dead" \/ \E s \in Starters : main[s] = "killed"

(* A second start of a container that already runs is refused at once. Not *)
(* so: one that opens the fifo late waits until the container exits.       *)
SecondStartRefused ==
  \A s \in Starters :
    main[s] = "await" /\ init = "user" ~> main[s] \in StarterDone \/ init = "dead"

(* The byte in the fifo is counted right, and init runs on only because a  *)
(* start has come for it (Container.exec, linuxStandardInit.Init).         *)
ByteIsCounted == TypeOK /\ ReleasedByAStart

(* Starts end: the release is reported, nobody waits for a dead init, and  *)
(* the fifo goes away (awaitFifoOpen and the poll of the pid).             *)
StartsEnd == ReleaseIsReported /\ StartReturnsOnceInitGone /\ FifoRemoved
=============================================================================
