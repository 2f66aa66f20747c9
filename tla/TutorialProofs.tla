--------------------------- MODULE TutorialProofs ---------------------------
(***************************************************************************)
(* Proofs about Tutorial, for any number of instructors in a tab and any   *)
(* scripts they are started with: the boxes in the document belong to the  *)
(* hints their loops are at, and tasks are done before they are left.      *)
(***************************************************************************)
EXTENDS Tutorial, TLAPS

-----------------------------------------------------------------------------
(* The shape of a loop *)

StartedScripts == {s[i] : s \in Starts, i \in Instructors}
Fixtures == {"frame"} \cup {challengeInstructions[s][k].at : s \in Scripts, k \in Nat}
HintBoxes == [i : Instructors, k : Nat, at : Fixtures]
LoopRecords ==
  [script : StartedScripts, k : Nat, st : {"off", "load", "wait", "dead", "end"},
   met : {"no", "yes", "lost"}, cancel : HintBoxes]

Running == {"load", "wait"}

(* The loops have their shape, and a loop that was started has a script.   *)
Shape ==
  /\ loop \in [Instructors -> LoopRecords]
  /\ \A i \in Instructors : loop[i].st # "off" => loop[i].script \in Scripts
  /\ \A b \in boxes : b.i \in Instructors

(* Two loops that run at the same time have met.                           *)
Alone == \A i, j \in Instructors : i # j /\ loop[i].st \in Running /\ loop[j].st \in Running => strayed

(* A loop listens at its own cancel button, unless it has met another one. *)
(* Unlike CancelIsOwn this holds although the box is no longer there.      *)
ListensAtOwn ==
  \A i \in Instructors :
    Waiting(i) /\ loop[i].cancel # Box(i) => strayed \/ \E j \in Instructors : loop[j].st = "dead"

BoxInv == Shape /\ Alone /\ ListensAtOwn /\ NoStrayBox

(* The box of a loop is well formed.                                       *)
LEMMA BoxShape ==
  ASSUME Shape, NEW i \in Instructors, loop[i].st # "off"
  PROVE  Box(i) \in HintBoxes /\ Box(i).i = i
BY DEF Shape, LoopRecords, Box, hint, hints, HintBoxes, Fixtures

-----------------------------------------------------------------------------
(* Steps of the page and of the user *)

(* A step that goes on with no loop and puts up no box.                    *)
Bystanding ==
  /\ loop' \in [Instructors -> LoopRecords]
  /\ \A i \in Instructors : /\ loop'[i].script = loop[i].script /\ loop'[i].k = loop[i].k
                            /\ loop'[i].st = loop[i].st /\ loop'[i].cancel = loop[i].cancel
  /\ boxes' \subseteq boxes
  /\ strayed => strayed'

(* What the page or the user does to a loop is to change whether its       *)
(* condition was met.                                                      *)
LEMMA WatchingShape ==
  ASSUME NEW lp \in [Instructors -> LoopRecords], NEW n, NEW fd
  PROVE  /\ Watching(lp, n, fd) \in [Instructors -> LoopRecords]
         /\ \A i \in Instructors :
              /\ Watching(lp, n, fd)[i].script = lp[i].script /\ Watching(lp, n, fd)[i].k = lp[i].k
              /\ Watching(lp, n, fd)[i].st = lp[i].st /\ Watching(lp, n, fd)[i].cancel = lp[i].cancel
<1>1. ASSUME NEW i \in Instructors
      PROVE  /\ [lp[i] EXCEPT !.met = "lost"] \in LoopRecords
             /\ [lp[i] EXCEPT !.met = "lost"].script = lp[i].script
             /\ [lp[i] EXCEPT !.met = "lost"].k = lp[i].k
             /\ [lp[i] EXCEPT !.met = "lost"].st = lp[i].st
             /\ [lp[i] EXCEPT !.met = "lost"].cancel = lp[i].cancel
  BY DEF LoopRecords
<1>2. ASSUME NEW i \in Instructors
      PROVE  Watching(lp, n, fd)[i] \in {lp[i], [lp[i] EXCEPT !.met = "lost"]}
  BY DEF Watching
<1>3. Watching(lp, n, fd) \in [Instructors -> LoopRecords]
  BY <1>1 DEF Watching
<1> QED
  BY <1>1, <1>2, <1>3

(* The same of the loops before the page has changed.                      *)
LEMMA MetShape ==
  ASSUME Shape, NEW lp, lp \in {loop, Unmet} \/ \E i \in Instructors : lp = Met(i)
  PROVE  /\ lp \in [Instructors -> LoopRecords]
         /\ \A j \in Instructors :
              /\ lp[j].script = loop[j].script /\ lp[j].k = loop[j].k
              /\ lp[j].st = loop[j].st /\ lp[j].cancel = loop[j].cancel
<1>1. CASE lp = loop
  BY <1>1 DEF Shape
<1>2. CASE lp = Unmet
  <2>1. ASSUME NEW i \in Instructors
        PROVE  /\ [loop[i] EXCEPT !.met = "no"] \in LoopRecords
               /\ [loop[i] EXCEPT !.met = "no"].script = loop[i].script
               /\ [loop[i] EXCEPT !.met = "no"].k = loop[i].k
               /\ [loop[i] EXCEPT !.met = "no"].st = loop[i].st
               /\ [loop[i] EXCEPT !.met = "no"].cancel = loop[i].cancel
               /\ lp[i] \in {loop[i], [loop[i] EXCEPT !.met = "no"]}
    BY <1>2 DEF Shape, LoopRecords, Unmet
  <2>2. lp \in [Instructors -> LoopRecords]
    BY <1>2, <2>1 DEF Unmet, Shape
  <2> QED
    BY <2>1, <2>2
<1>3. ASSUME NEW i \in Instructors, lp = Met(i)
      PROVE  /\ lp \in [Instructors -> LoopRecords]
             /\ \A j \in Instructors :
                  /\ lp[j].script = loop[j].script /\ lp[j].k = loop[j].k
                  /\ lp[j].st = loop[j].st /\ lp[j].cancel = loop[j].cancel
  BY <1>3 DEF Met, Shape, LoopRecords
<1> QED
  BY <1>1, <1>2, <1>3

(* Showing another page is such a step.                                    *)
LEMMA ShowsIsBystanding ==
  ASSUME Shape, NEW lp, lp \in {loop, Unmet} \/ \E i \in Instructors : lp = Met(i),
         NEW n, NEW fd, Shows(n, fd), loop' = Watching(lp, n, fd), strayed => strayed'
  PROVE  Bystanding
<1>1. lp \in [Instructors -> LoopRecords]
  BY MetShape
<1>2. boxes' \subseteq boxes
  BY DEF Shows
<1>3. loop' \in [Instructors -> LoopRecords]
  BY <1>1, WatchingShape
<1>4. ASSUME NEW i \in Instructors
      PROVE  /\ loop'[i].script = loop[i].script /\ loop'[i].k = loop[i].k
             /\ loop'[i].st = loop[i].st /\ loop'[i].cancel = loop[i].cancel
  BY <1>1, MetShape, WatchingShape
<1> QED
  BY <1>2, <1>3, <1>4 DEF Bystanding

(* So is going where the router leads.                                     *)
LEMMA LandsIsBystanding ==
  ASSUME Shape, NEW lp, lp \in {loop, Unmet} \/ \E i \in Instructors : lp = Met(i),
         NEW r, Lands(r, lp), strayed => strayed'
  PROVE  Bystanding
BY ShowsIsBystanding DEF Lands

(* The steps of the banner, of the user and of the router.                 *)
LEMMA UserIsBystanding ==
  ASSUME Shape,
         \/ openWelcome \/ closeWelcome \/ Render \/ Detour
         \/ \E i \in Instructors : Follow(i)
         \/ UNCHANGED vars
  PROVE  Bystanding
<1>1. ASSUME UNCHANGED <<loop, boxes, strayed>> PROVE Bystanding
  BY <1>1 DEF Bystanding, Shape
<1>2. CASE openWelcome \/ closeWelcome \/ UNCHANGED vars
  BY <1>1, <1>2 DEF openWelcome, closeWelcome, vars
<1>3. CASE Render
  BY <1>3, LandsIsBystanding DEF Render
<1>4. CASE Detour
  <2>1. strayed'
    BY <1>4 DEF Detour
  <2>2. CASE \E r \in {"login", "about", "search"} : Lands(r, Unmet)
    BY <2>1, <2>2, LandsIsBystanding
  <2>3. CASE \E fd \in {"hits", "none"} : Shows(At("search"), fd) /\ loop' = Watching(Unmet, At("search"), fd)
    BY <2>1, <2>3, ShowsIsBystanding
  <2>4. CASE UNCHANGED <<loop, boxes>>
    BY <2>1, <2>4 DEF Bystanding, Shape
  <2> QED
    BY <1>4, <2>2, <2>3, <2>4 DEF Detour
<1>5. ASSUME NEW i \in Instructors, Follow(i) PROVE Bystanding
  <2>1. ASSUME loop' = Met(i), UNCHANGED <<boxes, strayed>> PROVE Bystanding
    BY <2>1, MetShape DEF Bystanding
  <2>2. CASE followRoute(i)
    BY <1>1, <2>2, LandsIsBystanding DEF followRoute
  <2>3. CASE followToken(i)
    BY <2>3, LandsIsBystanding DEF followToken
  <2>4. CASE followInput(i)
    BY <2>1, <2>4 DEF followInput
  <2>5. CASE followLogin(i)
    BY <2>1, <2>5, LandsIsBystanding DEF followLogin
  <2>6. CASE followSearch(i)
    BY <2>6, ShowsIsBystanding DEF followSearch
  <2>7. CASE followResize(i)
    BY <1>1, <2>7 DEF followResize
  <2> QED
    BY <1>5, <2>2, <2>3, <2>4, <2>5, <2>6, <2>7 DEF Follow
<1> QED
  BY <1>2, <1>3, <1>4, <1>5

(* They keep the invariant.                                                *)
LEMMA BystandingKeeps == ASSUME BoxInv, Bystanding PROVE BoxInv'
<1>1. \A i \in Instructors : Box(i)' = Box(i)
  BY DEF Bystanding, Box, hint, hints
<1>2. Shape'
  BY DEF BoxInv, Shape, Bystanding
<1>3. Alone'
  BY DEF BoxInv, Alone, Bystanding
<1>4. ListensAtOwn'
  BY <1>1 DEF BoxInv, ListensAtOwn, Bystanding, Waiting
<1>5. NoStrayBox'
  BY <1>1 DEF BoxInv, Shape, NoStrayBox, Bystanding
<1> QED
  BY <1>2, <1>3, <1>4, <1>5 DEF BoxInv

-----------------------------------------------------------------------------
(* Steps of one loop *)

(* All other loops stay as they are.                                       *)
Own(i) == \A j \in Instructors \ {i} : loop'[j] = loop[j]

(* A loop that goes on, ends or starts, and whose box, if it had one, has  *)
(* been taken away.                                                        *)
LEMMA LoopStep ==
  ASSUME BoxInv, NEW i \in Instructors, Own(i),
         loop' \in [Instructors -> LoopRecords],
         loop'[i].st \in {"load", "end"}, loop'[i].script \in Scripts,
         loop[i].st # "dead",
         loop[i].st = "wait" => Box(i) \notin boxes',
         boxes' \subseteq boxes,
         strayed => strayed',
         \/ loop[i].st \in Running \/ strayed'
         \/ \A j \in Instructors \ {i} : loop[j].st \notin Running
  PROVE  BoxInv'
<1>1. \A j \in Instructors \ {i} : Box(j)' = Box(j)
  BY DEF Own, Box, hint, hints
<1>2. Shape'
  BY DEF BoxInv, Shape, Own
<1>3. Alone'
  BY DEF BoxInv, Alone, Own
<1>4. ListensAtOwn'
  <2>1. \A j \in Instructors : loop[j].st = "dead" => loop'[j].st = "dead"
    BY DEF Own
  <2>2. \A j \in Instructors : Waiting(j)' => j # i /\ Waiting(j) /\ loop'[j] = loop[j]
    BY DEF Own, Waiting
  <2> QED
    BY <1>1, <2>1, <2>2 DEF BoxInv, ListensAtOwn
<1>5. NoStrayBox'
  <2> SUFFICES ASSUME NEW b \in boxes' PROVE (b = Box(b.i))' /\ loop'[b.i].st \in {"wait", "dead"}
    BY DEF NoStrayBox
  <2>1. b \in boxes /\ b.i \in Instructors /\ b = Box(b.i) /\ loop[b.i].st \in {"wait", "dead"}
    BY DEF BoxInv, Shape, NoStrayBox
  <2>2. b.i # i
    BY <2>1
  <2> QED
    BY <1>1, <2>1, <2>2 DEF Own
<1> QED
  BY <1>2, <1>3, <1>4, <1>5 DEF BoxInv

(* The next hint.                                                          *)
LEMMA AdvanceStep ==
  ASSUME BoxInv, NEW i \in Instructors, loop[i].st \in Running, loop' = Advance(loop, i),
         loop[i].st = "wait" => boxes' = boxes \ {Box(i)},
         boxes' \subseteq boxes, strayed => strayed'
  PROVE  BoxInv'
<1>1. loop \in [Instructors -> LoopRecords] /\ loop[i] \in LoopRecords /\ loop[i].script \in Scripts
  BY DEF BoxInv, Shape, Running
<1>2. /\ loop' \in [Instructors -> LoopRecords] /\ Own(i)
      /\ loop'[i].st = "load" /\ loop'[i].script = loop[i].script
  <2> DEFINE r == [loop[i] EXCEPT !.k = @ + 1, !.st = "load", !.met = "no"]
  <2>1. loop' = [loop EXCEPT ![i] = r]
    BY <1>1 DEF Advance
  <2>2. loop[i].k + 1 \in Nat
    BY <1>1 DEF LoopRecords
  <2>3. r \in LoopRecords /\ r.st = "load" /\ r.script = loop[i].script
    BY <1>1, <2>2 DEF LoopRecords
  <2> HIDE DEF r
  <2> QED
    BY <1>1, <2>1, <2>3 DEF Own
<1> QED
  BY <1>1, <1>2, LoopStep DEF Running

(* startHackingInstructorFor is called, from wherever.                     *)
LEMMA LaunchStep ==
  ASSUME BoxInv, NEW i \in Instructors, Launch(i), UNCHANGED boxes PROVE BoxInv'
<1>1. /\ loop \in [Instructors -> LoopRecords] /\ loop[i] \in LoopRecords
      /\ loop[i].script \in Scripts /\ loop[i].st = "off"
  BY DEF BoxInv, Shape, Launch
<1>2. /\ loop' \in [Instructors -> LoopRecords] /\ Own(i)
      /\ loop'[i].st = "load" /\ loop'[i].script = loop[i].script
  BY <1>1 DEF Launch, Own, LoopRecords
<1>3. /\ strayed => strayed'
      /\ strayed' \/ \A j \in Instructors \ {i} : loop[j].st \notin Running
  BY DEF Launch, Running
<1> QED
  BY <1>1, <1>2, <1>3, LoopStep

(* The loop is through.                                                    *)
LEMMA FinishStep == ASSUME BoxInv, NEW i \in Instructors, finish(i) PROVE BoxInv'
<1>1. loop \in [Instructors -> LoopRecords] /\ loop[i] \in LoopRecords /\ loop[i].script \in Scripts
  BY DEF BoxInv, Shape, finish
<1>2. /\ loop' \in [Instructors -> LoopRecords] /\ Own(i)
      /\ loop'[i].st = "end" /\ loop'[i].script = loop[i].script
  BY <1>1 DEF finish, Own, LoopRecords
<1> QED
  BY <1>1, <1>2, LoopStep DEF finish, Running

(* loadHint: the first box of the document is the loop's own, or that of a *)
(* loop which has died or which it has met.                                *)
LEMMA LoadStep == ASSUME BoxInv, NEW i \in Instructors, loadHint(i) PROVE BoxInv'
<1>1. /\ loop \in [Instructors -> LoopRecords] /\ loop[i] \in LoopRecords
      /\ loop[i].st = "load" /\ loop[i].script \in Scripts
      /\ boxes' = boxes \cup {Box(i)} /\ UNCHANGED strayed
  BY DEF BoxInv, Shape, loadHint
<1>2. PICK first \in boxes', st \in {"wait", "dead"} :
        loop' = [loop EXCEPT ![i].st = st, ![i].cancel = first]
  BY DEF loadHint
<1>3. \A b \in boxes : /\ b.i \in Instructors /\ b = Box(b.i) /\ loop[b.i].st \in {"wait", "dead"}
                       /\ b.i # i
  BY <1>1 DEF BoxInv, Shape, NoStrayBox
<1>4. Box(i) \in HintBoxes /\ Box(i).i = i
  BY <1>1, BoxShape DEF BoxInv
<1>5. first \in HintBoxes
  BY <1>1, <1>3, <1>4, BoxShape DEF BoxInv
<1>6. /\ loop' \in [Instructors -> LoopRecords] /\ Own(i)
      /\ loop'[i].st = st /\ loop'[i].script = loop[i].script /\ loop'[i].k = loop[i].k
      /\ loop'[i].cancel = first
  BY <1>1, <1>2, <1>5 DEF Own, LoopRecords
<1>7. \A j \in Instructors : Box(j)' = Box(j)
  BY <1>6 DEF Own, Box, hint, hints
<1>8. Shape'
  BY <1>1, <1>3, <1>4, <1>6 DEF BoxInv, Shape, Own
<1>9. Alone'
  BY <1>1, <1>6 DEF BoxInv, Alone, Own, Running
<1>10. ListensAtOwn'
  <2>1. \A j \in Instructors : loop[j].st = "dead" => loop'[j].st = "dead"
    BY <1>1, <1>6 DEF Own
  <2>2. ASSUME first # Box(i) PROVE strayed \/ \E j \in Instructors : loop[j].st = "dead"
    <3>1. first.i \in Instructors /\ loop[first.i].st \in {"wait", "dead"} /\ first.i # i
      BY <1>1, <1>3, <2>2
    <3> QED
      BY <1>1, <3>1 DEF BoxInv, Alone, Running
  <2>3. ASSUME NEW j \in Instructors, j # i, Waiting(j)', loop'[j].cancel # Box(j)'
        PROVE  strayed \/ \E m \in Instructors : loop[m].st = "dead"
    BY <1>6, <1>7, <2>3 DEF BoxInv, ListensAtOwn, Own, Waiting
  <2> QED
    BY <1>1, <1>6, <1>7, <2>1, <2>2, <2>3 DEF ListensAtOwn
<1>11. NoStrayBox'
  BY <1>1, <1>3, <1>4, <1>6, <1>7 DEF NoStrayBox, Own
<1> QED
  BY <1>8, <1>9, <1>10, <1>11 DEF BoxInv

(* waitForCancel: the loops that listen at that button end, each with its  *)
(* own box.                                                                *)
LEMMA CancelStep == ASSUME BoxInv, NEW b \in boxes, waitForCancel(b) PROVE BoxInv'
<1> DEFINE ends == {i \in Instructors : Waiting(i) /\ loop[i].cancel = b}
<1>1. /\ boxes' = boxes \ {Box(i) : i \in ends} /\ UNCHANGED strayed
      /\ loop' = [i \in Instructors |-> IF i \in ends THEN [loop[i] EXCEPT !.st = "end"] ELSE loop[i]]
  BY DEF waitForCancel
<1>2. loop \in [Instructors -> LoopRecords] /\ \A i \in ends : i \in Instructors /\ loop[i].st = "wait"
  BY DEF BoxInv, Shape, Waiting
<1> HIDE DEF ends
<1>3. \A i \in Instructors : /\ loop'[i].script = loop[i].script /\ loop'[i].k = loop[i].k
                             /\ loop'[i].cancel = loop[i].cancel
                             /\ loop'[i].st = IF i \in ends THEN "end" ELSE loop[i].st
  BY <1>1, <1>2 DEF LoopRecords
<1>4. loop' \in [Instructors -> LoopRecords]
  BY <1>1, <1>2 DEF LoopRecords
<1>5. \A i \in Instructors : Box(i)' = Box(i)
  BY <1>3 DEF Box, hint, hints
<1>6. Shape'
  BY <1>1, <1>2, <1>3, <1>4 DEF BoxInv, Shape
<1>7. Alone'
  BY <1>1, <1>3 DEF BoxInv, Alone, Running
<1>8. ListensAtOwn'
  BY <1>1, <1>2, <1>3, <1>5 DEF BoxInv, ListensAtOwn, Waiting
<1>9. NoStrayBox'
  <2> SUFFICES ASSUME NEW c \in boxes' PROVE (c = Box(c.i))' /\ loop'[c.i].st \in {"wait", "dead"}
    BY DEF NoStrayBox
  <2>1. c \in boxes /\ c.i \in Instructors /\ c = Box(c.i) /\ loop[c.i].st \in {"wait", "dead"}
    BY <1>1 DEF BoxInv, Shape, NoStrayBox
  <2>2. c.i \notin ends
    BY <1>1, <2>1
  <2> QED
    BY <1>3, <1>5, <2>1, <2>2
<1> QED
  BY <1>6, <1>7, <1>8, <1>9 DEF BoxInv

-----------------------------------------------------------------------------
(* The theorems *)

(* Every step keeps the invariant.                                         *)
LEMMA BoxNext == ASSUME BoxInv, [Next]_vars PROVE BoxInv'
<1>1. ASSUME \/ openWelcome \/ closeWelcome \/ Render \/ Detour \/ UNCHANGED vars
             \/ \E i \in Instructors : Follow(i)
      PROVE  BoxInv'
  BY <1>1, UserIsBystanding, BystandingKeeps DEF BoxInv
<1>2. ASSUME NEW i \in Instructors,
             startFromBanner(i) \/ startFromSidenav(i) \/ startHackingInstructor(i)
      PROVE  BoxInv'
  BY <1>2, LaunchStep DEF startFromBanner, startFromSidenav, startHackingInstructor
<1>3. ASSUME NEW i \in Instructors, couldNotFindElement(i) \/ isChallengeSolved(i) PROVE BoxInv'
  BY <1>3, AdvanceStep DEF couldNotFindElement, isChallengeSolved, Running
<1>4. ASSUME NEW i \in Instructors, resolved(i) \/ waitForDoubleClick(i) PROVE BoxInv'
  <2>1. /\ loop[i].st = "wait" /\ loop' = Advance(loop, i) /\ boxes' = boxes \ {Box(i)}
    BY <1>4 DEF resolved, waitForDoubleClick, Waiting
  <2>2. strayed => strayed'
    BY <1>4 DEF resolved, waitForDoubleClick
  <2> QED
    BY <2>1, <2>2, AdvanceStep DEF Running
<1>5. ASSUME NEW i \in Instructors, Step(i) PROVE BoxInv'
  BY <1>3, <1>4, <1>5, FinishStep, LoadStep DEF Step
<1> QED
  BY <1>1, <1>2, <1>3, <1>4, <1>5, CancelStep DEF Next

(* However many loops are started and whatever the user does, the boxes    *)
(* and the loops fit together.                                             *)
THEOREM BoxInvariance == Spec => []BoxInv
<1>1. Init => BoxInv
  <2> SUFFICES ASSUME Init PROVE BoxInv
    OBVIOUS
  <2>1. PICK s \in Starts :
          loop = [i \in Instructors |-> [script |-> s[i], k |-> 1, st |-> "off", met |-> "no",
                                         cancel |-> [i |-> i, k |-> 0, at |-> "frame"]]]
    BY DEF Init
  <2>2. \A i \in Instructors : s[i] \in StartedScripts
    BY DEF StartedScripts
  <2>3. \A i \in Instructors : [i |-> i, k |-> 0, at |-> "frame"] \in HintBoxes
    BY DEF HintBoxes, Fixtures
  <2>4. loop \in [Instructors -> LoopRecords] /\ \A i \in Instructors : loop[i].st = "off"
    BY <2>1, <2>2, <2>3 DEF LoopRecords
  <2> QED
    BY <2>4 DEF Init, BoxInv, Shape, Alone, ListensAtOwn, NoStrayBox, Running, Waiting
<1>2. BoxInv /\ [Next]_vars => BoxInv'
  BY BoxNext
<1> QED
  BY <1>1, <1>2, PTL DEF Spec

(* loadHint, startHackingInstructorFor and waitForCancel: every box in the *)
(* document belongs to the hint its loop is at, and its cancel button to   *)
(* that loop, unless the loop has met another one or one has died.         *)
THEOREM BoxesAreOwnTheorem == Spec => []BoxesAreOwn
<1>1. BoxInv => BoxesAreOwn
  BY DEF BoxInv, BoxesAreOwn, ListensAtOwn, CancelIsOwn
<1> QED
  BY <1>1, BoxInvariance, PTL

(* The unskippable hints: a task is left with its condition true, or by    *)
(* cancelling, whatever else goes on in the tab.                           *)
THEOREM TasksAreDoneTheorem == Spec => TasksAreDone
<1> DEFINE Done == \A i \in Instructors :
                     Waiting(i) /\ hint(i).must /\ loop'[i].k # loop[i].k => Holds(i)
<1>1. BoxInv /\ [Next]_vars => [Done]_vars
  <2> SUFFICES ASSUME BoxInv, Next, NEW i \in Instructors, Waiting(i), hint(i).must,
                      loop'[i].k # loop[i].k
               PROVE  Holds(i)
    OBVIOUS
  <2>1. loop \in [Instructors -> LoopRecords] /\ loop[i] \in LoopRecords
    BY DEF BoxInv, Shape
  <2>2. ASSUME openWelcome \/ closeWelcome \/ Render \/ Detour \/ \E j \in Instructors : Follow(j)
        PROVE  FALSE
    BY <2>2, UserIsBystanding DEF BoxInv, Bystanding
  <2>3. ASSUME NEW j \in Instructors,
               startFromBanner(j) \/ startFromSidenav(j) \/ startHackingInstructor(j)
        PROVE  FALSE
    BY <2>1, <2>3 DEF startFromBanner, startFromSidenav, startHackingInstructor, Launch, LoopRecords
  <2>4. ASSUME NEW j \in Instructors, finish(j) \/ couldNotFindElement(j) \/ isChallengeSolved(j)
        PROVE  FALSE
    BY <2>1, <2>4 DEF finish, couldNotFindElement, isChallengeSolved, Advance, Waiting, LoopRecords
  <2>5. ASSUME NEW j \in Instructors, loadHint(j) PROVE FALSE
    <3>1. PICK first, st : loop' = [loop EXCEPT ![j].st = st, ![j].cancel = first]
      BY <2>5 DEF loadHint
    <3> QED
      BY <2>1, <3>1 DEF LoopRecords
  <2>6. ASSUME NEW j \in Instructors, resolved(j) \/ waitForDoubleClick(j) PROVE Holds(i)
    <3>1. i = j
      BY <2>1, <2>6 DEF resolved, waitForDoubleClick, Advance, LoopRecords
    <3> QED
      BY <2>6, <3>1 DEF resolved, waitForDoubleClick
  <2>7. ASSUME NEW b \in boxes, waitForCancel(b) PROVE FALSE
    <3>1. loop'[i] \in {loop[i], [loop[i] EXCEPT !.st = "end"]}
      BY <2>7 DEF waitForCancel
    <3> QED
      BY <2>1, <3>1 DEF LoopRecords
  <2> QED
    BY <2>2, <2>3, <2>4, <2>5, <2>6, <2>7 DEF Next, Step
<1> QED
  BY <1>1, BoxInvariance, PTL DEF Spec, TasksAreDone
=============================================================================
