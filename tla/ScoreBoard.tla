----------------------------- MODULE ScoreBoard -----------------------------
(***************************************************************************)
(* The tabs that show the progress of Progress: notifications, the cookies *)
(* with the continue codes, the score board and the dialog of a coding     *)
(* challenge.  The cookies are the browser's.  A tab handles the events of *)
(* its socket in order, but the answers to its requests as they come.      *)
(***************************************************************************)
EXTENDS Progress

CONSTANTS
    Scenarios,      \* bound: how often each thing happens
    Tutorial        \* challenges that are shown first

ASSUME ScoreBoardAssumption == Tutorial \subseteq Challenges

VARIABLES
    cookie,     \* the continue codes, as the challenges they stand for
    backup,     \* the backup file, or the empty set
    board,      \* tab -> the challenges on the score board, or nothing
    dialog,     \* tab -> the dialog of a coding challenge
    boxes,      \* tab -> the notifications that are shown
    parallel,   \* history: two continue codes were asked for at the same time, or cookies were exchanged
    crossed,    \* history: tab -> an event came while the board was loading, phases overlapped, or
                \* rows changed without an event
    doubled     \* history: tab -> a phase was submitted while a verdict about it was on the way

cvars == <<cookie, backup, board, dialog, boxes, parallel, crossed, doubled>>
vars == <<svars, wires, todo, hist, cvars>>

NoCodes == [hack |-> {}, find |-> {}, fix |-> {}]
NoBoard == <<>>
Closed == [open |-> FALSE]

NewDialog(c, status) ==
    [open |-> TRUE, c |-> c, status |-> status, snippet |-> "wait", fixes |-> "wait", set |-> FALSE,
     tab |-> 0, result |-> "Undecided", find |-> FALSE, fix |-> FALSE, cheer |-> FALSE]

InFlight(t, ops) == \E e \in BagToSet(net) : e.t = t /\ e.op \in ops

-----------------------------------------------------------------------------
(* Events.                                                                 *)

Ev(t) == Head(sock[t])
Handled(t) == sock' = [sock EXCEPT ![t] = Tail(@)]

(* ScoreBoardComponent: the events change the challenges that are loaded.  *)
onChallengeSolvedWebsocket(t) ==
    IF board[t] = NoBoard THEN board ELSE [board EXCEPT ![t][Ev(t).c].solved = TRUE]

(* Variant: the handler of the other event.                                *)
onCodeChallengeSolvedWebsocketAsSolved(t) ==
    IF board[t] = NoBoard THEN board ELSE [board EXCEPT ![t][Ev(t).c].solved = TRUE]

onCodeChallengeSolvedWebsocket(t) ==
    IF board[t] = NoBoard THEN board ELSE [board EXCEPT ![t][Ev(t).c].code = Ev(t).code]

Crosses(t) == crossed' = [crossed EXCEPT ![t] = @ \/ InFlight(t, {"board"})]

(* Variant: the code is not asked for once the challenge is in a cookie.   *)
saveProgressOnce(t, n) ==
    IF cookie.hack # {} THEN net' = n /\ UNCHANGED parallel
    ELSE net' = Put(n, Req(t, "code", Ev(t).c, {})) /\ parallel' = (parallel \/ InFlight(t, {"code"}))

saveProgress(t, n) ==
    /\ net' = Put(n, Req(t, "code", Ev(t).c, {}))
    /\ parallel' = (parallel \/ \E u \in Tabs : InFlight(u, {"code"}))

(* ChallengeSolvedNotificationComponent: the notification is shown and     *)
(* confirmed; a new one makes the tab ask for the continue code.           *)
onChallengeSolved(t) ==
    /\ sock[t] # <<>> /\ Ev(t).ev = "solved"
    /\ Handled(t)
    /\ boxes' = [boxes EXCEPT ![t] = @ \cup {Ev(t).c}]
    /\ LET acked == Put(net, Req(t, "ack", Ev(t).c, {})) IN
       IF Ev(t).restore THEN net' = acked /\ UNCHANGED parallel ELSE saveProgress(t, acked)
    /\ board' = onChallengeSolvedWebsocket(t)
    /\ Crosses(t)
    /\ UNCHANGED <<svars, conn, todo, hist, cookie, backup, dialog, doubled>>

onCodeChallengeSolved(t) ==
    /\ sock[t] # <<>> /\ Ev(t).ev = "code"
    /\ Handled(t)
    /\ board' = onCodeChallengeSolvedWebsocket(t)
    /\ Crosses(t)
    /\ UNCHANGED <<svars, net, conn, todo, hist, cookie, backup, dialog, boxes, parallel, doubled>>

(* The requests that hand codes back to the server.                        *)
Apply(t, codes) ==
    LET c == CHOOSE c \in Challenges : TRUE IN
    SetToBag({r \in {Req(t, "restore", c, codes.hack), Req(t, "restoreFind", c, codes.find),
                     Req(t, "restoreFix", c, codes.fix)} : r.v # {}})

(* Variant: only the hacking challenges are restored.                      *)
onServerStartedHackOnly(t) ==
    /\ sock[t] # <<>> /\ Ev(t).ev = "started"
    /\ Handled(t)
    /\ net' = net (+) Apply(t, [NoCodes EXCEPT !.hack = cookie.hack])
    /\ UNCHANGED <<svars, conn, todo, hist, cvars>>

(* ServerStartedNotificationComponent.                                     *)
onServerStarted(t) ==
    /\ sock[t] # <<>> /\ Ev(t).ev = "started"
    /\ Handled(t)
    /\ net' = net (+) Apply(t, cookie)
    /\ UNCHANGED <<svars, conn, todo, hist, cvars>>

(* The answer with the continue code.                                      *)
onContinueCode(e) ==
    /\ e.op = "code" /\ e.at = "ans" /\ BagIn(e, net)
    /\ net' = Take(net, e)
    /\ cookie' = IF e.v = {} THEN cookie ELSE [cookie EXCEPT !.hack = e.v]
    /\ UNCHANGED <<svars, sock, conn, todo, hist, backup, board, dialog, boxes, parallel, crossed, doubled>>

(* closeNotification, with the shift key for all of them.                  *)
closeNotification(t) ==
    /\ boxes[t] # {} /\ Spend("close")
    /\ boxes' = [boxes EXCEPT ![t] = {}]
    /\ UNCHANGED <<svars, wires, hist, cookie, backup, board, dialog, parallel, crossed, doubled>>

(* clearProgress removes the cookies.                                      *)
clearProgress ==
    /\ Spend("clear")
    /\ cookie' = NoCodes
    /\ parallel' = TRUE
    /\ UNCHANGED <<svars, wires, hist, backup, board, dialog, boxes, crossed, doubled>>

-----------------------------------------------------------------------------
(* LocalBackupService.                                                     *)

(* The three codes are read one after the other, as the server answers;    *)
(* when a request fails the cookies are saved instead.                     *)
saveBackup(t) ==
    /\ conn[t] /\ Spend("backup")
    /\ \/ backup' = [hack |-> {c \in Challenges : cache[c]}, find |-> {c \in Challenges : db[c].code >= 1},
                     fix |-> {c \in Challenges : db[c].code >= 2}]
       \/ backup' = cookie
    /\ UNCHANGED <<svars, wires, hist, cookie, board, dialog, boxes, parallel, crossed, doubled>>

(* The cookies are those of the file, and the user applies them.           *)
restoreBackup(t) ==
    /\ conn[t] /\ backup # NoCodes /\ Spend("apply")
    /\ cookie' = backup
    /\ net' = net (+) Apply(t, backup)
    /\ parallel' = TRUE
    /\ crossed' = [u \in Tabs |-> TRUE]
    /\ UNCHANGED <<svars, sock, conn, hist, backup, board, dialog, boxes, doubled>>

-----------------------------------------------------------------------------
(* The score board.                                                        *)

(* ngOnInit: the challenges, the hints and the configuration are loaded.   *)
openBoard(t) ==
    /\ conn[t] /\ board[t] = NoBoard /\ Spend("board")
    /\ net' = Put(net, Req(t, "board", CHOOSE c \in Challenges : TRUE, {}))
    /\ UNCHANGED <<svars, sock, conn, hist, cvars>>

onChallenges(e) ==
    /\ e.op = "board" /\ e.at = "ans" /\ BagIn(e, net)
    /\ net' = Take(net, e)
    /\ board' = [board EXCEPT ![e.t] = e.rows]
    /\ UNCHANGED <<svars, sock, conn, todo, hist, cookie, backup, dialog, boxes, parallel, crossed, doubled>>

(* With restrictToTutorialsFirst the others wait for the tutorials.        *)
filterChallenges(t) ==
    {c \in Challenges : c \in Tutorial \/ \A d \in Tutorial : board[t][d].solved}

(* unlockHint loads the board again.                                       *)
unlockHint(t, c) ==
    /\ board[t] # NoBoard /\ c \in filterChallenges(t) /\ Spend("hint")
    /\ net' = Put(net, Req(t, "hint", c, {}))
    /\ UNCHANGED <<svars, sock, conn, hist, cvars>>

onHint(e) ==
    /\ e.op = "hint" /\ e.at = "ans" /\ BagIn(e, net)
    /\ net' = Swap(net, e, Req(e.t, "board", e.c, {}))
    /\ UNCHANGED <<svars, sock, conn, todo, hist, cvars>>

repeatChallengeNotification(t, c) ==
    /\ board[t] # NoBoard /\ c \in filterChallenges(t) /\ board[t][c].solved /\ Spend("repeat")
    /\ net' = Put(net, Req(t, "repeat", c, {}))
    /\ UNCHANGED <<svars, sock, conn, hist, cvars>>

-----------------------------------------------------------------------------
(* The dialog of a coding challenge.                                       *)

openCodingChallengeDialog(t, c) ==
    /\ board[t] # NoBoard /\ c \in filterChallenges(t) \cap Coding /\ ~dialog[t].open /\ Spend("dialog")
    /\ dialog' = [dialog EXCEPT ![t] = NewDialog(c, board[t][c].code)]
    /\ net' = net (+) SetToBag({Req(t, "snippet", c, {}), Req(t, "fixes", c, {})})
    /\ UNCHANGED <<svars, sock, conn, hist, cookie, backup, board, boxes, parallel, crossed, doubled>>

(* toggleTab.                                                              *)
Toggled(d, tab) ==
    [d EXCEPT !.tab = tab,
              !.result = IF (tab = 0 /\ d.find) \/ (tab = 1 /\ d.fix) THEN "Right" ELSE "Undecided"]

(* Variant: the tab is set when both answers are good.                     *)
setInitialTabIfGood(d) ==
    IF d.set \/ {d.snippet, d.fixes} # {"ok"} THEN d
    ELSE Toggled([d EXCEPT !.set = TRUE], IF d.status = 1 /\ d.fixes = "ok" THEN 1 ELSE 0)

setInitialTabIfReady(d) ==
    IF d.set \/ "wait" \in {d.snippet, d.fixes} THEN d
    ELSE Toggled([d EXCEPT !.set = TRUE], IF d.status = 1 /\ d.fixes = "ok" THEN 1 ELSE 0)

onSnippet(e) ==
    /\ e.op = "snippet" /\ e.at = "ans" /\ BagIn(e, net)
    /\ net' = Take(net, e)
    /\ LET d == dialog[e.t]
           got == IF e.word = "ok" THEN [d EXCEPT !.snippet = "ok", !.find = d.status >= 1,
                                               !.result = IF d.status >= 1 THEN "Right" ELSE @]
                  ELSE [d EXCEPT !.snippet = "error"]
       IN dialog' = [dialog EXCEPT ![e.t] = setInitialTabIfReady(got)]
    /\ UNCHANGED <<svars, sock, conn, todo, hist, cookie, backup, board, boxes, parallel, crossed, doubled>>

onFixes(e) ==
    /\ e.op = "fixes" /\ e.at = "ans" /\ BagIn(e, net)
    /\ net' = Take(net, e)
    /\ dialog' = [dialog EXCEPT ![e.t] =
                     setInitialTabIfReady([@ EXCEPT !.fixes = "ok", !.fix = dialog[e.t].status >= 2])]
    /\ UNCHANGED <<svars, sock, conn, todo, hist, cookie, backup, board, boxes, parallel, crossed, doubled>>

(* The second tab opens when the lines are found.                          *)
toggleTab(t, tab) ==
    /\ dialog[t].open /\ dialog[t].tab # tab /\ Spend("toggle")
    /\ tab = 1 => dialog[t].fixes = "ok" /\ dialog[t].find
    /\ dialog' = [dialog EXCEPT ![t] = Toggled(@, tab)]
    /\ UNCHANGED <<svars, wires, hist, cookie, backup, board, boxes, parallel, crossed, doubled>>

(* The button stays enabled until a right verdict is back; lines can be    *)
(* selected in a snippet that is shown.  The events about both phases go   *)
(* to every tab, whichever tab was used.                                   *)
checkLines(t, word) ==
    /\ dialog[t].open /\ dialog[t].tab = 0 /\ ~dialog[t].find /\ Spend("submit")
    /\ word = "right" => dialog[t].snippet = "ok"
    /\ net' = Put(net, [Req(t, "lines", dialog[t].c, {}) EXCEPT !.word = word])
    /\ crossed' = [u \in Tabs |-> crossed[u] \/ db[dialog[t].c].code = 2 \/ \E w \in Tabs : InFlight(w, {"fix"})]
    /\ doubled' = [doubled EXCEPT ![t] = @ \/ InFlight(t, {"lines"})]
    /\ UNCHANGED <<svars, sock, conn, hist, cookie, backup, board, dialog, boxes, parallel>>

checkFix(t, word) ==
    /\ dialog[t].open /\ dialog[t].tab = 1 /\ ~dialog[t].fix /\ dialog[t].fixes = "ok" /\ Spend("submit")
    /\ net' = Put(net, [Req(t, "fix", dialog[t].c, {}) EXCEPT !.word = word])
    /\ crossed' = [u \in Tabs |-> crossed[u] \/ \E w \in Tabs : InFlight(w, {"lines"})]
    /\ doubled' = [doubled EXCEPT ![t] = @ \/ InFlight(t, {"lines"})]
    /\ UNCHANGED <<svars, sock, conn, hist, cookie, backup, board, dialog, boxes, parallel>>

(* setVerdict: a right verdict counts for the tab that is shown.           *)
setVerdict(d, verdict) ==
    IF d.result = "Right" THEN d
    ELSE IF ~verdict THEN [d EXCEPT !.result = "Wrong"]
    ELSE IF d.tab = 0 THEN [d EXCEPT !.find = TRUE, !.result = "Right", !.cheer = TRUE]
    ELSE [d EXCEPT !.fix = TRUE, !.result = "Right", !.cheer = TRUE]

(* The code of the phase that was marked is asked for.                     *)
CodeRequests(t, old, new) ==
    SetToBag((IF new.find # old.find THEN {Req(t, "codeFind", old.c, {})} ELSE {})
             \cup (IF new.fix # old.fix THEN {Req(t, "codeFix", old.c, {})} ELSE {}))

(* An error has no handler.                                                *)
onVerdict(e) ==
    /\ e.op \in {"lines", "fix"} /\ e.at = "ans" /\ BagIn(e, net)
    /\ LET old == dialog[e.t]
           new == IF e.word \in {"right", "wrong"} THEN setVerdict(old, e.word = "right") ELSE old
       IN /\ dialog' = [dialog EXCEPT ![e.t] = new]
          /\ net' = Take(net, e) (+) CodeRequests(e.t, old, new)
    /\ UNCHANGED <<svars, sock, conn, todo, hist, cookie, backup, board, boxes, parallel, crossed, doubled>>

(* After the confetti the second tab is shown.                             *)
shootConfetti(t) ==
    /\ dialog[t].open /\ dialog[t].cheer
    /\ LET d == [dialog[t] EXCEPT !.cheer = FALSE] IN
       dialog' = [dialog EXCEPT ![t] = IF d.tab = 0 /\ d.fixes = "ok" THEN Toggled(d, 1) ELSE d]
    /\ UNCHANGED <<svars, wires, todo, hist, cookie, backup, board, boxes, parallel, crossed, doubled>>

onContinueCodeFindIt(e) ==
    /\ e.op = "codeFind" /\ e.at = "ans" /\ BagIn(e, net)
    /\ net' = Take(net, e)
    /\ cookie' = IF e.v = {} THEN cookie ELSE [cookie EXCEPT !.find = e.v]
    /\ UNCHANGED <<svars, sock, conn, todo, hist, backup, board, dialog, boxes, parallel, crossed, doubled>>

onContinueCodeFixIt(e) ==
    /\ e.op = "codeFix" /\ e.at = "ans" /\ BagIn(e, net)
    /\ net' = Take(net, e)
    /\ cookie' = IF e.v = {} THEN cookie ELSE [cookie EXCEPT !.fix = e.v]
    /\ UNCHANGED <<svars, sock, conn, todo, hist, backup, board, dialog, boxes, parallel, crossed, doubled>>

-----------------------------------------------------------------------------
Init ==
    /\ InitProgress
    /\ todo \in Scenarios
    /\ cookie = NoCodes
    /\ backup = NoCodes
    /\ board = [t \in Tabs |-> NoBoard]
    /\ dialog = [t \in Tabs |-> Closed]
    /\ boxes = [t \in Tabs |-> {}]
    /\ parallel = FALSE
    /\ crossed = [t \in Tabs |-> FALSE]
    /\ doubled = [t \in Tabs |-> FALSE]

(* The tabs stay as they are; a dialog that waits has its requests failed. *)
Crash ==
    /\ Restart
    /\ crossed' = [t \in Tabs |-> TRUE]
    /\ dialog' = [t \in Tabs |-> Closed]
    /\ UNCHANGED <<cookie, backup, board, boxes, parallel, doubled>>

Serve == 
    /\ \/ \E e \in BagToSet(work) : Settle(e)
       \/ \E e \in BagToSet(net) : Handle(e)
       \/ \E t \in Tabs : connection(t)
    /\ UNCHANGED cvars

React ==
    \/ \E t \in Tabs : onChallengeSolved(t) \/ onCodeChallengeSolved(t) \/ onServerStarted(t) \/ shootConfetti(t)
    \/ \E e \in BagToSet(net) :
         \/ onContinueCode(e) \/ onContinueCodeFindIt(e) \/ onContinueCodeFixIt(e)
         \/ onChallenges(e) \/ onHint(e) \/ onSnippet(e) \/ onFixes(e) \/ onVerdict(e)

User ==
    \/ Occur /\ UNCHANGED cvars
    \/ clearProgress
    \/ \E t \in Tabs :
         \/ closeNotification(t) \/ saveBackup(t) \/ restoreBackup(t) \/ openBoard(t)
         \/ \E c \in Challenges :
              unlockHint(t, c) \/ repeatChallengeNotification(t, c) \/ openCodingChallengeDialog(t, c)
         \/ \E tab \in {0, 1} : toggleTab(t, tab)
         \/ \E word \in {"right", "wrong"} : checkLines(t, word) \/ checkFix(t, word)

Next == Serve \/ React \/ User \/ Crash

(* The event loops run: promises settle, requests are handled, sockets     *)
(* reconnect, answers and events are delivered.                            *)
Fairness == WF_vars(Serve) /\ WF_vars(React)

Spec == Init /\ [][Next]_vars /\ Fairness

-----------------------------------------------------------------------------
(* Properties.                                                             *)

Rest == net = EmptyBag /\ work = EmptyBag /\ \A t \in Tabs : conn[t] /\ sock[t] = <<>>

(* The variables have the values the code gives them.                      *)
TypeOK ==
    /\ cache \in [Challenges -> BOOLEAN]
    /\ db \in [Challenges -> ChallengeTable]
    /\ accuracy \in [Challenges -> [find : BOOLEAN, fix : BOOLEAN, findTries : Nat, fixTries : Nat]]
    /\ snippets \in {"null", "loading", "full", "empty"}
    /\ cookie \in [hack : SUBSET Challenges, find : SUBSET Coding, fix : SUBSET Coding]
    /\ \A t \in Tabs : board[t] # NoBoard => board[t] \in [Challenges -> ChallengeTable]

(* A challenge is scored once between two starts of the server.  Only one  *)
(* that is verified by queries can be scored again: notSolved is asked     *)
(* before the queries and not after them.                                  *)
ScoredOnce == \A c \in Challenges \ Checked : solves[c] <= 1

(* The status of a coding challenge does not fall while the server runs,   *)
(* although both phases, their repetitions and the restoring of either run *)
(* at the same time.                                                       *)
StatusNeverFalls == [][restarts' = restarts => \A c \in Challenges : db'[c].code >= db[c].code]_vars

(* A score board shows a challenge as solved, or a phase as done, only     *)
(* when the row says so.                                                   *)
BoardNotAhead ==
    restarts = 0 => \A t \in Tabs : board[t] # NoBoard =>
        \A c \in Challenges : (board[t][c].solved => db[c].solved) /\ board[t][c].code <= db[c].code

(* When nothing is on the way a score board shows what the rows say,       *)
(* unless an event came while the board was loading, the lines of a coding *)
(* challenge were checked while or after its fix was, in whichever tab, a  *)
(* backup was applied (restored phases send no event) or the server        *)
(* crashed.                                                                *)
BoardAtRest ==
    Rest => \A t \in Tabs : board[t] = NoBoard \/ crossed[t] \/ board[t] = db

(* When nothing is on the way every notification is confirmed, unless a    *)
(* challenge was solved again before the first notification was confirmed: *)
(* the second one is kept but not sent.  So it is when a board that is     *)
(* older than a crash repeats a notification while the row is being saved. *)
NotificationsAtRest ==
    Rest => notifs = <<>> \/ \E c \in Challenges : times[c] > 1

(* When nothing is on the way the cookie stands for every solved           *)
(* challenge, unless two continue codes were asked for at the same time,   *)
(* so that the older one may have come last, or the server crashed or the  *)
(* cookies were exchanged.                                                 *)
CookieAtRest ==
    Rest /\ ~parallel /\ restarts = 0 =>
        cookie.hack = {c \in Challenges : cache[c]}

(* The dialog marks a phase as done only when the row says so, unless the  *)
(* lines were submitted twice: the second verdict then counts for the tab  *)
(* that is shown by then.  A board that is older than a crash still shows  *)
(* the status of the rows that are gone, and so does a dialog that is      *)
(* opened from it.                                                         *)
Backed(d, code) == db[d.c].code >= code \/ (restarts > 0 /\ d.status >= code)
DialogIsBacked ==
    \A t \in Tabs : dialog[t].open /\ ~doubled[t] =>
        (dialog[t].find => Backed(dialog[t], 1)) /\ (dialog[t].fix => Backed(dialog[t], 2))

(* What the cookies stand for is restored after a crash: one of the tabs   *)
(* is the first to connect.                                                *)
Restored ==
    \A c \in Challenges :
        /\ (c \in cookie.hack ~> db[c].solved \/ c \notin cookie.hack)
        /\ (c \in cookie.fix ~> db[c].code = 2 \/ c \notin cookie.fix)

(* A dialog gets its snippet or an error.                                  *)
DialogLoads == \A t \in Tabs : dialog[t].open ~> ~dialog[t].open \/ dialog[t].set

(* What is scored or shown as done (solve, the score board, the dialog of  *)
(* a coding challenge) has been done.                                      *)
ShownIsBacked == TypeOK /\ ScoredOnce /\ BoardNotAhead /\ DialogIsBacked

(* When nothing is on the way, the board, the list of notifications and    *)
(* the cookie with the continue code are up to date.                       *)
SettledAtRest == BoardAtRest /\ NotificationsAtRest /\ CookieAtRest

(* Progress is kept: phases are not undone, a restart of the server loses  *)
(* nothing the cookies stand for, and a dialog comes to show its snippet   *)
(* (setStatusById in vulnCodeFixes.ts and vulnCodeSnippet.ts, the          *)
(* restoring of ServerStartedNotificationComponent, getCodeChallenges).    *)
ProgressKept == StatusNeverFalls /\ Restored /\ DialogLoads
=============================================================================
