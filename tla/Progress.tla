------------------------------ MODULE Progress ------------------------------
(***************************************************************************)
(* How the Juice Shop server keeps the progress of its users: challenges   *)
(* that are solved by middleware and by queries, the notifications about   *)
(* them, continue codes, coding challenges and their verdicts.             *)
(*                                                                         *)
(* Node runs one handler at a time up to its next await: a step here is    *)
(* what runs between two awaits.  The database is recreated when the       *)
(* server starts.                                                          *)
(***************************************************************************)
EXTENDS Naturals, Sequences, FiniteSets, Bags

CONSTANTS
    Challenges,
    Coding,         \* the challenges with a coding challenge
    Checked,        \* the challenges that are verified by queries
    Tabs,           \* the tabs of the browser
    MaxRestarts     \* bound: crashes of the server

ASSUME ProgressAssumption ==
    /\ Challenges # {} /\ Coding \subseteq Challenges /\ Checked \subseteq Challenges
    /\ Tabs # {}
    /\ MaxRestarts \in Nat

VARIABLES
    cache,      \* challenge -> solved, in the objects of datacache
    db,         \* challenge -> its row
    notifs,     \* the notifications nobody has confirmed
    first,      \* a socket was connected since the start
    solves,     \* challenge -> how often it was scored
    accuracy,   \* challenge -> the verdicts about its coding challenge
    snippets,   \* the cache of the code snippets
    work,       \* bag of promises of the server that are not settled
    net,        \* bag of requests and answers between the tabs and the server
    sock,       \* tab -> the events on the way to it
    conn,       \* tab -> its socket is connected
    todo,       \* bound: what still happens in this behaviour
    restarts,
    times       \* history: challenge -> calls of solve since the start, and repetitions before its row was saved

svars == <<cache, db, notifs, first, solves, accuracy, snippets, work>>
wires == <<net, sock, conn>>
hist == <<restarts, times>>

ChallengeTable == [solved : BOOLEAN, code : 0..2]
HintTable == Nat                               \* how many hints are unlocked

NewRow == [solved |-> FALSE, code |-> 0]
NoVerdict == [find |-> FALSE, fix |-> FALSE, findTries |-> 0, fixTries |-> 0]

(* The endpoints behind the services, by the handler's first step.         *)
ChallengeService == {"board", "code", "codeFind", "codeFix", "restore", "restoreFind", "restoreFix", "repeat"}
HintService == {"hint"}
CodeSnippetService == {"snippet"}
CodeFixesService == {"fixes", "fix"}
VulnLinesService == {"lines"}

(* A message carries a set of challenges, a word or the rows.              *)
NoRows == [c \in Challenges |-> NewRow]
Req(t, op, c, v) == [t |-> t, op |-> op, c |-> c, at |-> "req", v |-> v, word |-> "", rows |-> NoRows]
Put(b, e) == b (+) SetToBag({e})
Swap(b, e, f) == (b (-) SetToBag({e})) (+) SetToBag({f})
Take(b, e) == b (-) SetToBag({e})
Answer(e, v) == Swap(net, e, [e EXCEPT !.at = "ans", !.v = v])
Reply(e, word) == Swap(net, e, [e EXCEPT !.at = "ans", !.word = word])

Spend(k) == todo[k] > 0 /\ todo' = [todo EXCEPT ![k] = @ - 1]

-----------------------------------------------------------------------------
(* Solving a challenge.                                                    *)

notSolved(c) == ~cache[c]

(* solve: the cached object is marked at once; its row, the notification   *)
(* and the score follow when save() is done.                               *)
Promise(c, isRestore) == [op |-> "save", c |-> c, restore |-> isRestore]
solve(c, w, isRestore) ==
    /\ cache' = [cache EXCEPT ![c] = TRUE]
    /\ work' = Put(w, Promise(c, isRestore))
    /\ times' = [times EXCEPT ![c] = @ + 1]

(* Variant: a challenge is solved again by every request that qualifies.   *)
solveIfAlways(c, w) == solve(c, w, FALSE)

solveIf(c, w) ==
    \/ notSolved(c) /\ solve(c, w, FALSE)
    \/ ~notSolved(c) /\ work' = w /\ UNCHANGED <<cache, times>>

(* io.emit to every connected socket.                                      *)
Emit(ev) == [t \in Tabs |-> IF conn[t] THEN Append(sock[t], ev) ELSE sock[t]]

SolvedEvent(c, isRestore) == [ev |-> "solved", c |-> c, restore |-> isRestore, code |-> 0]
CodeEvent(c, status) == [ev |-> "code", c |-> c, restore |-> FALSE, code |-> status]
StartedEvent == [ev |-> "started", c |-> CHOOSE c \in Challenges : TRUE, restore |-> FALSE, code |-> 0]

(* A notification is kept until it is confirmed, and emitted unless one    *)
(* about the same challenge is still kept.                                 *)
sendNotification(c, isRestore) ==
    /\ notifs' = Append(notifs, SolvedEvent(c, isRestore))
    /\ sock' = IF isRestore \/ \A i \in DOMAIN notifs : notifs[i].c # c
               THEN Emit(SolvedEvent(c, isRestore)) ELSE sock

sendCodingChallengeNotification(c, status) == sock' = Emit(CodeEvent(c, status))

calculateCheatScore(c) == solves' = [solves EXCEPT ![c] = @ + 1]

(* Variant: the notification is sent while the row is being saved.         *)
savedLate(e) ==
    /\ e.op = "save" /\ BagIn(e, work)
    /\ sendNotification(e.c, e.restore)
    /\ work' = Swap(work, e, [e EXCEPT !.op = "row"])
    /\ IF e.restore THEN UNCHANGED solves ELSE calculateCheatScore(e.c)
    /\ UNCHANGED <<cache, db, first, accuracy, snippets, net, conn, todo, hist>>

(* challenge.save() is done.                                               *)
saved(e) ==
    /\ e.op = "save" /\ BagIn(e, work)
    /\ db' = [db EXCEPT ![e.c].solved = TRUE]
    /\ sendNotification(e.c, e.restore)
    /\ IF e.restore THEN UNCHANGED solves ELSE calculateCheatScore(e.c)
    /\ work' = IF e.restore THEN Take(work, e) ELSE Swap(work, e, [e EXCEPT !.op = "webhook"])
    /\ UNCHANGED <<cache, first, accuracy, snippets, net, conn, todo, hist>>

(* The hints are counted and the webhook is notified; a failure is logged. *)
notify(e) ==
    /\ e.op = "webhook" /\ BagIn(e, work)
    /\ work' = Take(work, e)
    /\ UNCHANGED <<cache, db, notifs, first, solves, accuracy, snippets, wires, todo, hist>>

(* A request to the shop qualifies for a challenge: middleware and route   *)
(* handlers look at the request and call solveIf.                          *)
accessControlChallenges(c) ==
    /\ c \notin Checked /\ Spend("solve")
    /\ solveIf(c, work)
    /\ UNCHANGED <<db, notifs, first, solves, accuracy, snippets, wires, restarts>>

(* jwtChallenges: notSolved now, solveIf when the token is verified.       *)
jwtChallenges(c) ==
    /\ c \notin Checked /\ notSolved(c) /\ Spend("token")
    /\ work' = Put(work, [op |-> "token", c |-> c])
    /\ UNCHANGED <<cache, db, notifs, first, solves, accuracy, snippets, wires, hist>>

jwtVerified(e) ==
    /\ e.op = "token" /\ BagIn(e, work)
    /\ solveIf(e.c, Take(work, e))
    /\ UNCHANGED <<db, notifs, first, solves, accuracy, snippets, wires, todo, restarts>>

(* databaseRelatedChallenges, on every request: a challenge that is not    *)
(* solved is looked for in the feedback and in the complaints.             *)
(* What the rows are searched for is left out: each challenge has a query  *)
(* of its own, in both tables.                                             *)
queries(c) == {[op |-> "count", c |-> c, table |-> tb] : tb \in {"feedback", "complaint"}}
checkPatternInFeedbackAndComplaints(c) == work' = work (+) SetToBag(queries(c))

databaseRelatedChallenges(c) ==
    /\ c \in Checked /\ notSolved(c) /\ Spend("check")
    /\ checkPatternInFeedbackAndComplaints(c)
    /\ UNCHANGED <<cache, db, notifs, first, solves, accuracy, snippets, wires, hist>>

(* A query returns rows, or none; a challenge with one query is one whose  *)
(* other query returns none.  notSolved is not asked again.                *)
counted(e) ==
    /\ e.op = "count" /\ BagIn(e, work)
    /\ \/ solve(e.c, Take(work, e), FALSE)
       \/ work' = Take(work, e) /\ UNCHANGED <<cache, times>>
    /\ UNCHANGED <<db, notifs, first, solves, accuracy, snippets, wires, todo, restarts>>

-----------------------------------------------------------------------------
(* Sockets.                                                                *)

(* io.on('connection').                                                    *)
connection(t) ==
    /\ ~conn[t]
    /\ conn' = [conn EXCEPT ![t] = TRUE]
    /\ first' = TRUE
    /\ sock' = [sock EXCEPT ![t] = (IF first THEN <<>> ELSE <<StartedEvent>>) \o notifs]
    /\ UNCHANGED <<cache, db, notifs, solves, accuracy, snippets, work, net, todo, hist>>

(* Variant: the index of the first notification is taken for none.         *)
notificationReceivedOffByOne(e) ==
    /\ e.op = "ack" /\ BagIn(e, net)
    /\ net' = Take(net, e)
    /\ notifs' = SelectSeq(notifs, LAMBDA x : x = notifs[1] \/ x.c # e.c)
    /\ UNCHANGED <<cache, db, first, solves, accuracy, snippets, work, sock, conn, todo, hist>>

(* The first notification with this flag is dropped.                       *)
First(c) == CHOOSE i \in DOMAIN notifs : notifs[i].c = c /\ \A j \in 1..(i - 1) : notifs[j].c # c
notificationReceived(e) ==
    /\ e.op = "ack" /\ BagIn(e, net)
    /\ net' = Take(net, e)
    /\ notifs' = IF \E i \in DOMAIN notifs : notifs[i].c = e.c
                 THEN [i \in 1..(Len(notifs) - 1) |-> IF i < First(e.c) THEN notifs[i] ELSE notifs[i + 1]]
                 ELSE notifs
    /\ UNCHANGED <<cache, db, first, solves, accuracy, snippets, work, sock, conn, todo, hist>>

-----------------------------------------------------------------------------
(* Requests.                                                               *)

(* GET /api/Challenges.                                                    *)
listChallenges(e) ==
    /\ e.op = "board" /\ e.at = "req" /\ BagIn(e, net)
    /\ net' = Swap(net, e, [e EXCEPT !.at = "ans", !.rows = db])
    /\ UNCHANGED <<svars, sock, conn, todo, hist>>

continueCode(e) ==
    /\ e.op = "code" /\ e.at = "req" /\ BagIn(e, net)
    /\ net' = Answer(e, {c \in Challenges : cache[c]})
    /\ UNCHANGED <<svars, sock, conn, todo, hist>>

continueCodeFindIt(e) ==
    /\ e.op = "codeFind" /\ e.at = "req" /\ BagIn(e, net)
    /\ net' = Answer(e, {c \in Challenges : db[c].code >= 1})
    /\ UNCHANGED <<svars, sock, conn, todo, hist>>

continueCodeFixIt(e) ==
    /\ e.op = "codeFix" /\ e.at = "req" /\ BagIn(e, net)
    /\ net' = Answer(e, {c \in Challenges : db[c].code >= 2})
    /\ UNCHANGED <<svars, sock, conn, todo, hist>>

(* Every challenge of the code is solved, also those that are already.     *)
restoreProgress(e) ==
    /\ e.op = "restore" /\ BagIn(e, net)
    /\ net' = Take(net, e)
    /\ cache' = [c \in Challenges |-> cache[c] \/ c \in e.v]
    /\ work' = work (+) SetToBag({Promise(c, TRUE) : c \in e.v})
    /\ times' = [c \in Challenges |-> IF c \in e.v THEN times[c] + 1 ELSE times[c]]
    /\ UNCHANGED <<db, notifs, first, solves, accuracy, snippets, sock, conn, todo, restarts>>

(* Variant: the first phase is recorded whatever the status was.           *)
FindItAlways(c) == db' = [db EXCEPT ![c].code = 1]

(* The update of solveFindIt: only where the status is below 2.            *)
FindIt(c) == db' = [db EXCEPT ![c].code = IF @ < 2 THEN 1 ELSE @]

(* Variant: the second phase is counted on top of the first.               *)
FixItAdding(c) == db' = [db EXCEPT ![c].code = @ + 1]

FixIt(c) == db' = [db EXCEPT ![c].code = 2]

(* One challenge after the other, each with an await.                      *)
restoreProgressFindIt(e) ==
    /\ e.op = "restoreFind" /\ BagIn(e, net)
    /\ \E c \in e.v : FindIt(c) /\ net' = IF e.v = {c} THEN Take(net, e) ELSE Swap(net, e, [e EXCEPT !.v = @ \ {c}])
    /\ UNCHANGED <<cache, notifs, first, solves, accuracy, snippets, work, sock, conn, todo, hist>>

restoreProgressFixIt(e) ==
    /\ e.op = "restoreFix" /\ BagIn(e, net)
    /\ \E c \in e.v : FixIt(c) /\ net' = IF e.v = {c} THEN Take(net, e) ELSE Swap(net, e, [e EXCEPT !.v = @ \ {c}])
    /\ UNCHANGED <<cache, notifs, first, solves, accuracy, snippets, work, sock, conn, todo, hist>>

repeatNotification(e) ==
    /\ e.op = "repeat" /\ BagIn(e, net)
    /\ net' = Take(net, e)
    /\ IF cache[e.c] THEN sendNotification(e.c, TRUE) ELSE UNCHANGED <<notifs, sock>>
    /\ times' = IF cache[e.c] /\ ~db[e.c].solved THEN [times EXCEPT ![e.c] = @ + 1] ELSE times
    /\ UNCHANGED <<cache, db, first, solves, accuracy, snippets, work, conn, todo, restarts>>

(* PUT /api/Hints/:id.                                                     *)
putHint(e) ==
    /\ e.op = "hint" /\ e.at = "req" /\ BagIn(e, net)
    /\ net' = Reply(e, "ok")
    /\ UNCHANGED <<svars, sock, conn, todo, hist>>

-----------------------------------------------------------------------------
(* Coding challenges.                                                      *)

(* getCodeChallenges: the first request puts an empty map in place and     *)
(* fills it when the files are read; whoever comes meanwhile gets the map  *)
(* as it is.  retrieveCodeSnippet then has no snippet.                     *)
retrieveCodeSnippet(e, found) ==
    CASE snippets = "null" -> snippets' = "loading" /\ net' = Swap(net, e, [e EXCEPT !.at = "load"])
      [] snippets = "full" -> net' = found /\ UNCHANGED snippets
      [] OTHER -> net' = Reply(e, "404") /\ UNCHANGED snippets

(* findFilesWithCodeChallenges is done, or a file has gone between readdir *)
(* and lstat: the request is answered with the error, and the map stays    *)
(* empty for good.                                                         *)
findFilesWithCodeChallenges(e) ==
    /\ e.at = "load" /\ BagIn(e, net)
    /\ \/ /\ snippets' = "full"
          /\ net' = Swap(net, e, [e EXCEPT !.at = "req"])
          /\ UNCHANGED todo
       \/ /\ Spend("fail")
          /\ snippets' = "empty"
          /\ net' = Reply(e, "error")
    /\ UNCHANGED <<cache, db, notifs, first, solves, accuracy, work, sock, conn, hist>>

serveCodeSnippet(e) ==
    /\ e.op = "snippet" /\ e.at = "req" /\ BagIn(e, net)
    /\ retrieveCodeSnippet(e, Reply(e, "ok"))
    /\ UNCHANGED <<cache, db, notifs, first, solves, accuracy, work, sock, conn, todo, restarts, times>>

(* readFixes is synchronous.                                               *)
serveCodeFixes(e) ==
    /\ e.op = "fixes" /\ e.at = "req" /\ BagIn(e, net)
    /\ net' = Reply(e, "ok")
    /\ UNCHANGED <<svars, sock, conn, todo, hist>>

(* The verdicts and the attempts before the first right one.               *)
storeFindItVerdict(c, verdict) ==
    accuracy' = IF accuracy[c].find THEN accuracy
                ELSE [accuracy EXCEPT ![c].find = verdict, ![c].findTries = @ + 1]
storeFixItVerdict(c, verdict) ==
    accuracy' = IF accuracy[c].fix THEN accuracy
                ELSE [accuracy EXCEPT ![c].fix = verdict, ![c].fixTries = @ + 1]

(* Variant: the answer does not wait for solveFindIt.                      *)
checkVulnLinesUnawaited(e) ==
    /\ e.op = "lines" /\ e.at = "req" /\ BagIn(e, net)
    /\ retrieveCodeSnippet(e, IF e.word = "right" THEN Put(Reply(e, "right"), [e EXCEPT !.at = "update"]) ELSE Reply(e, "wrong"))
    /\ UNCHANGED <<cache, db, notifs, first, solves, accuracy, work, sock, conn, todo, restarts, times>>

(* checkVulnLines: the snippet, then the update or the wrong verdict.      *)
checkVulnLines(e) ==
    /\ e.op = "lines" /\ e.at = "req" /\ BagIn(e, net)
    /\ retrieveCodeSnippet(e, IF e.word = "right" THEN Swap(net, e, [e EXCEPT !.at = "update"]) ELSE Reply(e, "wrong"))
    /\ IF snippets = "full" /\ e.word = "wrong" THEN storeFindItVerdict(e.c, FALSE) ELSE UNCHANGED accuracy
    /\ UNCHANGED <<cache, db, notifs, first, solves, work, sock, conn, todo, restarts, times>>

(* solveFindIt and solveFixIt: the update, the score, the notification.    *)
solveFindIt(e) ==
    /\ e.op = "lines" /\ e.at = "update" /\ BagIn(e, net)
    /\ FindIt(e.c)
    /\ storeFindItVerdict(e.c, TRUE)
    /\ net' = Swap(net, e, [e EXCEPT !.at = "score"])
    /\ UNCHANGED <<cache, notifs, first, solves, snippets, work, sock, conn, todo, hist>>

calculateFindItCheatScore(e) ==
    /\ e.op = "lines" /\ e.at = "score" /\ BagIn(e, net)
    /\ sendCodingChallengeNotification(e.c, 1)
    /\ net' = Reply(e, "right")
    /\ UNCHANGED <<svars, conn, todo, hist>>

checkCorrectFix(e) ==
    /\ e.op = "fix" /\ e.at = "req" /\ BagIn(e, net)
    /\ IF e.word = "right" THEN net' = Swap(net, e, [e EXCEPT !.at = "update"]) /\ UNCHANGED accuracy
       ELSE net' = Reply(e, "wrong") /\ storeFixItVerdict(e.c, FALSE)
    /\ UNCHANGED <<cache, db, notifs, first, solves, snippets, work, sock, conn, todo, hist>>

solveFixIt(e) ==
    /\ e.op = "fix" /\ e.at = "update" /\ BagIn(e, net)
    /\ FixIt(e.c)
    /\ storeFixItVerdict(e.c, TRUE)
    /\ net' = Swap(net, e, [e EXCEPT !.at = "score"])
    /\ UNCHANGED <<cache, notifs, first, solves, snippets, work, sock, conn, todo, hist>>

calculateFixItCheatScore(e) ==
    /\ e.op = "fix" /\ e.at = "score" /\ BagIn(e, net)
    /\ sendCodingChallengeNotification(e.c, 2)
    /\ net' = Reply(e, "right")
    /\ UNCHANGED <<svars, conn, todo, hist>>

-----------------------------------------------------------------------------
InitProgress ==
    /\ cache = [c \in Challenges |-> FALSE]
    /\ db = [c \in Challenges |-> NewRow]
    /\ notifs = <<>>
    /\ first = FALSE
    /\ solves = [c \in Challenges |-> 0]
    /\ accuracy = [c \in Challenges |-> NoVerdict]
    /\ snippets = "null"
    /\ work = EmptyBag
    /\ net = EmptyBag
    /\ sock = [t \in Tabs |-> <<>>]
    /\ conn = [t \in Tabs |-> FALSE]
    /\ restarts = 0
    /\ times = [c \in Challenges |-> 0]

(* The server dies and starts again: sequelize.sync({ force: true }) and   *)
(* a new data cache.  What was on the way fails.                           *)
Restart ==
    /\ restarts < MaxRestarts /\ Spend("restart")
    /\ restarts' = restarts + 1
    /\ cache' = [c \in Challenges |-> FALSE]
    /\ db' = [c \in Challenges |-> NewRow]
    /\ notifs' = <<>>
    /\ first' = FALSE
    /\ solves' = [c \in Challenges |-> 0]
    /\ accuracy' = [c \in Challenges |-> NoVerdict]
    /\ snippets' = "null"
    /\ work' = EmptyBag
    /\ net' = EmptyBag
    /\ sock' = [t \in Tabs |-> <<>>]
    /\ conn' = [t \in Tabs |-> FALSE]
    /\ times' = [c \in Challenges |-> 0]

Settle(e) == saved(e) \/ notify(e) \/ jwtVerified(e) \/ counted(e)

Handle(e) ==
    \/ notificationReceived(e)
    \/ listChallenges(e) \/ continueCode(e) \/ continueCodeFindIt(e) \/ continueCodeFixIt(e)
    \/ restoreProgress(e) \/ restoreProgressFindIt(e) \/ restoreProgressFixIt(e)
    \/ repeatNotification(e) \/ putHint(e)
    \/ findFilesWithCodeChallenges(e) \/ serveCodeSnippet(e) \/ serveCodeFixes(e)
    \/ checkVulnLines(e) \/ solveFindIt(e) \/ calculateFindItCheatScore(e)
    \/ checkCorrectFix(e) \/ solveFixIt(e) \/ calculateFixItCheatScore(e)

Occur ==
    \E c \in Challenges : accessControlChallenges(c) \/ jwtChallenges(c) \/ databaseRelatedChallenges(c)
=============================================================================
