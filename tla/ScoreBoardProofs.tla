-------------------------- MODULE ScoreBoardProofs --------------------------
(***************************************************************************)
(* Proofs about the progress of challenges and the tabs that show it.      *)
(*                                                                         *)
(* The inductive invariant says what every message on the way stands for:  *)
(* a verdict for a row that is updated, an event and an answer with rows   *)
(* for rows that are at least as far, a promise to save for a challenge    *)
(* that is not scored yet; and which messages a dialog waits for.          *)
(* A second one, which rests on it, says where everything is that a board, *)
(* the list of notifications or the cookie still lacks.                    *)
(***************************************************************************)
EXTENDS ScoreBoard, FiniteSetTheorems, TLAPS

-----------------------------------------------------------------------------
(* The values of the variables.                                            *)

Ops == ChallengeService \cup HintService \cup CodeSnippetService \cup CodeFixesService \cup VulnLinesService \cup {"ack"}
Rows == [Challenges -> ChallengeTable]
Codes == [hack : SUBSET Challenges, find : SUBSET Coding, fix : SUBSET Coding]

Messages ==
    [t : Tabs, op : Ops, c : Challenges, at : {"req", "ans", "load", "update", "score"}, v : SUBSET Challenges,
     word : {"", "ok", "404", "error", "right", "wrong"}, rows : Rows]
Events == [ev : {"solved", "code", "started"}, c : Challenges, restore : BOOLEAN, code : 0..2]
Saves == [op : {"save", "webhook"}, c : Challenges, restore : BOOLEAN]
Tokens == [op : {"token"}, c : Challenges \ Checked]
Counts == [op : {"count"}, c : Checked, table : {"feedback", "complaint"}]
Works == Saves \cup Tokens \cup Counts
Verdicts == [find : BOOLEAN, fix : BOOLEAN, findTries : Nat, fixTries : Nat]
Dialogs ==
    [open : {TRUE}, c : Coding, status : 0..2, snippet : {"wait", "ok", "error"}, fixes : {"wait", "ok"},
     set : BOOLEAN, tab : {0, 1}, result : {"Undecided", "Right", "Wrong"}, find : BOOLEAN, fix : BOOLEAN,
     cheer : BOOLEAN]

ServerTypes ==
    /\ cache \in [Challenges -> BOOLEAN]
    /\ db \in Rows
    /\ notifs \in Seq(Events)
    /\ solves \in [Challenges -> Nat]
    /\ accuracy \in [Challenges -> Verdicts]
    /\ snippets \in {"null", "loading", "full", "empty"}
    /\ restarts \in Nat

WorkTypes == IsABag(work) /\ BagToSet(work) \subseteq Works

WireTypes ==
    /\ IsABag(net) /\ BagToSet(net) \subseteq Messages
    /\ sock \in [Tabs -> Seq(Events)]
    /\ conn \in [Tabs -> BOOLEAN]

TabTypes ==
    /\ cookie \in Codes /\ backup \in Codes
    /\ DOMAIN board = Tabs /\ \A t \in Tabs : board[t] = NoBoard \/ board[t] \in Rows
    /\ DOMAIN dialog = Tabs /\ \A t \in Tabs : dialog[t] = Closed \/ dialog[t] \in Dialogs
    /\ crossed \in [Tabs -> BOOLEAN]
    /\ doubled \in [Tabs -> BOOLEAN]

Types == ServerTypes /\ WorkTypes /\ WireTypes /\ TabTypes

-----------------------------------------------------------------------------
(* How often an element is in a bag.                                       *)
Copies(e, b) == IF BagIn(e, b) THEN b[e] ELSE 0

(* The promise after which a challenge is scored.                          *)
ScorePromise(c) == Promise(c, FALSE)

(* A challenge that is not verified by queries is scored, or about to be   *)
(* scored, once, and its cached object says so.                            *)
Scoring ==
    \A c \in Challenges \ Checked :
        /\ solves[c] + Copies(ScorePromise(c), work) <= 1
        /\ solves[c] + Copies(ScorePromise(c), work) = 1 => cache[c]

(* Only coding challenges get a status, and only they are in the codes of  *)
(* the two phases.                                                         *)
CodedRows == \A c \in Challenges : db[c].code > 0 => c \in Coding
CodedMessage(e) ==
    /\ e.op \in {"lines", "fix"} => e.c \in Coding
    /\ e.op \in {"codeFind", "codeFix", "restoreFind", "restoreFix"} => e.v \subseteq Coding

(* A right verdict is given after the row is updated.                      *)
Decided(e) == e.at = "score" \/ (e.at = "ans" /\ e.word = "right")
TrueVerdict(e) ==
    /\ e.op \in {"lines", "fix"} /\ e.at \in {"update", "score"} => e.word = "right"
    /\ e.op = "lines" /\ Decided(e) => db[e.c].code >= 1
    /\ e.op = "fix" /\ Decided(e) => db[e.c].code = 2

(* What the server tells the tabs is in the rows, until it crashes.        *)
NotAhead(rows) == \A c \in Challenges : (rows[c].solved => db[c].solved) /\ rows[c].code <= db[c].code
FreshAnswer(e) ==
    /\ e.op = "board" /\ e.at = "ans" => NotAhead(e.rows)
    /\ e.op = "repeat" => db[e.c].solved
FreshEvent(x) == (x.ev = "solved" => db[x.c].solved) /\ (x.ev = "code" => x.code <= db[x.c].code)
FreshNotification(x) == x.ev = "solved" /\ db[x.c].solved

WaitsForSnippets(e) == e.at = "load" => e.op \in {"snippet", "lines"}

MessageIsTrue(e) ==
    CodedMessage(e) /\ TrueVerdict(e) /\ WaitsForSnippets(e) /\ (restarts = 0 => FreshAnswer(e))
MessagesAreTrue == \A e \in BagToSet(net) : MessageIsTrue(e)
NotificationsAreTrue == restarts = 0 => \A i \in DOMAIN notifs : FreshNotification(notifs[i])
EventsAreTrue == restarts = 0 => \A t \in Tabs : \A i \in DOMAIN sock[t] : FreshEvent(sock[t][i])
BoardsAreTrue == restarts = 0 => \A t \in Tabs : board[t] # NoBoard => NotAhead(board[t])
DialogsAreTrue == restarts = 0 => \A t \in Tabs : dialog[t].open => dialog[t].status <= db[dialog[t].c].code

-----------------------------------------------------------------------------
(* What a dialog waits for.                                                *)

About(b, t, op) == {e \in BagToSet(b) : e.t = t /\ e.op = op}
Lone(b, t, op) == \A e, f \in About(b, t, op) : e = f /\ Copies(e, b) = 1

(* The tab of the lines is shown until they are found.                     *)
Early(d) == d.snippet = "wait" \/ (d.status = 0 /\ ~d.find)

WhileClosed(b, t) == \A op \in {"snippet", "fixes", "lines", "fix"} : About(b, t, op) = {}
WhileOpen(b, t, d) ==
    /\ \A e \in About(b, t, "lines") \cup About(b, t, "fix") : e.c = d.c
    /\ Lone(b, t, "snippet")
    /\ About(b, t, "snippet") # {} => d.snippet = "wait"
    /\ Early(d) => About(b, t, "fix") = {}
    /\ d.snippet = "wait" => \A e \in About(b, t, "lines") : e.word # "right"
WhileOnce(b, t, d) ==
    /\ Lone(b, t, "lines")
    /\ \A e \in About(b, t, "lines") : e.word = "right" => d.snippet = "ok" /\ d.status = 0 /\ ~d.find
Shows(d) ==
    /\ Early(d) => d.tab = 0 /\ ~d.cheer
    /\ d.snippet = "wait" => ~d.find /\ ~d.set
    /\ d.snippet = "ok" /\ d.status >= 1 => d.find

DialogsWait ==
    \A t \in Tabs :
        /\ ~dialog[t].open => WhileClosed(net, t)
        /\ dialog[t].open => WhileOpen(net, t, dialog[t]) /\ Shows(dialog[t])
        /\ dialog[t].open /\ ~doubled[t] => WhileOnce(net, t, dialog[t])

(* The inductive invariant.                                                *)
BInv ==
    /\ Types /\ Scoring /\ CodedRows /\ MessagesAreTrue
    /\ NotificationsAreTrue /\ EventsAreTrue /\ BoardsAreTrue /\ DialogsAreTrue
    /\ DialogsWait /\ DialogIsBacked

-----------------------------------------------------------------------------
(* Bags.                                                                   *)

(* The number of copies of an element, which is 0 for those not in it.     *)
LEMMA CopiesFacts ==
    ASSUME NEW b, IsABag(b), NEW e
    PROVE  /\ Copies(e, b) \in Nat
           /\ BagIn(e, b) <=> Copies(e, b) > 0
           /\ e \in BagToSet(b) <=> Copies(e, b) > 0
  BY DEF IsABag, Copies, BagIn, BagToSet

(* Putting several different elements into a bag.                          *)
LEMMA AddFacts ==
    ASSUME NEW b, IsABag(b), NEW S
    PROVE  /\ IsABag(b (+) SetToBag(S))
           /\ BagToSet(b (+) SetToBag(S)) = BagToSet(b) \cup S
           /\ \A f : Copies(f, b (+) SetToBag(S)) = Copies(f, b) + (IF f \in S THEN 1 ELSE 0)
  <1> DEFINE n == b (+) SetToBag(S)
  <1>1. DOMAIN n = (DOMAIN b) \cup S
    BY DEF SetToBag, (+)
  <1>2. \A f \in DOMAIN n : n[f] = (IF f \in DOMAIN b THEN b[f] ELSE 0) + (IF f \in S THEN 1 ELSE 0)
    BY DEF SetToBag, (+)
  <1>3. n = [f \in DOMAIN n |-> n[f]]
    BY DEF (+)
  <1>4. \A f \in DOMAIN b : b[f] \in Nat /\ b[f] > 0
    BY DEF IsABag
  <1> HIDE DEF n
  <1>5. \A f \in DOMAIN n : n[f] \in {k \in Nat : k > 0}
    BY <1>1, <1>2, <1>4
  <1>6. IsABag(n)
    BY <1>3, <1>5 DEF IsABag
  <1>7. \A f : Copies(f, n) = Copies(f, b) + (IF f \in S THEN 1 ELSE 0)
    BY <1>1, <1>2, <1>4 DEF Copies, BagIn, BagToSet
  <1> QED
    BY <1>1, <1>6, <1>7 DEF n, BagToSet

(* Putting one element into a bag.                                         *)
LEMMA PutFacts ==
    ASSUME NEW b, IsABag(b), NEW e
    PROVE  /\ IsABag(Put(b, e))
           /\ BagToSet(Put(b, e)) = BagToSet(b) \cup {e}
           /\ \A f : Copies(f, Put(b, e)) = Copies(f, b) + (IF f = e THEN 1 ELSE 0)
  BY AddFacts DEF Put

(* Taking one element out of a bag.                                        *)
LEMMA TakeFacts ==
    ASSUME NEW b, IsABag(b), NEW e, e \in BagToSet(b)
    PROVE  /\ IsABag(Take(b, e))
           /\ BagToSet(Take(b, e)) \subseteq BagToSet(b)
           /\ \A f : Copies(f, Take(b, e)) = Copies(f, b) - (IF f = e THEN 1 ELSE 0)
  <1> DEFINE n == Take(b, e)
             g == [f \in DOMAIN b |-> IF f \in DOMAIN SetToBag({e}) THEN b[f] - SetToBag({e})[f] ELSE b[f]]
  <1>1. \A f \in DOMAIN b : b[f] \in Nat /\ b[f] > 0
    BY DEF IsABag
  <1>2. \A f \in DOMAIN b : g[f] = b[f] - (IF f = e THEN 1 ELSE 0)
    BY <1>1 DEF SetToBag
  <1>3. n = [f \in {d \in DOMAIN b : g[d] > 0} |-> g[f]]
    BY DEF Take, (-)
  <1> HIDE DEF n, g
  <1>4. DOMAIN n = {d \in DOMAIN b : g[d] > 0} /\ \A f \in DOMAIN n : n[f] = g[f] /\ n[f] \in {k \in Nat : k > 0}
    BY <1>1, <1>2, <1>3
  <1>5. IsABag(n)
    BY <1>3, <1>4 DEF IsABag
  <1>6. \A f : Copies(f, n) = Copies(f, b) - (IF f = e THEN 1 ELSE 0)
    BY <1>1, <1>2, <1>4 DEF Copies, BagIn, BagToSet
  <1> QED
    BY <1>4, <1>5, <1>6 DEF n, BagToSet

(* Putting one element in the place of another.                            *)
LEMMA SwapFacts ==
    ASSUME NEW b, IsABag(b), NEW e, e \in BagToSet(b), NEW g
    PROVE  /\ IsABag(Swap(b, e, g))
           /\ BagToSet(Swap(b, e, g)) \subseteq BagToSet(b) \cup {g}
           /\ \A f : Copies(f, Swap(b, e, g)) =
                        Copies(f, b) - (IF f = e THEN 1 ELSE 0) + (IF f = g THEN 1 ELSE 0)
  <1>1. Swap(b, e, g) = Put(Take(b, e), g)
    BY DEF Swap, Put, Take
  <1> QED
    BY <1>1, TakeFacts, PutFacts

LEMMA EmptyFacts ==
    IsABag(EmptyBag) /\ BagToSet(EmptyBag) = {} /\ \A f : Copies(f, EmptyBag) = 0
  BY DEF EmptyBag, SetToBag, IsABag, BagToSet, Copies, BagIn

-----------------------------------------------------------------------------
(* The steps.                                                              *)

(* What the tabs and their users do.                                       *)
UseTab ==
    \/ clearProgress
    \/ \E t \in Tabs :
         \/ closeNotification(t) \/ saveBackup(t) \/ restoreBackup(t) \/ openBoard(t)
         \/ \E c \in Challenges :
              unlockHint(t, c) \/ repeatChallengeNotification(t, c) \/ openCodingChallengeDialog(t, c)
         \/ \E tab \in {0, 1} : toggleTab(t, tab)
         \/ \E word \in {"right", "wrong"} : checkLines(t, word) \/ checkFix(t, word)

LEMMA NextCases ==
    ASSUME Next
    PROVE  \/ \E e \in BagToSet(work) : Settle(e) /\ UNCHANGED cvars
           \/ \E e \in BagToSet(net) : Handle(e) /\ UNCHANGED cvars
           \/ \E t \in Tabs : connection(t) /\ UNCHANGED cvars
           \/ Occur /\ UNCHANGED cvars
           \/ React \/ UseTab \/ Crash
  BY DEF Next, Serve, User, UseTab

(* The tabs change nothing of the server.                                  *)
LEMMA TabsLeaveServer ==
    ASSUME React \/ UseTab
    PROVE  UNCHANGED <<svars, conn, hist>>
  <1>1. CASE React
    <2>1. ASSUME NEW t \in Tabs, onChallengeSolved(t) \/ onCodeChallengeSolved(t) \/ onServerStarted(t) \/ shootConfetti(t)
          PROVE  UNCHANGED <<svars, conn, hist>>
      BY <2>1 DEF onChallengeSolved, onCodeChallengeSolved, onServerStarted, shootConfetti, wires
    <2>2. ASSUME NEW e, \/ onContinueCode(e) \/ onContinueCodeFindIt(e) \/ onContinueCodeFixIt(e)
                        \/ onChallenges(e) \/ onHint(e) \/ onSnippet(e) \/ onFixes(e) \/ onVerdict(e)
          PROVE  UNCHANGED <<svars, conn, hist>>
      BY <2>2 DEF onContinueCode, onContinueCodeFindIt, onContinueCodeFixIt, onChallenges, onHint, onSnippet,
                  onFixes, onVerdict
    <2> QED
      BY <1>1, <2>1, <2>2 DEF React
  <1>2. CASE UseTab
    BY <1>2 DEF UseTab, clearProgress, closeNotification, saveBackup, restoreBackup, openBoard, unlockHint,
                repeatChallengeNotification, openCodingChallengeDialog, toggleTab, checkLines, checkFix, wires
  <1> QED
    BY <1>1, <1>2

(* No row falls back unless the server crashes.                            *)
Grows == \A c \in Challenges : (db[c].solved => db'[c].solved) /\ db[c].code <= db'[c].code

LEMMA PhaseFacts ==
    ASSUME db \in Rows, NEW c \in Challenges, FindIt(c) \/ FixIt(c)
    PROVE  /\ db' \in Rows /\ Grows
           /\ FindIt(c) => db'[c].code >= 1
           /\ FixIt(c) => db'[c].code = 2
           /\ \A d \in Challenges : d # c => db'[d] = db[d]
  BY DEF Rows, ChallengeTable, FindIt, FixIt, Grows

LEMMA RowsStay ==
    ASSUME db \in Rows, UNCHANGED db
    PROVE  db' \in Rows /\ Grows
  BY DEF Rows, ChallengeTable, Grows

-----------------------------------------------------------------------------
(* The handlers of the server.                                             *)

(* A handler updates a row or leaves the rows alone.                       *)
LEMMA HandleRows ==
    ASSUME db \in Rows, CodedRows, NEW e \in Messages, CodedMessage(e), Handle(e)
    PROVE  db' \in Rows /\ Grows /\ CodedRows' /\ restarts' = restarts
  <1>1. CASE UNCHANGED <<db, restarts>>
    BY <1>1, RowsStay DEF CodedRows
  <1>2. CASE solveFindIt(e) \/ solveFixIt(e)
    <2>1. (FindIt(e.c) \/ FixIt(e.c)) /\ e.c \in Coding /\ e.c \in Challenges /\ restarts' = restarts
      BY <1>2 DEF solveFindIt, solveFixIt, CodedMessage, Messages, hist
    <2> QED
      BY <2>1, PhaseFacts DEF CodedRows
  <1>3. CASE restoreProgressFindIt(e) \/ restoreProgressFixIt(e)
    <2>1. restarts' = restarts
      BY <1>3 DEF restoreProgressFindIt, restoreProgressFixIt, hist
    <2>2. PICK c \in e.v : FindIt(c) \/ FixIt(c)
      BY <1>3 DEF restoreProgressFindIt, restoreProgressFixIt
    <2>3. c \in Coding /\ c \in Challenges
      BY <1>3 DEF restoreProgressFindIt, restoreProgressFixIt, CodedMessage, Messages
    <2> QED
      BY <2>1, <2>2, <2>3, PhaseFacts DEF CodedRows
  <1> QED
    BY <1>1, <1>2, <1>3
    DEF Handle, notificationReceived, listChallenges, continueCode, continueCodeFindIt, continueCodeFixIt,
        restoreProgress, repeatNotification, putHint, findFilesWithCodeChallenges, serveCodeSnippet, serveCodeFixes,
        checkVulnLines, calculateFindItCheatScore, checkCorrectFix, calculateFixItCheatScore, svars, hist

(* A handler takes its message, or puts one in its place that follows it.  *)
Follows(e, g) == g.t = e.t /\ g.op = e.op /\ g.c = e.c /\ (g.word = "right" => e.word = "right")
Succeeds(e, g) == g \in Messages /\ Follows(e, g) /\ MessageIsTrue(g)'
Exchange(e) == net' = Take(net, e) \/ \E g : Succeeds(e, g) /\ net' = Swap(net, e, g)

(* Handlers that answer, or wait, without a change of the rows.            *)
LEMMA HandleAnswers ==
    ASSUME db \in Rows, cache \in [Challenges -> BOOLEAN], CodedRows, NEW e \in Messages, MessageIsTrue(e),
           UNCHANGED <<db, restarts>>,
           \/ listChallenges(e) \/ continueCode(e) \/ continueCodeFindIt(e) \/ continueCodeFixIt(e) \/ putHint(e)
           \/ serveCodeFixes(e) \/ checkCorrectFix(e)
    PROVE  Exchange(e)
  <1>1. CASE listChallenges(e)
    <2>1. NotAhead(db)'
      BY DEF NotAhead, Rows, ChallengeTable
    <2>2. Succeeds(e, [e EXCEPT !.at = "ans", !.rows = db])
      BY <1>1, <2>1 DEF listChallenges, Succeeds, Follows, Messages, MessageIsTrue, CodedMessage, TrueVerdict, WaitsForSnippets,
                        FreshAnswer, NotAhead
    <2> QED
      BY <1>1, <2>2 DEF listChallenges, Exchange
  <1>2. CASE continueCode(e) \/ continueCodeFindIt(e) \/ continueCodeFixIt(e)
    <2>1. PICK v : /\ net' = Swap(net, e, [e EXCEPT !.at = "ans", !.v = v])
                   /\ v \subseteq Challenges /\ (e.op # "code" => v \subseteq Coding)
                   /\ e.op \in {"code", "codeFind", "codeFix"}
      <3> DEFINE solved == {c \in Challenges : cache[c]}
                 found == {c \in Challenges : db[c].code >= 1}
                 fixed == {c \in Challenges : db[c].code >= 2}
      <3>1. solved \subseteq Challenges /\ found \subseteq Challenges /\ fixed \subseteq Challenges
        OBVIOUS
      <3>2. found \subseteq Coding /\ fixed \subseteq Coding
        BY DEF CodedRows, Rows, ChallengeTable
      <3>3. continueCode(e) => net' = Swap(net, e, [e EXCEPT !.at = "ans", !.v = solved]) /\ e.op = "code"
        BY DEF continueCode, Answer
      <3>4. continueCodeFindIt(e) => net' = Swap(net, e, [e EXCEPT !.at = "ans", !.v = found]) /\ e.op = "codeFind"
        BY DEF continueCodeFindIt, Answer
      <3>5. continueCodeFixIt(e) => net' = Swap(net, e, [e EXCEPT !.at = "ans", !.v = fixed]) /\ e.op = "codeFix"
        BY DEF continueCodeFixIt, Answer
      <3> HIDE DEF solved, found, fixed
      <3> QED
        BY <1>2, <3>1, <3>2, <3>3, <3>4, <3>5
    <2>2. Succeeds(e, [e EXCEPT !.at = "ans", !.v = v])
      BY <2>1 DEF Succeeds, Follows, Messages, MessageIsTrue, CodedMessage, TrueVerdict, WaitsForSnippets, FreshAnswer
    <2> QED
      BY <2>1, <2>2 DEF Exchange
  <1>3. CASE putHint(e) \/ serveCodeFixes(e)
    <2>1. Succeeds(e, [e EXCEPT !.at = "ans", !.word = "ok"])
      BY <1>3 DEF putHint, serveCodeFixes, Succeeds, Follows, Messages, MessageIsTrue, CodedMessage, TrueVerdict, WaitsForSnippets,
                  FreshAnswer
    <2> QED
      BY <1>3, <2>1 DEF putHint, serveCodeFixes, Reply, Exchange
  <1>4. CASE checkCorrectFix(e)
    <2>1. e.word = "right" => Succeeds(e, [e EXCEPT !.at = "update"])
      BY <1>4 DEF checkCorrectFix, Succeeds, Follows, Messages, MessageIsTrue, CodedMessage, TrueVerdict, WaitsForSnippets,
                  FreshAnswer, Decided
    <2>2. Succeeds(e, [e EXCEPT !.at = "ans", !.word = "wrong"])
      BY <1>4 DEF checkCorrectFix, Succeeds, Follows, Messages, MessageIsTrue, CodedMessage, TrueVerdict, WaitsForSnippets,
                  FreshAnswer, Decided
    <2> QED
      BY <1>4, <2>1, <2>2 DEF checkCorrectFix, Reply, Exchange
  <1> QED
    BY <1>1, <1>2, <1>3, <1>4

(* Handlers that need the snippets.                                        *)
LEMMA HandleSnippets ==
    ASSUME db \in Rows, NEW e \in Messages, MessageIsTrue(e), UNCHANGED <<db, restarts>>,
           findFilesWithCodeChallenges(e) \/ serveCodeSnippet(e) \/ checkVulnLines(e)
    PROVE  Exchange(e)
  <1> USE DEF Succeeds, Follows, Messages, MessageIsTrue, CodedMessage, TrueVerdict, WaitsForSnippets, FreshAnswer, Decided
  <1>1. CASE findFilesWithCodeChallenges(e)
    <2>1. Succeeds(e, [e EXCEPT !.at = "req"]) /\ Succeeds(e, [e EXCEPT !.at = "ans", !.word = "error"])
      BY <1>1 DEF findFilesWithCodeChallenges
    <2> HIDE DEF Succeeds
    <2> QED
      BY <1>1, <2>1 DEF findFilesWithCodeChallenges, Reply, Exchange
  <1>2. CASE serveCodeSnippet(e)
    <2>1. /\ Succeeds(e, [e EXCEPT !.at = "load"])
          /\ Succeeds(e, [e EXCEPT !.at = "ans", !.word = "ok"])
          /\ Succeeds(e, [e EXCEPT !.at = "ans", !.word = "404"])
      BY <1>2 DEF serveCodeSnippet
    <2> HIDE DEF Succeeds
    <2> QED
      BY <1>2, <2>1 DEF serveCodeSnippet, retrieveCodeSnippet, Reply, Exchange
  <1>3. CASE checkVulnLines(e)
    <2>1. /\ Succeeds(e, [e EXCEPT !.at = "load"])
          /\ Succeeds(e, [e EXCEPT !.at = "ans", !.word = "404"])
          /\ Succeeds(e, [e EXCEPT !.at = "ans", !.word = "wrong"])
          /\ e.word = "right" => Succeeds(e, [e EXCEPT !.at = "update"])
      BY <1>3 DEF checkVulnLines
    <2> HIDE DEF Succeeds
    <2> QED
      BY <1>3, <2>1 DEF checkVulnLines, retrieveCodeSnippet, Reply, Exchange
  <1> QED
    BY <1>1, <1>2, <1>3

(* Handlers that update a row, and the verdict that follows.               *)
LEMMA HandlePhases ==
    ASSUME db \in Rows, NEW e \in Messages, MessageIsTrue(e), restarts' = restarts,
           \/ solveFindIt(e) \/ solveFixIt(e) \/ restoreProgressFindIt(e) \/ restoreProgressFixIt(e)
           \/ calculateFindItCheatScore(e) \/ calculateFixItCheatScore(e)
    PROVE  Exchange(e)
  <1> USE DEF Succeeds, Follows, Messages, MessageIsTrue, CodedMessage, TrueVerdict, WaitsForSnippets, FreshAnswer, Decided
  <1>1. CASE solveFindIt(e) \/ solveFixIt(e)
    <2>1. e.op \in {"lines", "fix"} /\ e.at = "update" /\ net' = Swap(net, e, [e EXCEPT !.at = "score"])
      BY <1>1 DEF solveFindIt, solveFixIt
    <2>2. (e.op = "lines" => db'[e.c].code >= 1) /\ (e.op = "fix" => db'[e.c].code = 2)
      BY <1>1, PhaseFacts DEF solveFindIt, solveFixIt
    <2>3. Succeeds(e, [e EXCEPT !.at = "score"])
      BY <2>1, <2>2
    <2> QED
      BY <2>1, <2>3 DEF Exchange
  <1>2. CASE restoreProgressFindIt(e) \/ restoreProgressFixIt(e)
    <2>1. PICK c \in e.v : net' = IF e.v = {c} THEN Take(net, e) ELSE Swap(net, e, [e EXCEPT !.v = @ \ {c}])
      BY <1>2 DEF restoreProgressFindIt, restoreProgressFixIt
    <2>2. Succeeds(e, [e EXCEPT !.v = @ \ {c}])
      BY <1>2 DEF restoreProgressFindIt, restoreProgressFixIt
    <2> QED
      BY <2>1, <2>2 DEF Exchange
  <1>3. CASE calculateFindItCheatScore(e) \/ calculateFixItCheatScore(e)
    <2>1. e.op \in {"lines", "fix"} /\ e.at = "score" /\ UNCHANGED db
          /\ net' = Swap(net, e, [e EXCEPT !.at = "ans", !.word = "right"])
      BY <1>3 DEF calculateFindItCheatScore, calculateFixItCheatScore, Reply, svars
    <2>2. Succeeds(e, [e EXCEPT !.at = "ans", !.word = "right"])
      BY <2>1
    <2> QED
      BY <2>1, <2>2 DEF Exchange
  <1> QED
    BY <1>1, <1>2, <1>3

LEMMA HandleNet ==
    ASSUME db \in Rows, cache \in [Challenges -> BOOLEAN], CodedRows, NEW e \in Messages, MessageIsTrue(e), Handle(e)
    PROVE  Exchange(e)
  <1>1. restarts' = restarts
    BY HandleRows DEF MessageIsTrue
  <1>2. CASE \/ listChallenges(e) \/ continueCode(e) \/ continueCodeFindIt(e) \/ continueCodeFixIt(e) \/ putHint(e)
             \/ serveCodeFixes(e) \/ checkCorrectFix(e)
    <2>1. UNCHANGED db
      BY <1>2 DEF listChallenges, continueCode, continueCodeFindIt, continueCodeFixIt, putHint, serveCodeFixes,
                  checkCorrectFix, svars
    <2> QED
      BY <1>1, <1>2, <2>1, HandleAnswers
  <1>3. CASE findFilesWithCodeChallenges(e) \/ serveCodeSnippet(e) \/ checkVulnLines(e)
    <2>1. UNCHANGED db
      BY <1>3 DEF findFilesWithCodeChallenges, serveCodeSnippet, checkVulnLines
    <2> QED
      BY <1>1, <1>3, <2>1, HandleSnippets
  <1>4. CASE \/ solveFindIt(e) \/ solveFixIt(e) \/ restoreProgressFindIt(e) \/ restoreProgressFixIt(e)
             \/ calculateFindItCheatScore(e) \/ calculateFixItCheatScore(e)
    BY <1>1, <1>4, HandlePhases
  <1>5. CASE notificationReceived(e) \/ restoreProgress(e) \/ repeatNotification(e)
    BY <1>5 DEF notificationReceived, restoreProgress, repeatNotification, Exchange
  <1> QED
    BY <1>2, <1>3, <1>4, <1>5 DEF Handle

-----------------------------------------------------------------------------
(* What is true stays true while rows only grow.                           *)

LEMMA BoardStaysTrue ==
    ASSUME db \in Rows, db' \in Rows, Grows, NEW r \in Rows, NotAhead(r)
    PROVE  NotAhead(r)'
  BY DEF NotAhead, Rows, ChallengeTable, Grows

LEMMA MessageStaysTrue ==
    ASSUME db \in Rows, db' \in Rows, Grows, restarts' = restarts, NEW e \in Messages, MessageIsTrue(e)
    PROVE  MessageIsTrue(e)'
  <1>0. /\ e.c \in Challenges /\ e.rows \in Rows
        /\ \A c \in Challenges : db[c].code \in 0..2 /\ db'[c].code \in 0..2
    BY DEF Messages, Rows, ChallengeTable
  <1>1. CodedMessage(e)' /\ WaitsForSnippets(e)'
    BY DEF MessageIsTrue, CodedMessage, WaitsForSnippets
  <1>2. TrueVerdict(e)'
    <2>1. db[e.c].code <= db'[e.c].code /\ db'[e.c].code \in 0..2 /\ db[e.c].code \in 0..2
      BY <1>0 DEF Grows
    <2> QED
      BY <2>1 DEF MessageIsTrue, TrueVerdict, Decided
  <1>3. ASSUME restarts = 0 PROVE FreshAnswer(e)'
    <2>1. NotAhead(e.rows) => NotAhead(e.rows)'
      BY <1>0, BoardStaysTrue
    <2> QED
      BY <1>0, <1>3, <2>1 DEF MessageIsTrue, FreshAnswer, Grows
  <1> QED
    BY <1>1, <1>2, <1>3 DEF MessageIsTrue

LEMMA EventStaysTrue ==
    ASSUME db \in Rows, db' \in Rows, Grows, NEW x \in Events
    PROVE  /\ FreshEvent(x) => FreshEvent(x)'
           /\ FreshNotification(x) => FreshNotification(x)'
  BY DEF FreshEvent, FreshNotification, Events, Rows, ChallengeTable, Grows

-----------------------------------------------------------------------------
(* Events.                                                                 *)

(* Every event of a sequence is an old one or x.                           *)
Among(new, old, x) == \A i \in DOMAIN new : new[i] = x \/ \E j \in DOMAIN old : new[i] = old[j]

LEMMA EmitFacts ==
    ASSUME sock \in [Tabs -> Seq(Events)], NEW x \in Events
    PROVE  Emit(x) \in [Tabs -> Seq(Events)] /\ \A t \in Tabs : Among(Emit(x)[t], sock[t], x)
  BY DEF Emit, Among

LEMMA EventsAreEvents ==
    ASSUME NEW c \in Challenges, NEW b \in BOOLEAN, NEW n \in 0..2
    PROVE  SolvedEvent(c, b) \in Events /\ CodeEvent(c, n) \in Events
  BY DEF SolvedEvent, CodeEvent, Events

LEMMA SendFacts ==
    ASSUME notifs \in Seq(Events), sock \in [Tabs -> Seq(Events)], NEW c \in Challenges, NEW b \in BOOLEAN,
           sendNotification(c, b)
    PROVE  /\ notifs' \in Seq(Events) /\ Among(notifs', notifs, SolvedEvent(c, b))
           /\ sock' \in [Tabs -> Seq(Events)] /\ \A t \in Tabs : Among(sock'[t], sock[t], SolvedEvent(c, b))
  <1>1. SolvedEvent(c, b) \in Events
    BY EventsAreEvents
  <1>2. notifs' = Append(notifs, SolvedEvent(c, b)) /\ (sock' = Emit(SolvedEvent(c, b)) \/ sock' = sock)
    BY DEF sendNotification
  <1>3. notifs' \in Seq(Events) /\ Among(notifs', notifs, SolvedEvent(c, b))
    BY <1>1, <1>2 DEF Among
  <1>4. sock' \in [Tabs -> Seq(Events)] /\ \A t \in Tabs : Among(sock'[t], sock[t], SolvedEvent(c, b))
    BY <1>1, <1>2, EmitFacts DEF Among
  <1> QED
    BY <1>3, <1>4

LEMMA ReceivedFacts ==
    ASSUME notifs \in Seq(Events), NEW e, notificationReceived(e)
    PROVE  notifs' \in Seq(Events) /\ \A i \in DOMAIN notifs' : \E j \in DOMAIN notifs : notifs'[i] = notifs[j]
  <1> DEFINE k == First(e.c)
             less == [i \in 1..(Len(notifs) - 1) |-> IF i < k THEN notifs[i] ELSE notifs[i + 1]]
  <1>1. notifs' = notifs \/ (notifs' = less /\ notifs # <<>>)
    BY DEF notificationReceived
  <1> HIDE DEF k
  <1>2. notifs # <<>> => less \in Seq(Events) /\ \A i \in DOMAIN less : \E j \in DOMAIN notifs : less[i] = notifs[j]
    <2> SUFFICES ASSUME notifs # <<>>
                 PROVE  less \in Seq(Events) /\ \A i \in DOMAIN less : \E j \in DOMAIN notifs : less[i] = notifs[j]
      OBVIOUS
    <2>1. Len(notifs) \in Nat /\ Len(notifs) > 0 /\ DOMAIN notifs = 1..Len(notifs)
      OBVIOUS
    <2>2. \A i \in 1..(Len(notifs) - 1) : i \in 1..Len(notifs) /\ i + 1 \in 1..Len(notifs)
      BY <2>1
    <2>3. \A i \in 1..(Len(notifs) - 1) : less[i] = notifs[i] \/ less[i] = notifs[i + 1]
      OBVIOUS
    <2>4. \A i \in 1..(Len(notifs) - 1) : less[i] \in Events
      BY <2>2, <2>3
    <2>5. Len(notifs) - 1 \in Nat
      BY <2>1
    <2>6. less \in Seq(Events)
      BY <2>4, <2>5
    <2> QED
      BY <2>1, <2>2, <2>3, <2>6
  <1> QED
    BY <1>1, <1>2

(* Notifications and events are true if the new ones are.                  *)
LEMMA NewsIsTrue ==
    ASSUME db \in Rows, db' \in Rows, Grows, restarts' = restarts, notifs \in Seq(Events),
           sock \in [Tabs -> Seq(Events)], NotificationsAreTrue, EventsAreTrue,
           NEW x, restarts = 0 => FreshNotification(x)', restarts = 0 => FreshEvent(x)'
    PROVE  /\ Among(notifs', notifs, x) => NotificationsAreTrue'
           /\ (\A t \in Tabs : Among(sock'[t], sock[t], x)) => EventsAreTrue'
  <1>1. ASSUME Among(notifs', notifs, x), restarts = 0, NEW i \in DOMAIN notifs'
        PROVE  FreshNotification(notifs[i])'
    <2>1. CASE notifs'[i] = x
      BY <1>1, <2>1 DEF FreshNotification
    <2>2. CASE notifs'[i] # x
      <3>1. PICK j \in DOMAIN notifs : notifs'[i] = notifs[j]
        BY <1>1, <2>2 DEF Among
      <3>2. notifs[j] \in Events /\ FreshNotification(notifs[j])
        BY <1>1 DEF NotificationsAreTrue
      <3>3. notifs[j].c \in Challenges
        BY <3>2 DEF Events
      <3> QED
        BY <3>1, <3>2, <3>3 DEF FreshNotification, Grows
    <2> QED
      BY <2>1, <2>2
  <1>2. ASSUME \A t \in Tabs : Among(sock'[t], sock[t], x), restarts = 0, NEW t \in Tabs, NEW i \in DOMAIN sock'[t]
        PROVE  FreshEvent(sock[t][i])'
    <2>1. CASE sock'[t][i] = x
      BY <1>2, <2>1 DEF FreshEvent
    <2>2. CASE sock'[t][i] # x
      <3>1. PICK j \in DOMAIN sock[t] : sock'[t][i] = sock[t][j]
        BY <1>2, <2>2 DEF Among
      <3>2. sock[t][j] \in Events /\ FreshEvent(sock[t][j])
        BY <1>2 DEF EventsAreTrue
      <3>3. /\ sock[t][j].c \in Challenges /\ sock[t][j].code \in 0..2
            /\ db[sock[t][j].c].code \in 0..2 /\ db'[sock[t][j].c].code \in 0..2
        BY <3>2 DEF Events, Rows, ChallengeTable
      <3> QED
        BY <3>1, <3>2, <3>3 DEF FreshEvent, Grows
    <2> QED
      BY <2>1, <2>2
  <1> QED
    BY <1>1, <1>2 DEF NotificationsAreTrue, EventsAreTrue

(* So are the old ones.                                                    *)
LEMMA OldNewsIsTrue ==
    ASSUME db \in Rows, db' \in Rows, Grows, restarts' = restarts, notifs \in Seq(Events),
           sock \in [Tabs -> Seq(Events)], NotificationsAreTrue, EventsAreTrue
    PROVE  /\ UNCHANGED notifs => NotificationsAreTrue'
           /\ UNCHANGED sock => EventsAreTrue'
  <1>1. ASSUME restarts = 0, UNCHANGED notifs, NEW i \in DOMAIN notifs
        PROVE  FreshNotification(notifs[i])'
    <2>1. notifs[i] \in Events /\ FreshNotification(notifs[i])
      BY <1>1 DEF NotificationsAreTrue
    <2> QED
      BY <1>1, <2>1 DEF FreshNotification, Grows, Events
  <1>2. ASSUME restarts = 0, UNCHANGED sock, NEW t \in Tabs, NEW i \in DOMAIN sock[t]
        PROVE  FreshEvent(sock[t][i])'
    <2>1. sock[t][i] \in Events /\ FreshEvent(sock[t][i])
      BY <1>2 DEF EventsAreTrue
    <2>2. /\ sock[t][i].c \in Challenges /\ sock[t][i].code \in 0..2
          /\ db[sock[t][i].c].code \in 0..2 /\ db'[sock[t][i].c].code \in 0..2
      BY <2>1 DEF Events, Rows, ChallengeTable
    <2> QED
      BY <1>2, <2>1, <2>2 DEF FreshEvent, Grows
  <1> QED
    BY <1>1, <1>2 DEF NotificationsAreTrue, EventsAreTrue

LEMMA VerdictTypes ==
    ASSUME accuracy \in [Challenges -> Verdicts], NEW c \in Challenges, NEW v \in BOOLEAN,
           storeFindItVerdict(c, v) \/ storeFixItVerdict(c, v)
    PROVE  accuracy' \in [Challenges -> Verdicts]
  BY DEF storeFindItVerdict, storeFixItVerdict, Verdicts

LEMMA HandleTypes ==
    ASSUME ServerTypes, NEW e \in Messages, Handle(e)
    PROVE  /\ cache' \in [Challenges -> BOOLEAN] /\ UNCHANGED <<solves, conn>>
           /\ accuracy' \in [Challenges -> Verdicts] /\ snippets' \in {"null", "loading", "full", "empty"}
  <1> USE DEF ServerTypes
  <1>0. e.c \in Challenges
    BY DEF Messages
  <1>1. CASE notificationReceived(e) \/ restoreProgress(e) \/ repeatNotification(e)
    BY <1>1 DEF notificationReceived, restoreProgress, repeatNotification
  <1>2. CASE \/ listChallenges(e) \/ continueCode(e) \/ continueCodeFindIt(e) \/ continueCodeFixIt(e) \/ putHint(e)
             \/ serveCodeFixes(e) \/ calculateFindItCheatScore(e) \/ calculateFixItCheatScore(e)
    BY <1>2 DEF listChallenges, continueCode, continueCodeFindIt, continueCodeFixIt, putHint, serveCodeFixes,
                calculateFindItCheatScore, calculateFixItCheatScore, svars
  <1>3. CASE restoreProgressFindIt(e) \/ restoreProgressFixIt(e)
    BY <1>3 DEF restoreProgressFindIt, restoreProgressFixIt
  <1>4. CASE findFilesWithCodeChallenges(e) \/ serveCodeSnippet(e)
    BY <1>4 DEF findFilesWithCodeChallenges, serveCodeSnippet, retrieveCodeSnippet
  <1>5. CASE checkVulnLines(e)
    <2>1. snippets' \in {"null", "loading", "full", "empty"} /\ UNCHANGED <<cache, solves, conn>>
      BY <1>5 DEF checkVulnLines, retrieveCodeSnippet
    <2>2. UNCHANGED accuracy \/ storeFindItVerdict(e.c, FALSE)
      BY <1>5 DEF checkVulnLines
    <2> QED
      BY <1>0, <2>1, <2>2, VerdictTypes
  <1>6. CASE solveFindIt(e) \/ checkCorrectFix(e) \/ solveFixIt(e)
    <2>1. UNCHANGED <<cache, solves, conn, snippets>>
      BY <1>6 DEF solveFindIt, checkCorrectFix, solveFixIt
    <2>2. UNCHANGED accuracy \/ \E v \in BOOLEAN : storeFindItVerdict(e.c, v) \/ storeFixItVerdict(e.c, v)
      BY <1>6 DEF solveFindIt, checkCorrectFix, solveFixIt
    <2> QED
      BY <1>0, <2>1, <2>2, VerdictTypes
  <1> QED
    BY <1>1, <1>2, <1>3, <1>4, <1>5, <1>6 DEF Handle

LEMMA HandleNews ==
    ASSUME ServerTypes, WireTypes, NotificationsAreTrue, EventsAreTrue, CodedRows,
           NEW e \in BagToSet(net), MessageIsTrue(e), Handle(e)
    PROVE  /\ notifs' \in Seq(Events) /\ sock' \in [Tabs -> Seq(Events)]
           /\ NotificationsAreTrue' /\ EventsAreTrue'
  <1>0. /\ e \in Messages /\ e.c \in Challenges
        /\ db \in Rows /\ notifs \in Seq(Events) /\ sock \in [Tabs -> Seq(Events)]
    BY DEF ServerTypes, WireTypes, Messages
  <1>1. db' \in Rows /\ Grows /\ restarts' = restarts
    BY <1>0, HandleRows DEF MessageIsTrue
  <1>2. CASE calculateFindItCheatScore(e) \/ calculateFixItCheatScore(e)
    <2>1. PICK n \in 1..2 : sock' = Emit(CodeEvent(e.c, n)) /\ notifs' = notifs /\ db' = db /\ db[e.c].code >= n
      BY <1>2 DEF calculateFindItCheatScore, calculateFixItCheatScore, sendCodingChallengeNotification, svars,
                  MessageIsTrue, TrueVerdict, Decided
    <2>2. CodeEvent(e.c, n) \in Events
      BY <1>0 DEF CodeEvent, Events
    <2>3. sock' \in [Tabs -> Seq(Events)] /\ \A t \in Tabs : Among(sock'[t], sock[t], CodeEvent(e.c, n))
      BY <1>0, <2>1, <2>2, EmitFacts
    <2>4. FreshEvent(CodeEvent(e.c, n))'
      BY <2>1 DEF FreshEvent, CodeEvent
    <2>5. NotificationsAreTrue'
      BY <1>1, <2>1 DEF NotificationsAreTrue, FreshNotification
    <2>6. ASSUME restarts = 0, NEW t \in Tabs, NEW i \in DOMAIN sock'[t]
          PROVE  FreshEvent(sock[t][i])'
      BY <2>1, <2>3, <2>4, <2>6 DEF Among, EventsAreTrue, FreshEvent
    <2> QED
      BY <1>0, <1>1, <2>1, <2>3, <2>5, <2>6 DEF EventsAreTrue
  <1>3. CASE repeatNotification(e) /\ cache[e.c]
    <2> DEFINE x == SolvedEvent(e.c, TRUE)
    <2>1. sendNotification(e.c, TRUE) /\ db' = db /\ e.op = "repeat"
      BY <1>3 DEF repeatNotification
    <2>2. restarts = 0 => FreshNotification(x)' /\ FreshEvent(x)'
      BY <2>1 DEF MessageIsTrue, FreshAnswer, FreshNotification, FreshEvent, SolvedEvent
    <2>3. /\ notifs' \in Seq(Events) /\ Among(notifs', notifs, x)
          /\ sock' \in [Tabs -> Seq(Events)] /\ \A t \in Tabs : Among(sock'[t], sock[t], x)
      BY <1>0, <2>1, SendFacts
    <2> HIDE DEF x
    <2> QED
      BY <1>0, <1>1, <2>2, <2>3, NewsIsTrue
  <1>4. CASE notificationReceived(e)
    <2>1. /\ notifs' \in Seq(Events) /\ UNCHANGED <<sock, db>>
          /\ \A i \in DOMAIN notifs' : \E j \in DOMAIN notifs : notifs'[i] = notifs[j]
      BY <1>0, <1>4, ReceivedFacts DEF notificationReceived
    <2>2. ASSUME restarts = 0, NEW i \in DOMAIN notifs'
          PROVE  FreshNotification(notifs[i])'
      <3>1. \E j \in DOMAIN notifs : notifs'[i] = notifs[j]
        BY <2>1, <2>2
      <3> QED
        BY <2>1, <2>2, <3>1 DEF NotificationsAreTrue, FreshNotification
    <2>3. EventsAreTrue'
      BY <1>1, <2>1 DEF EventsAreTrue, FreshEvent
    <2> QED
      BY <1>0, <1>1, <2>1, <2>2, <2>3 DEF NotificationsAreTrue
  <1>5. CASE UNCHANGED <<notifs, sock>>
    BY <1>0, <1>1, <1>5, OldNewsIsTrue
  <1> QED
    BY <1>2, <1>3, <1>4, <1>5
    DEF Handle, listChallenges, continueCode, continueCodeFindIt, continueCodeFixIt, restoreProgress, putHint,
        restoreProgressFindIt, restoreProgressFixIt, repeatNotification, findFilesWithCodeChallenges,
        serveCodeSnippet, serveCodeFixes, checkVulnLines, solveFindIt, checkCorrectFix, solveFixIt, svars

-----------------------------------------------------------------------------
(* Messages.                                                               *)

LEMMA ExchangeFacts ==
    ASSUME db \in Rows, db' \in Rows, Grows, restarts' = restarts, IsABag(net), BagToSet(net) \subseteq Messages,
           MessagesAreTrue, NEW e \in BagToSet(net), Exchange(e)
    PROVE  IsABag(net') /\ BagToSet(net') \subseteq Messages /\ MessagesAreTrue'
  <1>1. ASSUME NEW f \in BagToSet(net) PROVE f \in Messages /\ MessageIsTrue(f)'
    BY <1>1, MessageStaysTrue DEF MessagesAreTrue
  <1>2. IsABag(net') /\ \A f \in BagToSet(net') : f \in BagToSet(net) \/ Succeeds(e, f)
    BY TakeFacts, SwapFacts DEF Exchange
  <1>3. ASSUME NEW f \in BagToSet(net') PROVE f \in Messages /\ MessageIsTrue(f)'
    BY <1>1, <1>2, <1>3 DEF Succeeds
  <1> QED
    BY <1>2, <1>3 DEF MessagesAreTrue

(* A bag n has no more messages about a tab than b has.                    *)
Fewer(n, b, t, op) == \A f \in About(n, t, op) : f \in About(b, t, op) /\ Copies(f, n) <= Copies(f, b)

LEMMA FewerIsLone ==
    ASSUME NEW b, NEW n, IsABag(b), IsABag(n), NEW t, NEW op, Fewer(n, b, t, op), Lone(b, t, op)
    PROVE  Lone(n, t, op)
  <1>1. ASSUME NEW e \in About(n, t, op), NEW f \in About(n, t, op) PROVE e = f /\ Copies(e, n) = 1
    <2>1. e = f /\ Copies(e, b) = 1 /\ Copies(e, n) <= Copies(e, b) /\ e \in BagToSet(n)
      BY <1>1 DEF Fewer, Lone, About
    <2> QED
      BY <2>1, CopiesFacts
  <1> QED
    BY <1>1 DEF Lone

(* A dialog waits for the messages that are left when some are taken away. *)
LEMMA FewerWait ==
    ASSUME NEW b, NEW n, IsABag(b), IsABag(n), NEW t, NEW d,
           \A op \in {"snippet", "fixes", "lines", "fix"} : Fewer(n, b, t, op)
    PROVE  /\ WhileClosed(b, t) => WhileClosed(n, t)
           /\ WhileOpen(b, t, d) => WhileOpen(n, t, d)
           /\ WhileOnce(b, t, d) => WhileOnce(n, t, d)
  <1>1. \A op \in {"snippet", "fixes", "lines", "fix"} : About(n, t, op) \subseteq About(b, t, op)
    BY DEF Fewer
  <1>2. \A op \in {"snippet", "lines"} : Lone(b, t, op) => Lone(n, t, op)
    BY FewerIsLone
  <1>3. WhileClosed(b, t) => WhileClosed(n, t)
    BY <1>1 DEF WhileClosed
  <1>4. WhileOpen(b, t, d) => WhileOpen(n, t, d)
    BY <1>1, <1>2 DEF WhileOpen
  <1>5. WhileOnce(b, t, d) => WhileOnce(n, t, d)
    BY <1>1, <1>2 DEF WhileOnce
  <1> QED
    BY <1>3, <1>4, <1>5

(* It waits for the messages that take the place of others, too.           *)
LEMMA SwapIsLone ==
    ASSUME NEW b, IsABag(b), NEW e \in BagToSet(b), NEW g, Follows(e, g), NEW t, NEW op, Lone(b, t, op)
    PROVE  Lone(Swap(b, e, g), t, op)
  <1> DEFINE n == Swap(b, e, g)
  <1>1. IsABag(n) /\ BagToSet(n) \subseteq BagToSet(b) \cup {g}
    BY SwapFacts
  <1>2. \A f : Copies(f, n) = Copies(f, b) - (IF f = e THEN 1 ELSE 0) + (IF f = g THEN 1 ELSE 0)
    BY SwapFacts
  <1> SUFFICES Lone(n, t, op)
    OBVIOUS
  <1> HIDE DEF n
  <1>3. CASE e \in About(b, t, op)
    <2>1. Copies(e, b) = 1 /\ \A f \in About(b, t, op) : f = e
      BY <1>3 DEF Lone
    <2>2. e # g => Copies(e, n) = 0
      BY <1>2, <2>1
    <2>3. e # g => e \notin BagToSet(n)
      BY <1>1, <2>2, CopiesFacts
    <2>4. \A f \in About(n, t, op) : f = g
      BY <1>1, <2>1, <2>3 DEF About
    <2>5. g \notin About(b, t, op) \/ g = e
      BY <2>1
    <2>6. g \in About(n, t, op) => g = e \/ g \notin BagToSet(b)
      BY <2>5 DEF About
    <2>7. g \notin BagToSet(b) => Copies(g, b) = 0
      BY CopiesFacts
    <2>8. g \in About(n, t, op) => Copies(g, n) = 1
      BY <1>2, <2>1, <2>6, <2>7
    <2> QED
      BY <2>4, <2>8 DEF Lone
  <1>4. CASE e \notin About(b, t, op)
    <2>1. g \notin About(n, t, op)
      BY <1>4 DEF About, Follows
    <2>2. Fewer(n, b, t, op)
      <3>1. ASSUME NEW f \in About(n, t, op) PROVE f \in About(b, t, op) /\ Copies(f, n) <= Copies(f, b)
        <4>1. f # g /\ f \in BagToSet(b) /\ f \in About(b, t, op)
          BY <1>1, <2>1, <3>1 DEF About
        <4>2. f # e
          BY <1>4, <4>1
        <4>3. Copies(f, b) \in Nat
          BY CopiesFacts
        <4> QED
          BY <1>2, <4>1, <4>2, <4>3
      <3> QED
        BY <3>1 DEF Fewer
    <2> QED
      BY <1>1, <2>2, FewerIsLone
  <1> QED
    BY <1>3, <1>4

LEMMA SwapWait ==
    ASSUME NEW b, IsABag(b), NEW e \in BagToSet(b), NEW g, Follows(e, g), NEW t, NEW d
    PROVE  /\ WhileClosed(b, t) => WhileClosed(Swap(b, e, g), t)
           /\ WhileOpen(b, t, d) => WhileOpen(Swap(b, e, g), t, d)
           /\ WhileOnce(b, t, d) => WhileOnce(Swap(b, e, g), t, d)
  <1> DEFINE n == Swap(b, e, g)
  <1>1. ASSUME NEW op, NEW f \in About(n, t, op)
        PROVE  f \in About(b, t, op) \/ (f = g /\ e \in About(b, t, op))
    BY <1>1, SwapFacts DEF About, Follows
  <1>2. \A op : Lone(b, t, op) => Lone(n, t, op)
    BY SwapIsLone
  <1> HIDE DEF n
  <1>3. WhileClosed(b, t) => WhileClosed(n, t)
    BY <1>1 DEF WhileClosed
  <1>4. ASSUME WhileOpen(b, t, d) PROVE WhileOpen(n, t, d)
    <2>1. \A f \in About(n, t, "lines") \cup About(n, t, "fix") : f.c = d.c
      BY <1>1, <1>4 DEF WhileOpen, Follows
    <2>2. About(n, t, "snippet") # {} => d.snippet = "wait"
      BY <1>1, <1>4 DEF WhileOpen
    <2>3. Early(d) => About(n, t, "fix") = {}
      BY <1>1, <1>4 DEF WhileOpen
    <2>4. d.snippet = "wait" => \A f \in About(n, t, "lines") : f.word # "right"
      BY <1>1, <1>4 DEF WhileOpen, Follows
    <2> QED
      BY <1>2, <1>4, <2>1, <2>2, <2>3, <2>4 DEF WhileOpen
  <1>5. ASSUME WhileOnce(b, t, d) PROVE WhileOnce(n, t, d)
    BY <1>1, <1>2, <1>5 DEF WhileOnce, Follows
  <1> QED
    BY <1>3, <1>4, <1>5 DEF n

-----------------------------------------------------------------------------
(* Promises.                                                               *)

Count(b, c) == Copies(ScorePromise(c), b)

LEMMA CountFacts ==
    ASSUME NEW b, IsABag(b), NEW c \in Challenges
    PROVE  /\ Count(b, c) \in Nat
           /\ \A e \in BagToSet(b) : Count(Take(b, e), c) = Count(b, c) - (IF e = ScorePromise(c) THEN 1 ELSE 0)
           /\ \A e : Count(Put(b, e), c) = Count(b, c) + (IF e = ScorePromise(c) THEN 1 ELSE 0)
           /\ \A e \in BagToSet(b) : e = ScorePromise(c) => Count(b, c) > 0
  BY CopiesFacts, TakeFacts, PutFacts DEF Count

(* solve, when the challenge was not solved or is verified by queries.     *)
LEMMA SolveFacts ==
    ASSUME ServerTypes, NEW w, IsABag(w), BagToSet(w) \subseteq Works, NEW c \in Challenges, c \in Checked \/ notSolved(c),
           \A d \in Challenges : Count(w, d) = Count(work, d), Scoring, solve(c, w, FALSE), UNCHANGED solves
    PROVE  cache' \in [Challenges -> BOOLEAN] /\ WorkTypes' /\ Scoring'
  <1>1. work' = Put(w, ScorePromise(c)) /\ cache' = [cache EXCEPT ![c] = TRUE] /\ cache \in [Challenges -> BOOLEAN]
    BY DEF solve, ServerTypes, ScorePromise
  <1>2. cache' \in [Challenges -> BOOLEAN] /\ cache'[c] /\ \A d \in Challenges : d # c => cache'[d] = cache[d]
    BY <1>1
  <1>3. ScorePromise(c) \in Works
    BY DEF ScorePromise, Promise, Works, Saves
  <1>4. WorkTypes'
    <2>1. IsABag(Put(w, ScorePromise(c))) /\ BagToSet(Put(w, ScorePromise(c))) \subseteq Works
      BY <1>3, PutFacts
    <2> QED
      BY <1>1, <2>1 DEF WorkTypes
  <1>5. \A d \in Challenges : (ScorePromise(c) = ScorePromise(d)) <=> c = d
    BY DEF ScorePromise, Promise
  <1>6. \A d \in Challenges : Count(work', d) = Count(work, d) + (IF d = c THEN 1 ELSE 0) /\ Count(work, d) \in Nat
    <2>1. ASSUME NEW d \in Challenges
          PROVE  Count(Put(w, ScorePromise(c)), d) = Count(w, d) + (IF d = c THEN 1 ELSE 0) /\ Count(w, d) \in Nat
      BY <1>5, CountFacts
    <2> QED
      BY <1>1, <2>1
  <1>7. \A d \in Challenges \ Checked : /\ solves[d] + Count(work, d) <= 1
                                        /\ solves[d] + Count(work, d) = 1 => cache[d]
    BY DEF Scoring, Count
  <1>8. \A d \in Challenges : solves'[d] = solves[d] /\ solves[d] \in Nat
    BY DEF ServerTypes
  <1>9. ASSUME NEW d \in Challenges \ Checked
        PROVE  /\ solves'[d] + Count(work', d) <= 1
               /\ solves'[d] + Count(work', d) = 1 => cache'[d]
    BY <1>2, <1>6, <1>7, <1>8 DEF notSolved
  <1>10. Scoring'
    BY <1>9 DEF Scoring, Count
  <1> QED
    BY <1>2, <1>4, <1>10

(* Nothing is scored, and the promises to score stay.                      *)
LEMMA ScoringStays ==
    ASSUME Scoring, UNCHANGED solves, \A c \in Challenges : cache[c] => cache'[c],
           \A c \in Challenges : Count(work', c) = Count(work, c)
    PROVE  Scoring'
  BY DEF Scoring, Count

(* A message of the server's own that is no promise to score is gone.      *)
LEMMA TakenFacts ==
    ASSUME WorkTypes, NEW e \in BagToSet(work), \A c \in Challenges : e # ScorePromise(c)
    PROVE  /\ IsABag(Take(work, e)) /\ BagToSet(Take(work, e)) \subseteq Works
           /\ \A c \in Challenges : Count(Take(work, e), c) = Count(work, c)
  <1>1. \A c \in Challenges : Count(Take(work, e), c) = Count(work, c) - 0 /\ Count(work, c) \in Nat
    BY CountFacts DEF WorkTypes
  <1> QED
    BY <1>1, TakeFacts DEF WorkTypes

(* challenge.save() is done: the score takes the place of the promise.     *)
LEMMA SavedFacts ==
    ASSUME ServerTypes, WorkTypes, Scoring, NEW e \in BagToSet(work), saved(e)
    PROVE  /\ e.c \in Challenges /\ e.restore \in BOOLEAN /\ solves' \in [Challenges -> Nat]
           /\ WorkTypes' /\ Scoring' /\ UNCHANGED cache
  <1>1. e \in Saves /\ e.op = "save" /\ UNCHANGED cache
    BY DEF saved, WorkTypes, Works, Tokens, Counts
  <1>2. e.c \in Challenges /\ e.restore \in BOOLEAN /\ e = Promise(e.c, e.restore)
    BY <1>1 DEF Saves, Promise
  <1>3. CASE e.restore
    <2>1. \A c \in Challenges : e # ScorePromise(c)
      BY <1>3 DEF ScorePromise, Promise
    <2>2. work' = Take(work, e) /\ UNCHANGED solves
      BY <1>3 DEF saved
    <2>3. WorkTypes'
      BY <2>1, <2>2, TakenFacts DEF WorkTypes
    <2>4. Scoring'
      BY <1>1, <2>1, <2>2, TakenFacts, ScoringStays
    <2> QED
      BY <1>1, <1>2, <2>2, <2>3, <2>4 DEF ServerTypes
  <1>4. CASE ~e.restore
    <2> DEFINE g == [e EXCEPT !.op = "webhook"]
    <2>1. e = ScorePromise(e.c) /\ g \in Saves /\ g.op = "webhook"
      BY <1>1, <1>2, <1>4 DEF Saves, ScorePromise
    <2>2. work' = Swap(work, e, g) /\ solves' = [solves EXCEPT ![e.c] = @ + 1]
      BY <1>4 DEF saved, calculateCheatScore
    <2> HIDE DEF g
    <2>3. WorkTypes'
      BY <2>1, <2>2, SwapFacts DEF WorkTypes, Works
    <2>4. solves' \in [Challenges -> Nat]
      BY <1>2, <2>2 DEF ServerTypes
    <2>5. ASSUME NEW c \in Challenges
          PROVE  /\ Count(work', c) = Count(work, c) - (IF c = e.c THEN 1 ELSE 0) /\ Count(work, c) \in Nat
                 /\ solves'[c] = solves[c] + (IF c = e.c THEN 1 ELSE 0) /\ solves[c] \in Nat
      <3>1. g # ScorePromise(c)
        BY <2>1 DEF ScorePromise, Promise
      <3>2. e = ScorePromise(c) <=> c = e.c
        BY <2>1 DEF ScorePromise, Promise
      <3>3. Count(work, c) \in Nat
        BY CountFacts DEF WorkTypes
      <3>4. Count(work', c) = Count(work, c) - (IF c = e.c THEN 1 ELSE 0)
        <4>1. Copies(ScorePromise(c), Swap(work, e, g)) = Copies(ScorePromise(c), work)
                   - (IF ScorePromise(c) = e THEN 1 ELSE 0) + (IF ScorePromise(c) = g THEN 1 ELSE 0)
          BY SwapFacts DEF WorkTypes
        <4> QED
          BY <2>2, <3>1, <3>2, <3>3, <4>1 DEF Count
      <3> QED
        BY <2>2, <3>3, <3>4 DEF ServerTypes
    <2>6. ASSUME NEW c \in Challenges \ Checked
          PROVE  solves'[c] + Count(work', c) = solves[c] + Count(work, c)
      BY <2>5
    <2>7. Scoring'
      BY <1>1, <2>6 DEF Scoring, Count
    <2> QED
      BY <1>1, <1>2, <2>3, <2>4, <2>7
  <1> QED
    BY <1>3, <1>4, <1>2

(* restoreProgress promises to save, not to score.                         *)
LEMMA RestoreFacts ==
    ASSUME ServerTypes, WorkTypes, Scoring, NEW e \in Messages, restoreProgress(e)
    PROVE  WorkTypes' /\ Scoring'
  <1> DEFINE S == {Promise(c, TRUE) : c \in e.v}
  <1>1. work' = work (+) SetToBag(S) /\ UNCHANGED solves /\ cache' = [c \in Challenges |-> cache[c] \/ c \in e.v]
    BY DEF restoreProgress
  <1>2. S \subseteq Works
    <2>1. e.v \subseteq Challenges
      BY DEF Messages
    <2>2. \A c \in Challenges : Promise(c, TRUE) \in Works
      BY DEF Promise, Works, Saves
    <2> QED
      BY <2>1, <2>2
  <1>3. \A c \in Challenges : ScorePromise(c) \notin S
    BY DEF ScorePromise, Promise
  <1> HIDE DEF S
  <1>4. WorkTypes'
    BY <1>1, <1>2, AddFacts DEF WorkTypes
  <1>5. \A c \in Challenges : Count(work', c) = Count(work, c)
    <2>1. ASSUME NEW c \in Challenges PROVE Count(work (+) SetToBag(S), c) = Count(work, c)
      <3>1. Copies(ScorePromise(c), work) \in Nat
        BY CopiesFacts DEF WorkTypes
      <3> QED
        BY <1>3, <3>1, AddFacts DEF Count, WorkTypes
    <2> QED
      BY <1>1, <2>1
  <1>6. \A c \in Challenges : cache[c] => cache'[c]
    BY <1>1
  <1> QED
    BY <1>1, <1>4, <1>5, <1>6, ScoringStays

(* The steps of the server that do not touch the rows.                     *)
LEMMA SolvingFacts ==
    ASSUME ServerTypes, WorkTypes, Scoring,
           (\E e \in BagToSet(work) : notify(e) \/ jwtVerified(e) \/ counted(e)) \/ Occur
    PROVE  /\ cache' \in [Challenges -> BOOLEAN] /\ WorkTypes' /\ Scoring'
           /\ UNCHANGED <<db, notifs, solves, accuracy, snippets, wires, restarts>>
  <1>0. cache \in [Challenges -> BOOLEAN] /\ IsABag(work) /\ BagToSet(work) \subseteq Works
    BY DEF ServerTypes, WorkTypes
  <1>1. ASSUME NEW e \in BagToSet(work), notify(e)
        PROVE  /\ cache' \in [Challenges -> BOOLEAN] /\ WorkTypes' /\ Scoring'
               /\ UNCHANGED <<db, notifs, solves, accuracy, snippets, wires, restarts>>
    <2>1. \A c \in Challenges : e # ScorePromise(c)
      BY <1>1 DEF notify, ScorePromise, Promise
    <2>2. work' = Take(work, e) /\ UNCHANGED <<cache, db, notifs, solves, accuracy, snippets, wires, restarts>>
      BY <1>1 DEF notify, hist
    <2> QED
      BY <1>0, <2>1, <2>2, TakenFacts, ScoringStays DEF WorkTypes
  <1>2. ASSUME NEW e \in BagToSet(work), jwtVerified(e) \/ counted(e)
        PROVE  /\ cache' \in [Challenges -> BOOLEAN] /\ WorkTypes' /\ Scoring'
               /\ UNCHANGED <<db, notifs, solves, accuracy, snippets, wires, restarts>>
    <2>1. /\ e.c \in Challenges /\ (e.op = "count" => e.c \in Checked) /\ e.op \in {"token", "count"}
          /\ UNCHANGED <<db, notifs, solves, accuracy, snippets, wires, restarts>>
      BY <1>0, <1>2, ProgressAssumption DEF jwtVerified, counted, Works, Saves, Tokens, Counts
    <2>2. \A c \in Challenges : e # ScorePromise(c)
      BY <2>1 DEF ScorePromise, Promise
    <2>3. /\ IsABag(Take(work, e)) /\ BagToSet(Take(work, e)) \subseteq Works
          /\ \A c \in Challenges : Count(Take(work, e), c) = Count(work, c)
      BY <2>2, TakenFacts
    <2>4. \/ solve(e.c, Take(work, e), FALSE) /\ (e.c \in Checked \/ notSolved(e.c))
          \/ work' = Take(work, e) /\ UNCHANGED cache
      BY <1>2, <2>1 DEF jwtVerified, counted, solveIf
    <2>5. CASE work' = Take(work, e) /\ UNCHANGED cache
      BY <1>0, <2>1, <2>3, <2>5, ScoringStays DEF WorkTypes
    <2>6. CASE solve(e.c, Take(work, e), FALSE) /\ (e.c \in Checked \/ notSolved(e.c))
      BY <2>1, <2>3, <2>6, SolveFacts
    <2> QED
      BY <2>1, <2>4, <2>5, <2>6
  <1>3. ASSUME NEW c \in Challenges, accessControlChallenges(c)
        PROVE  /\ cache' \in [Challenges -> BOOLEAN] /\ WorkTypes' /\ Scoring'
               /\ UNCHANGED <<db, notifs, solves, accuracy, snippets, wires, restarts>>
    <2>1. /\ UNCHANGED <<db, notifs, solves, accuracy, snippets, wires, restarts>>
          /\ \/ solve(c, work, FALSE) /\ notSolved(c)
             \/ UNCHANGED <<work, cache>>
      BY <1>3 DEF accessControlChallenges, solveIf
    <2>2. CASE UNCHANGED <<work, cache>>
      BY <1>0, <2>1, <2>2, ScoringStays DEF WorkTypes
    <2>3. CASE solve(c, work, FALSE) /\ notSolved(c)
      BY <1>0, <2>1, <2>3, SolveFacts
    <2> QED
      BY <2>1, <2>2, <2>3
  <1>4. ASSUME NEW c \in Challenges, jwtChallenges(c) \/ databaseRelatedChallenges(c)
        PROVE  /\ cache' \in [Challenges -> BOOLEAN] /\ WorkTypes' /\ Scoring'
               /\ UNCHANGED <<db, notifs, solves, accuracy, snippets, wires, restarts>>
    <2>1. UNCHANGED <<cache, db, notifs, solves, accuracy, snippets, wires, restarts>>
      BY <1>4 DEF jwtChallenges, databaseRelatedChallenges, hist
    <2>2. PICK S : /\ work' = work (+) SetToBag(S) /\ S \subseteq Works
                   /\ \A d \in Challenges : ScorePromise(d) \notin S
      <3>1. CASE jwtChallenges(c)
        <4> DEFINE e == [op |-> "token", c |-> c]
        <4>1. work' = work (+) SetToBag({e}) /\ c \notin Checked
          BY <3>1 DEF jwtChallenges, Put
        <4>2. {e} \subseteq Works /\ \A d \in Challenges : ScorePromise(d) \notin {e}
          BY <4>1 DEF Works, Tokens, ScorePromise, Promise
        <4> QED
          BY <4>1, <4>2
      <3>2. CASE databaseRelatedChallenges(c)
        <4>1. work' = work (+) SetToBag(queries(c)) /\ c \in Checked
          BY <3>2 DEF databaseRelatedChallenges, checkPatternInFeedbackAndComplaints
        <4>2. \A x \in queries(c) : x \in Counts /\ x.op = "count"
          BY <4>1 DEF queries, Counts
        <4>3. queries(c) \subseteq Works /\ \A d \in Challenges : ScorePromise(d) \notin queries(c)
          BY <4>2 DEF Works, ScorePromise, Promise
        <4> QED
          BY <4>1, <4>3
      <3> QED
        BY <1>4, <3>1, <3>2
    <2>3. WorkTypes'
      BY <1>0, <2>2, AddFacts DEF WorkTypes
    <2>4. ASSUME NEW d \in Challenges PROVE Count(work (+) SetToBag(S), d) = Count(work, d)
      <3>1. Copies(ScorePromise(d), work) \in Nat
        BY <1>0, CopiesFacts
      <3> QED
        BY <1>0, <2>2, <3>1, AddFacts DEF Count
    <2>5. Scoring'
      BY <2>1, <2>2, <2>4, ScoringStays
    <2> QED
      BY <1>0, <2>1, <2>3, <2>5
  <1> QED
    BY <1>1, <1>2, <1>3, <1>4 DEF Occur

-----------------------------------------------------------------------------
(* The steps of the server preserve the invariant.                         *)

(* A tab that does nothing is right as long as the rows grow.              *)
LEMMA TabsKept ==
    ASSUME db \in Rows, db' \in Rows, Grows, restarts' = restarts, TabTypes, BoardsAreTrue, DialogsAreTrue,
           DialogIsBacked, UNCHANGED cvars
    PROVE  TabTypes' /\ BoardsAreTrue' /\ DialogsAreTrue' /\ DialogIsBacked'
  <1>1. TabTypes' /\ UNCHANGED <<board, dialog, doubled>>
    BY DEF TabTypes, cvars
  <1>2. ASSUME restarts = 0, NEW t \in Tabs, board[t] # NoBoard PROVE NotAhead(board[t])'
    <2>1. board[t] \in Rows /\ NotAhead(board[t])
      BY <1>2 DEF TabTypes, BoardsAreTrue
    <2>2. ASSUME NEW c \in Challenges
          PROVE  (board[t][c].solved => db'[c].solved) /\ board[t][c].code <= db'[c].code
      <3>1. /\ board[t][c].code \in 0..2 /\ db[c].code \in 0..2 /\ db'[c].code \in 0..2
            /\ (board[t][c].solved => db[c].solved) /\ board[t][c].code <= db[c].code
            /\ (db[c].solved => db'[c].solved) /\ db[c].code <= db'[c].code
        BY <2>1 DEF NotAhead, Grows, Rows, ChallengeTable
      <3> QED
        BY <3>1
    <2> QED
      BY <1>1, <2>2 DEF NotAhead
  <1>3. ASSUME NEW t \in Tabs, dialog[t].open
        PROVE  /\ dialog[t].c \in Challenges /\ dialog[t].status \in 0..2
               /\ db[dialog[t].c].code \in 0..2 /\ db'[dialog[t].c].code \in 0..2
               /\ db[dialog[t].c].code <= db'[dialog[t].c].code
    <2>1. dialog[t] \in Dialogs
      BY <1>3 DEF TabTypes, Closed
    <2>2. dialog[t].c \in Challenges /\ dialog[t].status \in 0..2
      BY <2>1, ProgressAssumption DEF Dialogs
    <2> QED
      BY <2>2 DEF Rows, ChallengeTable, Grows
  <1>4. DialogsAreTrue'
    BY <1>1, <1>3 DEF DialogsAreTrue
  <1>5. DialogIsBacked'
    BY <1>1, <1>3 DEF DialogIsBacked, Backed
  <1> QED
    BY <1>1, <1>2, <1>4, <1>5 DEF BoardsAreTrue

LEMMA ExchangeWaits ==
    ASSUME IsABag(net), NEW e \in BagToSet(net), Exchange(e), DialogsWait, UNCHANGED <<dialog, doubled>>
    PROVE  DialogsWait'
  <1>1. ASSUME NEW t \in Tabs, NEW d
        PROVE  /\ WhileClosed(net, t) => WhileClosed(net', t)
               /\ WhileOpen(net, t, d) => WhileOpen(net', t, d)
               /\ WhileOnce(net, t, d) => WhileOnce(net', t, d)
    <2>1. CASE net' = Take(net, e)
      <3>1. IsABag(net') /\ BagToSet(net') \subseteq BagToSet(net)
        BY <2>1, TakeFacts
      <3>2. \A f : Copies(f, net') <= Copies(f, net)
        <4>1. ASSUME NEW f PROVE Copies(f, Take(net, e)) <= Copies(f, net)
          <5>1. Copies(f, net) \in Nat
            BY CopiesFacts
          <5> QED
            BY <5>1, TakeFacts
        <4> QED
          BY <2>1, <4>1
      <3>3. \A op : Fewer(net', net, t, op)
        BY <3>1, <3>2 DEF Fewer, About
      <3> QED
        BY <3>1, <3>3, FewerWait
    <2>2. ASSUME NEW g, Follows(e, g), net' = Swap(net, e, g)
          PROVE  /\ WhileClosed(net, t) => WhileClosed(net', t)
                 /\ WhileOpen(net, t, d) => WhileOpen(net', t, d)
                 /\ WhileOnce(net, t, d) => WhileOnce(net', t, d)
      BY <2>2, SwapWait
    <2> QED
      BY <2>1, <2>2 DEF Exchange, Succeeds
  <1> QED
    BY <1>1 DEF DialogsWait

LEMMA HandleStep ==
    ASSUME BInv, NEW e \in BagToSet(net), Handle(e), UNCHANGED cvars
    PROVE  BInv'
  <1>1. /\ ServerTypes /\ WorkTypes /\ WireTypes /\ TabTypes
        /\ db \in Rows /\ cache \in [Challenges -> BOOLEAN] /\ IsABag(net) /\ BagToSet(net) \subseteq Messages
        /\ e \in Messages /\ MessageIsTrue(e) /\ CodedMessage(e) /\ CodedRows
    BY DEF BInv, Types, ServerTypes, WireTypes, MessagesAreTrue, MessageIsTrue
  <1>2. db' \in Rows /\ Grows /\ CodedRows' /\ restarts' = restarts
    BY <1>1, HandleRows
  <1>3. Exchange(e)
    BY <1>1, HandleNet
  <1>4. IsABag(net') /\ BagToSet(net') \subseteq Messages /\ MessagesAreTrue'
    BY <1>1, <1>2, <1>3, ExchangeFacts DEF BInv
  <1>5. DialogsWait'
    BY <1>1, <1>3, ExchangeWaits DEF BInv, cvars
  <1>6. /\ notifs' \in Seq(Events) /\ sock' \in [Tabs -> Seq(Events)]
        /\ NotificationsAreTrue' /\ EventsAreTrue'
    BY <1>1, HandleNews DEF BInv
  <1>7. /\ cache' \in [Challenges -> BOOLEAN] /\ UNCHANGED <<solves, conn>>
        /\ accuracy' \in [Challenges -> Verdicts] /\ snippets' \in {"null", "loading", "full", "empty"}
    BY <1>1, HandleTypes
  <1>8. TabTypes' /\ BoardsAreTrue' /\ DialogsAreTrue' /\ DialogIsBacked'
    BY <1>1, <1>2, TabsKept DEF BInv
  <1>9. WorkTypes' /\ Scoring'
    <2>1. CASE restoreProgress(e)
      BY <1>1, <2>1, RestoreFacts DEF BInv
    <2>2. CASE UNCHANGED <<cache, solves, work>>
      BY <2>2 DEF BInv, Types, WorkTypes, Scoring
    <2> QED
      BY <2>1, <2>2
      DEF Handle, notificationReceived, listChallenges, continueCode, continueCodeFindIt, continueCodeFixIt, putHint,
          restoreProgressFindIt, restoreProgressFixIt, repeatNotification, findFilesWithCodeChallenges,
          serveCodeSnippet, serveCodeFixes, checkVulnLines, solveFindIt, calculateFindItCheatScore, checkCorrectFix,
          solveFixIt, calculateFixItCheatScore, svars
  <1>10. ServerTypes' /\ WireTypes'
    BY <1>1, <1>2, <1>4, <1>6, <1>7 DEF ServerTypes, WireTypes
  <1> QED
    BY <1>2, <1>4, <1>5, <1>6, <1>8, <1>9, <1>10 DEF BInv, Types

(* Nothing is sent between the tabs and the server.                        *)
LEMMA NetKept ==
    ASSUME BInv, db' \in Rows, Grows, restarts' = restarts, UNCHANGED <<net, cvars>>
    PROVE  IsABag(net') /\ BagToSet(net') \subseteq Messages /\ MessagesAreTrue' /\ DialogsWait'
  <1>1. IsABag(net) /\ BagToSet(net) \subseteq Messages /\ db \in Rows
    BY DEF BInv, Types, WireTypes, ServerTypes
  <1>2. ASSUME NEW e \in BagToSet(net) PROVE MessageIsTrue(e)'
    BY <1>1, <1>2, MessageStaysTrue DEF BInv, MessagesAreTrue
  <1>3. DialogsWait'
    BY DEF BInv, DialogsWait, cvars
  <1> QED
    BY <1>1, <1>2, <1>3 DEF MessagesAreTrue

LEMMA SavedStep ==
    ASSUME BInv, NEW e \in BagToSet(work), saved(e), UNCHANGED cvars
    PROVE  BInv'
  <1>1. /\ ServerTypes /\ WorkTypes /\ WireTypes /\ TabTypes /\ db \in Rows
        /\ notifs \in Seq(Events) /\ sock \in [Tabs -> Seq(Events)]
    BY DEF BInv, Types, ServerTypes, WireTypes
  <1>2. /\ e.c \in Challenges /\ e.restore \in BOOLEAN /\ solves' \in [Challenges -> Nat]
        /\ WorkTypes' /\ Scoring' /\ UNCHANGED cache
    BY <1>1, SavedFacts DEF BInv
  <1>3. /\ db' = [db EXCEPT ![e.c].solved = TRUE] /\ sendNotification(e.c, e.restore)
        /\ UNCHANGED <<accuracy, snippets, net, conn, restarts>>
    BY DEF saved, hist
  <1>4. db' \in Rows /\ Grows /\ CodedRows' /\ db'[e.c].solved
    <2>1. db' \in Rows /\ db'[e.c].solved
      BY <1>1, <1>2, <1>3 DEF Rows, ChallengeTable
    <2>2. \A c \in Challenges : db'[c].code = db[c].code /\ (db[c].solved => db'[c].solved) /\ db[c].code \in 0..2
      BY <1>1, <1>2, <1>3 DEF Rows, ChallengeTable
    <2>3. CodedRows
      BY DEF BInv
    <2> QED
      BY <2>1, <2>2, <2>3 DEF Grows, CodedRows
  <1>5. IsABag(net') /\ BagToSet(net') \subseteq Messages /\ MessagesAreTrue' /\ DialogsWait'
    BY <1>3, <1>4, NetKept
  <1>6. TabTypes' /\ BoardsAreTrue' /\ DialogsAreTrue' /\ DialogIsBacked'
    BY <1>1, <1>3, <1>4, TabsKept DEF BInv
  <1>7. /\ notifs' \in Seq(Events) /\ sock' \in [Tabs -> Seq(Events)]
        /\ NotificationsAreTrue' /\ EventsAreTrue'
    <2> DEFINE x == SolvedEvent(e.c, e.restore)
    <2>1. FreshNotification(x)' /\ FreshEvent(x)'
      BY <1>4 DEF FreshNotification, FreshEvent, SolvedEvent
    <2>2. /\ notifs' \in Seq(Events) /\ Among(notifs', notifs, x)
          /\ sock' \in [Tabs -> Seq(Events)] /\ \A t \in Tabs : Among(sock'[t], sock[t], x)
      BY <1>1, <1>2, <1>3, SendFacts
    <2> HIDE DEF x
    <2> QED
      BY <1>1, <1>3, <1>4, <2>1, <2>2, NewsIsTrue DEF BInv
  <1>8. ServerTypes' /\ WireTypes'
    BY <1>1, <1>2, <1>3, <1>4, <1>5, <1>7 DEF ServerTypes, WireTypes
  <1> QED
    BY <1>2, <1>4, <1>5, <1>6, <1>7, <1>8 DEF BInv, Types

LEMMA SolvingStep ==
    ASSUME BInv, (\E e \in BagToSet(work) : notify(e) \/ jwtVerified(e) \/ counted(e)) \/ Occur, UNCHANGED cvars
    PROVE  BInv'
  <1>1. ServerTypes /\ WorkTypes /\ WireTypes /\ TabTypes /\ db \in Rows
    BY DEF BInv, Types, ServerTypes
  <1>2. /\ cache' \in [Challenges -> BOOLEAN] /\ WorkTypes' /\ Scoring'
        /\ UNCHANGED <<db, notifs, solves, accuracy, snippets, wires, restarts>>
    BY <1>1, SolvingFacts DEF BInv
  <1>3. db' \in Rows /\ Grows /\ CodedRows'
    BY <1>1, <1>2, RowsStay DEF BInv, CodedRows
  <1>4. IsABag(net') /\ BagToSet(net') \subseteq Messages /\ MessagesAreTrue' /\ DialogsWait'
    BY <1>2, <1>3, NetKept DEF wires
  <1>5. TabTypes' /\ BoardsAreTrue' /\ DialogsAreTrue' /\ DialogIsBacked'
    BY <1>1, <1>2, <1>3, TabsKept DEF BInv
  <1>6. NotificationsAreTrue' /\ EventsAreTrue'
    BY <1>1, <1>2, <1>3, OldNewsIsTrue DEF BInv, ServerTypes, WireTypes, wires
  <1>7. ServerTypes' /\ WireTypes'
    BY <1>1, <1>2, <1>3, <1>4 DEF ServerTypes, WireTypes, wires
  <1> QED
    BY <1>2, <1>3, <1>4, <1>5, <1>6, <1>7 DEF BInv, Types

LEMMA ConnectionStep ==
    ASSUME BInv, NEW t \in Tabs, connection(t), UNCHANGED cvars
    PROVE  BInv'
  <1>1. /\ ServerTypes /\ WorkTypes /\ WireTypes /\ TabTypes /\ db \in Rows
        /\ notifs \in Seq(Events) /\ sock \in [Tabs -> Seq(Events)] /\ conn \in [Tabs -> BOOLEAN]
    BY DEF BInv, Types, ServerTypes, WireTypes
  <1>2. /\ UNCHANGED <<cache, db, notifs, solves, accuracy, snippets, work, net, restarts>>
        /\ conn' = [conn EXCEPT ![t] = TRUE]
        /\ sock' = [sock EXCEPT ![t] = (IF first THEN <<>> ELSE <<StartedEvent>>) \o notifs]
    BY DEF connection, hist
  <1>3. db' \in Rows /\ Grows /\ CodedRows'
    BY <1>1, <1>2, RowsStay DEF BInv, CodedRows
  <1>4. IsABag(net') /\ BagToSet(net') \subseteq Messages /\ MessagesAreTrue' /\ DialogsWait'
    BY <1>2, <1>3, NetKept
  <1>5. TabTypes' /\ BoardsAreTrue' /\ DialogsAreTrue' /\ DialogIsBacked'
    BY <1>1, <1>2, <1>3, TabsKept DEF BInv
  <1>6. NotificationsAreTrue'
    BY <1>1, <1>2, <1>3, OldNewsIsTrue DEF BInv
  <1>7. StartedEvent \in Events /\ StartedEvent.ev = "started"
    BY ProgressAssumption DEF StartedEvent, Events
  <1>8. PICK old \in Seq(Events) : /\ sock' = [sock EXCEPT ![t] = old \o notifs]
                                   /\ \A i \in DOMAIN old : old[i].ev = "started"
    <2>1. <<>> \in Seq(Events) /\ <<StartedEvent>> \in Seq(Events)
      BY <1>7
    <2>2. \A i \in DOMAIN <<StartedEvent>> : <<StartedEvent>>[i].ev = "started"
      BY <1>7
    <2>3. \/ sock' = [sock EXCEPT ![t] = <<>> \o notifs]
          \/ sock' = [sock EXCEPT ![t] = <<StartedEvent>> \o notifs]
      BY <1>2
    <2>4. CASE sock' = [sock EXCEPT ![t] = <<>> \o notifs]
      <3>1. \A i \in DOMAIN <<>> : <<>>[i].ev = "started"
        OBVIOUS
      <3> QED
        BY <2>1, <2>4, <3>1
    <2>5. CASE sock' = [sock EXCEPT ![t] = <<StartedEvent>> \o notifs]
      BY <2>1, <2>2, <2>5
    <2> QED
      BY <2>3, <2>4, <2>5
  <1>9. sock' \in [Tabs -> Seq(Events)]
    BY <1>1, <1>8
  <1>10. ASSUME restarts = 0, NEW u \in Tabs, NEW i \in DOMAIN sock'[u] PROVE FreshEvent(sock[u][i])'
    <2>1. CASE u = t
      <3>1. sock'[u] = old \o notifs
        BY <1>1, <1>8, <2>1
      <3>2. sock'[u][i].ev = "started" \/ \E j \in DOMAIN notifs : sock'[u][i] = notifs[j]
        <4>1. /\ DOMAIN (old \o notifs) = 1..(Len(old) + Len(notifs)) /\ DOMAIN old = 1..Len(old)
              /\ DOMAIN notifs = 1..Len(notifs) /\ Len(old) \in Nat /\ Len(notifs) \in Nat
          BY <1>1, <1>8
        <4>2. \A k \in 1..(Len(old) + Len(notifs)) :
                (old \o notifs)[k] = IF k <= Len(old) THEN old[k] ELSE notifs[k - Len(old)]
          BY <1>1, <1>8
        <4>3. i \in 1..(Len(old) + Len(notifs))
          BY <1>10, <3>1, <4>1
        <4>4. CASE i <= Len(old)
          BY <1>8, <3>1, <4>1, <4>2, <4>3, <4>4
        <4>5. CASE i > Len(old)
          <5>1. i - Len(old) \in DOMAIN notifs /\ sock'[u][i] = notifs[i - Len(old)]
            BY <3>1, <4>1, <4>2, <4>3, <4>5
          <5> QED
            BY <5>1
        <4> QED
          BY <4>1, <4>3, <4>4, <4>5
      <3>3. \A j \in DOMAIN notifs : FreshNotification(notifs[j])
        BY <1>10 DEF BInv, NotificationsAreTrue
      <3> QED
        BY <1>2, <3>2, <3>3 DEF FreshEvent, FreshNotification
    <2>2. CASE u # t
      <3>1. sock'[u] = sock[u]
        BY <1>1, <1>8, <2>2
      <3>2. FreshEvent(sock[u][i])
        BY <1>10, <3>1 DEF BInv, EventsAreTrue
      <3> QED
        BY <1>2, <3>1, <3>2 DEF FreshEvent
    <2> QED
      BY <2>1, <2>2
  <1>11. EventsAreTrue'
    BY <1>2, <1>10 DEF EventsAreTrue
  <1>12. ServerTypes' /\ WireTypes' /\ WorkTypes' /\ Scoring'
    BY <1>1, <1>2, <1>3, <1>4, <1>9 DEF BInv, ServerTypes, WireTypes, WorkTypes, Scoring
  <1> QED
    BY <1>3, <1>4, <1>5, <1>6, <1>11, <1>12 DEF BInv, Types

-----------------------------------------------------------------------------
(* The steps of the tabs.                                                  *)

LEMMA ServerKept ==
    ASSUME BInv, UNCHANGED <<svars, conn, hist>>
    PROVE  /\ ServerTypes' /\ WorkTypes' /\ Scoring' /\ CodedRows' /\ NotificationsAreTrue'
           /\ db \in Rows /\ db' = db /\ restarts' = restarts /\ conn' \in [Tabs -> BOOLEAN]
           /\ \A e : MessageIsTrue(e) => MessageIsTrue(e)'
  <1>1. UNCHANGED <<cache, db, notifs, solves, accuracy, snippets, work, conn, restarts>>
    BY DEF svars, hist
  <1>2. ServerTypes' /\ WorkTypes' /\ db \in Rows /\ conn' \in [Tabs -> BOOLEAN]
    BY <1>1 DEF BInv, Types, ServerTypes, WorkTypes, WireTypes
  <1>3. Scoring' /\ CodedRows' /\ NotificationsAreTrue'
    BY <1>1 DEF BInv, Scoring, CodedRows, NotificationsAreTrue, FreshNotification
  <1>4. \A e : MessageIsTrue(e) => MessageIsTrue(e)'
    BY <1>1 DEF MessageIsTrue, CodedMessage, TrueVerdict, Decided, WaitsForSnippets, FreshAnswer, NotAhead
  <1> QED
    BY <1>1, <1>2, <1>3, <1>4

(* The bag n has messages of b, and others no dialog waits for.            *)
DialogOps == {"snippet", "fixes", "lines", "fix"}
Aside(f) == f \in Messages /\ MessageIsTrue(f) /\ f.op \notin DialogOps
Beside(b, n) ==
    /\ IsABag(n)
    /\ \A f \in BagToSet(n) : f \in BagToSet(b) \/ Aside(f)
    /\ \A f : f.op \in DialogOps => Copies(f, n) <= Copies(f, b)

LEMMA AddBeside ==
    ASSUME NEW b, IsABag(b), NEW S, \A f \in S : Aside(f)
    PROVE  Beside(b, b (+) SetToBag(S))
  <1>1. ASSUME NEW f, f.op \in DialogOps PROVE Copies(f, b (+) SetToBag(S)) <= Copies(f, b)
    <2>1. f \notin S
      BY <1>1 DEF Aside
    <2>2. Copies(f, b) \in Nat
      BY CopiesFacts
    <2> QED
      BY <2>1, <2>2, AddFacts
  <1> QED
    BY <1>1, AddFacts DEF Beside

LEMMA PutBeside ==
    ASSUME NEW b, IsABag(b), NEW r, Aside(r)
    PROVE  Beside(b, Put(b, r))
  BY AddBeside DEF Put

LEMMA TakeBeside ==
    ASSUME NEW b, IsABag(b), NEW e \in BagToSet(b)
    PROVE  Beside(b, Take(b, e))
  <1>1. ASSUME NEW f PROVE Copies(f, Take(b, e)) <= Copies(f, b)
    <2>1. Copies(f, b) \in Nat
      BY CopiesFacts
    <2> QED
      BY <2>1, TakeFacts
  <1> QED
    BY <1>1, TakeFacts DEF Beside

LEMMA BesideTwice ==
    ASSUME NEW a, NEW b, NEW n, IsABag(a), Beside(a, b), Beside(b, n)
    PROVE  Beside(a, n)
  <1>1. ASSUME NEW f, f.op \in DialogOps PROVE Copies(f, n) <= Copies(f, a)
    <2>1. Copies(f, n) \in Nat /\ Copies(f, b) \in Nat /\ Copies(f, a) \in Nat
      BY CopiesFacts DEF Beside
    <2> QED
      BY <1>1, <2>1 DEF Beside
  <1> QED
    BY <1>1 DEF Beside

(* A step of a tab that leaves the dialogs alone.                          *)
LEMMA BesideStep ==
    ASSUME BInv, UNCHANGED <<svars, conn, hist>>, Beside(net, net')
    PROVE  /\ IsABag(net') /\ BagToSet(net') \subseteq Messages /\ MessagesAreTrue'
           /\ UNCHANGED <<dialog, doubled>> => DialogsWait' /\ DialogsAreTrue' /\ DialogIsBacked'
  <1>1. IsABag(net) /\ BagToSet(net) \subseteq Messages /\ \A e \in BagToSet(net) : MessageIsTrue(e)
    BY DEF BInv, Types, WireTypes, MessagesAreTrue
  <1>2. (\A e : MessageIsTrue(e) => MessageIsTrue(e)') /\ db' = db /\ restarts' = restarts
    BY ServerKept
  <1>3. IsABag(net') /\ BagToSet(net') \subseteq Messages /\ MessagesAreTrue'
    BY <1>1, <1>2 DEF Beside, Aside, MessagesAreTrue
  <1>4. ASSUME NEW t \in Tabs, NEW d
        PROVE  /\ WhileClosed(net, t) => WhileClosed(net', t)
               /\ WhileOpen(net, t, d) => WhileOpen(net', t, d)
               /\ WhileOnce(net, t, d) => WhileOnce(net', t, d)
    <2>1. \A op \in DialogOps : Fewer(net', net, t, op)
      BY DEF Beside, Aside, Fewer, About
    <2> QED
      BY <1>1, <1>3, <2>1, FewerWait DEF DialogOps
  <1>5. ASSUME UNCHANGED <<dialog, doubled>> PROVE DialogsWait'
    BY <1>4, <1>5 DEF BInv, DialogsWait
  <1>6. ASSUME UNCHANGED <<dialog, doubled>> PROVE DialogsAreTrue' /\ DialogIsBacked'
    BY <1>2, <1>6 DEF BInv, DialogsAreTrue, DialogIsBacked, Backed
  <1> QED
    BY <1>3, <1>5, <1>6

(* A new request is a message, and says nothing yet.                       *)
Allowed(op, c, v) ==
    /\ v \subseteq Challenges
    /\ op \in {"lines", "fix"} => c \in Coding
    /\ op \in {"codeFind", "codeFix", "restoreFind", "restoreFix"} => v \subseteq Coding
    /\ op = "repeat" /\ restarts = 0 => db[c].solved

LEMMA ReqFacts ==
    ASSUME NEW t \in Tabs, NEW op \in Ops, NEW c \in Challenges, NEW v,
           Allowed(op, c, v)
    PROVE  Req(t, op, c, v) \in Messages /\ MessageIsTrue(Req(t, op, c, v))
  <1>1. NoRows \in Rows
    BY DEF NoRows, NewRow, Rows, ChallengeTable
  <1>2. Req(t, op, c, v) \in Messages
    BY <1>1 DEF Req, Messages, Allowed
  <1>3. MessageIsTrue(Req(t, op, c, v))
    BY DEF Req, Allowed, MessageIsTrue, CodedMessage, TrueVerdict, Decided, WaitsForSnippets, FreshAnswer
  <1> QED
    BY <1>2, <1>3

LEMMA ReqAside ==
    ASSUME NEW t \in Tabs, NEW op \in Ops \ DialogOps, NEW c \in Challenges, NEW v,
           Allowed(op, c, v)
    PROVE  Aside(Req(t, op, c, v))
  <1>1. op \in Ops /\ op \notin DialogOps
    OBVIOUS
  <1>2. Req(t, op, c, v) \in Messages /\ MessageIsTrue(Req(t, op, c, v))
    BY <1>1, ReqFacts
  <1>3. Req(t, op, c, v).op = op
    BY DEF Req
  <1> QED
    BY <1>1, <1>2, <1>3 DEF Aside

LEMMA OpsAside ==
    {"board", "code", "codeFind", "codeFix", "restore", "restoreFind", "restoreFix", "repeat", "hint", "ack"}
        \subseteq Ops \ DialogOps
  <1>1. \A op \in {"board", "code", "codeFind", "codeFix", "restore", "restoreFind", "restoreFix", "repeat", "hint", "ack"} :
            op \in Ops
    BY DEF Ops, ChallengeService, HintService
  <1>2. \A op \in {"board", "code", "codeFind", "codeFix", "restore", "restoreFind", "restoreFix", "repeat", "hint", "ack"} :
            op \notin DialogOps
    BY DEF DialogOps
  <1> QED
    BY <1>1, <1>2

(* The requests that hand the codes back.                                  *)
LEMMA ApplyFacts ==
    ASSUME NEW t \in Tabs, NEW k \in Codes, IsABag(net)
    PROVE  Beside(net, net (+) Apply(t, k))
  <1> DEFINE c == CHOOSE x \in Challenges : TRUE
             all == {Req(t, "restore", c, k.hack), Req(t, "restoreFind", c, k.find), Req(t, "restoreFix", c, k.fix)}
             S == {r \in all : r.v # {}}
  <1>1. c \in Challenges
    BY ProgressAssumption
  <1>2. Apply(t, k) = SetToBag(S)
    BY DEF Apply
  <1> HIDE DEF c
  <1>3. \A r \in all : Aside(r)
    <2>1. /\ k.hack \in SUBSET Challenges /\ k.find \in SUBSET Challenges /\ k.fix \in SUBSET Challenges
          /\ k.find \subseteq Coding /\ k.fix \subseteq Coding
      BY ProgressAssumption DEF Codes
    <2>2. Aside(Req(t, "restore", c, k.hack))
      BY <1>1, <2>1, ReqAside, OpsAside DEF Allowed
    <2>3. Aside(Req(t, "restoreFind", c, k.find))
      BY <1>1, <2>1, ReqAside, OpsAside DEF Allowed
    <2>4. Aside(Req(t, "restoreFix", c, k.fix))
      BY <1>1, <2>1, ReqAside, OpsAside DEF Allowed
    <2> QED
      BY <2>2, <2>3, <2>4
  <1> HIDE DEF all
  <1>4. \A r \in S : Aside(r)
    BY <1>3
  <1> HIDE DEF S
  <1> QED
    BY <1>2, <1>4, AddBeside

LEMMA TailFacts ==
    ASSUME NEW s \in Seq(Events), s # <<>>
    PROVE  /\ Head(s) \in Events /\ Head(s) = s[1] /\ 1 \in DOMAIN s
           /\ Tail(s) \in Seq(Events) /\ \A i \in DOMAIN Tail(s) : i + 1 \in DOMAIN s /\ Tail(s)[i] = s[i + 1]
  OBVIOUS

(* A tab handles an event of its socket.                                   *)
LEMMA HandledFacts ==
    ASSUME BInv, UNCHANGED <<svars, conn, hist>>, NEW t \in Tabs, sock[t] # <<>>, Handled(t)
    PROVE  /\ sock' \in [Tabs -> Seq(Events)] /\ EventsAreTrue'
           /\ Ev(t) \in Events /\ (restarts = 0 => FreshEvent(Ev(t)))
  <1>1. sock \in [Tabs -> Seq(Events)] /\ sock' = [sock EXCEPT ![t] = Tail(sock[t])] /\ EventsAreTrue
    BY DEF BInv, Types, WireTypes, Handled
  <1>2. db' = db /\ restarts' = restarts
    BY ServerKept
  <1>3. sock[t] \in Seq(Events)
    BY <1>1
  <1>4. /\ Ev(t) \in Events /\ Ev(t) = sock[t][1] /\ 1 \in DOMAIN sock[t]
        /\ Tail(sock[t]) \in Seq(Events)
        /\ \A i \in DOMAIN Tail(sock[t]) : i + 1 \in DOMAIN sock[t] /\ Tail(sock[t])[i] = sock[t][i + 1]
    BY <1>3, TailFacts DEF Ev
  <1>5. sock' \in [Tabs -> Seq(Events)]
    BY <1>1, <1>4
  <1>6. restarts = 0 => FreshEvent(Ev(t))
    BY <1>1, <1>4 DEF EventsAreTrue
  <1>7. ASSUME restarts = 0, NEW u \in Tabs, NEW i \in DOMAIN sock'[u] PROVE FreshEvent(sock[u][i])'
    <2>1. \E j \in DOMAIN sock[u] : sock'[u][i] = sock[u][j]
      BY <1>1, <1>4, <1>7
    <2> QED
      BY <1>1, <1>2, <1>7, <2>1 DEF EventsAreTrue, FreshEvent
  <1> QED
    BY <1>2, <1>4, <1>5, <1>6, <1>7 DEF EventsAreTrue

(* One row of a board changes to what an event says.                       *)
LEMMA BoardFacts ==
    ASSUME BInv, UNCHANGED <<svars, conn, hist>>, NEW t \in Tabs, Ev(t) \in Events, restarts = 0 => FreshEvent(Ev(t)),
           \/ board' = onChallengeSolvedWebsocket(t) /\ Ev(t).ev = "solved"
           \/ board' = onCodeChallengeSolvedWebsocket(t) /\ Ev(t).ev = "code"
    PROVE  /\ DOMAIN board' = Tabs /\ \A u \in Tabs : board'[u] = NoBoard \/ board'[u] \in Rows
           /\ BoardsAreTrue'
  <1>1. DOMAIN board = Tabs /\ (\A u \in Tabs : board[u] = NoBoard \/ board[u] \in Rows) /\ BoardsAreTrue
    BY DEF BInv, Types, TabTypes
  <1>2. db' = db /\ restarts' = restarts /\ db \in Rows
    BY ServerKept
  <1>3. CASE board[t] = NoBoard
    <2>1. board' = board
      BY <1>3 DEF onChallengeSolvedWebsocket, onCodeChallengeSolvedWebsocket
    <2> QED
      BY <1>1, <1>2, <2>1 DEF BoardsAreTrue, NotAhead
  <1>4. CASE board[t] # NoBoard
    <2> DEFINE c == Ev(t).c
    <2>1. c \in Challenges /\ Ev(t).code \in 0..2 /\ board[t] \in Rows
      BY <1>1, <1>4 DEF Events
    <2>2. PICK r \in ChallengeTable :
             /\ board' = [board EXCEPT ![t] = [board[t] EXCEPT ![c] = r]]
             /\ restarts = 0 /\ NotAhead(board[t]) => (r.solved => db[c].solved) /\ r.code <= db[c].code
      <3>1. CASE Ev(t).ev = "solved"
        <4>1. board' = [board EXCEPT ![t] = [board[t] EXCEPT ![c] = [board[t][c] EXCEPT !.solved = TRUE]]]
          BY <1>4, <3>1 DEF onChallengeSolvedWebsocket
        <4>2. board[t][c] \in ChallengeTable
          BY <2>1 DEF Rows
        <4>3. [board[t][c] EXCEPT !.solved = TRUE] \in ChallengeTable
          BY <4>2 DEF ChallengeTable
        <4>4. restarts = 0 /\ NotAhead(board[t]) => db[c].solved /\ board[t][c].code <= db[c].code
          BY <2>1, <3>1 DEF FreshEvent, NotAhead
        <4>5. [board[t][c] EXCEPT !.solved = TRUE].code = board[t][c].code
          BY <4>2 DEF ChallengeTable
        <4> QED
          BY <4>1, <4>3, <4>4, <4>5
      <3>2. CASE Ev(t).ev = "code"
        <4>1. board' = [board EXCEPT ![t] = [board[t] EXCEPT ![c] = [board[t][c] EXCEPT !.code = Ev(t).code]]]
          BY <1>4, <3>2 DEF onCodeChallengeSolvedWebsocket
        <4>2. board[t][c] \in ChallengeTable
          BY <2>1 DEF Rows
        <4>3. /\ [board[t][c] EXCEPT !.code = Ev(t).code] \in ChallengeTable
              /\ [board[t][c] EXCEPT !.code = Ev(t).code].code = Ev(t).code
              /\ [board[t][c] EXCEPT !.code = Ev(t).code].solved = board[t][c].solved
          BY <2>1, <4>2 DEF ChallengeTable
        <4>4. restarts = 0 /\ NotAhead(board[t]) => (board[t][c].solved => db[c].solved) /\ Ev(t).code <= db[c].code
          BY <2>1, <3>2 DEF FreshEvent, NotAhead
        <4> QED
          BY <4>1, <4>3, <4>4
      <3> QED
        BY <3>1, <3>2
    <2> HIDE DEF c
    <2>3. /\ DOMAIN board' = Tabs /\ board'[t] = [board[t] EXCEPT ![c] = r]
          /\ \A u \in Tabs : u # t => board'[u] = board[u]
      BY <1>1, <2>2
    <2>4. /\ board'[t] \in Rows /\ board'[t][c] = r
          /\ \A d \in Challenges : d # c => board'[t][d] = board[t][d]
      BY <2>1, <2>3 DEF Rows
    <2>5. ASSUME restarts = 0 PROVE NotAhead(board[t])'
      BY <1>1, <1>2, <1>4, <2>1, <2>2, <2>4, <2>5 DEF BoardsAreTrue, NotAhead
    <2>6. ASSUME restarts = 0, NEW u \in Tabs, u # t, board'[u] # NoBoard PROVE NotAhead(board[u])'
      BY <1>1, <1>2, <2>3, <2>6 DEF BoardsAreTrue, NotAhead
    <2> QED
      BY <1>1, <1>2, <2>3, <2>4, <2>5, <2>6 DEF BoardsAreTrue
  <1> QED
    BY <1>3, <1>4

(* What is left to show for a step of a tab that leaves the dialogs alone. *)
LEMMA BoardStep ==
    ASSUME BInv, UNCHANGED <<svars, conn, hist>>, Beside(net, net'), UNCHANGED <<dialog, doubled>>,
           sock' \in [Tabs -> Seq(Events)], EventsAreTrue',
           DOMAIN board' = Tabs, \A u \in Tabs : board'[u] = NoBoard \/ board'[u] \in Rows, BoardsAreTrue',
           cookie' \in Codes, backup' \in Codes, crossed' \in [Tabs -> BOOLEAN]
    PROVE  BInv'
  <1>1. /\ ServerTypes' /\ WorkTypes' /\ Scoring' /\ CodedRows' /\ NotificationsAreTrue' /\ conn' \in [Tabs -> BOOLEAN]
    BY ServerKept
  <1>2. /\ IsABag(net') /\ BagToSet(net') \subseteq Messages /\ MessagesAreTrue'
        /\ DialogsWait' /\ DialogsAreTrue' /\ DialogIsBacked'
    BY BesideStep
  <1>3. TabTypes'
    BY DEF BInv, Types, TabTypes
  <1>4. WireTypes'
    BY <1>1, <1>2 DEF WireTypes
  <1> QED
    BY <1>1, <1>2, <1>3, <1>4 DEF BInv, Types

(* The sockets and the boards stay as they are.                            *)
LEMMA ShownStays ==
    ASSUME BInv, UNCHANGED <<svars, conn, hist>>
    PROVE  /\ UNCHANGED sock => sock' \in [Tabs -> Seq(Events)] /\ EventsAreTrue'
           /\ UNCHANGED board => /\ DOMAIN board' = Tabs /\ BoardsAreTrue'
                                 /\ \A u \in Tabs : board'[u] = NoBoard \/ board'[u] \in Rows
           /\ UNCHANGED <<cookie, backup, crossed>> =>
                 cookie' \in Codes /\ backup' \in Codes /\ crossed' \in [Tabs -> BOOLEAN]
  <1>1. db' = db /\ restarts' = restarts
    BY ServerKept
  <1>2. UNCHANGED sock => sock' \in [Tabs -> Seq(Events)] /\ EventsAreTrue'
    BY <1>1 DEF BInv, Types, WireTypes, EventsAreTrue, FreshEvent
  <1>3. UNCHANGED board => DOMAIN board' = Tabs /\ \A u \in Tabs : board'[u] = NoBoard \/ board'[u] \in Rows
    BY DEF BInv, Types, TabTypes
  <1>4. UNCHANGED board => BoardsAreTrue'
    BY <1>1 DEF BInv, BoardsAreTrue, NotAhead
  <1>5. UNCHANGED <<cookie, backup, crossed>> =>
           cookie' \in Codes /\ backup' \in Codes /\ crossed' \in [Tabs -> BOOLEAN]
    BY DEF BInv, Types, TabTypes
  <1> QED
    BY <1>2, <1>3, <1>4, <1>5

LEMMA CrossesFacts ==
    ASSUME BInv, NEW t \in Tabs, Crosses(t)
    PROVE  crossed' \in [Tabs -> BOOLEAN]
  BY DEF BInv, Types, TabTypes, Crosses, InFlight

LEMMA EventStep ==
    ASSUME BInv, NEW t \in Tabs, onChallengeSolved(t) \/ onCodeChallengeSolved(t) \/ onServerStarted(t)
    PROVE  BInv'
  <1>1. UNCHANGED <<svars, conn, hist>>
    BY DEF onChallengeSolved, onCodeChallengeSolved, onServerStarted
  <1>2. IsABag(net) /\ cookie \in Codes /\ backup \in Codes
    BY DEF BInv, Types, WireTypes, TabTypes
  <1>3. sock[t] # <<>> /\ Handled(t)
    BY DEF onChallengeSolved, onCodeChallengeSolved, onServerStarted
  <1>4. /\ sock' \in [Tabs -> Seq(Events)] /\ EventsAreTrue'
        /\ Ev(t) \in Events /\ (restarts = 0 => FreshEvent(Ev(t)))
    BY <1>1, <1>3, HandledFacts
  <1>5. CASE onServerStarted(t)
    <2>1. net' = net (+) Apply(t, cookie) /\ UNCHANGED <<cookie, backup, board, crossed, dialog, doubled>>
      BY <1>5 DEF onServerStarted, cvars
    <2>2. Beside(net, net')
      BY <1>2, <2>1, ApplyFacts
    <2> QED
      BY <1>1, <1>4, <2>1, <2>2, ShownStays, BoardStep
  <1>6. CASE onCodeChallengeSolved(t)
    <2>1. /\ UNCHANGED <<net, cookie, backup, dialog, doubled>> /\ Ev(t).ev = "code" /\ Crosses(t)
          /\ board' = onCodeChallengeSolvedWebsocket(t)
      BY <1>6 DEF onCodeChallengeSolved
    <2>2. /\ DOMAIN board' = Tabs /\ \A u \in Tabs : board'[u] = NoBoard \/ board'[u] \in Rows
          /\ BoardsAreTrue'
      BY <1>1, <1>4, <2>1, BoardFacts
    <2>3. Beside(net, net')
      <3>1. ASSUME NEW f PROVE Copies(f, net) <= Copies(f, net)
        BY <1>2, CopiesFacts
      <3> QED
        BY <1>2, <2>1, <3>1 DEF Beside
    <2>4. crossed' \in [Tabs -> BOOLEAN]
      BY <2>1, CrossesFacts
    <2> QED
      BY <1>1, <1>2, <1>4, <2>1, <2>2, <2>3, <2>4, BoardStep
  <1>7. CASE onChallengeSolved(t)
    <2> DEFINE ack == Req(t, "ack", Ev(t).c, {})
               code == Req(t, "code", Ev(t).c, {})
    <2>1. /\ UNCHANGED <<cookie, backup, dialog, doubled>> /\ Ev(t).ev = "solved" /\ Crosses(t)
          /\ board' = onChallengeSolvedWebsocket(t)
          /\ net' = Put(net, ack) \/ net' = Put(Put(net, ack), code)
      BY <1>7 DEF onChallengeSolved, saveProgress
    <2>2. /\ DOMAIN board' = Tabs /\ \A u \in Tabs : board'[u] = NoBoard \/ board'[u] \in Rows
          /\ BoardsAreTrue'
      BY <1>1, <1>4, <2>1, BoardFacts
    <2>3. Aside(ack) /\ Aside(code)
      <3>1. Ev(t).c \in Challenges
        BY <1>4 DEF Events
      <3>2. Allowed("ack", Ev(t).c, {}) /\ Allowed("code", Ev(t).c, {})
        BY DEF Allowed
      <3> QED
        BY <3>1, <3>2, ReqAside, OpsAside
    <2> HIDE DEF ack, code
    <2>4. Beside(net, Put(net, ack)) /\ IsABag(Put(net, ack))
      BY <1>2, <2>3, PutBeside DEF Beside
    <2>5. Beside(Put(net, ack), Put(Put(net, ack), code))
      BY <2>3, <2>4, PutBeside
    <2>6. Beside(net, net')
      BY <1>2, <2>1, <2>4, <2>5, BesideTwice
    <2>7. crossed' \in [Tabs -> BOOLEAN]
      BY <2>1, CrossesFacts
    <2> QED
      BY <1>1, <1>2, <1>4, <2>1, <2>2, <2>6, <2>7, BoardStep
  <1> QED
    BY <1>5, <1>6, <1>7

LEMMA NothingBeside ==
    ASSUME NEW b, IsABag(b)
    PROVE  Beside(b, b)
  <1>1. ASSUME NEW f PROVE Copies(f, b) <= Copies(f, b)
    BY CopiesFacts
  <1> QED
    BY <1>1 DEF Beside

(* The answers with codes, with the rows and about a hint.                 *)
LEMMA AnswerStep ==
    ASSUME BInv, NEW e \in BagToSet(net),
           \/ onContinueCode(e) \/ onContinueCodeFindIt(e) \/ onContinueCodeFixIt(e) \/ onChallenges(e) \/ onHint(e)
    PROVE  BInv'
  <1>1. UNCHANGED <<svars, conn, hist, sock, backup, crossed, dialog, doubled>>
    BY DEF onContinueCode, onContinueCodeFindIt, onContinueCodeFixIt, onChallenges, onHint, cvars
  <1>2. /\ IsABag(net) /\ cookie \in Codes /\ backup \in Codes /\ crossed \in [Tabs -> BOOLEAN]
        /\ e \in Messages /\ MessageIsTrue(e)
        /\ DOMAIN board = Tabs /\ \A u \in Tabs : board[u] = NoBoard \/ board[u] \in Rows
    BY DEF BInv, Types, WireTypes, TabTypes, MessagesAreTrue
  <1>3. sock' \in [Tabs -> Seq(Events)] /\ EventsAreTrue' /\ db' = db /\ restarts' = restarts
    BY <1>1, ShownStays, ServerKept
  <1>4. Beside(net, Take(net, e)) /\ IsABag(Take(net, e))
    BY <1>2, TakeBeside, TakeFacts
  <1>5. CASE onContinueCode(e) \/ onContinueCodeFindIt(e) \/ onContinueCodeFixIt(e)
    <2>1. net' = Take(net, e) /\ UNCHANGED board
      BY <1>5 DEF onContinueCode, onContinueCodeFindIt, onContinueCodeFixIt
    <2>2. cookie' \in Codes
      <3>1. CASE onContinueCode(e)
        BY <1>2, <3>1 DEF onContinueCode, Codes, Messages
      <3>2. CASE onContinueCodeFindIt(e)
        BY <1>2, <3>2 DEF onContinueCodeFindIt, Codes, MessageIsTrue, CodedMessage
      <3>3. CASE onContinueCodeFixIt(e)
        BY <1>2, <3>3 DEF onContinueCodeFixIt, Codes, MessageIsTrue, CodedMessage
      <3> QED
        BY <1>5, <3>1, <3>2, <3>3
    <2>3. /\ DOMAIN board' = Tabs /\ BoardsAreTrue'
          /\ \A u \in Tabs : board'[u] = NoBoard \/ board'[u] \in Rows
      BY <1>1, <2>1, ShownStays
    <2> QED
      BY <1>1, <1>2, <1>3, <1>4, <2>1, <2>2, <2>3, BoardStep
  <1>6. CASE onChallenges(e)
    <2>1. net' = Take(net, e) /\ UNCHANGED cookie /\ board' = [board EXCEPT ![e.t] = e.rows] /\ e.op = "board" /\ e.at = "ans"
      BY <1>6 DEF onChallenges
    <2>2. e.t \in Tabs /\ e.rows \in Rows /\ (restarts = 0 => NotAhead(e.rows))
      BY <1>2, <2>1 DEF Messages, MessageIsTrue, FreshAnswer
    <2>3. /\ DOMAIN board' = Tabs /\ \A u \in Tabs : board'[u] = NoBoard \/ board'[u] \in Rows
          /\ board'[e.t] = e.rows /\ \A u \in Tabs : u # e.t => board'[u] = board[u]
      BY <1>2, <2>1, <2>2
    <2>4. BoardsAreTrue'
      BY <1>3, <2>2, <2>3 DEF BInv, BoardsAreTrue, NotAhead
    <2> QED
      BY <1>1, <1>2, <1>3, <1>4, <2>1, <2>3, <2>4, BoardStep
  <1>7. CASE onHint(e)
    <2> DEFINE r == Req(e.t, "board", e.c, {})
    <2>1. net' = Swap(net, e, r) /\ UNCHANGED <<cookie, board>>
      BY <1>7 DEF onHint, cvars
    <2>2. Aside(r)
      <3>1. e.t \in Tabs /\ e.c \in Challenges
        BY <1>2 DEF Messages
      <3>2. Allowed("board", e.c, {})
        BY DEF Allowed
      <3> QED
        BY <3>1, <3>2, ReqAside, OpsAside
    <2>3. Swap(net, e, r) = Put(Take(net, e), r)
      BY DEF Swap, Put, Take
    <2> HIDE DEF r
    <2>4. Beside(Take(net, e), Put(Take(net, e), r))
      BY <1>4, <2>2, PutBeside
    <2>5. Beside(net, net')
      BY <1>2, <1>4, <2>1, <2>3, <2>4, BesideTwice
    <2>6. /\ DOMAIN board' = Tabs /\ BoardsAreTrue'
          /\ \A u \in Tabs : board'[u] = NoBoard \/ board'[u] \in Rows
      BY <1>1, <2>1, ShownStays
    <2> QED
      BY <1>1, <1>2, <1>3, <2>1, <2>5, <2>6, BoardStep
  <1> QED
    BY <1>5, <1>6, <1>7

(* What the user does outside of the dialogs.                              *)
LEMMA UserStep ==
    ASSUME BInv,
           \/ clearProgress
           \/ \E t \in Tabs :
                \/ closeNotification(t) \/ saveBackup(t) \/ restoreBackup(t) \/ openBoard(t)
                \/ \E c \in Challenges : unlockHint(t, c) \/ repeatChallengeNotification(t, c)
    PROVE  BInv'
  <1>1. UNCHANGED <<svars, conn, hist, sock, board, dialog, doubled>>
    BY DEF clearProgress, closeNotification, saveBackup, restoreBackup, openBoard, unlockHint,
           repeatChallengeNotification, cvars, wires
  <1>2. /\ IsABag(net) /\ cookie \in Codes /\ backup \in Codes /\ crossed \in [Tabs -> BOOLEAN] /\ db \in Rows
        /\ \A u \in Tabs : board[u] = NoBoard \/ board[u] \in Rows
    BY DEF BInv, Types, WireTypes, TabTypes, ServerTypes
  <1>3. /\ sock' \in [Tabs -> Seq(Events)] /\ EventsAreTrue'
        /\ DOMAIN board' = Tabs /\ BoardsAreTrue'
        /\ \A u \in Tabs : board'[u] = NoBoard \/ board'[u] \in Rows
    BY <1>1, ShownStays
  <1> SUFFICES Beside(net, net') /\ cookie' \in Codes /\ backup' \in Codes /\ crossed' \in [Tabs -> BOOLEAN]
    BY <1>1, <1>3, BoardStep
  <1>4. CASE clearProgress \/ \E t \in Tabs : closeNotification(t)
    <2>1. UNCHANGED <<net, backup, crossed>> /\ (cookie' = NoCodes \/ cookie' = cookie)
      BY <1>4 DEF clearProgress, closeNotification, wires
    <2>2. NoCodes \in Codes
      BY DEF NoCodes, Codes
    <2> QED
      BY <1>2, <2>1, <2>2, NothingBeside
  <1>5. ASSUME NEW t \in Tabs, saveBackup(t)
        PROVE  Beside(net, net') /\ cookie' \in Codes /\ backup' \in Codes /\ crossed' \in [Tabs -> BOOLEAN]
    <2> DEFINE hack == {c \in Challenges : cache[c]}
               find == {c \in Challenges : db[c].code >= 1}
               fix == {c \in Challenges : db[c].code >= 2}
    <2>1. UNCHANGED <<net, cookie, crossed>> /\ (backup' = cookie \/ backup' = [hack |-> hack, find |-> find, fix |-> fix])
      BY <1>5 DEF saveBackup, wires
    <2>2. hack \subseteq Challenges /\ find \subseteq Coding /\ fix \subseteq Coding
      BY <1>2 DEF BInv, CodedRows, Rows, ChallengeTable
    <2> HIDE DEF hack, find, fix
    <2>3. [hack |-> hack, find |-> find, fix |-> fix] \in Codes
      BY <2>2 DEF Codes
    <2> QED
      BY <1>2, <2>1, <2>3, NothingBeside
  <1>6. ASSUME NEW t \in Tabs, restoreBackup(t)
        PROVE  Beside(net, net') /\ cookie' \in Codes /\ backup' \in Codes /\ crossed' \in [Tabs -> BOOLEAN]
    <2>1. cookie' = backup /\ UNCHANGED backup /\ net' = net (+) Apply(t, backup) /\ crossed' = [u \in Tabs |-> TRUE]
      BY <1>6 DEF restoreBackup
    <2> QED
      BY <1>2, <2>1, ApplyFacts
  <1>7. ASSUME NEW t \in Tabs, NEW op \in {"board", "hint", "repeat"}, NEW c \in Challenges,
               net' = Put(net, Req(t, op, c, {})), op = "repeat" /\ restarts = 0 => db[c].solved,
               UNCHANGED <<cookie, backup, crossed>>
        PROVE  Beside(net, net') /\ cookie' \in Codes /\ backup' \in Codes /\ crossed' \in [Tabs -> BOOLEAN]
    <2>1. Allowed(op, c, {})
      BY <1>7 DEF Allowed
    <2>2. Aside(Req(t, op, c, {}))
      BY <2>1, ReqAside, OpsAside
    <2> QED
      BY <1>2, <1>7, <2>2, PutBeside
  <1>8. ASSUME NEW t \in Tabs, openBoard(t)
        PROVE  Beside(net, net') /\ cookie' \in Codes /\ backup' \in Codes /\ crossed' \in [Tabs -> BOOLEAN]
    <2>1. PICK c \in Challenges : net' = Put(net, Req(t, "board", c, {}))
      BY <1>8, ProgressAssumption DEF openBoard
    <2> QED
      BY <1>7, <1>8, <2>1 DEF openBoard, cvars
  <1>9. ASSUME NEW t \in Tabs, NEW c \in Challenges, unlockHint(t, c)
        PROVE  Beside(net, net') /\ cookie' \in Codes /\ backup' \in Codes /\ crossed' \in [Tabs -> BOOLEAN]
    BY <1>7, <1>9 DEF unlockHint, cvars
  <1>10. ASSUME NEW t \in Tabs, NEW c \in Challenges, repeatChallengeNotification(t, c)
        PROVE  Beside(net, net') /\ cookie' \in Codes /\ backup' \in Codes /\ crossed' \in [Tabs -> BOOLEAN]
    <2>1. restarts = 0 => db[c].solved
      BY <1>10 DEF repeatChallengeNotification, BInv, BoardsAreTrue, NotAhead
    <2> QED
      BY <1>7, <1>10, <2>1 DEF repeatChallengeNotification, cvars
  <1> QED
    BY <1>4, <1>5, <1>6, <1>8, <1>9, <1>10

-----------------------------------------------------------------------------
(* The steps of the dialogs.                                               *)

LEMMA BesideFewer ==
    ASSUME NEW b, NEW n, Beside(b, n), NEW t, NEW op \in DialogOps
    PROVE  Fewer(n, b, t, op)
  BY DEF Beside, Aside, Fewer, About

(* What a dialog knows is in the rows.                                     *)
Done(d) == (d.find => Backed(d, 1)) /\ (d.fix => Backed(d, 2))

(* What is to be shown for a step of the dialog of one tab.                *)
LEMMA DialogStep ==
    ASSUME BInv, UNCHANGED <<svars, conn, hist, sock, cookie, backup, board>>, NEW t \in Tabs, NEW n \in Dialogs,
           DOMAIN dialog' = Tabs, dialog'[t] = n, \A u \in Tabs \ {t} : dialog'[u] = dialog[u],
           crossed' \in [Tabs -> BOOLEAN], doubled' \in [Tabs -> BOOLEAN],
           \A u \in Tabs \ {t} : doubled'[u] = doubled[u] /\ \A op \in DialogOps : Fewer(net', net, u, op),
           IsABag(net'), BagToSet(net') \subseteq Messages, \A e \in BagToSet(net') : MessageIsTrue(e),
           restarts = 0 => n.status <= db[n.c].code,
           WhileOpen(net', t, n), Shows(n), ~doubled'[t] => WhileOnce(net', t, n) /\ Done(n)
    PROVE  BInv'
  <1>1. /\ ServerTypes' /\ WorkTypes' /\ Scoring' /\ CodedRows' /\ NotificationsAreTrue'
        /\ db' = db /\ restarts' = restarts /\ conn' \in [Tabs -> BOOLEAN]
        /\ \A e : MessageIsTrue(e) => MessageIsTrue(e)'
    BY ServerKept
  <1>2. /\ sock' \in [Tabs -> Seq(Events)] /\ EventsAreTrue' /\ BoardsAreTrue' /\ DOMAIN board' = Tabs
        /\ \A u \in Tabs : board'[u] = NoBoard \/ board'[u] \in Rows
    BY ShownStays
  <1>3. /\ cookie' \in Codes /\ backup' \in Codes /\ DOMAIN dialog = Tabs /\ IsABag(net)
        /\ \A u \in Tabs : dialog[u] = Closed \/ dialog[u] \in Dialogs
    BY DEF BInv, Types, TabTypes, WireTypes
  <1>4. MessagesAreTrue'
    BY <1>1 DEF MessagesAreTrue
  <1>5. DOMAIN dialog' = Tabs /\ dialog'[t] = n /\ \A u \in Tabs \ {t} : dialog'[u] = dialog[u]
    OBVIOUS
  <1>6. TabTypes' /\ WireTypes'
    BY <1>1, <1>2, <1>3, <1>5 DEF TabTypes, WireTypes
  <1>7. n.open = TRUE
    BY DEF Dialogs
  <1>8. ASSUME NEW u \in Tabs
        PROVE  /\ ~dialog'[u].open => WhileClosed(net', u)
               /\ dialog'[u].open => WhileOpen(net', u, dialog'[u]) /\ Shows(dialog'[u])
               /\ dialog'[u].open /\ ~doubled'[u] => WhileOnce(net', u, dialog'[u])
    <2>1. CASE u = t
      BY <1>5, <1>7, <2>1
    <2>2. CASE u # t
      <3>1. dialog'[u] = dialog[u] /\ doubled'[u] = doubled[u] /\ \A op \in DialogOps : Fewer(net', net, u, op)
        BY <1>5, <2>2
      <3>2. /\ WhileClosed(net, u) => WhileClosed(net', u)
            /\ WhileOpen(net, u, dialog[u]) => WhileOpen(net', u, dialog[u])
            /\ WhileOnce(net, u, dialog[u]) => WhileOnce(net', u, dialog[u])
        BY <1>3, <3>1, FewerWait DEF DialogOps
      <3> QED
        BY <3>1, <3>2 DEF BInv, DialogsWait
    <2> QED
      BY <2>1, <2>2
  <1>9. DialogsWait'
    BY <1>8 DEF DialogsWait
  <1>10. DialogsAreTrue'
    BY <1>1, <1>5, <1>7 DEF BInv, DialogsAreTrue
  <1>11. ASSUME NEW u \in Tabs, dialog'[u].open, ~doubled'[u]
         PROVE  (dialog'[u].find => Backed(dialog[u], 1)') /\ (dialog'[u].fix => Backed(dialog[u], 2)')
    <2>1. CASE u = t
      BY <1>1, <1>5, <1>11, <2>1 DEF Done, Backed
    <2>2. CASE u # t
      BY <1>1, <1>5, <1>11, <2>2 DEF BInv, DialogIsBacked, Backed
    <2> QED
      BY <2>1, <2>2
  <1>12. DialogIsBacked'
    BY <1>11 DEF DialogIsBacked
  <1> QED
    BY <1>1, <1>2, <1>4, <1>6, <1>9, <1>10, <1>12 DEF BInv, Types

(* The dialog of a tab that is open.                                       *)
LEMMA OpenFacts ==
    ASSUME BInv, NEW t \in Tabs, dialog[t].open
    PROVE  /\ dialog[t] \in Dialogs /\ dialog[t].c \in Challenges /\ db[dialog[t].c].code \in 0..2
           /\ WhileOpen(net, t, dialog[t]) /\ Shows(dialog[t])
           /\ ~doubled[t] => WhileOnce(net, t, dialog[t]) /\ Done(dialog[t])
           /\ restarts \in Nat /\ (restarts = 0 => dialog[t].status <= db[dialog[t].c].code)
  <1>1. dialog[t] \in Dialogs
    BY DEF BInv, Types, TabTypes, Closed
  <1>2. dialog[t].c \in Challenges
    BY <1>1, ProgressAssumption DEF Dialogs
  <1>3. db[dialog[t].c].code \in 0..2 /\ restarts \in Nat
    BY <1>2 DEF BInv, Types, ServerTypes, Rows, ChallengeTable
  <1> QED
    BY <1>1, <1>2, <1>3 DEF BInv, DialogsWait, DialogsAreTrue, DialogIsBacked, Done

(* A step that changes what a dialog shows and sends nothing about it.     *)
LEMMA ShowStep ==
    ASSUME BInv, UNCHANGED <<svars, conn, hist, sock, cookie, backup, board, crossed, doubled>>,
           NEW t \in Tabs, dialog[t].open, NEW n \in Dialogs, dialog' = [dialog EXCEPT ![t] = n], Beside(net, net'),
           n.c = dialog[t].c, n.status = dialog[t].status, Early(n) => Early(dialog[t]), Shows(n),
           n.snippet = dialog[t].snippet \/ (n.snippet # "wait" /\ About(net', t, "snippet") = {}),
           ~doubled[t] => Done(n) /\ \A e \in About(net', t, "lines") :
                                        e.word = "right" => n.snippet = "ok" /\ n.status = 0 /\ ~n.find
    PROVE  BInv'
  <1> DEFINE d == dialog[t]
  <1>1. IsABag(net') /\ BagToSet(net') \subseteq Messages /\ MessagesAreTrue' /\ IsABag(net)
    BY BesideStep DEF BInv, Types, WireTypes
  <1>2. \A e \in BagToSet(net') : MessageIsTrue(e)
    BY DEF BInv, MessagesAreTrue, Beside, Aside
  <1>3. \A u \in Tabs : \A op \in DialogOps : Fewer(net', net, u, op)
    BY BesideFewer
  <1>4. /\ WhileOpen(net, t, d) /\ (~doubled[t] => WhileOnce(net, t, d))
        /\ (restarts = 0 => d.status <= db[d.c].code)
    BY OpenFacts
  <1>5. WhileOpen(net', t, d) /\ (~doubled[t] => WhileOnce(net', t, d))
    BY <1>1, <1>3, <1>4, FewerWait DEF DialogOps
  <1>6. WhileOpen(net', t, n)
    BY <1>5 DEF WhileOpen
  <1>7. ~doubled[t] => WhileOnce(net', t, n) /\ Done(n)
    BY <1>5 DEF WhileOnce
  <1>8. crossed' \in [Tabs -> BOOLEAN] /\ doubled' \in [Tabs -> BOOLEAN] /\ \A u \in Tabs : doubled'[u] = doubled[u]
    BY DEF BInv, Types, TabTypes
  <1>9. restarts = 0 => n.status <= db[n.c].code
    BY <1>4
  <1>10. DOMAIN dialog' = Tabs /\ dialog'[t] = n /\ \A u \in Tabs \ {t} : dialog'[u] = dialog[u]
    BY DEF BInv, Types, TabTypes
  <1> HIDE DEF d
  <1> QED
    BY <1>1, <1>2, <1>3, <1>6, <1>7, <1>8, <1>9, <1>10, DialogStep

(* toggleTab and setInitialTabIfReady change the tab and the result only.  *)
SameDialog(n, d) ==
    /\ n.c = d.c /\ n.status = d.status /\ n.snippet = d.snippet /\ n.fixes = d.fixes
    /\ n.find = d.find /\ n.fix = d.fix /\ n.cheer = d.cheer

LEMMA ToggledFacts ==
    ASSUME NEW d \in Dialogs, NEW tab \in {0, 1}
    PROVE  /\ Toggled(d, tab) \in Dialogs /\ SameDialog(Toggled(d, tab), d)
           /\ Toggled(d, tab).tab = tab /\ Toggled(d, tab).set = d.set
  BY DEF Toggled, Dialogs, SameDialog

LEMMA InitialTabFacts ==
    ASSUME NEW d \in Dialogs
    PROVE  LET n == setInitialTabIfReady(d) IN
           /\ n \in Dialogs /\ SameDialog(n, d)
           /\ (n.tab = d.tab /\ n.set = d.set) \/ (d.snippet # "wait" /\ (n.tab = 0 \/ d.status = 1))
  <1>1. CASE d.set \/ "wait" \in {d.snippet, d.fixes}
    <2>1. setInitialTabIfReady(d) = d
      BY <1>1 DEF setInitialTabIfReady
    <2> QED
      BY <2>1 DEF SameDialog
  <1>2. CASE ~(d.set \/ "wait" \in {d.snippet, d.fixes})
    <2> DEFINE g == [d EXCEPT !.set = TRUE]
               tab == IF d.status = 1 /\ d.fixes = "ok" THEN 1 ELSE 0
    <2>1. g \in Dialogs /\ SameDialog(g, d)
      BY DEF Dialogs, SameDialog
    <2>2. setInitialTabIfReady(d) = Toggled(g, tab)
      BY <1>2 DEF setInitialTabIfReady
    <2>3. tab \in {0, 1} /\ (tab = 0 \/ d.status = 1)
      OBVIOUS
    <2> HIDE DEF g, tab
    <2>4. /\ Toggled(g, tab) \in Dialogs /\ SameDialog(Toggled(g, tab), g) /\ Toggled(g, tab).tab = tab
      BY <2>1, <2>3, ToggledFacts
    <2> QED
      BY <1>2, <2>1, <2>2, <2>3, <2>4 DEF SameDialog
  <1> QED
    BY <1>1, <1>2

(* A status of the dialog counts as done.                                  *)
LEMMA StatusIsBacked ==
    ASSUME BInv, NEW t \in Tabs, dialog[t].open, NEW n, n.c = dialog[t].c, n.status = dialog[t].status,
           NEW k \in {1, 2}, n.status >= k
    PROVE  Backed(n, k)
  <1>1. /\ db[n.c].code \in 0..2 /\ n.status \in 0..2 /\ restarts \in Nat
        /\ restarts = 0 => n.status <= db[n.c].code
    BY OpenFacts DEF Dialogs
  <1> QED
    BY <1>1 DEF Backed

(* A message about a dialog finds it open.                                 *)
LEMMA AnswerFacts ==
    ASSUME BInv, NEW e \in BagToSet(net), e.op \in DialogOps
    PROVE  e.t \in Tabs /\ dialog[e.t].open /\ e \in About(net, e.t, e.op) /\ MessageIsTrue(e)
  <1>1. e \in Messages /\ MessageIsTrue(e) /\ e \in About(net, e.t, e.op)
    BY DEF BInv, Types, WireTypes, MessagesAreTrue, About
  <1>2. e.t \in Tabs
    BY <1>1 DEF Messages
  <1> QED
    BY <1>1, <1>2 DEF BInv, DialogsWait, WhileClosed, DialogOps

(* The only message of its kind is gone when it is taken.                  *)
LEMMA LoneIsTaken ==
    ASSUME NEW b, IsABag(b), NEW e \in BagToSet(b), Lone(b, e.t, e.op)
    PROVE  About(Take(b, e), e.t, e.op) = {}
  <1>1. ASSUME NEW f \in About(Take(b, e), e.t, e.op) PROVE FALSE
    <2>1. f \in BagToSet(b) /\ f.t = e.t /\ f.op = e.op /\ f \in BagToSet(Take(b, e)) /\ IsABag(Take(b, e))
      BY <1>1, TakeFacts DEF About
    <2>2. f = e /\ Copies(e, b) = 1
      BY <2>1 DEF Lone, About
    <2>3. Copies(f, Take(b, e)) = Copies(f, b) - 1
      BY <2>2, TakeFacts
    <2>4. Copies(f, Take(b, e)) > 0
      BY <2>1, CopiesFacts
    <2> QED
      BY <2>2, <2>3, <2>4
  <1> QED
    BY <1>1

LEMMA ConfettiStep ==
    ASSUME BInv, NEW t \in Tabs, shootConfetti(t) \/ \E tab \in {0, 1} : toggleTab(t, tab)
    PROVE  BInv'
  <1> DEFINE d == dialog[t]
             quiet == [d EXCEPT !.cheer = FALSE]
  <1>1. /\ UNCHANGED <<svars, conn, hist, sock, cookie, backup, board, crossed, doubled, net>> /\ d.open
    BY DEF shootConfetti, toggleTab, wires
  <1>2. /\ d \in Dialogs /\ Shows(d) /\ (~doubled[t] => WhileOnce(net, t, d) /\ Done(d))
    BY <1>1, OpenFacts
  <1>3. IsABag(net) /\ Beside(net, net')
    BY <1>1, NothingBeside DEF BInv, Types, WireTypes
  <1>4. quiet \in Dialogs /\ quiet.c = d.c /\ quiet.status = d.status /\ quiet.snippet = d.snippet /\ quiet.find = d.find
        /\ quiet.fix = d.fix /\ quiet.set = d.set /\ quiet.tab = d.tab /\ quiet.cheer = FALSE
    BY <1>2 DEF Dialogs
  <1>5. PICK n \in Dialogs :
           /\ dialog' = [dialog EXCEPT ![t] = n]
           /\ n.c = d.c /\ n.status = d.status /\ n.snippet = d.snippet /\ n.find = d.find /\ n.fix = d.fix
           /\ n.set = d.set
           /\ Early(d) => n.tab = 0 /\ ~n.cheer
    <2>1. CASE shootConfetti(t)
      <3>1. ~Early(d)
        BY <1>2, <2>1 DEF shootConfetti, Shows
      <3>2. dialog' = [dialog EXCEPT ![t] = IF quiet.tab = 0 /\ quiet.fixes = "ok" THEN Toggled(quiet, 1) ELSE quiet]
        BY <2>1 DEF shootConfetti
      <3> HIDE DEF d, quiet
      <3>3. CASE quiet.tab = 0 /\ quiet.fixes = "ok"
        <4>1. Toggled(quiet, 1) \in Dialogs /\ SameDialog(Toggled(quiet, 1), quiet) /\ Toggled(quiet, 1).set = quiet.set
          BY <1>4, ToggledFacts
        <4>2. dialog' = [dialog EXCEPT ![t] = Toggled(quiet, 1)]
          BY <3>2, <3>3
        <4> QED
          BY <1>4, <3>1, <4>1, <4>2 DEF SameDialog
      <3>4. CASE ~(quiet.tab = 0 /\ quiet.fixes = "ok")
        <4>1. dialog' = [dialog EXCEPT ![t] = quiet]
          BY <3>2, <3>4
        <4> QED
          BY <1>4, <3>1, <4>1
      <3> QED
        BY <3>3, <3>4
    <2>2. ASSUME NEW tab \in {0, 1}, toggleTab(t, tab)
          PROVE  \E n \in Dialogs :
                    /\ dialog' = [dialog EXCEPT ![t] = n]
                    /\ n.c = d.c /\ n.status = d.status /\ n.snippet = d.snippet /\ n.find = d.find /\ n.fix = d.fix
                    /\ n.set = d.set
                    /\ Early(d) => n.tab = 0 /\ ~n.cheer
      <3>1. dialog' = [dialog EXCEPT ![t] = Toggled(d, tab)] /\ (tab = 1 => d.find)
        BY <2>2 DEF toggleTab
      <3>2. Early(d) => tab = 0 /\ ~d.cheer
        BY <1>2, <2>2, <3>1 DEF Early, Shows
      <3>3. Toggled(d, tab) \in Dialogs /\ SameDialog(Toggled(d, tab), d) /\ Toggled(d, tab).set = d.set
            /\ Toggled(d, tab).tab = tab
        BY <1>2, <2>2, ToggledFacts
      <3> HIDE DEF d
      <3> QED
        BY <3>1, <3>2, <3>3 DEF SameDialog
    <2> QED
      BY <2>1, <2>2
  <1> HIDE DEF quiet
  <1>6. (Early(n) <=> Early(d)) /\ Shows(n)
    BY <1>2, <1>5 DEF Early, Shows
  <1>7. ~doubled[t] => Done(n) /\ \A e \in About(net', t, "lines") :
                                     e.word = "right" => n.snippet = "ok" /\ n.status = 0 /\ ~n.find
    BY <1>1, <1>2, <1>5 DEF Done, Backed, WhileOnce
  <1> QED
    BY <1>1, <1>3, <1>5, <1>6, <1>7, ShowStep

LEMMA SnippetStep ==
    ASSUME BInv, NEW e \in BagToSet(net), onSnippet(e)
    PROVE  BInv'
  <1> DEFINE t == e.t
             d == dialog[t]
             got == IF e.word = "ok" THEN [d EXCEPT !.snippet = "ok", !.find = d.status >= 1,
                                               !.result = IF d.status >= 1 THEN "Right" ELSE @]
                    ELSE [d EXCEPT !.snippet = "error"]
             n == setInitialTabIfReady(got)
  <1>1. /\ UNCHANGED <<svars, conn, hist, sock, cookie, backup, board, crossed, doubled>> /\ e.op = "snippet"
        /\ net' = Take(net, e) /\ dialog' = [dialog EXCEPT ![t] = n]
    BY DEF onSnippet
  <1>2. t \in Tabs /\ d.open /\ e \in About(net, t, "snippet")
    BY <1>1, AnswerFacts DEF DialogOps
  <1>3. /\ d \in Dialogs /\ WhileOpen(net, t, d) /\ Shows(d) /\ (~doubled[t] => WhileOnce(net, t, d) /\ Done(d))
    BY <1>2, OpenFacts
  <1>4. Lone(net, t, "snippet") /\ d.snippet = "wait" /\ Early(d) /\ \A f \in About(net, t, "lines") : f.word # "right"
    BY <1>2, <1>3 DEF WhileOpen, Early
  <1>5. IsABag(net) /\ Beside(net, net') /\ About(net', t, "snippet") = {}
    BY <1>1, <1>4, TakeBeside, LoneIsTaken DEF BInv, Types, WireTypes
  <1>6. About(net', t, "lines") \subseteq About(net, t, "lines")
    BY <1>1, <1>5, TakeFacts DEF About
  <1>7. ~d.find /\ d.tab = 0 /\ ~d.cheer
    BY <1>3, <1>4 DEF Shows
  <1>8. /\ got \in Dialogs /\ got.c = d.c /\ got.status = d.status /\ got.fix = d.fix /\ got.tab = d.tab
        /\ got.cheer = d.cheer /\ got.snippet # "wait" /\ (got.find => d.status >= 1)
        /\ got.snippet = "ok" /\ got.status >= 1 => got.find
    <2>1. CASE e.word = "ok"
      <3> DEFINE found == d.status >= 1
                 result == IF found THEN "Right" ELSE d.result
      <3>1. found \in BOOLEAN /\ (found <=> d.status >= 1) /\ result \in {"Undecided", "Right", "Wrong"}
        <4>1. d.result \in {"Undecided", "Right", "Wrong"}
          BY <1>3 DEF Dialogs
        <4>2. found \in BOOLEAN /\ (found <=> d.status >= 1)
          OBVIOUS
        <4> HIDE DEF d, found
        <4> QED
          BY <4>1, <4>2
      <3>2. got = [d EXCEPT !.snippet = "ok", !.find = found, !.result = result]
        BY <2>1
      <3> HIDE DEF d, got, found, result
      <3>3. /\ got \in Dialogs /\ got.c = d.c /\ got.status = d.status /\ got.fix = d.fix /\ got.tab = d.tab
            /\ got.cheer = d.cheer /\ got.snippet = "ok" /\ got.find = found
        BY <1>3, <3>1, <3>2 DEF Dialogs
      <3> QED
        BY <3>1, <3>3
    <2>2. CASE e.word # "ok"
      <3>1. got = [d EXCEPT !.snippet = "error"]
        BY <2>2
      <3> HIDE DEF d, got
      <3> QED
        BY <1>3, <1>7, <3>1 DEF Dialogs
    <2> QED
      BY <2>1, <2>2
  <1>9. /\ n \in Dialogs /\ SameDialog(n, got)
        /\ (n.tab = got.tab /\ n.set = got.set) \/ (got.snippet # "wait" /\ (n.tab = 0 \/ got.status = 1))
    <2> HIDE DEF got
    <2> QED
      BY <1>8, InitialTabFacts
  <1> HIDE DEF got, n
  <1>10. /\ n.c = d.c /\ n.status = d.status /\ n.fix = d.fix /\ n.snippet # "wait" /\ ~n.cheer
         /\ (n.find => d.status >= 1) /\ (n.snippet = "ok" /\ n.status >= 1 => n.find)
         /\ (n.tab = 0 \/ n.status = 1)
    BY <1>7, <1>8, <1>9 DEF SameDialog
  <1>11. Shows(n)
    BY <1>10 DEF Shows, Early
  <1>12. ~doubled[t] => Done(n)
    <2>1. n.find => Backed(n, 1)
      BY <1>2, <1>10, StatusIsBacked
    <2>2. ~doubled[t] /\ n.fix => Backed(n, 2)
      BY <1>3, <1>10 DEF Done, Backed
    <2> QED
      BY <2>1, <2>2 DEF Done
  <1>13. \A f \in About(net', t, "lines") : f.word # "right"
    BY <1>4, <1>6
  <1> HIDE DEF t, d
  <1>14. dialog[t].c = d.c /\ dialog[t].status = d.status /\ (Early(d) => Early(dialog[t])) /\ dialog[t].open
    BY <1>2 DEF d
  <1> QED
    BY <1>1, <1>2, <1>4, <1>5, <1>9, <1>10, <1>11, <1>12, <1>13, <1>14, ShowStep

LEMMA FixesStep ==
    ASSUME BInv, NEW e \in BagToSet(net), onFixes(e)
    PROVE  BInv'
  <1> DEFINE t == e.t
             d == dialog[t]
             got == [d EXCEPT !.fixes = "ok", !.fix = d.status >= 2]
             n == setInitialTabIfReady(got)
  <1>1. /\ UNCHANGED <<svars, conn, hist, sock, cookie, backup, board, crossed, doubled>> /\ e.op = "fixes"
        /\ net' = Take(net, e) /\ dialog' = [dialog EXCEPT ![t] = n]
    BY DEF onFixes
  <1>2. t \in Tabs /\ d.open
    BY <1>1, AnswerFacts DEF DialogOps
  <1>3. /\ d \in Dialogs /\ Shows(d) /\ (~doubled[t] => WhileOnce(net, t, d) /\ Done(d))
    BY <1>2, OpenFacts
  <1>4. IsABag(net) /\ Beside(net, net') /\ About(net', t, "lines") \subseteq About(net, t, "lines")
    BY <1>1, TakeBeside, TakeFacts DEF BInv, Types, WireTypes, About
  <1>5. /\ got \in Dialogs /\ got.c = d.c /\ got.status = d.status /\ got.snippet = d.snippet /\ got.find = d.find
        /\ got.tab = d.tab /\ got.cheer = d.cheer /\ got.set = d.set /\ (got.fix => d.status >= 2)
    <2> DEFINE fixed == d.status >= 2
    <2>1. fixed \in BOOLEAN /\ (fixed <=> d.status >= 2)
      OBVIOUS
    <2>2. got = [d EXCEPT !.fixes = "ok", !.fix = fixed]
      OBVIOUS
    <2> HIDE DEF d, got, fixed
    <2>3. /\ got \in Dialogs /\ got.c = d.c /\ got.status = d.status /\ got.snippet = d.snippet /\ got.find = d.find
          /\ got.tab = d.tab /\ got.cheer = d.cheer /\ got.set = d.set /\ got.fix = fixed
      BY <1>3, <2>1, <2>2 DEF Dialogs
    <2> QED
      BY <2>1, <2>3
  <1>6. /\ n \in Dialogs /\ SameDialog(n, got)
        /\ (n.tab = got.tab /\ n.set = got.set) \/ (got.snippet # "wait" /\ (n.tab = 0 \/ got.status = 1))
    <2> HIDE DEF got
    <2> QED
      BY <1>5, InitialTabFacts
  <1> HIDE DEF got, n
  <1>7. /\ n.c = d.c /\ n.status = d.status /\ n.snippet = d.snippet /\ n.find = d.find /\ n.cheer = d.cheer
        /\ (n.fix => d.status >= 2)
        /\ (n.tab = d.tab /\ n.set = d.set) \/ (n.snippet # "wait" /\ (n.tab = 0 \/ n.status = 1))
    BY <1>5, <1>6 DEF SameDialog
  <1>8. (Early(n) <=> Early(d)) /\ Shows(n)
    BY <1>3, <1>7 DEF Shows, Early
  <1>9. ~doubled[t] => Done(n)
    <2>1. n.fix => Backed(n, 2)
      BY <1>2, <1>7, StatusIsBacked
    <2>2. ~doubled[t] /\ n.find => Backed(n, 1)
      BY <1>3, <1>7 DEF Done, Backed
    <2> QED
      BY <2>1, <2>2 DEF Done
  <1>10. ~doubled[t] => \A f \in About(net', t, "lines") :
                           f.word = "right" => n.snippet = "ok" /\ n.status = 0 /\ ~n.find
    BY <1>3, <1>4, <1>7 DEF WhileOnce
  <1> HIDE DEF t
  <1> QED
    BY <1>1, <1>2, <1>4, <1>6, <1>7, <1>8, <1>9, <1>10, ShowStep

(* A verdict changes the result, and a right one marks the tab's phase.    *)
LEMMA VerdictFacts ==
    ASSUME NEW d \in Dialogs, NEW verdict \in BOOLEAN
    PROVE  LET n == setVerdict(d, verdict) IN
           /\ n \in Dialogs /\ n.c = d.c /\ n.status = d.status /\ n.snippet = d.snippet /\ n.set = d.set /\ n.tab = d.tab
           /\ \/ n.find = d.find /\ n.fix = d.fix /\ n.cheer = d.cheer
              \/ verdict /\ d.tab = 0 /\ n.find = TRUE /\ n.fix = d.fix
              \/ verdict /\ d.tab = 1 /\ n.find = d.find /\ n.fix = TRUE
  <1> DEFINE n == setVerdict(d, verdict)
  <1> SUFFICES
         /\ n \in Dialogs /\ n.c = d.c /\ n.status = d.status /\ n.snippet = d.snippet /\ n.set = d.set /\ n.tab = d.tab
         /\ \/ n.find = d.find /\ n.fix = d.fix /\ n.cheer = d.cheer
            \/ verdict /\ d.tab = 0 /\ n.find = TRUE /\ n.fix = d.fix
            \/ verdict /\ d.tab = 1 /\ n.find = d.find /\ n.fix = TRUE
    OBVIOUS
  <1>1. \/ n = d
        \/ n = [d EXCEPT !.result = "Wrong"]
        \/ verdict /\ d.tab = 0 /\ n = [d EXCEPT !.find = TRUE, !.result = "Right", !.cheer = TRUE]
        \/ verdict /\ d.tab # 0 /\ n = [d EXCEPT !.fix = TRUE, !.result = "Right", !.cheer = TRUE]
    <2>1. d.result = "Right" => n = d
      BY DEF setVerdict
    <2>2. ASSUME d.result # "Right", ~verdict PROVE n = [d EXCEPT !.result = "Wrong"]
      BY <2>2 DEF setVerdict
    <2>3. ASSUME d.result # "Right", verdict, d.tab = 0 PROVE n = [d EXCEPT !.find = TRUE, !.result = "Right", !.cheer = TRUE]
      BY <2>3 DEF setVerdict
    <2>4. ASSUME d.result # "Right", verdict, d.tab # 0 PROVE n = [d EXCEPT !.fix = TRUE, !.result = "Right", !.cheer = TRUE]
      BY <2>4 DEF setVerdict
    <2> HIDE DEF n
    <2> QED
      BY <2>1, <2>2, <2>3, <2>4
  <1> HIDE DEF n
  <1>2. CASE n = d
    BY <1>2
  <1>3. CASE n = [d EXCEPT !.result = "Wrong"]
    BY <1>3 DEF Dialogs
  <1>4. CASE verdict /\ d.tab = 0 /\ n = [d EXCEPT !.find = TRUE, !.result = "Right", !.cheer = TRUE]
    <2>1. /\ n \in Dialogs /\ n.c = d.c /\ n.status = d.status /\ n.snippet = d.snippet /\ n.set = d.set /\ n.tab = d.tab
          /\ n.find = TRUE /\ n.fix = d.fix
      BY <1>4 DEF Dialogs
    <2> QED
      BY <1>4, <2>1
  <1>5. CASE verdict /\ d.tab # 0 /\ n = [d EXCEPT !.fix = TRUE, !.result = "Right", !.cheer = TRUE]
    <2>1. /\ n \in Dialogs /\ n.c = d.c /\ n.status = d.status /\ n.snippet = d.snippet /\ n.set = d.set /\ n.tab = d.tab
          /\ n.find = d.find /\ n.fix = TRUE
      BY <1>5 DEF Dialogs
    <2>2. d.tab = 1
      BY <1>5 DEF Dialogs
    <2> QED
      BY <1>5, <2>1, <2>2
  <1> QED
    BY <1>1, <1>2, <1>3, <1>4, <1>5

LEMMA VerdictStep ==
    ASSUME BInv, NEW e \in BagToSet(net), onVerdict(e)
    PROVE  BInv'
  <1> DEFINE t == e.t
             d == dialog[t]
             n == IF e.word \in {"right", "wrong"} THEN setVerdict(d, e.word = "right") ELSE d
  <1>1. /\ UNCHANGED <<svars, conn, hist, sock, cookie, backup, board, crossed, doubled>> /\ e.op \in {"lines", "fix"}
        /\ net' = Take(net, e) (+) CodeRequests(t, d, n) /\ dialog' = [dialog EXCEPT ![t] = n] /\ e.at = "ans"
    BY DEF onVerdict
  <1>2. t \in Tabs /\ d.open /\ e \in About(net, t, e.op) /\ MessageIsTrue(e)
    BY <1>1, AnswerFacts DEF DialogOps
  <1>3. /\ d \in Dialogs /\ WhileOpen(net, t, d) /\ Shows(d) /\ (~doubled[t] => WhileOnce(net, t, d) /\ Done(d))
        /\ d.c \in Challenges /\ db[d.c].code \in 0..2
    BY <1>2, OpenFacts
  <1>4. e.c = d.c /\ (Early(d) => e.op = "lines") /\ (d.snippet = "wait" => e.word # "right")
    BY <1>1, <1>2, <1>3 DEF WhileOpen, Early
  <1>5. e.word = "right" => db[d.c].code >= 1 /\ (e.op = "fix" => db[d.c].code = 2)
    BY <1>1, <1>2, <1>3, <1>4 DEF MessageIsTrue, TrueVerdict, Decided
  <1>6. /\ n \in Dialogs /\ n.c = d.c /\ n.status = d.status /\ n.snippet = d.snippet /\ n.set = d.set /\ n.tab = d.tab
        /\ \/ n.find = d.find /\ n.fix = d.fix /\ n.cheer = d.cheer
           \/ e.word = "right" /\ d.tab = 0 /\ n.find = TRUE /\ n.fix = d.fix
           \/ e.word = "right" /\ d.tab = 1 /\ n.find = d.find /\ n.fix = TRUE
    <2>1. (e.word = "right") \in BOOLEAN
      OBVIOUS
    <2>2. CASE e.word \in {"right", "wrong"}
      <3>1. n = setVerdict(d, e.word = "right")
        BY <2>2
      <3> HIDE DEF d, n
      <3> QED
        BY <1>3, <2>1, <3>1, VerdictFacts
    <2>3. CASE e.word \notin {"right", "wrong"}
      <3>1. n = d
        BY <2>3
      <3> HIDE DEF d, n
      <3> QED
        BY <1>3, <3>1
    <2> QED
      BY <2>2, <2>3
  <1> HIDE DEF n
  <1>7. IsABag(net) /\ Beside(net, Take(net, e)) /\ IsABag(Take(net, e))
    BY TakeBeside, TakeFacts DEF BInv, Types, WireTypes
  <1>8. Beside(Take(net, e), net')
    <2> DEFINE S == (IF n.find # d.find THEN {Req(t, "codeFind", d.c, {})} ELSE {})
                    \cup (IF n.fix # d.fix THEN {Req(t, "codeFix", d.c, {})} ELSE {})
    <2>1. Allowed("codeFind", d.c, {}) /\ Allowed("codeFix", d.c, {})
      BY DEF Allowed
    <2>2. Aside(Req(t, "codeFind", d.c, {})) /\ Aside(Req(t, "codeFix", d.c, {}))
      BY <1>2, <1>3, <2>1, ReqAside, OpsAside
    <2>3. \A r \in S : Aside(r)
      BY <2>2
    <2>4. net' = Take(net, e) (+) SetToBag(S)
      BY <1>1 DEF CodeRequests
    <2> HIDE DEF S
    <2> QED
      BY <1>7, <2>3, <2>4, AddBeside
  <1>9. Beside(net, net')
    BY <1>7, <1>8, BesideTwice
  <1>10. \A f \in About(net', t, "lines") : f \in About(Take(net, e), t, "lines") /\ f \in About(net, t, "lines")
    BY <1>8, <1>9 DEF Beside, Aside, About, DialogOps
  <1>11. ASSUME ~doubled[t], NEW f \in About(net', t, "lines"), f.word = "right"
         PROVE  n.snippet = "ok" /\ n.status = 0 /\ ~n.find
    <2>1. Lone(net, t, "lines") /\ d.snippet = "ok" /\ d.status = 0 /\ ~d.find
      BY <1>3, <1>10, <1>11 DEF WhileOnce
    <2>2. e.op = "lines"
      BY <1>4, <2>1 DEF Early
    <2>3. About(Take(net, e), t, "lines") = {}
      BY <1>7, <2>1, <2>2, LoneIsTaken
    <2> QED
      BY <1>10, <1>11, <2>3
  <1>12. (Early(n) => Early(d)) /\ Shows(n)
    <2>1. Early(n) => Early(d)
      BY <1>4, <1>6 DEF Early
    <2>2. d.snippet = "wait" => n.find = d.find /\ n.cheer = d.cheer
      BY <1>4, <1>6
    <2>3. ASSUME Early(n) PROVE n.tab = 0 /\ ~n.cheer
      <3>1. Early(d) /\ d.tab = 0 /\ ~d.cheer
        BY <1>3, <2>1, <2>3 DEF Shows
      <3>2. n.cheer = d.cheer
        BY <1>6, <2>2, <2>3, <3>1 DEF Early
      <3> QED
        BY <1>6, <3>1, <3>2
    <2>4. n.snippet = "wait" => ~n.find /\ ~n.set
      BY <1>3, <1>6, <2>2 DEF Shows
    <2>5. n.snippet = "ok" /\ n.status >= 1 => n.find
      BY <1>3, <1>6 DEF Shows
    <2> QED
      BY <2>1, <2>3, <2>4, <2>5 DEF Shows
  <1>13. ASSUME ~doubled[t] PROVE Done(n)
    <2>1. CASE n.find = d.find /\ n.fix = d.fix
      BY <1>3, <1>6, <1>13, <2>1 DEF Done, Backed
    <2>2. CASE e.word = "right" /\ n.find = TRUE /\ n.fix = d.fix
      BY <1>3, <1>5, <1>6, <1>13, <2>2 DEF Done, Backed
    <2>3. CASE e.word = "right" /\ d.tab = 1 /\ n.find = d.find /\ n.fix = TRUE
      <3>1. e.op = "fix"
        <4>1. ASSUME e.op = "lines" PROVE FALSE
          <5>1. d.snippet = "ok" /\ d.status = 0 /\ ~d.find
            BY <1>2, <1>3, <1>13, <2>3, <4>1 DEF WhileOnce
          <5> QED
            BY <1>3, <2>3, <5>1 DEF Early, Shows
        <4> QED
          BY <1>1, <4>1
      <3>2. db[n.c].code = 2
        BY <1>5, <1>6, <2>3, <3>1
      <3>3. db[n.c].code >= 1 /\ db[n.c].code >= 2
        BY <3>2
      <3> QED
        BY <3>3 DEF Done, Backed
    <2> QED
      BY <1>6, <2>1, <2>2, <2>3
  <1> HIDE DEF t
  <1> QED
    BY <1>1, <1>2, <1>6, <1>9, <1>11, <1>12, <1>13, ShowStep

(* A submission about the dialog of a tab.                                 *)
Submission(t, op, word) == [Req(t, op, dialog[t].c, {}) EXCEPT !.word = word]

LEMMA SubmissionFacts ==
    ASSUME BInv, NEW t \in Tabs, dialog[t].open, NEW op \in {"lines", "fix"}, NEW word \in {"right", "wrong"}
    PROVE  LET r == Submission(t, op, word) IN
           /\ r \in Messages /\ MessageIsTrue(r) /\ r.t = t /\ r.op = op /\ r.c = dialog[t].c /\ r.word = word
  <1> DEFINE c == dialog[t].c
             q == Req(t, op, c, {})
             r == [q EXCEPT !.word = word]
  <1>1. c \in Coding /\ c \in Challenges
    BY OpenFacts DEF Dialogs
  <1>2. Allowed(op, c, {}) /\ op \in Ops
    BY <1>1 DEF Allowed, Ops, CodeFixesService, VulnLinesService
  <1>3. q \in Messages /\ q.at = "req" /\ q.t = t /\ q.op = op /\ q.c = c /\ q.v = {}
    BY <1>1, <1>2, ReqFacts DEF Req
  <1>4. Submission(t, op, word) = r
    BY DEF Submission
  <1> HIDE DEF q, c
  <1>5. r \in Messages /\ r.at = "req" /\ r.t = t /\ r.op = op /\ r.c = c /\ r.word = word /\ r.v = {}
    BY <1>3 DEF Messages
  <1> HIDE DEF r
  <1>6. MessageIsTrue(r)
    BY <1>1, <1>5 DEF MessageIsTrue, CodedMessage, TrueVerdict, Decided, WaitsForSnippets, FreshAnswer
  <1> QED
    BY <1>4, <1>5, <1>6 DEF c

(* What a message that is put into the bag changes.                        *)
LEMMA PutAbout ==
    ASSUME NEW b, IsABag(b), NEW r
    PROVE  /\ \A t, op : About(Put(b, r), t, op) = About(b, t, op) \cup (IF r.t = t /\ r.op = op THEN {r} ELSE {})
           /\ \A t, op : ~(r.t = t /\ r.op = op) => Fewer(Put(b, r), b, t, op)
  <1>1. \A t, op : About(Put(b, r), t, op) = About(b, t, op) \cup (IF r.t = t /\ r.op = op THEN {r} ELSE {})
    BY PutFacts DEF About
  <1>2. ASSUME NEW t, NEW op, ~(r.t = t /\ r.op = op) PROVE Fewer(Put(b, r), b, t, op)
    <2>1. About(Put(b, r), t, op) = About(b, t, op)
      BY <1>2, PutFacts DEF About
    <2>2. ASSUME NEW f \in About(b, t, op) PROVE Copies(f, Put(b, r)) <= Copies(f, b)
      <3>1. f # r
        BY <1>2, <2>2 DEF About
      <3>2. Copies(f, b) \in Nat
        BY CopiesFacts
      <3> QED
        BY <3>1, <3>2, PutFacts
    <2> QED
      BY <2>1, <2>2 DEF Fewer
  <1> QED
    BY <1>1, <1>2

LEMMA SubmitStep ==
    ASSUME BInv, NEW t \in Tabs, NEW word \in {"right", "wrong"}, checkLines(t, word) \/ checkFix(t, word)
    PROVE  BInv'
  <1> DEFINE d == dialog[t]
             op == IF checkLines(t, word) THEN "lines" ELSE "fix"
             r == Submission(t, op, word)
             late == InFlight(t, {"lines"})
  <1>1. /\ UNCHANGED <<svars, conn, hist, sock, cookie, backup, board, dialog>> /\ d.open
        /\ net' = Put(net, r) /\ doubled' = [doubled EXCEPT ![t] = doubled[t] \/ late]
    BY DEF checkLines, checkFix, Submission
  <1>2. /\ crossed \in [Tabs -> BOOLEAN] /\ doubled \in [Tabs -> BOOLEAN] /\ IsABag(net) /\ DOMAIN dialog = Tabs
        /\ BagToSet(net) \subseteq Messages /\ \A e \in BagToSet(net) : MessageIsTrue(e)
    BY DEF BInv, Types, TabTypes, WireTypes, MessagesAreTrue
  <1>3. late \in BOOLEAN /\ (~late => About(net, t, "lines") = {})
    BY DEF InFlight, About
  <1>4. crossed' \in [Tabs -> BOOLEAN]
    <2>1. CASE checkLines(t, word)
      BY <1>2, <2>1, Zenon DEF checkLines
    <2>2. CASE checkFix(t, word)
      BY <1>2, <2>2, Zenon DEF checkFix
    <2> QED
      BY <2>1, <2>2
  <1>5. /\ op = "lines" => ~d.find /\ (word = "right" => d.snippet = "ok")
        /\ op = "fix" => d.tab = 1
        /\ op \in {"lines", "fix"}
    BY DEF checkLines, checkFix
  <1> HIDE DEF late, op
  <1>6. /\ doubled' \in [Tabs -> BOOLEAN] /\ (~doubled'[t] => ~doubled[t] /\ ~late)
        /\ \A u \in Tabs \ {t} : doubled'[u] = doubled[u]
    BY <1>1, <1>2, <1>3
  <1>7. r \in Messages /\ MessageIsTrue(r) /\ r.t = t /\ r.op = op /\ r.c = d.c /\ r.word = word
    BY <1>1, <1>5, SubmissionFacts
  <1> HIDE DEF r
  <1>8. /\ IsABag(net') /\ BagToSet(net') \subseteq Messages /\ \A e \in BagToSet(net') : MessageIsTrue(e)
    BY <1>1, <1>2, <1>7, PutFacts
  <1>9. /\ \A o : About(net', t, o) = About(net, t, o) \cup (IF o = op THEN {r} ELSE {})
        /\ \A u, o : ~(t = u /\ op = o) => Fewer(net', net, u, o)
    BY <1>1, <1>2, <1>7, PutAbout
  <1>10. /\ d \in Dialogs /\ WhileOpen(net, t, d) /\ Shows(d) /\ (~doubled[t] => WhileOnce(net, t, d) /\ Done(d))
         /\ (restarts = 0 => d.status <= db[d.c].code)
    BY <1>1, OpenFacts
  <1>11. ~Early(d) \/ op = "lines"
    BY <1>5, <1>10 DEF Shows
  <1>12. op = "lines" /\ word = "right" => d.snippet = "ok" /\ d.status = 0 /\ ~d.find
    <2>1. d.status \in 0..2
      BY <1>10 DEF Dialogs
    <2> HIDE DEF d
    <2> QED
      BY <1>5, <1>10, <2>1 DEF Shows
  <1>13. WhileOpen(net', t, d)
    <2>1. \A e \in About(net', t, "lines") \cup About(net', t, "fix") : e.c = d.c
      BY <1>7, <1>9, <1>10 DEF WhileOpen
    <2>2. Lone(net', t, "snippet") /\ About(net', t, "snippet") = About(net, t, "snippet")
      <3>1. About(net', t, "snippet") = About(net, t, "snippet") /\ Fewer(net', net, t, "snippet")
        BY <1>5, <1>9
      <3> QED
        BY <1>2, <1>8, <1>10, <3>1, FewerIsLone DEF WhileOpen
    <2>3. Early(d) => About(net', t, "fix") = {}
      BY <1>9, <1>10, <1>11 DEF WhileOpen
    <2>4. d.snippet = "wait" => \A e \in About(net', t, "lines") : e.word # "right"
      BY <1>7, <1>9, <1>10, <1>12 DEF WhileOpen
    <2> QED
      BY <1>10, <2>1, <2>2, <2>3, <2>4 DEF WhileOpen
  <1>14. ASSUME ~doubled'[t] PROVE WhileOnce(net', t, d)
    <2>1. WhileOnce(net, t, d) /\ About(net, t, "lines") = {}
      BY <1>3, <1>6, <1>10, <1>14
    <2>2. CASE op = "fix"
      <3>1. About(net', t, "lines") = {}
        BY <1>9, <2>1, <2>2
      <3> QED
        BY <3>1 DEF WhileOnce, Lone
    <2>3. CASE op = "lines"
      <3>1. About(net', t, "lines") = {r}
        BY <1>9, <2>1, <2>3
      <3>2. Copies(r, net') = 1
        <4>1. r \notin BagToSet(net)
          BY <1>7, <2>1, <2>3 DEF About
        <4>2. Copies(r, net) = 0
          BY <4>1 DEF Copies, BagIn
        <4> QED
          BY <1>1, <1>2, <4>2, PutFacts
      <3> QED
        BY <1>7, <1>12, <2>3, <3>1, <3>2 DEF WhileOnce, Lone
    <2> QED
      BY <1>5, <2>2, <2>3
  <1>15. DOMAIN dialog' = Tabs /\ dialog'[t] = d /\ \A u \in Tabs \ {t} : dialog'[u] = dialog[u]
    BY <1>1, <1>2
  <1>16. ~doubled'[t] => WhileOnce(net', t, d) /\ Done(d)
    BY <1>6, <1>10, <1>14
  <1>17. \A u \in Tabs \ {t} : doubled'[u] = doubled[u] /\ \A o \in DialogOps : Fewer(net', net, u, o)
    BY <1>6, <1>9
  <1> HIDE DEF d
  <1> QED
    BY <1>1, <1>4, <1>6, <1>8, <1>10, <1>13, <1>15, <1>16, <1>17, DialogStep

LEMMA OpenStep ==
    ASSUME BInv, NEW t \in Tabs, NEW c \in Challenges, openCodingChallengeDialog(t, c)
    PROVE  BInv'
  <1> DEFINE n == NewDialog(c, board[t][c].code)
             q == Req(t, "snippet", c, {})
             r == Req(t, "fixes", c, {})
  <1>1. /\ UNCHANGED <<svars, conn, hist, sock, cookie, backup, board, crossed, doubled>> /\ c \in Coding
        /\ board[t] # NoBoard /\ ~dialog[t].open /\ dialog' = [dialog EXCEPT ![t] = n]
        /\ net' = net (+) SetToBag({q, r})
    BY DEF openCodingChallengeDialog
  <1>2. /\ crossed' \in [Tabs -> BOOLEAN] /\ doubled' \in [Tabs -> BOOLEAN] /\ IsABag(net)
        /\ BagToSet(net) \subseteq Messages /\ \A e \in BagToSet(net) : MessageIsTrue(e)
        /\ board[t] \in Rows /\ WhileClosed(net, t)
    BY <1>1 DEF BInv, Types, TabTypes, WireTypes, MessagesAreTrue, DialogsWait
  <1>3. board[t][c].code \in 0..2 /\ (restarts = 0 => board[t][c].code <= db[c].code)
    BY <1>1, <1>2 DEF Rows, ChallengeTable, BInv, BoardsAreTrue, NotAhead
  <1>4. /\ n \in Dialogs /\ n.c = c /\ n.status = board[t][c].code /\ n.snippet = "wait" /\ n.find = FALSE /\ n.fix = FALSE
        /\ n.tab = 0 /\ n.cheer = FALSE /\ n.set = FALSE
    BY <1>1, <1>3 DEF NewDialog, Dialogs
  <1>5. /\ q \in Messages /\ MessageIsTrue(q) /\ q.t = t /\ q.op = "snippet"
        /\ r \in Messages /\ MessageIsTrue(r) /\ r.t = t /\ r.op = "fixes"
    <2>1. Allowed("snippet", c, {}) /\ Allowed("fixes", c, {})
      BY DEF Allowed
    <2>2. "snippet" \in Ops /\ "fixes" \in Ops
      BY DEF Ops, CodeSnippetService, CodeFixesService
    <2>3. q.t = t /\ q.op = "snippet" /\ r.t = t /\ r.op = "fixes"
      BY DEF Req
    <2> QED
      BY <2>1, <2>2, <2>3, ReqFacts
  <1> HIDE DEF n, q, r
  <1>6. /\ IsABag(net') /\ BagToSet(net') = BagToSet(net) \cup {q, r}
        /\ \A f : Copies(f, net') = Copies(f, net) + (IF f \in {q, r} THEN 1 ELSE 0)
    BY <1>1, <1>2, AddFacts
  <1>7. /\ About(net', t, "snippet") = {q} /\ About(net', t, "lines") = {} /\ About(net', t, "fix") = {}
    BY <1>2, <1>5, <1>6 DEF About, WhileClosed
  <1>8. Copies(q, net') = 1
    <2>1. q \notin BagToSet(net)
      BY <1>2, <1>5 DEF About, WhileClosed
    <2>2. Copies(q, net) = 0
      BY <2>1 DEF Copies, BagIn
    <2> QED
      BY <1>6, <2>2
  <1>9. WhileOpen(net', t, n) /\ Shows(n) /\ WhileOnce(net', t, n) /\ Done(n)
    BY <1>4, <1>7, <1>8 DEF WhileOpen, Shows, WhileOnce, Lone, Done
  <1>10. ASSUME NEW u \in Tabs \ {t}, NEW op PROVE Fewer(net', net, u, op)
    <2>1. ASSUME NEW f \in About(net', u, op) PROVE f \in About(net, u, op) /\ Copies(f, net') <= Copies(f, net)
      <3>1. f \notin {q, r} /\ f \in About(net, u, op)
        BY <1>5, <1>6, <2>1 DEF About
      <3>2. Copies(f, net) \in Nat
        BY <1>2, CopiesFacts
      <3> QED
        BY <1>6, <3>1, <3>2
    <2> QED
      BY <2>1 DEF Fewer
  <1>11. BagToSet(net') \subseteq Messages /\ \A e \in BagToSet(net') : MessageIsTrue(e)
    BY <1>2, <1>5, <1>6
  <1>12. restarts = 0 => n.status <= db[n.c].code
    BY <1>3, <1>4
  <1>13. DOMAIN dialog' = Tabs /\ dialog'[t] = n /\ \A u \in Tabs \ {t} : dialog'[u] = dialog[u]
    BY <1>1 DEF BInv, Types, TabTypes
  <1> QED
    BY <1>1, <1>2, <1>4, <1>6, <1>9, <1>10, <1>11, <1>12, <1>13, DialogStep

-----------------------------------------------------------------------------
(* The theorems.                                                           *)

(* Crash: the server starts with new rows, the tabs keep what they show.   *)
LEMMA CrashStep ==
    ASSUME BInv, Crash
    PROVE  BInv'
  <1>1. /\ cache' = [c \in Challenges |-> FALSE] /\ db' = [c \in Challenges |-> NewRow] /\ notifs' = <<>>
        /\ solves' = [c \in Challenges |-> 0] /\ accuracy' = [c \in Challenges |-> NoVerdict]
        /\ snippets' = "null" /\ work' = EmptyBag /\ net' = EmptyBag /\ sock' = [t \in Tabs |-> <<>>]
        /\ conn' = [t \in Tabs |-> FALSE] /\ restarts' = restarts + 1
        /\ crossed' = [t \in Tabs |-> TRUE] /\ dialog' = [t \in Tabs |-> Closed]
        /\ UNCHANGED <<cookie, backup, board, doubled>>
    BY DEF Crash, Restart
  <1>2. restarts \in Nat /\ TabTypes
    BY DEF BInv, Types, ServerTypes
  <1>3. restarts' \in Nat /\ restarts' # 0
    BY <1>1, <1>2
  <1>4. db' \in Rows /\ \A c \in Challenges : db'[c].code = 0
    BY <1>1 DEF Rows, NewRow, ChallengeTable
  <1>5. accuracy' \in [Challenges -> Verdicts]
    BY <1>1 DEF NoVerdict, Verdicts
  <1>6. ServerTypes'
    BY <1>1, <1>3, <1>4, <1>5 DEF ServerTypes
  <1>7. WorkTypes' /\ WireTypes' /\ MessagesAreTrue'
    BY <1>1, EmptyFacts DEF WorkTypes, WireTypes, MessagesAreTrue
  <1>8. TabTypes'
    BY <1>1, <1>2 DEF TabTypes
  <1>9. Scoring' /\ CodedRows'
    <2>1. \A c \in Challenges : solves'[c] = 0 /\ Copies(ScorePromise(c), work') = 0
      BY <1>1, EmptyFacts
    <2> QED
      BY <1>4, <2>1 DEF Scoring, CodedRows
  <1>10. NotificationsAreTrue' /\ EventsAreTrue' /\ BoardsAreTrue' /\ DialogsAreTrue'
    BY <1>3 DEF NotificationsAreTrue, EventsAreTrue, BoardsAreTrue, DialogsAreTrue
  <1>11. \A t \in Tabs : ~dialog'[t].open /\ WhileClosed(net', t)
    BY <1>1, EmptyFacts DEF Closed, WhileClosed, About
  <1>12. DialogsWait' /\ DialogIsBacked'
    BY <1>11 DEF DialogsWait, DialogIsBacked
  <1> QED
    BY <1>6, <1>7, <1>8, <1>9, <1>10, <1>12 DEF BInv, Types

LEMMA InitStep ==
    ASSUME Init
    PROVE  BInv
  <1>1. /\ cache = [c \in Challenges |-> FALSE] /\ db = [c \in Challenges |-> NewRow] /\ notifs = <<>>
        /\ solves = [c \in Challenges |-> 0] /\ accuracy = [c \in Challenges |-> NoVerdict]
        /\ snippets = "null" /\ work = EmptyBag /\ net = EmptyBag /\ sock = [t \in Tabs |-> <<>>]
        /\ conn = [t \in Tabs |-> FALSE] /\ restarts = 0
        /\ crossed = [t \in Tabs |-> FALSE] /\ dialog = [t \in Tabs |-> Closed]
        /\ cookie = NoCodes /\ backup = NoCodes /\ board = [t \in Tabs |-> NoBoard] /\ doubled = [t \in Tabs |-> FALSE]
    BY DEF Init, InitProgress
  <1>2. db \in Rows /\ \A c \in Challenges : db[c].code = 0
    BY <1>1 DEF Rows, NewRow, ChallengeTable
  <1>3. accuracy \in [Challenges -> Verdicts]
    BY <1>1 DEF NoVerdict, Verdicts
  <1>4. ServerTypes
    BY <1>1, <1>2, <1>3 DEF ServerTypes
  <1>5. WorkTypes /\ WireTypes /\ MessagesAreTrue
    BY <1>1, EmptyFacts DEF WorkTypes, WireTypes, MessagesAreTrue
  <1>6. TabTypes
    <2>1. NoCodes \in Codes
      BY DEF NoCodes, Codes
    <2> QED
      BY <1>1, <2>1 DEF TabTypes
  <1>7. Scoring /\ CodedRows
    <2>1. \A c \in Challenges : solves[c] = 0 /\ Copies(ScorePromise(c), work) = 0
      BY <1>1, EmptyFacts
    <2> QED
      BY <1>2, <2>1 DEF Scoring, CodedRows
  <1>8. \A t \in Tabs : ~dialog[t].open /\ WhileClosed(net, t)
    BY <1>1, EmptyFacts DEF Closed, WhileClosed, About
  <1>9. NotificationsAreTrue /\ EventsAreTrue /\ BoardsAreTrue
    BY <1>1 DEF NotificationsAreTrue, EventsAreTrue, BoardsAreTrue
  <1>10. DialogsWait /\ DialogIsBacked /\ DialogsAreTrue
    BY <1>8 DEF DialogsWait, DialogIsBacked, DialogsAreTrue
  <1> QED
    BY <1>4, <1>5, <1>6, <1>7, <1>9, <1>10 DEF BInv, Types

LEMMA StutterStep ==
    ASSUME BInv, UNCHANGED vars
    PROVE  BInv'
  <1>1. UNCHANGED <<svars, conn, hist, sock, cookie, backup, board, dialog, crossed, doubled, net>>
    BY DEF vars, cvars, wires
  <1>2. Beside(net, net')
    BY <1>1, NothingBeside DEF BInv, Types, WireTypes
  <1> QED
    BY <1>1, <1>2, ShownStays, BoardStep

LEMMA NextStep ==
    ASSUME BInv, [Next]_vars
    PROVE  BInv'
  <1>1. CASE UNCHANGED vars
    BY <1>1, StutterStep
  <1>2. CASE \E e \in BagToSet(work) : Settle(e) /\ UNCHANGED cvars
    BY <1>2, SavedStep, SolvingStep DEF Settle
  <1>3. CASE \E e \in BagToSet(net) : Handle(e) /\ UNCHANGED cvars
    BY <1>3, HandleStep
  <1>4. CASE \E t \in Tabs : connection(t) /\ UNCHANGED cvars
    BY <1>4, ConnectionStep
  <1>5. CASE Occur /\ UNCHANGED cvars
    BY <1>5, SolvingStep
  <1>6. CASE React
    BY <1>6, EventStep, ConfettiStep, AnswerStep, SnippetStep, FixesStep, VerdictStep DEF React
  <1>7. CASE UseTab
    BY <1>7, UserStep, OpenStep, ConfettiStep, SubmitStep DEF UseTab
  <1>8. CASE Crash
    BY <1>8, CrashStep
  <1> QED
    BY <1>1, <1>2, <1>3, <1>4, <1>5, <1>6, <1>7, <1>8, NextCases

(* Whatever the tabs, the challenges and the user do, however many dialogs *)
(* are opened and however often the server crashes, what is on the way,    *)
(* what is stored and what is shown fit together.                          *)
THEOREM BInvariance == Spec => []BInv
  <1>1. Init => BInv
    BY InitStep
  <1>2. BInv /\ [Next]_vars => BInv'
    BY NextStep
  <1> QED
    BY <1>1, <1>2, PTL DEF Spec

(* solve, the score board and the dialog of a coding challenge: a          *)
(* challenge that is not verified by queries is scored once between two    *)
(* starts; until the server crashes no score board shows a challenge as    *)
(* solved or a phase as done before its row says so; no dialog marks a     *)
(* phase its row does not have, unless lines were submitted twice or its   *)
(* board is older than a crash.                                            *)
THEOREM ShownIsBackedTheorem == Spec => []ShownIsBacked
  <1>1. ASSUME BInv PROVE ShownIsBacked
    <2>1. TypeOK
      <3>1. ServerTypes /\ TabTypes
        BY <1>1 DEF BInv, Types
      <3> QED
        BY <3>1 DEF TypeOK, ServerTypes, TabTypes, Rows, Codes, Verdicts
    <2>2. ScoredOnce
      <3>1. ASSUME NEW c \in Challenges \ Checked PROVE solves[c] <= 1
        <4>1. solves[c] \in Nat /\ Copies(ScorePromise(c), work) \in Nat
          BY <1>1, CopiesFacts DEF BInv, Types, ServerTypes, WorkTypes
        <4>2. solves[c] + Copies(ScorePromise(c), work) <= 1
          BY <1>1 DEF BInv, Scoring
        <4> QED
          BY <4>1, <4>2
      <3> QED
        BY <3>1 DEF ScoredOnce
    <2>3. BoardNotAhead
      BY <1>1 DEF BInv, BoardsAreTrue, NotAhead, BoardNotAhead
    <2> QED
      BY <1>1, <2>1, <2>2, <2>3 DEF ShownIsBacked, BInv
  <1> QED
    BY <1>1, BInvariance, PTL

(* solveFindIt, solveFixIt and the restoring of both phases: the status of *)
(* a coding challenge does not fall while the server runs.                 *)
THEOREM StatusNeverFallsTheorem == Spec => StatusNeverFalls
  <1>1. ASSUME BInv, [Next]_vars, restarts' = restarts PROVE \A c \in Challenges : db'[c].code >= db[c].code
    <2>1. db \in Rows /\ CodedRows /\ BagToSet(net) \subseteq Messages /\ \A e \in BagToSet(net) : CodedMessage(e)
      BY <1>1 DEF BInv, Types, ServerTypes, WireTypes, MessagesAreTrue, MessageIsTrue
    <2>2. db' \in Rows /\ Grows
      <3>1. CASE UNCHANGED db
        BY <2>1, <3>1, RowsStay
      <3>2. ASSUME NEW e \in BagToSet(work), saved(e) PROVE db' \in Rows /\ Grows
        <4>1. e.c \in Challenges
          BY <1>1, <3>2, SavedFacts DEF BInv, Types
        <4>2. db' = [db EXCEPT ![e.c].solved = TRUE]
          BY <3>2 DEF saved
        <4>3. db' \in Rows
          BY <2>1, <4>1, <4>2 DEF Rows, ChallengeTable
        <4>4. \A c \in Challenges : db'[c].code = db[c].code /\ (db[c].solved => db'[c].solved) /\ db[c].code \in 0..2
          BY <2>1, <4>1, <4>2 DEF Rows, ChallengeTable
        <4> QED
          BY <4>3, <4>4 DEF Grows
      <3>3. ASSUME NEW e \in BagToSet(net), Handle(e) PROVE db' \in Rows /\ Grows
        BY <2>1, <3>3, HandleRows
      <3>4. CASE React \/ UseTab
        BY <3>1, <3>4, TabsLeaveServer DEF svars
      <3>5. ASSUME Crash PROVE FALSE
        <4>1. restarts \in Nat /\ restarts' = restarts + 1
          BY <1>1, <3>5 DEF BInv, Types, ServerTypes, Crash, Restart
        <4> QED
          BY <1>1, <4>1
      <3>6. CASE (\E e \in BagToSet(work) : notify(e) \/ jwtVerified(e) \/ counted(e)) \/ Occur
                 \/ (\E t \in Tabs : connection(t)) \/ UNCHANGED vars
        <4>1. UNCHANGED db
          BY <3>6 DEF notify, jwtVerified, counted, Occur, accessControlChallenges, jwtChallenges,
                      databaseRelatedChallenges, connection, vars, svars
        <4> QED
          BY <3>1, <4>1
      <3> QED
        BY <1>1, <3>2, <3>3, <3>4, <3>5, <3>6, NextCases DEF Settle
    <2> QED
      BY <2>1, <2>2 DEF Grows, Rows, ChallengeTable
  <1>2. BInv /\ [Next]_vars => [restarts' = restarts => \A c \in Challenges : db'[c].code >= db[c].code]_vars
    BY <1>1
  <1> QED
    BY <1>2, BInvariance, PTL DEF Spec, StatusNeverFalls

-----------------------------------------------------------------------------
(* What is still waited for.                                               *)

(* The events about a challenge that is solved.                            *)
Tells(x, c) == x.ev = "solved" /\ x.c = c
Where(s, c) == {i \in DOMAIN s : Tells(s[i], c)}
Num(s, c) == Cardinality(Where(s, c))
Ack(t, c) == Req(t, "ack", c, {})

(* A challenge is saved once for every call of solve.                      *)
Calls ==
    \A c \in Challenges :
        /\ cache[c] => times[c] >= 1
        /\ Copies(Promise(c, TRUE), work) + Copies(Promise(c, FALSE), work)
              + (IF db[c].solved THEN 1 ELSE 0) <= times[c]
        /\ times[c] <= 1 /\ ~db[c].solved => Where(notifs, c) = {}
AcksAreRequests == \A e \in BagToSet(net) : e.op = "ack" => e = Ack(e.t, e.c)
OnlySolved == \A i \in DOMAIN notifs : notifs[i].ev = "solved"

(* Every tab that is connected has an event or an answer for each          *)
(* notification that is kept.                                              *)
Awaited ==
    \A t \in Tabs, c \in Challenges :
        conn[t] /\ times[c] <= 1 => Num(notifs, c) <= Num(sock[t], c) + Copies(Ack(t, c), net)
NotifInv == times \in [Challenges -> Nat] /\ Calls /\ AcksAreRequests /\ OnlySolved /\ Awaited

(* A tab that has events, or that has or loads a board, is connected.      *)
Connected ==
    \A t \in Tabs :
        /\ sock[t] # <<>> => conn[t]
        /\ ~crossed[t] => restarts = 0 /\ (board[t] # NoBoard \/ InFlight(t, {"board", "hint"}) => conn[t])

(* An event about a phase is still to be sent, or was the last one sent.   *)
ScorePending(c) ==
    \E e \in BagToSet(net) :
        e.c = c /\ e.at = "score" /\ ((e.op = "lines" /\ db[c].code = 1) \/ (e.op = "fix" /\ db[c].code = 2))
UpToDate(c, code) == code = db[c].code \/ ScorePending(c)
IsCode(x, c) == x.ev = "code" /\ x.c = c
NoCode(s, c) == \A i \in DOMAIN s : ~IsCode(s[i], c)
LastIsCurrent(s, c) ==
    \A i \in DOMAIN s : IsCode(s[i], c) /\ (\A j \in DOMAIN s : j > i => ~IsCode(s[j], c)) => UpToDate(c, s[i].code)

(* What rows lack is in the events that are on the way.                    *)
Mirrors(rows, s) ==
    \A c \in Challenges :
        /\ db[c].solved => rows[c].solved \/ Where(s, c) # {}
        /\ NoCode(s, c) => UpToDate(c, rows[c].code)

(* The phases are not checked at the same time, and what is restored is    *)
(* there already.                                                          *)
PhasesApart ==
    /\ \A e, f \in BagToSet(net) : ~(e.op = "lines" /\ f.op = "fix")
    /\ \A e \in BagToSet(net) : e.op = "lines" /\ e.at # "ans" => db[e.c].code < 2
OldPhases(e) ==
    /\ e.op \in {"codeFind", "restoreFind"} => \A c \in e.v : db[c].code >= 1
    /\ e.op \in {"codeFix", "restoreFix"} => \A c \in e.v : db[c].code = 2
OldCookie == (\A c \in cookie.find : db[c].code >= 1) /\ (\A c \in cookie.fix : db[c].code = 2)

TabMirrors(t) ==
    /\ \A c \in Challenges : LastIsCurrent(sock[t], c)
    /\ board[t] # NoBoard => Mirrors(board[t], sock[t])
    /\ \A e \in BagToSet(net) : e.op = "board" /\ e.at = "ans" /\ e.t = t => Mirrors(e.rows, sock[t])
BoardInv ==
    /\ Connected
    /\ \A t \in Tabs : ~crossed[t] =>
        PhasesApart /\ OldCookie /\ (\A e \in BagToSet(net) : OldPhases(e)) /\ TabMirrors(t)

(* The cookie grows: one continue code at a time.                          *)
Cached == {c \in Challenges : cache[c]}
LoneCode == \A e, f \in BagToSet(net) : e.op = "code" /\ f.op = "code" => e = f /\ Copies(e, net) = 1
CodesGrow ==
    /\ cookie.hack \subseteq Cached
    /\ \A e \in BagToSet(net) : e.op = "code" /\ e.at = "ans" => cookie.hack \subseteq e.v /\ e.v \subseteq Cached

(* A challenge is in the cookie or in a code that comes, or no tab has     *)
(* handled an event about it.                                              *)
Covered(c) ==
    \/ c \in cookie.hack
    \/ \E e \in BagToSet(net) : e.op = "code" /\ (e.at = "req" \/ c \in e.v)
Calm(c) ==
    /\ \A e \in BagToSet(net) : (e.op = "ack" => e.c # c) /\ (e.op = "restore" => c \notin e.v)
    /\ Promise(c, TRUE) \notin BagToSet(work)
Unheard(c) ==
    /\ ~db[c].solved /\ Where(notifs, c) = {}
    /\ \A t \in Tabs : Where(sock[t], c) = {}
FirstIsNew(s, c) == \E i \in Where(s, c) : ~s[i].restore /\ \A j \in Where(s, c) : i <= j
Told(c) == db[c].solved /\ FirstIsNew(notifs, c) /\ \A t \in Tabs : conn[t] => FirstIsNew(sock[t], c)
Promised(c) == Promise(c, FALSE) \in BagToSet(work)
CookieInv ==
    restarts = 0 /\ ~parallel =>
        /\ LoneCode /\ CodesGrow
        /\ \A c \in Challenges :
            /\ cache[c] => Covered(c) \/ (Calm(c) /\ (Told(c) \/ (Unheard(c) /\ Promised(c))))
            /\ ~cache[c] => Calm(c) /\ Unheard(c) /\ ~Promised(c)

SInv == NotifInv /\ BoardInv /\ CookieInv

-----------------------------------------------------------------------------
(* Counting events.                                                        *)

LEMMA WhereFacts ==
    ASSUME NEW s \in Seq(Events), NEW c
    PROVE  Where(s, c) \subseteq 1..Len(s) /\ IsFiniteSet(Where(s, c)) /\ Num(s, c) \in Nat
           /\ (Num(s, c) = 0 <=> Where(s, c) = {})
  <1>1. Where(s, c) \subseteq 1..Len(s) /\ Len(s) \in Nat
    BY DEF Where
  <1>2. IsFiniteSet(1..Len(s))
    BY <1>1, FS_Interval
  <1>3. IsFiniteSet(Where(s, c))
    BY <1>1, <1>2, FS_Subset
  <1> QED
    BY <1>1, <1>3, FS_CardinalityType, FS_EmptySet DEF Num

LEMMA ShiftFacts ==
    ASSUME NEW S, S \subseteq Int, IsFiniteSet(S), NEW T, T \subseteq Int,
           \A i \in Int : i \in S <=> (i + 1) \in T
    PROVE  IsFiniteSet(T) /\ Cardinality(T) = Cardinality(S)
  <1> DEFINE f == [i \in S |-> i + 1]
  <1>1. f \in Bijection(S, T)
    <2>1. f \in [S -> T]
      OBVIOUS
    <2>2. \A a, b \in S : f[a] = f[b] => a = b
      OBVIOUS
    <2>3. \A j \in T : j - 1 \in S /\ f[j - 1] = j
      <3> TAKE j \in T
      <3>1. j - 1 \in Int /\ (j - 1) + 1 = j
        OBVIOUS
      <3> QED
        BY <3>1
    <2> HIDE DEF f
    <2> QED
      BY <2>1, <2>2, <2>3 DEF Bijection, Injection, Surjection, IsInjective
  <1> QED
    BY <1>1, FS_Bijection DEF ExistsBijection

LEMMA AppendNum ==
    ASSUME NEW s \in Seq(Events), NEW x \in Events, NEW c
    PROVE  /\ Where(Append(s, x), c) = Where(s, c) \cup (IF Tells(x, c) THEN {Len(s) + 1} ELSE {})
           /\ Num(Append(s, x), c) = Num(s, c) + (IF Tells(x, c) THEN 1 ELSE 0)
  <1>1. Where(Append(s, x), c) = Where(s, c) \cup (IF Tells(x, c) THEN {Len(s) + 1} ELSE {})
    <2>1. DOMAIN Append(s, x) = DOMAIN s \cup {Len(s) + 1} /\ DOMAIN s = 1..Len(s) /\ Len(s) \in Nat
      OBVIOUS
    <2>2. Append(s, x)[Len(s) + 1] = x /\ \A i \in DOMAIN s : Append(s, x)[i] = s[i] /\ i # Len(s) + 1
      OBVIOUS
    <2> QED
      BY <2>1, <2>2 DEF Where
  <1>2. Len(s) + 1 \notin Where(s, c)
    BY WhereFacts
  <1>3. IsFiniteSet(Where(s, c)) /\ Cardinality(Where(s, c)) \in Nat
    BY WhereFacts DEF Num
  <1>4. Cardinality(Where(s, c) \cup {Len(s) + 1}) = Cardinality(Where(s, c)) + 1
    BY <1>2, <1>3, FS_AddElement
  <1>5. CASE Tells(x, c)
    BY <1>1, <1>4, <1>5 DEF Num
  <1>6. CASE ~Tells(x, c)
    <2>1. Where(Append(s, x), c) = Where(s, c)
      BY <1>1, <1>6
    <2> QED
      BY <1>1, <1>3, <1>6, <2>1 DEF Num
  <1> QED
    BY <1>5, <1>6

LEMMA AppendOther ==
    ASSUME NEW s \in Seq(Events), NEW x \in Events, NEW c, ~Tells(x, c)
    PROVE  Where(Append(s, x), c) = Where(s, c) /\ Num(Append(s, x), c) = Num(s, c)
  <1>1. Where(Append(s, x), c) = Where(s, c) \cup {}
    BY AppendNum
  <1> QED
    BY <1>1 DEF Num

LEMMA TailNum ==
    ASSUME NEW s \in Seq(Events), s # <<>>, NEW c
    PROVE  /\ \A i \in Int : i \in Where(Tail(s), c) <=> (i + 1) \in Where(s, c) \ {1}
           /\ 1 \in Where(s, c) <=> Tells(Head(s), c)
           /\ Num(s, c) = Num(Tail(s), c) + (IF Tells(Head(s), c) THEN 1 ELSE 0)
  <1>1. \A i \in Int : i \in Where(Tail(s), c) <=> (i + 1) \in Where(s, c) \ {1}
    <2> TAKE i \in Int
    <2>1. DOMAIN Tail(s) = 1..(Len(s) - 1) /\ DOMAIN s = 1..Len(s) /\ Len(s) \in Nat /\ Len(s) # 0
      OBVIOUS
    <2>2. \A k \in 1..(Len(s) - 1) : Tail(s)[k] = s[k + 1]
      OBVIOUS
    <2> QED
      BY <2>1, <2>2 DEF Where
  <1>2. 1 \in Where(s, c) <=> Tells(Head(s), c)
    BY TailFacts DEF Where
  <1>3. Tail(s) \in Seq(Events)
    BY TailFacts
  <1>4. IsFiniteSet(Where(s, c)) /\ IsFiniteSet(Where(Tail(s), c)) /\ Where(s, c) \subseteq Int /\ Where(Tail(s), c) \subseteq Int
    <2>1. \A q \in Seq(Events) : IsFiniteSet(Where(q, c)) /\ Where(q, c) \subseteq Int
      BY WhereFacts
    <2> QED
      BY <1>3, <2>1
  <1>5. Cardinality(Where(s, c) \ {1}) = Cardinality(Where(Tail(s), c))
    <2> DEFINE A == Where(Tail(s), c)
               B == Where(s, c) \ {1}
    <2>1. A \subseteq Int /\ B \subseteq Int /\ IsFiniteSet(A) /\ \A i \in Int : i \in A <=> (i + 1) \in B
      BY <1>1, <1>4
    <2> HIDE DEF A, B
    <2>2. Cardinality(B) = Cardinality(A)
      BY <2>1, ShiftFacts
    <2> QED
      BY <2>2 DEF A, B
  <1>6. Cardinality(Where(s, c)) \in Nat
    BY <1>4, FS_CardinalityType
  <1>7. Cardinality(Where(s, c) \ {1}) = IF 1 \in Where(s, c) THEN Cardinality(Where(s, c)) - 1 ELSE Cardinality(Where(s, c))
    BY <1>4, FS_RemoveElement
  <1> QED
    BY <1>1, <1>2, <1>5, <1>6, <1>7 DEF Num

LEMMA ConsNum ==
    ASSUME NEW s \in Seq(Events), NEW x \in Events, NEW c, ~Tells(x, c)
    PROVE  /\ <<x>> \o s \in Seq(Events)
           /\ \A i \in Int : i \in Where(s, c) <=> (i + 1) \in Where(<<x>> \o s, c)
           /\ 1 \notin Where(<<x>> \o s, c)
           /\ Num(<<x>> \o s, c) = Num(s, c)
  <1> DEFINE n == <<x>> \o s
  <1>1. n \in Seq(Events) /\ Len(n) = Len(s) + 1 /\ DOMAIN n = 1..(Len(s) + 1) /\ DOMAIN s = 1..Len(s) /\ Len(s) \in Nat
    OBVIOUS
  <1>2. n[1] = x /\ \A k \in 1..Len(s) : n[k + 1] = s[k]
    OBVIOUS
  <1> HIDE DEF n
  <1>3. \A i \in Int : i \in Where(s, c) <=> (i + 1) \in Where(n, c)
    <2> TAKE i \in Int
    <2>1. CASE i \in 1..Len(s)
      BY <2>1, <1>1, <1>2 DEF Where
    <2>2. CASE i \notin 1..Len(s)
      <3>1. i \notin Where(s, c)
        BY <2>2, <1>1 DEF Where
      <3>2. i + 1 = 1 \/ i + 1 \notin DOMAIN n
        BY <2>2, <1>1
      <3> QED
        BY <3>1, <3>2, <1>2 DEF Where
    <2> QED
      BY <2>1, <2>2
  <1>4. 1 \notin Where(n, c)
    BY <1>2 DEF Where
  <1>5. IsFiniteSet(Where(s, c)) /\ Where(s, c) \subseteq Int /\ Where(n, c) \subseteq Int
    BY <1>1, WhereFacts
  <1>6. Num(n, c) = Num(s, c)
    BY <1>3, <1>5, ShiftFacts DEF Num
  <1> QED
    BY <1>1, <1>3, <1>4, <1>6 DEF n

LEMMA SkipFacts ==
    ASSUME NEW S, S \subseteq Int, IsFiniteSet(S), NEW T, T \subseteq Int, NEW k \in Int, k \notin S,
           \A i \in Int : i < k => (i \in S <=> i \in T),
           \A i \in Int : i >= k => (i \in T <=> (i + 1) \in S)
    PROVE  Cardinality(T) = Cardinality(S)
  <1> DEFINE f == [i \in S |-> IF i < k THEN i ELSE i - 1]
  <1>1. \A i \in S : i \in Int /\ i # k
    OBVIOUS
  <1>2. f \in [S -> T]
    <2> SUFFICES ASSUME NEW i \in S PROVE f[i] \in T
      OBVIOUS
    <2>1. CASE i < k
      BY <1>1, <2>1
    <2>2. CASE ~(i < k)
      <3>1. i - 1 \in Int /\ i - 1 >= k /\ (i - 1) + 1 = i
        BY <1>1, <2>2
      <3> QED
        BY <2>2, <3>1
    <2> QED
      BY <2>1, <2>2
  <1>3. \A a, b \in S : f[a] = f[b] => a = b
    BY <1>1
  <1>4. \A j \in T : \E i \in S : f[i] = j
    <2> TAKE j \in T
    <2>1. CASE j < k
      BY <2>1
    <2>2. CASE ~(j < k)
      <3>1. j \in Int /\ j >= k /\ j + 1 \in S /\ ~(j + 1 < k) /\ (j + 1) - 1 = j
        BY <2>2
      <3> QED
        BY <3>1
    <2> QED
      BY <2>1, <2>2
  <1> HIDE DEF f
  <1>5. f \in Bijection(S, T)
    BY <1>2, <1>3, <1>4 DEF Bijection, Injection, Surjection, IsInjective
  <1> QED
    BY <1>5, FS_Bijection DEF ExistsBijection

(* Removing an element of a sequence.                                      *)
Without(s, k) == [i \in 1..(Len(s) - 1) |-> IF i < k THEN s[i] ELSE s[i + 1]]

LEMMA WithoutFacts ==
    ASSUME NEW s \in Seq(Events), NEW k \in DOMAIN s
    PROVE  /\ Without(s, k) \in Seq(Events)
           /\ \A i \in DOMAIN Without(s, k) : \E j \in DOMAIN s : Without(s, k)[i] = s[j]
           /\ \A c : \A i \in Int : i < k => (i \in Where(Without(s, k), c) <=> i \in Where(s, c))
           /\ \A c : \A i \in Int : i >= k => (i \in Where(Without(s, k), c) <=> (i + 1) \in Where(s, c))
           /\ \A c : Num(Without(s, k), c) = Num(s, c) - (IF Tells(s[k], c) THEN 1 ELSE 0)
  <1> DEFINE n == Without(s, k)
  <1>1. Len(s) \in Nat /\ Len(s) > 0 /\ DOMAIN s = 1..Len(s) /\ k \in Int /\ k >= 1 /\ k <= Len(s)
    OBVIOUS
  <1>2. DOMAIN n = 1..(Len(s) - 1) /\ \A i \in 1..(Len(s) - 1) : n[i] = IF i < k THEN s[i] ELSE s[i + 1]
    BY DEF Without
  <1>3. \A i \in 1..(Len(s) - 1) : s[i] \in Events /\ s[i + 1] \in Events /\ i \in DOMAIN s /\ i + 1 \in DOMAIN s
    BY <1>1
  <1>4. n \in Seq(Events)
    BY <1>1, <1>3 DEF Without
  <1> HIDE DEF n
  <1>5. \A i \in DOMAIN n : \E j \in DOMAIN s : n[i] = s[j]
    BY <1>2, <1>3
  <1>6. ASSUME NEW c, NEW i \in Int
        PROVE  /\ i < k => (i \in Where(n, c) <=> i \in Where(s, c))
               /\ i >= k => (i \in Where(n, c) <=> (i + 1) \in Where(s, c))
    <2>1. CASE i < k
      <3>1. i \in DOMAIN n <=> i \in DOMAIN s
        BY <1>1, <1>2, <2>1
      <3> QED
        BY <1>1, <1>2, <2>1, <3>1 DEF Where
    <2>2. CASE i >= k
      <3>1. i \in DOMAIN n <=> i + 1 \in DOMAIN s
        BY <1>1, <1>2, <2>2
      <3> QED
        BY <1>1, <1>2, <2>2, <3>1 DEF Where
    <2> QED
      BY <1>1, <2>1, <2>2
  <1>7. ASSUME NEW c
        PROVE  Num(n, c) = Num(s, c) - (IF Tells(s[k], c) THEN 1 ELSE 0)
    <2> DEFINE S == Where(s, c) \ {k}
               T == Where(n, c)
    <2>1. IsFiniteSet(Where(s, c)) /\ Where(s, c) \subseteq Int /\ Cardinality(Where(s, c)) \in Nat
      BY WhereFacts DEF Num
    <2>2. T \subseteq Int
      BY <1>4, WhereFacts
    <2>3. IsFiniteSet(S) /\ Cardinality(S) = IF k \in Where(s, c) THEN Cardinality(Where(s, c)) - 1 ELSE Cardinality(Where(s, c))
      BY <2>1, FS_RemoveElement
    <2>4. k \in Where(s, c) <=> Tells(s[k], c)
      BY DEF Where
    <2>5. S \subseteq Int /\ k \notin S /\ k \in Int
      BY <2>1, <1>1
    <2>6. \A i \in Int : i < k => (i \in S <=> i \in T)
      BY <1>6, <1>1
    <2>7. \A i \in Int : i >= k => (i \in T <=> (i + 1) \in S)
      BY <1>6, <1>1
    <2>8. Cardinality(T) = Cardinality(S)
      <3> HIDE DEF S, T
      <3> QED
        BY <2>2, <2>3, <2>5, <2>6, <2>7, SkipFacts
    <2> QED
      BY <2>1, <2>3, <2>4, <2>8 DEF Num
  <1> QED
    BY <1>4, <1>5, <1>6, <1>7 DEF n

-----------------------------------------------------------------------------
(* The first event about a challenge.                                      *)

LEMMA LeastNatural ==
    ASSUME NEW T, T \subseteq Nat, T # {}
    PROVE  \E x \in T : \A y \in T : x <= y
  <1> DEFINE R == OpToRel(<, Nat)
  <1>1. IsWellFoundedOn(R, Nat)
    BY NatLessThanWellFounded
  <1>2. \A x, y \in Nat : <<y, x>> \in R <=> y < x
    BY DEF OpToRel
  <1> HIDE DEF R
  <1>3. PICK x \in T : \A y \in T : ~(<<y, x>> \in R)
    BY <1>1, WFMin
  <1>4. \A y \in T : x <= y
    <2> TAKE y \in T
    <2>1. x \in Nat /\ y \in Nat
      OBVIOUS
    <2>2. ~(<<y, x>> \in R)
      BY <1>3
    <2>3. ~(y < x)
      BY <1>2, <2>1, <2>2
    <2> QED
      BY <2>1, <2>3
  <1> QED
    BY <1>4

LEMMA AppendFirst ==
    ASSUME NEW s \in Seq(Events), NEW x \in Events, NEW c
    PROVE  /\ FirstIsNew(s, c) => FirstIsNew(Append(s, x), c)
           /\ Where(s, c) = {} /\ Tells(x, c) /\ ~x.restore => FirstIsNew(Append(s, x), c)
  <1>1. Where(s, c) \subseteq 1..Len(s) /\ Len(s) \in Nat
    BY WhereFacts
  <1>2. \A i \in Where(s, c) : Append(s, x)[i] = s[i] /\ i <= Len(s) + 1 /\ i \in Int
    BY <1>1
  <1>3. Append(s, x)[Len(s) + 1] = x
    OBVIOUS
  <1> QED
    BY <1>1, <1>2, <1>3, AppendNum DEF FirstIsNew

LEMMA TailFirst ==
    ASSUME NEW s \in Seq(Events), s # <<>>, NEW c
    PROVE  /\ FirstIsNew(s, c) /\ ~Tells(Head(s), c) => FirstIsNew(Tail(s), c)
           /\ FirstIsNew(s, c) /\ Tells(Head(s), c) => ~Head(s).restore
           /\ Where(s, c) = {} => Where(Tail(s), c) = {}
  <1>1. /\ \A i \in Int : i \in Where(Tail(s), c) <=> (i + 1) \in Where(s, c) \ {1}
        /\ 1 \in Where(s, c) <=> Tells(Head(s), c)
    BY TailNum
  <1>2. Where(s, c) \subseteq 1..Len(s) /\ Where(Tail(s), c) \subseteq Int /\ Len(s) \in Nat
    <2>1. \A q \in Seq(Events) : Where(q, c) \subseteq 1..Len(q) /\ Where(q, c) \subseteq Int
      BY WhereFacts
    <2>2. Tail(s) \in Seq(Events) /\ Len(s) \in Nat
      BY TailFacts
    <2> QED
      BY <2>1, <2>2
  <1>3. ASSUME FirstIsNew(s, c), ~Tells(Head(s), c)
        PROVE  FirstIsNew(Tail(s), c)
    <2>1. PICK i \in Where(s, c) : ~s[i].restore /\ \A j \in Where(s, c) : i <= j
      BY <1>3 DEF FirstIsNew
    <2>2. i - 1 \in Int /\ (i - 1) + 1 = i /\ i # 1 /\ i \in 1..Len(s)
      BY <1>1, <1>2, <1>3
    <2>3. i - 1 \in Where(Tail(s), c)
      BY <1>1, <2>1, <2>2
    <2>4. Tail(s)[i - 1] = s[i]
      BY <2>2, <2>3, TailFacts DEF Where
    <2>5. \A j \in Where(Tail(s), c) : i - 1 <= j
      <3> TAKE j \in Where(Tail(s), c)
      <3>1. j \in Int /\ j + 1 \in Where(s, c)
        BY <1>1, <1>2
      <3> QED
        BY <2>1, <2>2, <3>1
    <2> QED
      BY <2>1, <2>3, <2>4, <2>5 DEF FirstIsNew
  <1>4. ASSUME FirstIsNew(s, c), Tells(Head(s), c)
        PROVE  ~Head(s).restore
    <2>1. PICK i \in Where(s, c) : ~s[i].restore /\ \A j \in Where(s, c) : i <= j
      BY <1>4 DEF FirstIsNew
    <2>2. i = 1
      BY <1>1, <1>2, <1>4, <2>1
    <2> QED
      BY <2>1, <2>2, TailFacts
  <1>5. Where(s, c) = {} => Where(Tail(s), c) = {}
    BY <1>1, <1>2
  <1> QED
    BY <1>3, <1>4, <1>5

LEMMA ConsFirst ==
    ASSUME NEW s \in Seq(Events), NEW x \in Events, NEW c, ~Tells(x, c)
    PROVE  /\ FirstIsNew(s, c) => FirstIsNew(<<x>> \o s, c)
           /\ Where(s, c) = {} => Where(<<x>> \o s, c) = {}
  <1> DEFINE n == <<x>> \o s
  <1>1. /\ n \in Seq(Events) /\ 1 \notin Where(n, c)
        /\ \A i \in Int : i \in Where(s, c) <=> (i + 1) \in Where(n, c)
    BY ConsNum
  <1>2. \A k \in 1..Len(s) : n[k + 1] = s[k]
    OBVIOUS
  <1> HIDE DEF n
  <1>3. Where(s, c) \subseteq 1..Len(s) /\ Len(s) \in Nat
    BY WhereFacts
  <1>4. Where(n, c) \subseteq Int
    BY <1>1, WhereFacts
  <1>5. \A j \in Where(n, c) : j - 1 \in Int /\ j - 1 \in Where(s, c)
    <2> TAKE j \in Where(n, c)
    <2>1. j - 1 \in Int /\ (j - 1) + 1 = j
      BY <1>4
    <2> QED
      BY <1>1, <2>1
  <1>6. ASSUME FirstIsNew(s, c)
        PROVE  FirstIsNew(n, c)
    <2>1. PICK i \in Where(s, c) : ~s[i].restore /\ \A j \in Where(s, c) : i <= j
      BY <1>6 DEF FirstIsNew
    <2>2. i \in Int /\ i \in 1..Len(s)
      BY <1>3
    <2>3. i + 1 \in Where(n, c) /\ n[i + 1] = s[i]
      BY <1>1, <1>2, <2>2
    <2>4. \A j \in Where(n, c) : i + 1 <= j
      BY <1>4, <1>5, <2>1, <2>2
    <2> QED
      BY <2>1, <2>3, <2>4 DEF FirstIsNew
  <1>7. Where(s, c) = {} => Where(n, c) = {}
    BY <1>5
  <1> QED
    BY <1>6, <1>7 DEF n

LEMMA WithoutFirst ==
    ASSUME NEW s \in Seq(Events), NEW k \in DOMAIN s, NEW c, ~Tells(s[k], c)
    PROVE  /\ FirstIsNew(s, c) => FirstIsNew(Without(s, k), c)
           /\ Where(s, c) = {} => Where(Without(s, k), c) = {}
  <1> DEFINE n == Without(s, k)
  <1>1. /\ n \in Seq(Events)
        /\ \A i \in Int : i < k => (i \in Where(n, c) <=> i \in Where(s, c))
        /\ \A i \in Int : i >= k => (i \in Where(n, c) <=> (i + 1) \in Where(s, c))
    BY WithoutFacts
  <1>2. DOMAIN n = 1..(Len(s) - 1) /\ \A i \in 1..(Len(s) - 1) : n[i] = IF i < k THEN s[i] ELSE s[i + 1]
    BY DEF Without
  <1> HIDE DEF n
  <1>3. Where(s, c) \subseteq 1..Len(s) /\ Where(n, c) \subseteq Int /\ Where(n, c) \subseteq DOMAIN n /\ Len(s) \in Nat
        /\ k \in Int /\ k \notin Where(s, c)
    BY <1>1, WhereFacts DEF Where
  <1>4. ASSUME FirstIsNew(s, c)
        PROVE  FirstIsNew(n, c)
    <2>1. PICK i \in Where(s, c) : ~s[i].restore /\ \A j \in Where(s, c) : i <= j
      BY <1>4 DEF FirstIsNew
    <2>2. i \in Int /\ i # k
      BY <1>3
    <2>3. PICK m \in Int : m \in Where(n, c) /\ n[m] = s[i] /\ m = (IF i < k THEN i ELSE i - 1)
      <3>1. CASE i < k
        BY <1>1, <1>2, <1>3, <2>2, <3>1
      <3>2. CASE ~(i < k)
        <4>1. i - 1 \in Int /\ (i - 1) + 1 = i /\ i - 1 >= k
          BY <2>2, <3>2, <1>3
        <4>2. i - 1 \in Where(n, c)
          BY <1>1, <4>1, <2>1
        <4> QED
          BY <1>2, <1>3, <4>1, <4>2, <3>2
      <3> QED
        BY <3>1, <3>2
    <2>4. \A j \in Where(n, c) : m <= j
      <3> TAKE j \in Where(n, c)
      <3>1. j \in Int
        BY <1>3
      <3>2. CASE j < k
        <4>1. i <= j
          BY <1>1, <2>1, <3>1, <3>2
        <4> QED
          BY <4>1, <3>1, <3>2, <2>2, <2>3, <1>3
      <3>3. CASE ~(j < k)
        <4>1. i <= j + 1
          BY <1>1, <2>1, <3>1, <3>3, <1>3
        <4> QED
          BY <4>1, <3>1, <3>3, <2>2, <2>3, <1>3
      <3> QED
        BY <3>2, <3>3
    <2> QED
      BY <2>1, <2>3, <2>4 DEF FirstIsNew
  <1>5. Where(s, c) = {} => Where(n, c) = {}
    BY <1>1, <1>3
  <1> QED
    BY <1>4, <1>5 DEF n

-----------------------------------------------------------------------------
(* What a step takes from the net and what it sends.                       *)

Moved(G, S) ==
    /\ IsABag(net') /\ G \subseteq BagToSet(net)
    /\ \A f : Copies(f, net') = Copies(f, net) - (IF f \in G THEN 1 ELSE 0) + (IF f \in S THEN 1 ELSE 0)

LEMMA MovedBy ==
    ASSUME IsABag(net)
    PROVE  /\ UNCHANGED net => Moved({}, {})
           /\ \A r : net' = Put(net, r) => Moved({}, {r})
           /\ \A e \in BagToSet(net) : net' = Take(net, e) => Moved({e}, {})
           /\ \A e \in BagToSet(net) : \A g : net' = Swap(net, e, g) => Moved({e}, {g})
           /\ \A S : net' = net (+) SetToBag(S) => Moved({}, S)
           /\ \A e \in BagToSet(net) : \A S : net' = Take(net, e) (+) SetToBag(S) => Moved({e}, S)
  <1>1. \A f : Copies(f, net) \in Nat
    BY CopiesFacts
  <1>2. UNCHANGED net => Moved({}, {})
    BY <1>1 DEF Moved
  <1>3. ASSUME NEW r, net' = Put(net, r)
        PROVE  Moved({}, {r})
    BY <1>1, <1>3, PutFacts DEF Moved
  <1>4. ASSUME NEW e \in BagToSet(net), net' = Take(net, e)
        PROVE  Moved({e}, {})
    BY <1>1, <1>4, TakeFacts DEF Moved
  <1>5. ASSUME NEW e \in BagToSet(net), NEW g, net' = Swap(net, e, g)
        PROVE  Moved({e}, {g})
    BY <1>1, <1>5, SwapFacts DEF Moved
  <1>6. ASSUME NEW S, net' = net (+) SetToBag(S)
        PROVE  Moved({}, S)
    BY <1>1, <1>6, AddFacts DEF Moved
  <1>7. ASSUME NEW e \in BagToSet(net), NEW S, net' = Take(net, e) (+) SetToBag(S)
        PROVE  Moved({e}, S)
    <2> DEFINE b == Take(net, e)
    <2>1. IsABag(b) /\ \A f : Copies(f, b) = Copies(f, net) - (IF f = e THEN 1 ELSE 0)
      BY TakeFacts
    <2> HIDE DEF b
    <2>2. IsABag(b (+) SetToBag(S)) /\ \A f : Copies(f, b (+) SetToBag(S)) = Copies(f, b) + (IF f \in S THEN 1 ELSE 0)
      BY <2>1, AddFacts
    <2>3. net' = b (+) SetToBag(S)
      BY <1>7 DEF b
    <2> QED
      BY <1>1, <2>1, <2>2, <2>3 DEF Moved
  <1> QED
    BY <1>2, <1>3, <1>4, <1>5, <1>6, <1>7

LEMMA MovedFacts ==
    ASSUME IsABag(net), NEW G, NEW S, Moved(G, S)
    PROVE  /\ IsABag(net') /\ BagToSet(net') \subseteq BagToSet(net) \cup S /\ S \subseteq BagToSet(net')
           /\ \A f \in BagToSet(net) : f \notin G => f \in BagToSet(net')
           /\ \A f : f \notin G /\ f \notin S => Copies(f, net') = Copies(f, net) /\ (f \in BagToSet(net') <=> f \in BagToSet(net))
  <1>1. \A f : Copies(f, net) \in Nat /\ (f \in BagToSet(net) <=> Copies(f, net) > 0)
    BY CopiesFacts
  <1>2. \A f : Copies(f, net') \in Nat /\ (f \in BagToSet(net') <=> Copies(f, net') > 0)
    BY CopiesFacts DEF Moved
  <1>3. \A f : Copies(f, net') = Copies(f, net) - (IF f \in G THEN 1 ELSE 0) + (IF f \in S THEN 1 ELSE 0)
    BY DEF Moved
  <1>4. \A f \in G : Copies(f, net) > 0
    BY <1>1 DEF Moved
  <1>5. \A f \in BagToSet(net') : f \in BagToSet(net) \/ f \in S
    BY <1>1, <1>2, <1>3
  <1>6. \A f \in S : f \in BagToSet(net')
    BY <1>1, <1>2, <1>3, <1>4
  <1>7. \A f \in BagToSet(net) : f \notin G => f \in BagToSet(net')
    BY <1>1, <1>2, <1>3
  <1>8. \A f : f \notin G /\ f \notin S => Copies(f, net') = Copies(f, net) /\ (f \in BagToSet(net') <=> f \in BagToSet(net))
    BY <1>1, <1>2, <1>3
  <1> QED
    BY <1>5, <1>6, <1>7, <1>8 DEF Moved

(* The promises to save a challenge.                                       *)
Promises(w, c) == Copies(Promise(c, TRUE), w) + Copies(Promise(c, FALSE), w)

LEMMA PromisesFacts ==
    ASSUME NEW w, IsABag(w), NEW c
    PROVE  Promises(w, c) \in Nat
  <1> DEFINE p == Copies(Promise(c, TRUE), w)
             q == Copies(Promise(c, FALSE), w)
  <1>1. p \in Nat /\ q \in Nat
    BY CopiesFacts
  <1>2. Promises(w, c) = p + q
    BY DEF Promises
  <1> HIDE DEF p, q
  <1> QED
    BY <1>1, <1>2

(* Steps that add no notification, event or confirmation.                  *)
LEMMA NotifKept ==
    ASSUME BInv, BInv', NotifInv, NEW G, NEW S, Moved(G, S), \A f \in G \cup S : f.op # "ack",
           UNCHANGED <<notifs, conn>>, \A c \in Challenges : db'[c].solved = db[c].solved,
           times' \in [Challenges -> Nat],
           \A c \in Challenges : /\ times[c] <= times'[c] /\ (cache'[c] => cache[c] \/ times'[c] >= 1)
                                 /\ Promises(work', c) - Promises(work, c) <= times'[c] - times[c],
           \A t \in Tabs, c \in Challenges : Num(sock'[t], c) = Num(sock[t], c)
    PROVE  NotifInv'
  <1>1. IsABag(net) /\ IsABag(work) /\ IsABag(work)' /\ IsABag(net')
    BY DEF BInv, Types, WireTypes, WorkTypes
  <1>2. \A c \in Challenges : times[c] \in Nat /\ times'[c] \in Nat
    BY DEF NotifInv
  <1>3. \A c \in Challenges : Promises(work, c) \in Nat /\ Promises(work', c) \in Nat
    BY <1>1, PromisesFacts
  <1>4. Calls'
    <2> SUFFICES ASSUME NEW c \in Challenges
                 PROVE  /\ cache'[c] => times'[c] >= 1
                        /\ Promises(work', c) + (IF db'[c].solved THEN 1 ELSE 0) <= times'[c]
                        /\ times'[c] <= 1 /\ ~db'[c].solved => Where(notifs', c) = {}
      BY DEF Calls, Promises, Promise
    <2>1. /\ cache[c] => times[c] >= 1
          /\ Promises(work, c) + (IF db[c].solved THEN 1 ELSE 0) <= times[c]
          /\ times[c] <= 1 /\ ~db[c].solved => Where(notifs, c) = {}
      BY DEF NotifInv, Calls, Promises, Promise
    <2>2. Promises(work, c) \in Nat /\ Promises(work', c) \in Nat
      BY <1>3
    <2> QED
      BY <1>2, <2>1, <2>2
  <1>5. AcksAreRequests'
    BY <1>1, MovedFacts DEF NotifInv, AcksAreRequests, Ack, Req, NoRows
  <1>6. OnlySolved'
    BY DEF NotifInv, OnlySolved
  <1>7. ASSUME NEW t \in Tabs, NEW c \in Challenges, conn'[t], times'[c] <= 1
        PROVE  Num(notifs', c) <= Num(sock'[t], c) + Copies(Ack(t, c), net')
    <2>1. Ack(t, c).op = "ack"
      BY DEF Ack, Req
    <2>2. Copies(Ack(t, c), net') = Copies(Ack(t, c), net)
      BY <1>1, <2>1, MovedFacts
    <2>3. times[c] <= 1
      BY <1>2, <1>7
    <2>4. Num(notifs, c) <= Num(sock[t], c) + Copies(Ack(t, c), net)
      BY <1>7, <2>3 DEF NotifInv, Awaited
    <2> QED
      BY <2>2, <2>4
  <1>8. Awaited'
    BY <1>7 DEF Awaited, Ack, Req, NoRows
  <1> QED
    BY <1>4, <1>5, <1>6, <1>8 DEF NotifInv

(* Steps that leave the codes and the events about challenges alone.       *)
SameEvents(new, old) ==
    \A c \in Challenges :
        (Where(old, c) = {} => Where(new, c) = {}) /\ (FirstIsNew(old, c) => FirstIsNew(new, c))

LEMMA CookieKept ==
    ASSUME BInv, BInv', CookieInv, NEW G, NEW S, Moved(G, S), \A f \in G \cup S : f.op \notin {"code", "ack", "restore"},
           UNCHANGED <<cache, notifs, conn, restarts>>, \A c \in Challenges : db'[c].solved = db[c].solved,
           parallel => parallel', cookie'.hack = cookie.hack,
           \A c \in Challenges, b \in BOOLEAN : Promise(c, b) \in BagToSet(work') <=> Promise(c, b) \in BagToSet(work),
           \A t \in Tabs : SameEvents(sock'[t], sock[t])
    PROVE  CookieInv'
  <1> SUFFICES ASSUME restarts = 0, ~parallel
               PROVE  /\ LoneCode' /\ CodesGrow'
                      /\ \A c \in Challenges :
                          /\ cache'[c] => Covered(c)' \/ (Calm(c)' /\ (Told(c)' \/ (Unheard(c)' /\ Promised(c)')))
                          /\ ~cache'[c] => Calm(c)' /\ Unheard(c)' /\ ~Promised(c)'
    BY DEF CookieInv
  <1>1. IsABag(net) /\ IsABag(net')
    BY DEF BInv, Types, WireTypes
  <1>2. /\ BagToSet(net') \subseteq BagToSet(net) \cup S
        /\ \A f : f.op \in {"code", "ack", "restore"} =>
              Copies(f, net') = Copies(f, net) /\ (f \in BagToSet(net') <=> f \in BagToSet(net))
    BY <1>1, MovedFacts
  <1>3. LoneCode'
    BY <1>2 DEF CookieInv, LoneCode
  <1>4. CodesGrow'
    BY <1>2 DEF CookieInv, CodesGrow, Cached
  <1>5. ASSUME NEW c \in Challenges
        PROVE  /\ Covered(c) => Covered(c)'
               /\ Calm(c) => Calm(c)'
               /\ Told(c) => Told(c)'
               /\ Unheard(c) => Unheard(c)'
               /\ Promised(c) <=> Promised(c)'
    <2>1. Covered(c) => Covered(c)'
      BY <1>2 DEF Covered
    <2>2. Calm(c) => Calm(c)'
      BY <1>2 DEF Calm, Promise
    <2>3. Told(c) => Told(c)'
      BY DEF Told, SameEvents
    <2>4. Unheard(c) => Unheard(c)'
      BY DEF Unheard, SameEvents
    <2>5. Promised(c) <=> Promised(c)'
      BY DEF Promised, Promise
    <2> QED
      BY <2>1, <2>2, <2>3, <2>4, <2>5
  <1>6. \A c \in Challenges :
            /\ cache[c] => Covered(c) \/ (Calm(c) /\ (Told(c) \/ (Unheard(c) /\ Promised(c))))
            /\ ~cache[c] => Calm(c) /\ Unheard(c) /\ ~Promised(c)
    BY DEF CookieInv
  <1> QED
    BY <1>3, <1>4, <1>5, <1>6

LEMMA SameSockets ==
    ASSUME UNCHANGED sock
    PROVE  /\ \A t \in Tabs : SameEvents(sock'[t], sock[t])
           /\ \A t \in Tabs, c \in Challenges : Num(sock'[t], c) = Num(sock[t], c)
  BY DEF SameEvents

(* Steps that leave the rows, the boards and the events alone.             *)
LEMMA PhasesKept ==
    ASSUME BInv, UNCHANGED db, NEW G, NEW S, Moved(G, S), PhasesApart,
           \A s \in S : s.op \in {"lines", "fix"} =>
               \E e \in BagToSet(net) : e.op = s.op /\ e.c = s.c /\ (s.at # "ans" => e.at # "ans")
    PROVE  PhasesApart'
  <1>1. IsABag(net)
    BY DEF BInv, Types, WireTypes
  <1>2. BagToSet(net') \subseteq BagToSet(net) \cup S
    BY <1>1, MovedFacts
  <1> QED
    BY <1>2 DEF PhasesApart

LEMMA BoardKept ==
    ASSUME BInv, BInv', BoardInv, UNCHANGED <<restarts, conn, db, sock, board>>,
           \A t \in Tabs : crossed[t] => crossed'[t],
           NEW G, NEW S, Moved(G, S), \A g \in G : g.op \in {"lines", "fix"} => g.at # "score",
           \A s \in S : /\ s.op \in {"board", "hint"} => conn[s.t] \/ crossed'[s.t]
                        /\ s.op = "board" /\ s.at = "ans" => s.rows = db,
           \A t \in Tabs : ~crossed'[t] => PhasesApart' /\ OldCookie' /\ \A s \in S : OldPhases(s)
    PROVE  BoardInv'
  <1>1. IsABag(net)
    BY DEF BInv, Types, WireTypes
  <1>2. /\ BagToSet(net') \subseteq BagToSet(net) \cup S
        /\ \A f \in BagToSet(net) : f.op \in {"lines", "fix"} /\ f.at = "score" => f \in BagToSet(net')
    BY <1>1, MovedFacts
  <1>3. Connected'
    BY <1>2 DEF BoardInv, Connected, InFlight
  <1>4. \A c, code : UpToDate(c, code) => UpToDate(c, code)'
    BY <1>2 DEF UpToDate, ScorePending
  <1>5. \A rows, s : Mirrors(rows, s) => Mirrors(rows, s)'
    BY <1>4 DEF Mirrors, NoCode
  <1>6. \A c, s : LastIsCurrent(s, c) => LastIsCurrent(s, c)'
    BY <1>4 DEF LastIsCurrent
  <1>7. ASSUME NEW t \in Tabs, ~crossed'[t]
        PROVE  TabMirrors(t)' /\ \A e \in BagToSet(net') : OldPhases(e)'
    <2>1. ~crossed[t]
      BY <1>7
    <2>2. TabMirrors(t) /\ \A e \in BagToSet(net) : OldPhases(e)
      BY <2>1 DEF BoardInv
    <2>3. \A q : Mirrors(db, q)'
      BY DEF Mirrors, UpToDate
    <2>4. TabMirrors(t)'
      BY <1>2, <1>5, <1>6, <2>2, <2>3 DEF TabMirrors
    <2>5. \A e : OldPhases(e) => OldPhases(e)'
      BY DEF OldPhases
    <2> QED
      BY <1>2, <1>7, <2>2, <2>4, <2>5
  <1> QED
    BY <1>3, <1>7 DEF BoardInv

-----------------------------------------------------------------------------
(* The handlers of the server.                                             *)

LEMMA BInvFacts ==
    ASSUME BInv
    PROVE  /\ IsABag(net) /\ BagToSet(net) \subseteq Messages /\ IsABag(work) /\ BagToSet(work) \subseteq Works
           /\ db \in Rows /\ cache \in [Challenges -> BOOLEAN] /\ notifs \in Seq(Events) /\ restarts \in Nat
           /\ sock \in [Tabs -> Seq(Events)] /\ conn \in [Tabs -> BOOLEAN] /\ crossed \in [Tabs -> BOOLEAN]
           /\ \A e \in BagToSet(net) : MessageIsTrue(e)
           /\ \A c \in Challenges : db[c].solved \in BOOLEAN /\ db[c].code \in 0..2
  BY DEF BInv, Types, WireTypes, WorkTypes, ServerTypes, TabTypes, MessagesAreTrue, Rows, ChallengeTable

LEMMA HandleMoved ==
    ASSUME BInv, NEW e \in BagToSet(net), Handle(e)
    PROVE  \E S : Moved({e}, S) /\ \A g \in S : Follows(e, g)
  <1>1. Exchange(e)
    BY HandleNet, BInvFacts DEF BInv
  <1>2. CASE net' = Take(net, e)
    <2>1. Moved({e}, {})
      BY <1>2, MovedBy, BInvFacts
    <2> QED
      BY <2>1
  <1>3. CASE \E g : Succeeds(e, g) /\ net' = Swap(net, e, g)
    <2>1. PICK g : Succeeds(e, g) /\ net' = Swap(net, e, g)
      BY <1>3
    <2>2. Moved({e}, {g})
      BY <2>1, MovedBy, BInvFacts
    <2>3. \A f \in {g} : Follows(e, f)
      BY <2>1 DEF Succeeds
    <2> QED
      BY <2>2, <2>3
  <1> QED
    BY <1>1, <1>2, <1>3 DEF Exchange

(* An event of another kind leaves the events about challenges alone.      *)
LEMMA EmitOther ==
    ASSUME sock \in [Tabs -> Seq(Events)], NEW x \in Events, x.ev # "solved", sock' = Emit(x)
    PROVE  /\ \A t \in Tabs : SameEvents(sock'[t], sock[t])
           /\ \A t \in Tabs, c \in Challenges : Num(sock'[t], c) = Num(sock[t], c)
  <1>1. \A c : ~Tells(x, c)
    BY DEF Tells
  <1>2. ASSUME NEW t \in Tabs, NEW c \in Challenges
        PROVE  /\ Where(sock[t], c) = {} => Where(sock'[t], c) = {}
               /\ FirstIsNew(sock[t], c) => FirstIsNew(sock'[t], c)
               /\ Num(sock'[t], c) = Num(sock[t], c)
    <2>1. sock[t] \in Seq(Events)
      OBVIOUS
    <2>2. CASE sock'[t] = sock[t]
      BY <2>2
    <2>3. CASE sock'[t] = Append(sock[t], x)
      <3>1. \A q \in Seq(Events) : Where(Append(q, x), c) = Where(q, c)
        BY <1>1, AppendOther
      <3>2. \A q \in Seq(Events) : FirstIsNew(q, c) => FirstIsNew(Append(q, x), c)
        BY AppendFirst
      <3> QED
        BY <2>1, <2>3, <3>1, <3>2 DEF Num
    <2> QED
      BY <2>2, <2>3 DEF Emit
  <1> QED
    BY <1>2 DEF SameEvents

(* The handlers that are about neither notifications nor restoring.        *)
Plain(e) ==
    \/ listChallenges(e) \/ continueCode(e) \/ continueCodeFindIt(e) \/ continueCodeFixIt(e)
    \/ restoreProgressFindIt(e) \/ restoreProgressFixIt(e) \/ putHint(e)
    \/ findFilesWithCodeChallenges(e) \/ serveCodeSnippet(e) \/ serveCodeFixes(e)
    \/ checkVulnLines(e) \/ solveFindIt(e) \/ calculateFindItCheatScore(e)
    \/ checkCorrectFix(e) \/ solveFixIt(e) \/ calculateFixItCheatScore(e)

LEMMA PlainFacts ==
    ASSUME BInv, NEW e \in BagToSet(net), Plain(e)
    PROVE  /\ Handle(e) /\ UNCHANGED <<cache, times, notifs, conn, work, restarts>>
           /\ e.op \notin {"ack", "restore"} /\ (e.op = "code" => continueCode(e))
           /\ \A c \in Challenges : db'[c].solved = db[c].solved
           /\ UNCHANGED sock \/ \E x \in Events : x.ev = "code" /\ sock' = Emit(x)
  <1>1. Handle(e)
    BY DEF Plain, Handle
  <1>2. e \in Messages /\ MessageIsTrue(e) /\ db \in Rows
    BY BInvFacts
  <1>3. UNCHANGED <<cache, times, notifs, conn, work, restarts>>
    BY DEF Plain, listChallenges, continueCode, continueCodeFindIt, continueCodeFixIt, restoreProgressFindIt,
           restoreProgressFixIt, putHint, findFilesWithCodeChallenges, serveCodeSnippet, serveCodeFixes, checkVulnLines,
           solveFindIt, calculateFindItCheatScore, checkCorrectFix, solveFixIt, calculateFixItCheatScore, svars, hist
  <1>4. e.op \notin {"ack", "restore"} /\ (e.op = "code" => continueCode(e))
    BY <1>2
       DEF Plain, listChallenges, continueCode, continueCodeFindIt, continueCodeFixIt, restoreProgressFindIt,
           restoreProgressFixIt, putHint, findFilesWithCodeChallenges, serveCodeSnippet, serveCodeFixes, checkVulnLines,
           solveFindIt, calculateFindItCheatScore, checkCorrectFix, solveFixIt, calculateFixItCheatScore,
           MessageIsTrue, WaitsForSnippets
  <1>5. \A c \in Challenges : db'[c].solved = db[c].solved
    <2>1. UNCHANGED db \/ \E c \in Challenges : FindIt(c) \/ FixIt(c)
      <3>1. e.c \in Challenges /\ e.v \subseteq Challenges
        BY <1>2 DEF Messages
      <3>2. CASE restoreProgressFindIt(e) \/ restoreProgressFixIt(e)
        BY <3>1, <3>2 DEF restoreProgressFindIt, restoreProgressFixIt
      <3>3. CASE solveFindIt(e) \/ solveFixIt(e)
        BY <3>1, <3>3 DEF solveFindIt, solveFixIt
      <3>4. CASE ~(restoreProgressFindIt(e) \/ restoreProgressFixIt(e) \/ solveFindIt(e) \/ solveFixIt(e))
        BY <3>4
        DEF Plain, listChallenges, continueCode, continueCodeFindIt, continueCodeFixIt, putHint,
            findFilesWithCodeChallenges, serveCodeSnippet, serveCodeFixes, checkVulnLines,
            calculateFindItCheatScore, checkCorrectFix, calculateFixItCheatScore, svars
      <3> QED
        BY <3>2, <3>3, <3>4
    <2>2. CASE UNCHANGED db
      BY <2>2
    <2>3. ASSUME NEW c \in Challenges, FindIt(c) \/ FixIt(c)
          PROVE  \A d \in Challenges : db'[d].solved = db[d].solved
      BY <1>2, <2>3 DEF FindIt, FixIt, Rows, ChallengeTable
    <2> QED
      BY <2>1, <2>2, <2>3
  <1>6. UNCHANGED sock \/ \E x \in Events : x.ev = "code" /\ sock' = Emit(x)
    <2>1. CASE calculateFindItCheatScore(e) \/ calculateFixItCheatScore(e)
      <3>1. PICK k \in {1, 2} : sock' = Emit(CodeEvent(e.c, k))
        BY <2>1 DEF calculateFindItCheatScore, calculateFixItCheatScore, sendCodingChallengeNotification
      <3>2. e.c \in Challenges
        BY <1>2 DEF Messages
      <3>3. CodeEvent(e.c, k) \in Events /\ CodeEvent(e.c, k).ev = "code"
        BY <3>2 DEF CodeEvent, Events
      <3> QED
        BY <3>1, <3>3
    <2>2. CASE ~(calculateFindItCheatScore(e) \/ calculateFixItCheatScore(e))
      BY <2>2
      DEF Plain, listChallenges, continueCode, continueCodeFindIt, continueCodeFixIt, restoreProgressFindIt,
          restoreProgressFixIt, putHint, findFilesWithCodeChallenges, serveCodeSnippet, serveCodeFixes, checkVulnLines,
          solveFindIt, checkCorrectFix, solveFixIt
    <2> QED
      BY <2>1, <2>2
  <1> QED
    BY <1>1, <1>3, <1>4, <1>5, <1>6

LEMMA PlainSockets ==
    ASSUME BInv, UNCHANGED sock \/ \E x \in Events : x.ev = "code" /\ sock' = Emit(x)
    PROVE  /\ \A t \in Tabs : SameEvents(sock'[t], sock[t])
           /\ \A t \in Tabs, c \in Challenges : Num(sock'[t], c) = Num(sock[t], c)
  <1>1. CASE UNCHANGED sock
    BY <1>1, SameSockets
  <1>2. ASSUME NEW x \in Events, x.ev = "code", sock' = Emit(x)
        PROVE  /\ \A t \in Tabs : SameEvents(sock'[t], sock[t])
               /\ \A t \in Tabs, c \in Challenges : Num(sock'[t], c) = Num(sock[t], c)
    BY <1>2, EmitOther, BInvFacts
  <1> QED
    BY <1>1, <1>2

LEMMA PlainNotif ==
    ASSUME BInv, BInv', NotifInv, NEW e \in BagToSet(net), Plain(e)
    PROVE  NotifInv'
  <1>1. PICK S : Moved({e}, S) /\ \A g \in S : Follows(e, g)
    BY PlainFacts, HandleMoved
  <1>2. \A f \in {e} \cup S : f.op # "ack"
    BY <1>1, PlainFacts DEF Follows
  <1>3. \A c \in Challenges : /\ times[c] <= times'[c] /\ (cache'[c] => cache[c] \/ times'[c] >= 1)
                              /\ Promises(work', c) - Promises(work, c) <= times'[c] - times[c]
    <2>1. UNCHANGED <<cache, times, work>> /\ IsABag(work)
      BY PlainFacts, BInvFacts
    <2>2. \A c \in Challenges : Promises(work, c) \in Nat /\ times[c] \in Nat
      BY <2>1, PromisesFacts DEF NotifInv
    <2> QED
      BY <2>1, <2>2
  <1>4. UNCHANGED <<notifs, conn>> /\ times' \in [Challenges -> Nat] /\ \A c \in Challenges : db'[c].solved = db[c].solved
    BY PlainFacts DEF NotifInv
  <1>5. \A t \in Tabs, c \in Challenges : Num(sock'[t], c) = Num(sock[t], c)
    BY PlainFacts, PlainSockets
  <1> QED
    BY <1>1, <1>2, <1>3, <1>4, <1>5, NotifKept

LEMMA PlainCookie ==
    ASSUME BInv, BInv', CookieInv, NEW e \in BagToSet(net), Plain(e), ~continueCode(e), UNCHANGED cvars
    PROVE  CookieInv'
  <1>1. PICK S : Moved({e}, S) /\ \A g \in S : Follows(e, g)
    BY PlainFacts, HandleMoved
  <1>2. \A f \in {e} \cup S : f.op \notin {"code", "ack", "restore"}
    BY <1>1, PlainFacts DEF Follows
  <1>3. UNCHANGED <<cache, notifs, conn, restarts, work>> /\ \A c \in Challenges : db'[c].solved = db[c].solved
    BY PlainFacts
  <1>4. \A t \in Tabs : SameEvents(sock'[t], sock[t])
    BY PlainFacts, PlainSockets
  <1>5. UNCHANGED <<parallel, cookie>>
    BY DEF cvars
  <1> QED
    BY <1>1, <1>2, <1>3, <1>4, <1>5, CookieKept

-----------------------------------------------------------------------------
(* Notifications.                                                          *)

(* A notification that is sent.                                            *)
LEMMA SendNum ==
    ASSUME BInv, NEW c \in Challenges, NEW b \in BOOLEAN, sendNotification(c, b), OnlySolved
    PROVE  LET out == b \/ Where(notifs, c) = {} IN
           /\ SolvedEvent(c, b) \in Events /\ notifs' = Append(notifs, SolvedEvent(c, b))
           /\ sock' = IF out THEN Emit(SolvedEvent(c, b)) ELSE sock
           /\ OnlySolved'
           /\ \A d \in Challenges : Num(notifs', d) = Num(notifs, d) + (IF d = c THEN 1 ELSE 0)
           /\ \A d \in Challenges : d # c => Where(notifs', d) = Where(notifs, d)
           /\ \A t \in Tabs, d \in Challenges :
                 Num(sock'[t], d) = Num(sock[t], d) + (IF d = c /\ conn[t] /\ out THEN 1 ELSE 0)
  <1> DEFINE x == SolvedEvent(c, b)
             out == b \/ Where(notifs, c) = {}
  <1>1. x \in Events /\ \A d : Tells(x, d) <=> d = c
    BY DEF SolvedEvent, Events, Tells
  <1>2. notifs \in Seq(Events) /\ sock \in [Tabs -> Seq(Events)]
    BY BInvFacts
  <1>3. (\A i \in DOMAIN notifs : notifs[i].c # c) <=> Where(notifs, c) = {}
    BY DEF OnlySolved, Where, Tells
  <1>4. notifs' = Append(notifs, x) /\ sock' = IF out THEN Emit(x) ELSE sock
    BY <1>3 DEF sendNotification
  <1>5. x.ev = "solved"
    BY DEF SolvedEvent
  <1> HIDE DEF x, out
  <1>6. OnlySolved'
    <2>1. \A i \in DOMAIN Append(notifs, x) : Append(notifs, x)[i] = x \/ (i \in DOMAIN notifs /\ Append(notifs, x)[i] = notifs[i])
      BY <1>1, <1>2
    <2> QED
      BY <1>4, <1>5, <2>1 DEF OnlySolved
  <1>7. \A q \in Seq(Events), d \in Challenges :
            /\ Num(q, d) \in Nat
            /\ Num(Append(q, x), d) = Num(q, d) + (IF d = c THEN 1 ELSE 0)
            /\ d # c => Where(Append(q, x), d) = Where(q, d)
    <2> TAKE q \in Seq(Events), d \in Challenges
    <2>1. Num(q, d) \in Nat
      BY WhereFacts
    <2>2. CASE d = c
      BY <1>1, <2>1, <2>2, AppendNum
    <2>3. CASE d # c
      <3>1. ~Tells(x, d)
        BY <1>1, <2>3
      <3>2. Where(Append(q, x), d) = Where(q, d) /\ Num(Append(q, x), d) = Num(q, d)
        BY <1>1, <3>1, AppendOther
      <3> QED
        BY <2>1, <2>3, <3>2
    <2> QED
      BY <2>2, <2>3
  <1>8. ASSUME NEW t \in Tabs, NEW d \in Challenges
        PROVE  Num(sock'[t], d) = Num(sock[t], d) + (IF d = c /\ conn[t] /\ out THEN 1 ELSE 0)
    <2>1. sock[t] \in Seq(Events) /\ Num(sock[t], d) \in Nat
      BY <1>2, <1>7
    <2>2. CASE out /\ conn[t]
      <3>1. sock'[t] = Append(sock[t], x)
        BY <1>4, <2>2 DEF Emit
      <3> QED
        BY <1>7, <2>1, <2>2, <3>1
    <2>3. CASE ~(out /\ conn[t])
      <3>1. sock'[t] = sock[t]
        BY <1>4, <2>3 DEF Emit
      <3> QED
        BY <2>1, <2>3, <3>1
    <2> QED
      BY <2>2, <2>3
  <1>9. /\ \A d \in Challenges : Num(notifs', d) = Num(notifs, d) + (IF d = c THEN 1 ELSE 0)
        /\ \A d \in Challenges : d # c => Where(notifs', d) = Where(notifs, d)
    BY <1>2, <1>4, <1>7
  <1> QED
    BY <1>1, <1>4, <1>6, <1>8, <1>9 DEF x, out

(* A promise that is kept.                                                 *)
LEMMA SavedPromise ==
    ASSUME BInv, NEW e \in BagToSet(work), saved(e)
    PROVE  /\ e.c \in Challenges /\ e.restore \in BOOLEAN /\ e = Promise(e.c, e.restore)
           /\ \A c \in Challenges, b \in BOOLEAN :
                 Copies(Promise(c, b), work') = Copies(Promise(c, b), work) - (IF Promise(c, b) = e THEN 1 ELSE 0)
           /\ \A c \in Challenges : Promises(work', c) = Promises(work, c) - (IF c = e.c THEN 1 ELSE 0)
  <1>1. e \in Saves /\ e.op = "save" /\ IsABag(work)
    BY BInvFacts DEF saved, Works, Tokens, Counts
  <1>2. e.c \in Challenges /\ e.restore \in BOOLEAN /\ e = Promise(e.c, e.restore)
    BY <1>1 DEF Saves, Promise
  <1>3. ASSUME NEW c \in Challenges, NEW b \in BOOLEAN
        PROVE  Copies(Promise(c, b), work') = Copies(Promise(c, b), work) - (IF Promise(c, b) = e THEN 1 ELSE 0)
    <2> DEFINE p == Promise(c, b)
               g == [e EXCEPT !.op = "webhook"]
    <2>1. p # g
      BY <1>1 DEF Promise, Saves
    <2>2. work' = Take(work, e) \/ work' = Swap(work, e, g)
      BY DEF saved
    <2>3. Copies(p, work) \in Nat
      BY <1>1, CopiesFacts
    <2> HIDE DEF p, g
    <2>4. Copies(p, Take(work, e)) = Copies(p, work) - (IF p = e THEN 1 ELSE 0)
      BY <1>1, TakeFacts
    <2>5. Copies(p, Swap(work, e, g)) = Copies(p, work) - (IF p = e THEN 1 ELSE 0) + (IF p = g THEN 1 ELSE 0)
      BY <1>1, SwapFacts
    <2>6. Copies(p, work') = Copies(p, work) - (IF p = e THEN 1 ELSE 0)
      BY <2>1, <2>2, <2>3, <2>4, <2>5
    <2> QED
      BY <2>6 DEF p
  <1>4. ASSUME NEW c \in Challenges
        PROVE  Promises(work', c) = Promises(work, c) - (IF c = e.c THEN 1 ELSE 0)
    <2> DEFINE p == Promise(c, TRUE)
               q == Promise(c, FALSE)
    <2>1. p # q /\ (p = e \/ q = e <=> c = e.c)
      BY <1>2 DEF Promise
    <2>2. /\ Copies(p, work') = Copies(p, work) - (IF p = e THEN 1 ELSE 0)
          /\ Copies(q, work') = Copies(q, work) - (IF q = e THEN 1 ELSE 0)
      BY <1>3
    <2>3. Copies(p, work) \in Nat /\ Copies(q, work) \in Nat
      BY <1>1, CopiesFacts
    <2>4. Promises(work, c) = Copies(p, work) + Copies(q, work) /\ Promises(work', c) = Copies(p, work') + Copies(q, work')
      BY DEF Promises
    <2> HIDE DEF p, q
    <2> QED
      BY <2>1, <2>2, <2>3, <2>4
  <1> QED
    BY <1>2, <1>3, <1>4

LEMMA CallsFacts ==
    ASSUME BInv, NotifInv, NEW c \in Challenges
    PROVE  /\ times[c] \in Nat /\ Promises(work, c) \in Nat
           /\ cache[c] => times[c] >= 1
           /\ Promises(work, c) + (IF db[c].solved THEN 1 ELSE 0) <= times[c]
           /\ times[c] <= 1 /\ ~db[c].solved => Where(notifs, c) = {}
  <1>1. Promises(work, c) \in Nat
    BY BInvFacts, PromisesFacts
  <1> QED
    BY <1>1 DEF NotifInv, Calls, Promises

LEMMA SavedNotif ==
    ASSUME BInv, BInv', NotifInv, NEW e \in BagToSet(work), saved(e)
    PROVE  NotifInv'
  <1>1. /\ e.c \in Challenges /\ e.restore \in BOOLEAN
        /\ \A c \in Challenges : Promises(work', c) = Promises(work, c) - (IF c = e.c THEN 1 ELSE 0)
        /\ e = Promise(e.c, e.restore)
    BY SavedPromise
  <1>2. /\ UNCHANGED <<cache, times, conn, net>> /\ sendNotification(e.c, e.restore)
        /\ db' = [db EXCEPT ![e.c].solved = TRUE]
    BY DEF saved, hist
  <1>3. db \in Rows /\ OnlySolved /\ times \in [Challenges -> Nat]
    BY BInvFacts DEF NotifInv
  <1>4. db'[e.c].solved = TRUE /\ \A d \in Challenges : d # e.c => db'[d] = db[d]
    BY <1>1, <1>2, <1>3 DEF Rows, ChallengeTable
  <1> DEFINE out == e.restore \/ Where(notifs, e.c) = {}
  <1>5. /\ OnlySolved'
        /\ \A d \in Challenges : Num(notifs', d) = Num(notifs, d) + (IF d = e.c THEN 1 ELSE 0)
        /\ \A d \in Challenges : d # e.c => Where(notifs', d) = Where(notifs, d)
        /\ \A t \in Tabs, d \in Challenges :
              Num(sock'[t], d) = Num(sock[t], d) + (IF d = e.c /\ conn[t] /\ out THEN 1 ELSE 0)
    BY <1>1, <1>2, <1>3, SendNum
  <1>6. Promises(work, e.c) >= 1
    <2>1. Copies(e, work) > 0
      BY CopiesFacts, BInvFacts
    <2>2. Promises(work', e.c) \in Nat /\ Promises(work, e.c) \in Nat
      BY BInvFacts, PromisesFacts DEF BInv, Types, WorkTypes
    <2> QED
      BY <1>1, <2>2
  <1>7. times[e.c] <= 1 => out
    BY <1>1, <1>6, CallsFacts
  <1> HIDE DEF out
  <1>8. Calls'
    <2> SUFFICES ASSUME NEW c \in Challenges
                 PROVE  /\ cache'[c] => times'[c] >= 1
                        /\ Promises(work', c) + (IF db'[c].solved THEN 1 ELSE 0) <= times'[c]
                        /\ times'[c] <= 1 /\ ~db'[c].solved => Where(notifs', c) = {}
      BY DEF Calls, Promises, Promise
    <2>1. /\ times[c] \in Nat /\ Promises(work, c) \in Nat
          /\ cache[c] => times[c] >= 1
          /\ Promises(work, c) + (IF db[c].solved THEN 1 ELSE 0) <= times[c]
          /\ times[c] <= 1 /\ ~db[c].solved => Where(notifs, c) = {}
      BY CallsFacts
    <2>2. CASE c = e.c
      BY <1>1, <1>2, <1>4, <2>1, <2>2
    <2>3. CASE c # e.c
      BY <1>1, <1>2, <1>4, <1>5, <2>1, <2>3
    <2> QED
      BY <2>2, <2>3
  <1>9. AcksAreRequests'
    BY <1>2 DEF NotifInv, AcksAreRequests, Ack, Req, NoRows
  <1>10. ASSUME NEW t \in Tabs, NEW c \in Challenges, conn'[t], times'[c] <= 1
         PROVE  Num(notifs', c) <= Num(sock'[t], c) + Copies(Ack(t, c), net')
    <2>1. Num(notifs, c) <= Num(sock[t], c) + Copies(Ack(t, c), net)
      BY <1>2, <1>10 DEF NotifInv, Awaited
    <2>2. Num(notifs, c) \in Nat /\ Num(sock[t], c) \in Nat
      <3>1. notifs \in Seq(Events) /\ sock[t] \in Seq(Events)
        BY BInvFacts
      <3> QED
        BY <3>1, WhereFacts
    <2>3. Copies(Ack(t, c), net) \in Nat
      BY CopiesFacts, BInvFacts
    <2>4. conn[t] /\ (c = e.c => out)
      BY <1>2, <1>7, <1>10
    <2> QED
      BY <1>2, <1>5, <2>1, <2>2, <2>3, <2>4
  <1>11. Awaited'
    BY <1>10 DEF Awaited, Ack, Req, NoRows
  <1> QED
    BY <1>2, <1>3, <1>5, <1>8, <1>9, <1>11 DEF NotifInv

(* What is left to show when the notifications or the events change.       *)
LEMMA NumFacts ==
    ASSUME BInv, NEW c
    PROVE  Num(notifs, c) \in Nat /\ \A t \in Tabs : Num(sock[t], c) \in Nat /\ Copies(Ack(t, c), net) \in Nat
  <1>1. Num(notifs, c) \in Nat
    BY WhereFacts, BInvFacts
  <1>2. ASSUME NEW t \in Tabs
        PROVE  Num(sock[t], c) \in Nat /\ Copies(Ack(t, c), net) \in Nat
    <2>1. sock[t] \in Seq(Events)
      BY BInvFacts
    <2> QED
      BY <2>1, WhereFacts, CopiesFacts, BInvFacts
  <1> QED
    BY <1>1, <1>2

LEMMA RepeatNotif ==
    ASSUME BInv, BInv', NotifInv, NEW e \in BagToSet(net), repeatNotification(e)
    PROVE  NotifInv'
  <1>1. e.c \in Challenges /\ e.op = "repeat" /\ net' = Take(net, e) /\ UNCHANGED <<cache, db, work, conn>>
    BY BInvFacts DEF repeatNotification, Messages
  <1>2. Moved({e}, {}) /\ \A f \in {e} \cup {} : f.op # "ack"
    BY <1>1, MovedBy, BInvFacts
  <1>3. times \in [Challenges -> Nat] /\ OnlySolved
    BY DEF NotifInv
  <1>4. \A c \in Challenges : /\ times[c] \in Nat /\ Promises(work, c) \in Nat
                              /\ cache[c] => times[c] >= 1
                              /\ Promises(work, c) + (IF db[c].solved THEN 1 ELSE 0) <= times[c]
                              /\ times[c] <= 1 /\ ~db[c].solved => Where(notifs, c) = {}
    BY CallsFacts
  <1>5. CASE ~cache[e.c]
    <2>1. UNCHANGED <<notifs, sock, times>>
      BY <1>5 DEF repeatNotification
    <2>2. \A t \in Tabs, c \in Challenges : Num(sock'[t], c) = Num(sock[t], c)
      BY <2>1
    <2>3. \A c \in Challenges : /\ times[c] <= times'[c] /\ (cache'[c] => cache[c] \/ times'[c] >= 1)
                                /\ Promises(work', c) - Promises(work, c) <= times'[c] - times[c]
      BY <1>1, <1>4, <2>1
    <2> QED
      BY <1>1, <1>2, <1>3, <2>1, <2>2, <2>3, NotifKept
  <1>6. CASE cache[e.c]
    <2>1. PICK b \in BOOLEAN : b /\ sendNotification(e.c, b)
      BY <1>6 DEF repeatNotification
    <2>8. /\ times' = IF ~db[e.c].solved THEN [times EXCEPT ![e.c] = @ + 1] ELSE times
      BY <1>6 DEF repeatNotification
    <2>2. /\ OnlySolved'
          /\ \A d \in Challenges : Num(notifs', d) = Num(notifs, d) + (IF d = e.c THEN 1 ELSE 0)
          /\ \A d \in Challenges : d # e.c => Where(notifs', d) = Where(notifs, d)
          /\ \A t \in Tabs, d \in Challenges :
                Num(sock'[t], d) = Num(sock[t], d) + (IF d = e.c /\ conn[t] THEN 1 ELSE 0)
      <3> DEFINE out == b \/ Where(notifs, e.c) = {}
      <3>1. /\ OnlySolved'
            /\ \A d \in Challenges : Num(notifs', d) = Num(notifs, d) + (IF d = e.c THEN 1 ELSE 0)
            /\ \A d \in Challenges : d # e.c => Where(notifs', d) = Where(notifs, d)
            /\ \A t \in Tabs, d \in Challenges :
                  Num(sock'[t], d) = Num(sock[t], d) + (IF d = e.c /\ conn[t] /\ out THEN 1 ELSE 0)
        BY <1>1, <1>3, <2>1, SendNum
      <3>2. out
        BY <2>1
      <3> HIDE DEF out
      <3> QED
        BY <3>1, <3>2
    <2>3. /\ times' \in [Challenges -> Nat] /\ \A c \in Challenges : times'[c] >= times[c]
          /\ times'[e.c] <= 1 => db[e.c].solved
      <3>1. CASE db[e.c].solved
        BY <1>1, <1>3, <1>4, <2>8, <3>1
      <3>2. CASE ~db[e.c].solved
        <4>1. times' = [times EXCEPT ![e.c] = @ + 1] /\ times[e.c] \in Nat /\ times[e.c] >= 1
          BY <1>1, <1>4, <1>6, <2>8, <3>2
        <4> QED
          BY <1>1, <1>3, <4>1
      <3> QED
        BY <3>1, <3>2
    <2>4. Calls'
      <3> SUFFICES ASSUME NEW c \in Challenges
                   PROVE  /\ cache'[c] => times'[c] >= 1
                          /\ Promises(work', c) + (IF db'[c].solved THEN 1 ELSE 0) <= times'[c]
                          /\ times'[c] <= 1 /\ ~db'[c].solved => Where(notifs', c) = {}
        BY DEF Calls, Promises, Promise
      <3>1. times[c] \in Nat /\ times'[c] \in Nat /\ times'[c] >= times[c]
        BY <1>4, <2>3
      <3>2. CASE c = e.c
        BY <1>1, <1>4, <2>3, <3>1, <3>2
      <3>3. CASE c # e.c
        BY <1>1, <1>4, <2>2, <3>1, <3>3
      <3> QED
        BY <3>2, <3>3
    <2>5. AcksAreRequests'
      BY <1>1, TakeFacts, BInvFacts DEF NotifInv, AcksAreRequests, Ack, Req, NoRows
    <2>6. ASSUME NEW t \in Tabs, NEW c \in Challenges, conn'[t], times'[c] <= 1
          PROVE  Num(notifs', c) <= Num(sock'[t], c) + Copies(Ack(t, c), net')
      <3>1. times[c] <= 1 /\ conn[t]
        BY <1>1, <1>4, <2>3, <2>6
      <3>2. Num(notifs, c) <= Num(sock[t], c) + Copies(Ack(t, c), net)
        BY <3>1 DEF NotifInv, Awaited
      <3>3. Num(notifs, c) \in Nat /\ Num(sock[t], c) \in Nat /\ Copies(Ack(t, c), net) \in Nat
        BY NumFacts
      <3>4. Copies(Ack(t, c), net') = Copies(Ack(t, c), net)
        <4>1. Ack(t, c).op = "ack"
          BY DEF Ack, Req
        <4>2. Ack(t, c) # e
          BY <1>1, <4>1
        <4>3. Copies(Ack(t, c), net') = Copies(Ack(t, c), net) - (IF Ack(t, c) = e THEN 1 ELSE 0)
          BY <1>1, TakeFacts, BInvFacts
        <4> QED
          BY <3>3, <4>2, <4>3
      <3> QED
        BY <2>2, <3>1, <3>2, <3>3, <3>4
    <2>7. Awaited'
      BY <2>6 DEF Awaited, Ack, Req, NoRows
    <2> QED
      BY <2>2, <2>3, <2>4, <2>5, <2>7 DEF NotifInv
  <1> QED
    BY <1>5, <1>6

(* A notification that is confirmed.                                       *)
LEMMA ReceivedNum ==
    ASSUME BInv, OnlySolved, NEW e \in BagToSet(net), notificationReceived(e)
    PROVE  /\ OnlySolved' /\ notifs' \in Seq(Events)
           /\ \A d \in Challenges : Num(notifs', d) <= Num(notifs, d)
           /\ Num(notifs', e.c) = (IF Num(notifs, e.c) = 0 THEN 0 ELSE Num(notifs, e.c) - 1)
           /\ \A d \in Challenges : Where(notifs, d) = {} => Where(notifs', d) = {}
           /\ \A d \in Challenges : d # e.c /\ FirstIsNew(notifs, d) => FirstIsNew(notifs', d)
  <1>1. notifs \in Seq(Events) /\ e.c \in Challenges
    BY BInvFacts DEF Messages
  <1>2. \A d : Num(notifs, d) \in Nat /\ (Num(notifs, d) = 0 <=> Where(notifs, d) = {})
    BY <1>1, WhereFacts
  <1>3. CASE ~(\E i \in DOMAIN notifs : notifs[i].c = e.c)
    <2>1. UNCHANGED notifs
      BY <1>3 DEF notificationReceived
    <2>2. Where(notifs, e.c) = {}
      BY <1>3 DEF Where, Tells
    <2>3. Num(notifs, e.c) = 0
      BY <1>2, <2>2
    <2> QED
      BY <1>1, <1>2, <2>1, <2>3 DEF OnlySolved
  <1>4. CASE \E i \in DOMAIN notifs : notifs[i].c = e.c
    <2> DEFINE k == First(e.c)
    <2>1. notifs' = Without(notifs, k)
      BY <1>4 DEF notificationReceived, Without
    <2>2. k \in DOMAIN notifs /\ notifs[k].c = e.c
      <3> DEFINE T == {i \in DOMAIN notifs : notifs[i].c = e.c}
      <3>1. T \subseteq Nat /\ T # {}
        BY <1>1, <1>4
      <3>2. PICK i \in T : \A y \in T : i <= y
        BY <3>1, LeastNatural
      <3>3. \A j \in 1..(i - 1) : notifs[j].c # e.c
        <4> TAKE j \in 1..(i - 1)
        <4>1. i \in DOMAIN notifs /\ j \in DOMAIN notifs /\ ~(i <= j)
          BY <1>1
        <4> QED
          BY <3>2, <4>1
      <3>4. \E m \in DOMAIN notifs : notifs[m].c = e.c /\ \A j \in 1..(m - 1) : notifs[j].c # e.c
        BY <3>3
      <3> QED
        BY <3>4 DEF First
    <2> HIDE DEF k
    <2>3. \A d : Tells(notifs[k], d) <=> d = e.c
      BY <2>2 DEF OnlySolved, Tells
    <2>4. /\ notifs' \in Seq(Events)
          /\ \A i \in DOMAIN notifs' : \E j \in DOMAIN notifs : notifs'[i] = notifs[j]
          /\ \A c : Num(notifs', c) = Num(notifs, c) - (IF c = e.c THEN 1 ELSE 0)
      BY <1>1, <2>1, <2>2, <2>3, WithoutFacts
    <2>5. OnlySolved'
      BY <2>4 DEF OnlySolved
    <2>6. \A d : Num(notifs', d) \in Nat /\ (Num(notifs', d) = 0 <=> Where(notifs', d) = {})
      BY <2>4, WhereFacts
    <2>7. \A d \in Challenges : Where(notifs, d) = {} => Where(notifs', d) = {}
      BY <1>2, <2>4, <2>6
    <2>8. \A d \in Challenges : d # e.c /\ FirstIsNew(notifs, d) => FirstIsNew(notifs', d)
      <3> TAKE d \in Challenges
      <3> HAVE d # e.c /\ FirstIsNew(notifs, d)
      <3>1. ~Tells(notifs[k], d)
        BY <2>3
      <3> QED
        BY <1>1, <2>1, <2>2, <3>1, WithoutFirst
    <2>9. Num(notifs, e.c) # 0
      BY <1>2, <2>4, <2>6
    <2> QED
      BY <1>2, <2>4, <2>5, <2>7, <2>8, <2>9
  <1> QED
    BY <1>3, <1>4

LEMMA ReceivedNotif ==
    ASSUME BInv, BInv', NotifInv, NEW e \in BagToSet(net), notificationReceived(e)
    PROVE  NotifInv'
  <1>1. /\ e.c \in Challenges /\ e.op = "ack" /\ net' = Take(net, e)
        /\ UNCHANGED <<cache, db, work, conn, sock, times>>
    BY BInvFacts DEF notificationReceived, Messages, hist
  <1>2. times \in [Challenges -> Nat] /\ OnlySolved /\ e = Ack(e.t, e.c)
    BY <1>1 DEF NotifInv, AcksAreRequests
  <1>3. /\ OnlySolved' /\ \A d \in Challenges : Num(notifs', d) <= Num(notifs, d)
        /\ Num(notifs', e.c) = (IF Num(notifs, e.c) = 0 THEN 0 ELSE Num(notifs, e.c) - 1)
        /\ \A d \in Challenges : Where(notifs, d) = {} => Where(notifs', d) = {}
    BY <1>2, ReceivedNum
  <1>4. Calls'
    BY <1>1, <1>3 DEF NotifInv, Calls, Promise
  <1>5. Moved({e}, {})
    BY <1>1, MovedBy, BInvFacts
  <1>6. AcksAreRequests'
    BY <1>1, TakeFacts, BInvFacts DEF NotifInv, AcksAreRequests, Ack, Req, NoRows
  <1>7. ASSUME NEW t \in Tabs, NEW c \in Challenges, conn'[t], times'[c] <= 1
        PROVE  Num(notifs', c) <= Num(sock'[t], c) + Copies(Ack(t, c), net')
    <2> DEFINE a == Ack(t, c)
    <2>1. Num(notifs, c) <= Num(sock[t], c) + Copies(a, net)
      BY <1>1, <1>7 DEF NotifInv, Awaited
    <2>2. Num(notifs, c) \in Nat /\ Num(sock[t], c) \in Nat /\ Copies(a, net) \in Nat
      BY NumFacts
    <2>3. Num(notifs', c) \in Nat
      BY WhereFacts, ReceivedNum, <1>2
    <2>4. Copies(a, net') = Copies(a, net) - (IF a = e THEN 1 ELSE 0)
      BY <1>5, <2>2 DEF Moved
    <2>5. a = e => c = e.c /\ Copies(a, net) >= 1
      <3>0. a.c = c
        BY DEF Ack, Req
      <3>1. a = e => c = e.c
        BY <3>0
      <3>2. Copies(e, net) > 0
        BY CopiesFacts, BInvFacts
      <3> QED
        BY <2>2, <3>1, <3>2
    <2> HIDE DEF a
    <2>6. Num(notifs', c) <= Num(sock[t], c) + Copies(a, net')
      <3>1. CASE a = e
        BY <1>3, <2>1, <2>2, <2>3, <2>4, <2>5, <3>1
      <3>2. CASE a # e
        BY <1>3, <2>1, <2>2, <2>3, <2>4, <3>2
      <3> QED
        BY <3>1, <3>2
    <2> QED
      BY <1>1, <2>6 DEF a
  <1>8. Awaited'
    BY <1>7 DEF Awaited, Ack, Req, NoRows
  <1> QED
    BY <1>1, <1>2, <1>3, <1>4, <1>6, <1>8 DEF NotifInv

(* The challenges of a set are solved, with a promise for each.            *)
Solves(D, r) ==
    /\ D \subseteq Challenges
    /\ cache' = [c \in Challenges |-> cache[c] \/ c \in D]
    /\ times' = [c \in Challenges |-> IF c \in D THEN times[c] + 1 ELSE times[c]]
    /\ \A c \in Challenges, b \in BOOLEAN :
          Copies(Promise(c, b), work') = Copies(Promise(c, b), work) + (IF c \in D /\ b = r THEN 1 ELSE 0)

LEMMA SolvesPromises ==
    ASSUME BInv, NEW D, NEW r \in BOOLEAN, Solves(D, r), NEW c \in Challenges
    PROVE  Promises(work', c) - Promises(work, c) = (IF c \in D THEN 1 ELSE 0)
  <1> DEFINE p == Promise(c, TRUE)
             q == Promise(c, FALSE)
  <1>1. Copies(p, work) \in Nat /\ Copies(q, work) \in Nat
    BY CopiesFacts, BInvFacts
  <1>2. /\ Copies(p, work') = Copies(p, work) + (IF c \in D /\ r THEN 1 ELSE 0)
        /\ Copies(q, work') = Copies(q, work) + (IF c \in D /\ ~r THEN 1 ELSE 0)
    BY DEF Solves
  <1>3. Promises(work, c) = Copies(p, work) + Copies(q, work) /\ Promises(work', c) = Copies(p, work') + Copies(q, work')
    BY DEF Promises
  <1> HIDE DEF p, q
  <1> QED
    BY <1>1, <1>2, <1>3

LEMMA SolvesNotif ==
    ASSUME BInv, BInv', NotifInv, NEW D, NEW r \in BOOLEAN, Solves(D, r), UNCHANGED <<db, notifs, sock, conn>>,
           NEW G, NEW S, Moved(G, S), \A f \in G \cup S : f.op # "ack"
    PROVE  NotifInv'
  <1>1. \A c \in Challenges : times[c] \in Nat /\ Promises(work', c) \in Nat /\ Promises(work, c) \in Nat
    BY CallsFacts, PromisesFacts DEF BInv, Types, WorkTypes
  <1>2. \A c \in Challenges : Promises(work', c) - Promises(work, c) = (IF c \in D THEN 1 ELSE 0)
    BY SolvesPromises
  <1>3. times' \in [Challenges -> Nat]
    BY <1>1 DEF Solves
  <1>4. ASSUME NEW c \in Challenges
        PROVE  /\ times[c] <= times'[c] /\ (cache'[c] => cache[c] \/ times'[c] >= 1)
               /\ Promises(work', c) - Promises(work, c) <= times'[c] - times[c]
    <2>1. times'[c] = (IF c \in D THEN times[c] + 1 ELSE times[c]) /\ (cache'[c] => cache[c] \/ c \in D)
      BY DEF Solves
    <2> QED
      BY <1>1, <1>2, <2>1
  <1>5. \A t \in Tabs, c \in Challenges : Num(sock'[t], c) = Num(sock[t], c)
    OBVIOUS
  <1>6. \A c \in Challenges : db'[c].solved = db[c].solved
    OBVIOUS
  <1> QED
    BY <1>3, <1>4, <1>5, <1>6, NotifKept

LEMMA RestoreSolves ==
    ASSUME BInv, NotifInv, NEW e \in BagToSet(net), restoreProgress(e)
    PROVE  /\ Solves(e.v, TRUE) /\ Moved({e}, {}) /\ e.op = "restore" /\ e.v \subseteq Challenges
           /\ UNCHANGED <<db, notifs, sock, conn, restarts>>
  <1>1. /\ e.v \subseteq Challenges /\ e.op = "restore" /\ net' = Take(net, e)
        /\ UNCHANGED <<db, notifs, sock, conn, restarts>>
    BY BInvFacts DEF restoreProgress, Messages
  <1>2. Moved({e}, {})
    BY <1>1, MovedBy, BInvFacts
  <1> DEFINE P == {Promise(c, TRUE) : c \in e.v}
  <1>3. ASSUME NEW c \in Challenges, NEW b \in BOOLEAN
        PROVE  Copies(Promise(c, b), work') = Copies(Promise(c, b), work) + (IF c \in e.v /\ b = TRUE THEN 1 ELSE 0)
    <2> DEFINE p == Promise(c, b)
    <2>1. p \in P <=> c \in e.v /\ b = TRUE
      BY DEF Promise
    <2>2. work' = work (+) SetToBag(P)
      BY DEF restoreProgress
    <2> HIDE DEF p, P
    <2>3. Copies(p, work') = Copies(p, work) + (IF p \in P THEN 1 ELSE 0)
      BY <2>2, AddFacts, BInvFacts
    <2> QED
      BY <2>1, <2>3 DEF p
  <1>4. /\ cache' = [c \in Challenges |-> cache[c] \/ c \in e.v]
        /\ times' = [c \in Challenges |-> IF c \in e.v THEN times[c] + 1 ELSE times[c]]
    BY DEF restoreProgress
  <1> QED
    BY <1>1, <1>2, <1>3, <1>4 DEF Solves

LEMMA RestoreNotif ==
    ASSUME BInv, BInv', NotifInv, NEW e \in BagToSet(net), restoreProgress(e)
    PROVE  NotifInv'
  <1>1. \A f \in {e} \cup {} : f.op # "ack"
    BY RestoreSolves
  <1> QED
    BY <1>1, RestoreSolves, SolvesNotif

(* The promises of the server that do not touch the rows.                  *)
LEMMA SolveSolves ==
    ASSUME BInv, NotifInv, NEW c \in Challenges, NEW w, IsABag(w),
           \A d \in Challenges, b \in BOOLEAN : Copies(Promise(d, b), w) = Copies(Promise(d, b), work),
           solve(c, w, FALSE)
    PROVE  Solves({c}, FALSE)
  <1>1. cache \in [Challenges -> BOOLEAN] /\ times \in [Challenges -> Nat]
    BY BInvFacts DEF NotifInv
  <1>2. cache' = [d \in Challenges |-> cache[d] \/ d \in {c}]
    BY <1>1, Zenon DEF solve
  <1>3. times' = [d \in Challenges |-> IF d \in {c} THEN times[d] + 1 ELSE times[d]]
    BY <1>1 DEF solve
  <1>4. ASSUME NEW d \in Challenges, NEW b \in BOOLEAN
        PROVE  Copies(Promise(d, b), work') = Copies(Promise(d, b), work) + (IF d \in {c} /\ b = FALSE THEN 1 ELSE 0)
    <2> DEFINE p == Promise(d, b)
               q == Promise(c, FALSE)
    <2>1. p = q <=> d = c /\ b = FALSE
      BY DEF Promise
    <2>2. work' = Put(w, q)
      BY DEF solve
    <2>3. Copies(p, w) = Copies(p, work)
      OBVIOUS
    <2> HIDE DEF p, q
    <2>4. Copies(p, work') = Copies(p, w) + (IF p = q THEN 1 ELSE 0)
      BY <2>2, PutFacts
    <2> QED
      BY <2>1, <2>3, <2>4 DEF p
  <1> QED
    BY <1>2, <1>3, <1>4 DEF Solves

LEMMA IdleSolves ==
    ASSUME BInv, NotifInv, UNCHANGED <<cache, times>>,
           \A d \in Challenges, b \in BOOLEAN : Copies(Promise(d, b), work') = Copies(Promise(d, b), work)
    PROVE  Solves({}, FALSE)
  <1>1. cache \in [Challenges -> BOOLEAN] /\ times \in [Challenges -> Nat]
    BY BInvFacts DEF NotifInv
  <1>2. cache' = [d \in Challenges |-> cache[d] \/ d \in {}]
    BY <1>1, Zenon
  <1>3. times' = [d \in Challenges |-> IF d \in {} THEN times[d] + 1 ELSE times[d]]
    BY <1>1
  <1>4. \A d \in Challenges, b \in BOOLEAN : Copies(Promise(d, b), work) \in Nat
    BY CopiesFacts, BInvFacts
  <1> QED
    BY <1>2, <1>3, <1>4 DEF Solves

LEMMA SolveIfSolves ==
    ASSUME BInv, NotifInv, NEW c \in Challenges, NEW w, IsABag(w),
           \A d \in Challenges, b \in BOOLEAN : Copies(Promise(d, b), w) = Copies(Promise(d, b), work),
           solveIf(c, w)
    PROVE  \E D : Solves(D, FALSE)
  <1>1. CASE solve(c, w, FALSE)
    BY <1>1, SolveSolves
  <1>2. CASE work' = w /\ UNCHANGED <<cache, times>>
    BY <1>2, IdleSolves
  <1> QED
    BY <1>1, <1>2 DEF solveIf

(* A promise of another kind.                                              *)
LEMMA OtherPromise ==
    ASSUME BInv, NEW e, e.op # "save"
    PROVE  /\ \A d \in Challenges, b \in BOOLEAN : Promise(d, b) # e /\ Copies(Promise(d, b), work) \in Nat
           /\ e \in BagToSet(work) =>
                 /\ IsABag(Take(work, e))
                 /\ \A d \in Challenges, b \in BOOLEAN : Copies(Promise(d, b), Take(work, e)) = Copies(Promise(d, b), work)
  <1>1. \A d \in Challenges, b \in BOOLEAN : Promise(d, b).op = "save"
    BY DEF Promise
  <1>2. \A d \in Challenges, b \in BOOLEAN : Promise(d, b) # e
    BY <1>1
  <1>3. \A p : Copies(p, work) \in Nat
    BY CopiesFacts, BInvFacts
  <1>4. ASSUME e \in BagToSet(work)
        PROVE  IsABag(Take(work, e)) /\ \A p : Copies(p, Take(work, e)) = Copies(p, work) - (IF p = e THEN 1 ELSE 0)
    BY <1>4, TakeFacts, BInvFacts
  <1> QED
    BY <1>2, <1>3, <1>4

Solving == (\E e \in BagToSet(work) : notify(e) \/ jwtVerified(e) \/ counted(e)) \/ Occur

LEMMA SolvingSolves ==
    ASSUME BInv, NotifInv, Solving
    PROVE  /\ \E D : Solves(D, FALSE)
           /\ UNCHANGED <<db, notifs, sock, conn, net, restarts>>
  <1>1. UNCHANGED <<db, notifs, sock, conn, net, restarts>>
    BY SolvingFacts DEF Solving, wires, BInv, Types
  <1>2. IsABag(work) /\ BagToSet(work) \subseteq Works
    BY BInvFacts
  <1>3. ASSUME NEW e \in BagToSet(work), notify(e) \/ jwtVerified(e) \/ counted(e)
        PROVE  \E D : Solves(D, FALSE)
    <2>1. e.op # "save" /\ (e.op \in {"token", "count"} => e.c \in Challenges)
      BY <1>2, <1>3, ProgressAssumption DEF notify, jwtVerified, counted, Works, Saves, Tokens, Counts
    <2>2. /\ IsABag(Take(work, e))
          /\ \A d \in Challenges, b \in BOOLEAN : Copies(Promise(d, b), Take(work, e)) = Copies(Promise(d, b), work)
      BY <2>1, OtherPromise
    <2>3. CASE work' = Take(work, e) /\ UNCHANGED <<cache, times>>
      <3>1. Solves({}, FALSE)
        BY <2>2, <2>3, IdleSolves
      <3> QED
        BY <3>1
    <2>4. CASE jwtVerified(e)
      <3>1. e.c \in Challenges /\ solveIf(e.c, Take(work, e))
        BY <2>1, <2>4 DEF jwtVerified
      <3> QED
        BY <2>2, <3>1, SolveIfSolves
    <2>5. CASE counted(e) /\ solve(e.c, Take(work, e), FALSE)
      <3>1. e.c \in Challenges
        BY <2>1, <2>5 DEF counted
      <3>2. Solves({e.c}, FALSE)
        BY <2>2, <2>5, <3>1, SolveSolves
      <3> QED
        BY <3>2
    <2> QED
      BY <1>3, <2>3, <2>4, <2>5 DEF notify, counted, hist
  <1>4. ASSUME NEW c \in Challenges, accessControlChallenges(c)
        PROVE  \E D : Solves(D, FALSE)
    <2>1. solveIf(c, work)
      BY <1>4 DEF accessControlChallenges
    <2> QED
      BY <1>2, <2>1, SolveIfSolves
  <1>5. ASSUME NEW c \in Challenges, jwtChallenges(c) \/ databaseRelatedChallenges(c)
        PROVE  \E D : Solves(D, FALSE)
    <2>1. UNCHANGED <<cache, times>>
      BY <1>5 DEF jwtChallenges, databaseRelatedChallenges, hist
    <2>2. PICK S : work' = work (+) SetToBag(S) /\ \A f \in S : f.op # "save"
      <3>1. CASE jwtChallenges(c)
        <4>1. work' = work (+) SetToBag({[op |-> "token", c |-> c]})
          BY <3>1 DEF jwtChallenges, Put
        <4>2. \A f \in {[op |-> "token", c |-> c]} : f.op # "save"
          OBVIOUS
        <4> QED
          BY <4>1, <4>2
      <3>2. CASE databaseRelatedChallenges(c)
        <4>1. work' = work (+) SetToBag(queries(c))
          BY <3>2 DEF databaseRelatedChallenges, checkPatternInFeedbackAndComplaints
        <4>2. \A f \in queries(c) : f.op # "save"
          BY DEF queries
        <4> QED
          BY <4>1, <4>2
      <3> QED
        BY <1>5, <3>1, <3>2
    <2>3. ASSUME NEW d \in Challenges, NEW b \in BOOLEAN
          PROVE  Copies(Promise(d, b), work') = Copies(Promise(d, b), work)
      <3> DEFINE p == Promise(d, b)
      <3>1. p.op = "save"
        BY DEF Promise
      <3> HIDE DEF p
      <3>2. p \notin S
        BY <2>2, <3>1
      <3>3. Copies(p, work) \in Nat /\ Copies(p, work (+) SetToBag(S)) = Copies(p, work) + (IF p \in S THEN 1 ELSE 0)
        BY <1>2, CopiesFacts, AddFacts
      <3> QED
        BY <2>2, <3>2, <3>3 DEF p
    <2>4. Solves({}, FALSE)
      BY <2>1, <2>3, IdleSolves
    <2> QED
      BY <2>4
  <1>6. \E D : Solves(D, FALSE)
    BY <1>3, <1>4, <1>5 DEF Solving, Occur
  <1> QED
    BY <1>1, <1>6

LEMMA SolvingNotif ==
    ASSUME BInv, BInv', NotifInv, Solving
    PROVE  NotifInv'
  <1>1. PICK D : Solves(D, FALSE)
    BY SolvingSolves
  <1>2. UNCHANGED <<db, notifs, sock, conn, net>>
    BY SolvingSolves
  <1>3. Moved({}, {})
    BY <1>2, MovedBy, BInvFacts
  <1>4. \A f \in {} \cup {} : f.op # "ack"
    OBVIOUS
  <1> QED
    BY <1>1, <1>2, <1>3, <1>4, SolvesNotif

(* A tab connects: it gets all notifications that are kept.                *)
LEMMA StartedFacts == StartedEvent \in Events /\ \A c : ~Tells(StartedEvent, c) /\ ~IsCode(StartedEvent, c)
  <1>1. (CHOOSE c \in Challenges : TRUE) \in Challenges
    BY ProgressAssumption
  <1> QED
    BY <1>1 DEF StartedEvent, Events, Tells, IsCode

LEMMA ConnectionSocket ==
    ASSUME BInv, NEW t \in Tabs, connection(t)
    PROVE  /\ sock'[t] = notifs \/ sock'[t] = <<StartedEvent>> \o notifs
           /\ conn'[t] = TRUE /\ \A u \in Tabs : u # t => sock'[u] = sock[u] /\ conn'[u] = conn[u]
           /\ ~conn[t]
  <1>1. sock \in [Tabs -> Seq(Events)] /\ conn \in [Tabs -> BOOLEAN] /\ notifs \in Seq(Events)
    BY BInvFacts
  <1>2. <<>> \o notifs = notifs
    BY <1>1
  <1>3. sock' = [sock EXCEPT ![t] = (IF first THEN <<>> ELSE <<StartedEvent>>) \o notifs] /\ conn' = [conn EXCEPT ![t] = TRUE] /\ ~conn[t]
    BY DEF connection
  <1>4. sock'[t] = (IF first THEN <<>> ELSE <<StartedEvent>>) \o notifs
    BY <1>1, <1>3
  <1>5. conn'[t] = TRUE /\ \A u \in Tabs : u # t => sock'[u] = sock[u] /\ conn'[u] = conn[u]
    BY <1>1, <1>3
  <1> QED
    BY <1>2, <1>3, <1>4, <1>5

LEMMA ConnectionNotif ==
    ASSUME BInv, BInv', NotifInv, NEW t \in Tabs, connection(t)
    PROVE  NotifInv'
  <1>1. UNCHANGED <<cache, db, notifs, work, net, times>>
    BY DEF connection, hist
  <1>2. Calls' /\ AcksAreRequests' /\ OnlySolved'
    BY <1>1 DEF NotifInv, Calls, AcksAreRequests, OnlySolved, Promise, Ack, Req, NoRows
  <1>3. ASSUME NEW u \in Tabs, NEW c \in Challenges, conn'[u], times'[c] <= 1
        PROVE  Num(notifs', c) <= Num(sock'[u], c) + Copies(Ack(u, c), net')
    <2>1. Num(notifs, c) \in Nat /\ Copies(Ack(u, c), net) \in Nat
      BY NumFacts
    <2>2. CASE u = t
      <3>1. Num(<<StartedEvent>> \o notifs, c) = Num(notifs, c)
        BY StartedFacts, ConsNum, BInvFacts
      <3>2. Num(sock'[u], c) = Num(notifs, c)
        BY <2>2, <3>1, ConnectionSocket
      <3> QED
        BY <1>1, <2>1, <3>2
    <2>3. CASE u # t
      BY <1>1, <1>3, <2>3, ConnectionSocket DEF NotifInv, Awaited
    <2> QED
      BY <2>2, <2>3
  <1>4. Awaited'
    BY <1>3 DEF Awaited, Ack, Req, NoRows
  <1> QED
    BY <1>1, <1>2, <1>4 DEF NotifInv

-----------------------------------------------------------------------------
(* The tabs.                                                               *)

LEMMA TabNotif ==
    ASSUME BInv, BInv', NotifInv, React \/ UseTab, NEW G, NEW S, Moved(G, S), \A f \in G \cup S : f.op # "ack",
           \A t \in Tabs, c \in Challenges : Num(sock'[t], c) = Num(sock[t], c)
    PROVE  NotifInv'
  <1>1. UNCHANGED <<cache, db, notifs, work, conn, times>>
    BY TabsLeaveServer DEF svars, hist
  <1>2. \A c \in Challenges : times[c] \in Nat /\ Promises(work, c) \in Nat
    BY CallsFacts
  <1>3. \A c \in Challenges : /\ times[c] <= times'[c] /\ (cache'[c] => cache[c] \/ times'[c] >= 1)
                              /\ Promises(work', c) - Promises(work, c) <= times'[c] - times[c]
    BY <1>1, <1>2
  <1>4. times' \in [Challenges -> Nat] /\ \A c \in Challenges : db'[c].solved = db[c].solved
    BY <1>1 DEF NotifInv
  <1> QED
    BY <1>1, <1>3, <1>4, NotifKept

(* The steps of a tab that change neither its board nor its cookies, and   *)
(* send nothing that changes rows.                                         *)
Quiet ==
    \/ \E t \in Tabs :
         \/ shootConfetti(t) \/ closeNotification(t) \/ saveBackup(t) \/ openBoard(t)
         \/ \E c \in Challenges :
              unlockHint(t, c) \/ repeatChallengeNotification(t, c) \/ openCodingChallengeDialog(t, c)
         \/ \E tab \in {0, 1} : toggleTab(t, tab)
    \/ \E e \in BagToSet(net) : onHint(e) \/ onSnippet(e) \/ onFixes(e) \/ onVerdict(e)

QuietMessage(s) ==
    /\ s.op \in {"board", "hint", "repeat", "snippet", "fixes", "codeFind", "codeFix"} /\ s.at = "req" /\ s.v = {}
    /\ s.op \in {"board", "hint"} => conn[s.t] \/ crossed[s.t]

LEMMA RequestFacts ==
    ASSUME NEW t, NEW c, NEW op, NEW v
    PROVE  Req(t, op, c, v).op = op /\ Req(t, op, c, v).at = "req" /\ Req(t, op, c, v).v = v
           /\ Req(t, op, c, v).t = t /\ Req(t, op, c, v).c = c
  BY DEF Req

LEMMA QuietMoved ==
    ASSUME BInv, BoardInv, Quiet
    PROVE  /\ UNCHANGED <<sock, board, cookie, parallel, crossed>> /\ (React \/ UseTab)
           /\ \E G, S : /\ Moved(G, S) /\ \A s \in S : QuietMessage(s)
                        /\ \A g \in G : g.at = "ans" /\ g.op \in {"hint", "snippet", "fixes", "lines", "fix"}
  <1>1. UNCHANGED <<sock, board, cookie, parallel, crossed>>
    BY DEF Quiet, shootConfetti, closeNotification, saveBackup, openBoard, unlockHint, repeatChallengeNotification,
           openCodingChallengeDialog, toggleTab, onHint, onSnippet, onFixes, onVerdict, wires, cvars
  <1>2. React \/ UseTab
    BY DEF Quiet, React, UseTab
  <1>3. IsABag(net) /\ BagToSet(net) \subseteq Messages
    BY BInvFacts
  <1> DEFINE Good(G, S) ==
        /\ Moved(G, S) /\ \A s \in S : QuietMessage(s)
        /\ \A g \in G : g.at = "ans" /\ g.op \in {"hint", "snippet", "fixes", "lines", "fix"}
  <1>4. ASSUME NEW t \in Tabs, shootConfetti(t) \/ closeNotification(t) \/ saveBackup(t) \/ \E tab \in {0, 1} : toggleTab(t, tab)
        PROVE  \E G, S : Good(G, S)
    <2>1. UNCHANGED net
      BY <1>4 DEF shootConfetti, closeNotification, saveBackup, toggleTab, wires
    <2>2. Moved({}, {})
      BY <1>3, <2>1, MovedBy
    <2> QED
      BY <2>2
  <1>5. ASSUME NEW t \in Tabs, NEW c, NEW op \in {"board", "hint", "repeat"}, net' = Put(net, Req(t, op, c, {})),
               op \in {"board", "hint"} => conn[t] \/ crossed[t]
        PROVE  \E G, S : Good(G, S)
    <2> DEFINE r == Req(t, op, c, {})
    <2>1. r.op = op /\ r.at = "req" /\ r.v = {} /\ r.t = t
      BY RequestFacts
    <2> HIDE DEF r
    <2>2. QuietMessage(r)
      BY <1>5, <2>1 DEF QuietMessage
    <2>3. Moved({}, {r})
      BY <1>3, <1>5, MovedBy DEF r
    <2> QED
      BY <2>2, <2>3
  <1>6. ASSUME NEW t \in Tabs, board[t] # NoBoard
        PROVE  conn[t] \/ crossed[t]
    BY <1>6 DEF BoardInv, Connected
  <1>7. ASSUME NEW t \in Tabs, openBoard(t)
        PROVE  \E G, S : Good(G, S)
    <2>1. conn[t] /\ net' = Put(net, Req(t, "board", CHOOSE c \in Challenges : TRUE, {}))
      BY <1>7 DEF openBoard
    <2> QED
      BY <1>5, <2>1
  <1>8. ASSUME NEW t \in Tabs, NEW c \in Challenges, unlockHint(t, c) \/ repeatChallengeNotification(t, c)
        PROVE  \E G, S : Good(G, S)
    <2>1. PICK op \in {"hint", "repeat"} : board[t] # NoBoard /\ net' = Put(net, Req(t, op, c, {}))
      BY <1>8 DEF unlockHint, repeatChallengeNotification
    <2> QED
      BY <1>5, <1>6, <2>1
  <1>9. ASSUME NEW t \in Tabs, NEW c \in Challenges, openCodingChallengeDialog(t, c)
        PROVE  \E G, S : Good(G, S)
    <2> DEFINE T == {Req(t, "snippet", c, {}), Req(t, "fixes", c, {})}
    <2>1. \A s \in T : QuietMessage(s)
      BY RequestFacts DEF QuietMessage
    <2>2. net' = net (+) SetToBag(T)
      BY <1>9 DEF openCodingChallengeDialog
    <2> HIDE DEF T
    <2>3. Moved({}, T)
      BY <1>3, <2>2, MovedBy
    <2> QED
      BY <2>1, <2>3
  <1>10. ASSUME NEW e \in BagToSet(net), onHint(e)
         PROVE  \E G, S : Good(G, S)
    <2> DEFINE r == Req(e.t, "board", e.c, {})
    <2>1. r.op = "board" /\ r.at = "req" /\ r.v = {} /\ r.t = e.t
      BY RequestFacts
    <2>2. e.op = "hint" /\ e.at = "ans" /\ net' = Swap(net, e, r) /\ e.t \in Tabs
      BY <1>3, <1>10 DEF onHint, Messages
    <2> HIDE DEF r
    <2>3. conn[e.t] \/ crossed[e.t]
      BY <2>2 DEF BoardInv, Connected, InFlight
    <2>4. QuietMessage(r)
      BY <2>1, <2>3 DEF QuietMessage
    <2>5. Moved({e}, {r})
      BY <1>3, <2>2, MovedBy
    <2> QED
      BY <2>2, <2>4, <2>5
  <1>11. ASSUME NEW e \in BagToSet(net), onSnippet(e) \/ onFixes(e)
         PROVE  \E G, S : Good(G, S)
    <2>1. e.op \in {"snippet", "fixes"} /\ e.at = "ans" /\ net' = Take(net, e)
      BY <1>11 DEF onSnippet, onFixes
    <2>2. Moved({e}, {})
      BY <1>3, <2>1, MovedBy
    <2> QED
      BY <2>1, <2>2
  <1>12. ASSUME NEW e \in BagToSet(net), onVerdict(e)
         PROVE  \E G, S : Good(G, S)
    <2> DEFINE old == dialog[e.t]
               new == IF e.word \in {"right", "wrong"} THEN setVerdict(old, e.word = "right") ELSE old
               T == (IF new.find # old.find THEN {Req(e.t, "codeFind", old.c, {})} ELSE {})
                    \cup (IF new.fix # old.fix THEN {Req(e.t, "codeFix", old.c, {})} ELSE {})
    <2>1. e.op \in {"lines", "fix"} /\ e.at = "ans" /\ net' = Take(net, e) (+) SetToBag(T)
      BY <1>12 DEF onVerdict, CodeRequests
    <2>2. \A s \in T : s = Req(e.t, "codeFind", old.c, {}) \/ s = Req(e.t, "codeFix", old.c, {})
      OBVIOUS
    <2> HIDE DEF old, new, T
    <2>3. \A s \in T : QuietMessage(s)
      BY <2>2, RequestFacts DEF QuietMessage
    <2>4. Moved({e}, T)
      BY <1>3, <2>1, MovedBy
    <2> QED
      BY <2>1, <2>3, <2>4
  <1>13. \E G, S : Good(G, S)
    BY <1>4, <1>7, <1>8, <1>9, <1>10, <1>11, <1>12 DEF Quiet
  <1> QED
    BY <1>1, <1>2, <1>13

LEMMA QuietStep ==
    ASSUME BInv, BInv', SInv, Quiet
    PROVE  SInv'
  <1>1. BoardInv /\ NotifInv /\ CookieInv
    BY DEF SInv
  <1>2. UNCHANGED <<sock, board, cookie, parallel, crossed>> /\ (React \/ UseTab)
    BY <1>1, QuietMoved
  <1>3. PICK G, S : /\ Moved(G, S) /\ \A s \in S : QuietMessage(s)
                    /\ \A g \in G : g.at = "ans" /\ g.op \in {"hint", "snippet", "fixes", "lines", "fix"}
    BY <1>1, QuietMoved
  <1>4. UNCHANGED <<cache, db, notifs, work, conn, restarts>>
    BY <1>2, TabsLeaveServer DEF svars, hist
  <1>5. \A f \in G \cup S : f.op \notin {"code", "ack", "restore"}
    BY <1>3 DEF QuietMessage
  <1>6. NotifInv'
    BY <1>1, <1>2, <1>3, <1>5, SameSockets, TabNotif
  <1>7. CookieInv'
    BY <1>1, <1>2, <1>3, <1>4, <1>5, SameSockets, CookieKept
  <1>8. BoardInv'
    <2>1. \A s \in S : OldPhases(s) /\ s.op \notin {"lines", "fix"}
      BY <1>3 DEF QuietMessage, OldPhases
    <2>2. PhasesApart => PhasesApart'
      BY <1>3, <1>4, <2>1, PhasesKept
    <2>3. OldCookie => OldCookie'
      BY <1>2, <1>4 DEF OldCookie
    <2>4. \A t \in Tabs : ~crossed'[t] => PhasesApart' /\ OldCookie' /\ \A s \in S : OldPhases(s)
      BY <1>1, <1>2, <2>1, <2>2, <2>3 DEF BoardInv
    <2>5. \A g \in G : g.op \in {"lines", "fix"} => g.at # "score"
      BY <1>3
    <2>6. \A s \in S : /\ s.op \in {"board", "hint"} => conn[s.t] \/ crossed'[s.t]
                       /\ s.op = "board" /\ s.at = "ans" => s.rows = db
      BY <1>2, <1>3 DEF QuietMessage
    <2> QED
      BY <1>1, <1>2, <1>3, <1>4, <2>4, <2>5, <2>6, BoardKept
  <1> QED
    BY <1>6, <1>7, <1>8 DEF SInv

(* Events about phases that are still to be sent stay on the way.          *)
LEMMA StillUpToDate ==
    ASSUME BInv, UNCHANGED db, NEW G, NEW S, Moved(G, S), \A g \in G : g.op \in {"lines", "fix"} => g.at # "score"
    PROVE  /\ \A c, code : UpToDate(c, code) => UpToDate(c, code)'
           /\ \A rows, s : Mirrors(rows, s) => Mirrors(rows, s)'
           /\ \A c, s : LastIsCurrent(s, c) => LastIsCurrent(s, c)'
  <1>1. \A f \in BagToSet(net) : f.op \in {"lines", "fix"} /\ f.at = "score" => f \in BagToSet(net')
    BY MovedFacts, BInvFacts
  <1>2. \A c, code : UpToDate(c, code) => UpToDate(c, code)'
    BY <1>1 DEF UpToDate, ScorePending
  <1> QED
    BY <1>2 DEF Mirrors, LastIsCurrent, NoCode

(* The codes of the phases are stored.                                     *)
LEMMA PhaseCodeStep ==
    ASSUME BInv, BInv', SInv, NEW e \in BagToSet(net), onContinueCodeFindIt(e) \/ onContinueCodeFixIt(e)
    PROVE  SInv'
  <1>1. BoardInv /\ NotifInv /\ CookieInv /\ cookie \in Codes
    BY DEF SInv, BInv, Types, TabTypes
  <1>2. /\ UNCHANGED <<sock, board, parallel, crossed>> /\ (React \/ UseTab)
        /\ net' = Take(net, e) /\ e.op \in {"codeFind", "codeFix"}
    BY DEF onContinueCodeFindIt, onContinueCodeFixIt, React
  <1>3. Moved({e}, {})
    BY <1>2, MovedBy, BInvFacts
  <1>4. UNCHANGED <<cache, db, notifs, work, conn, restarts>>
    BY <1>2, TabsLeaveServer DEF svars, hist
  <1>5. /\ cookie'.hack = cookie.hack
        /\ cookie'.find = cookie.find \/ (e.op = "codeFind" /\ cookie'.find = e.v)
        /\ cookie'.fix = cookie.fix \/ (e.op = "codeFix" /\ cookie'.fix = e.v)
    BY <1>1 DEF onContinueCodeFindIt, onContinueCodeFixIt, Codes
  <1>6. \A f \in {e} \cup {} : f.op \notin {"code", "ack", "restore"}
    BY <1>2
  <1>7. NotifInv'
    BY <1>1, <1>2, <1>3, <1>6, SameSockets, TabNotif
  <1>8. CookieInv'
    BY <1>1, <1>2, <1>3, <1>4, <1>5, <1>6, SameSockets, CookieKept
  <1>9. BoardInv'
    <2>1. PhasesApart => PhasesApart'
      BY <1>3, <1>4, PhasesKept
    <2>2. ASSUME NEW t \in Tabs, ~crossed'[t]
          PROVE  PhasesApart' /\ OldCookie'
      <3>1. PhasesApart /\ OldCookie /\ OldPhases(e)
        BY <1>1, <1>2, <2>2 DEF BoardInv
      <3>2. OldCookie'
        BY <1>4, <1>5, <3>1 DEF OldCookie, OldPhases
      <3> QED
        BY <2>1, <3>1, <3>2
    <2>3. \A g \in {e} : g.op \in {"lines", "fix"} => g.at # "score"
      BY <1>2
    <2> QED
      BY <1>1, <1>2, <1>3, <1>4, <2>2, <2>3, BoardKept
  <1> QED
    BY <1>7, <1>8, <1>9 DEF SInv

(* A phase is submitted.                                                   *)
LEMMA SubmitSettles ==
    ASSUME BInv, BInv', SInv, NEW t \in Tabs, NEW word \in {"right", "wrong"}, checkLines(t, word) \/ checkFix(t, word)
    PROVE  SInv'
  <1> DEFINE op == IF checkLines(t, word) THEN "lines" ELSE "fix"
             r == Submission(t, op, word)
  <1>1. BoardInv /\ NotifInv /\ CookieInv
    BY DEF SInv
  <1>2. /\ UNCHANGED <<sock, board, parallel, cookie>> /\ UseTab /\ dialog[t].open
        /\ net' = Put(net, r)
    BY DEF checkLines, checkFix, UseTab, Submission
  <1>3. op \in {"lines", "fix"} /\ (op = "lines" => checkLines(t, word)) /\ (op = "fix" => checkFix(t, word))
    OBVIOUS
  <1> HIDE DEF op
  <1>4. r.op = op /\ r.c = dialog[t].c /\ r.c \in Challenges
    <2>1. r \in Messages /\ r.op = op /\ r.c = dialog[t].c
      BY <1>2, <1>3, SubmissionFacts
    <2> HIDE DEF r
    <2> QED
      BY <2>1 DEF Messages
  <1> HIDE DEF r
  <1>5. Moved({}, {r})
    BY <1>2, MovedBy, BInvFacts
  <1>6. UNCHANGED <<cache, db, notifs, work, conn, restarts>>
    BY <1>2, TabsLeaveServer DEF svars, hist
  <1>7. \A f \in {} \cup {r} : f.op \notin {"code", "ack", "restore"}
    BY <1>3, <1>4
  <1>8. NotifInv'
    BY <1>1, <1>2, <1>5, <1>7, SameSockets, TabNotif
  <1>9. CookieInv'
    BY <1>1, <1>2, <1>5, <1>6, <1>7, SameSockets, CookieKept
  <1>10. BoardInv'
    <2>1. /\ op = "lines" => crossed' = [u \in Tabs |-> crossed[u] \/ db[dialog[t].c].code = 2 \/ \E w \in Tabs : InFlight(w, {"fix"})]
          /\ op = "fix" => crossed' = [u \in Tabs |-> crossed[u] \/ \E w \in Tabs : InFlight(w, {"lines"})]
      BY <1>3 DEF checkLines, checkFix
    <2>2. \A u \in Tabs : crossed[u] => crossed'[u]
      BY <1>3, <2>1
    <2>3. BagToSet(net') \subseteq BagToSet(net) \cup {r} /\ BagToSet(net) \subseteq Messages /\ db[r.c].code \in 0..2
      BY <1>4, <1>5, MovedFacts, BInvFacts
    <2>7. \A f \in BagToSet(net) : f.t \in Tabs
      BY <2>3 DEF Messages
    <2>4. ASSUME NEW u \in Tabs, ~crossed'[u]
          PROVE  PhasesApart' /\ OldCookie' /\ \A s \in {r} : OldPhases(s)
      <3>1. PhasesApart /\ OldCookie
        BY <1>1, <2>2, <2>4 DEF BoardInv
      <3>2. ASSUME op = "lines"
            PROVE  PhasesApart'
        <4>1. db[r.c].code # 2 /\ ~\E w \in Tabs : InFlight(w, {"fix"})
          BY <1>4, <2>1, <2>4, <3>2
        <4>2. \A f \in BagToSet(net) : f.op # "fix"
          BY <2>7, <4>1 DEF InFlight
        <4>3. db'[r.c].code < 2 /\ r.op = "lines"
          BY <1>4, <1>6, <2>3, <3>2, <4>1
        <4>4. \A e \in BagToSet(net') : e = r \/ e \in BagToSet(net)
          BY <2>3
        <4>5. \A e \in BagToSet(net') : e.op # "fix" /\ (e.op = "lines" /\ e.at # "ans" => db'[e.c].code < 2)
          BY <1>6, <3>1, <4>2, <4>3, <4>4 DEF PhasesApart
        <4> QED
          BY <4>5 DEF PhasesApart
      <3>3. ASSUME op = "fix"
            PROVE  PhasesApart'
        <4>1. \A f \in BagToSet(net) : f.op # "lines"
          BY <2>1, <2>4, <2>7, <3>3 DEF InFlight
        <4>2. \A e \in BagToSet(net') : e.op # "lines"
          BY <1>4, <2>3, <3>3, <4>1
        <4> QED
          BY <4>2 DEF PhasesApart
      <3>4. OldCookie'
        BY <1>2, <1>6, <3>1 DEF OldCookie
      <3> QED
        BY <1>3, <1>4, <3>2, <3>3, <3>4 DEF OldPhases
    <2>5. \A s \in {r} : /\ s.op \in {"board", "hint"} => conn[s.t] \/ crossed'[s.t]
                         /\ s.op = "board" /\ s.at = "ans" => s.rows = db
      BY <1>3, <1>4
    <2>6. \A g \in {} : g.op \in {"lines", "fix"} => g.at # "score"
      OBVIOUS
    <2> QED
      BY <1>1, <1>2, <1>5, <1>6, <2>2, <2>4, <2>5, <2>6, BoardKept
  <1> QED
    BY <1>8, <1>9, <1>10 DEF SInv

(* The cookies are removed.                                                *)
LEMMA ClearStep ==
    ASSUME BInv, BInv', SInv, clearProgress
    PROVE  SInv'
  <1>1. BoardInv /\ NotifInv
    BY DEF SInv
  <1>2. UNCHANGED <<net, sock, board, crossed>> /\ UseTab /\ parallel' = TRUE /\ cookie' = NoCodes
    BY DEF clearProgress, UseTab, wires
  <1>3. Moved({}, {})
    BY <1>2, MovedBy, BInvFacts
  <1>4. UNCHANGED <<db, conn, restarts>>
    BY <1>2, TabsLeaveServer DEF svars, hist
  <1>5. NotifInv'
    BY <1>1, <1>2, <1>3, SameSockets, TabNotif
  <1>6. CookieInv'
    BY <1>2 DEF CookieInv
  <1>7. BoardInv'
    <2>1. PhasesApart => PhasesApart'
      BY <1>3, <1>4, PhasesKept
    <2>2. OldCookie'
      BY <1>2 DEF OldCookie, NoCodes
    <2>3. \A t \in Tabs : ~crossed'[t] => PhasesApart' /\ OldCookie'
      BY <1>1, <1>2, <2>1, <2>2 DEF BoardInv
    <2> QED
      BY <1>1, <1>2, <1>3, <1>4, <2>3, BoardKept
  <1> QED
    BY <1>5, <1>6, <1>7 DEF SInv

(* What Apply hands back.                                                  *)
LEMMA ApplyMoved ==
    ASSUME BInv, NEW t \in Tabs, NEW k, net' = net (+) Apply(t, k)
    PROVE  \E S : /\ Moved({}, S)
                  /\ \A s \in S : \/ s.op = "restore" /\ s.v = k.hack
                                  \/ s.op = "restoreFind" /\ s.v = k.find
                                  \/ s.op = "restoreFix" /\ s.v = k.fix
  <1> DEFINE c == CHOOSE x \in Challenges : TRUE
             S == {r \in {Req(t, "restore", c, k.hack), Req(t, "restoreFind", c, k.find), Req(t, "restoreFix", c, k.fix)} : r.v # {}}
  <1>1. net' = net (+) SetToBag(S)
    BY DEF Apply
  <1>2. \A r \in S : \/ r = Req(t, "restore", c, k.hack)
                     \/ r = Req(t, "restoreFind", c, k.find)
                     \/ r = Req(t, "restoreFix", c, k.fix)
    OBVIOUS
  <1> HIDE DEF S, c
  <1>3. Moved({}, S)
    BY <1>1, MovedBy, BInvFacts
  <1>4. \A s \in S : \/ s.op = "restore" /\ s.v = k.hack
                     \/ s.op = "restoreFind" /\ s.v = k.find
                     \/ s.op = "restoreFix" /\ s.v = k.fix
    BY <1>2, RequestFacts
  <1> QED
    BY <1>3, <1>4

(* A backup is applied.                                                    *)
LEMMA BackupSettles ==
    ASSUME BInv, BInv', SInv, NEW t \in Tabs, restoreBackup(t)
    PROVE  SInv'
  <1>1. BoardInv /\ NotifInv
    BY DEF SInv
  <1>2. UNCHANGED sock /\ UseTab /\ parallel' = TRUE /\ crossed' = [u \in Tabs |-> TRUE] /\ net' = net (+) Apply(t, backup)
    BY DEF restoreBackup, UseTab
  <1>3. PICK S : Moved({}, S) /\ \A s \in S : s.op \in {"restore", "restoreFind", "restoreFix"}
    <2>1. PICK S : Moved({}, S) /\ \A s \in S : \/ s.op = "restore" /\ s.v = backup.hack
                                                \/ s.op = "restoreFind" /\ s.v = backup.find
                                                \/ s.op = "restoreFix" /\ s.v = backup.fix
      BY <1>2, ApplyMoved
    <2> QED
      BY <2>1
  <1>4. UNCHANGED <<db, conn, restarts>>
    BY <1>2, TabsLeaveServer DEF svars, hist
  <1>5. \A f \in {} \cup S : f.op # "ack"
    BY <1>3
  <1>6. NotifInv'
    BY <1>1, <1>2, <1>3, <1>5, SameSockets, TabNotif
  <1>7. CookieInv'
    BY <1>2 DEF CookieInv
  <1>8. BoardInv'
    <2>1. \A u \in Tabs : crossed'[u] /\ (sock'[u] # <<>> => conn'[u])
      BY <1>1, <1>2, <1>4 DEF BoardInv, Connected
    <2> QED
      BY <2>1 DEF BoardInv, Connected
  <1> QED
    BY <1>6, <1>7, <1>8 DEF SInv

(* The board gets its rows.                                                *)
LEMMA ChallengesStep ==
    ASSUME BInv, BInv', SInv, NEW e \in BagToSet(net), onChallenges(e)
    PROVE  SInv'
  <1>1. BoardInv /\ NotifInv /\ CookieInv /\ DOMAIN board = Tabs /\ e.t \in Tabs
    BY BInvFacts DEF SInv, BInv, Types, TabTypes, Messages
  <1>2. /\ UNCHANGED <<sock, cookie, parallel, crossed>> /\ React /\ net' = Take(net, e) /\ e.op = "board" /\ e.at = "ans"
        /\ board' = [board EXCEPT ![e.t] = e.rows]
    BY DEF onChallenges, React
  <1>3. Moved({e}, {})
    BY <1>2, MovedBy, BInvFacts
  <1>4. UNCHANGED <<cache, db, notifs, work, conn, restarts>>
    BY <1>2, TabsLeaveServer DEF svars, hist
  <1>5. \A f \in {e} \cup {} : f.op \notin {"code", "ack", "restore"}
    BY <1>2
  <1>6. NotifInv'
    BY <1>1, <1>2, <1>3, <1>5, SameSockets, TabNotif
  <1>7. CookieInv'
    BY <1>1, <1>2, <1>3, <1>4, <1>5, SameSockets, CookieKept
  <1>8. BagToSet(net') \subseteq BagToSet(net)
    BY <1>2, TakeFacts, BInvFacts
  <1>9. board'[e.t] = e.rows /\ \A u \in Tabs : u # e.t => board'[u] = board[u]
    BY <1>1, <1>2
  <1>10. Connected'
    <2>1. \A u : InFlight(u, {"board", "hint"})' => InFlight(u, {"board", "hint"})
      BY <1>8 DEF InFlight
    <2>2. InFlight(e.t, {"board", "hint"})
      BY <1>2 DEF InFlight
    <2>3. \A u \in Tabs : board'[u] # NoBoard => board[u] # NoBoard \/ InFlight(u, {"board", "hint"})
      BY <1>9, <2>2
    <2> QED
      BY <1>1, <1>2, <1>4, <2>1, <2>3 DEF BoardInv, Connected
  <1>11. ASSUME NEW u \in Tabs, ~crossed'[u]
         PROVE  PhasesApart' /\ OldCookie' /\ (\A f \in BagToSet(net') : OldPhases(f)') /\ TabMirrors(u)'
    <2>1. PhasesApart /\ OldCookie /\ (\A f \in BagToSet(net) : OldPhases(f)) /\ TabMirrors(u)
      BY <1>1, <1>2, <1>11 DEF BoardInv
    <2>2. PhasesApart' /\ OldCookie' /\ (\A f \in BagToSet(net') : OldPhases(f)')
      BY <1>2, <1>4, <1>8, <2>1 DEF PhasesApart, OldCookie, OldPhases
    <2>3. \A g \in {e} : g.op \in {"lines", "fix"} => g.at # "score"
      BY <1>2
    <2>4. /\ \A rows, s : Mirrors(rows, s) => Mirrors(rows, s)'
          /\ \A c, s : LastIsCurrent(s, c) => LastIsCurrent(s, c)'
      BY <1>3, <1>4, <2>3, StillUpToDate
    <2>5. /\ \A c \in Challenges : LastIsCurrent(sock[u], c)
          /\ board[u] # NoBoard => Mirrors(board[u], sock[u])
          /\ \A f \in BagToSet(net) : f.op = "board" /\ f.at = "ans" /\ f.t = u => Mirrors(f.rows, sock[u])
      BY <2>1 DEF TabMirrors
    <2>6. board'[u] # NoBoard => Mirrors(board'[u], sock[u])
      BY <1>2, <1>9, <2>5
    <2>7. TabMirrors(u)'
      BY <1>2, <1>8, <2>4, <2>5, <2>6 DEF TabMirrors
    <2> QED
      BY <2>2, <2>7
  <1>12. BoardInv'
    BY <1>10, <1>11 DEF BoardInv
  <1> QED
    BY <1>6, <1>7, <1>12 DEF SInv

-----------------------------------------------------------------------------
(* The continue code.                                                      *)

(* What is known of a challenge stays when the events and the promises do. *)
LEMMA KnownKept ==
    ASSUME BInv, NEW G, NEW S, Moved(G, S), UNCHANGED <<notifs, conn>>, \A c \in Challenges : db'[c].solved = db[c].solved,
           \A c \in Challenges, b \in BOOLEAN : Promise(c, b) \in BagToSet(work') <=> Promise(c, b) \in BagToSet(work),
           \A t \in Tabs : SameEvents(sock'[t], sock[t]), NEW c \in Challenges,
           \A s \in S : (s.op = "ack" => s.c # c) /\ (s.op = "restore" => c \notin s.v)
    PROVE  /\ Calm(c) => Calm(c)'
           /\ Told(c) => Told(c)'
           /\ Unheard(c) => Unheard(c)'
           /\ Promised(c) <=> Promised(c)'
  <1>1. BagToSet(net') \subseteq BagToSet(net) \cup S
    BY MovedFacts, BInvFacts
  <1>2. Calm(c) => Calm(c)'
    BY <1>1 DEF Calm, Promise
  <1>3. Told(c) => Told(c)'
    BY DEF Told, SameEvents
  <1>4. Unheard(c) => Unheard(c)'
    BY DEF Unheard, SameEvents
  <1>5. Promised(c) <=> Promised(c)'
    BY DEF Promised, Promise
  <1> QED
    BY <1>2, <1>3, <1>4, <1>5

LEMMA AnswerCookie ==
    ASSUME BInv, BInv', CookieInv, NEW e \in BagToSet(net), continueCode(e), UNCHANGED cvars
    PROVE  CookieInv'
  <1> DEFINE g == [e EXCEPT !.at = "ans", !.v = Cached]
  <1>1. /\ e.op = "code" /\ e.at = "req" /\ net' = Swap(net, e, g)
        /\ UNCHANGED <<cache, db, notifs, work, sock, conn, restarts, cookie, parallel>>
    BY DEF continueCode, Answer, Cached, svars, hist, cvars
  <1>2. g.op = "code" /\ g.at = "ans" /\ g.v = Cached
    BY <1>1, BInvFacts DEF Messages
  <1> HIDE DEF g
  <1>3. Moved({e}, {g})
    BY <1>1, MovedBy, BInvFacts
  <1> SUFFICES ASSUME restarts = 0, ~parallel
               PROVE  /\ LoneCode' /\ CodesGrow'
                      /\ \A c \in Challenges :
                          /\ cache'[c] => Covered(c)' \/ (Calm(c)' /\ (Told(c)' \/ (Unheard(c)' /\ Promised(c)')))
                          /\ ~cache'[c] => Calm(c)' /\ Unheard(c)' /\ ~Promised(c)'
    BY <1>1 DEF CookieInv
  <1>4. /\ LoneCode /\ CodesGrow
        /\ \A c \in Challenges :
              /\ cache[c] => Covered(c) \/ (Calm(c) /\ (Told(c) \/ (Unheard(c) /\ Promised(c))))
              /\ ~cache[c] => Calm(c) /\ Unheard(c) /\ ~Promised(c)
    BY DEF CookieInv
  <1>5. g # e /\ g \notin BagToSet(net) /\ Copies(e, net) = 1 /\ \A f \in BagToSet(net) : f.op = "code" => f = e
    BY <1>1, <1>2, <1>4 DEF LoneCode
  <1>6. Copies(g, net) = 0 /\ Copies(g, net') = 1 /\ Copies(e, net') = 0
    <2>1. \A f : Copies(f, net) \in Nat /\ (f \in BagToSet(net) <=> Copies(f, net) > 0)
      BY CopiesFacts, BInvFacts
    <2>2. Copies(g, net) = 0
      BY <1>5, <2>1
    <2>3. /\ Copies(g, net') = Copies(g, net) - (IF g \in {e} THEN 1 ELSE 0) + (IF g \in {g} THEN 1 ELSE 0)
          /\ Copies(e, net') = Copies(e, net) - (IF e \in {e} THEN 1 ELSE 0) + (IF e \in {g} THEN 1 ELSE 0)
      BY <1>3 DEF Moved
    <2> QED
      BY <1>5, <2>2, <2>3
  <1>7. /\ BagToSet(net') \subseteq BagToSet(net) \cup {g} /\ g \in BagToSet(net') /\ e \notin BagToSet(net')
    <2>1. \A f : f \in BagToSet(net') <=> Copies(f, net') > 0
      BY CopiesFacts DEF BInv, Types, WireTypes
    <2> QED
      BY <1>3, <1>6, <2>1, MovedFacts, BInvFacts
  <1>8. \A f \in BagToSet(net') : f.op = "code" => f = g
    BY <1>5, <1>7
  <1>9. LoneCode'
    BY <1>6, <1>8 DEF LoneCode
  <1>10. CodesGrow'
    BY <1>1, <1>2, <1>4, <1>8 DEF CodesGrow, Cached
  <1>11. ASSUME NEW c \in Challenges, cache'[c]
         PROVE  Covered(c)'
    <2>1. c \in g.v
      BY <1>1, <1>2, <1>11 DEF Cached
    <2> QED
      BY <1>2, <1>7, <2>1 DEF Covered
  <1>12. ASSUME NEW c \in Challenges, ~cache'[c]
         PROVE  Calm(c)' /\ Unheard(c)' /\ ~Promised(c)'
    <2>1. Calm(c) /\ Unheard(c) /\ ~Promised(c)
      BY <1>1, <1>4, <1>12
    <2>2. \A s \in {g} : (s.op = "ack" => s.c # c) /\ (s.op = "restore" => c \notin s.v)
      BY <1>2
    <2> QED
      BY <1>1, <1>3, <2>1, <2>2, SameSockets, KnownKept
  <1> QED
    BY <1>9, <1>10, <1>11, <1>12

LEMMA ContinueCodeStep ==
    ASSUME BInv, BInv', SInv, NEW e \in BagToSet(net), onContinueCode(e)
    PROVE  SInv'
  <1>1. BoardInv /\ NotifInv /\ CookieInv /\ cookie \in Codes
    BY DEF SInv, BInv, Types, TabTypes
  <1>2. /\ UNCHANGED <<sock, board, parallel, crossed>> /\ React /\ net' = Take(net, e) /\ e.op = "code" /\ e.at = "ans"
    BY DEF onContinueCode, React
  <1>3. Moved({e}, {})
    BY <1>2, MovedBy, BInvFacts
  <1>4. UNCHANGED <<cache, db, notifs, work, conn, restarts>>
    BY <1>2, TabsLeaveServer DEF svars, hist
  <1>5. cookie'.find = cookie.find /\ cookie'.fix = cookie.fix /\ cookie'.hack = IF e.v = {} THEN cookie.hack ELSE e.v
    BY <1>1 DEF onContinueCode, Codes
  <1>6. NotifInv'
    <2>1. \A f \in {e} \cup {} : f.op # "ack"
      BY <1>2
    <2> QED
      BY <1>1, <1>2, <1>3, <2>1, SameSockets, TabNotif
  <1>7. BoardInv'
    <2>1. PhasesApart => PhasesApart'
      BY <1>3, <1>4, PhasesKept
    <2>2. OldCookie => OldCookie'
      BY <1>4, <1>5 DEF OldCookie
    <2>3. \A t \in Tabs : ~crossed'[t] => PhasesApart' /\ OldCookie'
      BY <1>1, <1>2, <2>1, <2>2 DEF BoardInv
    <2>4. \A g \in {e} : g.op \in {"lines", "fix"} => g.at # "score"
      BY <1>2
    <2> QED
      BY <1>1, <1>2, <1>3, <1>4, <2>3, <2>4, BoardKept
  <1>8. CookieInv'
    <2> SUFFICES ASSUME restarts = 0, ~parallel
                 PROVE  /\ LoneCode' /\ CodesGrow'
                        /\ \A c \in Challenges :
                            /\ cache'[c] => Covered(c)' \/ (Calm(c)' /\ (Told(c)' \/ (Unheard(c)' /\ Promised(c)')))
                            /\ ~cache'[c] => Calm(c)' /\ Unheard(c)' /\ ~Promised(c)'
      BY <1>2, <1>4 DEF CookieInv
    <2>1. /\ LoneCode /\ CodesGrow
          /\ \A c \in Challenges :
                /\ cache[c] => Covered(c) \/ (Calm(c) /\ (Told(c) \/ (Unheard(c) /\ Promised(c))))
                /\ ~cache[c] => Calm(c) /\ Unheard(c) /\ ~Promised(c)
      BY <1>1 DEF CookieInv
    <2>2. Copies(e, net) = 1 /\ \A f \in BagToSet(net) : f.op = "code" => f = e
      BY <1>2, <2>1 DEF LoneCode
    <2>3. e \notin BagToSet(net')
      <3>1. Copies(e, net') = Copies(e, net) - 1
        BY <1>2, TakeFacts, BInvFacts
      <3>2. e \in BagToSet(net') <=> Copies(e, net') > 0
        BY CopiesFacts DEF BInv, Types, WireTypes
      <3> QED
        BY <2>2, <3>1, <3>2
    <2>4. \A f \in BagToSet(net') : f.op # "code"
      BY <1>2, <2>2, <2>3, TakeFacts, BInvFacts
    <2>5. LoneCode'
      BY <2>4 DEF LoneCode
    <2>6. cookie.hack \subseteq e.v /\ e.v \subseteq Cached
      BY <1>2, <2>1 DEF CodesGrow
    <2>7. cookie'.hack = e.v
      BY <1>5, <2>6
    <2>8. CodesGrow'
      BY <1>4, <2>4, <2>6, <2>7 DEF CodesGrow, Cached
    <2>9. \A c \in Challenges : Covered(c) => Covered(c)'
      BY <1>2, <2>2, <2>6, <2>7 DEF Covered
    <2>10. \A c \in Challenges : /\ Calm(c) => Calm(c)'
                                 /\ Told(c) => Told(c)'
                                 /\ Unheard(c) => Unheard(c)'
                                 /\ Promised(c) <=> Promised(c)'
      BY <1>2, <1>3, <1>4, SameSockets, KnownKept
    <2> QED
      BY <1>4, <2>1, <2>5, <2>8, <2>9, <2>10
  <1> QED
    BY <1>6, <1>7, <1>8 DEF SInv

(* Steps of the server that answer no request for a code.                  *)
Waits(c) == Calm(c) /\ (Told(c) \/ (Unheard(c) /\ Promised(c)))
Fresh(c) == Calm(c) /\ Unheard(c) /\ ~Promised(c)

LEMMA ServerCookie ==
    ASSUME BInv, BInv', CookieInv, UNCHANGED <<restarts, cvars>>, NEW G, NEW S, Moved(G, S), \A f \in G \cup S : f.op # "code",
           \A c \in Challenges : cache[c] => cache'[c],
           restarts = 0 /\ ~parallel =>
               \A c \in Challenges :
                   /\ cache[c] /\ Waits(c) => Waits(c)'
                   /\ ~cache[c] /\ Fresh(c) => (cache'[c] => Waits(c)') /\ (~cache'[c] => Fresh(c)')
    PROVE  CookieInv'
  <1>1. UNCHANGED <<cookie, parallel>>
    BY DEF cvars
  <1> SUFFICES ASSUME restarts = 0, ~parallel
               PROVE  LoneCode' /\ CodesGrow' /\ \A c \in Challenges : (cache'[c] => Covered(c)' \/ Waits(c)') /\ (~cache'[c] => Fresh(c)')
    BY <1>1 DEF CookieInv, Waits, Fresh
  <1>2. LoneCode /\ CodesGrow /\ \A c \in Challenges : (cache[c] => Covered(c) \/ Waits(c)) /\ (~cache[c] => Fresh(c))
    BY DEF CookieInv, Waits, Fresh
  <1>3. \A f : f.op = "code" => Copies(f, net') = Copies(f, net) /\ (f \in BagToSet(net') <=> f \in BagToSet(net))
    BY MovedFacts, BInvFacts
  <1>4. LoneCode'
    BY <1>2, <1>3 DEF LoneCode
  <1>5. CodesGrow'
    BY <1>1, <1>2, <1>3 DEF CodesGrow, Cached
  <1>6. \A c \in Challenges : Covered(c) => Covered(c)'
    BY <1>1, <1>3 DEF Covered
  <1>7. ASSUME NEW c \in Challenges
        PROVE  (cache'[c] => Covered(c)' \/ Waits(c)') /\ (~cache'[c] => Fresh(c)')
    <2>1. CASE cache[c]
      BY <1>2, <1>6, <2>1
    <2>2. CASE ~cache[c]
      BY <1>2, <2>2
    <2> QED
      BY <2>1, <2>2
  <1> QED
    BY <1>4, <1>5, <1>7

(* The promises to save a challenge, by their copies.                      *)
LEMMA PromiseCopies ==
    ASSUME BInv, BInv', NEW c, NEW b
    PROVE  /\ Copies(Promise(c, b), work) \in Nat /\ Copies(Promise(c, b), work') \in Nat
           /\ Promise(c, b) \in BagToSet(work) <=> Copies(Promise(c, b), work) > 0
           /\ Promise(c, b) \in BagToSet(work') <=> Copies(Promise(c, b), work') > 0
  <1>1. IsABag(work) /\ IsABag(work')
    BY DEF BInv, Types, WorkTypes
  <1> QED
    BY <1>1, CopiesFacts

LEMMA SolvesCookie ==
    ASSUME BInv, BInv', CookieInv, UNCHANGED <<restarts, cvars, db, notifs, sock, conn>>, NEW D, NEW r \in BOOLEAN, Solves(D, r),
           NEW G, NEW S, Moved(G, S), \A f \in G \cup S : f.op # "code", \A s \in S : s.op \notin {"ack", "restore"},
           r => \E g \in G : g.op = "restore" /\ D = g.v
    PROVE  CookieInv'
  <1>1. \A c \in Challenges : cache[c] => cache'[c]
    BY DEF Solves
  <1>2. BagToSet(net') \subseteq BagToSet(net) \cup S /\ G \subseteq BagToSet(net)
    BY MovedFacts, BInvFacts DEF Moved
  <1>3. ASSUME NEW c \in Challenges, Calm(c)
        PROVE  /\ Calm(c)' /\ (Told(c) => Told(c)') /\ (Unheard(c) => Unheard(c)')
               /\ Promised(c) \/ c \in D <=> Promised(c)'
               /\ cache'[c] <=> cache[c] \/ c \in D
    <2>1. r => c \notin D
      BY <1>2, <1>3 DEF Calm
    <2> DEFINE p == Promise(c, TRUE)
               q == Promise(c, FALSE)
    <2>2. /\ Copies(p, work') = Copies(p, work) + (IF c \in D /\ r THEN 1 ELSE 0)
          /\ Copies(q, work') = Copies(q, work) + (IF c \in D /\ ~r THEN 1 ELSE 0)
      BY DEF Solves
    <2>3. /\ Copies(p, work) \in Nat /\ (p \in BagToSet(work) <=> Copies(p, work) > 0) /\ (p \in BagToSet(work') <=> Copies(p, work') > 0)
          /\ Copies(q, work) \in Nat /\ (q \in BagToSet(work) <=> Copies(q, work) > 0) /\ (q \in BagToSet(work') <=> Copies(q, work') > 0)
      BY PromiseCopies
    <2>4. (p \in BagToSet(work') <=> p \in BagToSet(work)) /\ (q \in BagToSet(work') <=> q \in BagToSet(work) \/ c \in D)
      <3> HIDE DEF p, q
      <3> QED
        BY <2>1, <2>2, <2>3
    <2>5. Calm(c)'
      BY <1>2, <1>3, <2>4 DEF Calm, Promise
    <2>6. Promised(c) \/ c \in D <=> Promised(c)'
      BY <2>4 DEF Promised, Promise
    <2>7. (Told(c) => Told(c)') /\ (Unheard(c) => Unheard(c)')
      BY DEF Told, Unheard
    <2>8. cache'[c] <=> cache[c] \/ c \in D
      BY DEF Solves
    <2> QED
      BY <2>5, <2>6, <2>7, <2>8
  <1>4. \A c \in Challenges :
            /\ cache[c] /\ Waits(c) => Waits(c)'
            /\ ~cache[c] /\ Fresh(c) => (cache'[c] => Waits(c)') /\ (~cache'[c] => Fresh(c)')
    BY <1>3 DEF Waits, Fresh
  <1> QED
    BY <1>1, <1>4, ServerCookie

LEMMA RestoreCookie ==
    ASSUME BInv, BInv', NotifInv, CookieInv, NEW e \in BagToSet(net), restoreProgress(e), UNCHANGED cvars
    PROVE  CookieInv'
  <1>1. /\ Solves(e.v, TRUE) /\ Moved({e}, {}) /\ e.op = "restore"
        /\ UNCHANGED <<db, notifs, sock, conn, restarts>>
    BY RestoreSolves
  <1>2. \A f \in {e} \cup {} : f.op # "code"
    BY <1>1
  <1>3. \E g \in {e} : g.op = "restore" /\ e.v = g.v
    BY <1>1
  <1>4. PICK b \in BOOLEAN : b = TRUE /\ Solves(e.v, b)
    BY <1>1
  <1> DEFINE G == {e}
             S == {}
  <1>5. /\ Moved(G, S) /\ (\A f \in G \cup S : f.op # "code") /\ (\A s \in S : s.op \notin {"ack", "restore"})
        /\ b => \E g \in G : g.op = "restore" /\ e.v = g.v
    BY <1>1, <1>2, <1>3
  <1> HIDE DEF G, S
  <1> QED
    BY <1>1, <1>4, <1>5, SolvesCookie

LEMMA SolvingCookie ==
    ASSUME BInv, BInv', NotifInv, CookieInv, Solving, UNCHANGED cvars
    PROVE  CookieInv'
  <1>1. PICK b \in BOOLEAN : b = FALSE /\ \E D : Solves(D, b)
    BY SolvingSolves
  <1>4. PICK D : Solves(D, b)
    BY <1>1
  <1>2. UNCHANGED <<db, notifs, sock, conn, net, restarts>>
    BY SolvingSolves
  <1>3. Moved({}, {})
    BY <1>2, MovedBy, BInvFacts
  <1> QED
    BY <1>1, <1>2, <1>3, <1>4, SolvesCookie

(* The first notification and the first event about a challenge.           *)
LEMMA SentFirst ==
    ASSUME BInv, NEW c \in Challenges, NEW b \in BOOLEAN, sendNotification(c, b), OnlySolved
    PROVE  /\ \A d \in Challenges : FirstIsNew(notifs, d) => FirstIsNew(notifs', d)
           /\ \A t \in Tabs, d \in Challenges : FirstIsNew(sock[t], d) => FirstIsNew(sock'[t], d)
           /\ \A d \in Challenges : d # c => (Where(notifs, d) = {} => Where(notifs', d) = {})
           /\ \A t \in Tabs, d \in Challenges : d # c => (Where(sock[t], d) = {} => Where(sock'[t], d) = {})
           /\ ~b /\ Where(notifs, c) = {} =>
                 /\ FirstIsNew(notifs', c)
                 /\ \A t \in Tabs : conn[t] /\ Where(sock[t], c) = {} => FirstIsNew(sock'[t], c)
  <1> DEFINE x == SolvedEvent(c, b)
             out == b \/ Where(notifs, c) = {}
  <1>1. x \in Events /\ notifs' = Append(notifs, x) /\ sock' = IF out THEN Emit(x) ELSE sock
    BY SendNum
  <1>2. (\A d : Tells(x, d) <=> d = c) /\ x.restore = b
    BY DEF SolvedEvent, Tells
  <1>3. notifs \in Seq(Events) /\ sock \in [Tabs -> Seq(Events)]
    BY BInvFacts
  <1> HIDE DEF x
  <1>4. \A q \in Seq(Events), d \in Challenges :
            /\ FirstIsNew(q, d) => FirstIsNew(Append(q, x), d)
            /\ d # c => (Where(q, d) = {} => Where(Append(q, x), d) = {})
    <2> TAKE q \in Seq(Events), d \in Challenges
    <2>1. FirstIsNew(q, d) => FirstIsNew(Append(q, x), d)
      BY <1>1, AppendFirst
    <2>2. d # c => Where(Append(q, x), d) = Where(q, d)
      <3> HAVE d # c
      <3>1. ~Tells(x, d)
        BY <1>2
      <3> QED
        BY <1>1, <3>1, AppendOther
    <2> QED
      BY <2>1, <2>2
  <1>5. ~b => \A q \in Seq(Events) : Where(q, c) = {} => FirstIsNew(Append(q, x), c)
    BY <1>1, <1>2, AppendFirst
  <1>6. \A t \in Tabs : sock[t] \in Seq(Events) /\ (sock'[t] = sock[t] \/ sock'[t] = Append(sock[t], x))
    BY <1>1, <1>3 DEF Emit
  <1>7. out => \A t \in Tabs : conn[t] => sock'[t] = Append(sock[t], x)
    BY <1>1, <1>3 DEF Emit
  <1>8. Where(notifs, c) = {} => out
    OBVIOUS
  <1> HIDE DEF out
  <1>9. /\ \A d \in Challenges : FirstIsNew(notifs, d) => FirstIsNew(notifs', d)
        /\ \A d \in Challenges : d # c => (Where(notifs, d) = {} => Where(notifs', d) = {})
    BY <1>1, <1>3, <1>4
  <1>10. /\ \A t \in Tabs, d \in Challenges : FirstIsNew(sock[t], d) => FirstIsNew(sock'[t], d)
         /\ \A t \in Tabs, d \in Challenges : d # c => (Where(sock[t], d) = {} => Where(sock'[t], d) = {})
    BY <1>4, <1>6
  <1>11. ~b /\ Where(notifs, c) = {} =>
             /\ FirstIsNew(notifs', c)
             /\ \A t \in Tabs : conn[t] /\ Where(sock[t], c) = {} => FirstIsNew(sock'[t], c)
    BY <1>1, <1>3, <1>5, <1>6, <1>7, <1>8
  <1> QED
    BY <1>9, <1>10, <1>11

LEMMA SavedCookie ==
    ASSUME BInv, BInv', NotifInv, CookieInv, NEW e \in BagToSet(work), saved(e), UNCHANGED cvars
    PROVE  CookieInv'
  <1>1. /\ e.c \in Challenges /\ e.restore \in BOOLEAN /\ e = Promise(e.c, e.restore)
        /\ \A c \in Challenges, b \in BOOLEAN :
              Copies(Promise(c, b), work') = Copies(Promise(c, b), work) - (IF Promise(c, b) = e THEN 1 ELSE 0)
    BY SavedPromise
  <1>2. /\ UNCHANGED <<cache, conn, net, restarts>> /\ sendNotification(e.c, e.restore)
        /\ db' = [db EXCEPT ![e.c].solved = TRUE]
    BY DEF saved, hist
  <1>3. db'[e.c].solved = TRUE /\ \A d \in Challenges : d # e.c => db'[d] = db[d]
    BY <1>1, <1>2, BInvFacts DEF Rows, ChallengeTable
  <1>4. OnlySolved
    BY DEF NotifInv
  <1>5. Moved({}, {})
    BY <1>2, MovedBy, BInvFacts
  <1>6. ASSUME NEW c \in Challenges, c # e.c
        PROVE  Calm(c) => Calm(c)'
    <2>1. \A b \in BOOLEAN : Promise(c, b) # e
      BY <1>1, <1>6 DEF Promise
    <2>2. \A b \in BOOLEAN : Promise(c, b) \in BagToSet(work') <=> Promise(c, b) \in BagToSet(work)
      BY <1>1, <2>1, PromiseCopies
    <2> QED
      BY <1>2, <2>2 DEF Calm, Promise
  <1>7. ASSUME NEW c \in Challenges, c # e.c
        PROVE  (Promised(c) <=> Promised(c)') /\ (Told(c) => Told(c)') /\ (Unheard(c) => Unheard(c)')
    <2>1. \A b \in BOOLEAN : Promise(c, b) # e
      BY <1>1, <1>7 DEF Promise
    <2>2. \A b \in BOOLEAN : Promise(c, b) \in BagToSet(work') <=> Promise(c, b) \in BagToSet(work)
      BY <1>1, <2>1, PromiseCopies
    <2>3. Promised(c) <=> Promised(c)'
      BY <2>2 DEF Promised, Promise
    <2>6. /\ FirstIsNew(notifs, c) => FirstIsNew(notifs', c)
          /\ \A t \in Tabs : FirstIsNew(sock[t], c) => FirstIsNew(sock'[t], c)
          /\ Where(notifs, c) = {} => Where(notifs', c) = {}
          /\ \A t \in Tabs : Where(sock[t], c) = {} => Where(sock'[t], c) = {}
      BY <1>1, <1>2, <1>4, <1>7, SentFirst
    <2>4. Told(c) => Told(c)'
      BY <1>2, <1>3, <1>7, <2>6 DEF Told
    <2>5. Unheard(c) => Unheard(c)'
      BY <1>2, <1>3, <1>7, <2>6 DEF Unheard
    <2> QED
      BY <2>3, <2>4, <2>5
  <1>8. ASSUME Calm(e.c)
        PROVE  Calm(e.c)' /\ ~e.restore /\ Promised(e.c)
    <2> DEFINE c == e.c
               p == Promise(c, TRUE)
    <2>1. e # p /\ ~e.restore
      BY <1>1, <1>8 DEF Calm
    <2>2. Copies(p, work') = Copies(p, work)
      <3>1. \A b \in BOOLEAN : Promise(c, b) # e => Copies(Promise(c, b), work') = Copies(Promise(c, b), work)
        BY <1>1, PromiseCopies
      <3> QED
        BY <2>1, <3>1
    <2>3. p \notin BagToSet(work')
      BY <1>8, <2>2, PromiseCopies DEF Calm
    <2>4. Calm(e.c)'
      BY <1>2, <1>8, <2>3 DEF Calm, Promise
    <2>5. e = Promise(e.c, FALSE)
      BY <1>1, <2>1
    <2>6. Promised(e.c)
      BY <2>5 DEF Promised
    <2> QED
      BY <2>1, <2>4, <2>6
  <1>9. ASSUME Calm(e.c), Told(e.c) \/ Unheard(e.c)
        PROVE  Told(e.c)'
    <2>1. ~e.restore
      BY <1>8, <1>9
    <2>2. CASE Told(e.c)
      BY <1>1, <1>2, <1>3, <1>4, <2>2, SentFirst DEF Told
    <2>3. CASE Unheard(e.c)
      BY <1>1, <1>2, <1>3, <1>4, <2>1, <2>3, SentFirst DEF Told, Unheard
    <2> QED
      BY <1>9, <2>2, <2>3
  <1>10. \A c \in Challenges :
             /\ cache[c] /\ Waits(c) => Waits(c)'
             /\ ~cache[c] /\ Fresh(c) => (cache'[c] => Waits(c)') /\ (~cache'[c] => Fresh(c)')
    <2> TAKE c \in Challenges
    <2>1. CASE c = e.c
      BY <1>8, <1>9, <2>1 DEF Waits, Fresh
    <2>2. CASE c # e.c
      BY <1>2, <1>6, <1>7, <2>2 DEF Waits, Fresh
    <2> QED
      BY <2>1, <2>2
  <1> QED
    BY <1>2, <1>5, <1>10, ServerCookie

LEMMA RepeatCookie ==
    ASSUME BInv, BInv', NotifInv, CookieInv, NEW e \in BagToSet(net), repeatNotification(e), UNCHANGED cvars
    PROVE  CookieInv'
  <1>1. /\ e.c \in Challenges /\ e.op = "repeat" /\ net' = Take(net, e) /\ UNCHANGED <<cache, db, work, conn, restarts>>
        /\ restarts = 0 => db[e.c].solved
    BY BInvFacts DEF repeatNotification, Messages, MessageIsTrue, FreshAnswer
  <1>2. Moved({e}, {}) /\ OnlySolved /\ BagToSet(net') \subseteq BagToSet(net)
    BY <1>1, MovedBy, TakeFacts, BInvFacts DEF NotifInv
  <1>3. \A c \in Challenges : (Calm(c) => Calm(c)') /\ (Promised(c) <=> Promised(c)')
    BY <1>1, <1>2 DEF Calm, Promised, Promise
  <1>4. /\ \A c \in Challenges : Told(c) => Told(c)'
        /\ \A c \in Challenges : c # e.c => (Unheard(c) => Unheard(c)')
    <2>1. CASE cache[e.c]
      <3>1. PICK b \in BOOLEAN : sendNotification(e.c, b)
        BY <2>1 DEF repeatNotification
      <3> QED
        BY <1>1, <1>2, <3>1, SentFirst DEF Told, Unheard
    <2>2. CASE ~cache[e.c]
      <3>1. UNCHANGED <<notifs, sock>>
        BY <2>2 DEF repeatNotification
      <3> QED
        BY <1>1, <3>1 DEF Told, Unheard
    <2> QED
      BY <2>1, <2>2
  <1>5. restarts = 0 => \A c \in Challenges : Unheard(c) => Unheard(c)'
    BY <1>1, <1>4 DEF Unheard
  <1>6. restarts = 0 => \A c \in Challenges :
             /\ cache[c] /\ Waits(c) => Waits(c)'
             /\ ~cache[c] /\ Fresh(c) => (cache'[c] => Waits(c)') /\ (~cache'[c] => Fresh(c)')
    BY <1>1, <1>3, <1>4, <1>5 DEF Waits, Fresh
  <1>7. \A f \in {e} \cup {} : f.op # "code"
    BY <1>1
  <1> QED
    BY <1>1, <1>2, <1>6, <1>7, ServerCookie

LEMMA ReceivedCookie ==
    ASSUME BInv, BInv', NotifInv, CookieInv, NEW e \in BagToSet(net), notificationReceived(e), UNCHANGED cvars
    PROVE  CookieInv'
  <1>1. /\ e.c \in Challenges /\ e.op = "ack" /\ net' = Take(net, e)
        /\ UNCHANGED <<cache, db, work, conn, sock, restarts>>
    BY BInvFacts DEF notificationReceived, Messages, hist
  <1>2. Moved({e}, {}) /\ OnlySolved /\ BagToSet(net') \subseteq BagToSet(net)
    BY <1>1, MovedBy, TakeFacts, BInvFacts DEF NotifInv
  <1>3. /\ \A d \in Challenges : Where(notifs, d) = {} => Where(notifs', d) = {}
        /\ \A d \in Challenges : d # e.c /\ FirstIsNew(notifs, d) => FirstIsNew(notifs', d)
    BY <1>2, ReceivedNum
  <1>4. \A c \in Challenges : (Calm(c) => Calm(c)' /\ c # e.c) /\ (Promised(c) <=> Promised(c)') /\ (Unheard(c) => Unheard(c)')
    BY <1>1, <1>2, <1>3 DEF Calm, Promised, Promise, Unheard
  <1>5. \A c \in Challenges : c # e.c /\ Told(c) => Told(c)'
    BY <1>1, <1>3 DEF Told
  <1>6. \A c \in Challenges :
             /\ cache[c] /\ Waits(c) => Waits(c)'
             /\ ~cache[c] /\ Fresh(c) => (cache'[c] => Waits(c)') /\ (~cache'[c] => Fresh(c)')
    BY <1>1, <1>4, <1>5 DEF Waits, Fresh
  <1>7. \A f \in {e} \cup {} : f.op # "code"
    BY <1>1
  <1> QED
    BY <1>1, <1>2, <1>6, <1>7, ServerCookie

LEMMA ConnectionCookie ==
    ASSUME BInv, BInv', CookieInv, NEW t \in Tabs, connection(t), UNCHANGED cvars
    PROVE  CookieInv'
  <1>1. UNCHANGED <<cache, db, notifs, work, net, restarts>>
    BY DEF connection, hist
  <1>2. Moved({}, {})
    BY <1>1, MovedBy, BInvFacts
  <1>3. \A c \in Challenges : (Calm(c) => Calm(c)') /\ (Promised(c) <=> Promised(c)')
    BY <1>1 DEF Calm, Promised, Promise
  <1>4. ASSUME NEW c \in Challenges
        PROVE  /\ FirstIsNew(notifs, c) => FirstIsNew(sock'[t], c)
               /\ Where(notifs, c) = {} => Where(sock'[t], c) = {}
    <2>1. /\ FirstIsNew(notifs, c) => FirstIsNew(<<StartedEvent>> \o notifs, c)
          /\ Where(notifs, c) = {} => Where(<<StartedEvent>> \o notifs, c) = {}
      BY StartedFacts, ConsFirst, BInvFacts
    <2> QED
      BY <2>1, ConnectionSocket
  <1>5. \A c \in Challenges : (Told(c) => Told(c)') /\ (Unheard(c) => Unheard(c)')
    BY <1>1, <1>4, ConnectionSocket DEF Told, Unheard
  <1>6. \A c \in Challenges :
             /\ cache[c] /\ Waits(c) => Waits(c)'
             /\ ~cache[c] /\ Fresh(c) => (cache'[c] => Waits(c)') /\ (~cache'[c] => Fresh(c)')
    BY <1>1, <1>3, <1>5 DEF Waits, Fresh
  <1> QED
    BY <1>1, <1>2, <1>6, ServerCookie

-----------------------------------------------------------------------------
(* A tab handles an event.                                                 *)

LEMMA HandledSocket ==
    ASSUME BInv, NEW t \in Tabs, sock[t] # <<>>, Handled(t)
    PROVE  /\ sock[t] \in Seq(Events) /\ Ev(t) = Head(sock[t]) /\ Ev(t) \in Events /\ Ev(t).c \in Challenges
           /\ sock'[t] = Tail(sock[t]) /\ \A u \in Tabs : u # t => sock'[u] = sock[u]
           /\ \A c \in Challenges : ~Tells(Ev(t), c) =>
                 /\ Num(sock'[t], c) = Num(sock[t], c)
                 /\ Where(sock[t], c) = {} => Where(sock'[t], c) = {}
                 /\ FirstIsNew(sock[t], c) => FirstIsNew(sock'[t], c)
  <1>1. sock \in [Tabs -> Seq(Events)] /\ sock[t] \in Seq(Events)
    BY BInvFacts
  <1>2. sock'[t] = Tail(sock[t]) /\ \A u \in Tabs : u # t => sock'[u] = sock[u]
    BY <1>1 DEF Handled
  <1>3. Ev(t) = Head(sock[t]) /\ Ev(t) \in Events /\ Ev(t).c \in Challenges
    BY <1>1, TailFacts DEF Ev, Events
  <1>4. ASSUME NEW c \in Challenges, ~Tells(Ev(t), c)
        PROVE  /\ Num(Tail(sock[t]), c) = Num(sock[t], c)
               /\ Where(sock[t], c) = {} => Where(Tail(sock[t]), c) = {}
               /\ FirstIsNew(sock[t], c) => FirstIsNew(Tail(sock[t]), c)
    <2>1. \A s \in Seq(Events) : s # <<>> /\ ~Tells(Head(s), c) =>
             /\ Num(s, c) = Num(Tail(s), c) + 0
             /\ Where(s, c) = {} => Where(Tail(s), c) = {}
             /\ FirstIsNew(s, c) => FirstIsNew(Tail(s), c)
      BY TailNum, TailFirst
    <2>2. Num(Tail(sock[t]), c) \in Nat
      BY <1>1, TailFacts, WhereFacts
    <2> QED
      BY <1>1, <1>3, <1>4, <2>1, <2>2
  <1> QED
    BY <1>1, <1>2, <1>3, <1>4

(* An event that is not about a challenge that is solved.                  *)
LEMMA HandledOther ==
    ASSUME BInv, NEW t \in Tabs, sock[t] # <<>>, Handled(t), Ev(t).ev # "solved"
    PROVE  /\ \A u \in Tabs : SameEvents(sock'[u], sock[u])
           /\ \A u \in Tabs, c \in Challenges : Num(sock'[u], c) = Num(sock[u], c)
  <1>1. \A c : ~Tells(Ev(t), c)
    BY DEF Tells
  <1>2. ASSUME NEW u \in Tabs, NEW c \in Challenges
        PROVE  /\ Num(sock'[u], c) = Num(sock[u], c)
               /\ Where(sock[u], c) = {} => Where(sock'[u], c) = {}
               /\ FirstIsNew(sock[u], c) => FirstIsNew(sock'[u], c)
    <2>1. CASE u = t
      BY <1>1, <2>1, HandledSocket
    <2>2. CASE u # t
      BY <2>2, HandledSocket
    <2> QED
      BY <2>1, <2>2
  <1> QED
    BY <1>2 DEF SameEvents

(* What a tab sends when a challenge is solved.                            *)
LEMMA SolvedMoved ==
    ASSUME BInv, NEW t \in Tabs, onChallengeSolved(t)
    PROVE  LET ack == Ack(t, Ev(t).c)
               code == Req(t, "code", Ev(t).c, {})
           IN /\ Ev(t).restore => Moved({}, {ack}) /\ UNCHANGED parallel
              /\ ~Ev(t).restore => /\ Moved({}, {ack, code})
                                   /\ parallel' = (parallel \/ \E u \in Tabs : InFlight(u, {"code"}))
  <1> DEFINE a == Ack(t, Ev(t).c)
             k == Req(t, "code", Ev(t).c, {})
  <1>1. a.op = "ack" /\ k.op = "code"
    BY RequestFacts DEF Ack
  <1>2. IF Ev(t).restore THEN net' = Put(net, a) /\ UNCHANGED parallel
        ELSE net' = Put(Put(net, a), k) /\ parallel' = (parallel \/ \E u \in Tabs : InFlight(u, {"code"}))
    BY DEF onChallengeSolved, saveProgress, Ack
  <1>3. IsABag(net)
    BY BInvFacts
  <1> HIDE DEF a, k
  <1>4. ASSUME net' = Put(Put(net, a), k)
        PROVE  Moved({}, {a, k})
    <2>1. a # k
      BY <1>1
    <2>2. \A f : Copies(f, net) \in Nat
      BY <1>3, CopiesFacts
    <2> DEFINE n == Put(net, a)
    <2>3. IsABag(n) /\ \A f : Copies(f, n) = Copies(f, net) + (IF f = a THEN 1 ELSE 0)
      BY <1>3, PutFacts
    <2> HIDE DEF n
    <2>4. IsABag(Put(n, k)) /\ \A f : Copies(f, Put(n, k)) = Copies(f, n) + (IF f = k THEN 1 ELSE 0)
      BY <2>3, PutFacts
    <2>5. net' = Put(n, k)
      BY <1>4 DEF n
    <2>6. \A f : Copies(f, net') = Copies(f, net) - (IF f \in {} THEN 1 ELSE 0) + (IF f \in {a, k} THEN 1 ELSE 0)
      BY <2>1, <2>2, <2>3, <2>4, <2>5
    <2> QED
      BY <2>4, <2>5, <2>6 DEF Moved
  <1>5. net' = Put(net, a) => Moved({}, {a})
    BY <1>3, MovedBy
  <1> QED
    BY <1>2, <1>4, <1>5 DEF a, k

LEMMA SolvedNotif ==
    ASSUME BInv, BInv', NotifInv, NEW t \in Tabs, onChallengeSolved(t)
    PROVE  NotifInv'
  <1> DEFINE a == Ack(t, Ev(t).c)
             k == Req(t, "code", Ev(t).c, {})
  <1>1. sock[t] # <<>> /\ Handled(t) /\ Ev(t).ev = "solved" /\ UNCHANGED <<cache, db, notifs, work, conn, times>>
    BY DEF onChallengeSolved, svars, hist
  <1>2. a.op = "ack" /\ k.op = "code" /\ a = Ack(a.t, a.c)
    BY RequestFacts DEF Ack
  <1>3. PICK S : Moved({}, S) /\ a \in S /\ S \subseteq {a, k}
    BY SolvedMoved
  <1>4. Calls' /\ OnlySolved' /\ times' \in [Challenges -> Nat]
    BY <1>1 DEF NotifInv, Calls, OnlySolved, Promise
  <1>5. AcksAreRequests'
    <2> HIDE DEF a, k
    <2>1. \A e \in BagToSet(net') : e \in BagToSet(net) \/ e = a \/ e = k
      BY <1>3, MovedFacts, BInvFacts
    <2>2. \A e \in BagToSet(net') : e.op = "ack" => e = Ack(e.t, e.c)
      BY <1>2, <2>1 DEF NotifInv, AcksAreRequests
    <2> QED
      BY <2>2 DEF AcksAreRequests, Ack, Req, NoRows
  <1>6. ASSUME NEW u \in Tabs, NEW c \in Challenges, conn'[u], times'[c] <= 1
        PROVE  Num(notifs', c) <= Num(sock'[u], c) + Copies(Ack(u, c), net')
    <2> DEFINE b == Ack(u, c)
    <2>1. Num(notifs, c) <= Num(sock[u], c) + Copies(b, net)
      BY <1>1, <1>6 DEF NotifInv, Awaited
    <2>2. Num(notifs, c) \in Nat /\ Num(sock[u], c) \in Nat /\ Copies(b, net) \in Nat
      BY NumFacts
    <2>3. Copies(b, net') = Copies(b, net) + (IF b \in S THEN 1 ELSE 0)
      <3> HIDE DEF b
      <3>1. Copies(b, net') = Copies(b, net) - (IF b \in {} THEN 1 ELSE 0) + (IF b \in S THEN 1 ELSE 0)
        BY <1>3 DEF Moved
      <3> QED
        BY <2>2, <3>1
    <2>4. u = t /\ c = Ev(t).c => b \in S
      BY <1>3
    <2>5. Num(sock'[u], c) \in Nat
      <3>1. sock'[u] \in Seq(Events)
        BY DEF BInv, Types, WireTypes
      <3> QED
        BY <3>1, WhereFacts
    <2>6. Num(sock[u], c) = Num(sock'[u], c) \/ (u = t /\ c = Ev(t).c /\ Num(sock[u], c) = Num(sock'[u], c) + 1)
      <3>1. CASE u # t
        BY <1>1, <3>1, HandledSocket
      <3>2. CASE u = t /\ c # Ev(t).c
        <4>1. ~Tells(Ev(t), c)
          BY <3>2 DEF Tells
        <4> QED
          BY <1>1, <3>2, <4>1, HandledSocket
      <3>3. CASE u = t /\ c = Ev(t).c
        <4>1. Tells(Ev(t), c) /\ sock[t] \in Seq(Events) /\ sock'[t] = Tail(sock[t]) /\ Ev(t) = Head(sock[t])
          BY <1>1, <3>3, HandledSocket DEF Tells
        <4>2. \A s \in Seq(Events) : s # <<>> /\ Tells(Head(s), c) => Num(s, c) = Num(Tail(s), c) + 1
          BY TailNum
        <4> QED
          BY <1>1, <3>3, <4>1, <4>2
      <3> QED
        BY <3>1, <3>2, <3>3
    <2> HIDE DEF b
    <2>7. Num(notifs, c) <= Num(sock'[u], c) + Copies(b, net')
      BY <2>1, <2>2, <2>3, <2>4, <2>5, <2>6
    <2> QED
      BY <1>1, <2>7 DEF b
  <1>7. Awaited'
    BY <1>6 DEF Awaited, Ack, Req, NoRows
  <1> QED
    BY <1>4, <1>5, <1>7 DEF NotifInv

LEMMA SolvedCookie ==
    ASSUME BInv, BInv', Connected, CookieInv, NEW t \in Tabs, onChallengeSolved(t)
    PROVE  CookieInv'
  <1> DEFINE a == Ack(t, Ev(t).c)
             k == Req(t, "code", Ev(t).c, {})
             x == Ev(t)
  <1>1. /\ sock[t] # <<>> /\ Handled(t) /\ x.ev = "solved" /\ UNCHANGED <<cache, db, notifs, work, conn, restarts, cookie>>
        /\ conn[t]
    BY DEF onChallengeSolved, svars, hist, Connected
  <1>2. a.op = "ack" /\ a.c = x.c /\ k.op = "code" /\ k.at = "req"
    BY RequestFacts DEF Ack
  <1>3. /\ x.restore => Moved({}, {a}) /\ UNCHANGED parallel
        /\ ~x.restore => Moved({}, {a, k}) /\ parallel' = (parallel \/ \E u \in Tabs : InFlight(u, {"code"}))
    BY SolvedMoved
  <1>4. /\ sock[t] \in Seq(Events) /\ x = Head(sock[t])
        /\ sock'[t] = Tail(sock[t]) /\ \A u \in Tabs : u # t => sock'[u] = sock[u]
        /\ \A c \in Challenges : ~Tells(x, c) =>
              /\ Where(sock[t], c) = {} => Where(sock'[t], c) = {}
              /\ FirstIsNew(sock[t], c) => FirstIsNew(sock'[t], c)
    BY <1>1, HandledSocket
  <1> HIDE DEF a, k, x
  <1> SUFFICES ASSUME restarts = 0, ~parallel'
               PROVE  LoneCode' /\ CodesGrow' /\ \A c \in Challenges : (cache'[c] => Covered(c)' \/ Waits(c)') /\ (~cache'[c] => Fresh(c)')
    BY <1>1 DEF CookieInv, Waits, Fresh
  <1>5. ~parallel /\ (~x.restore => \A f \in BagToSet(net) : f.op # "code")
    <2>1. \A f \in BagToSet(net) : f.t \in Tabs
      BY BInvFacts DEF Messages
    <2>2. CASE x.restore
      BY <1>3, <2>2
    <2>3. CASE ~x.restore
      <3>1. ~(parallel \/ \E u \in Tabs : InFlight(u, {"code"}))
        BY <1>3, <2>3, Zenon
      <3> QED
        BY <2>1, <2>3, <3>1 DEF InFlight
    <2> QED
      BY <2>2, <2>3
  <1>6. LoneCode /\ CodesGrow /\ \A c \in Challenges : (cache[c] => Covered(c) \/ Waits(c)) /\ (~cache[c] => Fresh(c))
    BY <1>1, <1>5 DEF CookieInv, Waits, Fresh
  <1>7. PICK S : Moved({}, S) /\ S = (IF x.restore THEN {a} ELSE {a, k})
    BY <1>3
  <1>8. ASSUME NEW c \in Challenges, c # x.c
        PROVE  (Calm(c) => Calm(c)') /\ (Told(c) => Told(c)') /\ (Unheard(c) => Unheard(c)') /\ (Promised(c) <=> Promised(c)')
    <2>1. BagToSet(net') \subseteq BagToSet(net) \cup {a, k}
      BY <1>7, MovedFacts, BInvFacts
    <2>2. Calm(c) => Calm(c)'
      BY <1>1, <1>2, <1>8, <2>1 DEF Calm, Promise
    <2>3. ~Tells(x, c)
      BY <1>8 DEF Tells
    <2>4. \A u \in Tabs : (Where(sock[u], c) = {} => Where(sock'[u], c) = {}) /\ (FirstIsNew(sock[u], c) => FirstIsNew(sock'[u], c))
      BY <1>4, <2>3
    <2>5. (Told(c) => Told(c)') /\ (Unheard(c) => Unheard(c)')
      BY <1>1, <2>4 DEF Told, Unheard
    <2>6. Promised(c) <=> Promised(c)'
      BY <1>1 DEF Promised, Promise
    <2> QED
      BY <2>2, <2>5, <2>6
  <1>9. ASSUME NEW c \in Challenges, c = x.c
        PROVE  ~Unheard(c) /\ (x.restore => ~Told(c))
    <2>1. Tells(x, c)
      BY <1>1, <1>9 DEF Tells
    <2>2. \A s \in Seq(Events) : s # <<>> /\ Tells(Head(s), c) => 1 \in Where(s, c) /\ (FirstIsNew(s, c) => ~Head(s).restore)
      BY TailNum, TailFirst
    <2>3. 1 \in Where(sock[t], c) /\ (FirstIsNew(sock[t], c) => ~x.restore)
      BY <1>1, <1>4, <2>1, <2>2
    <2> QED
      BY <1>1, <2>3 DEF Unheard, Told
  <1>10. ASSUME NEW c \in Challenges, ~cache[c]
         PROVE  Fresh(c)'
    <2>1. c # x.c
      BY <1>6, <1>9, <1>10 DEF Fresh
    <2> QED
      BY <1>6, <1>8, <1>10, <2>1 DEF Fresh
  <1>11. CASE x.restore
    <2>1. \A f : f.op = "code" => Copies(f, net') = Copies(f, net) /\ (f \in BagToSet(net') <=> f \in BagToSet(net))
      BY <1>2, <1>7, <1>11, MovedFacts, BInvFacts
    <2>2. LoneCode' /\ CodesGrow'
      BY <1>1, <1>6, <2>1 DEF LoneCode, CodesGrow, Cached
    <2>3. \A c \in Challenges : Covered(c) => Covered(c)'
      BY <1>1, <2>1 DEF Covered
    <2>4. ASSUME NEW c \in Challenges, cache[c]
          PROVE  Covered(c)' \/ Waits(c)'
      <3>1. CASE Covered(c)
        BY <2>3, <3>1
      <3>2. CASE Waits(c)
        <4>1. c # x.c
          BY <1>9, <1>11, <3>2 DEF Waits
        <4> QED
          BY <1>8, <3>2, <4>1 DEF Waits
      <3> QED
        BY <1>6, <2>4, <3>1, <3>2
    <2> QED
      BY <1>1, <1>10, <2>2, <2>4
  <1>12. CASE ~x.restore
    <2>1. a # k /\ k \notin BagToSet(net)
      BY <1>2, <1>5, <1>12
    <2>2. Copies(k, net') = 1 /\ k \in BagToSet(net') /\ \A f \in BagToSet(net') : f.op = "code" => f = k
      <3>1. Copies(k, net) = 0
        BY <2>1, CopiesFacts, BInvFacts
      <3>2. Copies(k, net') = Copies(k, net) - (IF k \in {} THEN 1 ELSE 0) + (IF k \in S THEN 1 ELSE 0)
        BY <1>7 DEF Moved
      <3>3. k \in S /\ S = {a, k}
        BY <1>7, <1>12
      <3>4. BagToSet(net') \subseteq BagToSet(net) \cup S /\ k \in BagToSet(net')
        BY <1>7, <3>3, MovedFacts, BInvFacts
      <3> QED
        BY <1>2, <1>5, <1>12, <3>1, <3>2, <3>3, <3>4
    <2>3. LoneCode'
      BY <2>2 DEF LoneCode
    <2>4. CodesGrow'
      BY <1>1, <1>2, <1>6, <2>2 DEF CodesGrow, Cached
    <2>5. \A c \in Challenges : Covered(c)'
      BY <1>2, <2>2 DEF Covered
    <2> QED
      BY <1>1, <1>10, <2>3, <2>4, <2>5
  <1> QED
    BY <1>11, <1>12

(* The cookies are handed back to a server that has started.               *)
LEMMA StartedCookie ==
    ASSUME BInv, BInv', CookieInv, NEW t \in Tabs, onServerStarted(t)
    PROVE  CookieInv'
  <1>1. /\ sock[t] # <<>> /\ Handled(t) /\ Ev(t).ev = "started" /\ net' = net (+) Apply(t, cookie)
        /\ UNCHANGED <<cache, db, notifs, work, conn, restarts, cookie, parallel>>
    BY DEF onServerStarted, svars, hist, cvars
  <1>2. PICK S : /\ Moved({}, S)
                 /\ \A s \in S : \/ s.op = "restore" /\ s.v = cookie.hack
                                 \/ s.op = "restoreFind" /\ s.v = cookie.find
                                 \/ s.op = "restoreFix" /\ s.v = cookie.fix
    BY <1>1, ApplyMoved
  <1> SUFFICES ASSUME restarts = 0, ~parallel
               PROVE  LoneCode' /\ CodesGrow' /\ \A c \in Challenges : (cache'[c] => Covered(c)' \/ Waits(c)') /\ (~cache'[c] => Fresh(c)')
    BY <1>1 DEF CookieInv, Waits, Fresh
  <1>3. LoneCode /\ CodesGrow /\ \A c \in Challenges : (cache[c] => Covered(c) \/ Waits(c)) /\ (~cache[c] => Fresh(c))
    BY <1>1 DEF CookieInv, Waits, Fresh
  <1>4. \A f : f.op = "code" => Copies(f, net') = Copies(f, net) /\ (f \in BagToSet(net') <=> f \in BagToSet(net))
    <2>1. \A s \in S : s.op # "code"
      BY <1>2
    <2>2. \A f : f \notin S => Copies(f, net') = Copies(f, net) /\ (f \in BagToSet(net') <=> f \in BagToSet(net))
      BY <1>2, MovedFacts, BInvFacts
    <2> QED
      BY <2>1, <2>2
  <1>5. LoneCode' /\ CodesGrow'
    BY <1>1, <1>3, <1>4 DEF LoneCode, CodesGrow, Cached
  <1>6. \A c \in Challenges : Covered(c) => Covered(c)'
    BY <1>1, <1>4 DEF Covered
  <1>7. \A u \in Tabs : SameEvents(sock'[u], sock[u])
    BY <1>1, HandledOther
  <1>8. ASSUME NEW c \in Challenges, c \notin cookie.hack
        PROVE  /\ Calm(c) => Calm(c)'
               /\ Told(c) => Told(c)'
               /\ Unheard(c) => Unheard(c)'
               /\ Promised(c) <=> Promised(c)'
    <2>1. \A s \in S : (s.op = "ack" => s.c # c) /\ (s.op = "restore" => c \notin s.v)
      BY <1>2, <1>8
    <2> QED
      BY <1>1, <1>2, <1>7, <2>1, KnownKept
  <1>9. \A c \in cookie.hack : cache[c] /\ Covered(c)
    BY <1>3 DEF CodesGrow, Cached, Covered
  <1> QED
    BY <1>1, <1>3, <1>5, <1>6, <1>8, <1>9 DEF Waits, Fresh

-----------------------------------------------------------------------------
(* Boards.                                                                 *)

LEMMA AppendCode ==
    ASSUME NEW s \in Seq(Events), NEW x \in Events, NEW c
    PROVE  /\ ~IsCode(x, c) /\ LastIsCurrent(s, c) => LastIsCurrent(Append(s, x), c)
           /\ IsCode(x, c) /\ UpToDate(c, x.code) => LastIsCurrent(Append(s, x), c)
           /\ NoCode(Append(s, x), c) => NoCode(s, c) /\ ~IsCode(x, c)
           /\ Where(s, c) # {} \/ Tells(x, c) => Where(Append(s, x), c) # {}
  <1> DEFINE n == Append(s, x)
  <1>1. /\ DOMAIN n = DOMAIN s \cup {Len(s) + 1} /\ DOMAIN s = 1..Len(s) /\ Len(s) \in Nat
        /\ n[Len(s) + 1] = x /\ \A i \in DOMAIN s : n[i] = s[i]
    OBVIOUS
  <1> HIDE DEF n
  <1>2. ASSUME ~IsCode(x, c), LastIsCurrent(s, c)
        PROVE  LastIsCurrent(n, c)
    BY <1>1, <1>2 DEF LastIsCurrent
  <1>3. ASSUME IsCode(x, c), UpToDate(c, x.code)
        PROVE  LastIsCurrent(n, c)
    <2>1. \A i \in DOMAIN s : Len(s) + 1 > i /\ Len(s) + 1 \in DOMAIN n
      BY <1>1
    <2> QED
      BY <1>1, <1>3, <2>1 DEF LastIsCurrent
  <1>4. NoCode(n, c) => NoCode(s, c) /\ ~IsCode(x, c)
    BY <1>1 DEF NoCode
  <1>5. Where(s, c) # {} \/ Tells(x, c) => Where(n, c) # {}
    BY <1>1 DEF Where
  <1> QED
    BY <1>2, <1>3, <1>4, <1>5 DEF n

LEMMA TailCode ==
    ASSUME NEW s \in Seq(Events), s # <<>>, NEW c
    PROVE  /\ LastIsCurrent(s, c) => LastIsCurrent(Tail(s), c)
           /\ ~IsCode(Head(s), c) /\ NoCode(Tail(s), c) => NoCode(s, c)
           /\ IsCode(Head(s), c) /\ NoCode(Tail(s), c) /\ LastIsCurrent(s, c) => UpToDate(c, Head(s).code)
           /\ ~Tells(Head(s), c) /\ Where(s, c) # {} => Where(Tail(s), c) # {}
  <1> DEFINE n == Tail(s)
             h == Head(s)
  <1>1. /\ DOMAIN n = 1..(Len(s) - 1) /\ DOMAIN s = 1..Len(s) /\ Len(s) \in Nat /\ Len(s) >= 1
        /\ h = s[1] /\ \A i \in 1..(Len(s) - 1) : n[i] = s[i + 1]
    OBVIOUS
  <1> HIDE DEF n, h
  <1>2. \A j \in DOMAIN s : j = 1 \/ (j - 1 \in DOMAIN n /\ n[j - 1] = s[j])
    <2> TAKE j \in DOMAIN s
    <2>1. CASE j # 1
      <3>1. j - 1 \in 1..(Len(s) - 1) /\ (j - 1) + 1 = j
        BY <1>1, <2>1
      <3> QED
        BY <1>1, <3>1
    <2> QED
      BY <2>1
  <1>3. \A i \in DOMAIN n : i \in Int /\ i + 1 \in DOMAIN s /\ n[i] = s[i + 1]
    BY <1>1
  <1>4. ASSUME LastIsCurrent(s, c)
        PROVE  LastIsCurrent(n, c)
    <2> SUFFICES ASSUME NEW i \in DOMAIN n, IsCode(n[i], c), \A j \in DOMAIN n : j > i => ~IsCode(n[j], c)
                 PROVE  UpToDate(c, n[i].code)
      BY DEF LastIsCurrent
    <2>1. i + 1 \in DOMAIN s /\ n[i] = s[i + 1] /\ i \in Int /\ i >= 1
      BY <1>1, <1>3
    <2>2. ASSUME NEW j \in DOMAIN s, j > i + 1
          PROVE  ~IsCode(s[j], c)
      <3>1. j - 1 \in DOMAIN n /\ n[j - 1] = s[j] /\ j - 1 > i
        BY <1>1, <1>2, <2>1, <2>2
      <3> QED
        BY <3>1
    <2> QED
      BY <1>4, <2>1, <2>2 DEF LastIsCurrent
  <1>5. ~IsCode(h, c) /\ NoCode(n, c) => NoCode(s, c)
    BY <1>1, <1>2 DEF NoCode
  <1>6. ASSUME IsCode(h, c), NoCode(n, c), LastIsCurrent(s, c)
        PROVE  UpToDate(c, h.code)
    <2>1. 1 \in DOMAIN s /\ \A j \in DOMAIN s : j > 1 => ~IsCode(s[j], c)
      BY <1>1, <1>2, <1>6 DEF NoCode
    <2> QED
      BY <1>1, <1>6, <2>1 DEF LastIsCurrent
  <1>7. ~Tells(h, c) /\ Where(s, c) # {} => Where(n, c) # {}
    BY <1>1, <1>2 DEF Where
  <1> QED
    BY <1>4, <1>5, <1>6, <1>7 DEF n, h

(* The handlers that answer or wait.                                       *)
Replies(e) ==
    \/ listChallenges(e) \/ continueCode(e) \/ continueCodeFindIt(e) \/ continueCodeFixIt(e) \/ putHint(e)
    \/ findFilesWithCodeChallenges(e) \/ serveCodeSnippet(e) \/ serveCodeFixes(e) \/ checkVulnLines(e) \/ checkCorrectFix(e)

LEMMA ReplyMoved ==
    ASSUME BInv, NEW e \in BagToSet(net), Replies(e)
    PROVE  /\ UNCHANGED <<db, sock, conn, restarts>> /\ e.at \in {"req", "load"}
           /\ \E g : /\ Moved({e}, {g}) /\ g.t = e.t /\ g.op = e.op /\ g.c = e.c
                     /\ g.op = "board" => g.rows = db
                     /\ OldPhases(g)
  <1>1. UNCHANGED <<db, sock, conn, restarts>> /\ e.at \in {"req", "load"}
    BY DEF Replies, listChallenges, continueCode, continueCodeFindIt, continueCodeFixIt, putHint, findFilesWithCodeChallenges,
           serveCodeSnippet, serveCodeFixes, checkVulnLines, checkCorrectFix, svars, hist
  <1>2. e \in Messages /\ MessageIsTrue(e) /\ \A c \in Challenges : db[c].code \in 0..2
    BY BInvFacts
  <1> DEFINE Good(g) ==
        /\ g.t = e.t /\ g.op = e.op /\ g.c = e.c /\ (g.op = "board" => g.rows = db) /\ OldPhases(g)
  <1>3. ASSUME NEW g, net' = Swap(net, e, g), Good(g)
        PROVE  \E f : Moved({e}, {f}) /\ Good(f)
    <2>1. Moved({e}, {g})
      BY <1>3, MovedBy, BInvFacts
    <2> QED
      BY <1>3, <2>1
  <1>4. ASSUME NEW at, NEW word, NEW g, g = [e EXCEPT !.at = at, !.word = word],
               e.op \in {"hint", "snippet", "fixes", "lines", "fix"}
        PROVE  Good(g)
    <2>1. g.t = e.t /\ g.op = e.op /\ g.c = e.c
      BY <1>2, <1>4 DEF Messages
    <2> QED
      BY <1>4, <2>1 DEF OldPhases
  <1>5. ASSUME NEW at, NEW g, g = [e EXCEPT !.at = at],
               e.op \in {"hint", "snippet", "fixes", "lines", "fix"}
        PROVE  Good(g)
    <2>1. g.t = e.t /\ g.op = e.op /\ g.c = e.c
      BY <1>2, <1>5 DEF Messages
    <2> QED
      BY <1>5, <2>1 DEF OldPhases
  <1>6. CASE listChallenges(e)
    <2> DEFINE g == [e EXCEPT !.at = "ans", !.rows = db]
    <2>1. net' = Swap(net, e, g) /\ e.op = "board"
      BY <1>6 DEF listChallenges
    <2>2. Good(g)
      BY <1>2, <2>1 DEF Messages, OldPhases
    <2> HIDE DEF g, Good
    <2>3. \E f : Moved({e}, {f}) /\ Good(f)
      BY <1>3, <2>1, <2>2
    <2> QED
      BY <1>1, <2>3 DEF Good
  <1>7. CASE continueCode(e) \/ continueCodeFindIt(e) \/ continueCodeFixIt(e)
    <2>1. PICK v : /\ net' = Swap(net, e, [e EXCEPT !.at = "ans", !.v = v])
                   /\ \/ e.op = "code"
                      \/ e.op = "codeFind" /\ v = {c \in Challenges : db[c].code >= 1}
                      \/ e.op = "codeFix" /\ v = {c \in Challenges : db[c].code >= 2}
      BY <1>7 DEF continueCode, continueCodeFindIt, continueCodeFixIt, Answer
    <2> DEFINE g == [e EXCEPT !.at = "ans", !.v = v]
    <2>2. g.t = e.t /\ g.op = e.op /\ g.c = e.c /\ g.v = v
      BY <1>2 DEF Messages
    <2>3. net' = Swap(net, e, g)
      BY <2>1
    <2> HIDE DEF g
    <2>4. OldPhases(g)
      BY <1>2, <2>1, <2>2 DEF OldPhases
    <2>5. Good(g)
      BY <2>1, <2>2, <2>4
    <2> HIDE DEF Good
    <2>6. \E f : Moved({e}, {f}) /\ Good(f)
      BY <1>3, <2>3, <2>5
    <2> QED
      BY <1>1, <2>6 DEF Good
  <1>8. CASE ~(listChallenges(e) \/ continueCode(e) \/ continueCodeFindIt(e) \/ continueCodeFixIt(e))
    <2>1. e.op \in {"hint", "snippet", "fixes", "lines", "fix"}
      BY <1>2, <1>8
      DEF Replies, putHint, findFilesWithCodeChallenges, serveCodeSnippet, serveCodeFixes, checkVulnLines, checkCorrectFix,
          MessageIsTrue, WaitsForSnippets
    <2>2. \/ \E at : net' = Swap(net, e, [e EXCEPT !.at = at])
          \/ \E at, word : net' = Swap(net, e, [e EXCEPT !.at = at, !.word = word])
      BY <1>8
      DEF Replies, putHint, findFilesWithCodeChallenges, serveCodeSnippet, serveCodeFixes, checkVulnLines, checkCorrectFix,
          Reply, retrieveCodeSnippet
    <2>3. \E g : net' = Swap(net, e, g) /\ Good(g)
      <3> HIDE DEF Good
      <3> QED
        BY <1>4, <1>5, <2>1, <2>2
    <2> HIDE DEF Good
    <2>4. \E f : Moved({e}, {f}) /\ Good(f)
      BY <1>3, <2>3
    <2> QED
      BY <1>1, <2>4 DEF Good
  <1> QED
    BY <1>6, <1>7, <1>8

(* Handlers that change no row: what is sent goes on with a request.       *)
LEMMA ServerBoard ==
    ASSUME BInv, BInv', BoardInv, UNCHANGED cvars, UNCHANGED <<restarts, conn, db, sock>>,
           NEW G, NEW S, Moved(G, S), \A g \in G : g.op \in {"lines", "fix"} => g.at # "score",
           \A s \in S : \E e \in BagToSet(net) : e.t = s.t /\ e.op = s.op /\ e.c = s.c /\ (s.op \in {"lines", "fix"} => e.at # "ans"),
           \A s \in S : s.op = "board" => s.rows = db,
           (\A e \in BagToSet(net) : OldPhases(e)) => \A s \in S : OldPhases(s)
    PROVE  BoardInv'
  <1>1. UNCHANGED <<board, crossed, cookie>> /\ BagToSet(net) \subseteq Messages
    BY BInvFacts DEF cvars
  <1>2. PhasesApart => PhasesApart'
    BY PhasesKept
  <1>3. OldCookie => OldCookie'
    BY <1>1 DEF OldCookie
  <1>4. \A t \in Tabs : ~crossed'[t] => PhasesApart' /\ OldCookie' /\ \A s \in S : OldPhases(s)
    BY <1>1, <1>2, <1>3 DEF BoardInv
  <1>5. ASSUME NEW s \in S, s.op \in {"board", "hint"}
        PROVE  conn[s.t] \/ crossed'[s.t]
    <2>1. PICK e \in BagToSet(net) : e.t = s.t /\ e.op = s.op
      OBVIOUS
    <2>2. s.t \in Tabs /\ InFlight(s.t, {"board", "hint"})
      BY <1>1, <1>5, <2>1 DEF InFlight, Messages
    <2> QED
      BY <1>1, <2>2 DEF BoardInv, Connected
  <1> QED
    BY <1>1, <1>4, <1>5, BoardKept

LEMMA ReplyBoard ==
    ASSUME BInv, BInv', BoardInv, NEW e \in BagToSet(net), Replies(e), UNCHANGED cvars
    PROVE  BoardInv'
  <1>1. UNCHANGED <<db, sock, conn, restarts>> /\ e.at \in {"req", "load"}
    BY ReplyMoved
  <1>2. PICK g : /\ Moved({e}, {g}) /\ g.t = e.t /\ g.op = e.op /\ g.c = e.c
                 /\ g.op = "board" => g.rows = db
                 /\ OldPhases(g)
    BY ReplyMoved
  <1> DEFINE G == {e}
             S == {g}
  <1>3. Moved(G, S) /\ (\A h \in G : h = e) /\ (\A s \in S : s = g)
    BY <1>2
  <1> HIDE DEF G, S
  <1>4. \A h \in G : h.op \in {"lines", "fix"} => h.at # "score"
    BY <1>1, <1>3
  <1>5. \A s \in S : \E f \in BagToSet(net) : f.t = s.t /\ f.op = s.op /\ f.c = s.c /\ f.at # "ans"
    BY <1>1, <1>2, <1>3
  <1>6. \A s \in S : (s.op = "board" => s.rows = db) /\ OldPhases(s)
    BY <1>2, <1>3
  <1> QED
    BY <1>1, <1>3, <1>4, <1>5, <1>6, ServerBoard

LEMMA TakenBoard ==
    ASSUME BInv, BInv', BoardInv, UNCHANGED cvars,
           \/ \E e \in BagToSet(net) : notificationReceived(e) \/ restoreProgress(e)
           \/ Solving
    PROVE  BoardInv'
  <1>1. UNCHANGED <<restarts, conn, db, sock>>
    BY DEF notificationReceived, restoreProgress, Solving, notify, jwtVerified, counted, Occur, accessControlChallenges,
           jwtChallenges, databaseRelatedChallenges, hist, wires
  <1>2. \E G : Moved(G, {}) /\ \A g \in G : g.op \in {"ack", "restore"}
    <2>1. ASSUME NEW e \in BagToSet(net), notificationReceived(e) \/ restoreProgress(e)
          PROVE  \E G : Moved(G, {}) /\ \A g \in G : g.op \in {"ack", "restore"}
      <3>1. net' = Take(net, e) /\ e.op \in {"ack", "restore"}
        BY <2>1 DEF notificationReceived, restoreProgress
      <3>2. Moved({e}, {})
        BY <3>1, MovedBy, BInvFacts
      <3> QED
        BY <3>1, <3>2
    <2>2. ASSUME Solving
          PROVE  \E G : Moved(G, {}) /\ \A g \in G : g.op \in {"ack", "restore"}
      <3>1. UNCHANGED net
        BY <2>2 DEF Solving, notify, jwtVerified, counted, Occur, accessControlChallenges, jwtChallenges,
                    databaseRelatedChallenges, wires
      <3>2. Moved({}, {})
        BY <3>1, MovedBy, BInvFacts
      <3> QED
        BY <3>2
    <2> QED
      BY <2>1, <2>2
  <1>3. PICK G, S : Moved(G, S) /\ S = {} /\ \A g \in G : g.op \in {"ack", "restore"}
    BY <1>2
  <1>4. /\ \A g \in G : g.op \in {"lines", "fix"} => g.at # "score"
        /\ \A s \in S : \E e \in BagToSet(net) : e.t = s.t /\ e.op = s.op /\ e.c = s.c /\ e.at # "ans"
        /\ \A s \in S : s.op = "board" => s.rows = db
        /\ \A s \in S : OldPhases(s)
    BY <1>3
  <1> QED
    BY <1>1, <1>3, <1>4, ServerBoard

(* When no tab can tell, the tabs are only to stay connected.              *)
LEMMA CrossedBoard ==
    ASSUME BInv, BoardInv, UNCHANGED <<restarts, conn>>, UNCHANGED cvars, \A t \in Tabs : crossed[t],
           \A t \in Tabs : sock'[t] # <<>> => conn[t]
    PROVE  BoardInv'
  <1>1. UNCHANGED <<board, crossed>> /\ Connected
    BY DEF cvars, BoardInv
  <1>2. Connected'
    BY <1>1 DEF Connected
  <1> QED
    BY <1>1, <1>2 DEF BoardInv

(* Phases that are restored are there already.                             *)
LEMMA RestorePhaseBoard ==
    ASSUME BInv, BInv', BoardInv, UNCHANGED cvars, NEW e \in BagToSet(net), restoreProgressFindIt(e) \/ restoreProgressFixIt(e)
    PROVE  BoardInv'
  <1>1. /\ UNCHANGED <<restarts, conn, sock>> /\ e.op \in {"restoreFind", "restoreFix"}
        /\ e \in Messages /\ db \in Rows /\ e.v \subseteq Challenges
    BY BInvFacts DEF restoreProgressFindIt, restoreProgressFixIt, hist, Messages
  <1>2. PICK c \in e.v : /\ (FindIt(c) /\ e.op = "restoreFind") \/ (FixIt(c) /\ e.op = "restoreFix")
                         /\ net' = Take(net, e) \/ net' = Swap(net, e, [e EXCEPT !.v = @ \ {c}])
    BY DEF restoreProgressFindIt, restoreProgressFixIt
  <1> DEFINE g == [e EXCEPT !.v = @ \ {c}]
  <1>3. g.t = e.t /\ g.op = e.op /\ g.c = e.c /\ g.v \subseteq e.v
    BY <1>1 DEF Messages
  <1> HIDE DEF g
  <1>4. PICK G, S : Moved(G, S) /\ (\A h \in G : h = e) /\ (\A s \in S : s = g)
    <2>1. Moved({e}, {}) \/ Moved({e}, {g})
      <3>1. net' = Take(net, e) \/ net' = Swap(net, e, g)
        BY <1>2 DEF g
      <3> QED
        BY <3>1, MovedBy, BInvFacts
    <2>2. CASE Moved({e}, {})
      BY <2>2
    <2>3. CASE Moved({e}, {g})
      BY <2>3
    <2> QED
      BY <2>1, <2>2, <2>3
  <1>5. CASE \A t \in Tabs : crossed[t]
    BY <1>1, <1>5, CrossedBoard DEF BoardInv, Connected
  <1>6. ASSUME NEW t \in Tabs, ~crossed[t]
        PROVE  BoardInv'
    <2>1. OldPhases(e)
      BY <1>6 DEF BoardInv
    <2>2. c \in Challenges /\ db[c] \in ChallengeTable
      BY <1>1 DEF Rows
    <2>3. (e.op = "restoreFind" => db[c].code >= 1) /\ (e.op = "restoreFix" => db[c].code = 2)
      BY <2>1 DEF OldPhases
    <2>4. UNCHANGED db
      <3>1. \E k \in {1, 2} : db' = [db EXCEPT ![c].code = k] /\ k = db[c].code
        BY <1>1, <1>2, <2>2, <2>3 DEF FindIt, FixIt, Rows, ChallengeTable
      <3> QED
        BY <1>1, <2>2, <3>1 DEF Rows, ChallengeTable
    <2>5. \A h \in G : h.op \in {"lines", "fix"} => h.at # "score"
      BY <1>1, <1>4
    <2>6. \A s \in S : \E f \in BagToSet(net) : f.t = s.t /\ f.op = s.op /\ f.c = s.c /\ (s.op \in {"lines", "fix"} => f.at # "ans")
      BY <1>1, <1>3, <1>4
    <2>7. \A s \in S : (s.op = "board" => s.rows = db) /\ OldPhases(s)
      BY <1>1, <1>3, <1>4, <2>1 DEF OldPhases
    <2> QED
      BY <1>1, <1>4, <2>4, <2>5, <2>6, <2>7, ServerBoard
  <1> QED
    BY <1>5, <1>6

(* What is up to date stays so.                                            *)
LEMMA MirrorsKept ==
    ASSUME \A code : \A c \in Challenges : UpToDate(c, code) => UpToDate(c, code)',
           \A c \in Challenges : db'[c].solved => db[c].solved
    PROVE  /\ \A rows, s : Mirrors(rows, s) => Mirrors(rows, s)'
           /\ \A s : \A c \in Challenges : LastIsCurrent(s, c) => LastIsCurrent(s, c)'
  BY DEF Mirrors, LastIsCurrent, NoCode

(* What is stored stays true while the codes of the rows grow.             *)
LEMMA OldKept ==
    ASSUME BInv, BInv', \A c \in Challenges : db[c].code <= db'[c].code, UNCHANGED cookie
    PROVE  /\ OldCookie => OldCookie'
           /\ \A e \in Messages : OldPhases(e) => OldPhases(e)'
  <1>1. \A c \in Challenges : db[c].code \in 0..2 /\ db'[c].code \in 0..2
    BY BInvFacts DEF BInv, Types, ServerTypes, Rows, ChallengeTable
  <1>2. \A c \in Challenges : (db[c].code >= 1 => db'[c].code >= 1) /\ (db[c].code = 2 => db'[c].code = 2)
    BY <1>1
  <1>3. cookie.find \subseteq Challenges /\ cookie.fix \subseteq Challenges
    BY ProgressAssumption DEF BInv, Types, TabTypes, Codes
  <1>4. \A e \in Messages : e.v \subseteq Challenges
    BY DEF Messages
  <1> QED
    BY <1>2, <1>3, <1>4 DEF OldCookie, OldPhases

(* A phase is done: its event is still to be sent.                         *)
LEMMA PhaseBoard ==
    ASSUME BInv, BInv', BoardInv, UNCHANGED cvars, NEW e \in BagToSet(net), solveFindIt(e) \/ solveFixIt(e)
    PROVE  BoardInv'
  <1> DEFINE g == [e EXCEPT !.at = "score"]
  <1>1. /\ UNCHANGED <<restarts, conn, sock>> /\ net' = Swap(net, e, g) /\ e.at = "update"
        /\ (e.op = "lines" /\ FindIt(e.c)) \/ (e.op = "fix" /\ FixIt(e.c))
    BY DEF solveFindIt, solveFixIt, hist
  <1>2. e \in Messages /\ e.c \in Challenges /\ db \in Rows /\ BagToSet(net) \subseteq Messages
    BY BInvFacts DEF Messages
  <1>3. g.t = e.t /\ g.op = e.op /\ g.c = e.c /\ g.v = e.v /\ g.at = "score"
    BY <1>2 DEF Messages
  <1>4. UNCHANGED <<board, crossed, cookie>>
    BY DEF cvars
  <1> HIDE DEF g
  <1>5. Moved({e}, {g})
    BY <1>1, MovedBy, BInvFacts
  <1>6. /\ BagToSet(net') \subseteq BagToSet(net) \cup {g} /\ g \in BagToSet(net')
        /\ \A f \in BagToSet(net) : f # e => f \in BagToSet(net')
    BY <1>5, MovedFacts, BInvFacts
  <1>7. /\ Grows /\ \A d \in Challenges : d # e.c => db'[d] = db[d]
        /\ e.op = "fix" => db'[e.c].code = 2
    BY <1>1, <1>2, PhaseFacts
  <1>8. CASE \A t \in Tabs : crossed[t]
    BY <1>1, <1>8, CrossedBoard DEF BoardInv, Connected
  <1>9. ASSUME NEW u \in Tabs, ~crossed[u]
        PROVE  BoardInv'
    <2>1. PhasesApart /\ OldCookie /\ \A f \in BagToSet(net) : OldPhases(f)
      BY <1>9 DEF BoardInv
    <2>2. e.op = "lines" => db'[e.c].code = 1 /\ db'[e.c].solved = db[e.c].solved
      <3>1. e.op = "lines" => db[e.c].code < 2
        BY <1>1, <2>1 DEF PhasesApart
      <3> QED
        BY <1>1, <1>2, <3>1 DEF FindIt, Rows, ChallengeTable
    <2>3. e.op = "fix" => db'[e.c].solved = db[e.c].solved
      BY <1>1, <1>2 DEF FixIt, Rows, ChallengeTable
    <2>4. ScorePending(e.c)'
      BY <1>1, <1>3, <1>6, <1>7, <2>2 DEF ScorePending
    <2>5. \A code : \A c \in Challenges : UpToDate(c, code) => UpToDate(c, code)'
      BY <1>6, <1>7, <2>4 DEF UpToDate, ScorePending
    <2>6. \A c \in Challenges : db'[c].solved => db[c].solved
      BY <1>1, <1>7, <2>2, <2>3
    <2>7. /\ \A rows, s : Mirrors(rows, s) => Mirrors(rows, s)'
          /\ \A s : \A c \in Challenges : LastIsCurrent(s, c) => LastIsCurrent(s, c)'
      BY <2>5, <2>6, MirrorsKept
    <2>8. PhasesApart'
      <3>1. \A f \in BagToSet(net') : f \in BagToSet(net) \/ (f.op = e.op /\ f.c = e.c)
        BY <1>3, <1>6
      <3>2. \A f, h \in BagToSet(net') : ~(f.op = "lines" /\ h.op = "fix")
        BY <2>1, <3>1 DEF PhasesApart
      <3>3. ASSUME NEW f \in BagToSet(net'), f.op = "lines", f.at # "ans"
            PROVE  db'[f.c].code < 2
        <4>1. CASE f.c = e.c /\ e.op = "lines"
          BY <2>2, <4>1
        <4>2. CASE f.c = e.c /\ e.op = "fix"
          BY <2>1, <3>1, <3>3, <4>2 DEF PhasesApart
        <4>3. CASE f.c # e.c
          <5>1. f \in BagToSet(net) /\ f.c \in Challenges
            BY <1>2, <3>1, <4>3 DEF Messages
          <5>2. db[f.c].code < 2 /\ db'[f.c] = db[f.c]
            BY <1>7, <2>1, <3>3, <4>3, <5>1 DEF PhasesApart
          <5> QED
            BY <5>2
        <4> QED
          BY <1>1, <4>1, <4>2, <4>3
      <3> QED
        BY <3>2, <3>3 DEF PhasesApart
    <2>9. OldCookie' /\ \A f \in BagToSet(net') : OldPhases(f)'
      <3>1. OldPhases(g)'
        BY <1>1, <1>3 DEF OldPhases
      <3>2. OldCookie' /\ \A f \in Messages : OldPhases(f) => OldPhases(f)'
        BY <1>4, <1>7, <2>1, OldKept DEF Grows
      <3> QED
        BY <1>2, <1>6, <2>1, <3>1, <3>2
    <2>10. Connected'
      <3>1. \A t : InFlight(t, {"board", "hint"})' => InFlight(t, {"board", "hint"})
        BY <1>1, <1>3, <1>6 DEF InFlight
      <3> QED
        BY <1>1, <1>4, <3>1 DEF BoardInv, Connected
    <2>11. ASSUME NEW t \in Tabs, ~crossed[t]
           PROVE  TabMirrors(t)'
      <3>1. TabMirrors(t)
        BY <2>11 DEF BoardInv
      <3>2. \A f \in BagToSet(net') : f.op = "board" => f \in BagToSet(net)
        BY <1>1, <1>3, <1>6
      <3> QED
        BY <1>1, <1>4, <2>7, <3>1, <3>2 DEF TabMirrors
    <2> QED
      BY <1>4, <2>8, <2>9, <2>10, <2>11 DEF BoardInv
  <1> QED
    BY <1>8, <1>9

LEMMA AppendLast ==
    ASSUME NEW s \in Seq(Events), NEW x \in Events, NEW c, IsCode(x, c)
    PROVE  \A i \in DOMAIN Append(s, x) : (\A j \in DOMAIN Append(s, x) : j > i => ~IsCode(Append(s, x)[j], c)) => Append(s, x)[i] = x
  <1> DEFINE n == Append(s, x)
  <1>1. /\ DOMAIN n = DOMAIN s \cup {Len(s) + 1} /\ DOMAIN s = 1..Len(s) /\ Len(s) \in Nat /\ n[Len(s) + 1] = x
    OBVIOUS
  <1> HIDE DEF n
  <1>2. \A i \in DOMAIN s : Len(s) + 1 > i
    BY <1>1
  <1>3. \A i \in DOMAIN n : (\A j \in DOMAIN n : j > i => ~IsCode(n[j], c)) => n[i] = x
    BY <1>1, <1>2
  <1> QED
    BY <1>3 DEF n

(* A tab that is not connected has nothing to show.                        *)
LEMMA ApartTab ==
    ASSUME BInv, BoardInv, NEW t \in Tabs, ~crossed[t], ~conn[t]
    PROVE  sock[t] = <<>> /\ board[t] = NoBoard /\ \A f \in BagToSet(net) : ~(f.op = "board" /\ f.t = t)
  BY DEF BoardInv, Connected, InFlight

(* The event about a phase that is done.                                   *)
LEMMA ScoreStepBoard ==
    ASSUME BInv, BInv', BoardInv, UNCHANGED cvars, NEW e \in BagToSet(net),
           calculateFindItCheatScore(e) \/ calculateFixItCheatScore(e)
    PROVE  BoardInv'
  <1> DEFINE g == [e EXCEPT !.at = "ans", !.word = "right"]
  <1>1. PICK k \in {1, 2} :
          /\ UNCHANGED <<restarts, conn, db>> /\ net' = Swap(net, e, g) /\ e.at = "score"
          /\ sock' = Emit(CodeEvent(e.c, k)) /\ ((e.op = "lines" /\ k = 1) \/ (e.op = "fix" /\ k = 2))
    BY DEF calculateFindItCheatScore, calculateFixItCheatScore, sendCodingChallengeNotification, Reply, hist, svars
  <1>2. e \in Messages /\ e.c \in Challenges /\ db \in Rows /\ BagToSet(net) \subseteq Messages
        /\ sock \in [Tabs -> Seq(Events)] /\ TrueVerdict(e) /\ conn \in [Tabs -> BOOLEAN]
    BY BInvFacts DEF Messages, MessageIsTrue
  <1>3. g.t = e.t /\ g.op = e.op /\ g.c = e.c /\ g.v = e.v /\ g.at = "ans"
    BY <1>2 DEF Messages
  <1>4. UNCHANGED <<board, crossed, cookie>>
    BY DEF cvars
  <1> HIDE DEF g
  <1> DEFINE x == CodeEvent(e.c, k)
  <1>5. x \in Events /\ IsCode(x, e.c) /\ (\A c : IsCode(x, c) <=> c = e.c) /\ x.code = k
    BY <1>1, <1>2 DEF CodeEvent, Events, IsCode
  <1>6. \A t \in Tabs : sock'[t] = IF conn[t] THEN Append(sock[t], x) ELSE sock[t]
    BY <1>1 DEF Emit
  <1> HIDE DEF x
  <1>7. Moved({e}, {g})
    BY <1>1, MovedBy, BInvFacts
  <1>8. /\ BagToSet(net') \subseteq BagToSet(net) \cup {g}
        /\ \A f \in BagToSet(net) : f # e => f \in BagToSet(net')
    BY <1>7, MovedFacts, BInvFacts
  <1>9. \A t \in Tabs : sock'[t] # <<>> => conn[t]
    BY <1>6 DEF BoardInv, Connected
  <1>10. CASE \A t \in Tabs : crossed[t]
    BY <1>1, <1>9, <1>10, CrossedBoard
  <1>11. ASSUME NEW u \in Tabs, ~crossed[u]
         PROVE  BoardInv'
    <2>1. PhasesApart /\ OldCookie /\ \A f \in BagToSet(net) : OldPhases(f)
      BY <1>11 DEF BoardInv
    <2>2. k = db[e.c].code
      <3>1. e.op = "lines" => db[e.c].code < 2 /\ db[e.c].code >= 1
        BY <1>1, <1>2, <2>1 DEF PhasesApart, TrueVerdict, Decided
      <3>2. e.op = "fix" => db[e.c].code = 2
        BY <1>1, <1>2 DEF TrueVerdict, Decided
      <3>3. db[e.c].code \in 0..2
        BY <1>2 DEF Rows, ChallengeTable
      <3> QED
        BY <1>1, <3>1, <3>2, <3>3
    <2>3. UpToDate(e.c, k)'
      BY <1>1, <2>2 DEF UpToDate
    <2>4. \A code : \A c \in Challenges : c # e.c /\ UpToDate(c, code) => UpToDate(c, code)'
      BY <1>1, <1>8 DEF UpToDate, ScorePending
    <2>5. PhasesApart'
      <3>1. \A f \in BagToSet(net') : f \in BagToSet(net) \/ (f.op = e.op /\ f.at = "ans")
        BY <1>3, <1>8
      <3> QED
        BY <1>1, <2>1, <3>1 DEF PhasesApart
    <2>6. OldCookie' /\ \A f \in BagToSet(net') : OldPhases(f)'
      <3>1. OldPhases(g)
        BY <1>1, <1>3 DEF OldPhases
      <3> QED
        BY <1>1, <1>4, <1>8, <2>1, <3>1 DEF OldCookie, OldPhases
    <2>7. \A t : InFlight(t, {"board", "hint"})' => InFlight(t, {"board", "hint"})
      BY <1>1, <1>3, <1>8 DEF InFlight
    <2>8. Connected'
      BY <1>1, <1>4, <1>9, <2>7 DEF BoardInv, Connected
    <2>9. \A f \in BagToSet(net') : f.op = "board" => f \in BagToSet(net)
      BY <1>1, <1>3, <1>8
    <2>10. ASSUME NEW t \in Tabs, ~crossed[t]
           PROVE  TabMirrors(t)'
      <3>1. TabMirrors(t)
        BY <2>10 DEF BoardInv
      <3>2. CASE ~conn[t]
        <4>1. sock'[t] = <<>> /\ board'[t] = NoBoard /\ \A f \in BagToSet(net) : ~(f.op = "board" /\ f.t = t)
          BY <1>4, <1>6, <2>10, <3>2, ApartTab
        <4> QED
          BY <2>9, <4>1 DEF TabMirrors, LastIsCurrent
      <3>3. CASE conn[t]
        <4>1. sock'[t] = Append(sock[t], x) /\ sock[t] \in Seq(Events)
          BY <1>2, <1>6, <3>3
        <4> DEFINE s == sock[t]
                   n == Append(s, x)
        <4>2. \A c \in Challenges :
                 /\ c # e.c /\ LastIsCurrent(s, c) => LastIsCurrent(n, c)
                 /\ NoCode(n, c) => NoCode(s, c) /\ c # e.c
                 /\ Where(s, c) # {} => Where(n, c) # {}
          BY <1>5, <4>1, AppendCode
        <4>3. \A i \in DOMAIN n : (\A j \in DOMAIN n : j > i => ~IsCode(n[j], e.c)) => n[i] = x
          BY <1>5, <4>1, AppendLast
        <4>4. sock'[t] = n /\ s = sock[t]
          BY <4>1
        <4> HIDE DEF s, n
        <4>5. ASSUME NEW c \in Challenges
              PROVE  LastIsCurrent(sock[t], c)'
          <5>1. CASE c = e.c
            BY <1>5, <2>3, <4>3, <4>4, <5>1 DEF LastIsCurrent
          <5>2. CASE c # e.c
            <6>1. LastIsCurrent(n, c)
              BY <3>1, <4>2, <4>4, <5>2 DEF TabMirrors
            <6> QED
              BY <2>4, <4>4, <5>2, <6>1 DEF LastIsCurrent
          <5> QED
            BY <5>1, <5>2
        <4>6. \A rows : Mirrors(rows, s) => Mirrors(rows, sock[t])'
          BY <1>1, <2>4, <4>2, <4>4 DEF Mirrors, NoCode
        <4>7. board'[t] # NoBoard => Mirrors(board[t], sock[t])'
          BY <1>4, <3>1, <4>4, <4>6 DEF TabMirrors
        <4>8. \A f \in BagToSet(net') : f.op = "board" /\ f.at = "ans" /\ f.t = t => Mirrors(f.rows, sock[t])'
          BY <2>9, <3>1, <4>4, <4>6 DEF TabMirrors
        <4> QED
          BY <4>4, <4>5, <4>7, <4>8 DEF TabMirrors
      <3> QED
        BY <3>2, <3>3
    <2> QED
      BY <1>4, <2>5, <2>6, <2>8, <2>10 DEF BoardInv
  <1> QED
    BY <1>10, <1>11

(* A notification that is sent; one that is only kept is about a challenge *)
(* whose row was saved before.                                             *)
LEMMA SendBoard ==
    ASSUME BInv, BInv', BoardInv, OnlySolved, UNCHANGED cvars, UNCHANGED <<restarts, conn>>,
           NEW c \in Challenges, NEW b \in BOOLEAN, sendNotification(c, b),
           \A d \in Challenges : db'[d].code = db[d].code /\ (db'[d].solved => db[d].solved \/ d = c),
           NEW G, NEW S, Moved(G, S), S = {}, \A g \in G : g.op = "repeat"
    PROVE  BoardInv'
  <1> DEFINE x == SolvedEvent(c, b)
             out == b \/ Where(notifs, c) = {}
  <1>1. x \in Events /\ sock' = IF out THEN Emit(x) ELSE sock
    BY SendNum
  <1>2. (\A d : ~IsCode(x, d)) /\ Tells(x, c)
    BY DEF SolvedEvent, IsCode, Tells
  <1>3. UNCHANGED <<board, crossed, cookie>>
    BY DEF cvars
  <1>4. sock \in [Tabs -> Seq(Events)] /\ BagToSet(net) \subseteq Messages
    BY BInvFacts
  <1> HIDE DEF x
  <1>5. \A t \in Tabs : sock'[t] = IF out /\ conn[t] THEN Append(sock[t], x) ELSE sock[t]
    BY <1>1 DEF Emit
  <1>6. /\ BagToSet(net') \subseteq BagToSet(net)
        /\ \A f \in BagToSet(net) : f.op # "repeat" => f \in BagToSet(net')
    BY MovedFacts, BInvFacts
  <1>7. Connected'
    <2>1. \A t : InFlight(t, {"board", "hint"})' => InFlight(t, {"board", "hint"})
      BY <1>6 DEF InFlight
    <2>2. \A t \in Tabs : sock'[t] # <<>> => conn[t]
      BY <1>5 DEF BoardInv, Connected
    <2> QED
      BY <1>3, <2>1, <2>2 DEF BoardInv, Connected
  <1>8. \A code : \A d \in Challenges : UpToDate(d, code) => UpToDate(d, code)'
    BY <1>6 DEF UpToDate, ScorePending
  <1>9. ASSUME NEW t \in Tabs, ~crossed'[t]
        PROVE  PhasesApart' /\ OldCookie' /\ (\A f \in BagToSet(net') : OldPhases(f)') /\ TabMirrors(t)'
    <2>1. PhasesApart /\ OldCookie /\ (\A f \in BagToSet(net) : OldPhases(f)) /\ TabMirrors(t) /\ ~crossed[t]
      BY <1>3, <1>9 DEF BoardInv
    <2>2. OldCookie' /\ \A f \in BagToSet(net') : OldPhases(f)'
      <3>1. \A d \in Challenges : db[d].code <= db'[d].code
        <4>1. \A d \in Challenges : db[d].code \in 0..2
          BY BInvFacts
        <4> QED
          BY <4>1
      <3> QED
        BY <1>3, <1>4, <1>6, <2>1, <3>1, OldKept
    <2>3. PhasesApart'
      <3>1. \A f \in BagToSet(net) : f.c \in Challenges
        BY <1>4 DEF Messages
      <3> QED
        BY <1>6, <2>1, <3>1 DEF PhasesApart
    <2>4. CASE ~conn[t]
      <3>1. sock'[t] = <<>> /\ board'[t] = NoBoard /\ \A f \in BagToSet(net) : ~(f.op = "board" /\ f.t = t)
        BY <1>3, <1>5, <2>1, <2>4, ApartTab
      <3>2. TabMirrors(t)'
        BY <1>6, <3>1 DEF TabMirrors, LastIsCurrent
      <3> QED
        BY <2>2, <2>3, <3>2
    <2>5. CASE conn[t]
      <3>1. ASSUME NEW d \in Challenges
            PROVE  /\ LastIsCurrent(sock[t], d) => LastIsCurrent(sock'[t], d)
                   /\ NoCode(sock'[t], d) => NoCode(sock[t], d)
                   /\ db'[d].solved => db[d].solved \/ Where(sock'[t], d) # {}
                   /\ Where(sock[t], d) # {} => Where(sock'[t], d) # {}
        <4>1. CASE out
          <5>1. sock'[t] = Append(sock[t], x) /\ sock[t] \in Seq(Events)
            BY <1>4, <1>5, <2>5, <4>1
          <5>2. /\ LastIsCurrent(sock[t], d) => LastIsCurrent(Append(sock[t], x), d)
                /\ NoCode(Append(sock[t], x), d) => NoCode(sock[t], d)
                /\ Where(sock[t], d) # {} \/ Tells(x, d) => Where(Append(sock[t], x), d) # {}
            BY <1>1, <1>2, <5>1, AppendCode
          <5> QED
            BY <1>2, <5>1, <5>2
        <4>2. CASE ~out
          <5>1. PICK i \in Where(notifs, c) : TRUE
            BY <4>2
          <5>2. i \in DOMAIN notifs /\ notifs[i].c = c
            BY <5>1 DEF Where, Tells
          <5>3. restarts = 0
            BY <2>1 DEF BoardInv, Connected
          <5>4. db[c].solved
            BY <5>2, <5>3 DEF BInv, NotificationsAreTrue, FreshNotification
          <5>5. sock'[t] = sock[t]
            BY <1>5, <4>2
          <5> QED
            BY <5>4, <5>5
        <4> QED
          BY <4>1, <4>2
      <3>2. \A d \in Challenges : LastIsCurrent(sock[t], d)'
        <4>1. \A d \in Challenges : LastIsCurrent(sock'[t], d)
          BY <2>1, <3>1 DEF TabMirrors
        <4> QED
          BY <1>8, <4>1 DEF LastIsCurrent
      <3>3. \A rows : Mirrors(rows, sock[t]) => Mirrors(rows, sock[t])'
        BY <1>8, <3>1 DEF Mirrors, NoCode
      <3>4. TabMirrors(t)'
        BY <1>3, <1>6, <2>1, <3>2, <3>3 DEF TabMirrors
      <3> QED
        BY <2>2, <2>3, <3>4
    <2> QED
      BY <2>4, <2>5
  <1> QED
    BY <1>7, <1>9 DEF BoardInv

LEMMA SavedBoard ==
    ASSUME BInv, BInv', SInv, UNCHANGED cvars, NEW e \in BagToSet(work), saved(e)
    PROVE  BoardInv'
  <1>1. e.c \in Challenges /\ e.restore \in BOOLEAN /\ db \in Rows
    BY SavedPromise, BInvFacts
  <1>2. /\ UNCHANGED <<restarts, conn, net>> /\ sendNotification(e.c, e.restore)
        /\ db' = [db EXCEPT ![e.c].solved = TRUE]
    BY DEF saved, hist
  <1>3. \A d \in Challenges : db'[d].code = db[d].code /\ (db'[d].solved => db[d].solved \/ d = e.c)
    BY <1>1, <1>2 DEF Rows, ChallengeTable
  <1>4. PICK G, S : Moved(G, S) /\ S = {} /\ G = {}
    BY <1>2, MovedBy, BInvFacts
  <1> QED
    BY <1>1, <1>2, <1>3, <1>4, SendBoard DEF SInv, NotifInv

LEMMA RepeatBoard ==
    ASSUME BInv, BInv', SInv, UNCHANGED cvars, NEW e \in BagToSet(net), repeatNotification(e)
    PROVE  BoardInv'
  <1>1. e.c \in Challenges /\ e.op = "repeat" /\ net' = Take(net, e) /\ UNCHANGED <<restarts, conn, db>>
    BY BInvFacts DEF repeatNotification, Messages
  <1>2. PICK G, S : Moved(G, S) /\ S = {} /\ \A g \in G : g = e
    <2>1. Moved({e}, {})
      BY <1>1, MovedBy, BInvFacts
    <2> QED
      BY <2>1
  <1>3. CASE cache[e.c]
    <2>1. PICK b \in BOOLEAN : sendNotification(e.c, b)
      BY <1>3 DEF repeatNotification
    <2> QED
      BY <1>1, <1>2, <2>1, SendBoard DEF SInv, NotifInv
  <1>4. CASE ~cache[e.c]
    <2>1. UNCHANGED sock
      BY <1>4 DEF repeatNotification
    <2>2. \A g \in G : g.op \in {"lines", "fix"} => g.at # "score"
      BY <1>1, <1>2
    <2>3. /\ \A s \in S : \E f \in BagToSet(net) : f.t = s.t /\ f.op = s.op /\ f.c = s.c /\ (s.op \in {"lines", "fix"} => f.at # "ans")
          /\ \A s \in S : (s.op = "board" => s.rows = db) /\ OldPhases(s)
      BY <1>2
    <2> QED
      BY <1>1, <1>2, <2>1, <2>2, <2>3, ServerBoard DEF SInv
  <1> QED
    BY <1>3, <1>4

LEMMA ConsElement ==
    ASSUME NEW s \in Seq(Events), NEW x \in Events
    PROVE  \A i \in DOMAIN (<<x>> \o s) : (<<x>> \o s)[i] = x \/ \E j \in DOMAIN s : (<<x>> \o s)[i] = s[j]
  <1> DEFINE n == <<x>> \o s
  <1>1. DOMAIN n = 1..(1 + Len(s)) /\ DOMAIN s = 1..Len(s) /\ Len(s) \in Nat /\ n[1] = x
        /\ \A i \in 2..(1 + Len(s)) : n[i] = s[i - 1]
    OBVIOUS
  <1> HIDE DEF n
  <1>2. ASSUME NEW i \in DOMAIN n, i # 1
        PROVE  \E j \in DOMAIN s : n[i] = s[j]
    <2>1. i \in 2..(1 + Len(s)) /\ i - 1 \in 1..Len(s)
      BY <1>1, <1>2
    <2> QED
      BY <1>1, <2>1
  <1>3. \A i \in DOMAIN n : n[i] = x \/ \E j \in DOMAIN s : n[i] = s[j]
    BY <1>1, <1>2
  <1> QED
    BY <1>3 DEF n

(* A tab connects: what it gets first are the notifications.               *)
LEMMA ConnectionBoard ==
    ASSUME BInv, BInv', SInv, UNCHANGED cvars, NEW t \in Tabs, connection(t)
    PROVE  BoardInv'
  <1>1. UNCHANGED <<db, net, restarts, notifs>> /\ UNCHANGED <<board, crossed, cookie>>
    BY DEF connection, hist, cvars
  <1>2. BoardInv /\ OnlySolved /\ notifs \in Seq(Events)
    BY BInvFacts DEF SInv, NotifInv
  <1>3. /\ sock'[t] = notifs \/ sock'[t] = <<StartedEvent>> \o notifs
        /\ conn'[t] = TRUE /\ \A u \in Tabs : u # t => sock'[u] = sock[u] /\ conn'[u] = conn[u]
        /\ ~conn[t]
    BY ConnectionSocket
  <1>4. \A c : NoCode(notifs, c)
    BY <1>2 DEF OnlySolved, NoCode, IsCode
  <1>5. \A c : NoCode(<<StartedEvent>> \o notifs, c)
    <2>1. \A i \in DOMAIN (<<StartedEvent>> \o notifs) :
             (<<StartedEvent>> \o notifs)[i] = StartedEvent \/ \E j \in DOMAIN notifs : (<<StartedEvent>> \o notifs)[i] = notifs[j]
      BY <1>2, StartedFacts, ConsElement
    <2> QED
      BY <1>2, <2>1, StartedFacts DEF OnlySolved, NoCode, IsCode
  <1>6. \A c : NoCode(sock'[t], c)
    BY <1>3, <1>4, <1>5
  <1>7. Connected'
    BY <1>1, <1>2, <1>3 DEF BoardInv, Connected, InFlight
  <1>8. ASSUME NEW u \in Tabs, ~crossed'[u]
        PROVE  PhasesApart' /\ OldCookie' /\ (\A f \in BagToSet(net') : OldPhases(f)') /\ TabMirrors(u)'
    <2>1. PhasesApart /\ OldCookie /\ (\A f \in BagToSet(net) : OldPhases(f)) /\ TabMirrors(u) /\ ~crossed[u]
      BY <1>1, <1>2, <1>8 DEF BoardInv
    <2>2. PhasesApart' /\ OldCookie' /\ \A f \in BagToSet(net') : OldPhases(f)'
      BY <1>1, <2>1 DEF PhasesApart, OldCookie, OldPhases
    <2>3. \A code : \A c \in Challenges : UpToDate(c, code) => UpToDate(c, code)'
      BY <1>1 DEF UpToDate, ScorePending
    <2>4. /\ \A rows, s : Mirrors(rows, s) => Mirrors(rows, s)'
          /\ \A s : \A c \in Challenges : LastIsCurrent(s, c) => LastIsCurrent(s, c)'
      BY <1>1, <2>3, MirrorsKept
    <2>5. CASE u # t
      <3>1. sock'[u] = sock[u]
        BY <1>3, <2>5
      <3>2. TabMirrors(u)'
        BY <1>1, <2>1, <2>4, <3>1 DEF TabMirrors
      <3> QED
        BY <2>2, <3>2
    <2>6. CASE u = t
      <3>1. board'[t] = NoBoard /\ \A f \in BagToSet(net') : ~(f.op = "board" /\ f.t = t)
        BY <1>1, <1>2, <1>3, <2>1, <2>6, ApartTab
      <3>2. \A c \in Challenges : LastIsCurrent(sock[t], c)'
        BY <1>6 DEF LastIsCurrent, NoCode
      <3>3. TabMirrors(t)'
        BY <3>1, <3>2 DEF TabMirrors
      <3> QED
        BY <2>2, <2>6, <3>3
    <2> QED
      BY <2>5, <2>6
  <1> QED
    BY <1>7, <1>8 DEF BoardInv

(* A tab handles the events of its socket.                                 *)
LEMMA EventBoard ==
    ASSUME BInv, BInv', BoardInv, NEW t \in Tabs, sock[t] # <<>>, Handled(t),
           UNCHANGED <<db, conn, restarts, cookie>>,
           \A u \in Tabs : crossed[u] => crossed'[u], \A u \in Tabs : u # t => board'[u] = board[u],
           NEW S, Moved({}, S), \A s \in S : s.op \in {"ack", "code", "restore", "restoreFind", "restoreFix"},
           (\E u \in Tabs : ~crossed[u]) => \A s \in S : OldPhases(s),
           InFlight(t, {"board"}) => crossed'[t] \/ Ev(t).ev = "started",
           board[t] = NoBoard => board'[t] = NoBoard,
           board[t] # NoBoard => \A c \in Challenges :
               /\ board[t][c].solved \/ Tells(Ev(t), c) => board'[t][c].solved
               /\ board'[t][c].code = IF IsCode(Ev(t), c) THEN Ev(t).code ELSE board[t][c].code
    PROVE  BoardInv'
  <1>1. /\ sock[t] \in Seq(Events) /\ Ev(t) = Head(sock[t]) /\ sock'[t] = Tail(sock[t])
        /\ \A u \in Tabs : u # t => sock'[u] = sock[u]
    BY HandledSocket
  <1>2. /\ BagToSet(net') \subseteq BagToSet(net) \cup S
        /\ \A f \in BagToSet(net) : f \in BagToSet(net')
    BY MovedFacts, BInvFacts
  <1>3. Connected'
    <2>1. \A u : InFlight(u, {"board", "hint"})' => InFlight(u, {"board", "hint"})
      BY <1>2 DEF InFlight
    <2>2. \A u \in Tabs : sock'[u] # <<>> => conn[u]
      BY <1>1 DEF BoardInv, Connected
    <2>3. \A u \in Tabs : board'[u] # NoBoard => board[u] # NoBoard
      OBVIOUS
    <2> QED
      BY <2>1, <2>2, <2>3 DEF BoardInv, Connected
  <1>4. \A code : \A c \in Challenges : UpToDate(c, code) => UpToDate(c, code)'
    BY <1>2 DEF UpToDate, ScorePending
  <1>5. /\ \A rows, s : Mirrors(rows, s) => Mirrors(rows, s)'
        /\ \A s : \A c \in Challenges : LastIsCurrent(s, c) => LastIsCurrent(s, c)'
    BY <1>4, MirrorsKept
  <1>6. ASSUME NEW u \in Tabs, ~crossed'[u]
        PROVE  PhasesApart' /\ OldCookie' /\ (\A f \in BagToSet(net') : OldPhases(f)') /\ TabMirrors(u)'
    <2>1. PhasesApart /\ OldCookie /\ (\A f \in BagToSet(net) : OldPhases(f)) /\ TabMirrors(u) /\ ~crossed[u]
      BY <1>6 DEF BoardInv
    <2>2. PhasesApart' /\ OldCookie'
      BY <1>2, <2>1 DEF PhasesApart, OldCookie
    <2>3. \A f \in BagToSet(net') : OldPhases(f)'
      <3>1. \A s \in S : OldPhases(s)
        BY <2>1
      <3> QED
        BY <1>2, <2>1, <3>1 DEF OldPhases
    <2>4. CASE u # t
      <3>1. sock'[u] = sock[u] /\ board'[u] = board[u]
        BY <1>1, <2>4
      <3>2. \A f \in BagToSet(net') : f.op = "board" => f \in BagToSet(net)
        BY <1>2
      <3>3. TabMirrors(u)'
        BY <1>5, <2>1, <3>1, <3>2 DEF TabMirrors
      <3> QED
        BY <2>2, <2>3, <3>3
    <2>5. CASE u = t
      <3> DEFINE s == sock[t]
                 x == Head(s)
                 n == Tail(s)
      <3>1. \A c \in Challenges :
               /\ LastIsCurrent(s, c) => LastIsCurrent(n, c)
               /\ ~IsCode(x, c) /\ NoCode(n, c) => NoCode(s, c)
               /\ IsCode(x, c) /\ NoCode(n, c) /\ LastIsCurrent(s, c) => UpToDate(c, x.code)
               /\ ~Tells(x, c) /\ Where(s, c) # {} => Where(n, c) # {}
        BY <1>1, TailCode
      <3>2. s = sock[t] /\ n = sock'[t] /\ x = Ev(t)
        BY <1>1
      <3> HIDE DEF s, x, n
      <3>3. \A c \in Challenges : LastIsCurrent(sock[t], c)'
        BY <1>5, <2>1, <2>5, <3>1, <3>2 DEF TabMirrors
      <3>4. board'[t] # NoBoard => Mirrors(board[t], sock[t])'
        <4> SUFFICES ASSUME board'[t] # NoBoard
                     PROVE  Mirrors(board[t], sock[t])'
          OBVIOUS
        <4>1. board[t] # NoBoard /\ Mirrors(board[t], s) /\ \A c \in Challenges : LastIsCurrent(s, c)
          BY <2>1, <2>5, <3>2 DEF TabMirrors
        <4>2. \A c \in Challenges : db[c].solved => board'[t][c].solved \/ Where(n, c) # {}
          BY <3>1, <3>2, <4>1 DEF Mirrors
        <4>3. \A c \in Challenges : NoCode(n, c) => UpToDate(c, board'[t][c].code)
          BY <3>1, <3>2, <4>1 DEF Mirrors
        <4>4. Mirrors(board'[t], n)
          BY <4>2, <4>3 DEF Mirrors
        <4> QED
          BY <1>5, <3>2, <4>4
      <3>5. \A f \in BagToSet(net') : f.op = "board" /\ f.at = "ans" /\ f.t = t => Mirrors(f.rows, sock[t])'
        <4> SUFFICES ASSUME NEW f \in BagToSet(net'), f.op = "board", f.at = "ans", f.t = t
                     PROVE  Mirrors(f.rows, sock[t])'
          OBVIOUS
        <4>1. f \in BagToSet(net)
          BY <1>2
        <4>2. Ev(t).ev = "started"
          BY <1>6, <2>5, <4>1 DEF InFlight
        <4>3. Mirrors(f.rows, s)
          BY <2>1, <2>5, <3>2, <4>1 DEF TabMirrors
        <4>4. \A c : ~Tells(x, c) /\ ~IsCode(x, c)
          BY <3>2, <4>2 DEF Tells, IsCode
        <4>5. Mirrors(f.rows, n)
          BY <3>1, <4>3, <4>4 DEF Mirrors
        <4> QED
          BY <1>5, <3>2, <4>5
      <3>6. TabMirrors(t)'
        BY <3>3, <3>4, <3>5 DEF TabMirrors
      <3> QED
        BY <2>2, <2>3, <2>5, <3>6
    <2> QED
      BY <2>4, <2>5
  <1> QED
    BY <1>3, <1>6 DEF BoardInv

LEMMA RowShown ==
    ASSUME BInv, NEW t \in Tabs, Ev(t) \in Events,
           \/ board' = onChallengeSolvedWebsocket(t) /\ Ev(t).ev = "solved"
           \/ board' = onCodeChallengeSolvedWebsocket(t) /\ Ev(t).ev = "code"
    PROVE  /\ \A u \in Tabs : u # t => board'[u] = board[u]
           /\ board[t] = NoBoard => board'[t] = NoBoard
           /\ board[t] # NoBoard => \A c \in Challenges :
                 /\ board[t][c].solved \/ Tells(Ev(t), c) => board'[t][c].solved
                 /\ board'[t][c].code = IF IsCode(Ev(t), c) THEN Ev(t).code ELSE board[t][c].code
  <1>1. DOMAIN board = Tabs /\ (board[t] = NoBoard \/ board[t] \in Rows)
    BY DEF BInv, Types, TabTypes
  <1>2. CASE board[t] = NoBoard
    BY <1>2 DEF onChallengeSolvedWebsocket, onCodeChallengeSolvedWebsocket
  <1>3. CASE board[t] # NoBoard
    <2> DEFINE d == Ev(t).c
    <2>1. d \in Challenges /\ board[t] \in Rows
      BY <1>1, <1>3 DEF Events
    <2>2. board[t][d] \in ChallengeTable
      BY <2>1 DEF Rows
    <2>3. PICK r : /\ board' = [board EXCEPT ![t] = [board[t] EXCEPT ![d] = r]]
                   /\ Ev(t).ev = "solved" => r.solved = TRUE /\ r.code = board[t][d].code
                   /\ Ev(t).ev = "code" => r.solved = board[t][d].solved /\ r.code = Ev(t).code
      <3>1. CASE Ev(t).ev = "solved"
        <4>1. board' = [board EXCEPT ![t] = [board[t] EXCEPT ![d] = [board[t][d] EXCEPT !.solved = TRUE]]]
          BY <1>3, <3>1 DEF onChallengeSolvedWebsocket
        <4>2. [board[t][d] EXCEPT !.solved = TRUE].solved = TRUE /\ [board[t][d] EXCEPT !.solved = TRUE].code = board[t][d].code
          BY <2>2 DEF ChallengeTable
        <4> QED
          BY <3>1, <4>1, <4>2
      <3>2. CASE Ev(t).ev = "code"
        <4>1. board' = [board EXCEPT ![t] = [board[t] EXCEPT ![d] = [board[t][d] EXCEPT !.code = Ev(t).code]]]
          BY <1>3, <3>2 DEF onCodeChallengeSolvedWebsocket
        <4>2. /\ [board[t][d] EXCEPT !.code = Ev(t).code].code = Ev(t).code
              /\ [board[t][d] EXCEPT !.code = Ev(t).code].solved = board[t][d].solved
          BY <2>2 DEF ChallengeTable
        <4> QED
          BY <3>2, <4>1, <4>2
      <3> QED
        BY <3>1, <3>2
    <2> HIDE DEF d
    <2>4. board'[t] = [board[t] EXCEPT ![d] = r] /\ \A u \in Tabs : u # t => board'[u] = board[u]
      BY <1>1, <2>3
    <2>5. board'[t][d] = r /\ \A c \in Challenges : c # d => board'[t][c] = board[t][c]
      BY <2>1, <2>4 DEF Rows
    <2>6. \A c : (Tells(Ev(t), c) <=> Ev(t).ev = "solved" /\ c = d) /\ (IsCode(Ev(t), c) <=> Ev(t).ev = "code" /\ c = d)
      BY DEF Tells, IsCode, d
    <2>7. ASSUME NEW c \in Challenges
          PROVE  /\ board[t][c].solved \/ Tells(Ev(t), c) => board'[t][c].solved
                 /\ board'[t][c].code = IF IsCode(Ev(t), c) THEN Ev(t).code ELSE board[t][c].code
      <3>1. CASE c = d
        BY <2>3, <2>5, <2>6, <3>1
      <3>2. CASE c # d
        BY <2>5, <2>6, <3>2
      <3> QED
        BY <3>1, <3>2
    <2> QED
      BY <1>3, <2>4, <2>7
  <1> QED
    BY <1>2, <1>3

LEMMA CrossesTab ==
    ASSUME BInv, NEW t \in Tabs, Crosses(t)
    PROVE  (\A u \in Tabs : crossed[u] => crossed'[u]) /\ (InFlight(t, {"board"}) => crossed'[t])
  BY BInvFacts DEF Crosses

LEMMA SolvedBoard ==
    ASSUME BInv, BInv', BoardInv, NEW t \in Tabs, onChallengeSolved(t)
    PROVE  BoardInv'
  <1> DEFINE a == Ack(t, Ev(t).c)
             k == Req(t, "code", Ev(t).c, {})
  <1>1. /\ sock[t] # <<>> /\ Handled(t) /\ Ev(t).ev = "solved" /\ Crosses(t) /\ board' = onChallengeSolvedWebsocket(t)
        /\ UNCHANGED <<db, conn, restarts, cookie>>
    BY DEF onChallengeSolved, svars, hist
  <1>2. a.op = "ack" /\ k.op = "code"
    BY RequestFacts DEF Ack
  <1>3. PICK S : Moved({}, S) /\ S \subseteq {a, k}
    BY SolvedMoved
  <1> HIDE DEF a, k
  <1>4. \A s \in S : s.op \in {"ack", "code", "restore", "restoreFind", "restoreFix"} /\ OldPhases(s)
    BY <1>2, <1>3 DEF OldPhases
  <1>5. Ev(t) \in Events
    BY <1>1, HandledSocket
  <1>6. /\ \A u \in Tabs : u # t => board'[u] = board[u]
        /\ board[t] = NoBoard => board'[t] = NoBoard
        /\ board[t] # NoBoard => \A c \in Challenges :
              /\ board[t][c].solved \/ Tells(Ev(t), c) => board'[t][c].solved
              /\ board'[t][c].code = IF IsCode(Ev(t), c) THEN Ev(t).code ELSE board[t][c].code
    BY <1>1, <1>5, RowShown
  <1>7. (\A u \in Tabs : crossed[u] => crossed'[u]) /\ (InFlight(t, {"board"}) => crossed'[t])
    BY <1>1, CrossesTab
  <1> QED
    BY <1>1, <1>3, <1>4, <1>6, <1>7, EventBoard

LEMMA SolvedStep ==
    ASSUME BInv, BInv', SInv, NEW t \in Tabs, onChallengeSolved(t)
    PROVE  SInv'
  BY SolvedBoard, SolvedNotif, SolvedCookie DEF SInv, BoardInv

LEMMA CodeSolvedStep ==
    ASSUME BInv, BInv', SInv, NEW t \in Tabs, onCodeChallengeSolved(t)
    PROVE  SInv'
  <1>1. /\ sock[t] # <<>> /\ Handled(t) /\ Ev(t).ev = "code" /\ Crosses(t) /\ board' = onCodeChallengeSolvedWebsocket(t)
        /\ UNCHANGED <<db, conn, restarts, cookie, parallel, net, cache, notifs, work>> /\ React
    BY DEF onCodeChallengeSolved, svars, hist, React
  <1>2. BoardInv /\ NotifInv /\ CookieInv
    BY DEF SInv
  <1>3. PICK G, S : Moved(G, S) /\ G = {} /\ S = {}
    BY <1>1, MovedBy, BInvFacts
  <1>4. /\ \A s \in S : s.op \in {"ack", "code", "restore", "restoreFind", "restoreFix"} /\ OldPhases(s)
        /\ \A f \in G \cup S : f.op \notin {"code", "ack", "restore"}
    BY <1>3
  <1>5. Ev(t) \in Events
    BY <1>1, HandledSocket
  <1>6. /\ \A u \in Tabs : u # t => board'[u] = board[u]
        /\ board[t] = NoBoard => board'[t] = NoBoard
        /\ board[t] # NoBoard => \A c \in Challenges :
              /\ board[t][c].solved \/ Tells(Ev(t), c) => board'[t][c].solved
              /\ board'[t][c].code = IF IsCode(Ev(t), c) THEN Ev(t).code ELSE board[t][c].code
    BY <1>1, <1>5, RowShown
  <1>7. (\A u \in Tabs : crossed[u] => crossed'[u]) /\ (InFlight(t, {"board"}) => crossed'[t])
    BY <1>1, CrossesTab
  <1>8. BoardInv'
    BY <1>1, <1>2, <1>3, <1>4, <1>6, <1>7, EventBoard
  <1>9. /\ \A u \in Tabs : SameEvents(sock'[u], sock[u])
        /\ \A u \in Tabs, c \in Challenges : Num(sock'[u], c) = Num(sock[u], c)
    BY <1>1, HandledOther
  <1>10. NotifInv'
    BY <1>1, <1>2, <1>3, <1>4, <1>9, TabNotif
  <1>11. CookieInv'
    BY <1>1, <1>2, <1>3, <1>4, <1>9, CookieKept
  <1> QED
    BY <1>8, <1>10, <1>11 DEF SInv

LEMMA StartedStep ==
    ASSUME BInv, BInv', SInv, NEW t \in Tabs, onServerStarted(t)
    PROVE  SInv'
  <1>1. /\ sock[t] # <<>> /\ Handled(t) /\ Ev(t).ev = "started" /\ net' = net (+) Apply(t, cookie)
        /\ UNCHANGED <<db, conn, restarts, cookie, board, crossed>> /\ React
    BY DEF onServerStarted, svars, hist, cvars, React
  <1>2. BoardInv /\ NotifInv /\ CookieInv
    BY DEF SInv
  <1>3. PICK G, S : /\ Moved(G, S) /\ G = {}
                    /\ \A s \in S : \/ s.op = "restore" /\ s.v = cookie.hack
                                    \/ s.op = "restoreFind" /\ s.v = cookie.find
                                    \/ s.op = "restoreFix" /\ s.v = cookie.fix
    BY <1>1, ApplyMoved
  <1>4. /\ \A s \in S : s.op \in {"ack", "code", "restore", "restoreFind", "restoreFix"}
        /\ \A f \in G \cup S : f.op # "ack"
    BY <1>3
  <1>5. ASSUME NEW u \in Tabs, ~crossed[u]
        PROVE  \A s \in S : OldPhases(s)
    <2>1. OldCookie
      BY <1>2, <1>5 DEF BoardInv
    <2> QED
      BY <1>3, <2>1 DEF OldCookie, OldPhases
  <1>6. \A c : ~Tells(Ev(t), c) /\ ~IsCode(Ev(t), c)
    BY <1>1 DEF Tells, IsCode
  <1>7. board[t] # NoBoard => \A c \in Challenges :
           /\ board[t][c].solved \/ Tells(Ev(t), c) => board'[t][c].solved
           /\ board'[t][c].code = IF IsCode(Ev(t), c) THEN Ev(t).code ELSE board[t][c].code
    BY <1>1, <1>6
  <1>8. BoardInv'
    BY <1>1, <1>2, <1>3, <1>4, <1>5, <1>7, EventBoard
  <1>9. \A u \in Tabs, c \in Challenges : Num(sock'[u], c) = Num(sock[u], c)
    BY <1>1, HandledOther
  <1>10. NotifInv'
    BY <1>1, <1>2, <1>3, <1>4, <1>9, TabNotif
  <1>11. CookieInv'
    BY <1>2, StartedCookie
  <1> QED
    BY <1>8, <1>10, <1>11 DEF SInv

-----------------------------------------------------------------------------
(* Every step.                                                             *)

LEMMA HandleSettles ==
    ASSUME BInv, BInv', SInv, NEW e \in BagToSet(net), Handle(e), UNCHANGED cvars
    PROVE  SInv'
  <1>1. NotifInv /\ BoardInv /\ CookieInv
    BY DEF SInv
  <1>2. CASE Plain(e)
    <2>1. NotifInv'
      BY <1>1, <1>2, PlainNotif
    <2>2. CookieInv'
      BY <1>1, <1>2, PlainCookie, AnswerCookie
    <2>3. BoardInv'
      BY <1>1, <1>2, ReplyBoard, RestorePhaseBoard, PhaseBoard, ScoreStepBoard DEF Plain, Replies
    <2> QED
      BY <2>1, <2>2, <2>3 DEF SInv
  <1>3. CASE notificationReceived(e)
    BY <1>1, <1>3, ReceivedNotif, ReceivedCookie, TakenBoard DEF SInv
  <1>4. CASE restoreProgress(e)
    BY <1>1, <1>4, RestoreNotif, RestoreCookie, TakenBoard DEF SInv
  <1>5. CASE repeatNotification(e)
    BY <1>1, <1>5, RepeatNotif, RepeatCookie, RepeatBoard DEF SInv
  <1> QED
    BY <1>2, <1>3, <1>4, <1>5 DEF Handle, Plain

LEMMA SettleSettles ==
    ASSUME BInv, BInv', SInv, (\E e \in BagToSet(work) : Settle(e)) \/ Occur, UNCHANGED cvars
    PROVE  SInv'
  <1>1. NotifInv /\ BoardInv /\ CookieInv
    BY DEF SInv
  <1>2. ASSUME NEW e \in BagToSet(work), saved(e)
        PROVE  SInv'
    BY <1>1, <1>2, SavedNotif, SavedCookie, SavedBoard DEF SInv
  <1>3. CASE Solving
    BY <1>1, <1>3, SolvingNotif, SolvingCookie, TakenBoard DEF SInv
  <1> QED
    BY <1>2, <1>3 DEF Settle, Solving

LEMMA TabSettles ==
    ASSUME BInv, BInv', SInv, React \/ UseTab
    PROVE  SInv'
  <1>1. CASE Quiet
    BY <1>1, QuietStep
  <1>2. ASSUME NEW t \in Tabs, onChallengeSolved(t) \/ onCodeChallengeSolved(t) \/ onServerStarted(t)
        PROVE  SInv'
    BY <1>2, SolvedStep, CodeSolvedStep, StartedStep
  <1>3. ASSUME NEW e \in BagToSet(net), onContinueCode(e) \/ onContinueCodeFindIt(e) \/ onContinueCodeFixIt(e) \/ onChallenges(e)
        PROVE  SInv'
    BY <1>3, ContinueCodeStep, PhaseCodeStep, ChallengesStep
  <1>4. ASSUME NEW t \in Tabs, restoreBackup(t) \/ \E word \in {"right", "wrong"} : checkLines(t, word) \/ checkFix(t, word)
        PROVE  SInv'
    BY <1>4, BackupSettles, SubmitSettles
  <1>5. CASE clearProgress
    BY <1>5, ClearStep
  <1> QED
    BY <1>1, <1>2, <1>3, <1>4, <1>5 DEF React, UseTab, Quiet

LEMMA CrashSettles ==
    ASSUME BInv, Crash
    PROVE  SInv'
  <1>1. /\ cache' = [c \in Challenges |-> FALSE] /\ db' = [c \in Challenges |-> NewRow] /\ notifs' = <<>>
        /\ work' = EmptyBag /\ net' = EmptyBag /\ sock' = [t \in Tabs |-> <<>>] /\ times' = [c \in Challenges |-> 0]
        /\ conn' = [t \in Tabs |-> FALSE] /\ restarts' = restarts + 1 /\ crossed' = [t \in Tabs |-> TRUE]
    BY DEF Crash, Restart
  <1>2. restarts' # 0
    BY <1>1, BInvFacts
  <1>3. CookieInv'
    BY <1>2 DEF CookieInv
  <1>4. BoardInv'
    BY <1>1 DEF BoardInv, Connected
  <1>5. Calls'
    <2>1. \A f : Copies(f, work') = 0
      BY <1>1, EmptyFacts
    <2>2. \A c \in Challenges : ~cache'[c] /\ times'[c] = 0 /\ ~db'[c].solved
      BY <1>1 DEF NewRow
    <2>3. \A c : Where(notifs', c) = {}
      BY <1>1 DEF Where
    <2> QED
      BY <2>1, <2>2, <2>3 DEF Calls, Promise
  <1>6. AcksAreRequests' /\ OnlySolved' /\ Awaited' /\ times' \in [Challenges -> Nat]
    BY <1>1, EmptyFacts DEF AcksAreRequests, OnlySolved, Awaited
  <1> QED
    BY <1>3, <1>4, <1>5, <1>6 DEF SInv, NotifInv

LEMMA InitSettles ==
    ASSUME Init
    PROVE  SInv
  <1>1. /\ cache = [c \in Challenges |-> FALSE] /\ db = [c \in Challenges |-> NewRow] /\ notifs = <<>>
        /\ work = EmptyBag /\ net = EmptyBag /\ sock = [t \in Tabs |-> <<>>] /\ times = [c \in Challenges |-> 0]
        /\ conn = [t \in Tabs |-> FALSE] /\ restarts = 0 /\ crossed = [t \in Tabs |-> FALSE]
        /\ cookie = NoCodes /\ board = [t \in Tabs |-> NoBoard]
    BY DEF Init, InitProgress
  <1>2. BagToSet(net) = {} /\ BagToSet(work) = {} /\ \A f : Copies(f, work) = 0
    BY <1>1, EmptyFacts
  <1>3. \A c \in Challenges : ~cache[c] /\ times[c] = 0 /\ ~db[c].solved
    BY <1>1 DEF NewRow
  <1>4. (\A c : Where(notifs, c) = {}) /\ \A t \in Tabs : \A c : Where(sock[t], c) = {}
    BY <1>1 DEF Where
  <1>5. cookie.hack = {} /\ cookie.find = {} /\ cookie.fix = {}
    BY <1>1 DEF NoCodes
  <1>6. NotifInv
    <2>1. Calls
      BY <1>2, <1>3, <1>4 DEF Calls, Promise
    <2>2. AcksAreRequests /\ OnlySolved /\ Awaited /\ times \in [Challenges -> Nat]
      BY <1>1, <1>2 DEF AcksAreRequests, OnlySolved, Awaited
    <2> QED
      BY <2>1, <2>2 DEF NotifInv
  <1>7. BoardInv
    <2>1. Connected
      BY <1>1, <1>2 DEF Connected, InFlight
    <2>2. PhasesApart /\ OldCookie
      BY <1>2, <1>5 DEF PhasesApart, OldCookie
    <2>3. \A t \in Tabs : TabMirrors(t)
      BY <1>1, <1>2 DEF TabMirrors, LastIsCurrent
    <2> QED
      BY <1>2, <2>1, <2>2, <2>3 DEF BoardInv
  <1>8. CookieInv
    <2>1. LoneCode /\ CodesGrow
      BY <1>2, <1>5 DEF LoneCode, CodesGrow
    <2>2. \A c \in Challenges : Calm(c) /\ Unheard(c) /\ ~Promised(c)
      BY <1>2, <1>3, <1>4 DEF Calm, Unheard, Promised
    <2> QED
      BY <1>3, <2>1, <2>2 DEF CookieInv
  <1> QED
    BY <1>6, <1>7, <1>8 DEF SInv

LEMMA StutterSettles ==
    ASSUME BInv, BInv', SInv, UNCHANGED vars
    PROVE  SInv'
  <1>1. /\ UNCHANGED <<cache, db, notifs, work, net, sock, conn, restarts, times>>
        /\ UNCHANGED <<cookie, board, parallel, crossed>> /\ UNCHANGED cvars
    BY DEF vars, svars, wires, hist, cvars
  <1>2. NotifInv /\ BoardInv /\ CookieInv
    BY DEF SInv
  <1>3. PICK G, S : Moved(G, S) /\ G = {} /\ S = {}
    BY <1>1, MovedBy, BInvFacts
  <1>4. /\ \A f \in G \cup S : f.op \notin {"code", "ack", "restore"}
        /\ \A g \in G : g.op \in {"lines", "fix"} => g.at # "score"
        /\ \A s \in S : \E e \in BagToSet(net) : e.t = s.t /\ e.op = s.op /\ e.c = s.c /\ (s.op \in {"lines", "fix"} => e.at # "ans")
        /\ \A s \in S : (s.op = "board" => s.rows = db) /\ OldPhases(s)
    BY <1>3
  <1>5. \A c \in Challenges : times[c] \in Nat /\ Promises(work, c) \in Nat
    BY <1>2, CallsFacts
  <1>6. NotifInv'
    <2>1. \A c \in Challenges : /\ times[c] <= times'[c] /\ (cache'[c] => cache[c] \/ times'[c] >= 1)
                                /\ Promises(work', c) - Promises(work, c) <= times'[c] - times[c]
      BY <1>1, <1>5
    <2>2. times' \in [Challenges -> Nat] /\ \A c \in Challenges : db'[c].solved = db[c].solved
      BY <1>1, <1>2 DEF NotifInv
    <2> QED
      BY <1>1, <1>2, <1>3, <1>4, <2>1, <2>2, SameSockets, NotifKept
  <1>7. CookieInv'
    BY <1>1, <1>2, <1>3, <1>4, SameSockets, CookieKept
  <1>8. BoardInv'
    BY <1>1, <1>2, <1>3, <1>4, ServerBoard
  <1> QED
    BY <1>6, <1>7, <1>8 DEF SInv

LEMMA NextSettles ==
    ASSUME BInv, BInv', SInv, [Next]_vars
    PROVE  SInv'
  <1>1. CASE UNCHANGED vars
    BY <1>1, StutterSettles
  <1>2. CASE (\E e \in BagToSet(work) : Settle(e) /\ UNCHANGED cvars) \/ (Occur /\ UNCHANGED cvars)
    BY <1>2, SettleSettles
  <1>3. CASE \E e \in BagToSet(net) : Handle(e) /\ UNCHANGED cvars
    BY <1>3, HandleSettles
  <1>4. ASSUME NEW t \in Tabs, connection(t), UNCHANGED cvars
        PROVE  SInv'
    BY <1>4, ConnectionNotif, ConnectionCookie, ConnectionBoard DEF SInv
  <1>5. CASE React \/ UseTab
    BY <1>5, TabSettles
  <1>6. CASE Crash
    BY <1>6, CrashSettles
  <1> QED
    BY <1>1, <1>2, <1>3, <1>4, <1>5, <1>6, NextCases

(* What the boards, the list of notifications and the cookie lack is on    *)
(* the way: in an event, an answer, a request or a promise of the server.  *)
THEOREM SInvariance == Spec => []SInv
  <1>1. Init => SInv
    BY InitSettles
  <1>2. BInv /\ BInv' /\ SInv /\ [Next]_vars => SInv'
    BY NextSettles
  <1> QED
    BY <1>1, <1>2, BInvariance, PTL DEF Spec

(* The score board, the notifications and the cookie with the continue     *)
(* code, for any number of tabs, challenges and crashes: when nothing is   *)
(* on the way, a board shows what the rows say unless an event came while  *)
(* it was loading or its tab was crossed in another way, every             *)
(* notification is confirmed unless a challenge was solved again, and the  *)
(* cookie stands for every solved challenge unless two codes were asked    *)
(* for at the same time or the server crashed.                             *)
THEOREM SettledAtRestTheorem == Spec => []SettledAtRest
  <1>1. ASSUME BInv, SInv, Rest
        PROVE  SettledAtRest
    <2>1. /\ BagToSet(net) = {} /\ BagToSet(work) = {} /\ (\A f : Copies(f, net) = 0) /\ (\A f : Copies(f, work) = 0)
          /\ \A t \in Tabs : conn[t] /\ sock[t] = <<>>
      BY <1>1, EmptyFacts DEF Rest
    <2>2. NotifInv /\ BoardInv /\ CookieInv
      BY <1>1 DEF SInv
    <2>3. PICK u \in Tabs : TRUE
      BY ProgressAssumption
    <2>4. \A t \in Tabs : \A c : Where(sock[t], c) = {}
      BY <2>1 DEF Where
    <2>5. BoardAtRest
      <3> SUFFICES ASSUME NEW t \in Tabs, board[t] # NoBoard, ~crossed[t]
                   PROVE  board[t] = db
        BY DEF BoardAtRest
      <3>1. Mirrors(board[t], sock[t]) /\ restarts = 0
        BY <2>2 DEF BoardInv, Connected, TabMirrors
      <3>2. NotAhead(board[t]) /\ board[t] \in Rows /\ db \in Rows
        BY <1>1, <3>1, BInvFacts DEF BInv, BoardsAreTrue, Types, TabTypes
      <3>3. \A c : NoCode(sock[t], c) /\ ~ScorePending(c)
        BY <2>1 DEF NoCode, ScorePending
      <3>4. ASSUME NEW c \in Challenges
            PROVE  board[t][c] = db[c]
        <4>1. board[t][c].solved <=> db[c].solved
          BY <2>4, <3>1, <3>2 DEF Mirrors, NotAhead
        <4>2. board[t][c].code = db[c].code
          BY <3>1, <3>3 DEF Mirrors, UpToDate
        <4>3. board[t][c] \in ChallengeTable /\ db[c] \in ChallengeTable
          BY <3>2 DEF Rows
        <4> QED
          BY <4>1, <4>2, <4>3 DEF ChallengeTable
      <3> QED
        BY <3>2, <3>4 DEF Rows
    <2>6. NotificationsAtRest
      <3> SUFFICES ASSUME \A c \in Challenges : ~(times[c] > 1)
                   PROVE  notifs = <<>>
        BY DEF NotificationsAtRest
      <3>1. ASSUME NEW c \in Challenges
            PROVE  Where(notifs, c) = {}
        <4>1. times[c] <= 1
          BY <2>2 DEF NotifInv
        <4>2. Num(notifs, c) <= Num(sock[u], c) + Copies(Ack(u, c), net)
          BY <2>1, <2>2, <4>1 DEF NotifInv, Awaited
        <4>3. Num(sock[u], c) = 0
          <5>1. sock[u] \in Seq(Events)
            BY <1>1, BInvFacts
          <5> QED
            BY <2>4, <5>1, WhereFacts
        <4>4. notifs \in Seq(Events)
          BY <1>1, BInvFacts
        <4>5. Num(notifs, c) \in Nat /\ (Num(notifs, c) = 0 <=> Where(notifs, c) = {})
          BY <4>4, WhereFacts
        <4>6. Copies(Ack(u, c), net) = 0
          BY <2>1
        <4> QED
          BY <4>2, <4>3, <4>5, <4>6
      <3>2. notifs \in Seq(Events)
        BY <1>1, BInvFacts
      <3>3. ASSUME NEW i \in DOMAIN notifs
            PROVE  FALSE
        <4>1. notifs[i] \in Events /\ notifs[i].ev = "solved"
          BY <2>2, <3>2, <3>3 DEF NotifInv, OnlySolved
        <4>2. notifs[i].c \in Challenges /\ i \in Where(notifs, notifs[i].c)
          BY <3>3, <4>1 DEF Events, Where, Tells
        <4> QED
          BY <3>1, <4>2
      <3>4. notifs # <<>> => 1 \in DOMAIN notifs
        BY <3>2
      <3> QED
        BY <3>3, <3>4
    <2>7. CookieAtRest
      <3> SUFFICES ASSUME ~parallel, restarts = 0
                   PROVE  cookie.hack = {c \in Challenges : cache[c]}
        BY DEF CookieAtRest
      <3>1. /\ CodesGrow
            /\ \A c \in Challenges : cache[c] => Covered(c) \/ (Calm(c) /\ (Told(c) \/ (Unheard(c) /\ Promised(c))))
        BY <2>2 DEF CookieInv
      <3>2. \A c : ~Promised(c) /\ ~Told(c) /\ (Covered(c) => c \in cookie.hack)
        BY <2>1, <2>4 DEF Promised, Told, FirstIsNew, Covered
      <3> QED
        BY <3>1, <3>2 DEF CodesGrow, Cached
    <2> QED
      BY <2>5, <2>6, <2>7 DEF SettledAtRest
  <1>2. ASSUME ~Rest
        PROVE  SettledAtRest
    BY <1>2 DEF SettledAtRest, BoardAtRest, NotificationsAtRest, CookieAtRest
  <1>3. BInv /\ SInv => SettledAtRest
    BY <1>1, <1>2
  <1> QED
    BY <1>3, BInvariance, SInvariance, PTL
=============================================================================
