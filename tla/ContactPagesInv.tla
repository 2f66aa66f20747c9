-------------------------- MODULE ContactPagesInv ---------------------------
(***************************************************************************)
(* What holds in every state of the accounts, the forms and the pages of   *)
(* the Juice Shop (AccountsInv, FormInv and RestInv, each inductive with   *)
(* those before it), and the relations between the states before and after *)
(* a step from which the proofs of ContactPagesProofs conclude that it     *)
(* goes on to hold.                                                        *)
(***************************************************************************)
EXTENDS ContactPages

-----------------------------------------------------------------------------
(* What the variables hold.                                                *)

Rows == [there : BOOLEAN, password : Nat, totp : Nat, name : Nat]
Tokens == [user : Users, password : Nat, totp : Nat, name : Nat]
Copies == [user : Users, password : Nat, totp : Nat, bid : Nat]

FactorOps == {"setup", "disable"}
LoginOps == {"login", "verify"}
UserOps == {"login", "reset", "register", "answer", "wallet"}
FoundOps == {"login", "verify", "password", "reset", "setup", "disable", "username", "setname"}
PageOps ==
    {"login", "verify", "whoami", "ip", "password", "question", "reset", "status", "setup", "disable", "register",
     "answer", "profile", "username", "erasure form", "erasure", "captcha", "export", "chatstatus", "query",
     "setname", "captchas", "feedback"}
ChatOps == {"chatstatus", "query", "setname"}
Stages == {"req", "found", "saved", "ans"}
Results ==
    {"", "ok", "totp", "400", "401", "404", "error", "off", "on", "captcha", "not ready", "training", "trained",
     "namequery", "greeting", "response"}
Calls ==
    [no : Nat, t : Tabs \cup {No}, pg : Nat, op : PageOps \cup {"wallet"}, at : Stages, auth : Nat, cookie : Nat,
     u : Users \cup {No}, pw : Nat, v : Nat, row : Rows, res : Results, tk : Nat]

PageFields ==
    {"at", "n", "tk", "status", "secret", "email", "question", "timer", "enabled", "captcha", "present"}
PageOK(p) ==
    /\ DOMAIN p = PageFields
    /\ p.n \in Nat /\ p.tk \in 0..Len(minted) /\ p.secret \in Nat /\ p.captcha \in Nat
    /\ p.email \in Users \cup {No} /\ p.question \in Users \cup {No}

TablesOK ==
    /\ users \in [Users -> Rows] /\ (\A u \in Users : users[u].there \/ users[u] = User)
    /\ answers \subseteq Users /\ erasures \subseteq Users
    /\ baskets \in Seq(Users) /\ (\A i, j \in DOMAIN baskets : baskets[i] = baskets[j] => i = j)
    /\ wallets \in [Users -> 0..1] /\ captchas \in [Users -> Seq(Nat)]

SessionsOK ==
    /\ minted \in Seq(Tokens) /\ secrets \in Nat
    /\ DOMAIN cache \subseteq DOMAIN minted
    /\ \A tk \in DOMAIN cache : cache[tk] \in Copies /\ cache[tk].user = minted[tk].user
    /\ ~restarted => DOMAIN cache = DOMAIN minted

TodoOK == {"who", "tabs"} \subseteq DOMAIN todo /\ todo.who \subseteq Users /\ todo.tabs \subseteq Tabs

SessionOK ==
    /\ local \in 0..Len(minted) /\ cookie \in 0..Len(minted)
    /\ bid \in [Tabs -> Nat] /\ setBy \in Tabs \cup {No} /\ BidIsOwn

ConfirmedOK == ~restarted => \A u \in confirmed : users[u].there /\ u \in answers

PersonOK ==
    /\ tmp \in Users \cup {No} /\ shown \in [Tabs -> Users \cup {No}]
    /\ phone \subseteq Nat /\ confirmed \subseteq Users /\ ConfirmedOK

LateOK == late \in [Tabs -> BOOLEAN]

PagesOK == DOMAIN page = Tabs /\ \A t \in Tabs : PageOK(page[t])

ContactOK ==
    /\ bot \in [state : {"none", "training", "trained"}, names : [Users -> Nat]]
    /\ DOMAIN author = Tabs /\ \A t \in Tabs : author[t] \in Users \cup {No, Unknown}
    /\ DOMAIN action = Tabs /\ \A t \in Tabs : \A n \in DOMAIN action[t] : action[t][n] \in {"query", "setname"}
    /\ \A t \in Tabs : page[t].at = "chatbot" => page[t].n \in DOMAIN action[t]

(* What is known of a call.                                                *)
CallTyped(c) ==
    /\ c \in Calls /\ c.no \in 1..sent
    /\ c.auth \in 0..Len(minted) /\ c.cookie \in 0..Len(minted) /\ c.tk \in 0..Len(minted)
    /\ c.t \in Tabs /\ c.op \in ChatOps => c.pg \in DOMAIN action[c.t]
    /\ c.op \in UserOps \/ (c.op = "question" /\ c.at = "req") => c.u \in Users

CallStaged(c) ==
    /\ c.at = "found" => c.op \in FoundOps /\ c.u \in Users /\ users[c.u].there
    /\ c.at = "saved" => c.op \in FactorOps /\ c.u \in Users /\ users[c.u].there
    /\ c.op = "wallet" => c.at = "req" /\ c.t = No /\ users[c.u].there /\ wallets[c.u] = 0

Registering(c) ==
    ~restarted =>
        /\ c.op = "answer" => users[c.u].there
        /\ c.op = "answer" /\ c.at = "ans" /\ c.res = "ok" => c.u \in answers
        /\ c.op = "register" /\ c.at = "ans" /\ c.res = "ok" => users[c.u].there

LoggingIn(c) ==
    c.op \in LoginOps /\ c.at = "ans" /\ c.res = "ok" =>
        /\ c.tk # 0
        /\ ~restarted => c.v \in DOMAIN baskets /\ baskets[c.v] = minted[c.tk].user

Active(c) == c.op \in FactorOps /\ c.at \in {"found", "saved"}

SettingFactor(c) ==
    Active(c) =>
        /\ c.auth \in DOMAIN cache /\ cache[c.auth].user = c.u
        /\ c.u \notin raced =>
            /\ c.at = "found" => c.row.totp = users[c.u].totp /\ (c.op = "setup" => users[c.u].totp = 0)
            /\ c.at = "saved" => users[c.u].totp = Secret(c)

RowIsFresh(c) ==
    c.op \in LoginOps /\ c.at = "found" /\ c.u \notin raced /\ TokensOf(c.u) = {} => c.row.totp = users[c.u].totp

CallOK(c) == CallTyped(c) /\ CallStaged(c) /\ Registering(c) /\ LoggingIn(c) /\ SettingFactor(c) /\ RowIsFresh(c)

CallsOK == sent \in Nat /\ \A c \in calls : CallOK(c)

(* No two calls have the same number, create a wallet for the same user    *)
(* or, without a race, change the second factor of the same user.          *)
CallsApart ==
    \A c, d \in calls :
        \/ c = d
        \/ /\ c.no # d.no
           /\ ~(c.op = "wallet" /\ d.op = "wallet" /\ c.u = d.u)
           /\ ~(Active(c) /\ Active(d) /\ c.u = d.u /\ c.u \notin raced)

WalletsOK ==
    \A u \in Users :
        /\ ~users[u].there => wallets[u] = 0
        /\ users[u].there /\ wallets[u] = 0 /\ ~failed => \E c \in calls : c.op = "wallet" /\ c.u = u

Saving(u) == \E c \in calls : c.op \in FactorOps /\ c.at = "saved" /\ c.u = u

FactorOK ==
    /\ \A u \in Users : users[u].totp # 0 => TokensOf(u) # {}
    /\ \A u \in Users \ raced : \A x, y \in TokensOf(u) : x = y
    /\ \A u \in Users \ raced : \A tk \in TokensOf(u) :
        ~Saving(u) => cache[tk].totp = users[u].totp \/ (restarted /\ users[u].totp = 0)

SInv == TablesOK /\ SessionsOK /\ CallsOK /\ CallsApart /\ WalletsOK /\ FactorOK /\ NoLostUpdate
BrowserInv == TodoOK /\ SessionOK /\ PersonOK /\ LateOK /\ PagesOK /\ ContactOK
AccountsInv == SInv /\ BrowserInv

-----------------------------------------------------------------------------
(* What a step of the browser does to the calls.                           *)

Kin(c, d) ==
    /\ d \in Calls /\ d.no = c.no /\ d.t \in {c.t, No} /\ d.pg = c.pg /\ d.op = c.op /\ d.at = c.at /\ d.auth = c.auth
    /\ d.cookie = c.cookie /\ d.u = c.u /\ d.v = c.v /\ d.row = c.row /\ d.res = c.res /\ d.tk = c.tk

Fresh(d) ==
    /\ d \in Calls /\ d.no > sent /\ d.no <= sent' /\ d.at = "req" /\ d.op \in PageOps /\ d.t \in Tabs
    /\ d.auth \in 0..Len(minted) /\ d.cookie \in 0..Len(minted) /\ d.tk = 0
    /\ d.op \in ChatOps => d.pg \in DOMAIN action'[d.t]
    /\ d.op \in UserOps \cup {"question"} => d.u \in Users
    /\ d.op = "answer" /\ ~restarted => users[d.u].there

Becomes(R, S) == calls' = R \cup S

AllFresh(S) ==
    (\A d \in S : Fresh(d)) /\ (\A c, d \in S : c.no = d.no => c = d) /\ sent' \in Nat /\ sent <= sent'

BrowserCalls ==
    /\ sent' \in Nat /\ sent <= sent'
    /\ \A d \in calls' : Fresh(d) \/ \E c \in calls : Kin(c, d)
    /\ \A c, d \in calls' : c.no = d.no => c = d
    /\ \A c \in calls : c.at # "ans" => \E d \in calls' : Kin(c, d)
    /\ \A t \in Tabs : DOMAIN action[t] \subseteq DOMAIN action'[t]

(* The steps of the browser.                                               *)

BrowserStep == Quiet /\ BrowserCalls /\ BrowserInv'

-----------------------------------------------------------------------------
(* The server.  What no step of it undoes.                                 *)

Bots == [state : {"none", "training", "trained"}, names : [Users -> Nat]]

Tables2 == TablesOK' /\ SessionsOK' /\ NoLostUpdate' /\ TodoOK' /\ bot' \in Bots

Grows ==
    /\ UNCHANGED <<restarted, action, author, cvars>>
    /\ sent' \in Nat /\ sent <= sent' /\ (failed => failed') /\ raced \subseteq raced' /\ answers \subseteq answers'
    /\ Len(minted) <= Len(minted') /\ (\A i \in 1..Len(minted) : minted'[i] = minted[i])
    /\ \A i \in DOMAIN baskets : i \in DOMAIN baskets' /\ baskets'[i] = baskets[i]
    /\ \A tk \in DOMAIN cache : tk \in DOMAIN cache' /\ cache'[tk].user = cache[tk].user
    /\ \A u \in Users : users[u].there => users'[u].there

Serves(c) ==
    /\ Tables2 /\ Grows
    /\ \A u \in Users : users'[u].totp = users[u].totp \/ (Active(c) /\ u = c.u)
    /\ \A e \in calls \ {c} : e.op = "wallet" => wallets'[e.u] = wallets[e.u]

(* A call turns into another.                                              *)
Turned(c, d) ==
    /\ d \in Calls /\ d.no = c.no /\ d.t = c.t /\ d.pg = c.pg /\ d.op = c.op /\ d.auth = c.auth /\ d.cookie = c.cookie

Turns(c, d) == calls' = Move(c, d)

(* Steps that only read.                                                   *)
Reads ==
    /\ UNCHANGED <<users, baskets, wallets, minted, cache, last, restarted, cvars, action, author, sent>> /\ answers \subseteq answers'
    /\ TablesOK' /\ TodoOK' /\ bot' \in Bots /\ secrets' \in Nat /\ (failed => failed') /\ raced \subseteq raced'

Committing == {"answer", "register", "login", "verify"}

(* What the handlers of the accounts leave alone.                          *)
Around == UNCHANGED <<todo, hist, cvars, contact>>

(* The handler answers with a value of its own.                            *)
WithUser(c, res, u) == [Answered(c, res) EXCEPT !.u = u]
WithValue(c, res, v) == [Answered(c, res) EXCEPT !.v = v]

(* The chatbot and the feedback form of the server.                        *)
TalksAround == UNCHANGED <<todo, hist, cvars, action, author>>

WithToken(c, tk, v) == [Answered(c, "ok") EXCEPT !.tk = tk, !.v = v]

(* Steps that change the second factor of a row.                           *)
Replaced == \A u \in Users : users[u].totp # 0 /\ users'[u].totp \notin {0, users[u].totp} => u \in raced

-----------------------------------------------------------------------------
(* The forms.  What is on its way to a form, from it or in it.             *)

(* Pages have numbers; a call of the open page is one that the page makes. *)
FeedbackOps == {"captchas", "feedback"}
ExportOps == {"captcha", "export"}
Open(c) == c.t \in Tabs /\ c.pg = page[c.t].n

PagesFit ==
    \A c \in calls :
        /\ c.t \in Tabs => c.pg <= page[c.t].n
        /\ Open(c) /\ c.op \in FeedbackOps => page[c.t].at = "contact"
        /\ Open(c) /\ c.op \in ExportOps => page[c.t].at = "export"

(* Feedback: captchas are remembered until the server is restarted.        *)
FeedbackInv ==
    ~restarted =>
        /\ \A t \in Tabs : page[t].at = "contact" => page[t].captcha \in captchaIds \cup {0}
        /\ \A c \in calls : c.op = "captchas" /\ c.res = "ok" => c.v \in captchaIds
        /\ \A c \in calls : c.op = "feedback" => c.v \in captchaIds /\ c.res # "401"

(* Messages: the page of the chatbot knows whether a name was asked for,   *)
(* and a message was typed for what is done with it.                       *)
Asked ==
    /\ asked \in [Tabs -> BOOLEAN]
    /\ \A t \in Tabs : page[t].at = "chatbot" /\ action[t][page[t].n] = "setname" => asked[t]
Worded ==
    \A c \in calls :
        /\ c.op = "username" => c.v = 1
        /\ c.op = "setname" \/ (c.op = "chatstatus" /\ c.pw = 1) => c.v # 0
InTurn ==
    ~overlap =>
        /\ \A u \in Users : users[u].name # 2
        /\ \A c \in calls : c.op = "setname" => c.v # 2
        /\ \A c \in calls : c.op = "chatstatus" /\ c.pw = 1 /\ c.v = 2 /\ c.t \in Tabs => action[c.t][c.pg] = "query"
        /\ \A c, d \in calls : c.op \in ChatOps /\ d.op \in ChatOps /\ c.t \in Tabs /\ c.t = d.t /\ c.pg = d.pg => c = d
NameInv == Asked /\ Worded /\ InTurn

(* Questions: the chatbot knows who has got a status.                      *)
Heard(c) == Sender(c) = 0 \/ minted[Sender(c)].name = 0 \/ bot.names[minted[Sender(c)].user] # 0
QuestionInv ==
    ~restarted =>
        \A c \in calls :
            /\ c.op = "chatstatus" /\ c.res \in {"trained", "namequery"} => Heard(c)
            /\ c.op = "query" /\ c.pw = 1 => Heard(c) /\ c.res # "greeting"

(* A token reaches localStorage once.                                      *)
Brings(c) == c.op \in {"login", "verify", "query", "setname"} /\ c.tk # 0
TokenInv ==
    \A c \in calls : Brings(c) =>
        /\ c.tk # local
        /\ \A t \in Tabs : page[t].tk # c.tk
        /\ \A d \in calls : d.auth # c.tk
        /\ \A d \in calls : Brings(d) /\ d.tk = c.tk => d = c

(* Exports: a tab that is not late shows the newest captcha of its user,   *)
(* or the newest one is on its way to it.                                  *)
Counts(tk, v) == verifyImageCaptcha(captchas[Who(tk)], v)
Showing(t) == page[t].at = "export" /\ page[t].captcha # 0 /\ ~late[t]
Given(c) == c.op = "captcha" /\ c.at = "ans" /\ c.res = "ok"
OneAsks ==
    \A c \in calls : c.op = "captcha" =>
        /\ \A d \in calls : d.op = "captcha" /\ d # c => \A t \in Tabs : late[t]
        /\ \A t \in Tabs : Showing(t) => c.t = t /\ c.pg = page[t].n
CaptchaOnItsWay ==
    \A c \in calls : c.op = "captcha" /\ Open(c) /\ page[c.t].tk = local /\ local # 0 =>
        /\ c.auth = local
        /\ Given(c) /\ ~late[c.t] => Counts(local, c.v)
CaptchaShows ==
    \A t \in Tabs :
        Showing(t) /\ page[t].tk = local /\ local # 0 /\ (\A c \in calls : ~Given(c))
        => Counts(local, page[t].captcha)
Exporting ==
    \A c \in calls : c.op = "export" /\ c.pw # 0 =>
        /\ c.res # "captcha"
        /\ \A d \in calls : d.op # "captcha"
        /\ c.auth # 0 => Counts(c.auth, c.v)
CaptchaInv == OneAsks /\ CaptchaOnItsWay /\ CaptchaShows /\ Exporting

FormInv == PagesFit /\ FeedbackInv /\ NameInv /\ QuestionInv /\ TokenInv /\ CaptchaInv

-----------------------------------------------------------------------------
(* What a step does to the forms.                                          *)

BringOps == {"login", "verify", "query", "setname"}
WordOps == {"chatstatus", "query", "setname", "username", "feedback", "export"}

(* d is the call c, perhaps further on.                                    *)
Follows(c, d) ==
    /\ d.no = c.no /\ d.pg = c.pg /\ d.op = c.op /\ d.auth = c.auth /\ d.cookie = c.cookie
    /\ d.t = c.t \/ (d.t = No /\ c.t \in Tabs /\ page'[c.t].n # page[c.t].n)
    /\ d.op \in WordOps => d.v = c.v
    /\ d.op \in ChatOps => d.pw = c.pw
    /\ d.op = "export" => d.pw \in {c.pw, 0}
    /\ d.op = "captchas" /\ d.res = "ok" => (c.res = "ok" /\ d.v = c.v) \/ d.v \in captchaIds'
    /\ d.op = "feedback" /\ d.res = "401" => c.res = "401" \/ c.v \notin captchaIds
    /\ d.op = "chatstatus" /\ d.res \in {"trained", "namequery"} => d.res = c.res \/ Heard(d)'
    /\ d.op = "query" /\ d.res = "greeting" => c.res = "greeting" \/ ~Heard(c)
    /\ d.op \in BringOps => d.tk = c.tk \/ d.tk > Len(minted)
    /\ Given(d) => (Given(c) /\ d.v = c.v) \/ Counts(d.auth, d.v)'
    /\ d.op = "export" /\ d.res = "captcha" => c.res = "captcha" \/ (c.auth # 0 /\ ~Counts(c.auth, c.v))

Said == {"ok", "401", "trained", "namequery", "greeting", "captcha"}

Added(d) ==
    /\ d.no > sent /\ d.res \notin Said /\ d.tk = 0 /\ d.auth \in {0, local, local'}
    /\ d.t \in Tabs => d.pg <= page'[d.t].n

PageMoves(t) ==
    \/ page'[t].n = page[t].n /\ page'[t].at = page[t].at /\ page'[t].tk = page[t].tk
    \/ page'[t].n > page[t].n /\ page'[t].captcha = 0 /\ page'[t].tk \in {0, local, local'}

LocalMoves ==
    \/ local' \in {local, 0}
    \/ \E c \in calls : Brings(c) /\ c.tk = local' /\ \A d \in calls' : d.no # c.no

Passes ==
    /\ \A d \in calls' : (\E c \in calls : Follows(c, d)) \/ Added(d)
    /\ \A t \in Tabs : PageMoves(t) /\ (late[t] => late'[t])
    /\ LocalMoves
    /\ Len(minted) <= Len(minted') /\ (\A i \in 1..Len(minted) : minted'[i] = minted[i])
    /\ restarted => restarted'
    /\ ~restarted' => captchaIds \subseteq captchaIds' /\ \A u \in Users : bot.names[u] # 0 => bot'.names[u] # 0

BothInv == AccountsInv /\ AccountsInv' /\ FormInv

NewFits ==
    \A d \in calls' : Added(d) /\ Open(d)' =>
        /\ d.op \in FeedbackOps => page'[d.t].at = "contact"
        /\ d.op \in ExportOps => page'[d.t].at = "export"

ContactStays ==
    \A t \in Tabs : page'[t].at = "contact" =>
        \/ page'[t].captcha = 0
        \/ page[t].at = "contact" /\ page'[t].captcha = page[t].captcha
        \/ page'[t].captcha \in captchaIds'

NewFeedback == \A d \in calls' : Added(d) /\ d.op = "feedback" /\ ~restarted => d.v \in captchaIds

NewHeard == \A d \in calls' : Added(d) /\ d.op = "query" /\ d.pw = 1 /\ ~restarted' => Heard(d)'

NewTokenOnce ==
    \A d, e \in calls' : Brings(d) /\ Brings(e) /\ d.tk > Len(minted) /\ e.tk > Len(minted) => d = e

NewWords ==
    \A d \in calls' : Added(d) =>
        /\ d.op = "username" => d.v = 1
        /\ d.op = "setname" \/ (d.op = "chatstatus" /\ d.pw = 1) => d.v # 0

NamesMove ==
    \A u \in Users :
        \/ users'[u].name \in {users[u].name, 0}
        \/ \E c \in calls : c.op \in {"username", "setname"} /\ users'[u].name = c.v

CaptchasStay == \A u \in Users : captchas'[u] \in {captchas[u], <<>>}

(* Somebody gets a new captcha.                                            *)
CaptchaGiven == \E c \in calls, d \in calls' : c.op = "captcha" /\ ~Given(c) /\ Follows(c, d) /\ Given(d)

CaptchasMove == CaptchasStay \/ CaptchaGiven

(* The captchas on the pages of exports change only with the page, and     *)
(* none that is on its way to a page is lost.                              *)
ExportStays ==
    /\ \A t \in Tabs : page'[t].at = "export" /\ page'[t].n = page[t].n => page'[t].captcha = page[t].captcha
    /\ \A c \in calls : Given(c) /\ Open(c) =>
        (\E d \in calls' : Given(d)) \/ page'[c.t].n # page[c.t].n \/ \A u \in Users : captchas'[u] = <<>>

NewExport ==
    \A d \in calls' : Added(d) =>
        /\ d.op # "captcha"
        /\ d.op = "export" /\ d.pw # 0 => (\A c \in calls : c.op # "captcha") /\ (d.auth # 0 => Counts(d.auth, d.v))

-----------------------------------------------------------------------------
(* Steps that leave the forms alone.                                       *)

FormOps == ChatOps \cup FeedbackOps \cup ExportOps

NothingNew == \A d \in calls' : Added(d) => d.op \notin FormOps /\ (d.op = "username" => d.v = 1)

(* Answers that say nothing about a form.                                  *)
Harmless(op, res) ==
    /\ op \in {"captchas", "captcha"} => res # "ok"
    /\ op = "feedback" => res # "401"
    /\ op = "export" => res # "captcha"
    /\ op = "chatstatus" => res \notin {"trained", "namequery"}
    /\ op = "query" => res # "greeting"

(* The steps of the server and the forms.                                  *)

Kept == UNCHANGED <<cvars, action, asked, overlap, restarted>>

Moves(c) == \E d : Turns(c, d) /\ Follows(c, d)

(* The chatbot, the feedback form and the forms.                           *)

Talking == UNCHANGED <<hist, cvars, action, asked, overlap>>

-----------------------------------------------------------------------------
(* The pages and the forms.  Most steps of the browser leave the forms     *)
(* alone: they take answers that are none of theirs, send calls that are   *)
(* none of theirs, and open other pages.                                   *)

SamePage(t) ==
    page'[t].n = page[t].n /\ page'[t].at = page[t].at /\ page'[t].tk = page[t].tk /\ page'[t].captcha = page[t].captcha
OtherPage(t) ==
    page'[t].n > page[t].n /\ page'[t].captcha = 0 /\ page'[t].tk \in {0, local, local'} /\ page'[t].at # "chatbot"
PagesPlain == \A t \in Tabs : SamePage(t) \/ OtherPage(t)
LateGrows == \A t \in Tabs : late[t] => late'[t]
ContactKept == UNCHANGED <<bot, captchaIds, action, asked, overlap>>

News(S) == \A d \in S : Added(d) /\ d.op \notin FormOps /\ (d.op = "username" => d.v = 1)
Rest(R) == R \subseteq calls /\ \A c \in calls : Given(c) /\ c.t \in Tabs => c \in R
Plainly(R) == \E S : Becomes(R, S) /\ News(S)

(* The page of the chatbot.                                                *)
ChatPages ==
    \A t \in Tabs : SamePage(t) \/ (page'[t].n > page[t].n /\ page'[t].captcha = 0 /\ page'[t].tk \in {0, local, local'})

-----------------------------------------------------------------------------
(* Pages at rest.                                                          *)

ServerPages == {"profile", "erasure"}
LoadOps == {"profile", "username", "erasure form", "erasure"}
PageFactorOps == {"status", "setup", "disable"}

(* A page of the server has only calls of its own, and other pages have    *)
(* none of those.                                                          *)
Placed ==
    /\ \A c \in calls : c.t \in Tabs => (c.op \in LoadOps <=> page[c.t].at \in ServerPages)
    /\ \A t \in Tabs : page[t].timer \/ page[t].email # No => page[t].at \notin ServerPages

(* The security question that is shown or looked up is that of the address. *)
Looks(c, t) == c.t = t /\ c.op = "question"
Sought(t) ==
    ~late[t] =>
        /\ \A c, d \in calls : Looks(c, t) /\ Looks(d, t) => c = d
        /\ page[t].at = "forgot" /\ ~page[t].timer =>
            /\ page[t].question \in {No, page[t].email}
            /\ \A c \in calls : Looks(c, t) /\ c.pg = page[t].n => c.u \in {No, page[t].email}

(* The navigation bar names the user of the cookie, or the newest of its   *)
(* questions is about that user.                                           *)
Asks(c, t) == c.t = t /\ c.op = "whoami" /\ c.pw = 0
Leads(t) == setBy = t /\ local # 0 /\ ~late[t] /\ page[t].at \notin ServerPages
Told(t) ==
    Leads(t) =>
        /\ (\A c \in calls : ~Asks(c, t)) => shown[t] = Who(cookie)
        /\ \A c \in calls : Asks(c, t) /\ (\A d \in calls : Asks(d, t) => d.no <= c.no) => Who(c.cookie) = Who(cookie)
TellsUser == \A c \in calls : c.op = "whoami" /\ c.at = "ans" /\ c.res = "ok" => c.u = Who(c.cookie)

(* The page of the second factor shows what is in the row, or is going to. *)
Fitting(t) ==
    /\ page[t].at = "2fa" /\ page[t].tk = local /\ local # 0 /\ Who(local) \notin raced
    /\ ~late[t] /\ ~failed /\ ~restarted
RowFactor == users[Who(local)].totp
FactorShown(t) ==
    page[t].status = (IF RowFactor = 0 THEN "off" ELSE "on") /\ (page[t].status = "off" => page[t].secret # 0)
Before(c) == c.at \in {"req", "found"} \/ (c.at = "ans" /\ c.res # "ok")
Changing(c, t) ==
    /\ c.t = t /\ c.pg = page[t].n /\ c.auth = local
    /\ \A d \in calls : d.t = t /\ d.op \in PageFactorOps => d = c
    /\ page[t].status = (IF c.op = "setup" THEN "off" ELSE "on") /\ (c.op = "setup" => page[t].secret # 0)
    /\ c.op = "setup" /\ c.at = "found" => c.v # 0
    /\ IF Before(c) THEN FactorShown(t) ELSE RowFactor = 0 <=> c.op = "disable"
Checks(c, t) == c.op = "status" /\ c.t = t /\ c.pg = page[t].n
Checking(c, t) ==
    /\ c.auth = local /\ c.at \in {"req", "ans"}
    /\ c.pw # 0 => RowFactor = 0
    /\ c.at = "ans" => c.res = (IF RowFactor = 0 THEN "off" ELSE "on") /\ (c.res = "off" => c.v # 0)
Fitted(t) ==
    Fitting(t) =>
        /\ \A c \in calls : c.op \in FactorOps => Changing(c, t)
        /\ \A c \in calls : Checks(c, t) => Checking(c, t)
        /\ (\A c \in calls : c.op \notin FactorOps) /\ (\A c \in calls : Checks(c, t) => c.pw # 0) => FactorShown(t)

RestInv == Placed /\ TellsUser /\ \A t \in Tabs : Sought(t) /\ Told(t) /\ Fitted(t)

-----------------------------------------------------------------------------
(* A step of the server moves calls on.                                    *)

SameFactor(c, d) == d.at = c.at /\ d.res = c.res /\ d.v = c.v
Goes(c, d) ==
    /\ d.no = c.no /\ d.t = c.t /\ d.pg = c.pg /\ d.op = c.op /\ d.auth = c.auth /\ d.cookie = c.cookie /\ d.pw = c.pw
    /\ d.op = "question" => d.u \in {c.u, No}
    /\ d.op = "whoami" /\ d.at = "ans" /\ d.res = "ok" => (c.at = "ans" /\ c.res = "ok" /\ d.u = c.u) \/ d.u = Who(d.cookie)
Carried ==
    /\ \A d \in calls' : (d.op = "wallet" /\ d.t = No) \/ \E c \in calls : Goes(c, d)
    /\ \A c \in calls : c.t = No \/ \E d \in calls' : Goes(c, d)

(* What the server does to the second factor of the user of the page.      *)
FactorGoes(c, d) ==
    /\ d.op = "setup" /\ d.at = "found" => d.v # 0 \/ (c.at = "found" /\ d.v = c.v)
    /\ d.op \in FactorOps =>
        \/ (Before(d) <=> Before(c)) /\ RowFactor' = RowFactor
        \/ ~Before(d) /\ (RowFactor' = 0 <=> d.op = "disable")
    /\ d.op = "status" /\ d.auth = local /\ (\A b \in calls : b.op \notin FactorOps) =>
        \/ SameFactor(c, d)
        \/ d.at = "ans" /\ d.res = (IF RowFactor = 0 THEN "off" ELSE "on") /\ (d.res = "off" => d.v # 0)
StillFitting(t) == Fitting(t) /\ ~failed' /\ ~restarted' /\ Who(local) \notin raced'
FactorMoves ==
    \A t \in Tabs : StillFitting(t) =>
        /\ \A c \in calls, d \in calls' : Goes(c, d) => FactorGoes(c, d)
        /\ RowFactor' = RowFactor \/ \E c \in calls : c.op \in FactorOps

AllGrows ==
    /\ Len(minted) <= Len(minted') /\ (\A i \in 1..Len(minted) : minted'[i] = minted[i])
    /\ raced \subseteq raced' /\ (failed => failed') /\ (restarted => restarted')

(* Calls that are about neither the user nor a question nor a factor.      *)
Minor(c) == c.op \notin PageFactorOps \cup {"whoami", "question"}
MinorMoves(c) ==
    \/ \E res : Answer(c, res)
    \/ \E u : Found(c, u)
    \/ \E res, v : Turns(c, WithValue(c, res, v))
    \/ \E tk, v : Turns(c, WithToken(c, tk, v))
    \/ \E tk : Turns(c, [Answered(c, "ok") EXCEPT !.tk = tk])

-----------------------------------------------------------------------------
(* What a step of the browser does to the pages at rest: some calls are    *)
(* gone because they are answered, the calls of a tab that is left belong  *)
(* to no page any more, and S is sent.                                     *)

Same(c, d, left) ==
    /\ d.no = c.no /\ d.pg = c.pg /\ d.op = c.op /\ d.at = c.at /\ d.auth = c.auth /\ d.cookie = c.cookie
    /\ d.u = c.u /\ d.v = c.v /\ d.res = c.res
    /\ d.op # "export" => d.pw = c.pw
    /\ d.t = IF c.t = left THEN No ELSE c.t
Flow(gone, left, S) ==
    /\ \A d \in calls' : d \in S \/ \E c \in calls \ gone : Same(c, d, left)
    /\ \A c \in calls \ gone : \E d \in calls' : Same(c, d, left)
    /\ \A d \in S : d \in calls' /\ d.no > sent /\ d.at = "req"

(* What the page shows stays, or there is another page.                    *)
SameQuestion(t) ==
    /\ page'[t].n = page[t].n /\ page'[t].at = page[t].at
    /\ page'[t].email = page[t].email /\ page'[t].question = page[t].question /\ page'[t].timer = page[t].timer
SameStatus(t) ==
    /\ page'[t].n = page[t].n /\ page'[t].at = page[t].at /\ page'[t].tk = page[t].tk
    /\ page'[t].status = page[t].status /\ page'[t].secret = page[t].secret
Blank(t) == page'[t].n > page[t].n /\ page'[t].email = No /\ page'[t].question = No /\ ~page'[t].timer

Steady(t, gone, left, S) ==
    \/ ~Leads(t)'
    \/ (\E d \in S : Asks(d, t)) /\ (\A d \in S : Asks(d, t) => Who(d.cookie) = Who(cookie'))
    \/ /\ Leads(t) /\ t # left /\ shown'[t] = shown[t] /\ Who(cookie') = Who(cookie)
       /\ (\A c \in gone : ~Asks(c, t)) /\ (\A d \in S : ~Asks(d, t))

(* Steps that concern neither a question nor a second factor.              *)
Usual(left) ==
    \A t \in Tabs :
        \/ SameQuestion(t) /\ SameStatus(t) /\ t # left
        \/ Blank(t) /\ page'[t].at # "2fa" /\ (t = left \/ (page'[t].at \in ServerPages <=> page[t].at \in ServerPages))
Sends(S) == \A d \in S :
    /\ d.op \notin PageFactorOps \cup {"question"}
    /\ d.t \in Tabs => (d.op \in LoadOps <=> page'[d.t].at \in ServerPages)
Takes(gone) == \A c \in gone : c.t \in Tabs => c.op \notin PageFactorOps

(* Who is logged in stays, and questions about it are about the cookie.    *)
AsksNow(S) == \A d \in S : d.t \in Tabs /\ d.op = "whoami" /\ d.pw = 0 => d.cookie = cookie
Untold(gone) == \A c \in gone : c.t \in Tabs => ~(c.op = "whoami" /\ c.pw = 0)

(* A call that is neither about a question nor about a second factor.      *)
Ordinary(d) ==
    /\ d.no > sent /\ d.at = "req" /\ d.op \notin PageFactorOps \cup {"question"}
    /\ d.t \in Tabs => (d.op \in LoadOps <=> page'[d.t].at \in ServerPages)
    /\ d.t \in Tabs /\ d.op = "whoami" /\ d.pw = 0 => d.cookie = cookie

(* The fields of a page that are about neither.                            *)
OtherFields(t) ==
    /\ SameQuestion(t) /\ SameStatus(t)
    /\ \A x \in Tabs \ {t} : page'[x] = page[x]

(* c was the only call about the second factor of the page x.              *)
FactorAnswer(c, x) ==
    /\ local' = local /\ RowFactor' = RowFactor /\ c.t = x /\ c.pg = page[x].n
    /\ \A d \in calls : d.op \in FactorOps \/ (d.t = x /\ d.op \in PageFactorOps) => d = c
    /\ IF c.res = "ok" THEN RowFactor = 0 <=> c.op = "disable" ELSE FactorShown(x)
=============================================================================
