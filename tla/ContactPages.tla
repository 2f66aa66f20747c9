---------------------------- MODULE ContactPages ----------------------------
(***************************************************************************)
(* The chatbot and the feedback form of the Juice Shop, with the accounts  *)
(* of AccountPages.  The chatbot asks users without a name for one; what   *)
(* is typed next becomes the name, and a new token takes the place of the  *)
(* one in the browser.                                                     *)
(***************************************************************************)
EXTENDS AccountPages

VARIABLES
    bot,        \* the state of the chatbot, and the names it knows
    captchaIds, \* the captchas of the feedback form
    feedbacks,  \* the authors of the feedbacks
    action,     \* tab -> page -> what the chatbot's page does with the next message
    asked,      \* tab -> the chatbot has asked for a name
    author,     \* tab -> author of the feedback: unknown, anonymous or a user
    overlap     \* history: a message was sent while another one was under way

contact == <<bot, captchaIds, feedbacks, action, asked, author, overlap>>
allvars == <<vars, contact>>

(* 1 stands for a name, 2 for a question.                                  *)
NoNames == [u \in Users |-> 0]

(* The chatbot of a new process; it is trained already where no page uses  *)
(* it.                                                                     *)
Untrained == [state |-> IF "chatbot" \in todo.pages THEN "none" ELSE "trained", names |-> NoNames]
Unknown == "unknown"

-----------------------------------------------------------------------------
(* The chatbot of the server.  It believes what the token says.            *)

Sender(c) == IF c.cookie # 0 THEN c.cookie ELSE c.auth
getUserFromJwt(c) == minted[Sender(c)]
addUser(u, name) == bot' = [bot EXCEPT !.names[u] = name]

(* Variant: the status does not make the chatbot remember the user.        *)
botStatusUnknown(c) ==
    /\ At(c, "chatstatus", "req")
    /\ \/ bot.state = "none" /\ Answer(c, "not ready") /\ UNCHANGED bot
       \/ bot.state # "none" /\ Sender(c) = 0 /\ Answer(c, bot.state) /\ UNCHANGED bot
       \/ bot.state # "none" /\ Sender(c) # 0 /\ getUserFromJwt(c).name = 0 /\ Answer(c, "namequery") /\ UNCHANGED bot
       \/ bot.state # "none" /\ Sender(c) # 0 /\ getUserFromJwt(c).name # 0 /\ Answer(c, bot.state) /\ UNCHANGED bot
    /\ UNCHANGED <<tables, sessions, last, raced>>

botStatus(c) ==
    /\ At(c, "chatstatus", "req")
    /\ \/ bot.state = "none" /\ Answer(c, "not ready") /\ UNCHANGED bot
       \/ bot.state # "none" /\ Sender(c) = 0 /\ Answer(c, bot.state) /\ UNCHANGED bot
       \/ bot.state # "none" /\ Sender(c) # 0 /\ getUserFromJwt(c).name = 0 /\ Answer(c, "namequery") /\ UNCHANGED bot
       \/ /\ bot.state # "none" /\ Sender(c) # 0 /\ getUserFromJwt(c).name # 0
          /\ addUser(getUserFromJwt(c).user, getUserFromJwt(c).name)
          /\ Answer(c, bot.state)
    /\ UNCHANGED <<tables, sessions, last, raced>>

(* A user the chatbot does not know is greeted, and the question is lost.  *)
processQuery(c) ==
    /\ At(c, "query", "req")
    /\ \/ bot.state = "none" /\ Answer(c, "response") /\ UNCHANGED bot
       \/ bot.state # "none" /\ Sender(c) = 0 /\ Answer(c, "400") /\ UNCHANGED bot
       \/ bot.state # "none" /\ Sender(c) # 0 /\ getUserFromJwt(c).name = 0 /\ Answer(c, "namequery") /\ UNCHANGED bot
       \/ /\ bot.state # "none" /\ Sender(c) # 0 /\ getUserFromJwt(c).name # 0
          /\ addUser(getUserFromJwt(c).user, getUserFromJwt(c).name)
          /\ Answer(c, IF bot.names[getUserFromJwt(c).user] = 0 THEN "greeting" ELSE "response")
    /\ UNCHANGED <<tables, sessions, last, raced>>

setUserName(c) ==
    /\ At(c, "setname", "req")
    /\ \/ bot.state = "none" /\ Answer(c, "response")
       \/ bot.state # "none" /\ Sender(c) = 0 /\ Answer(c, "400")
       \/ bot.state # "none" /\ Sender(c) # 0 /\ Row(getUserFromJwt(c).user).there /\ Found(c, getUserFromJwt(c).user)
       \/ bot.state # "none" /\ Sender(c) # 0 /\ ~Row(getUserFromJwt(c).user).there /\ Answer(c, "401")
    /\ UNCHANGED <<tables, sessions, last, raced, bot>>

userNameSet(c) ==
    /\ At(c, "setname", "found")
    /\ NameSaved(c)
    /\ addUser(c.u, c.v)

-----------------------------------------------------------------------------
(* The feedback form of the server.                                        *)

(* The counter starts anew with the server; ids are not told apart by it.  *)
newCaptcha(c) ==
    /\ At(c, "captchas", "req")
    /\ secrets' = secrets + 1
    /\ captchaIds' = captchaIds \cup {secrets + 1}
    /\ calls' = Move(c, [Answered(c, "ok") EXCEPT !.v = secrets + 1])
    /\ UNCHANGED <<tables, minted, cache, sent, last, raced, feedbacks>>

(* Variant: only the newest captcha counts.                                *)
verifyCaptchaNewest(v) == v = secrets

(* A captcha is looked up by its id, and may be used again.                *)
verifyCaptcha(v) == v \in captchaIds

saveFeedback(c) ==
    /\ At(c, "feedback", "req")
    /\ IF verifyCaptcha(c.v) THEN feedbacks' = Append(feedbacks, c.u) /\ Answer(c, "ok")
       ELSE Answer(c, "401") /\ UNCHANGED feedbacks
    /\ UNCHANGED <<tables, sessions, last, raced, captchaIds>>

Talk ==
    /\ \E c \in calls :
        \/ (botStatus(c) \/ processQuery(c) \/ setUserName(c) \/ userNameSet(c)) /\ UNCHANGED <<captchaIds, feedbacks>>
        \/ (newCaptcha(c) \/ saveFeedback(c)) /\ UNCHANGED bot
    /\ UNCHANGED <<todo, hist, cvars, action, asked, author, overlap>>

(* The training file is read; then the chatbot is trained.                 *)
initializeChatbot ==
    /\ bot.state # "trained"
    /\ bot' = [bot EXCEPT !.state = IF @ = "none" THEN "training" ELSE "trained"]
    /\ UNCHANGED <<vars, captchaIds, feedbacks, action, asked, author, overlap>>

-----------------------------------------------------------------------------
(* ChatbotComponent.                                                       *)

MoreCalls(t, n) == {Request(sent + 1, t, n, "chatstatus", local, cookie, No, 0, 0),
                    Request(sent + 2, t, n, "whoami", local, cookie, No, 2, 0)}

(* Each page of the chatbot starts with questions.                         *)
NewAction(f, n) == [x \in DOMAIN f \cup {n} |-> IF x = n THEN "query" ELSE f[x]]

openChatbot(t) ==
    /\ "chatbot" \in todo.pages \ {page[t].at} /\ page[t].at \notin {"profile", "erasure"} /\ Spend("open")
    /\ navigate(t, "chatbot", local)
    /\ Post(MoreCalls(t, page[t].n + 1))
    /\ action' = [action EXCEPT ![t] = NewAction(@, page[t].n + 1)]
    /\ asked' = [asked EXCEPT ![t] = FALSE]
    /\ Quiet /\ UNCHANGED <<session, tmp, lstdtxprt, shown, phone, confirmed, late, bot, captchaIds, feedbacks, author, overlap>>

statusShown(c) ==
    /\ AnswerOf(c, "chatstatus") /\ c.pw = 0
    /\ action' = IF c.res = "namequery" THEN [action EXCEPT ![c.t][c.pg] = "setname"] ELSE action
    /\ asked' = [asked EXCEPT ![c.t] = @ \/ (Mine(c) /\ c.res = "namequery")]
    /\ Done(c)
    /\ Quiet /\ UNCHANGED <<todo, cvars, bot, captchaIds, feedbacks, author, overlap>>

(* Somebody types a name if asked for one, and a question otherwise.       *)
sendMessage(t) ==
    /\ page[t].at = "chatbot" /\ Spend("message")
    /\ Send(t, "chatstatus", No, 1, IF asked[t] THEN 1 ELSE 2)
    /\ overlap' = (overlap \/ \E c \in calls : c.op \in {"chatstatus", "query", "setname"})
    /\ Quiet /\ UNCHANGED <<cvars, bot, captchaIds, feedbacks, action, asked, author>>

(* 1 in a message: the token is the one the status was asked with.         *)
SameSender(c) == Sender(c) = IF cookie # 0 THEN cookie ELSE local

(* What is done with the message is decided when the status has come.      *)
messageSent(c) ==
    /\ AnswerOf(c, "chatstatus") /\ c.pw = 1
    /\ IF c.res \in {"trained", "namequery"}
       THEN Then(c, {Request(sent + 1, c.t, c.pg, action[c.t][c.pg], local, cookie, No, IF SameSender(c) THEN 1 ELSE 0, c.v)})
       ELSE Done(c)
    /\ Quiet /\ UNCHANGED <<todo, cvars, contact>>

Replied(c) == c.op \in {"query", "setname"} /\ c.at = "ans" /\ c.t # No
TakeToken(c) ==
    /\ local' = IF c.tk # 0 THEN c.tk ELSE local
    /\ cookie' = IF c.tk # 0 THEN c.tk ELSE cookie
    /\ setBy' = IF c.tk # 0 /\ Who(c.tk) # Who(local) THEN No ELSE setBy
    /\ late' = [x \in Tabs |-> late[x] \/ (c.tk # 0 /\ Replaces(c.tk))]
Refused == {"400", "401", "error"}

(* Variant: after a name the next message is a name again.                 *)
handleResponseKeeping(c) ==
    /\ Replied(c)
    /\ action' = IF c.res = "namequery" THEN [action EXCEPT ![c.t][c.pg] = "setname"] ELSE action
    /\ asked' = [asked EXCEPT ![c.t] = IF Mine(c) /\ c.res \notin Refused THEN c.res = "namequery" ELSE @]
    /\ TakeToken(c)
    /\ Done(c)
    /\ Quiet /\ UNCHANGED <<todo, bid, tmp, lstdtxprt, shown, page, phone, confirmed, bot, captchaIds, feedbacks, author, overlap>>

(* A token replaces the one that is there.                                 *)
handleResponse(c) ==
    /\ Replied(c)
    /\ action' = IF c.res \in Refused THEN action
                 ELSE [action EXCEPT ![c.t][c.pg] = IF c.res = "namequery" THEN "setname" ELSE "query"]
    /\ asked' = [asked EXCEPT ![c.t] = IF Mine(c) /\ c.res \notin Refused THEN c.res = "namequery" ELSE @]
    /\ TakeToken(c)
    /\ Done(c)
    /\ Quiet /\ UNCHANGED <<todo, bid, tmp, lstdtxprt, shown, page, phone, confirmed, bot, captchaIds, feedbacks, author, overlap>>

-----------------------------------------------------------------------------
(* ContactComponent.                                                       *)

FormCalls(t, n) == {Request(sent + 1, t, n, "whoami", local, cookie, No, 1, 0),
                    Request(sent + 2, t, n, "captchas", local, cookie, No, 0, 0)}

openContact(t) ==
    /\ "contact" \in todo.pages \ {page[t].at} /\ page[t].at \notin {"profile", "erasure"} /\ Spend("open")
    /\ navigate(t, "contact", local)
    /\ Post(FormCalls(t, page[t].n + 1))
    /\ author' = [author EXCEPT ![t] = Unknown]
    /\ Quiet /\ UNCHANGED <<session, tmp, lstdtxprt, shown, phone, confirmed, late, bot, captchaIds, feedbacks, action, asked, overlap>>

(* Both forms ask who is there: the chatbot for the picture (2).           *)
authorKnown(c) ==
    /\ AnswerOf(c, "whoami") /\ c.pw # 0
    /\ author' = IF c.pw = 2 \/ ~Mine(c) THEN author
                 ELSE [author EXCEPT ![c.t] = IF c.res = "ok" THEN c.u ELSE Unknown]
    /\ cookie' = IF c.tk # 0 THEN c.tk ELSE cookie
    /\ late' = [x \in Tabs |-> late[x] \/ (c.tk # 0 /\ Replaces(c.tk))]
    /\ Done(c)
    /\ Quiet /\ UNCHANGED <<todo, local, bid, setBy, tmp, lstdtxprt, shown, page, phone, confirmed, bot, captchaIds, feedbacks, action, asked, overlap>>

newCaptchaShown(c) ==
    /\ AnswerOf(c, "captchas")
    /\ page' = IF Mine(c) /\ c.res = "ok" THEN [page EXCEPT ![c.t].captcha = c.v] ELSE page
    /\ Done(c)
    /\ Quiet /\ UNCHANGED <<todo, session, tmp, lstdtxprt, shown, phone, confirmed, late, contact>>

(* Without an author there is no feedback object, and nothing is sent.     *)
submitFeedback(t) ==
    /\ page[t].at = "contact" /\ page[t].captcha # 0 /\ Spend("feedback")
    /\ IF author[t] = Unknown THEN UNCHANGED <<calls, sent>> ELSE Send(t, "feedback", author[t], 0, page[t].captcha)
    /\ Quiet /\ UNCHANGED <<cvars, contact>>

(* The form is reset, and asks for another captcha if it was accepted.     *)
feedbackSaved(c) ==
    /\ AnswerOf(c, "feedback")
    /\ IF c.res = "ok" THEN Then(c, FormCalls(c.t, c.pg)) ELSE Done(c)
    /\ Quiet /\ UNCHANGED <<todo, cvars, contact>>

-----------------------------------------------------------------------------
Init ==
    /\ PagesInit
    /\ bot = Untrained /\ captchaIds = {} /\ feedbacks = <<>>
    /\ action = [t \in Tabs |-> <<>>] /\ asked = [t \in Tabs |-> FALSE] /\ author = [t \in Tabs |-> Unknown] /\ overlap = FALSE

Chat(t) == openChatbot(t) \/ sendMessage(t) \/ openContact(t) \/ submitFeedback(t)

Hear(c) == statusShown(c) \/ messageSent(c) \/ handleResponse(c) \/ authorKnown(c) \/ newCaptchaShown(c) \/ feedbackSaved(c)

ServerWorks == (Work /\ UNCHANGED contact) \/ Talk
BrowserWorks == (React /\ UNCHANGED contact) \/ \E c \in calls : Hear(c)

Crash ==
    /\ Restart
    /\ bot' = Untrained /\ captchaIds' = {} /\ feedbacks' = <<>>
    /\ UNCHANGED <<cvars, action, asked, author, overlap>>

Next ==
    \/ PagesNext /\ UNCHANGED contact
    \/ Talk \/ initializeChatbot
    \/ \E c \in calls : Hear(c)
    \/ \E t \in todo.tabs : Chat(t)
    \/ Crash

(* Node.js goes on with what is ready, and so does the browser.            *)
Spec ==
    Init /\ [][Next]_allvars /\ WF_allvars(ServerWorks) /\ WF_allvars(BrowserWorks) /\ WF_allvars(initializeChatbot)

-----------------------------------------------------------------------------
(* Properties.                                                             *)

(* Nobody is named after a question: what is typed becomes the name only   *)
(* if the chatbot had asked for it (chatbot.component.ts:95), unless a     *)
(* message was sent while another one was under way, for then the action   *)
(* is taken from a later moment than the text (line 119).                  *)
NameIsMeant == ~overlap => \A u \in Users : users[u].name # 2

(* A question is answered and not met with a greeting, because the page    *)
(* asks for the status first and so makes the chatbot remember the user    *)
(* (chatbot.ts:79, 196), unless the server was restarted or another token  *)
(* has come in between.                                                    *)
QuestionHeard == ~restarted => \A c \in calls : c.op = "query" /\ c.pw = 1 => c.res # "greeting"

(* Feedback with the captcha on the page is accepted, whatever other pages *)
(* have asked for in the meantime (captcha.ts:37), unless the server was   *)
(* restarted and has forgotten the captcha.                                *)
FeedbackAccepted == ~restarted => \A c \in calls : c.op = "feedback" => c.res # "401"

(* Every call is answered and its answer handled, whatever fails.          *)
AllAnswered == <>[](calls = {})

(* The rows, the copies of the users that the server keeps for its tokens  *)
(* and the ids in the browser agree (login, register, setup and disable,   *)
(* changePassword, afterLogin).                                            *)
AccountsAgree == TypeOK /\ NoLostUpdate /\ SessionKnows2fa /\ BidIsOwn /\ RegisteredComplete

(* Once the calls of a page are answered it shows what is there: the       *)
(* navigation bar, the page of the second factor and the forgotten         *)
(* password.                                                               *)
PagesAtRest == NavbarAtRest /\ FactorPageFits /\ QuestionFits

(* The forms do what their user means: captchas on the page are accepted   *)
(* (data export, feedback), names are names, questions are heard.          *)
FormsAreServed == CaptchaAccepted /\ FeedbackAccepted /\ NameIsMeant /\ QuestionHeard

(* Calls: a second factor is replaced only after a race between two setups *)
(* (2fa.ts:117), and all calls come to an end.                             *)
CallsEnd == OverwriteNeedsRace /\ AllAnswered
=============================================================================
