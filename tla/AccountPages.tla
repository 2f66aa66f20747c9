---------------------------- MODULE AccountPages ----------------------------
(***************************************************************************)
(* The pages of the Juice Shop that deal with the account, in the tabs of  *)
(* one browser.  localStorage and the cookies belong to the browser, the   *)
(* basket id (sessionStorage), the address in the navigation bar and the   *)
(* open page to the tab.  Calls are answered in any order.  A component    *)
(* that was left still handles its answers; a page load drops them.        *)
(***************************************************************************)
EXTENDS Accounts

CONSTANTS
    Scenarios       \* bound: whether somebody is logged in, how often things happen, and who does them

ASSUME ScenariosAssumption ==
    \A s \in Scenarios :
        /\ s.user \in Users \cup {No}
        /\ {"who", "tabs"} \subseteq DOMAIN s.todo /\ s.todo.who \subseteq Users /\ s.todo.tabs \subseteq Tabs

VARIABLES
    local,      \* the token in localStorage
    cookie,     \* the token in the cookie
    bid,        \* tab -> the basket id
    setBy,      \* history: the tab that logged in or out last; nobody if another answer replaced the user
    tmp,        \* the user of totp_tmp_token
    lstdtxprt,  \* data was exported in the last five minutes
    shown,      \* tab -> the address in the navigation bar
    page,       \* tab -> the open page
    phone,      \* the TOTP secrets of the authenticator app
    confirmed,  \* the users whose registration was confirmed
    late        \* history: tab -> answers overlapped, or the page was outdated by another one

session == <<local, cookie, bid, setBy>>
cvars == <<session, tmp, lstdtxprt, shown, page, phone, confirmed, late>>
vars == <<svars, cvars>>

Quiet == UNCHANGED <<tables, sessions, hist, last, raced>>

NewPage(p, n, tk) ==
    [at |-> p, n |-> n, tk |-> tk, status |-> "unknown", secret |-> 0, email |-> No, question |-> No,
     timer |-> FALSE, enabled |-> FALSE, captcha |-> 0, present |-> FALSE]
navigate(t, p, tk) == page' = [page EXCEPT ![t] = NewPage(p, @.n + 1, tk)]
Mine(c) == page[c.t].n = c.pg

(* RequestInterceptor: the header has the token of localStorage.           *)
intercept(k, t, op, u, pw, v) == Request(sent + k, t, page[t].n, op, local, cookie, u, pw, v)
Post(S) == calls' = calls \cup S /\ sent' = sent + Cardinality(S)
Send(t, op, u, pw, v) == Post({intercept(1, t, op, u, pw, v)})

AnswerOf(c, op) == c.op = op /\ c.at = "ans" /\ c.t # No
Done(c) == calls' = calls \ {c} /\ UNCHANGED sent
Then(c, S) == calls' = (calls \ {c}) \cup S /\ sent' = sent + Cardinality(S)
Replaces(tk) == Who(tk) # Who(cookie)
Overtakes(c) == \E d \in calls : d.t = c.t /\ d.op = c.op /\ d.pw = c.pw /\ d.no < c.no

(* A page load ends the scripts of the tab.                                *)
Abandoned(t) == {[c EXCEPT !.t = IF @ = t THEN No ELSE @] : c \in calls}

-----------------------------------------------------------------------------
(* Logging in and out.                                                     *)

(* NavbarComponent asks for the user whenever somebody logs in.            *)
getUserDetails(k, t, tk, ck) == Request(sent + k, t, page[t].n, "whoami", tk, ck, No, 0, 0)

(* UserService: who is logged in is asked for before the login is sent.    *)
userServiceLogin(t, u, pw, oauth) == {getUserDetails(1, t, local, cookie), intercept(2, t, "login", u, pw, oauth)}

(* Somebody types the password of u, or makes a mistake.                   *)
Typed(u) == {IF Row(u).there THEN Row(u).password ELSE 1} \cup (IF todo.wrong THEN {9} ELSE {})

submitLogin(t) ==
    /\ page[t].at = "login" /\ Spend("login")
    /\ \E u \in {x \in todo.who : Row(x).there} : \E pw \in Typed(u) : Post(userServiceLogin(t, u, pw, 0))
    /\ Quiet /\ UNCHANGED cvars

LogIn(c) ==
    /\ local' = c.tk /\ cookie' = c.tk
    /\ bid' = [bid EXCEPT ![c.t] = c.v]
    /\ setBy' = c.t
    /\ Then(c, {getUserDetails(1, c.t, c.tk, c.tk)})
    /\ navigate(c.t, "search", c.tk)

loginNext(c) ==
    /\ AnswerOf(c, "login") /\ c.res = "ok"
    /\ LogIn(c)
    /\ Quiet /\ UNCHANGED <<todo, tmp, lstdtxprt, shown, phone, confirmed, late>>

(* The token of an earlier login stays where it is.                        *)
loginTotp(c) ==
    /\ AnswerOf(c, "login") /\ c.res = "totp" /\ c.v = 0
    /\ tmp' = c.u
    /\ Done(c)
    /\ navigate(c.t, "enter", local)
    /\ Quiet /\ UNCHANGED <<todo, session, lstdtxprt, shown, phone, confirmed, late>>

RemoveToken(t) == local' = 0 /\ cookie' = 0 /\ bid' = [bid EXCEPT ![t] = 0] /\ setBy' = t

loginError(c) ==
    /\ AnswerOf(c, "login") /\ c.res \in {"401", "error"} /\ c.v = 0
    /\ RemoveToken(c.t)
    /\ shown' = [shown EXCEPT ![c.t] = No]
    /\ Done(c)
    /\ Quiet /\ UNCHANGED <<todo, tmp, lstdtxprt, page, phone, confirmed, late>>

(* TwoFactorAuthEnterComponent: a code of the app, or none that fits.      *)
submitCode(t) ==
    /\ page[t].at = "enter" /\ Spend("verify")
    /\ \E v \in phone \cup {0} : Send(t, "verify", tmp, 0, v)
    /\ Quiet /\ UNCHANGED cvars

(* Variant: the basket of the user is forgotten.                           *)
verifyNextWithoutBasket(c) ==
    /\ AnswerOf(c, "verify") /\ c.res = "ok"
    /\ local' = c.tk /\ cookie' = c.tk /\ setBy' = c.t
    /\ Then(c, {getUserDetails(1, c.t, c.tk, c.tk)})
    /\ navigate(c.t, "search", c.tk)
    /\ Quiet /\ UNCHANGED <<todo, bid, tmp, lstdtxprt, shown, phone, confirmed, late>>

verifyNext(c) ==
    /\ AnswerOf(c, "verify") /\ c.res = "ok"
    /\ LogIn(c)
    /\ Quiet /\ UNCHANGED <<todo, tmp, lstdtxprt, shown, phone, confirmed, late>>

verifyError(c) ==
    /\ AnswerOf(c, "verify") /\ c.res # "ok"
    /\ Done(c)
    /\ Quiet /\ UNCHANGED <<todo, cvars>>

(* The address is saved with the token that is being removed.              *)
logout(t) ==
    /\ local # 0 /\ page[t].at \notin {"profile", "erasure"} /\ Spend("logout")
    /\ Send(t, "ip", No, 0, 0)
    /\ RemoveToken(t)
    /\ shown' = [shown EXCEPT ![t] = No]
    /\ navigate(t, "search", 0)
    /\ Quiet /\ UNCHANGED <<tmp, lstdtxprt, phone, confirmed, late>>

ipSaved(c) ==
    /\ AnswerOf(c, "ip")
    /\ Done(c)
    /\ Quiet /\ UNCHANGED <<todo, cvars>>

(* The answer about the user; the server may give the cookie again.        *)
userDetails(c) ==
    /\ AnswerOf(c, "whoami") /\ c.pw = 0
    /\ IF c.res = "ok" THEN shown' = [shown EXCEPT ![c.t] = c.u] ELSE UNCHANGED shown
    /\ cookie' = IF c.tk # 0 THEN c.tk ELSE cookie
    /\ late' = [x \in Tabs |-> late[x] \/ (x = c.t /\ (c.res # "ok" \/ Overtakes(c))) \/ (c.tk # 0 /\ Replaces(c.tk))]
    /\ Done(c)
    /\ Quiet /\ UNCHANGED <<todo, local, bid, setBy, tmp, lstdtxprt, page, phone, confirmed>>

-----------------------------------------------------------------------------
(* OAuthComponent: the profile comes from the provider.  The password is   *)
(* made from the address; the user is registered if there is none.         *)
OauthPassword == 5

oauthLogin(t) ==
    /\ page[t].at = "login" /\ Spend("oauth")
    /\ \/ (\E u \in todo.who : Send(t, "register", u, OauthPassword, 1)) /\ UNCHANGED <<session, page>>
       \/ RemoveToken(t) /\ navigate(t, "login", 0) /\ UNCHANGED <<calls, sent>>
    /\ Quiet /\ UNCHANGED <<tmp, lstdtxprt, shown, phone, confirmed, late>>

oauthSaved(c) ==
    /\ AnswerOf(c, "register") /\ c.v = 1
    /\ Then(c, userServiceLogin(c.t, c.u, c.pw, 1))
    /\ Quiet /\ UNCHANGED <<todo, cvars>>

(* The navigation bar is not told.                                         *)
invalidateSession(c) ==
    /\ AnswerOf(c, "login") /\ c.res # "ok" /\ c.v = 1
    /\ RemoveToken(c.t)
    /\ navigate(c.t, "login", 0)
    /\ Done(c)
    /\ Quiet /\ UNCHANGED <<todo, tmp, lstdtxprt, shown, phone, confirmed, late>>

-----------------------------------------------------------------------------
(* RegisterComponent.                                                      *)

save(t) ==
    /\ page[t].at = "register" /\ Spend("register")
    /\ \E u \in todo.who : Send(t, "register", u, 1, 0)
    /\ Quiet /\ UNCHANGED cvars

(* Variant: the registration is confirmed at once.                         *)
savedEarly(c) ==
    /\ AnswerOf(c, "register") /\ c.v = 0
    /\ IF c.res = "ok" THEN Then(c, {intercept(1, c.t, "answer", c.u, 0, 0)}) /\ confirmed' = confirmed \cup {c.u}
       ELSE Done(c) /\ UNCHANGED confirmed
    /\ Quiet /\ UNCHANGED <<todo, session, tmp, lstdtxprt, shown, page, phone, late>>

(* The answer to the security question is saved for the new user.          *)
saved(c) ==
    /\ AnswerOf(c, "register") /\ c.v = 0
    /\ IF c.res = "ok" THEN Then(c, {intercept(1, c.t, "answer", c.u, 0, 0)}) ELSE Done(c)
    /\ Quiet /\ UNCHANGED <<todo, cvars>>

answerSaved(c) ==
    /\ AnswerOf(c, "answer")
    /\ IF c.res = "ok" THEN navigate(c.t, "login", local) /\ confirmed' = confirmed \cup {c.u}
       ELSE UNCHANGED <<page, confirmed>>
    /\ Done(c)
    /\ Quiet /\ UNCHANGED <<todo, session, tmp, lstdtxprt, shown, phone, late>>

-----------------------------------------------------------------------------
(* ForgotPasswordComponent and ChangePasswordComponent.                    *)

(* A second after the last key the question is looked up.                  *)
emailTyped(t) ==
    /\ page[t].at = "forgot" /\ Spend("type")
    /\ \E u \in todo.who : page' = [page EXCEPT ![t].email = u, ![t].timer = TRUE]
    /\ Quiet /\ UNCHANGED <<calls, sent, session, tmp, lstdtxprt, shown, phone, confirmed, late>>

(* Variant: the question stays until there is another.                     *)
findSecurityQuestionKeeping(t) ==
    /\ page[t].timer
    /\ page' = [page EXCEPT ![t].timer = FALSE, ![t].enabled = @ /\ page[t].email # No]
    /\ IF page[t].email # No THEN Send(t, "question", page[t].email, 0, 0) ELSE UNCHANGED <<calls, sent>>
    /\ late' = [late EXCEPT ![t] = @ \/ \E c \in calls : c.t = t /\ c.op = "question"]
    /\ Quiet /\ UNCHANGED <<todo, session, tmp, lstdtxprt, shown, phone, confirmed>>

findSecurityQuestion(t) ==
    /\ page[t].timer
    /\ page' = [page EXCEPT ![t].timer = FALSE, ![t].question = No, ![t].enabled = @ /\ page[t].email # No]
    /\ IF page[t].email # No THEN Send(t, "question", page[t].email, 0, 0) ELSE UNCHANGED <<calls, sent>>
    /\ late' = [late EXCEPT ![t] = @ \/ \E c \in calls : c.t = t /\ c.op = "question"]
    /\ Quiet /\ UNCHANGED <<todo, session, tmp, lstdtxprt, shown, phone, confirmed>>

questionFound(c) ==
    /\ AnswerOf(c, "question")
    /\ page' = IF ~Mine(c) \/ c.res # "ok" THEN page
               ELSE IF c.u = No THEN [page EXCEPT ![c.t].enabled = FALSE]
               ELSE [page EXCEPT ![c.t].enabled = TRUE, ![c.t].question = c.u]
    /\ Done(c)
    /\ Quiet /\ UNCHANGED <<todo, session, tmp, lstdtxprt, shown, phone, confirmed, late>>

(* The answer is right (1) or wrong.                                       *)
submitReset(t) ==
    /\ page[t].enabled /\ page[t].email # No /\ Spend("reset")
    /\ \E right \in {0, 1} : Send(t, "reset", page[t].email, right, 3)
    /\ Quiet /\ UNCHANGED cvars

(* The form is reset, which counts as typing.                              *)
resetForm(c) ==
    /\ AnswerOf(c, "reset")
    /\ page' = IF Mine(c) /\ c.res = "ok" THEN [page EXCEPT ![c.t].email = No, ![c.t].timer = TRUE] ELSE page
    /\ Done(c)
    /\ Quiet /\ UNCHANGED <<todo, session, tmp, lstdtxprt, shown, phone, confirmed, late>>

submitPassword(t) ==
    /\ page[t].at = "password" /\ Spend("password")
    /\ \E pw \in IF local = 0 THEN {9} ELSE Typed(Who(local)) : Send(t, "password", No, pw, 2)
    /\ Quiet /\ UNCHANGED cvars

passwordChanged(c) ==
    /\ AnswerOf(c, "password")
    /\ Done(c)
    /\ Quiet /\ UNCHANGED <<todo, cvars>>

-----------------------------------------------------------------------------
(* TwoFactorAuthComponent.                                                 *)

Outdated(t) ==
    late' = [x \in Tabs |-> late[x] \/ IF x = t THEN \E c \in calls : c.t = t /\ c.op \in {"status", "setup", "disable"}
                                     ELSE page[x].at = "2fa"]

(* The setup form is shown until the status is known to be set.            *)
submitSetup(t) ==
    /\ page[t].at = "2fa" /\ page[t].status # "on" /\ local # 0 /\ Spend("setup")
    /\ phone' = phone \cup ({page[t].secret} \ {0})
    /\ \E pw \in Typed(Who(local)) : Send(t, "setup", No, pw, page[t].secret)
    /\ Outdated(t)
    /\ Quiet /\ UNCHANGED <<session, tmp, lstdtxprt, shown, page, confirmed>>

setupDone(c) ==
    /\ AnswerOf(c, "setup")
    /\ page' = IF Mine(c) /\ c.res = "ok" THEN [page EXCEPT ![c.t].status = "on"] ELSE page
    /\ Done(c)
    /\ Quiet /\ UNCHANGED <<todo, session, tmp, lstdtxprt, shown, phone, confirmed, late>>

submitDisable(t) ==
    /\ page[t].at = "2fa" /\ page[t].status = "on" /\ local # 0 /\ Spend("disable")
    /\ \E pw \in Typed(Who(local)) : Send(t, "disable", No, pw, 0)
    /\ Outdated(t)
    /\ Quiet /\ UNCHANGED <<session, tmp, lstdtxprt, shown, page, phone, confirmed>>

(* updateStatus; its caller may subscribe to the status once more (1),     *)
(* which is another request.                                               *)
updateStatus(c, again) == Request(sent + 1 + again, c.t, c.pg, "status", local, cookie, No, again, 0)

(* Variant: the status is not asked for.                                   *)
disableDoneSilently(c) ==
    /\ AnswerOf(c, "disable")
    /\ Done(c)
    /\ Quiet /\ UNCHANGED <<todo, cvars>>

disableDone(c) ==
    /\ AnswerOf(c, "disable")
    /\ IF c.res = "ok" THEN Then(c, {updateStatus(c, 0), updateStatus(c, 1)}) ELSE Done(c)
    /\ Quiet /\ UNCHANGED <<todo, cvars>>

(* Without a second factor there is a new secret to scan.                  *)
statusKnown(c) ==
    /\ AnswerOf(c, "status")
    /\ page' = IF ~Mine(c) \/ c.res \notin {"on", "off"} THEN page
               ELSE IF c.pw = 1 THEN [page EXCEPT ![c.t].status = "off"]
               ELSE [page EXCEPT ![c.t].status = c.res, ![c.t].secret = IF c.res = "off" THEN c.v ELSE @]
    /\ late' = [late EXCEPT ![c.t] = @ \/ Overtakes(c)]
    /\ Done(c)
    /\ Quiet /\ UNCHANGED <<todo, session, tmp, lstdtxprt, shown, phone, confirmed>>

-----------------------------------------------------------------------------
(* DataExportComponent.  1 in an export: the captcha is the last one that  *)
(* anybody has asked for.                                                  *)

Newest(t) ==
    /\ page[t].present /\ page[t].tk = local /\ ~late[t]
    /\ \A c \in calls : c.op # "captcha"
    /\ \A x \in Tabs \ {t} : page[x].captcha = 0
getNewCaptcha(k, t, pg) == Request(sent + k, t, pg, "captcha", local, cookie, No, 0, 0)
Unsure(S) == {IF c.op = "export" THEN [c EXCEPT !.pw = 0] ELSE c : c \in S}
OtherCaptcha(t, pg) ==
    [x \in Tabs |-> late[x] \/ (<<x, page[x].n>> # <<t, pg>> /\ page[x].captcha # 0) \/ \E c \in calls : c.op = "captcha"]

saveExport(t) ==
    /\ page[t].at = "export" /\ (page[t].present => page[t].captcha # 0) /\ Spend("export")
    /\ Send(t, "export", No, IF Newest(t) THEN 1 ELSE 0, IF page[t].present THEN page[t].captcha ELSE 0)
    /\ Quiet /\ UNCHANGED cvars

(* The next export needs a captcha.                                        *)
exported(c) ==
    /\ AnswerOf(c, "export")
    /\ IF c.res = "ok"
       THEN /\ lstdtxprt' = TRUE
            /\ page' = IF Mine(c) THEN [page EXCEPT ![c.t].present = TRUE] ELSE page
            /\ calls' = Unsure(calls \ {c}) \cup {getNewCaptcha(1, c.t, c.pg)} /\ sent' = sent + 1
            /\ late' = OtherCaptcha(c.t, c.pg)
       ELSE Done(c) /\ UNCHANGED <<lstdtxprt, page, late>>
    /\ Quiet /\ UNCHANGED <<todo, session, tmp, shown, phone, confirmed>>

captchaShown(c) ==
    /\ AnswerOf(c, "captcha")
    /\ page' = IF Mine(c) /\ c.res = "ok" THEN [page EXCEPT ![c.t].captcha = c.v] ELSE page
    /\ Done(c)
    /\ Quiet /\ UNCHANGED <<todo, session, tmp, lstdtxprt, shown, phone, confirmed, late>>

(* Five minutes after the export no captcha is asked for; the captchas are *)
(* younger and count a little longer.                                      *)
exportForgotten ==
    /\ lstdtxprt /\ Spend("minutes")
    /\ lstdtxprt' = FALSE
    /\ Quiet /\ UNCHANGED <<calls, sent, session, tmp, shown, page, phone, confirmed, late>>

captchasForgotten ==
    /\ ~lstdtxprt /\ Spend("minutes")
    /\ FiveMinutes
    /\ UNCHANGED <<users, answers, baskets, wallets, erasures, sessions, hist, last, raced, calls, sent, cvars>>

-----------------------------------------------------------------------------
(* Pages.                                                                  *)

Opened(t, p) == Request(sent + 1, t, page[t].n + 1, p, local, cookie, No, 0, 0)

(* A page of the application.                                              *)
AccountForms == {"login", "register", "forgot", "password", "2fa", "export"}
open(t) ==
    /\ page[t].at \notin {"profile", "erasure"} /\ Spend("open")
    /\ \E p \in (todo.pages \cap AccountForms) \ {page[t].at} :
        /\ page' = [page EXCEPT ![t] = [NewPage(p, @.n + 1, local) EXCEPT !.present = p = "export" /\ lstdtxprt]]
        /\ \/ /\ p = "2fa" /\ Post({Opened(t, "status")})
              /\ late' = [late EXCEPT ![t] = @ \/ \E c \in calls : c.op \in {"setup", "disable"}]
           \/ /\ p = "export" /\ lstdtxprt
              /\ calls' = Unsure(calls) \cup {Opened(t, "captcha")} /\ sent' = sent + 1
              /\ late' = OtherCaptcha(t, page[t].n)
           \/ (p = "export" => ~lstdtxprt) /\ p # "2fa" /\ UNCHANGED <<calls, sent, late>>
    /\ Quiet /\ UNCHANGED <<session, tmp, lstdtxprt, shown, phone, confirmed>>

(* A page of the server: the cookie alone says who asks for it.            *)
Load(t, pg, op, ck, v) == Request(sent + 1, t, pg, op, 0, ck, No, 0, v)

goToProfilePage(t) ==
    /\ local # 0 /\ page[t].at \notin {"profile", "erasure"} /\ Spend("profile")
    /\ \E p \in {"profile", "erasure"} \cap todo.pages :
        /\ navigate(t, p, local)
        /\ calls' = Abandoned(t) \cup {Load(t, page[t].n + 1, IF p = "profile" THEN p ELSE "erasure form", cookie, 0)}
    /\ sent' = sent + 1
    /\ Quiet /\ UNCHANGED <<session, tmp, lstdtxprt, shown, phone, confirmed, late>>

pageLoaded(c) ==
    /\ c.op \in {"profile", "erasure form"} /\ c.at = "ans" /\ c.t # No
    /\ page' = [page EXCEPT ![c.t].enabled = c.res = "ok"]
    /\ Done(c)
    /\ Quiet /\ UNCHANGED <<todo, session, tmp, lstdtxprt, shown, phone, confirmed, late>>

submit(t) ==
    /\ page[t].at \in {"profile", "erasure"} /\ page[t].enabled /\ Spend("submit")
    /\ Post({Load(t, page[t].n, IF page[t].at = "profile" THEN "username" ELSE "erasure", cookie, 1)})
    /\ page' = [page EXCEPT ![t].enabled = FALSE]
    /\ Quiet /\ UNCHANGED <<session, tmp, lstdtxprt, shown, phone, confirmed, late>>

(* The other tabs are not told.                                            *)
OutdatesOthers(c, tk) == late' = [x \in Tabs |-> late[x] \/ (x # c.t /\ c.res = "ok" /\ Replaces(tk))]

(* The cookie of the answer; the profile is loaded again.                  *)
usernameSaved(c) ==
    /\ AnswerOf(c, "username")
    /\ cookie' = IF c.res = "ok" THEN c.tk ELSE cookie
    /\ IF c.res = "ok" THEN Then(c, {Load(c.t, page[c.t].n, "profile", c.tk, 0)}) ELSE Done(c)
    /\ OutdatesOthers(c, c.tk)
    /\ Quiet /\ UNCHANGED <<todo, local, bid, setBy, tmp, lstdtxprt, shown, page, phone, confirmed>>

(* The answer removes the cookie, and nothing else.                        *)
erased(c) ==
    /\ AnswerOf(c, "erasure")
    /\ cookie' = IF c.res = "ok" THEN 0 ELSE cookie
    /\ Done(c)
    /\ OutdatesOthers(c, 0)
    /\ Quiet /\ UNCHANGED <<todo, local, bid, setBy, tmp, lstdtxprt, shown, page, phone, confirmed>>

(* The application is loaded; the navigation bar asks who is logged in.    *)
ngOnInit(t) ==
    /\ Spend("reload")
    /\ navigate(t, "search", local)
    /\ shown' = [shown EXCEPT ![t] = No]
    /\ calls' = Abandoned(t) \cup (IF local = 0 THEN {} ELSE {Opened(t, "whoami")})
    /\ sent' = sent + (IF local = 0 THEN 0 ELSE 1)
    /\ Quiet /\ UNCHANGED <<session, tmp, lstdtxprt, phone, confirmed, late>>

(* The answer to a call of a page that is gone.                            *)
Ignored(c) ==
    /\ c.at = "ans" /\ c.t = No
    /\ Done(c)
    /\ Quiet /\ UNCHANGED <<todo, cvars>>

-----------------------------------------------------------------------------
StartPage(p) == NewPage(p, 0, 0)

(* As after a login, or before one; or as after a restart that has lost a  *)
(* user who had registered.                                                *)
PagesInit ==
    /\ \E s \in Scenarios :
        /\ todo = s.todo
        /\ local = IF s.user = No THEN 0 ELSE 1
        /\ minted = IF s.user = No THEN <<>> ELSE <<Token(s.user, NewUser(1))>>
        /\ cache = IF s.user \notin Registered THEN <<>> ELSE <<[user |-> s.user, password |-> 1, totp |-> 0, bid |-> 1]>>
        /\ baskets = IF s.user \notin Registered THEN <<>> ELSE <<s.user>>
        /\ restarted = (s.user \in Users \ Registered)
        /\ \E t \in todo.tabs :
            /\ bid = [x \in Tabs |-> IF x = t THEN local ELSE 0]
            /\ shown = [x \in Tabs |-> IF x = t THEN s.user ELSE No]
            /\ setBy = t
    /\ cookie = local
    /\ page = [t \in Tabs |-> StartPage("search")]
    /\ users = StaticUsers /\ last = StaticUsers
    /\ answers = Registered
    /\ wallets = [u \in Users |-> IF u \in Registered THEN 1 ELSE 0]
    /\ erasures = {} /\ captchas = [u \in Users |-> <<>>]
    /\ secrets = 0 /\ calls = {} /\ sent = 0
    /\ failed = FALSE /\ raced = {}
    /\ tmp = No /\ lstdtxprt = FALSE /\ phone = {} /\ confirmed = {}
    /\ late = [t \in Tabs |-> FALSE]

Visit(t) ==
    \/ open(t) \/ submitLogin(t) \/ submitCode(t) \/ logout(t) \/ oauthLogin(t) \/ save(t)
    \/ emailTyped(t) \/ submitReset(t) \/ submitPassword(t) \/ submitSetup(t) \/ submitDisable(t)
    \/ saveExport(t) \/ goToProfilePage(t) \/ submit(t) \/ ngOnInit(t)

Receive(c) ==
    \/ loginNext(c) \/ loginTotp(c) \/ loginError(c) \/ verifyNext(c) \/ verifyError(c) \/ ipSaved(c) \/ userDetails(c)
    \/ oauthSaved(c) \/ invalidateSession(c) \/ saved(c) \/ answerSaved(c) \/ questionFound(c) \/ resetForm(c)
    \/ passwordChanged(c) \/ setupDone(c) \/ disableDone(c) \/ statusKnown(c) \/ exported(c) \/ captchaShown(c)
    \/ pageLoaded(c) \/ usernameSaved(c) \/ erased(c) \/ Ignored(c)

React == (\E c \in calls : Receive(c)) \/ (\E t \in Tabs : findSecurityQuestion(t))
Work == Serve /\ UNCHANGED cvars

PagesNext ==
    \/ Work \/ React
    \/ \E t \in todo.tabs : Visit(t)
    \/ exportForgotten \/ captchasForgotten

-----------------------------------------------------------------------------
(* Properties.                                                             *)

(* The state has the shape the code gives it: a token that is stored was   *)
(* signed, one that is known stands for the user it was signed for, and    *)
(* nobody has two baskets or two wallets.                                  *)
TypeOK ==
    /\ {local, cookie} \subseteq 0..Len(minted)
    /\ DOMAIN cache \subseteq DOMAIN minted
    /\ \A tk \in DOMAIN cache : cache[tk].user = minted[tk].user
    /\ \A i, j \in DOMAIN baskets : baskets[i] = baskets[j] => i = j
    /\ answers \subseteq SecurityAnswer /\ erasures \subseteq PrivacyRequest /\ captchas \in [Users -> ImageCaptcha]
    /\ \A u \in Users : wallets[u] \in 0..1
    /\ \A u \in Users : users[u].there \/ users[u] = User
    /\ shown \in [Tabs -> Users \cup {No}] /\ bid \in [Tabs -> Nat] /\ late \in [Tabs -> BOOLEAN]
    /\ confirmed \subseteq Users /\ setBy \in Tabs \cup {No}
    /\ \A c \in calls : c.no \in 1..sent

Resting(t, ops) == \A c \in calls : c.t = t => c.op \notin ops

(* The navigation bar of the tab that logged in or out last names the user *)
(* of the cookie once no call of that tab is under way, although every     *)
(* login asks twice who is logged in and the answers are not matched with  *)
(* the login (navbar.component.ts:223), unless an answer was overtaken.    *)
NavbarAtRest ==
    \A t \in Tabs :
        setBy = t /\ local # 0 /\ ~late[t] /\ page[t].at \notin {"profile", "erasure"}
            /\ Resting(t, {"whoami", "login", "verify", "register"})
        => shown[t] = Who(cookie)

(* A row has in every column the value that was written to it last,        *)
(* although passwords and secrets are written to a row that was read       *)
(* before an await (2fa.ts:130, changePassword.ts:45, resetPassword.ts:42). *)
NoLostUpdate == users = last

(* The copy of the user that the server keeps for the token knows whether  *)
(* there is a second factor (2fa.ts:137), unless the user has several      *)
(* sessions or has changed the factor twice at the same time.              *)
SessionKnows2fa ==
    \A tk \in DOMAIN cache :
        LET u == cache[tk].user IN
        u \notin raced /\ ~restarted /\ (\A c \in calls : c.op \notin {"setup", "disable"})
        => cache[tk].totp = users[u].totp

(* The page of the second factor agrees with the row once it is at rest,   *)
(* and has a secret to scan if there is none, although disabling asks for  *)
(* the status twice (two-factor-auth.component.ts:112), unless a call has  *)
(* failed, another page or session was at work, or the form was submitted  *)
(* while a call of it was under way.                                       *)
FactorPageFits ==
    \A t \in Tabs :
        LET u == Who(local) IN
        page[t].at = "2fa" /\ page[t].tk = local /\ local # 0 /\ u \notin raced /\ ~late[t] /\ ~failed /\ ~restarted
            /\ Resting(t, {"status", "setup", "disable"})
        => page[t].status = (IF users[u].totp = 0 THEN "off" ELSE "on") /\ (page[t].status = "off" => page[t].secret # 0)

(* The basket id of the tab that logged in last belongs to the user of the *)
(* token, through logins with one factor and two and logins that fail      *)
(* (login.component.ts:105, two-factor-auth-enter.component.ts:57), unless *)
(* a late answer of the chatbot has brought back another user.             *)
BidIsOwn == local # 0 /\ ~restarted /\ setBy # No => bid[setBy] \in DOMAIN baskets /\ baskets[bid[setBy]] = Who(local)

(* A registration that was confirmed is complete: the user and the answer  *)
(* to the security question are there (register.component.ts:83), and at   *)
(* rest every user has a wallet, which nobody waits for (server.ts:511).   *)
RegisteredComplete ==
    ~restarted =>
        /\ \A u \in confirmed : users[u].there /\ u \in answers
        /\ \A u \in Users : users[u].there /\ ~failed /\ (\A c \in calls : c.op # "wallet") => wallets[u] = 1

(* The security question on the page is that of the address, if none is    *)
(* being looked up (forgot-password.component.ts:49), unless an address    *)
(* was looked up while the answer about an earlier one was under way.      *)
QuestionFits ==
    \A t \in Tabs :
        page[t].at = "forgot" /\ ~page[t].timer /\ ~late[t] /\ Resting(t, {"question"})
        => page[t].question \in {No, page[t].email}

(* The captcha on the page is accepted if nobody has asked for another one *)
(* (imageCaptcha.ts:52).                                                   *)
CaptchaAccepted == \A c \in calls : c.op = "export" /\ c.res = "captcha" => c.pw = 0

(* A second factor is only replaced by another one, without being removed  *)
(* first, if the user has several sessions or has set it up twice at the   *)
(* same time: within a session the copy prevents it (2fa.ts:117).          *)
OverwriteNeedsRace ==
    [][\A u \in Users : users[u].totp # 0 /\ users'[u].totp \notin {0, users[u].totp} => u \in raced]_vars
=============================================================================
