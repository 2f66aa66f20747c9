------------------------------ MODULE Accounts ------------------------------
(***************************************************************************)
(* The accounts of the Juice Shop server: login with one factor or two,    *)
(* tokens, passwords, registration, profiles, erasure and export.          *)
(*                                                                         *)
(* A token is signed with a copy of the user's row, and the server keeps   *)
(* another copy for each token it has given away (authenticatedUsers).     *)
(* Handlers decide on the copy and write to the row, and an await is       *)
(* between the two: a step here is what runs between two awaits.           *)
(***************************************************************************)
EXTENDS Naturals, Sequences, FiniteSets

CONSTANTS
    Users,          \* the addresses users have or register with
    Registered,     \* those of users.yml
    Tabs,           \* the tabs of the browser
    No              \* nobody

ASSUME AccountsAssumption == Registered \subseteq Users /\ No \notin Users \cup Tabs

VARIABLES
    users,      \* address -> row of its user
    answers,    \* the users with a security answer
    baskets,    \* owners of the baskets
    wallets,    \* user -> number of wallets
    erasures,   \* the users with a privacy request
    captchas,   \* user -> image captchas of the last five minutes
    minted,     \* what the tokens that were signed say
    cache,      \* authenticatedUsers: token -> its copy of the user
    secrets,    \* the number of TOTP secrets and captchas that were made
    calls,      \* the calls under way
    sent,       \* how many calls were sent
    todo,       \* bound: what still happens in this behaviour
    failed,     \* history: a call has failed
    restarted,  \* history: the server was restarted
    last,       \* history: the values written last to each row
    raced       \* history: the users whose second factor several sessions or calls have dealt with

tables == <<users, answers, baskets, wallets, erasures, captchas>>
sessions == <<minted, cache, secrets>>
hist == <<failed, restarted>>
svars == <<tables, sessions, calls, sent, todo, hist, last, raced>>

Spend(k) == todo[k] > 0 /\ todo' = [todo EXCEPT ![k] = @ - 1]

(* 0 stands for no password, no secret, no name and no token.              *)
User == [there |-> FALSE, password |-> 0, totp |-> 0, name |-> 0]
NewUser(password) == [User EXCEPT !.there = TRUE, !.password = password]
SecurityAnswer == Users
PrivacyRequest == Users
ImageCaptcha == Seq(Nat)
Row(u) == users[u]

(* static content of the database: password 1.                             *)
StaticUsers == [u \in Users |-> IF u \in Registered THEN NewUser(1) ELSE User]

(* A call: the tab and its page, the header and the cookie, the input, and *)
(* what the handler has read so far.                                       *)
Request(n, t, pg, op, auth, cookie, u, pw, v) ==
    [no |-> n, t |-> t, pg |-> pg, op |-> op, at |-> "req", auth |-> auth, cookie |-> cookie, u |-> u, pw |-> pw, v |-> v,
     row |-> User, res |-> "", tk |-> 0]
Background(op, u) == Request(sent + 1, No, 0, op, 0, 0, u, 0, 0)

Move(c, d) == (calls \ {c}) \cup {d}
To(c, stage) == calls' = Move(c, [c EXCEPT !.at = stage]) /\ UNCHANGED sent
Found(c, u) == calls' = Move(c, [c EXCEPT !.at = "found", !.u = u, !.row = Row(u)]) /\ UNCHANGED sent
Answered(c, res) == [c EXCEPT !.at = "ans", !.res = res, !.row = User]
Answer(c, res) == calls' = Move(c, Answered(c, res)) /\ UNCHANGED sent
At(c, op, stage) == c.op = op /\ c.at = stage

-----------------------------------------------------------------------------
(* Tokens.                                                                 *)

(* The token names the user; authenticatedUsers has the user's copy.       *)
Token(u, row) == [user |-> u, password |-> row.password, totp |-> row.totp, name |-> row.name]
authorize(u, row) == minted' = Append(minted, Token(u, row))
put(tk, u, row, bid) ==
    cache' = [x \in DOMAIN cache \cup {tk} |->
                IF x = tk THEN [user |-> u, password |-> row.password, totp |-> row.totp, bid |-> bid] ELSE cache[x]]
Known(tk) == tk \in DOMAIN cache
TokensOf(u) == {tk \in DOMAIN cache : cache[tk].user = u}
Who(tk) == IF tk = 0 THEN No ELSE minted[tk].user

(* Another token of a user is put.                                         *)
RacedPut(u) == raced' = IF TokensOf(u) # {} THEN raced \cup {u} ELSE raced

(* Variant: a token that is not known is ignored.                          *)
updateAuthenticatedUsersNever(tk) == UNCHANGED <<cache, raced>>

(* A token that is not known, because the server was restarted, is trusted. *)
updateAuthenticatedUsers(tk) ==
    IF tk # 0 /\ ~Known(tk) THEN put(tk, minted[tk].user, minted[tk], 0) /\ RacedPut(minted[tk].user)
    ELSE UNCHANGED <<cache, raced>>

-----------------------------------------------------------------------------
(* Login.                                                                  *)

OwnBasket(u) == {i \in DOMAIN baskets : baskets[i] = u}
findOrCreate(u) == IF OwnBasket(u) = {} THEN Append(baskets, u) ELSE baskets
BasketOf(u) == IF OwnBasket(u) = {} THEN Len(baskets) + 1 ELSE CHOOSE i \in OwnBasket(u) : TRUE

login(c) ==
    /\ At(c, "login", "req")
    /\ LET ok == Row(c.u).there /\ Row(c.u).password = c.pw IN
       \/ ok /\ Row(c.u).totp # 0 /\ Answer(c, "totp")
       \/ ok /\ Row(c.u).totp = 0 /\ Found(c, c.u)
       \/ ~ok /\ Answer(c, "401")
    /\ UNCHANGED <<tables, sessions, last, raced>>

(* The temporary token names the user; the code comes from the phone.      *)
verify(c) ==
    /\ At(c, "verify", "req")
    /\ IF c.u # No /\ Row(c.u).there /\ Row(c.u).totp # 0 /\ Row(c.u).totp = c.v THEN Found(c, c.u) ELSE Answer(c, "401")
    /\ UNCHANGED <<tables, sessions, last, raced>>

(* The basket is found or created, the token signed and put.               *)
afterLogin(c) ==
    /\ c.op \in {"login", "verify"} /\ c.at = "found"
    /\ baskets' = findOrCreate(c.u)
    /\ authorize(c.u, c.row)
    /\ put(Len(minted) + 1, c.u, c.row, BasketOf(c.u))
    /\ calls' = Move(c, [Answered(c, "ok") EXCEPT !.tk = Len(minted) + 1, !.v = BasketOf(c.u)])
    /\ RacedPut(c.u)
    /\ UNCHANGED <<users, answers, wallets, erasures, captchas, secrets, sent, last>>

(* The cookie decides; a token from the header is given back as a cookie.  *)
retrieveLoggedInUser(c) ==
    /\ At(c, "whoami", "req")
    /\ LET tk == IF c.cookie # 0 THEN c.cookie ELSE c.auth IN
       /\ updateAuthenticatedUsers(tk)
       /\ calls' = Move(c, [Answered(c, "ok") EXCEPT
                                !.u = IF c.cookie \in DOMAIN cache' THEN cache'[c.cookie].user ELSE No,
                                !.tk = IF tk \in DOMAIN cache' \ DOMAIN cache THEN tk ELSE 0])
    /\ UNCHANGED <<tables, minted, secrets, sent, last>>

(* The address is written to the row; the token stays known.               *)
saveLoginIp(c) ==
    /\ At(c, "ip", "req")
    /\ Answer(c, IF Known(c.auth) THEN "ok" ELSE "401")
    /\ UNCHANGED <<tables, sessions, last, raced>>

-----------------------------------------------------------------------------
(* Passwords.  The current one is compared with the copy.                  *)

changePassword(c) ==
    /\ At(c, "password", "req")
    /\ \/ ~Known(c.auth) /\ Answer(c, "error")
       \/ Known(c.auth) /\ c.pw # cache[c.auth].password /\ Answer(c, "401")
       \/ Known(c.auth) /\ c.pw = cache[c.auth].password /\ Row(cache[c.auth].user).there /\ Found(c, cache[c.auth].user)
       \/ Known(c.auth) /\ c.pw = cache[c.auth].password /\ ~Row(cache[c.auth].user).there /\ Answer(c, "404")
    /\ UNCHANGED <<tables, sessions, last, raced>>

securityQuestion(c) ==
    /\ At(c, "question", "req")
    /\ calls' = Move(c, [Answered(c, "ok") EXCEPT !.u = IF Row(c.u).there /\ c.u \in answers THEN c.u ELSE No])
    /\ UNCHANGED <<tables, sessions, sent, last, raced>>

(* Variant: a wrong answer is not answered.                                *)
resetPasswordSilent(c) ==
    /\ At(c, "reset", "req")
    /\ IF Row(c.u).there /\ c.u \in answers /\ c.pw = 1 THEN Found(c, c.u) ELSE To(c, "lost")
    /\ UNCHANGED <<tables, sessions, last, raced>>

(* pw is 1 if the answer to the question is right.                         *)
resetPassword(c) ==
    /\ At(c, "reset", "req")
    /\ IF Row(c.u).there /\ c.u \in answers /\ c.pw = 1 THEN Found(c, c.u) ELSE Answer(c, "401")
    /\ UNCHANGED <<tables, sessions, last, raced>>

(* update and save write a column if it differs from what was read.        *)
Updated(read, now, new) == IF new = read THEN now ELSE new

updatePassword(c) ==
    /\ c.op \in {"password", "reset"} /\ c.at = "found"
    /\ users' = [users EXCEPT ![c.u].password = Updated(c.row.password, @, c.v)]
    /\ last' = [last EXCEPT ![c.u].password = Updated(c.row.password, @, c.v)]
    /\ Answer(c, "ok")
    /\ UNCHANGED <<answers, baskets, wallets, erasures, captchas, sessions, raced>>

-----------------------------------------------------------------------------
(* The second factor.                                                      *)

status(c) ==
    /\ At(c, "status", "req")
    /\ \/ ~Known(c.auth) /\ Answer(c, "401") /\ UNCHANGED secrets
       \/ /\ Known(c.auth) /\ cache[c.auth].totp = 0
          /\ secrets' = secrets + 1
          /\ calls' = Move(c, [Answered(c, "off") EXCEPT !.v = secrets + 1]) /\ UNCHANGED sent
       \/ Known(c.auth) /\ cache[c.auth].totp # 0 /\ Answer(c, "on") /\ UNCHANGED secrets
    /\ UNCHANGED <<tables, minted, cache, last, raced>>

InFactor(u) == {d \in calls : d.op \in {"setup", "disable"} /\ d.at \in {"found", "saved"} /\ d.u = u}
RacedBy(c, u) == IF InFactor(u) \ {c} # {} THEN raced \cup {u} ELSE raced

(* Variant: nobody looks whether there is a secret already.                *)
setupAgain(c) ==
    /\ At(c, "setup", "req")
    /\ IF Known(c.auth) /\ c.pw = cache[c.auth].password /\ c.v # 0 /\ Row(cache[c.auth].user).there
       THEN Found(c, cache[c.auth].user) /\ raced' = RacedBy(c, cache[c.auth].user)
       ELSE Answer(c, "401") /\ UNCHANGED raced
    /\ UNCHANGED <<tables, sessions, last>>

(* v is the secret of the setup token; the person has typed its code.      *)
setup(c) ==
    /\ At(c, "setup", "req")
    /\ IF /\ Known(c.auth) /\ c.pw = cache[c.auth].password /\ cache[c.auth].totp = 0
          /\ c.v # 0 /\ Row(cache[c.auth].user).there
       THEN Found(c, cache[c.auth].user) /\ raced' = RacedBy(c, cache[c.auth].user)
       ELSE Answer(c, "401") /\ UNCHANGED raced
    /\ UNCHANGED <<tables, sessions, last>>

disable(c) ==
    /\ At(c, "disable", "req")
    /\ IF Known(c.auth) /\ c.pw = cache[c.auth].password /\ Row(cache[c.auth].user).there
       THEN Found(c, cache[c.auth].user) /\ raced' = RacedBy(c, cache[c.auth].user)
       ELSE Answer(c, "401") /\ UNCHANGED raced
    /\ UNCHANGED <<tables, sessions, last>>

Secret(c) == IF c.op = "setup" THEN c.v ELSE 0

(* Variant: the whole row is written as it was read.                       *)
saveFactorWhole(c) ==
    /\ c.op \in {"setup", "disable"} /\ c.at = "found"
    /\ users' = [users EXCEPT ![c.u] = [c.row EXCEPT !.totp = Secret(c)]]
    /\ last' = [last EXCEPT ![c.u].totp = Updated(c.row.totp, @, Secret(c))]
    /\ To(c, "saved")
    /\ UNCHANGED <<answers, baskets, wallets, erasures, captchas, sessions, raced>>

saveFactor(c) ==
    /\ c.op \in {"setup", "disable"} /\ c.at = "found"
    /\ users' = [users EXCEPT ![c.u].totp = Updated(c.row.totp, @, Secret(c))]
    /\ last' = [last EXCEPT ![c.u].totp = Updated(c.row.totp, @, Secret(c))]
    /\ To(c, "saved")
    /\ UNCHANGED <<answers, baskets, wallets, erasures, captchas, sessions, raced>>

(* Variant: the copy is left as it is.                                     *)
updateFromNever(c) == UNCHANGED cache

(* The copy is replaced by the row that was read, without a basket.        *)
updateFrom(c) == put(c.auth, c.u, [c.row EXCEPT !.totp = Secret(c)], 0)

factorSaved(c) ==
    /\ c.op \in {"setup", "disable"} /\ c.at = "saved"
    /\ updateFrom(c)
    /\ Answer(c, "ok")
    /\ UNCHANGED <<tables, minted, secrets, last, raced>>

-----------------------------------------------------------------------------
(* Registration.  The address is unique; the wallet is not waited for.     *)

(* Variant: the address need not be unique.                                *)
registerUserAgain(c) ==
    /\ At(c, "register", "req")
    /\ users' = [users EXCEPT ![c.u] = NewUser(c.pw)]
    /\ last' = [last EXCEPT ![c.u] = NewUser(c.pw)]
    /\ calls' = Move(c, Answered(c, "ok")) \cup {Background("wallet", c.u)}
    /\ sent' = sent + 1
    /\ UNCHANGED <<answers, baskets, wallets, erasures, captchas, sessions, raced>>

registerUser(c) ==
    /\ At(c, "register", "req")
    /\ IF Row(c.u).there THEN Answer(c, "400") /\ UNCHANGED <<users, last>>
       ELSE /\ users' = [users EXCEPT ![c.u] = NewUser(c.pw)]
            /\ last' = [last EXCEPT ![c.u] = NewUser(c.pw)]
            /\ calls' = Move(c, Answered(c, "ok")) \cup {Background("wallet", c.u)}
            /\ sent' = sent + 1
    /\ UNCHANGED <<answers, baskets, wallets, erasures, captchas, sessions, raced>>

createWallet(c) ==
    /\ At(c, "wallet", "req")
    /\ wallets' = [wallets EXCEPT ![c.u] = @ + 1]
    /\ calls' = calls \ {c}
    /\ UNCHANGED <<users, answers, baskets, erasures, captchas, sessions, sent, last, raced>>

(* A user has one answer.                                                  *)
saveAnswer(c) ==
    /\ At(c, "answer", "req")
    /\ answers' = answers \cup {c.u}
    /\ Answer(c, IF c.u \in answers THEN "400" ELSE "ok")
    /\ UNCHANGED <<users, baskets, wallets, erasures, captchas, sessions, last, raced>>

-----------------------------------------------------------------------------
(* The profile, the erasure and the export.                                *)

getUserProfile(c) ==
    /\ At(c, "profile", "req")
    /\ LET tk == IF c.cookie # 0 THEN c.cookie ELSE c.auth IN updateAuthenticatedUsers(tk)
    /\ Answer(c, IF c.cookie \in DOMAIN cache' /\ Row(Who(c.cookie)).there THEN "ok" ELSE "error")
    /\ UNCHANGED <<tables, minted, secrets, last>>

updateUserProfile(c) ==
    /\ At(c, "username", "req")
    /\ IF Known(c.cookie) /\ Row(Who(c.cookie)).there THEN Found(c, Who(c.cookie)) ELSE Answer(c, "error")
    /\ UNCHANGED <<tables, sessions, last, raced>>

(* The name is written; the row that was read goes into a new token.       *)
NameSaved(c) ==
    /\ users' = [users EXCEPT ![c.u].name = Updated(c.row.name, @, c.v)]
    /\ last' = [last EXCEPT ![c.u].name = Updated(c.row.name, @, c.v)]
    /\ authorize(c.u, [c.row EXCEPT !.name = c.v])
    /\ put(Len(minted) + 1, c.u, c.row, 0)
    /\ calls' = Move(c, [Answered(c, "ok") EXCEPT !.tk = Len(minted) + 1])
    /\ raced' = raced \cup {c.u}
    /\ UNCHANGED <<answers, baskets, wallets, erasures, captchas, secrets, sent>>

profileSaved(c) == At(c, "username", "found") /\ NameSaved(c)

(* The form shows the security question.                                   *)
dataErasureForm(c) ==
    /\ At(c, "erasure form", "req")
    /\ Answer(c, IF Known(c.cookie) /\ Who(c.cookie) \in answers THEN "ok" ELSE "error")
    /\ UNCHANGED <<tables, sessions, last, raced>>

(* The answer removes the cookie.                                          *)
dataErasure(c) ==
    /\ At(c, "erasure", "req")
    /\ IF Known(c.cookie) THEN erasures' = erasures \cup {Who(c.cookie)} /\ Answer(c, "ok")
       ELSE Answer(c, "error") /\ UNCHANGED erasures
    /\ UNCHANGED <<users, answers, baskets, wallets, captchas, sessions, last, raced>>

imageCaptchas(c) ==
    /\ At(c, "captcha", "req")
    /\ \/ ~Known(c.auth) /\ Answer(c, "401") /\ UNCHANGED <<captchas, secrets>>
       \/ /\ Known(c.auth)
          /\ secrets' = secrets + 1
          /\ captchas' = [captchas EXCEPT ![cache[c.auth].user] = Append(@, secrets + 1)]
          /\ calls' = Move(c, [Answered(c, "ok") EXCEPT !.v = secrets + 1]) /\ UNCHANGED sent
    /\ UNCHANGED <<users, answers, baskets, wallets, erasures, minted, cache, last, raced>>

(* Variant: the oldest one counts.                                         *)
verifyImageCaptchaOldest(s, v) == s = <<>> \/ v = s[1]

(* The newest one counts; without one there is nothing to answer.          *)
verifyImageCaptcha(s, v) == s = <<>> \/ v = s[Len(s)]

dataExport(c) ==
    /\ At(c, "export", "req")
    /\ Answer(c, IF ~Known(c.auth) THEN "401"
                 ELSE IF verifyImageCaptcha(captchas[cache[c.auth].user], c.v) THEN "ok" ELSE "captcha")
    /\ UNCHANGED <<tables, sessions, last, raced>>

-----------------------------------------------------------------------------
(* A query fails: the handler answers with an error; of the wallet it is   *)
(* only logged.                                                            *)
Queries(c) == c.at = "found" \/ (c.at = "req" /\ c.op \notin {"whoami", "status", "chatstatus", "query"})

queryFails(c) ==
    /\ Queries(c) /\ Spend("fail")
    /\ failed' = TRUE
    /\ calls' = IF c.t = No THEN calls \ {c} ELSE Move(c, Answered(c, "error"))
    /\ UNCHANGED <<tables, sessions, sent, last, raced, restarted>>

Handle(c) ==
    \/ login(c) \/ verify(c) \/ afterLogin(c) \/ retrieveLoggedInUser(c) \/ saveLoginIp(c)
    \/ changePassword(c) \/ securityQuestion(c) \/ resetPassword(c) \/ updatePassword(c)
    \/ status(c) \/ setup(c) \/ disable(c) \/ saveFactor(c) \/ factorSaved(c)
    \/ registerUser(c) \/ createWallet(c) \/ saveAnswer(c)
    \/ getUserProfile(c) \/ updateUserProfile(c) \/ profileSaved(c)
    \/ dataErasureForm(c) \/ dataErasure(c) \/ imageCaptchas(c) \/ dataExport(c)

Serve ==
    \/ (\E c \in calls : Handle(c)) /\ UNCHANGED <<todo, hist>>
    \/ \E c \in calls : queryFails(c)

(* The captchas of five minutes ago do not count any more.                 *)
FiveMinutes == captchas' = [u \in Users |-> <<>>]

(* The server ends and starts again, with new tables.                      *)
Restart ==
    /\ Spend("restart")
    /\ users' = StaticUsers /\ last' = StaticUsers
    /\ answers' = Registered
    /\ baskets' = <<>> /\ erasures' = {}
    /\ wallets' = [u \in Users |-> IF u \in Registered THEN 1 ELSE 0]
    /\ captchas' = [u \in Users |-> <<>>]
    /\ cache' = <<>>
    /\ restarted' = TRUE
    /\ calls' = {IF c.at = "ans" THEN c ELSE Answered(c, "error") : c \in {d \in calls : d.t # No}}
    /\ UNCHANGED <<minted, secrets, sent, failed, raced>>
=============================================================================
