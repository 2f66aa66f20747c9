------------------------- MODULE ContactPagesProofs -------------------------
(***************************************************************************)
(* Proofs about the accounts and the forms of the Juice Shop, for any      *)
(* users, tabs and scenarios.                                              *)
(***************************************************************************)
EXTENDS ContactPagesInv, FiniteSetTheorems, TLAPS

LEMMA CardOne == \A x : Cardinality({x}) = 1
  BY FS_Singleton

LEMMA CardTwo == \A x, y : x # y => Cardinality({x, y}) = 2
<1> SUFFICES ASSUME NEW x, NEW y, x # y PROVE Cardinality({x, y}) = 2
  OBVIOUS
<1>1. IsFiniteSet({x}) /\ Cardinality({x}) = 1
  BY FS_Singleton
<1>2. y \notin {x} /\ {x} \cup {y} = {x, y}
  OBVIOUS
<1> QED
  BY <1>1, <1>2, FS_AddElement

LEMMA UserRow == User \in Rows
  BY DEF User, Rows

(* A request of a page.                                                    *)
LEMMA RequestFresh ==
    ASSUME NEW n \in Nat, sent \in Nat, n > sent, n <= sent',
           NEW t \in Tabs, NEW pg \in Nat, NEW op \in PageOps, NEW auth \in 0..Len(minted), NEW ck \in 0..Len(minted),
           NEW u \in Users \cup {No}, NEW pw \in Nat, NEW v \in Nat, minted \in Seq(Tokens),
           op \in ChatOps => pg \in DOMAIN action'[t],
           op \in UserOps \cup {"question"} => u \in Users,
           op = "answer" /\ ~restarted => users[u].there
    PROVE  Fresh(Request(n, t, pg, op, auth, ck, u, pw, v)) /\ Request(n, t, pg, op, auth, ck, u, pw, v).no = n
<1>1. Len(minted) \in Nat
  OBVIOUS
<1>2. auth \in Nat /\ ck \in Nat
  BY <1>1
<1>3. op \in PageOps \cup {"wallet"} /\ "req" \in Stages /\ "" \in Results
  BY DEF Stages, Results
<1>4. Request(n, t, pg, op, auth, ck, u, pw, v) \in Calls
  BY <1>2, <1>3, UserRow DEF Request, Calls
<1> QED
  BY <1>1, <1>4 DEF Request, Fresh

(* Calls are added, and answered ones taken away.                          *)
LEMMA PostShape ==
    ASSUME CallsOK, CallsApart, NEW R, R \subseteq calls, \A c \in calls : c.at # "ans" => c \in R,
           NEW S, Becomes(R, S), AllFresh(S), \A t \in Tabs : DOMAIN action[t] \subseteq DOMAIN action'[t]
    PROVE  BrowserCalls
<1> USE DEF Becomes, AllFresh
<1>1. \A c \in calls : Kin(c, c) /\ c.no \in 1..sent
  BY DEF CallsOK, CallOK, CallTyped, Kin
<1>2. \A d \in S : d.no > sent /\ d \in Calls
  BY DEF Fresh
<1>3. \A c, d \in calls' : c.no = d.no => c = d
  <2> SUFFICES ASSUME NEW c \in calls', NEW d \in calls', c.no = d.no PROVE c = d
    OBVIOUS
  <2>1. CASE c \in R /\ d \in R
    BY <2>1 DEF CallsApart
  <2>2. CASE c \in S /\ d \in S
    BY <2>2
  <2>3. CASE (c \in R /\ d \in S) \/ (c \in S /\ d \in R)
    BY <2>3, <1>1, <1>2 DEF CallsOK
  <2> QED
    BY <2>1, <2>2, <2>3
<1>4. \A d \in calls' : Fresh(d) \/ \E c \in calls : Kin(c, d)
  BY <1>1
<1>5. \A c \in calls : c.at # "ans" => \E d \in calls' : Kin(c, d)
  BY <1>1
<1> QED
  BY <1>3, <1>4, <1>5 DEF BrowserCalls

(* A page load: the calls of the tab are left.                             *)
LEMMA LoadShape ==
    ASSUME CallsOK, CallsApart, NEW x \in Tabs,
           NEW S, Becomes(Abandoned(x), S), AllFresh(S), \A t \in Tabs : DOMAIN action[t] \subseteq DOMAIN action'[t]
    PROVE  BrowserCalls
<1> USE DEF Becomes, AllFresh
<1> DEFINE f(c) == [c EXCEPT !.t = IF @ = x THEN No ELSE @]
<1>1. \A c \in calls : c \in Calls /\ c.no \in 1..sent
  BY DEF CallsOK, CallOK, CallTyped
<1>2. \A c \in calls : Kin(c, f(c)) /\ f(c).no = c.no
  BY <1>1 DEF Kin, Calls
<1>3. \A d \in Abandoned(x) : \E c \in calls : d = f(c)
  BY DEF Abandoned
<1>4. \A c \in calls : f(c) \in Abandoned(x)
  BY DEF Abandoned
<1> HIDE DEF f
<1>5. \A d \in S : d.no > sent
  BY DEF Fresh
<1>6. \A c, d \in calls' : c.no = d.no => c = d
  <2> SUFFICES ASSUME NEW c \in calls', NEW d \in calls', c.no = d.no PROVE c = d
    OBVIOUS
  <2>1. CASE c \in Abandoned(x) /\ d \in Abandoned(x)
    <3>1. PICK a \in calls : c = f(a)
      BY <2>1, <1>3
    <3>2. PICK b \in calls : d = f(b)
      BY <2>1, <1>3
    <3>3. a = b
      BY <3>1, <3>2, <1>2 DEF CallsApart
    <3> QED
      BY <3>1, <3>2, <3>3
  <2>2. CASE c \in S /\ d \in S
    BY <2>2
  <2>3. CASE (c \in Abandoned(x) /\ d \in S) \/ (c \in S /\ d \in Abandoned(x))
    BY <2>3, <1>1, <1>2, <1>3, <1>5 DEF CallsOK
  <2> QED
    BY <2>1, <2>2, <2>3
<1>7. \A d \in calls' : Fresh(d) \/ \E c \in calls : Kin(c, d)
  BY <1>2, <1>3
<1>8. \A c \in calls : c.at # "ans" => \E d \in calls' : Kin(c, d)
  BY <1>2, <1>4
<1> QED
  BY <1>6, <1>7, <1>8 DEF BrowserCalls

(* An export or its form asks for a captcha.                               *)
LEMMA UnsureShape ==
    ASSUME CallsOK, CallsApart, NEW R, R \subseteq calls, \A c \in calls : c.at # "ans" => c \in R,
           NEW S, Becomes(Unsure(R), S), AllFresh(S), \A t \in Tabs : DOMAIN action[t] \subseteq DOMAIN action'[t]
    PROVE  BrowserCalls
<1> USE DEF Becomes, AllFresh
<1> DEFINE f(c) == IF c.op = "export" THEN [c EXCEPT !.pw = 0] ELSE c
<1>1. \A c \in calls : c \in Calls /\ c.no \in 1..sent
  BY DEF CallsOK, CallOK, CallTyped
<1>2. \A c \in calls : Kin(c, f(c)) /\ f(c).no = c.no
  BY <1>1 DEF Kin, Calls
<1>3. \A d \in Unsure(R) : \E c \in R : d = f(c)
  BY DEF Unsure
<1>4. \A c \in R : f(c) \in Unsure(R)
  BY DEF Unsure
<1> HIDE DEF f
<1>5. \A d \in S : d.no > sent
  BY DEF Fresh
<1>6. \A c, d \in calls' : c.no = d.no => c = d
  <2> SUFFICES ASSUME NEW c \in calls', NEW d \in calls', c.no = d.no PROVE c = d
    OBVIOUS
  <2>1. CASE c \in Unsure(R) /\ d \in Unsure(R)
    <3>1. PICK a \in R : c = f(a)
      BY <2>1, <1>3
    <3>2. PICK b \in R : d = f(b)
      BY <2>1, <1>3
    <3>3. a = b
      BY <3>1, <3>2, <1>2 DEF CallsApart
    <3> QED
      BY <3>1, <3>2, <3>3
  <2>2. CASE c \in S /\ d \in S
    BY <2>2
  <2>3. CASE (c \in Unsure(R) /\ d \in S) \/ (c \in S /\ d \in Unsure(R))
    BY <2>3, <1>1, <1>2, <1>3, <1>5 DEF CallsOK
  <2> QED
    BY <2>1, <2>2, <2>3
<1>7. \A d \in calls' : Fresh(d) \/ \E c \in calls : Kin(c, d)
  BY <1>2, <1>3
<1>8. \A c \in calls : c.at # "ans" => \E d \in calls' : Kin(c, d)
  BY <1>2, <1>4
<1> QED
  BY <1>6, <1>7, <1>8 DEF BrowserCalls

(* Nothing that a page does changes the tables and the sessions, and the   *)
(* calls go on as they are.                                                *)
LEMMA BrowserKeeps == ASSUME SInv, Quiet, BrowserCalls PROVE SInv'
<1> USE DEF Quiet, tables, sessions, hist
<1>1. TablesOK' /\ SessionsOK' /\ NoLostUpdate'
  BY DEF SInv, TablesOK, SessionsOK, NoLostUpdate
<1>2. \A c \in calls, d \in calls' : Kin(c, d) => CallOK(d)'
  <2> SUFFICES ASSUME NEW c \in calls, NEW d \in calls', Kin(c, d) PROVE CallOK(d)'
    OBVIOUS
  <2>1. CallOK(c)
    BY DEF SInv, CallsOK
  <2>2. CallTyped(d)'
    BY <2>1, AccountsAssumption DEF CallOK, CallTyped, Kin, BrowserCalls, SInv, CallsOK
  <2>3. CallStaged(d)'
    BY <2>1 DEF CallOK, CallStaged, Kin
  <2>4. Registering(d)' /\ LoggingIn(d)'
    BY <2>1 DEF CallOK, Registering, LoggingIn, Kin
  <2>5. SettingFactor(d)' /\ RowIsFresh(d)'
    BY <2>1 DEF CallOK, SettingFactor, RowIsFresh, Active, Secret, TokensOf, Kin
  <2> QED
    BY <2>2, <2>3, <2>4, <2>5 DEF CallOK
<1>3. \A d \in calls' : Fresh(d) => CallOK(d)'
  <2> SUFFICES ASSUME NEW d \in calls', Fresh(d) PROVE CallOK(d)'
    OBVIOUS
  <2>1. CallTyped(d)'
    BY DEF CallTyped, Fresh, BrowserCalls, SInv, CallsOK, Calls
  <2>2. CallStaged(d)' /\ Registering(d)'
    BY DEF CallStaged, Registering, Fresh, PageOps
  <2>3. LoggingIn(d)' /\ SettingFactor(d)' /\ RowIsFresh(d)'
    BY DEF LoggingIn, SettingFactor, RowIsFresh, Active, Fresh
  <2> QED
    BY <2>1, <2>2, <2>3 DEF CallOK
<1>4. CallsOK'
  BY <1>2, <1>3 DEF CallsOK, BrowserCalls
<1>5. CallsApart'
  <2> SUFFICES ASSUME NEW c \in calls', NEW d \in calls', c # d,
                      \/ c.op = "wallet" /\ d.op = "wallet" /\ c.u = d.u
                      \/ Active(c) /\ Active(d) /\ c.u = d.u /\ c.u \notin raced
               PROVE  FALSE
    BY DEF CallsApart, BrowserCalls, Active
  <2>1. ~Fresh(c) /\ ~Fresh(d)
    BY DEF Fresh, Active, PageOps
  <2>2. PICK a \in calls : Kin(a, c)
    BY <2>1 DEF BrowserCalls
  <2>3. PICK b \in calls : Kin(b, d)
    BY <2>1 DEF BrowserCalls
  <2>4. a # b
    BY <2>2, <2>3 DEF Kin, BrowserCalls
  <2> QED
    BY <2>2, <2>3, <2>4 DEF Kin, Active, SInv, CallsApart
<1>6. WalletsOK'
  BY DEF SInv, WalletsOK, BrowserCalls, Kin, CallsOK, CallOK, CallStaged
<1>7. FactorOK'
  <2>1. \A u : Saving(u) => Saving(u)'
    BY DEF Saving, BrowserCalls, Kin
  <2> QED
    BY <2>1 DEF SInv, FactorOK, TokensOf
<1> QED
  BY <1>1, <1>4, <1>5, <1>6, <1>7 DEF SInv

-----------------------------------------------------------------------------
(* The steps of the browser, one lemma for each.                           *)

LEMMA Untouched ==
    ASSUME AccountsInv, Quiet
    PROVE  /\ UNCHANGED todo => TodoOK'
           /\ UNCHANGED session => SessionOK'
           /\ UNCHANGED <<tmp, shown, phone, confirmed>> => PersonOK'
           /\ UNCHANGED late => LateOK'
           /\ UNCHANGED page => PagesOK'
           /\ UNCHANGED <<page, bot, author, action>> => ContactOK'
<1> USE DEF AccountsInv, BrowserInv, Quiet, tables, sessions, hist
<1>1. UNCHANGED todo => TodoOK'
  BY DEF TodoOK
<1>2. UNCHANGED session => SessionOK'
  BY DEF SessionOK, BidIsOwn, session, Who
<1>3. UNCHANGED <<tmp, shown, phone, confirmed>> => PersonOK'
  BY DEF PersonOK, ConfirmedOK
<1>4. UNCHANGED late => LateOK'
  BY DEF LateOK
<1>5. UNCHANGED page => PagesOK'
  BY DEF PagesOK, PageOK
<1>6. UNCHANGED <<page, bot, author, action>> => ContactOK'
  BY DEF ContactOK
<1> QED
  BY <1>1, <1>2, <1>3, <1>4, <1>5, <1>6

LEMMA SpendOK == \A k : TodoOK /\ Spend(k) /\ k \notin {"who", "tabs"} => TodoOK'
  BY DEF TodoOK, Spend

LEMMA DoneShape ==
    ASSUME CallsOK, CallsApart, NEW c \in calls, c.at = "ans", Done(c), UNCHANGED action
    PROVE  BrowserCalls
<1> DEFINE R == calls \ {c}
<1>1. R \subseteq calls /\ (\A x \in calls : x.at # "ans" => x \in R) /\ Becomes(R, {})
  BY DEF Done, Becomes
<1>2. AllFresh({})
  BY DEF Done, CallsOK, AllFresh
<1> HIDE DEF R
<1> QED
  BY <1>1, <1>2, PostShape

LEMMA NothingShape ==
    ASSUME CallsOK, CallsApart, UNCHANGED <<calls, sent>>, \A t \in Tabs : DOMAIN action[t] \subseteq DOMAIN action'[t]
    PROVE  BrowserCalls
<1>1. Becomes(calls, {}) /\ AllFresh({})
  BY DEF CallsOK, Becomes, AllFresh
<1> QED
  BY <1>1, PostShape

LEMMA SendShape ==
    ASSUME CallsOK, CallsApart, minted \in Seq(Tokens), NEW R, R \subseteq calls, \A c \in calls : c.at # "ans" => c \in R,
           NEW t \in Tabs, NEW pg \in Nat, NEW op \in PageOps, NEW auth \in 0..Len(minted), NEW ck \in 0..Len(minted),
           NEW u \in Users \cup {No}, NEW pw \in Nat, NEW v \in Nat,
           calls' = R \cup {Request(sent + 1, t, pg, op, auth, ck, u, pw, v)},
           sent' = sent + Cardinality({Request(sent + 1, t, pg, op, auth, ck, u, pw, v)}),
           \A x \in Tabs : DOMAIN action[x] \subseteq DOMAIN action'[x],
           op \in ChatOps => pg \in DOMAIN action'[t],
           op \in UserOps \cup {"question"} => u \in Users,
           op = "answer" /\ ~restarted => users[u].there
    PROVE  BrowserCalls
<1>1. sent \in Nat /\ sent' = sent + 1
  BY CardOne DEF CallsOK
<1>0. PICK n \in Nat : n = sent + 1
  BY <1>1
<1> DEFINE d == Request(n, t, pg, op, auth, ck, u, pw, v)
<1>2. Fresh(d)
  <2>1. n > sent /\ n <= sent'
    BY <1>0, <1>1
  <2> QED
    BY <1>0, <1>1, <2>1, RequestFresh, Zenon
<1>4. Becomes(R, {d})
  BY <1>0 DEF Becomes
<1> HIDE DEF d
<1>3. AllFresh({d})
  BY <1>1, <1>2 DEF AllFresh
<1> QED
  BY <1>3, <1>4, PostShape, Zenon

LEMMA SendTwoShape ==
    ASSUME CallsOK, CallsApart, minted \in Seq(Tokens), NEW R, R \subseteq calls, \A c \in calls : c.at # "ans" => c \in R,
           NEW t \in Tabs, NEW pg \in Nat, NEW op \in PageOps, NEW auth \in 0..Len(minted), NEW ck \in 0..Len(minted),
           NEW u \in Users \cup {No}, NEW pw \in Nat, NEW v \in Nat,
           NEW op2 \in PageOps, NEW u2 \in Users \cup {No}, NEW pw2 \in Nat, NEW v2 \in Nat,
           calls' = R \cup {Request(sent + 1, t, pg, op, auth, ck, u, pw, v), Request(sent + 2, t, pg, op2, auth, ck, u2, pw2, v2)},
           sent' = sent + Cardinality({Request(sent + 1, t, pg, op, auth, ck, u, pw, v),
                                       Request(sent + 2, t, pg, op2, auth, ck, u2, pw2, v2)}),
           \A x \in Tabs : DOMAIN action[x] \subseteq DOMAIN action'[x],
           op \in ChatOps => pg \in DOMAIN action'[t], op2 \notin ChatOps,
           op \notin UserOps \cup {"question"}, op2 \in UserOps \cup {"question"} => u2 \in Users, op2 # "answer"
    PROVE  BrowserCalls
<1>0. sent \in Nat
  BY DEF CallsOK
<1>c. PICK n \in Nat : n = sent + 1
  BY <1>0
<1>d. PICK m \in Nat : m = sent + 2
  BY <1>0
<1>a. n = sent + 1 /\ m = sent + 2
  BY <1>c, <1>d
<1> DEFINE d == Request(n, t, pg, op, auth, ck, u, pw, v)
           e == Request(m, t, pg, op2, auth, ck, u2, pw2, v2)
<1>1. d.no = sent + 1 /\ e.no = sent + 2
  BY <1>a DEF Request
<1>2. d # e
  BY <1>0, <1>1
<1>3. sent' = sent + 2
  BY <1>a, <1>2, CardTwo
<1>4. op # "answer"
  BY DEF UserOps
<1>b. n > sent /\ n <= sent' /\ m > sent /\ m <= sent' /\ sent' \in Nat /\ sent <= sent'
  BY <1>0, <1>a, <1>3
<1>5. Fresh(d)
  BY <1>0, <1>b, <1>4, RequestFresh, Zenon
<1>6. Fresh(e)
  BY <1>0, <1>b, RequestFresh, Zenon
<1>7. Becomes(R, {d, e})
  BY <1>a DEF Becomes
<1> HIDE DEF d, e
<1>8. \A x \in {d, e} : Fresh(x)
  BY <1>5, <1>6
<1>9. \A x, y \in {d, e} : x.no = y.no => x = y
  BY <1>0, <1>1
<1>10. AllFresh({d, e})
  BY <1>b, <1>8, <1>9 DEF AllFresh
<1> QED
  BY <1>7, <1>10, PostShape, Zenon

(* Steps that take an answer and leave everything as it is.                *)
LEMMA AnswerTaken ==
    ASSUME AccountsInv, NEW c \in calls, c.at = "ans", Done(c), Quiet, UNCHANGED <<todo, cvars, contact>>
    PROVE  BrowserStep
<1>1. BrowserCalls
  BY DoneShape DEF AccountsInv, SInv, contact
<1>2. BrowserInv'
  BY Untouched DEF BrowserInv, cvars, session, contact
<1> QED
  BY <1>1, <1>2 DEF BrowserStep

LEMMA WhoIsUser ==
    ASSUME minted \in Seq(Tokens), NEW tk \in 0..Len(minted)
    PROVE  Who(tk) \in Users \cup {No} /\ (tk # 0 => Who(tk) \in Users)
<1>1. tk # 0 => tk \in 1..Len(minted) /\ minted[tk] \in Tokens
  OBVIOUS
<1> QED
  BY <1>1 DEF Who, Tokens

LEMMA TypedIsNat == ASSUME TablesOK, NEW u \in Users PROVE Typed(u) \subseteq Nat
<1>1. users[u] \in Rows
  BY DEF TablesOK
<1>2. Row(u).password \in Nat
  BY <1>1 DEF Row, Rows
<1> QED
  BY <1>2 DEF Typed

(* The form sends what was typed.                                          *)
LEMMA SendKeeps ==
    ASSUME AccountsInv, NEW t \in Tabs, NEW op \in PageOps, NEW u \in Users \cup {No}, NEW pw \in Nat, NEW v \in Nat,
           Send(t, op, u, pw, v), UNCHANGED action, op # "answer",
           op \in ChatOps => page[t].n \in DOMAIN action[t],
           op \in UserOps \cup {"question"} => u \in Users
    PROVE  BrowserCalls
<1>1. CallsOK /\ CallsApart /\ minted \in Seq(Tokens) /\ local \in 0..Len(minted) /\ cookie \in 0..Len(minted)
  BY DEF AccountsInv, BrowserInv, SInv, SessionsOK, SessionOK
<1>2. page[t].n \in Nat
  BY DEF AccountsInv, BrowserInv, PagesOK, PageOK
<1>3. /\ calls' = calls \cup {Request(sent + 1, t, page[t].n, op, local, cookie, u, pw, v)}
      /\ sent' = sent + Cardinality({Request(sent + 1, t, page[t].n, op, local, cookie, u, pw, v)})
  BY DEF Send, Post, intercept
<1>4. calls \subseteq calls /\ (\A c \in calls : c.at # "ans" => c \in calls)
  OBVIOUS
<1>5. /\ \A x \in Tabs : DOMAIN action[x] \subseteq DOMAIN action'[x]
      /\ op \in ChatOps => page[t].n \in DOMAIN action'[t]
      /\ op = "answer" /\ ~restarted => users[u].there
  OBVIOUS
<1> QED
  BY <1>1, <1>2, <1>3, <1>4, <1>5, SendShape, Zenon

(* An answer is followed by another call.                                  *)
LEMMA ThenKeeps ==
    ASSUME AccountsInv, NEW c \in calls, c.at = "ans", NEW t \in Tabs, NEW pg \in Nat, NEW op \in PageOps,
           NEW auth \in 0..Len(minted), NEW ck \in 0..Len(minted), NEW u \in Users \cup {No}, NEW pw \in Nat, NEW v \in Nat,
           Then(c, {Request(sent + 1, t, pg, op, auth, ck, u, pw, v)}), UNCHANGED action,
           op \in ChatOps => pg \in DOMAIN action[t],
           op \in UserOps \cup {"question"} => u \in Users,
           op = "answer" /\ ~restarted => users[u].there
    PROVE  BrowserCalls
<1>1. CallsOK /\ CallsApart /\ minted \in Seq(Tokens)
  BY DEF AccountsInv, SInv, SessionsOK
<1>3. /\ calls' = (calls \ {c}) \cup {Request(sent + 1, t, pg, op, auth, ck, u, pw, v)}
      /\ sent' = sent + Cardinality({Request(sent + 1, t, pg, op, auth, ck, u, pw, v)})
  BY DEF Then
<1>4. calls \ {c} \subseteq calls /\ (\A x \in calls : x.at # "ans" => x \in calls \ {c})
  OBVIOUS
<1>5. /\ \A x \in Tabs : DOMAIN action[x] \subseteq DOMAIN action'[x]
      /\ op \in ChatOps => pg \in DOMAIN action'[t]
  OBVIOUS
<1> QED
  BY <1>1, <1>3, <1>4, <1>5, SendShape, Zenon

LEMMA ThenTwoKeeps ==
    ASSUME AccountsInv, NEW c \in calls, c.at = "ans", NEW t \in Tabs, NEW pg \in Nat, NEW op \in PageOps,
           NEW auth \in 0..Len(minted), NEW ck \in 0..Len(minted), NEW u \in Users \cup {No}, NEW pw \in Nat, NEW v \in Nat,
           NEW op2 \in PageOps, NEW u2 \in Users \cup {No}, NEW pw2 \in Nat, NEW v2 \in Nat,
           Then(c, {Request(sent + 1, t, pg, op, auth, ck, u, pw, v), Request(sent + 2, t, pg, op2, auth, ck, u2, pw2, v2)}),
           UNCHANGED action, op \notin ChatOps, op2 \notin ChatOps,
           op \notin UserOps \cup {"question"}, op2 \in UserOps \cup {"question"} => u2 \in Users, op2 # "answer"
    PROVE  BrowserCalls
<1>1. CallsOK /\ CallsApart /\ minted \in Seq(Tokens)
  BY DEF AccountsInv, SInv, SessionsOK
<1>3. /\ calls' = (calls \ {c}) \cup {Request(sent + 1, t, pg, op, auth, ck, u, pw, v),
                                     Request(sent + 2, t, pg, op2, auth, ck, u2, pw2, v2)}
      /\ sent' = sent + Cardinality({Request(sent + 1, t, pg, op, auth, ck, u, pw, v),
                                     Request(sent + 2, t, pg, op2, auth, ck, u2, pw2, v2)})
  BY DEF Then
<1>4. calls \ {c} \subseteq calls /\ (\A x \in calls : x.at # "ans" => x \in calls \ {c})
  OBVIOUS
<1>5. /\ \A x \in Tabs : DOMAIN action[x] \subseteq DOMAIN action'[x]
      /\ op \in ChatOps => pg \in DOMAIN action'[t]
  OBVIOUS
<1> QED
  BY <1>1, <1>3, <1>4, <1>5, SendTwoShape, Zenon

(* Pages.                                                                  *)
LEMMA PageChange ==
    ASSUME AccountsInv, Quiet, NEW t \in Tabs, NEW q, PageOK(q), page' = [page EXCEPT ![t] = q],
           q.at = "chatbot" => q.at = page[t].at /\ q.n = page[t].n
    PROVE  PagesOK' /\ (UNCHANGED <<bot, author, action>> => ContactOK')
<1>1. UNCHANGED minted
  BY DEF Quiet, sessions
<1>2. DOMAIN page = Tabs /\ \A x \in Tabs : PageOK(page[x])
  BY DEF AccountsInv, BrowserInv, PagesOK
<1>3. DOMAIN page' = Tabs /\ page'[t] = q /\ \A x \in Tabs \ {t} : page'[x] = page[x]
  BY <1>2
<1>4. PagesOK'
  BY <1>1, <1>2, <1>3 DEF PagesOK, PageOK
<1>5. UNCHANGED <<bot, author, action>> => ContactOK'
  BY <1>3 DEF AccountsInv, BrowserInv, ContactOK
<1> QED
  BY <1>4, <1>5

LEMMA NewPageOK ==
    ASSUME NEW p, NEW n \in Nat, NEW tk \in 0..Len(minted)
    PROVE  PageOK(NewPage(p, n, tk)) /\ NewPage(p, n, tk).at = p /\ NewPage(p, n, tk).n = n
  BY DEF NewPage, PageOK, PageFields

LEMMA NavigateKeeps ==
    ASSUME AccountsInv, Quiet, NEW t \in Tabs, NEW p, p # "chatbot", NEW tk \in 0..Len(minted), navigate(t, p, tk)
    PROVE  PagesOK' /\ (UNCHANGED <<bot, author, action>> => ContactOK')
<1>0. PageOK(page[t]) /\ page[t].n \in Nat /\ DOMAIN page = Tabs
  BY DEF AccountsInv, BrowserInv, PagesOK, PageOK
<1> DEFINE q == NewPage(p, page[t].n + 1, tk)
<1>1. PICK n \in Nat : n = page[t].n + 1
  BY <1>0
<1>2. PageOK(q) /\ q.at = p
  BY <1>1, NewPageOK
<1>3. page' = [page EXCEPT ![t] = q]
  BY DEF navigate
<1> HIDE DEF q
<1> QED
  BY <1>2, <1>3, PageChange, Zenon

LEMMA FormKeeps ==
    ASSUME AccountsInv, Quiet, BrowserCalls, TodoOK', UNCHANGED <<cvars, contact>>
    PROVE  BrowserStep
  BY Untouched DEF BrowserStep, BrowserInv, cvars, session, contact

LEMMA BrowserHas ==
    ASSUME AccountsInv
    PROVE  /\ CallsOK /\ CallsApart /\ TablesOK /\ SessionsOK /\ TodoOK /\ minted \in Seq(Tokens)
           /\ local \in 0..Len(minted) /\ cookie \in 0..Len(minted)
           /\ \A t \in Tabs : PageOK(page[t]) /\ page[t].n \in Nat
  BY DEF AccountsInv, BrowserInv, SInv, SessionsOK, SessionOK, PagesOK, PageOK

LEMMA submitLoginStep ==
    ASSUME AccountsInv, NEW t \in Tabs, submitLogin(t), UNCHANGED contact PROVE BrowserStep
<1>1. Quiet /\ UNCHANGED <<cvars, contact>> /\ UNCHANGED action
  BY DEF submitLogin, contact
<1>2. TodoOK'
  BY BrowserHas, SpendOK DEF submitLogin
<1>3. PICK u \in todo.who, pw \in Nat : Post(userServiceLogin(t, u, pw, 0)) /\ u \in Users
  BY BrowserHas, TypedIsNat DEF submitLogin, TodoOK
<1>4. BrowserCalls
  <2>1. /\ calls' = calls \cup {Request(sent + 1, t, page[t].n, "whoami", local, cookie, No, 0, 0),
                               Request(sent + 2, t, page[t].n, "login", local, cookie, u, pw, 0)}
        /\ sent' = sent + Cardinality({Request(sent + 1, t, page[t].n, "whoami", local, cookie, No, 0, 0),
                                       Request(sent + 2, t, page[t].n, "login", local, cookie, u, pw, 0)})
    BY <1>3 DEF Post, userServiceLogin, getUserDetails, intercept
  <2>2. /\ "whoami" \in PageOps /\ "login" \in PageOps /\ "whoami" \notin ChatOps /\ "login" \notin ChatOps
        /\ "whoami" \notin UserOps \cup {"question"} /\ "login" # "answer" /\ 0 \in Nat
    BY DEF PageOps, ChatOps, UserOps
  <2>3. /\ \A x \in Tabs : DOMAIN action[x] \subseteq DOMAIN action'[x]
        /\ calls \subseteq calls /\ (\A c \in calls : c.at # "ans" => c \in calls)
        /\ No \in Users \cup {No} /\ u \in Users \cup {No} /\ u \in Users
        /\ "whoami" \in ChatOps => page[t].n \in DOMAIN action'[t]
    BY <1>1, <1>3, <2>2
  <2> QED
    BY <2>1, <2>2, <2>3, BrowserHas, SendTwoShape, Zenon
<1> QED
  BY <1>1, <1>2, <1>4, FormKeeps

LEMMA submitCodeStep ==
    ASSUME AccountsInv, NEW t \in Tabs, submitCode(t), UNCHANGED contact PROVE BrowserStep
<1>1. Quiet /\ UNCHANGED <<cvars, contact>> /\ UNCHANGED action
  BY DEF submitCode, contact
<1>2. TodoOK'
  BY BrowserHas, SpendOK DEF submitCode
<1>3. PICK v \in Nat : Send(t, "verify", tmp, 0, v)
  BY DEF submitCode, AccountsInv, BrowserInv, PersonOK
<1>4. tmp \in Users \cup {No} /\ 0 \in Nat
  BY DEF AccountsInv, BrowserInv, PersonOK
<1>5. "verify" \in PageOps /\ "verify" \notin ChatOps /\ "verify" \notin UserOps \cup {"question"} /\ "verify" # "answer"
  BY DEF PageOps, ChatOps, UserOps
<1>6. BrowserCalls
  BY <1>1, <1>3, <1>4, <1>5, SendKeeps, Zenon
<1> QED
  BY <1>1, <1>2, <1>6, FormKeeps

LEMMA saveStep ==
    ASSUME AccountsInv, NEW t \in Tabs, save(t), UNCHANGED contact PROVE BrowserStep
<1>1. Quiet /\ UNCHANGED <<cvars, contact>> /\ UNCHANGED action
  BY DEF save, contact
<1>2. TodoOK'
  BY BrowserHas, SpendOK DEF save
<1>3. PICK u \in Users : Send(t, "register", u, 1, 0)
  BY BrowserHas DEF save, TodoOK
<1>4. u \in Users \cup {No} /\ 0 \in Nat /\ 1 \in Nat
  OBVIOUS
<1>5. "register" \in PageOps /\ "register" \notin ChatOps /\ "register" # "answer"
  BY DEF PageOps, ChatOps
<1>6. BrowserCalls
  BY <1>1, <1>3, <1>4, <1>5, SendKeeps, Zenon
<1> QED
  BY <1>1, <1>2, <1>6, FormKeeps

LEMMA submitResetStep ==
    ASSUME AccountsInv, NEW t \in Tabs, submitReset(t), UNCHANGED contact PROVE BrowserStep
<1>1. Quiet /\ UNCHANGED <<cvars, contact>> /\ UNCHANGED action
  BY DEF submitReset, contact
<1>2. TodoOK'
  BY BrowserHas, SpendOK DEF submitReset
<1>3. PICK right \in Nat : Send(t, "reset", page[t].email, right, 3)
  BY DEF submitReset
<1>4. page[t].email \in Users /\ page[t].email \in Users \cup {No} /\ 3 \in Nat
  BY BrowserHas DEF submitReset, PageOK
<1>5. "reset" \in PageOps /\ "reset" \notin ChatOps /\ "reset" # "answer"
  BY DEF PageOps, ChatOps
<1>6. BrowserCalls
  BY <1>1, <1>3, <1>4, <1>5, SendKeeps, Zenon
<1> QED
  BY <1>1, <1>2, <1>6, FormKeeps

LEMMA submitPasswordStep ==
    ASSUME AccountsInv, NEW t \in Tabs, submitPassword(t), UNCHANGED contact PROVE BrowserStep
<1>1. Quiet /\ UNCHANGED <<cvars, contact>> /\ UNCHANGED action
  BY DEF submitPassword, contact
<1>2. TodoOK'
  BY BrowserHas, SpendOK DEF submitPassword
<1>3. PICK pw \in Nat : Send(t, "password", No, pw, 2)
  <2>1. local # 0 => Who(local) \in Users
    BY BrowserHas, WhoIsUser
  <2>2. local # 0 => Typed(Who(local)) \subseteq Nat
    BY <2>1, BrowserHas, TypedIsNat
  <2> QED
    BY <2>2 DEF submitPassword
<1>4. No \in Users \cup {No} /\ 2 \in Nat
  OBVIOUS
<1>5. "password" \in PageOps /\ "password" \notin ChatOps /\ "password" # "answer" /\ "password" \notin UserOps \cup {"question"}
  BY DEF PageOps, ChatOps, UserOps
<1>6. BrowserCalls
  BY <1>1, <1>3, <1>4, <1>5, SendKeeps, Zenon
<1> QED
  BY <1>1, <1>2, <1>6, FormKeeps

LEMMA saveExportStep ==
    ASSUME AccountsInv, NEW t \in Tabs, saveExport(t), UNCHANGED contact PROVE BrowserStep
<1>1. Quiet /\ UNCHANGED <<cvars, contact>> /\ UNCHANGED action
  BY DEF saveExport, contact
<1>2. TodoOK'
  BY BrowserHas, SpendOK DEF saveExport
<1>3. PICK pw \in Nat, v \in Nat : Send(t, "export", No, pw, v)
  BY BrowserHas DEF saveExport, PageOK
<1>4. No \in Users \cup {No}
  OBVIOUS
<1>5. "export" \in PageOps /\ "export" \notin ChatOps /\ "export" # "answer" /\ "export" \notin UserOps \cup {"question"}
  BY DEF PageOps, ChatOps, UserOps
<1>6. BrowserCalls
  BY <1>1, <1>3, <1>4, <1>5, SendKeeps, Zenon
<1> QED
  BY <1>1, <1>2, <1>6, FormKeeps

LEMMA RemoveTokenKeeps ==
    ASSUME AccountsInv, Quiet, NEW t \in Tabs, RemoveToken(t) PROVE SessionOK'
<1>1. UNCHANGED minted /\ Len(minted) \in Nat
  BY BrowserHas DEF Quiet, sessions
<1>2. bid' \in [Tabs -> Nat]
  BY DEF RemoveToken, AccountsInv, BrowserInv, SessionOK
<1> QED
  BY <1>1, <1>2 DEF RemoveToken, SessionOK, BidIsOwn

LEMMA logoutStep ==
    ASSUME AccountsInv, NEW t \in Tabs, logout(t), UNCHANGED contact PROVE BrowserStep
<1>1. Quiet /\ UNCHANGED <<tmp, phone, confirmed, late, contact>> /\ UNCHANGED <<bot, author, action>>
  BY DEF logout, contact
<1>2. TodoOK'
  BY BrowserHas, SpendOK DEF logout
<1>3. Send(t, "ip", No, 0, 0) /\ RemoveToken(t) /\ navigate(t, "search", 0) /\ shown' = [shown EXCEPT ![t] = No]
  BY DEF logout
<1>4. No \in Users \cup {No} /\ 0 \in Nat
  OBVIOUS
<1>5. "ip" \in PageOps /\ "ip" \notin ChatOps /\ "ip" # "answer" /\ "ip" \notin UserOps \cup {"question"}
  BY DEF PageOps, ChatOps, UserOps
<1>6. BrowserCalls
  BY <1>1, <1>3, <1>4, <1>5, SendKeeps, Zenon
<1>7. SessionOK'
  BY <1>1, <1>3, RemoveTokenKeeps
<1>8. PersonOK'
  BY <1>1, <1>3 DEF AccountsInv, BrowserInv, PersonOK, ConfirmedOK, Quiet, tables, hist
<1>9. PagesOK' /\ ContactOK'
  <2>1. 0 \in 0..Len(minted) /\ "search" # "chatbot"
    BY BrowserHas
  <2> QED
    BY <1>1, <1>3, <2>1, NavigateKeeps, Zenon
<1>10. LateOK'
  BY <1>1, Untouched
<1> QED
  BY <1>1, <1>2, <1>6, <1>7, <1>8, <1>9, <1>10 DEF BrowserStep, BrowserInv

LEMMA oauthLoginStep ==
    ASSUME AccountsInv, NEW t \in Tabs, oauthLogin(t), UNCHANGED contact PROVE BrowserStep
<1>1. Quiet /\ UNCHANGED <<tmp, shown, phone, confirmed, late, contact>> /\ UNCHANGED <<bot, author, action>>
  BY DEF oauthLogin, contact
<1>2. TodoOK'
  BY BrowserHas, SpendOK DEF oauthLogin
<1>3. PersonOK' /\ LateOK'
  BY <1>1, Untouched
<1>4. CASE (\E u \in todo.who : Send(t, "register", u, OauthPassword, 1)) /\ UNCHANGED <<session, page>>
  <2>1. PICK u \in Users : Send(t, "register", u, 5, 1)
    BY <1>4, BrowserHas DEF TodoOK, OauthPassword
  <2>2. u \in Users \cup {No} /\ 5 \in Nat /\ 1 \in Nat
    OBVIOUS
  <2>3. "register" \in PageOps /\ "register" \notin ChatOps /\ "register" # "answer"
    BY DEF PageOps, ChatOps
  <2>4. BrowserCalls
    BY <1>1, <2>1, <2>2, <2>3, SendKeeps, Zenon
  <2>5. SessionOK' /\ PagesOK' /\ ContactOK'
    BY <1>1, <1>4, Untouched
  <2> QED
    BY <1>1, <1>2, <1>3, <2>4, <2>5 DEF BrowserStep, BrowserInv
<1>5. CASE RemoveToken(t) /\ navigate(t, "login", 0) /\ UNCHANGED <<calls, sent>>
  <2>1. SessionOK'
    BY <1>1, <1>5, RemoveTokenKeeps
  <2>2. 0 \in 0..Len(minted) /\ "login" # "chatbot"
    BY BrowserHas
  <2>3. PagesOK' /\ ContactOK'
    BY <1>1, <1>5, <2>2, NavigateKeeps, Zenon
  <2>4. BrowserCalls
    BY <1>1, <1>5, BrowserHas, NothingShape
  <2> QED
    BY <1>1, <1>2, <1>3, <2>1, <2>3, <2>4 DEF BrowserStep, BrowserInv
<1> QED
  BY <1>4, <1>5 DEF oauthLogin

LEMMA emailTypedStep ==
    ASSUME AccountsInv, NEW t \in Tabs, emailTyped(t), UNCHANGED contact PROVE BrowserStep
<1>1. Quiet /\ UNCHANGED <<calls, sent, session, tmp, shown, phone, confirmed, late, contact>> /\ UNCHANGED <<bot, author, action>>
  BY DEF emailTyped, contact
<1>2. TodoOK'
  BY BrowserHas, SpendOK DEF emailTyped
<1>3. PICK u \in Users : page' = [page EXCEPT ![t].email = u, ![t].timer = TRUE]
  BY BrowserHas DEF emailTyped, TodoOK
<1> DEFINE q == [page[t] EXCEPT !.email = u, !.timer = TRUE]
<1>4. PageOK(q) /\ q.at = page[t].at /\ q.n = page[t].n
  BY BrowserHas DEF PageOK, PageFields
<1>5. page' = [page EXCEPT ![t] = q]
  BY <1>3
<1> HIDE DEF q
<1>6. PagesOK' /\ ContactOK'
  BY <1>1, <1>4, <1>5, PageChange
<1>7. SessionOK' /\ PersonOK' /\ LateOK'
  BY <1>1, Untouched
<1>8. BrowserCalls
  BY <1>1, BrowserHas, NothingShape
<1> QED
  BY <1>1, <1>2, <1>6, <1>7, <1>8 DEF BrowserStep, BrowserInv

LEMMA findSecurityQuestionStep ==
    ASSUME AccountsInv, NEW t \in Tabs, findSecurityQuestion(t), UNCHANGED contact PROVE BrowserStep
<1>1. Quiet /\ UNCHANGED <<todo, session, tmp, shown, phone, confirmed, contact>> /\ UNCHANGED <<bot, author, action>>
  BY DEF findSecurityQuestion, contact
<1>2. TodoOK' /\ SessionOK' /\ PersonOK'
  BY <1>1, Untouched
<1> DEFINE b == page[t].enabled /\ page[t].email # No
           q == [page[t] EXCEPT !.timer = FALSE, !.question = No, !.enabled = b]
<1>3. page' = [page EXCEPT ![t] = q]
  BY DEF findSecurityQuestion
<1> HIDE DEF b
<1>4. PageOK(q) /\ q.at = page[t].at /\ q.n = page[t].n
  BY BrowserHas DEF PageOK, PageFields
<1> HIDE DEF q
<1>5. PagesOK' /\ ContactOK'
  BY <1>1, <1>3, <1>4, PageChange
<1>6. LateOK'
  <2> DEFINE l == late[t] \/ \E c \in calls : c.t = t /\ c.op = "question"
  <2>1. late' = [late EXCEPT ![t] = l] /\ l \in BOOLEAN
    BY DEF findSecurityQuestion
  <2> HIDE DEF l
  <2> QED
    BY <2>1 DEF LateOK, AccountsInv, BrowserInv
<1>7. BrowserCalls
  <2>1. CASE page[t].email # No
    <3>1. page[t].email \in Users /\ page[t].email \in Users \cup {No} /\ 0 \in Nat
      BY <2>1, BrowserHas DEF PageOK
    <3>2. "question" \in PageOps /\ "question" \notin ChatOps /\ "question" # "answer"
      BY DEF PageOps, ChatOps
    <3>3. Send(t, "question", page[t].email, 0, 0)
      BY <2>1 DEF findSecurityQuestion
    <3> QED
      BY <1>1, <3>1, <3>2, <3>3, SendKeeps, Zenon
  <2>2. CASE page[t].email = No
    BY <1>1, <2>2, BrowserHas, NothingShape DEF findSecurityQuestion
  <2> QED
    BY <2>1, <2>2
<1> QED
  BY <1>1, <1>2, <1>5, <1>6, <1>7 DEF BrowserStep, BrowserInv

(* The form of the second factor.                                          *)
LEMMA OutdatedKeeps == ASSUME AccountsInv, NEW t \in Tabs, Outdated(t) PROVE LateOK'
  BY DEF Outdated, LateOK, AccountsInv, BrowserInv

LEMMA submitFactorStep ==
    ASSUME AccountsInv, NEW t \in Tabs, submitSetup(t) \/ submitDisable(t), UNCHANGED contact PROVE BrowserStep
<1>1. Quiet /\ UNCHANGED <<session, tmp, shown, page, confirmed, contact>> /\ UNCHANGED <<bot, author, action>>
  BY DEF submitSetup, submitDisable, contact
<1>2. TodoOK'
  BY BrowserHas, SpendOK DEF submitSetup, submitDisable
<1>3. SessionOK' /\ PagesOK' /\ ContactOK'
  BY <1>1, Untouched
<1>4. LateOK'
  BY OutdatedKeeps DEF submitSetup, submitDisable
<1>5. phone' \subseteq Nat
  <2>1. page[t].secret \in Nat
    BY BrowserHas DEF PageOK
  <2>2. phone' = phone \cup ({page[t].secret} \ {0}) \/ phone' = phone
    BY DEF submitSetup, submitDisable
  <2> QED
    BY <2>1, <2>2 DEF AccountsInv, BrowserInv, PersonOK
<1>6. PersonOK'
  BY <1>1, <1>5 DEF AccountsInv, BrowserInv, PersonOK, ConfirmedOK, Quiet, tables, hist
<1>7. Who(local) \in Users
  BY BrowserHas, WhoIsUser DEF submitSetup, submitDisable
<1>8. PICK op \in FactorOps, pw \in Nat, v \in Nat : Send(t, op, No, pw, v)
  BY <1>7, BrowserHas, TypedIsNat DEF submitSetup, submitDisable, FactorOps, PageOK
<1>9. op \in PageOps /\ op \notin ChatOps /\ op # "answer" /\ op \notin UserOps \cup {"question"} /\ No \in Users \cup {No}
  BY DEF FactorOps, PageOps, ChatOps, UserOps
<1>10. BrowserCalls
  BY <1>1, <1>8, <1>9, SendKeeps, Zenon
<1> QED
  BY <1>1, <1>2, <1>3, <1>4, <1>6, <1>10 DEF BrowserStep, BrowserInv

(* Pages that are opened.                                                  *)
LEMMA PostOneShape ==
    ASSUME AccountsInv, NEW t \in Tabs, NEW pg \in Nat, NEW op \in PageOps, NEW auth \in 0..Len(minted),
           NEW ck \in 0..Len(minted), NEW v \in Nat, UNCHANGED action,
           Post({Request(sent + 1, t, pg, op, auth, ck, No, 0, v)}), op \notin ChatOps, op \notin UserOps \cup {"question"}
    PROVE  BrowserCalls
<1>1. /\ calls' = calls \cup {Request(sent + 1, t, pg, op, auth, ck, No, 0, v)}
      /\ sent' = sent + Cardinality({Request(sent + 1, t, pg, op, auth, ck, No, 0, v)})
  BY DEF Post
<1>2. /\ calls \subseteq calls /\ (\A c \in calls : c.at # "ans" => c \in calls)
      /\ \A x \in Tabs : DOMAIN action[x] \subseteq DOMAIN action'[x]
      /\ No \in Users \cup {No} /\ 0 \in Nat /\ op # "answer"
  BY DEF UserOps
<1> QED
  BY <1>1, <1>2, BrowserHas, SendShape, Zenon

LEMMA OneFresh ==
    ASSUME AccountsInv, sent' = sent + 1, NEW t \in Tabs, NEW pg \in Nat, NEW op \in PageOps, NEW auth \in 0..Len(minted),
           NEW ck \in 0..Len(minted), NEW v \in Nat, op \notin ChatOps, op \notin UserOps \cup {"question"}
    PROVE  AllFresh({Request(sent + 1, t, pg, op, auth, ck, No, 0, v)})
<1>0. sent \in Nat
  BY DEF AccountsInv, SInv, CallsOK
<1>1. PICK n \in Nat : n = sent + 1
  BY <1>0
<1>2. n > sent /\ n <= sent' /\ sent' \in Nat /\ sent <= sent'
  BY <1>0, <1>1
<1>3. No \in Users \cup {No} /\ 0 \in Nat /\ op # "answer"
  BY DEF UserOps
<1>4. Fresh(Request(n, t, pg, op, auth, ck, No, 0, v))
  BY <1>0, <1>2, <1>3, BrowserHas, RequestFresh, Zenon
<1> DEFINE d == Request(n, t, pg, op, auth, ck, No, 0, v)
<1> HIDE DEF d
<1>5. AllFresh({d})
  BY <1>2, <1>4 DEF d, AllFresh
<1> QED
  BY <1>1, <1>5 DEF d

LEMMA openStep ==
    ASSUME AccountsInv, NEW t \in Tabs, open(t), UNCHANGED contact PROVE BrowserStep
<1>1. Quiet /\ UNCHANGED <<session, tmp, shown, phone, confirmed, contact>> /\ UNCHANGED <<bot, author, action>>
  BY DEF open, contact
<1>2. TodoOK'
  BY BrowserHas, SpendOK DEF open
<1>3. SessionOK' /\ PersonOK'
  BY <1>1, Untouched
<1>4. PICK p \in AccountForms :
        /\ page' = [page EXCEPT ![t] = [NewPage(p, @.n + 1, local) EXCEPT !.present = p = "export" /\ lstdtxprt]]
        /\ \/ /\ p = "2fa" /\ Post({Opened(t, "status")})
              /\ late' = [late EXCEPT ![t] = @ \/ \E c \in calls : c.op \in {"setup", "disable"}]
           \/ /\ p = "export" /\ lstdtxprt
              /\ calls' = Unsure(calls) \cup {Opened(t, "captcha")} /\ sent' = sent + 1
              /\ late' = OtherCaptcha(t, page[t].n)
           \/ (p = "export" => ~lstdtxprt) /\ p # "2fa" /\ UNCHANGED <<calls, sent, late>>
  BY DEF open
<1>5. PagesOK' /\ ContactOK'
  <2> DEFINE b == p = "export" /\ lstdtxprt
  <2>1. PICK n \in Nat : n = page[t].n + 1
    BY BrowserHas
  <2>2. PICK r : r = NewPage(p, n, local)
    OBVIOUS
  <2>3. PageOK(r) /\ r.at = p
    BY <2>2, BrowserHas, NewPageOK
  <2> DEFINE q == [r EXCEPT !.present = b]
  <2>4. page' = [page EXCEPT ![t] = q]
    BY <1>4, <2>1, <2>2
  <2> HIDE DEF b
  <2>5. PageOK(q) /\ q.at = p
    BY <2>3 DEF PageOK, PageFields
  <2>6. p # "chatbot"
    BY DEF AccountForms
  <2> HIDE DEF q
  <2> QED
    BY <1>1, <2>4, <2>5, <2>6, PageChange
<1>6. LateOK'
  <2>1. CASE late' = [late EXCEPT ![t] = @ \/ \E c \in calls : c.op \in {"setup", "disable"}]
    <3> DEFINE l == late[t] \/ \E c \in calls : c.op \in {"setup", "disable"}
    <3>1. late' = [late EXCEPT ![t] = l] /\ l \in BOOLEAN
      BY <2>1
    <3> HIDE DEF l
    <3> QED
      BY <3>1 DEF LateOK, AccountsInv, BrowserInv
  <2>2. CASE late' = OtherCaptcha(t, page[t].n)
    BY <2>2 DEF LateOK, OtherCaptcha
  <2> QED
    BY <1>1, <1>4, <2>1, <2>2, Untouched
<1>7. BrowserCalls
  <2>0. page[t].n + 1 \in Nat /\ 0 \in Nat
    BY BrowserHas
  <2>1. CASE Post({Opened(t, "status")})
    <3>1. Post({Request(sent + 1, t, page[t].n + 1, "status", local, cookie, No, 0, 0)})
      BY <2>1 DEF Opened
    <3>2. "status" \in PageOps /\ "status" \notin ChatOps /\ "status" \notin UserOps \cup {"question"}
      BY DEF PageOps, ChatOps, UserOps
    <3> QED
      BY <1>1, <2>0, <3>1, <3>2, BrowserHas, PostOneShape, Zenon
  <2>2. CASE calls' = Unsure(calls) \cup {Opened(t, "captcha")} /\ sent' = sent + 1
    <3>1. Becomes(Unsure(calls), {Request(sent + 1, t, page[t].n + 1, "captcha", local, cookie, No, 0, 0)})
      BY <2>2 DEF Opened, Becomes
    <3>2. "captcha" \in PageOps /\ "captcha" \notin ChatOps /\ "captcha" \notin UserOps \cup {"question"}
      BY DEF PageOps, ChatOps, UserOps
    <3> DEFINE S == {Request(sent + 1, t, page[t].n + 1, "captcha", local, cookie, No, 0, 0)}
    <3>3. AllFresh(S)
      BY <2>0, <2>2, <3>2, BrowserHas, OneFresh, Zenon
    <3>4. Becomes(Unsure(calls), S)
      BY <3>1
    <3> HIDE DEF S
    <3>5. /\ calls \subseteq calls /\ (\A c \in calls : c.at # "ans" => c \in calls)
          /\ \A x \in Tabs : DOMAIN action[x] \subseteq DOMAIN action'[x]
      BY <1>1
    <3> QED
      BY <3>3, <3>4, <3>5, BrowserHas, UnsureShape, Zenon
  <2>3. CASE UNCHANGED <<calls, sent>>
    BY <1>1, <2>3, BrowserHas, NothingShape
  <2> QED
    BY <1>4, <2>1, <2>2, <2>3
<1> QED
  BY <1>1, <1>2, <1>3, <1>5, <1>6, <1>7 DEF BrowserStep, BrowserInv

LEMMA goToProfilePageStep ==
    ASSUME AccountsInv, NEW t \in Tabs, goToProfilePage(t), UNCHANGED contact PROVE BrowserStep
<1>0. page[t].n + 1 \in Nat /\ 0 \in 0..Len(minted) /\ 0 \in Nat /\ sent' = sent + 1
  <2>1. page[t].n \in Nat /\ Len(minted) \in Nat
    BY BrowserHas
  <2>2. sent' = sent + 1
    BY DEF goToProfilePage
  <2> QED
    BY <2>1, <2>2
<1>1. Quiet /\ UNCHANGED <<session, tmp, shown, phone, confirmed, late, contact>> /\ UNCHANGED <<bot, author, action>>
  BY DEF goToProfilePage, contact
<1>2. TodoOK'
  BY BrowserHas, SpendOK DEF goToProfilePage
<1>3. SessionOK' /\ PersonOK' /\ LateOK'
  BY <1>1, Untouched
<1>4. PICK p \in {"profile", "erasure"} :
        /\ navigate(t, p, local)
        /\ calls' = Abandoned(t) \cup {Load(t, page[t].n + 1, IF p = "profile" THEN p ELSE "erasure form", cookie, 0)}
  BY DEF goToProfilePage
<1>5. p # "chatbot"
  OBVIOUS
<1>6. PagesOK' /\ ContactOK'
  BY <1>1, <1>4, <1>5, BrowserHas, NavigateKeeps, Zenon
<1>7. PICK op \in {"profile", "erasure form"} : op = IF p = "profile" THEN p ELSE "erasure form"
  OBVIOUS
<1> DEFINE S == {Request(sent + 1, t, page[t].n + 1, op, 0, cookie, No, 0, 0)}
<1>9. Becomes(Abandoned(t), S)
  BY <1>4, <1>7 DEF Becomes, Load
<1>10. op \in PageOps /\ op \notin ChatOps /\ op \notin UserOps \cup {"question"}
  BY DEF PageOps, ChatOps, UserOps
<1>12. AllFresh(S)
  BY <1>10, <1>0, BrowserHas, OneFresh, Zenon
<1> HIDE DEF S
<1>13. \A x \in Tabs : DOMAIN action[x] \subseteq DOMAIN action'[x]
  BY <1>1
<1>14. BrowserCalls
  BY <1>9, <1>12, <1>13, BrowserHas, LoadShape, Zenon
<1> QED
  BY <1>1, <1>2, <1>3, <1>6, <1>14 DEF BrowserStep, BrowserInv

LEMMA submitStep ==
    ASSUME AccountsInv, NEW t \in Tabs, submit(t), UNCHANGED contact PROVE BrowserStep
<1>1. Quiet /\ UNCHANGED <<session, tmp, shown, phone, confirmed, late, contact>> /\ UNCHANGED <<bot, author, action>>
  BY DEF submit, contact
<1>2. TodoOK'
  BY BrowserHas, SpendOK DEF submit
<1>3. SessionOK' /\ PersonOK' /\ LateOK'
  BY <1>1, Untouched
<1> DEFINE q == [page[t] EXCEPT !.enabled = FALSE]
<1>4. PageOK(q) /\ q.at = page[t].at /\ q.n = page[t].n
  BY BrowserHas DEF PageOK, PageFields
<1>5. page' = [page EXCEPT ![t] = q]
  BY DEF submit
<1> HIDE DEF q
<1>6. PagesOK' /\ ContactOK'
  BY <1>1, <1>4, <1>5, PageChange
<1>7. PICK op \in {"username", "erasure"} : op = IF page[t].at = "profile" THEN "username" ELSE "erasure"
  OBVIOUS
<1>9. Post({Request(sent + 1, t, page[t].n, op, 0, cookie, No, 0, 1)})
  BY <1>7 DEF submit, Load
<1>10. op \in PageOps /\ op \notin ChatOps /\ op \notin UserOps \cup {"question"}
  BY DEF PageOps, ChatOps, UserOps
<1>11. 0 \in 0..Len(minted) /\ 1 \in Nat
  BY BrowserHas
<1>12. BrowserCalls
  BY <1>1, <1>9, <1>10, <1>11, BrowserHas, PostOneShape, Zenon
<1> QED
  BY <1>1, <1>2, <1>3, <1>6, <1>12 DEF BrowserStep, BrowserInv

LEMMA ngOnInitStep ==
    ASSUME AccountsInv, NEW t \in Tabs, ngOnInit(t), UNCHANGED contact PROVE BrowserStep
<1>1. Quiet /\ UNCHANGED <<session, tmp, phone, confirmed, late, contact>> /\ UNCHANGED <<bot, author, action>>
  BY DEF ngOnInit, contact
<1>2. TodoOK'
  BY BrowserHas, SpendOK DEF ngOnInit
<1>3. SessionOK' /\ LateOK'
  BY <1>1, Untouched
<1>4. PersonOK'
  BY <1>1 DEF ngOnInit, AccountsInv, BrowserInv, PersonOK, ConfirmedOK, Quiet, tables, hist
<1>5. navigate(t, "search", local) /\ "search" # "chatbot"
  BY DEF ngOnInit
<1>6. PagesOK' /\ ContactOK'
  BY <1>1, <1>5, BrowserHas, NavigateKeeps, Zenon
<1>7. \A x \in Tabs : DOMAIN action[x] \subseteq DOMAIN action'[x]
  BY <1>1
<1>8. BrowserCalls
  <2>1. CASE local = 0
    <3>1. Becomes(Abandoned(t), {})
      BY <2>1 DEF ngOnInit, Becomes
    <3>2. AllFresh({})
      BY <2>1 DEF ngOnInit, AccountsInv, SInv, CallsOK, AllFresh
    <3> QED
      BY <1>7, <3>1, <3>2, BrowserHas, LoadShape, Zenon
  <2>2. CASE local # 0
    <3> DEFINE S == {Request(sent + 1, t, page[t].n + 1, "whoami", local, cookie, No, 0, 0)}
    <3>1. Becomes(Abandoned(t), S)
      BY <2>2 DEF ngOnInit, Becomes, Opened
    <3>2. page[t].n + 1 \in Nat /\ 0 \in Nat /\ sent' = sent + 1
      BY <2>2, BrowserHas DEF ngOnInit
    <3>3. "whoami" \in PageOps /\ "whoami" \notin ChatOps /\ "whoami" \notin UserOps \cup {"question"}
      BY DEF PageOps, ChatOps, UserOps
    <3>4. AllFresh(S)
      BY <3>2, <3>3, BrowserHas, OneFresh, Zenon
    <3> HIDE DEF S
    <3> QED
      BY <1>7, <3>1, <3>4, BrowserHas, LoadShape, Zenon
  <2> QED
    BY <2>1, <2>2
<1> QED
  BY <1>1, <1>2, <1>3, <1>4, <1>6, <1>8 DEF BrowserStep, BrowserInv

-----------------------------------------------------------------------------
(* The answers.                                                            *)

LEMMA CallHas ==
    ASSUME AccountsInv, NEW c \in calls
    PROVE  /\ c \in Calls /\ CallOK(c) /\ c.pg \in Nat /\ c.v \in Nat /\ c.pw \in Nat /\ c.u \in Users \cup {No}
           /\ c.auth \in 0..Len(minted) /\ c.cookie \in 0..Len(minted) /\ c.tk \in 0..Len(minted)
           /\ c.t # No => c.t \in Tabs
  BY DEF AccountsInv, SInv, CallsOK, CallOK, CallTyped, Calls

(* Logging in.                                                             *)
LEMMA LogInStep ==
    ASSUME AccountsInv, NEW c \in calls, loginNext(c) \/ verifyNext(c), UNCHANGED contact PROVE BrowserStep
<1>1. Quiet /\ UNCHANGED <<todo, tmp, shown, phone, confirmed, late, contact>> /\ UNCHANGED <<bot, author, action>>
  BY DEF loginNext, verifyNext, contact
<1>2. TodoOK' /\ PersonOK' /\ LateOK'
  BY <1>1, Untouched
<1>3. LogIn(c) /\ c.op \in LoginOps /\ c.at = "ans" /\ c.res = "ok" /\ c.t # No
  BY DEF loginNext, verifyNext, AnswerOf, LoginOps
<1>4. c.t \in Tabs /\ c.tk # 0
  BY <1>3, CallHas DEF CallOK, LoggingIn
<1>5. SessionOK'
  <2>1. UNCHANGED <<minted, baskets, restarted>>
    BY <1>1 DEF Quiet, tables, sessions, hist
  <2>2. local' = c.tk /\ cookie' = c.tk /\ bid' = [bid EXCEPT ![c.t] = c.v] /\ setBy' = c.t
    BY <1>3 DEF LogIn
  <2>3. bid \in [Tabs -> Nat]
    BY DEF AccountsInv, BrowserInv, SessionOK
  <2>4. bid' \in [Tabs -> Nat] /\ bid'[c.t] = c.v
    BY <1>4, <2>2, <2>3, CallHas
  <2>5. ~restarted => c.v \in DOMAIN baskets /\ baskets[c.v] = minted[c.tk].user
    BY <1>3, CallHas DEF CallOK, LoggingIn
  <2>6. BidIsOwn'
    BY <1>4, <2>1, <2>2, <2>4, <2>5 DEF BidIsOwn, Who
  <2> QED
    BY <1>4, <2>1, <2>2, <2>4, <2>6, CallHas DEF SessionOK
<1>6. PagesOK' /\ ContactOK'
  <2>1. navigate(c.t, "search", c.tk) /\ "search" # "chatbot"
    BY <1>3 DEF LogIn
  <2> QED
    BY <1>1, <1>4, <2>1, CallHas, NavigateKeeps, Zenon
<1>7. BrowserCalls
  <2>1. Then(c, {Request(sent + 1, c.t, page[c.t].n, "whoami", c.tk, c.tk, No, 0, 0)})
    BY <1>3 DEF LogIn, getUserDetails
  <2>2. "whoami" \in PageOps /\ "whoami" \notin ChatOps /\ "whoami" \notin UserOps \cup {"question"} /\ "whoami" # "answer"
    BY DEF PageOps, ChatOps, UserOps
  <2>3. page[c.t].n \in Nat /\ 0 \in Nat /\ No \in Users \cup {No}
    BY <1>4, BrowserHas
  <2> QED
    BY <1>1, <1>3, <1>4, <2>1, <2>2, <2>3, CallHas, ThenKeeps, Zenon
<1> QED
  BY <1>1, <1>2, <1>5, <1>6, <1>7 DEF BrowserStep, BrowserInv

LEMMA loginTotpStep ==
    ASSUME AccountsInv, NEW c \in calls, loginTotp(c), UNCHANGED contact PROVE BrowserStep
<1>1. Quiet /\ UNCHANGED <<todo, session, shown, phone, confirmed, late, contact>> /\ UNCHANGED <<bot, author, action>>
  BY DEF loginTotp, contact
<1>2. TodoOK' /\ SessionOK' /\ LateOK'
  BY <1>1, Untouched
<1>3. Done(c) /\ c.at = "ans" /\ c.t \in Tabs /\ tmp' = c.u /\ navigate(c.t, "enter", local) /\ "enter" # "chatbot"
  BY CallHas DEF loginTotp, AnswerOf
<1>4. PersonOK'
  BY <1>1, <1>3, CallHas DEF AccountsInv, BrowserInv, PersonOK, ConfirmedOK, Quiet, tables, hist
<1>5. PagesOK' /\ ContactOK'
  BY <1>1, <1>3, BrowserHas, NavigateKeeps, Zenon
<1>6. BrowserCalls
  BY <1>1, <1>3, BrowserHas, DoneShape
<1> QED
  BY <1>1, <1>2, <1>4, <1>5, <1>6 DEF BrowserStep, BrowserInv

LEMMA loginErrorStep ==
    ASSUME AccountsInv, NEW c \in calls, loginError(c), UNCHANGED contact PROVE BrowserStep
<1>1. Quiet /\ UNCHANGED <<todo, tmp, page, phone, confirmed, late, contact>> /\ UNCHANGED <<bot, author, action>>
  BY DEF loginError, contact
<1>2. TodoOK' /\ PagesOK' /\ LateOK' /\ ContactOK'
  BY <1>1, Untouched
<1>3. Done(c) /\ c.at = "ans" /\ c.t \in Tabs /\ RemoveToken(c.t) /\ shown' = [shown EXCEPT ![c.t] = No]
  BY CallHas DEF loginError, AnswerOf
<1>4. PersonOK'
  BY <1>1, <1>3 DEF AccountsInv, BrowserInv, PersonOK, ConfirmedOK, Quiet, tables, hist
<1>5. SessionOK'
  BY <1>1, <1>3, RemoveTokenKeeps
<1>6. BrowserCalls
  BY <1>1, <1>3, BrowserHas, DoneShape
<1> QED
  BY <1>1, <1>2, <1>4, <1>5, <1>6 DEF BrowserStep, BrowserInv

(* Answers that only the page hears of.                                    *)
LEMMA TakenSteps ==
    ASSUME AccountsInv, NEW c \in calls, UNCHANGED contact,
           verifyError(c) \/ ipSaved(c) \/ passwordChanged(c) \/ Ignored(c)
    PROVE  BrowserStep
<1>1. c.at = "ans" /\ Done(c) /\ Quiet /\ UNCHANGED <<todo, cvars, contact>>
  BY DEF verifyError, ipSaved, passwordChanged, Ignored, AnswerOf
<1> QED
  BY <1>1, AnswerTaken

LEMMA userDetailsStep ==
    ASSUME AccountsInv, NEW c \in calls, userDetails(c), UNCHANGED contact PROVE BrowserStep
<1>1. Quiet /\ UNCHANGED <<todo, local, bid, setBy, tmp, page, phone, confirmed, contact>> /\ UNCHANGED <<bot, author, action>>
  BY DEF userDetails, contact
<1>2. TodoOK' /\ PagesOK' /\ ContactOK'
  BY <1>1, Untouched
<1>3. Done(c) /\ c.at = "ans" /\ c.t \in Tabs
  BY CallHas DEF userDetails, AnswerOf
<1>4. PersonOK'
  <2>1. shown' = [shown EXCEPT ![c.t] = c.u] \/ shown' = shown
    BY DEF userDetails
  <2>2. shown \in [Tabs -> Users \cup {No}]
    BY DEF AccountsInv, BrowserInv, PersonOK
  <2>3. shown' \in [Tabs -> Users \cup {No}]
    BY <1>3, <2>1, <2>2, CallHas
  <2> QED
    BY <1>1, <2>3 DEF AccountsInv, BrowserInv, PersonOK, ConfirmedOK, Quiet, tables, hist
<1>5. SessionOK'
  <2>1. cookie' \in 0..Len(minted)
    BY BrowserHas, CallHas DEF userDetails
  <2> QED
    BY <1>1, <2>1 DEF AccountsInv, BrowserInv, SessionOK, BidIsOwn, Who, Quiet, sessions, tables, hist
<1>6. LateOK'
  BY DEF userDetails, LateOK
<1>7. BrowserCalls
  BY <1>1, <1>3, BrowserHas, DoneShape
<1> QED
  BY <1>1, <1>2, <1>4, <1>5, <1>6, <1>7 DEF BrowserStep, BrowserInv

(* The provider.                                                           *)
LEMMA oauthSavedStep ==
    ASSUME AccountsInv, NEW c \in calls, oauthSaved(c), UNCHANGED contact PROVE BrowserStep
<1>1. Quiet /\ UNCHANGED <<cvars, contact>> /\ UNCHANGED <<todo, action>>
  BY DEF oauthSaved, contact
<1>2. c.at = "ans" /\ c.t \in Tabs /\ c.u \in Users /\ Then(c, userServiceLogin(c.t, c.u, c.pw, 1))
  BY CallHas DEF oauthSaved, AnswerOf, CallOK, CallTyped, UserOps
<1>3. Then(c, {Request(sent + 1, c.t, page[c.t].n, "whoami", local, cookie, No, 0, 0),
               Request(sent + 2, c.t, page[c.t].n, "login", local, cookie, c.u, c.pw, 1)})
  BY <1>2 DEF userServiceLogin, getUserDetails, intercept
<1>4. /\ "whoami" \in PageOps /\ "login" \in PageOps /\ "whoami" \notin ChatOps /\ "login" \notin ChatOps
      /\ "whoami" \notin UserOps \cup {"question"} /\ "login" # "answer"
  BY DEF PageOps, ChatOps, UserOps
<1>5. 0 \in Nat /\ 1 \in Nat /\ No \in Users \cup {No} /\ page[c.t].n \in Nat
  BY <1>2, BrowserHas
<1>6. BrowserCalls
  BY <1>1, <1>2, <1>3, <1>4, <1>5, BrowserHas, CallHas, ThenTwoKeeps, Zenon
<1>7. TodoOK'
  BY <1>1, Untouched
<1> QED
  BY <1>1, <1>6, <1>7, FormKeeps

LEMMA invalidateSessionStep ==
    ASSUME AccountsInv, NEW c \in calls, invalidateSession(c), UNCHANGED contact PROVE BrowserStep
<1>1. Quiet /\ UNCHANGED <<todo, tmp, shown, phone, confirmed, late, contact>> /\ UNCHANGED <<bot, author, action>>
  BY DEF invalidateSession, contact
<1>2. TodoOK' /\ PersonOK' /\ LateOK'
  BY <1>1, Untouched
<1>3. Done(c) /\ c.at = "ans" /\ c.t \in Tabs /\ RemoveToken(c.t) /\ navigate(c.t, "login", 0) /\ "login" # "chatbot"
  BY CallHas DEF invalidateSession, AnswerOf
<1>4. PagesOK' /\ ContactOK'
  <2>1. 0 \in 0..Len(minted)
    BY BrowserHas
  <2> QED
    BY <1>1, <1>3, <2>1, NavigateKeeps, Zenon
<1>5. SessionOK'
  BY <1>1, <1>3, RemoveTokenKeeps
<1>6. BrowserCalls
  BY <1>1, <1>3, BrowserHas, DoneShape
<1> QED
  BY <1>1, <1>2, <1>4, <1>5, <1>6 DEF BrowserStep, BrowserInv

(* Registration.                                                           *)
LEMMA savedStep ==
    ASSUME AccountsInv, NEW c \in calls, saved(c), UNCHANGED contact PROVE BrowserStep
<1>1. Quiet /\ UNCHANGED <<cvars, contact>> /\ UNCHANGED <<todo, action>>
  BY DEF saved, contact
<1>2. c.at = "ans" /\ c.t \in Tabs /\ c.u \in Users /\ c.op = "register"
  BY CallHas DEF saved, AnswerOf, CallOK, CallTyped, UserOps
<1>3. TodoOK'
  BY <1>1, Untouched
<1>4. CASE c.res = "ok"
  <2>1. Then(c, {Request(sent + 1, c.t, page[c.t].n, "answer", local, cookie, c.u, 0, 0)})
    BY <1>4 DEF saved, intercept
  <2>2. "answer" \in PageOps /\ "answer" \notin ChatOps
    BY DEF PageOps, ChatOps
  <2>3. 0 \in Nat /\ page[c.t].n \in Nat
    BY <1>2, BrowserHas
  <2>4. ~restarted => users[c.u].there
    BY <1>2, <1>4, CallHas DEF CallOK, Registering
  <2>5. BrowserCalls
    BY <1>1, <1>2, <2>1, <2>2, <2>3, <2>4, BrowserHas, CallHas, ThenKeeps, Zenon
  <2> QED
    BY <1>1, <1>3, <2>5, FormKeeps
<1>5. CASE c.res # "ok"
  BY <1>1, <1>2, <1>5, AnswerTaken DEF saved
<1> QED
  BY <1>4, <1>5

LEMMA answerSavedStep ==
    ASSUME AccountsInv, NEW c \in calls, answerSaved(c), UNCHANGED contact PROVE BrowserStep
<1>1. Quiet /\ UNCHANGED <<todo, session, tmp, shown, phone, late, contact>> /\ UNCHANGED <<bot, author, action>>
  BY DEF answerSaved, contact
<1>2. c.at = "ans" /\ c.t \in Tabs /\ c.u \in Users /\ c.op = "answer" /\ Done(c)
  BY CallHas DEF answerSaved, AnswerOf, CallOK, CallTyped, UserOps
<1>3. TodoOK' /\ SessionOK' /\ LateOK'
  BY <1>1, Untouched
<1>4. BrowserCalls
  BY <1>1, <1>2, BrowserHas, DoneShape
<1>5. PagesOK' /\ ContactOK'
  <2>1. CASE c.res = "ok"
    <3>1. navigate(c.t, "login", local) /\ "login" # "chatbot"
      BY <2>1 DEF answerSaved
    <3> QED
      BY <1>1, <1>2, <3>1, BrowserHas, NavigateKeeps, Zenon
  <2>2. CASE c.res # "ok"
    BY <1>1, <2>2, Untouched DEF answerSaved
  <2> QED
    BY <2>1, <2>2
<1>6. PersonOK'
  <2>1. confirmed' = confirmed \/ (c.res = "ok" /\ confirmed' = confirmed \cup {c.u})
    BY DEF answerSaved
  <2>2. c.res = "ok" /\ ~restarted => users[c.u].there /\ c.u \in answers
    BY <1>2, CallHas DEF CallOK, Registering
  <2> QED
    BY <1>1, <1>2, <2>1, <2>2 DEF AccountsInv, BrowserInv, PersonOK, ConfirmedOK, Quiet, tables, hist
<1> QED
  BY <1>1, <1>3, <1>4, <1>5, <1>6 DEF BrowserStep, BrowserInv

(* Answers that change what the page shows.                                *)
LEMMA PageAnswer ==
    ASSUME AccountsInv, NEW c \in calls, c.at = "ans", c.t \in Tabs, Done(c), Quiet, LateOK',
           UNCHANGED <<todo, session, tmp, shown, phone, confirmed, contact>>,
           NEW q, PageOK(q), q.at = page[c.t].at, q.n = page[c.t].n, page' = page \/ page' = [page EXCEPT ![c.t] = q]
    PROVE  BrowserStep
<1>1. UNCHANGED <<bot, author, action>> /\ UNCHANGED session
  BY DEF contact
<1>2. TodoOK' /\ SessionOK' /\ PersonOK'
  BY <1>1, Untouched
<1>3. PagesOK' /\ ContactOK'
  BY <1>1, Untouched, PageChange
<1>4. BrowserCalls
  BY <1>1, BrowserHas, DoneShape
<1> QED
  BY <1>2, <1>3, <1>4 DEF BrowserStep, BrowserInv

LEMMA questionFoundStep ==
    ASSUME AccountsInv, NEW c \in calls, questionFound(c), UNCHANGED contact PROVE BrowserStep
<1>1. Quiet /\ UNCHANGED <<todo, session, tmp, shown, phone, confirmed, contact>> /\ UNCHANGED late
  BY DEF questionFound
<1>2. c.at = "ans" /\ c.t \in Tabs /\ Done(c)
  BY CallHas DEF questionFound, AnswerOf
<1>3. LateOK'
  BY <1>1, Untouched
<1>4. PageOK(page[c.t]) /\ c.u \in Users \cup {No}
  BY <1>2, BrowserHas, CallHas
<1> DEFINE q1 == [page[c.t] EXCEPT !.enabled = FALSE]
           q2 == [page[c.t] EXCEPT !.enabled = TRUE, !.question = c.u]
<1>5. page' = page \/ page' = [page EXCEPT ![c.t] = q1] \/ page' = [page EXCEPT ![c.t] = q2]
  BY DEF questionFound
<1>6. PageOK(q1) /\ q1.at = page[c.t].at /\ q1.n = page[c.t].n
  BY <1>4 DEF PageOK, PageFields
<1>7. PageOK(q2) /\ q2.at = page[c.t].at /\ q2.n = page[c.t].n
  BY <1>4 DEF PageOK, PageFields
<1> HIDE DEF q1, q2
<1>8. PICK q : (q = q1 \/ q = q2) /\ (page' = page \/ page' = [page EXCEPT ![c.t] = q])
  BY <1>5
<1>9. PageOK(q) /\ q.at = page[c.t].at /\ q.n = page[c.t].n
  BY <1>6, <1>7, <1>8
<1> QED
  BY <1>1, <1>2, <1>3, <1>8, <1>9, PageAnswer, Zenon

LEMMA resetFormStep ==
    ASSUME AccountsInv, NEW c \in calls, resetForm(c), UNCHANGED contact PROVE BrowserStep
<1>1. Quiet /\ UNCHANGED <<todo, session, tmp, shown, phone, confirmed, contact>> /\ UNCHANGED late
  BY DEF resetForm
<1>2. c.at = "ans" /\ c.t \in Tabs /\ Done(c)
  BY CallHas DEF resetForm, AnswerOf
<1>3. LateOK'
  BY <1>1, Untouched
<1> DEFINE q == [page[c.t] EXCEPT !.email = No, !.timer = TRUE]
<1>4. page' = page \/ page' = [page EXCEPT ![c.t] = q]
  BY DEF resetForm
<1>5. PageOK(q) /\ q.at = page[c.t].at /\ q.n = page[c.t].n
  BY <1>2, BrowserHas DEF PageOK, PageFields
<1> HIDE DEF q
<1> QED
  BY <1>1, <1>2, <1>3, <1>4, <1>5, PageAnswer, Zenon

LEMMA setupDoneStep ==
    ASSUME AccountsInv, NEW c \in calls, setupDone(c), UNCHANGED contact PROVE BrowserStep
<1>1. Quiet /\ UNCHANGED <<todo, session, tmp, shown, phone, confirmed, contact>> /\ UNCHANGED late
  BY DEF setupDone
<1>2. c.at = "ans" /\ c.t \in Tabs /\ Done(c)
  BY CallHas DEF setupDone, AnswerOf
<1>3. LateOK'
  BY <1>1, Untouched
<1> DEFINE q == [page[c.t] EXCEPT !.status = "on"]
<1>4. page' = page \/ page' = [page EXCEPT ![c.t] = q]
  BY DEF setupDone
<1>5. PageOK(q) /\ q.at = page[c.t].at /\ q.n = page[c.t].n
  BY <1>2, BrowserHas DEF PageOK, PageFields
<1> HIDE DEF q
<1> QED
  BY <1>1, <1>2, <1>3, <1>4, <1>5, PageAnswer, Zenon

LEMMA captchaShownStep ==
    ASSUME AccountsInv, NEW c \in calls, captchaShown(c) \/ newCaptchaShown(c), UNCHANGED contact PROVE BrowserStep
<1>1. Quiet /\ UNCHANGED <<todo, session, tmp, shown, phone, confirmed, contact>> /\ UNCHANGED late
  BY DEF captchaShown, newCaptchaShown
<1>2. c.at = "ans" /\ c.t \in Tabs /\ Done(c)
  BY CallHas DEF captchaShown, newCaptchaShown, AnswerOf
<1>3. LateOK'
  BY <1>1, Untouched
<1> DEFINE q == [page[c.t] EXCEPT !.captcha = c.v]
<1>4. page' = page \/ page' = [page EXCEPT ![c.t] = q]
  BY DEF captchaShown, newCaptchaShown
<1>5. PageOK(q) /\ q.at = page[c.t].at /\ q.n = page[c.t].n
  BY <1>2, BrowserHas, CallHas DEF PageOK, PageFields
<1> HIDE DEF q
<1> QED
  BY <1>1, <1>2, <1>3, <1>4, <1>5, PageAnswer, Zenon

LEMMA pageLoadedStep ==
    ASSUME AccountsInv, NEW c \in calls, pageLoaded(c), UNCHANGED contact PROVE BrowserStep
<1>1. Quiet /\ UNCHANGED <<todo, session, tmp, shown, phone, confirmed, contact>> /\ UNCHANGED late
  BY DEF pageLoaded
<1>2. c.at = "ans" /\ c.t \in Tabs /\ Done(c)
  BY CallHas DEF pageLoaded
<1>3. LateOK'
  BY <1>1, Untouched
<1> DEFINE b == c.res = "ok"
           q == [page[c.t] EXCEPT !.enabled = b]
<1>4. page' = [page EXCEPT ![c.t] = q]
  BY DEF pageLoaded
<1> HIDE DEF b
<1>5. PageOK(q) /\ q.at = page[c.t].at /\ q.n = page[c.t].n
  BY <1>2, BrowserHas DEF PageOK, PageFields
<1> HIDE DEF q
<1> QED
  BY <1>1, <1>2, <1>3, <1>4, <1>5, PageAnswer, Zenon

LEMMA statusKnownStep ==
    ASSUME AccountsInv, NEW c \in calls, statusKnown(c), UNCHANGED contact PROVE BrowserStep
<1>1. Quiet /\ UNCHANGED <<todo, session, tmp, shown, phone, confirmed, contact>>
  BY DEF statusKnown
<1>2. c.at = "ans" /\ c.t \in Tabs /\ Done(c)
  BY CallHas DEF statusKnown, AnswerOf
<1>3. LateOK'
  <2> DEFINE l == late[c.t] \/ Overtakes(c)
  <2>1. late' = [late EXCEPT ![c.t] = l] /\ l \in BOOLEAN
    BY DEF statusKnown
  <2> HIDE DEF l
  <2> QED
    BY <2>1 DEF LateOK, AccountsInv, BrowserInv
<1>4. PageOK(page[c.t]) /\ c.v \in Nat
  BY <1>2, BrowserHas, CallHas
<1> DEFINE q1 == [page[c.t] EXCEPT !.status = "off"]
           q2 == [page[c.t] EXCEPT !.status = c.res, !.secret = c.v]
           q3 == [page[c.t] EXCEPT !.status = c.res, !.secret = @]
<1>5. page' = page \/ page' = [page EXCEPT ![c.t] = q1] \/ page' = [page EXCEPT ![c.t] = q2] \/ page' = [page EXCEPT ![c.t] = q3]
  BY DEF statusKnown
<1>6. PageOK(q1) /\ q1.at = page[c.t].at /\ q1.n = page[c.t].n
  BY <1>4 DEF PageOK, PageFields
<1>7. PageOK(q2) /\ q2.at = page[c.t].at /\ q2.n = page[c.t].n
  BY <1>4 DEF PageOK, PageFields
<1>8. PageOK(q3) /\ q3.at = page[c.t].at /\ q3.n = page[c.t].n
  BY <1>4 DEF PageOK, PageFields
<1> HIDE DEF q1, q2, q3
<1>9. PICK q : (q = q1 \/ q = q2 \/ q = q3) /\ (page' = page \/ page' = [page EXCEPT ![c.t] = q])
  BY <1>5
<1>10. PageOK(q) /\ q.at = page[c.t].at /\ q.n = page[c.t].n
  BY <1>6, <1>7, <1>8, <1>9
<1> QED
  BY <1>1, <1>2, <1>3, <1>9, <1>10, PageAnswer, Zenon

LEMMA disableDoneStep ==
    ASSUME AccountsInv, NEW c \in calls, disableDone(c), UNCHANGED contact PROVE BrowserStep
<1>1. Quiet /\ UNCHANGED <<todo, cvars, contact>> /\ UNCHANGED action /\ UNCHANGED todo /\ UNCHANGED <<cvars, contact>>
  BY DEF disableDone, contact
<1>2. c.at = "ans" /\ c.t \in Tabs
  BY CallHas DEF disableDone, AnswerOf
<1>3. TodoOK'
  BY <1>1, Untouched
<1>4. CASE c.res = "ok"
  <2>1. Then(c, {Request(sent + 1, c.t, c.pg, "status", local, cookie, No, 0, 0),
                 Request(sent + 2, c.t, c.pg, "status", local, cookie, No, 1, 0)})
    <3>1. sent \in Nat
      BY BrowserHas DEF CallsOK
    <3>2. sent + 1 + 0 = sent + 1 /\ sent + 1 + 1 = sent + 2
      BY <3>1
    <3> QED
      BY <1>4, <3>2 DEF disableDone, updateStatus
  <2>2. "status" \in PageOps /\ "status" \notin ChatOps /\ "status" \notin UserOps \cup {"question"} /\ "status" # "answer"
    BY DEF PageOps, ChatOps, UserOps
  <2>3. 0 \in Nat /\ 1 \in Nat /\ No \in Users \cup {No}
    OBVIOUS
  <2>4. BrowserCalls
    BY <1>1, <1>2, <2>1, <2>2, <2>3, BrowserHas, CallHas, ThenTwoKeeps, Zenon
  <2> QED
    BY <1>1, <1>3, <2>4, FormKeeps
<1>5. CASE c.res # "ok"
  BY <1>1, <1>2, <1>5, AnswerTaken DEF disableDone
<1> QED
  BY <1>4, <1>5

LEMMA exportedStep ==
    ASSUME AccountsInv, NEW c \in calls, exported(c), UNCHANGED contact PROVE BrowserStep
<1>1. Quiet /\ UNCHANGED <<todo, session, tmp, shown, phone, confirmed, contact>> /\ UNCHANGED <<bot, author, action>> /\ UNCHANGED session
  BY DEF exported, contact
<1>2. c.at = "ans" /\ c.t \in Tabs
  BY CallHas DEF exported, AnswerOf
<1>3. TodoOK' /\ SessionOK' /\ PersonOK'
  BY <1>1, Untouched
<1>4. LateOK'
  BY Untouched, <1>1 DEF exported, OtherCaptcha, LateOK
<1>5. PagesOK' /\ ContactOK'
  <2> DEFINE q == [page[c.t] EXCEPT !.present = TRUE]
  <2>1. page' = page \/ page' = [page EXCEPT ![c.t] = q]
    BY DEF exported
  <2>2. PageOK(q) /\ q.at = page[c.t].at /\ q.n = page[c.t].n
    BY <1>2, BrowserHas DEF PageOK, PageFields
  <2> HIDE DEF q
  <2> QED
    BY <1>1, <1>2, <2>1, <2>2, Untouched, PageChange
<1>6. BrowserCalls
  <2>1. CASE c.res = "ok"
    <3> DEFINE S == {Request(sent + 1, c.t, c.pg, "captcha", local, cookie, No, 0, 0)}
               R == calls \ {c}
    <3>1. Becomes(Unsure(R), S) /\ sent' = sent + 1
      BY <2>1 DEF exported, getNewCaptcha, Becomes
    <3>2. "captcha" \in PageOps /\ "captcha" \notin ChatOps /\ "captcha" \notin UserOps \cup {"question"} /\ 0 \in Nat
      BY DEF PageOps, ChatOps, UserOps
    <3>3. AllFresh(S)
      BY <1>2, <3>1, <3>2, BrowserHas, CallHas, OneFresh, Zenon
    <3>4. /\ R \subseteq calls /\ (\A x \in calls : x.at # "ans" => x \in R)
          /\ \A x \in Tabs : DOMAIN action[x] \subseteq DOMAIN action'[x]
      BY <1>1, <1>2
    <3> HIDE DEF S, R
    <3> QED
      BY <3>1, <3>3, <3>4, BrowserHas, UnsureShape, Zenon
  <2>2. CASE c.res # "ok"
    BY <1>1, <1>2, <2>2, BrowserHas, DoneShape DEF exported
  <2> QED
    BY <2>1, <2>2
<1> QED
  BY <1>1, <1>3, <1>4, <1>5, <1>6 DEF BrowserStep, BrowserInv

LEMMA CookieKeeps ==
    ASSUME AccountsInv, Quiet, cookie' \in 0..Len(minted), UNCHANGED <<local, bid, setBy>> PROVE SessionOK'
  BY DEF AccountsInv, BrowserInv, SessionOK, BidIsOwn, Who, Quiet, sessions, tables, hist

LEMMA usernameSavedStep ==
    ASSUME AccountsInv, NEW c \in calls, usernameSaved(c), UNCHANGED contact PROVE BrowserStep
<1>1. Quiet /\ UNCHANGED <<todo, local, bid, setBy, tmp, shown, page, phone, confirmed, contact>> /\ UNCHANGED <<bot, author, action>>
  BY DEF usernameSaved, contact
<1>2. c.at = "ans" /\ c.t \in Tabs
  BY CallHas DEF usernameSaved, AnswerOf
<1>3. TodoOK' /\ PersonOK' /\ PagesOK' /\ ContactOK'
  BY <1>1, Untouched
<1>4. cookie' \in 0..Len(minted)
  BY BrowserHas, CallHas DEF usernameSaved
<1>5. SessionOK'
  BY <1>1, <1>4, CookieKeeps
<1>6. LateOK'
  BY DEF usernameSaved, OutdatesOthers, LateOK
<1>7. BrowserCalls
  <2>1. CASE c.res = "ok"
    <3>1. Then(c, {Request(sent + 1, c.t, page[c.t].n, "profile", 0, c.tk, No, 0, 0)})
      BY <2>1 DEF usernameSaved, Load
    <3>2. "profile" \in PageOps /\ "profile" \notin ChatOps /\ "profile" \notin UserOps \cup {"question"} /\ "profile" # "answer"
      BY DEF PageOps, ChatOps, UserOps
    <3>3. 0 \in Nat /\ 0 \in 0..Len(minted) /\ No \in Users \cup {No} /\ page[c.t].n \in Nat
      BY <1>2, BrowserHas
    <3> QED
      BY <1>1, <1>2, <3>1, <3>2, <3>3, CallHas, ThenKeeps, Zenon
  <2>2. CASE c.res # "ok"
    BY <1>1, <1>2, <2>2, BrowserHas, DoneShape DEF usernameSaved
  <2> QED
    BY <2>1, <2>2
<1> QED
  BY <1>1, <1>3, <1>5, <1>6, <1>7 DEF BrowserStep, BrowserInv

LEMMA erasedStep ==
    ASSUME AccountsInv, NEW c \in calls, erased(c), UNCHANGED contact PROVE BrowserStep
<1>1. Quiet /\ UNCHANGED <<todo, local, bid, setBy, tmp, shown, page, phone, confirmed, contact>> /\ UNCHANGED <<bot, author, action>>
  BY DEF erased, contact
<1>2. c.at = "ans" /\ c.t \in Tabs /\ Done(c)
  BY CallHas DEF erased, AnswerOf
<1>3. TodoOK' /\ PersonOK' /\ PagesOK' /\ ContactOK'
  BY <1>1, Untouched
<1>4. cookie' \in 0..Len(minted)
  BY BrowserHas, CallHas DEF erased
<1>5. SessionOK'
  BY <1>1, <1>4, CookieKeeps
<1>6. LateOK'
  BY DEF erased, OutdatesOthers, LateOK
<1>7. BrowserCalls
  BY <1>1, <1>2, BrowserHas, DoneShape
<1> QED
  BY <1>1, <1>3, <1>5, <1>6, <1>7 DEF BrowserStep, BrowserInv

LEMMA exportForgottenStep ==
    ASSUME AccountsInv, exportForgotten, UNCHANGED contact PROVE BrowserStep
<1>1. Quiet /\ UNCHANGED <<calls, sent, session, tmp, shown, page, phone, confirmed, late, contact>> /\ UNCHANGED <<bot, author, action>>
  BY DEF exportForgotten, contact
<1>2. TodoOK'
  BY BrowserHas, SpendOK DEF exportForgotten
<1>3. BrowserCalls
  BY <1>1, BrowserHas, NothingShape
<1>4. SessionOK' /\ PersonOK' /\ LateOK' /\ PagesOK' /\ ContactOK'
  BY <1>1, Untouched
<1> QED
  BY <1>1, <1>2, <1>3, <1>4 DEF BrowserStep, BrowserInv

-----------------------------------------------------------------------------
(* The chatbot and the feedback form.                                      *)

LEMMA HeardShape ==
    ASSUME AccountsInv, NEW c \in calls, c.at = "ans", Done(c), \A t \in Tabs : DOMAIN action[t] \subseteq DOMAIN action'[t]
    PROVE  BrowserCalls
<1> DEFINE R == calls \ {c}
<1>1. R \subseteq calls /\ (\A x \in calls : x.at # "ans" => x \in R) /\ Becomes(R, {})
  BY DEF Done, Becomes
<1>2. AllFresh({})
  BY BrowserHas DEF Done, CallsOK, AllFresh
<1> HIDE DEF R
<1> QED
  BY <1>1, <1>2, BrowserHas, PostShape

(* What the page does with the next message is set for pages only.         *)
LEMMA ActionKeeps ==
    ASSUME AccountsInv, NEW t \in Tabs, NEW n \in DOMAIN action[t], NEW a \in {"query", "setname"},
           UNCHANGED <<bot, author, page>>, action' = action \/ action' = [action EXCEPT ![t][n] = a]
    PROVE  ContactOK' /\ \A x \in Tabs : DOMAIN action[x] \subseteq DOMAIN action'[x]
<1>1. ContactOK
  BY DEF AccountsInv, BrowserInv
<1>2. CASE action' = [action EXCEPT ![t][n] = a]
  <2>1. /\ DOMAIN action' = Tabs /\ action'[t] = [action[t] EXCEPT ![n] = a]
        /\ \A x \in Tabs \ {t} : action'[x] = action[x]
    BY <1>1, <1>2 DEF ContactOK
  <2>2. DOMAIN action'[t] = DOMAIN action[t] /\ \A m \in DOMAIN action'[t] : action'[t][m] \in {"query", "setname"}
    BY <1>1, <2>1 DEF ContactOK
  <2>3. \A x \in Tabs : DOMAIN action'[x] = DOMAIN action[x] /\ \A m \in DOMAIN action'[x] : action'[x][m] \in {"query", "setname"}
    BY <1>1, <2>1, <2>2 DEF ContactOK
  <2> QED
    BY <1>1, <2>1, <2>3 DEF ContactOK
<1> QED
  BY <1>1, <1>2 DEF ContactOK

LEMMA ChatPage ==
    ASSUME AccountsInv, NEW c \in calls, c.op \in ChatOps, c.t # No PROVE c.t \in Tabs /\ c.pg \in DOMAIN action[c.t]
  BY CallHas DEF CallOK, CallTyped

LEMMA statusShownStep == ASSUME AccountsInv, NEW c \in calls, statusShown(c) PROVE BrowserStep
<1>1. Quiet /\ UNCHANGED <<todo, session, tmp, shown, phone, confirmed, late, page>> /\ UNCHANGED <<bot, author, page>> /\ UNCHANGED session
  BY DEF statusShown, cvars
<1>2. c.at = "ans" /\ Done(c) /\ c.op \in ChatOps /\ c.t # No
  BY DEF statusShown, AnswerOf, ChatOps
<1>3. TodoOK' /\ SessionOK' /\ PersonOK' /\ LateOK' /\ PagesOK'
  BY <1>1, Untouched
<1>4. ContactOK' /\ \A x \in Tabs : DOMAIN action[x] \subseteq DOMAIN action'[x]
  <2>1. "setname" \in {"query", "setname"} /\ (action' = action \/ action' = [action EXCEPT ![c.t][c.pg] = "setname"])
    BY DEF statusShown
  <2> QED
    BY <1>1, <1>2, <2>1, ChatPage, ActionKeeps, Zenon
<1>5. BrowserCalls
  BY <1>2, <1>4, HeardShape
<1> QED
  BY <1>1, <1>3, <1>4, <1>5 DEF BrowserStep, BrowserInv

LEMMA messageSentStep == ASSUME AccountsInv, NEW c \in calls, messageSent(c) PROVE BrowserStep
<1>1. Quiet /\ UNCHANGED <<cvars, contact>> /\ UNCHANGED <<todo, action>>
  BY DEF messageSent, contact
<1>2. c.at = "ans" /\ c.op \in ChatOps /\ c.t # No
  BY DEF messageSent, AnswerOf, ChatOps
<1>3. BrowserCalls
  <2>1. CASE c.res \in {"trained", "namequery"}
    <3>1. PICK op \in {"query", "setname"}, pw \in {0, 1} : Then(c, {Request(sent + 1, c.t, c.pg, op, local, cookie, No, pw, c.v)})
      <4>1. action[c.t][c.pg] \in {"query", "setname"}
        BY <1>2, ChatPage DEF AccountsInv, BrowserInv, ContactOK
      <4> QED
        BY <2>1, <4>1 DEF messageSent
    <3>2. op \in PageOps /\ op \notin UserOps \cup {"question"} /\ op # "answer"
      BY DEF PageOps, UserOps
    <3>3. No \in Users \cup {No} /\ pw \in Nat
      OBVIOUS
    <3> QED
      BY <1>1, <1>2, <3>1, <3>2, <3>3, CallHas, BrowserHas, ChatPage, ThenKeeps, Zenon
  <2>2. CASE c.res \notin {"trained", "namequery"}
    BY <1>1, <1>2, <2>2, BrowserHas, DoneShape DEF messageSent
  <2> QED
    BY <2>1, <2>2
<1> QED
  BY <1>1, <1>3, BrowserHas, Untouched, FormKeeps

LEMMA handleResponseStep == ASSUME AccountsInv, NEW c \in calls, handleResponse(c) PROVE BrowserStep
<1>1. Quiet /\ UNCHANGED <<todo, bid, tmp, shown, phone, confirmed, page>> /\ UNCHANGED <<bot, author, page>>
  BY DEF handleResponse
<1>2. c.at = "ans" /\ Done(c) /\ c.op \in ChatOps /\ c.t # No /\ TakeToken(c)
  BY DEF handleResponse, Replied, ChatOps
<1>3. TodoOK' /\ PersonOK' /\ PagesOK'
  BY <1>1, Untouched
<1>4. ContactOK' /\ \A x \in Tabs : DOMAIN action[x] \subseteq DOMAIN action'[x]
  <2>1. PICK a \in {"query", "setname"} : action' = action \/ action' = [action EXCEPT ![c.t][c.pg] = a]
    BY DEF handleResponse
  <2> QED
    BY <1>1, <1>2, <2>1, ChatPage, ActionKeeps, Zenon
<1>5. BrowserCalls
  BY <1>2, <1>4, HeardShape
<1>6. LateOK'
  BY <1>2 DEF TakeToken, LateOK
<1>7. SessionOK'
  <2>1. CASE c.tk = 0
    BY <1>1, <1>2, <2>1, Untouched DEF TakeToken, session
  <2>2. CASE c.tk # 0
    <3>1. local' = c.tk /\ cookie' = c.tk /\ c.tk \in 0..Len(minted) /\ UNCHANGED <<minted, baskets, restarted, bid>>
      BY <1>1, <1>2, <2>2, CallHas DEF TakeToken, Quiet, sessions, tables, hist
    <3>2. setBy' \in {setBy, No} /\ (setBy' # No => Who(c.tk) = Who(local))
      BY <1>2, <2>2 DEF TakeToken
    <3>3. Who(c.tk) \in Users
      BY <2>2, <3>1, BrowserHas, WhoIsUser
    <3>4. setBy' # No => local # 0
      BY <3>2, <3>3, AccountsAssumption DEF Who
    <3>5. BidIsOwn'
      <4>1. Who(local)' = Who(c.tk)
        BY <3>1 DEF Who
      <4> QED
        BY <3>1, <3>2, <3>4, <4>1 DEF BidIsOwn, AccountsInv, BrowserInv, SessionOK
    <3> QED
      BY <3>1, <3>2, <3>5 DEF SessionOK, AccountsInv, BrowserInv
  <2> QED
    BY <2>1, <2>2
<1> QED
  BY <1>1, <1>3, <1>4, <1>5, <1>6, <1>7 DEF BrowserStep, BrowserInv

LEMMA authorKnownStep == ASSUME AccountsInv, NEW c \in calls, authorKnown(c) PROVE BrowserStep
<1>1. Quiet /\ UNCHANGED <<todo, local, bid, setBy, tmp, shown, phone, confirmed, page>> /\ UNCHANGED <<bot, action>>
  BY DEF authorKnown
<1>2. c.at = "ans" /\ Done(c) /\ c.t \in Tabs
  BY CallHas DEF authorKnown, AnswerOf
<1>3. TodoOK' /\ PersonOK' /\ PagesOK'
  BY <1>1, Untouched
<1>4. cookie' \in 0..Len(minted)
  BY BrowserHas, CallHas DEF authorKnown
<1>5. SessionOK'
  BY <1>1, <1>4, CookieKeeps
<1>6. LateOK'
  BY DEF authorKnown, LateOK
<1>7. ContactOK'
  <2>1. ContactOK
    BY DEF AccountsInv, BrowserInv
  <2>2. PICK a \in Users \cup {No, Unknown} : author' = author \/ author' = [author EXCEPT ![c.t] = a]
    BY CallHas DEF authorKnown
  <2>3. DOMAIN author' = Tabs /\ \A t \in Tabs : author'[t] \in Users \cup {No, Unknown}
    BY <1>2, <2>1, <2>2 DEF ContactOK
  <2> QED
    BY <1>1, <2>1, <2>3 DEF ContactOK
<1>8. BrowserCalls
  BY <1>1, <1>2, HeardShape
<1> QED
  BY <1>1, <1>3, <1>5, <1>6, <1>7, <1>8 DEF BrowserStep, BrowserInv

LEMMA feedbackSavedStep == ASSUME AccountsInv, NEW c \in calls, feedbackSaved(c) PROVE BrowserStep
<1>1. Quiet /\ UNCHANGED <<cvars, contact>> /\ UNCHANGED <<todo, action>>
  BY DEF feedbackSaved, contact
<1>2. c.at = "ans" /\ c.t \in Tabs
  BY CallHas DEF feedbackSaved, AnswerOf
<1>3. BrowserCalls
  <2>1. CASE c.res = "ok"
    <3>1. Then(c, {Request(sent + 1, c.t, c.pg, "whoami", local, cookie, No, 1, 0),
                   Request(sent + 2, c.t, c.pg, "captchas", local, cookie, No, 0, 0)})
      BY <2>1 DEF feedbackSaved, FormCalls
    <3>2. /\ "whoami" \in PageOps /\ "captchas" \in PageOps /\ "whoami" \notin ChatOps /\ "captchas" \notin ChatOps
          /\ "whoami" \notin UserOps \cup {"question"} /\ "captchas" \notin UserOps \cup {"question"} /\ "captchas" # "answer"
      BY DEF PageOps, ChatOps, UserOps
    <3>3. 0 \in Nat /\ 1 \in Nat /\ No \in Users \cup {No}
      OBVIOUS
    <3> QED
      BY <1>1, <1>2, <3>1, <3>2, <3>3, BrowserHas, CallHas, ThenTwoKeeps, Zenon
  <2>2. CASE c.res # "ok"
    BY <1>1, <1>2, <2>2, BrowserHas, DoneShape DEF feedbackSaved
  <2> QED
    BY <2>1, <2>2
<1> QED
  BY <1>1, <1>3, BrowserHas, Untouched, FormKeeps

LEMMA ContactNavigate ==
    ASSUME AccountsInv, Quiet, NEW t \in Tabs, NEW p, NEW tk \in 0..Len(minted), navigate(t, p, tk)
    PROVE  /\ PagesOK' /\ page'[t].at = p /\ page'[t].n = page[t].n + 1
           /\ \A x \in Tabs \ {t} : page'[x] = page[x]
<1>0. PageOK(page[t]) /\ page[t].n \in Nat /\ DOMAIN page = Tabs /\ \A x \in Tabs : PageOK(page[x])
  BY DEF AccountsInv, BrowserInv, PagesOK, PageOK
<1> DEFINE q == NewPage(p, page[t].n + 1, tk)
<1>1. PICK n \in Nat : n = page[t].n + 1
  BY <1>0
<1>2. PageOK(q) /\ q.at = p /\ q.n = page[t].n + 1
  BY <1>1, NewPageOK
<1>3. page' = [page EXCEPT ![t] = q] /\ UNCHANGED minted
  BY DEF navigate, Quiet, sessions
<1> HIDE DEF q
<1>4. DOMAIN page' = Tabs /\ page'[t] = q /\ \A x \in Tabs \ {t} : page'[x] = page[x]
  BY <1>0, <1>3
<1> QED
  BY <1>0, <1>2, <1>3, <1>4 DEF PagesOK, PageOK

LEMMA openChatbotStep == ASSUME AccountsInv, NEW t \in Tabs, openChatbot(t) PROVE BrowserStep
<1>1. Quiet /\ UNCHANGED <<session, tmp, shown, phone, confirmed, late>> /\ UNCHANGED <<bot, author>> /\ UNCHANGED session
  BY DEF openChatbot
<1>2. TodoOK'
  BY BrowserHas, SpendOK DEF openChatbot
<1>3. SessionOK' /\ PersonOK' /\ LateOK'
  BY <1>1, Untouched
<1>4. /\ PagesOK' /\ page'[t].at = "chatbot" /\ page'[t].n = page[t].n + 1
      /\ \A x \in Tabs \ {t} : page'[x] = page[x]
  <2>1. navigate(t, "chatbot", local)
    BY DEF openChatbot
  <2> QED
    BY <1>1, <2>1, BrowserHas, ContactNavigate
<1>5. PICK n \in Nat : n = page[t].n + 1
  BY BrowserHas
<1>6. action' = [action EXCEPT ![t] = NewAction(@, n)]
  BY <1>5 DEF openChatbot
<1>7. ContactOK
  BY DEF AccountsInv, BrowserInv
<1>8. /\ DOMAIN action' = Tabs /\ action'[t] = NewAction(action[t], n)
      /\ \A x \in Tabs \ {t} : action'[x] = action[x]
  BY <1>6, <1>7 DEF ContactOK
<1>9. /\ DOMAIN action'[t] = DOMAIN action[t] \cup {n}
      /\ \A m \in DOMAIN action'[t] : action'[t][m] \in {"query", "setname"}
  BY <1>7, <1>8 DEF NewAction, ContactOK
<1>10. ContactOK'
  <2>1. \A x \in Tabs : \A m \in DOMAIN action'[x] : action'[x][m] \in {"query", "setname"}
    BY <1>7, <1>8, <1>9 DEF ContactOK
  <2>2. \A x \in Tabs : page'[x].at = "chatbot" => page'[x].n \in DOMAIN action'[x]
    BY <1>4, <1>5, <1>7, <1>8, <1>9 DEF ContactOK
  <2> QED
    BY <1>1, <1>7, <1>8, <2>1, <2>2 DEF ContactOK
<1>11. BrowserCalls
  <2>1. /\ calls' = calls \cup {Request(sent + 1, t, n, "chatstatus", local, cookie, No, 0, 0),
                               Request(sent + 2, t, n, "whoami", local, cookie, No, 2, 0)}
        /\ sent' = sent + Cardinality({Request(sent + 1, t, n, "chatstatus", local, cookie, No, 0, 0),
                                       Request(sent + 2, t, n, "whoami", local, cookie, No, 2, 0)})
    BY <1>5 DEF openChatbot, Post, MoreCalls
  <2>2. /\ "whoami" \in PageOps /\ "chatstatus" \in PageOps /\ "whoami" \notin ChatOps /\ "whoami" \notin UserOps \cup {"question"}
        /\ "chatstatus" \notin UserOps \cup {"question"} /\ "whoami" # "answer" /\ 0 \in Nat /\ 2 \in Nat
    BY DEF PageOps, ChatOps, UserOps
  <2>3. /\ \A x \in Tabs : DOMAIN action[x] \subseteq DOMAIN action'[x]
        /\ calls \subseteq calls /\ (\A c \in calls : c.at # "ans" => c \in calls)
        /\ No \in Users \cup {No} /\ n \in DOMAIN action'[t]
    BY <1>8, <1>9
  <2> QED
    BY <2>1, <2>2, <2>3, BrowserHas, SendTwoShape, Zenon
<1> QED
  BY <1>1, <1>2, <1>3, <1>4, <1>10, <1>11 DEF BrowserStep, BrowserInv

LEMMA sendMessageStep == ASSUME AccountsInv, NEW t \in Tabs, sendMessage(t) PROVE BrowserStep
<1>1. Quiet /\ UNCHANGED <<session, tmp, shown, phone, confirmed, late, page>> /\ UNCHANGED <<page, bot, author, action>> /\ UNCHANGED session
  BY DEF sendMessage, cvars
<1>2. TodoOK'
  BY BrowserHas, SpendOK DEF sendMessage
<1>3. PICK v \in {1, 2} : Send(t, "chatstatus", No, 1, v)
  BY DEF sendMessage
<1>4. No \in Users \cup {No} /\ 1 \in Nat /\ v \in Nat
  OBVIOUS
<1>5. "chatstatus" \in PageOps /\ "chatstatus" # "answer" /\ "chatstatus" \notin UserOps \cup {"question"}
  BY DEF PageOps, UserOps
<1>6. page[t].n \in DOMAIN action[t]
  BY DEF sendMessage, AccountsInv, BrowserInv, ContactOK
<1>7. BrowserCalls
  BY <1>1, <1>3, <1>4, <1>5, <1>6, SendKeeps, Zenon
<1>8. SessionOK' /\ PersonOK' /\ LateOK' /\ PagesOK' /\ ContactOK'
  BY <1>1, Untouched
<1> QED
  BY <1>1, <1>2, <1>7, <1>8 DEF BrowserStep, BrowserInv

LEMMA openContactStep == ASSUME AccountsInv, NEW t \in Tabs, openContact(t) PROVE BrowserStep
<1>1. Quiet /\ UNCHANGED <<session, tmp, shown, phone, confirmed, late>> /\ UNCHANGED <<bot, action>> /\ UNCHANGED session
  BY DEF openContact
<1>2. TodoOK'
  BY BrowserHas, SpendOK DEF openContact
<1>3. SessionOK' /\ PersonOK' /\ LateOK'
  BY <1>1, Untouched
<1>4. /\ PagesOK' /\ page'[t].at = "contact" /\ page'[t].n = page[t].n + 1
      /\ \A x \in Tabs \ {t} : page'[x] = page[x]
  <2>1. navigate(t, "contact", local)
    BY DEF openContact
  <2> QED
    BY <1>1, <2>1, BrowserHas, ContactNavigate
<1>5. PICK n \in Nat : n = page[t].n + 1
  BY BrowserHas
<1>6. ContactOK'
  <2>1. ContactOK
    BY DEF AccountsInv, BrowserInv
  <2>2. author' = [author EXCEPT ![t] = Unknown]
    BY DEF openContact
  <2>3. DOMAIN author' = Tabs /\ \A x \in Tabs : author'[x] \in Users \cup {No, Unknown}
    BY <2>1, <2>2 DEF ContactOK
  <2> QED
    BY <1>1, <1>4, <2>1, <2>3 DEF ContactOK
<1>7. BrowserCalls
  <2>1. /\ calls' = calls \cup {Request(sent + 1, t, n, "whoami", local, cookie, No, 1, 0),
                               Request(sent + 2, t, n, "captchas", local, cookie, No, 0, 0)}
        /\ sent' = sent + Cardinality({Request(sent + 1, t, n, "whoami", local, cookie, No, 1, 0),
                                       Request(sent + 2, t, n, "captchas", local, cookie, No, 0, 0)})
    BY <1>5 DEF openContact, Post, FormCalls
  <2>2. /\ "whoami" \in PageOps /\ "captchas" \in PageOps /\ "whoami" \notin ChatOps /\ "captchas" \notin ChatOps
        /\ "whoami" \notin UserOps \cup {"question"} /\ "captchas" \notin UserOps \cup {"question"} /\ "captchas" # "answer"
        /\ 0 \in Nat /\ 1 \in Nat
    BY DEF PageOps, ChatOps, UserOps
  <2>3. /\ \A x \in Tabs : DOMAIN action[x] \subseteq DOMAIN action'[x]
        /\ calls \subseteq calls /\ (\A c \in calls : c.at # "ans" => c \in calls)
        /\ No \in Users \cup {No}
    BY <1>1
  <2> QED
    BY <2>1, <2>2, <2>3, BrowserHas, SendTwoShape, Zenon
<1> QED
  BY <1>1, <1>2, <1>3, <1>4, <1>6, <1>7 DEF BrowserStep, BrowserInv

LEMMA submitFeedbackStep == ASSUME AccountsInv, NEW t \in Tabs, submitFeedback(t) PROVE BrowserStep
<1>1. Quiet /\ UNCHANGED <<cvars, contact>> /\ UNCHANGED action
  BY DEF submitFeedback, contact
<1>2. TodoOK'
  BY BrowserHas, SpendOK DEF submitFeedback
<1>3. CASE author[t] = Unknown
  BY <1>1, <1>2, <1>3, BrowserHas, NothingShape, FormKeeps DEF submitFeedback
<1>4. CASE author[t] # Unknown
  <2>1. author[t] \in Users \cup {No} /\ page[t].captcha \in Nat /\ 0 \in Nat
    BY <1>4, BrowserHas DEF AccountsInv, BrowserInv, ContactOK, PageOK
  <2>2. Send(t, "feedback", author[t], 0, page[t].captcha)
    BY <1>4 DEF submitFeedback
  <2>3. "feedback" \in PageOps /\ "feedback" \notin ChatOps /\ "feedback" # "answer" /\ "feedback" \notin UserOps \cup {"question"}
    BY DEF PageOps, ChatOps, UserOps
  <2>4. BrowserCalls
    BY <1>1, <2>1, <2>2, <2>3, SendKeeps, Zenon
  <2> QED
    BY <1>1, <1>2, <2>4, FormKeeps
<1> QED
  BY <1>3, <1>4

-----------------------------------------------------------------------------
(* The server.                                                             *)

LEMMA ServerHas ==
    ASSUME AccountsInv
    PROVE  /\ users \in [Users -> Rows] /\ (\A u \in Users : users[u] \in Rows) /\ minted \in Seq(Tokens) /\ Len(minted) \in Nat
           /\ secrets \in Nat /\ sent \in Nat /\ \A tk \in DOMAIN cache : cache[tk] \in Copies /\ tk \in 1..Len(minted)
  BY DEF AccountsInv, SInv, TablesOK, SessionsOK, CallsOK

(* The other calls.                                                        *)
LEMMA OthersKeep ==
    ASSUME AccountsInv, NEW c \in calls, Serves(c) PROVE \A e \in calls \ {c} : CallOK(e)'
<1> SUFFICES ASSUME NEW e \in calls, e # c PROVE CallOK(e)'
  OBVIOUS
<1>0. CallOK(e) /\ CallOK(c) /\ Grows /\ c \in Calls /\ e \in Calls
  BY CallHas DEF Serves
<1>1. CallTyped(e)'
  <2>1. minted' \in Seq(Tokens)
    BY DEF Serves, Tables2, SessionsOK
  <2>2. Len(minted') \in Nat /\ Len(minted) \in Nat /\ sent \in Nat /\ sent' \in Nat /\ sent <= sent' /\ Len(minted) <= Len(minted')
    BY <1>0, <2>1, ServerHas DEF Grows
  <2>3. /\ e.no \in 1..sent'
        /\ e.auth \in 0..Len(minted') /\ e.cookie \in 0..Len(minted') /\ e.tk \in 0..Len(minted')
    BY <1>0, <2>2 DEF CallOK, CallTyped
  <2> QED
    BY <1>0, <2>3 DEF CallOK, CallTyped, Grows
<1>2. CallStaged(e)'
  <2>1. e.op = "wallet" => wallets'[e.u] = wallets[e.u]
    BY DEF Serves
  <2> QED
    BY <1>0, <2>1 DEF CallOK, CallStaged, CallTyped, UserOps, Grows
<1>3. Registering(e)'
  BY <1>0 DEF CallOK, Registering, CallTyped, UserOps, Grows
<1>4. LoggingIn(e)'
  <2>1. e.tk # 0 => e.tk \in 1..Len(minted)
    BY <1>0, ServerHas DEF CallOK, CallTyped
  <2> QED
    BY <1>0, <2>1 DEF CallOK, LoggingIn, Grows
<1>5. SettingFactor(e)'
  <2> SUFFICES ASSUME Active(e)
               PROVE  /\ e.auth \in DOMAIN cache' /\ cache'[e.auth].user = e.u
                      /\ e.u \notin raced' =>
                          /\ e.at = "found" => e.row.totp = users'[e.u].totp /\ (e.op = "setup" => users'[e.u].totp = 0)
                          /\ e.at = "saved" => users'[e.u].totp = Secret(e)
    BY DEF SettingFactor, Active, Secret
  <2>1. e.auth \in DOMAIN cache /\ cache[e.auth].user = e.u /\ e.u \in Users
    BY <1>0 DEF CallOK, SettingFactor, CallStaged, Active
  <2>2. e.u \notin raced' => ~(Active(c) /\ e.u = c.u)
    BY <1>0 DEF Grows, AccountsInv, SInv, CallsApart
  <2> QED
    BY <1>0, <2>1, <2>2 DEF CallOK, SettingFactor, Serves, Grows
<1>6. RowIsFresh(e)'
  <2> SUFFICES ASSUME e.op \in LoginOps, e.at = "found", e.u \notin raced', TokensOf(e.u)' = {}
               PROVE  e.row.totp = users'[e.u].totp
    BY DEF RowIsFresh, TokensOf
  <2>1. TokensOf(e.u) = {} /\ e.u \notin raced
    BY <1>0 DEF TokensOf, Grows
  <2>2. e.u \in Users
    BY <1>0 DEF CallOK, CallStaged
  <2>3. ~(Active(c) /\ e.u = c.u)
    BY <1>0, <2>1 DEF CallOK, SettingFactor, TokensOf
  <2> QED
    BY <1>0, <2>1, <2>2, <2>3 DEF CallOK, RowIsFresh, Serves
<1> QED
  BY <1>1, <1>2, <1>3, <1>4, <1>5, <1>6 DEF CallOK

(* The browser.                                                            *)
LEMMA ServesBrowser == ASSUME AccountsInv, Tables2, Grows PROVE BrowserInv'
<1>1. UNCHANGED <<local, cookie, bid, setBy, tmp, shown, page, phone, confirmed, late>>
  BY DEF Grows, cvars, session
<1>2. Len(minted') \in Nat /\ Len(minted) \in Nat /\ Len(minted) <= Len(minted')
  BY ServerHas DEF Tables2, SessionsOK, Grows
<1>3. SessionOK'
  <2>1. SessionOK
    BY DEF AccountsInv, BrowserInv
  <2>2. local # 0 => Who(local)' = Who(local)
    BY <1>1, <2>1, ServerHas DEF Who, Grows, SessionOK
  <2>3. BidIsOwn'
    BY <1>1, <2>1, <2>2 DEF BidIsOwn, Grows, SessionOK
  <2> QED
    BY <1>1, <1>2, <2>1, <2>3 DEF SessionOK
<1>4. PersonOK' /\ LateOK'
  BY <1>1 DEF AccountsInv, BrowserInv, PersonOK, ConfirmedOK, LateOK, Grows
<1>5. PagesOK'
  BY <1>1, <1>2 DEF AccountsInv, BrowserInv, PagesOK, PageOK
<1>6. ContactOK'
  BY <1>1 DEF AccountsInv, BrowserInv, ContactOK, Grows, Tables2, Bots
<1> QED
  BY <1>3, <1>4, <1>5, <1>6 DEF BrowserInv, Tables2

LEMMA AnsweredOK ==
    ASSUME AccountsInv, NEW c \in calls, Serves(c), NEW d, Turned(c, d), d.at = "ans", d.tk \in 0..Len(minted'), c.op # "wallet",
           c.op \in UserOps => d.u \in Users, Registering(d)', LoggingIn(d)'
    PROVE  CallOK(d)' /\ ~Active(d)
<1>0. CallOK(c) /\ Grows
  BY CallHas DEF Serves
<1>1. Len(minted') \in Nat /\ Len(minted) \in Nat /\ Len(minted) <= Len(minted')
  BY ServerHas DEF Serves, Tables2, SessionsOK, Grows
<1>2. CallTyped(d)'
  BY <1>0, <1>1, ServerHas DEF CallOK, CallTyped, Turned, Grows, Calls
<1>3. CallStaged(d)'
  BY DEF CallStaged, Turned
<1>4. SettingFactor(d)' /\ RowIsFresh(d)' /\ ~Active(d)
  BY DEF SettingFactor, Active, RowIsFresh
<1> QED
  BY <1>2, <1>3, <1>4 DEF CallOK

LEMMA MoveApart ==
    ASSUME AccountsInv, NEW c \in calls, NEW d, raced \subseteq raced', Turns(c, d), Turned(c, d), c.op # "wallet",
           Active(d) => \A e \in calls \ {c} : Active(e) /\ e.u = d.u => d.u \in raced'
    PROVE  CallsApart'
<1> SUFFICES ASSUME NEW a \in calls', NEW b \in calls', a # b
             PROVE  /\ a.no # b.no
                    /\ ~(a.op = "wallet" /\ b.op = "wallet" /\ a.u = b.u)
                    /\ ~(Active(a) /\ Active(b) /\ a.u = b.u /\ a.u \notin raced')
  BY DEF CallsApart, Active
<1>1. (a \in calls \ {c} \/ a = d) /\ (b \in calls \ {c} \/ b = d)
  BY DEF Turns, Move
<1>2. CASE a \in calls \ {c} /\ b \in calls \ {c}
  BY <1>2 DEF AccountsInv, SInv, CallsApart
<1>3. \A e \in calls \ {c} : e.no # d.no /\ d.op # "wallet"
  BY DEF AccountsInv, SInv, CallsApart, Turned
<1> QED
  BY <1>1, <1>2, <1>3

LEMMA MoveCalls ==
    ASSUME AccountsInv, NEW c \in calls, Serves(c), NEW d, Turns(c, d), CallOK(d)' PROVE CallsOK'
  BY OthersKeep DEF CallsOK, Turns, Move, Serves, Grows

LEMMA MoveWallets ==
    ASSUME AccountsInv, NEW c \in calls, NEW d, Turns(c, d), c.op # "wallet", UNCHANGED wallets, failed => failed',
           \A u \in Users : users'[u].there = users[u].there
    PROVE  WalletsOK'
  BY DEF AccountsInv, SInv, WalletsOK, Turns, Move

LEMMA FactorSame ==
    ASSUME AccountsInv, UNCHANGED <<cache, restarted>>, \A u \in Users : users'[u].totp = users[u].totp, raced \subseteq raced',
           \A c \in calls : c.at = "saved" => c \in calls'
    PROVE  FactorOK'
<1>1. \A u : Saving(u) => Saving(u)'
  BY DEF Saving
<1> QED
  BY <1>1 DEF AccountsInv, SInv, FactorOK, TokensOf

LEMMA ServerKeeps ==
    ASSUME AccountsInv, Tables2, Grows, CallsOK', CallsApart', WalletsOK', FactorOK' PROVE AccountsInv'
  BY ServesBrowser DEF AccountsInv, SInv, Tables2

LEMMA ReadsServes == ASSUME AccountsInv, Reads PROVE Tables2 /\ Grows /\ \A c \in calls : Serves(c)
<1>1. Tables2
  BY DEF AccountsInv, SInv, SessionsOK, NoLostUpdate, Reads, Tables2
<1>2. Grows
  BY ServerHas DEF Reads, Grows
<1> QED
  BY <1>1, <1>2 DEF Serves, Reads

LEMMA ReadsMove ==
    ASSUME AccountsInv, NEW c \in calls, Reads, NEW d, Turns(c, d), Turned(c, d), CallOK(d)', c.op # "wallet", c.at # "saved",
           Active(d) => \A e \in calls \ {c} : Active(e) /\ e.u = d.u => d.u \in raced'
    PROVE  AccountsInv'
<1>1. Tables2 /\ Grows /\ Serves(c)
  BY ReadsServes
<1>2. CallsOK'
  BY <1>1, MoveCalls
<1>3. CallsApart'
  BY MoveApart DEF Reads
<1>4. WalletsOK'
  BY MoveWallets DEF Reads
<1>5. FactorOK'
  <2>1. \A e \in calls : e.at = "saved" => e \in calls'
    BY DEF Turns, Move
  <2> QED
    BY <2>1, FactorSame DEF Reads
<1> QED
  BY <1>1, <1>2, <1>3, <1>4, <1>5, ServerKeeps

LEMMA AnsweredTurned ==
    ASSUME AccountsInv, NEW c \in calls, NEW res \in Results
    PROVE  /\ Turned(c, Answered(c, res)) /\ Answered(c, res).at = "ans" /\ Answered(c, res).tk = c.tk
           /\ Answered(c, res).res = res /\ Answered(c, res).u = c.u /\ Answered(c, res).v = c.v
           /\ Answered(c, res).pw = c.pw
<1>1. c \in Calls /\ User \in Rows /\ "ans" \in Stages
  BY CallHas, UserRow DEF Stages
<1> QED
  BY <1>1 DEF Answered, Turned, Calls

LEMMA ReadsAnswer ==
    ASSUME AccountsInv, NEW c \in calls, Reads, NEW res \in Results, Answer(c, res), c.op # "wallet", c.at # "saved",
           c.op \in Committing => res # "ok"
    PROVE  AccountsInv'
<1> DEFINE d == Answered(c, res)
<1>1. Turns(c, d)
  BY DEF Turns, Answer
<1>2. /\ Turned(c, d) /\ d.at = "ans" /\ d.tk = c.tk /\ d.res = res /\ d.u = c.u
  BY AnsweredTurned
<1> HIDE DEF d
<1>3. Serves(c)
  BY ReadsServes
<1>4. CallOK(c) /\ UNCHANGED minted /\ c.tk \in 0..Len(minted) /\ Grows
  BY <1>3, CallHas DEF Reads, Serves
<1>5. Registering(d)'
  BY <1>2, <1>4 DEF Registering, Turned, CallOK, Committing, Grows, Reads
<1>6. LoggingIn(d)'
  BY <1>2 DEF LoggingIn, Turned, LoginOps, Committing
<1>7. c.op \in UserOps => d.u \in Users
  BY <1>2, <1>4 DEF CallOK, CallTyped
<1>8. CallOK(d)' /\ ~Active(d)
  BY <1>2, <1>3, <1>4, <1>5, <1>6, <1>7, AnsweredOK
<1> QED
  BY <1>1, <1>2, <1>8, ReadsMove

LEMMA ReadsFound ==
    ASSUME AccountsInv, NEW c \in calls, Reads, NEW u \in Users, Found(c, u), users[u].there, c.op \in FoundOps, c.at = "req",
           c.op \in FactorOps =>
               /\ c.auth \in DOMAIN cache /\ cache[c.auth].user = u
               /\ u \notin raced' /\ c.op = "setup" => users[u].totp = 0
               /\ \A e \in calls \ {c} : Active(e) /\ e.u = u => u \in raced',
           c.op = "reset" \/ c.op = "login" => u = c.u
    PROVE  AccountsInv'
<1>0. PICK d : d = [c EXCEPT !.at = "found", !.u = u, !.row = Row(u)]
  OBVIOUS
<1>1. Turns(c, d)
  BY <1>0 DEF Turns, Found
<1>2. c \in Calls /\ users[u] \in Rows /\ "found" \in Stages
  BY CallHas, ServerHas DEF Stages
<1>3. Turned(c, d) /\ d.at = "found" /\ d.u = u /\ d.row = users[u] /\ d.tk = c.tk
  BY <1>0, <1>2 DEF Turned, Row, Calls
<1>4. Serves(c)
  BY ReadsServes
<1>5. CallOK(c) /\ UNCHANGED <<minted, users, wallets, cache>>
  BY CallHas DEF Reads
<1>6. c.op \notin {"wallet", "answer", "register"}
  BY DEF FoundOps
<1>7. CallTyped(d)'
  BY <1>3, <1>5, CallHas DEF CallOK, CallTyped, Turned, Reads
<1>8. CallStaged(d)'
  BY <1>3, <1>5, <1>6 DEF CallStaged, Turned
<1>9. Registering(d)' /\ LoggingIn(d)'
  BY <1>3, <1>6 DEF Registering, LoggingIn, Turned
<1>10. SettingFactor(d)' /\ RowIsFresh(d)'
  BY <1>3, <1>5 DEF SettingFactor, RowIsFresh, Active, Turned, Secret
<1>11. CallOK(d)'
  BY <1>7, <1>8, <1>9, <1>10 DEF CallOK
<1>12. Active(d) => \A e \in calls \ {c} : Active(e) /\ e.u = d.u => d.u \in raced'
  BY <1>3 DEF Active, Turned
<1> QED
  BY <1>1, <1>3, <1>6, <1>11, <1>12, ReadsMove

LEMMA TablesReads ==
    ASSUME AccountsInv, Around, UNCHANGED <<tables, minted, cache, last, sent>>, secrets' \in Nat, raced \subseteq raced'
    PROVE  Reads
<1>1. TablesOK' /\ TodoOK'
  BY DEF Around, tables, AccountsInv, SInv, TablesOK, BrowserInv, TodoOK
<1>2. bot' \in Bots
  BY DEF Around, contact, AccountsInv, BrowserInv, ContactOK, Bots
<1> QED
  BY <1>1, <1>2 DEF Reads, Around, tables, hist, contact

LEMMA CopyHas ==
    ASSUME AccountsInv, NEW tk \in DOMAIN cache PROVE cache[tk].user \in Users /\ cache[tk].user = minted[tk].user
  BY DEF AccountsInv, SInv, SessionsOK, Copies

LEMMA KnownWho == ASSUME AccountsInv, NEW tk \in DOMAIN cache PROVE Who(tk) = cache[tk].user /\ Who(tk) \in Users
<1>1. tk # 0
  BY ServerHas
<1> QED
  BY <1>1, CopyHas DEF Who

LEMMA readerSteps ==
    ASSUME AccountsInv, NEW c \in calls, Around,
           login(c) \/ verify(c) \/ saveLoginIp(c) \/ changePassword(c) \/ resetPassword(c) \/ updateUserProfile(c)
             \/ dataErasureForm(c) \/ dataExport(c)
    PROVE  AccountsInv'
<1>0. UNCHANGED <<tables, sessions, last, sent>> /\ UNCHANGED raced /\ UNCHANGED <<minted, cache, secrets>>
  BY DEF login, verify, saveLoginIp, changePassword, resetPassword, updateUserProfile, dataErasureForm, dataExport,
         Answer, Found, sessions
<1>1. Reads
  BY <1>0, ServerHas, TablesReads
<1>2. CallOK(c) /\ c.at = "req" /\ c.op \in {"login", "verify", "ip", "password", "reset", "username", "erasure form", "export"}
  BY CallHas DEF login, verify, saveLoginIp, changePassword, resetPassword, updateUserProfile, dataErasureForm, dataExport, At
<1>3. c.op \in {"login", "reset"} => c.u \in Users
  BY <1>2 DEF CallOK, CallTyped, UserOps
<1>4. c.op = "verify" /\ c.u # No => c.u \in Users
  BY CallHas
<1>5. \/ \E res \in Results : Answer(c, res) /\ (c.op \in Committing => res # "ok")
      \/ \E u \in Users : Found(c, u) /\ users[u].there /\ c.op \in FoundOps \ FactorOps /\ (c.op \in {"reset", "login"} => u = c.u)
  <2>1. CASE login(c)
    BY <2>1, <1>3 DEF login, At, Row, Results, FoundOps, FactorOps
  <2>2. CASE verify(c)
    BY <2>2, <1>4 DEF verify, At, Row, Results, FoundOps, FactorOps
  <2>3. CASE saveLoginIp(c)
    BY <2>3 DEF saveLoginIp, At, Results, Committing
  <2>4. CASE changePassword(c)
    BY <2>4, CopyHas DEF changePassword, At, Row, Results, FoundOps, FactorOps, Committing, Known
  <2>5. CASE resetPassword(c)
    BY <2>5, <1>3 DEF resetPassword, At, Row, Results, FoundOps, FactorOps, Committing
  <2>6. CASE updateUserProfile(c)
    BY <2>6, KnownWho DEF updateUserProfile, At, Row, Results, FoundOps, FactorOps, Committing, Known
  <2>7. CASE dataErasureForm(c)
    BY <2>7 DEF dataErasureForm, At, Results, Committing
  <2>8. CASE dataExport(c)
    BY <2>8 DEF dataExport, At, Results, Committing
  <2> QED
    BY <2>1, <2>2, <2>3, <2>4, <2>5, <2>6, <2>7, <2>8
<1>6. ASSUME NEW res \in Results, Answer(c, res), c.op \in Committing => res # "ok" PROVE AccountsInv'
  BY <1>1, <1>2, <1>6, ReadsAnswer
<1>7. ASSUME NEW u \in Users, Found(c, u), users[u].there, c.op \in FoundOps \ FactorOps, c.op \in {"reset", "login"} => u = c.u
      PROVE  AccountsInv'
  BY <1>1, <1>2, <1>7, ReadsFound
<1> QED
  BY <1>5, <1>6, <1>7

LEMMA ReadsTurn ==
    ASSUME AccountsInv, NEW c \in calls, Reads, NEW d, Turns(c, d), Turned(c, d), d.at = "ans", d.tk = c.tk,
           c.op \notin Committing \cup UserOps, c.at # "saved"
    PROVE  AccountsInv'
<1>3. Serves(c)
  BY ReadsServes
<1>4. UNCHANGED minted /\ c.tk \in 0..Len(minted) /\ c.op # "wallet"
  BY CallHas DEF Reads, UserOps
<1>5. Registering(d)' /\ LoggingIn(d)'
  BY DEF Registering, LoggingIn, Turned, Committing, LoginOps
<1>8. CallOK(d)' /\ ~Active(d)
  BY <1>3, <1>4, <1>5, AnsweredOK
<1> QED
  BY <1>4, <1>8, ReadsMove

LEMMA AnsweredUser ==
    ASSUME AccountsInv, NEW c \in calls, NEW res \in Results, NEW u \in Users \cup {No}, NEW d, d = WithUser(c, res, u)
    PROVE  Turned(c, d) /\ d.at = "ans" /\ d.tk = c.tk /\ d.res = res /\ d.v = c.v /\ d.u = u /\ d.pw = c.pw
<1>1. c \in Calls /\ User \in Rows /\ "ans" \in Stages
  BY CallHas, UserRow DEF Stages
<1> QED
  BY <1>1 DEF WithUser, Answered, Turned, Calls

LEMMA AnsweredValue ==
    ASSUME AccountsInv, NEW c \in calls, NEW res \in Results, NEW v \in Nat, NEW d, d = WithValue(c, res, v)
    PROVE  Turned(c, d) /\ d.at = "ans" /\ d.tk = c.tk /\ d.res = res /\ d.u = c.u /\ d.v = v /\ d.pw = c.pw
<1>1. c \in Calls /\ User \in Rows /\ "ans" \in Stages
  BY CallHas, UserRow DEF Stages
<1> QED
  BY <1>1 DEF WithValue, Answered, Turned, Calls

LEMMA securityQuestionStep == ASSUME AccountsInv, NEW c \in calls, Around, securityQuestion(c) PROVE AccountsInv'
<1>1. UNCHANGED <<tables, sessions, last, sent>> /\ UNCHANGED raced /\ UNCHANGED <<minted, cache, secrets>>
  BY DEF securityQuestion, sessions
<1>2. Reads
  BY <1>1, ServerHas, TablesReads
<1>3. PICK u \in Users \cup {No} : u = IF Row(c.u).there /\ c.u \in answers THEN c.u ELSE No
  BY CallHas
<1>4. PICK d : d = WithUser(c, "ok", u)
  OBVIOUS
<1>5. Turns(c, d)
  BY <1>3, <1>4 DEF securityQuestion, Turns, WithUser
<1>6. "ok" \in Results /\ 0 \in Nat
  BY DEF Results
<1>7. Turned(c, d) /\ d.at = "ans" /\ d.tk = c.tk
  BY <1>4, <1>6, AnsweredUser
<1>8. c.op \notin Committing \cup UserOps /\ c.at # "saved"
  BY DEF securityQuestion, At, Committing, UserOps
<1> QED
  BY <1>2, <1>5, <1>7, <1>8, ReadsTurn

LEMMA statusStep == ASSUME AccountsInv, NEW c \in calls, Around, status(c) PROVE AccountsInv'
<1>1. UNCHANGED <<tables, minted, cache, last, sent>> /\ UNCHANGED raced /\ secrets' \in Nat
  BY ServerHas DEF status, Answer
<1>2. Reads
  BY <1>1, TablesReads
<1>3. c.op \notin Committing \cup UserOps /\ c.at # "saved" /\ c.op # "wallet"
  BY DEF status, At, Committing, UserOps
<1>4. ASSUME NEW res \in {"401", "on"}, Answer(c, res) PROVE AccountsInv'
  <2>1. res \in Results
    BY DEF Results
  <2> QED
    BY <1>2, <1>3, <1>4, <2>1, ReadsAnswer
<1>5. CASE calls' = Move(c, [Answered(c, "off") EXCEPT !.v = secrets + 1])
  <2>1. PICK v \in Nat : v = secrets + 1
    BY ServerHas
  <2>2. PICK d : d = WithValue(c, "off", v)
    OBVIOUS
  <2>3. Turns(c, d)
    BY <1>5, <2>1, <2>2 DEF Turns, WithValue
  <2>4. "off" \in Results
    BY DEF Results
  <2>5. Turned(c, d) /\ d.at = "ans" /\ d.tk = c.tk
    BY <2>2, <2>4, AnsweredValue
  <2> QED
    BY <1>2, <1>3, <2>3, <2>5, ReadsTurn
<1> QED
  BY <1>4, <1>5 DEF status

(* Setting up and disabling the second factor.                             *)
LEMMA factorSteps == ASSUME AccountsInv, NEW c \in calls, Around, setup(c) \/ disable(c) PROVE AccountsInv'
<1>1. UNCHANGED <<tables, sessions, last, sent>> /\ raced \subseteq raced' /\ UNCHANGED <<minted, cache, secrets>>
  BY DEF setup, disable, Answer, Found, RacedBy, sessions
<1>2. Reads
  BY <1>1, ServerHas, TablesReads
<1>3. c.at = "req" /\ c.op \in FactorOps /\ c.op \in FoundOps /\ c.op \notin {"wallet", "reset", "login"} \cup Committing
  BY DEF setup, disable, At, FactorOps, FoundOps, Committing
<1>4. CASE Answer(c, "401")
  <2>1. "401" \in Results
    BY DEF Results
  <2> QED
    BY <1>2, <1>3, <1>4, <2>1, ReadsAnswer
<1>5. CASE ~Answer(c, "401")
  <2>1. c.auth \in DOMAIN cache
    BY <1>5 DEF setup, disable, Known
  <2>2. PICK u \in Users : u = cache[c.auth].user
    BY <2>1, CopyHas
  <2>3. Found(c, u) /\ users[u].there /\ raced' = RacedBy(c, u) /\ (c.op = "setup" => cache[c.auth].totp = 0)
    BY <1>5, <2>2 DEF setup, disable, Row, At
  <2>4. \A e \in calls \ {c} : Active(e) /\ e.u = u => u \in raced'
    BY <2>3 DEF RacedBy, InFactor, Active, FactorOps
  <2>5. u \notin raced' /\ c.op = "setup" => users[u].totp = 0
    <3> SUFFICES ASSUME u \notin raced', c.op = "setup" PROVE users[u].totp = 0
      OBVIOUS
    <3>1. ~Saving(u)
      BY <1>3, <2>4 DEF Saving, Active, FactorOps
    <3>2. c.auth \in TokensOf(u) /\ u \notin raced
      BY <1>1, <2>1, <2>2 DEF TokensOf
    <3> QED
      BY <2>3, <3>1, <3>2 DEF AccountsInv, SInv, FactorOK
  <2> QED
    BY <1>2, <1>3, <2>1, <2>2, <2>3, <2>4, <2>5, ReadsFound
<1> QED
  BY <1>4, <1>5

LEMMA dataErasureStep == ASSUME AccountsInv, NEW c \in calls, Around, dataErasure(c) PROVE AccountsInv'
<1>1. UNCHANGED <<users, answers, baskets, wallets, captchas, minted, cache, secrets, last, sent, raced>>
  BY DEF dataErasure, sessions, Answer
<1>2. erasures' \subseteq Users
  BY KnownWho DEF dataErasure, Known, AccountsInv, SInv, TablesOK
<1>3. TablesOK' /\ TodoOK' /\ bot' \in Bots
  BY <1>1, <1>2 DEF Around, contact, AccountsInv, SInv, TablesOK, BrowserInv, TodoOK, ContactOK, Bots
<1>4. Reads
  BY <1>1, <1>3, ServerHas DEF Reads, Around, hist, contact
<1>5. PICK res \in {"ok", "error"} : Answer(c, res)
  BY DEF dataErasure
<1>6. res \in Results /\ c.op # "wallet" /\ c.at # "saved" /\ c.op \notin Committing
  BY DEF dataErasure, At, Results, Committing
<1> QED
  BY <1>4, <1>5, <1>6, ReadsAnswer

LEMMA imageCaptchasStep == ASSUME AccountsInv, NEW c \in calls, Around, imageCaptchas(c) PROVE AccountsInv'
<1>1. UNCHANGED <<users, answers, baskets, wallets, erasures, minted, cache, last, sent, raced>> /\ secrets' \in Nat
  BY ServerHas DEF imageCaptchas, Answer
<1>2. captchas' \in [Users -> Seq(Nat)]
  <2>1. captchas \in [Users -> Seq(Nat)]
    BY DEF AccountsInv, SInv, TablesOK
  <2>2. PICK v \in Nat : v = secrets + 1
    BY ServerHas
  <2>3. CASE UNCHANGED captchas
    BY <2>1, <2>3
  <2>4. CASE c.auth \in DOMAIN cache /\ captchas' = [captchas EXCEPT ![cache[c.auth].user] = Append(@, v)]
    <3>1. cache[c.auth].user \in Users
      BY <2>4, CopyHas
    <3>2. captchas[cache[c.auth].user] \in Seq(Nat)
      BY <2>1, <3>1
    <3>3. Append(captchas[cache[c.auth].user], v) \in Seq(Nat)
      BY <3>2
    <3> QED
      BY <2>1, <2>4, <3>1, <3>3
  <2> QED
    BY <2>2, <2>3, <2>4 DEF imageCaptchas, Known
<1>3. TablesOK' /\ TodoOK' /\ bot' \in Bots
  BY <1>1, <1>2 DEF Around, contact, AccountsInv, SInv, TablesOK, BrowserInv, TodoOK, ContactOK, Bots
<1>4. Reads
  BY <1>1, <1>3 DEF Reads, Around, hist, contact
<1>5. c.op \notin Committing \cup UserOps /\ c.at # "saved" /\ c.op # "wallet"
  BY DEF imageCaptchas, At, Committing, UserOps
<1>6. CASE Answer(c, "401")
  <2>1. "401" \in Results
    BY DEF Results
  <2> QED
    BY <1>4, <1>5, <1>6, <2>1, ReadsAnswer
<1>7. CASE calls' = Move(c, [Answered(c, "ok") EXCEPT !.v = secrets + 1])
  <2>1. PICK v \in Nat : v = secrets + 1
    BY ServerHas
  <2>2. PICK d : d = WithValue(c, "ok", v)
    OBVIOUS
  <2>3. Turns(c, d)
    BY <1>7, <2>1, <2>2 DEF Turns, WithValue
  <2>4. "ok" \in Results
    BY DEF Results
  <2>5. Turned(c, d) /\ d.at = "ans" /\ d.tk = c.tk
    BY <2>2, <2>4, AnsweredValue
  <2> QED
    BY <1>4, <1>5, <2>3, <2>5, ReadsTurn
<1> QED
  BY <1>6, <1>7 DEF imageCaptchas

LEMMA saveAnswerStep == ASSUME AccountsInv, NEW c \in calls, Around, saveAnswer(c) PROVE AccountsInv'
<1>0. CallOK(c) /\ c.op = "answer" /\ c.at = "req" /\ c.u \in Users
  BY CallHas DEF saveAnswer, At, CallOK, CallTyped, UserOps
<1>1. UNCHANGED <<users, erasures, baskets, wallets, captchas, minted, cache, secrets, last, sent, raced>> /\ answers' = answers \cup {c.u}
  BY DEF saveAnswer, sessions, Answer
<1>3. TablesOK' /\ TodoOK' /\ bot' \in Bots
  BY <1>0, <1>1 DEF Around, contact, AccountsInv, SInv, TablesOK, BrowserInv, TodoOK, ContactOK, Bots
<1>4. Reads
  BY <1>1, <1>3, ServerHas DEF Reads, Around, hist, contact
<1>5. PICK res \in {"ok", "400"} : Answer(c, res)
  BY DEF saveAnswer
<1>6. res \in Results
  BY DEF Results
<1> DEFINE d == Answered(c, res)
<1>7. Turns(c, d)
  BY <1>5 DEF Turns, Answer
<1>8. Turned(c, d) /\ d.at = "ans" /\ d.tk = c.tk /\ d.u = c.u
  BY <1>6, AnsweredTurned
<1> HIDE DEF d
<1>9. Serves(c)
  BY <1>4, ReadsServes
<1>10. Registering(d)'
  BY <1>0, <1>1, <1>4, <1>8 DEF Registering, Turned, CallOK, Reads
<1>11. LoggingIn(d)'
  BY <1>0, <1>8 DEF LoggingIn, LoginOps, Turned
<1>12. UNCHANGED minted /\ c.tk \in 0..Len(minted) /\ c.op # "wallet" /\ c.at # "saved"
  BY <1>0, <1>1, CallHas
<1>13. CallOK(d)' /\ ~Active(d)
  BY <1>0, <1>8, <1>9, <1>10, <1>11, <1>12, AnsweredOK
<1> QED
  BY <1>4, <1>7, <1>8, <1>12, <1>13, ReadsMove

LEMMA TalkReads ==
    ASSUME AccountsInv, TalksAround, UNCHANGED <<tables, minted, cache, last, sent, raced>>, secrets' \in Nat, bot' \in Bots
    PROVE  Reads
<1>1. TablesOK' /\ TodoOK'
  BY DEF TalksAround, tables, AccountsInv, SInv, TablesOK, BrowserInv, TodoOK
<1> QED
  BY <1>1 DEF Reads, TalksAround, tables, hist

LEMMA SenderHas ==
    ASSUME AccountsInv, NEW c \in calls, Sender(c) # 0
    PROVE  /\ Sender(c) \in 1..Len(minted) /\ getUserFromJwt(c) \in Tokens /\ getUserFromJwt(c).user \in Users
           /\ getUserFromJwt(c).name \in Nat
<1>1. Sender(c) \in 1..Len(minted)
  BY CallHas, ServerHas DEF Sender
<1>2. minted[Sender(c)] \in Tokens
  BY <1>1, ServerHas
<1> QED
  BY <1>1, <1>2 DEF getUserFromJwt, Tokens

LEMMA BotHas == ASSUME AccountsInv PROVE bot \in Bots
  BY DEF AccountsInv, BrowserInv, ContactOK, Bots

LEMMA AddUserKeeps ==
    ASSUME AccountsInv, NEW u \in Users, NEW name \in Nat, addUser(u, name) PROVE bot' \in Bots
  BY BotHas DEF addUser, Bots

LEMMA talkSteps ==
    ASSUME AccountsInv, NEW c \in calls, TalksAround, botStatus(c) \/ processQuery(c) \/ setUserName(c) \/ (saveFeedback(c) /\ UNCHANGED bot)
    PROVE  AccountsInv'
<1>1. UNCHANGED <<tables, sessions, last, sent, raced>> /\ UNCHANGED <<minted, cache, secrets>>
  BY DEF botStatus, processQuery, setUserName, saveFeedback, Answer, Found, sessions
<1>2. c.at = "req" /\ c.op \in {"chatstatus", "query", "setname", "feedback"}
  BY DEF botStatus, processQuery, setUserName, saveFeedback, At
<1>3. bot' \in Bots
  <2>1. \/ UNCHANGED bot
        \/ Sender(c) # 0 /\ addUser(getUserFromJwt(c).user, getUserFromJwt(c).name)
    BY DEF botStatus, processQuery, setUserName
  <2> QED
    BY <2>1, BotHas, SenderHas, AddUserKeeps
<1>4. Reads
  BY <1>1, <1>3, ServerHas, TalkReads
<1>5. \/ \E res \in Results : Answer(c, res)
      \/ c.op = "setname" /\ \E u \in Users : Found(c, u) /\ users[u].there
  <2>0. bot.state # "none" => bot.state \in Results
    BY BotHas DEF Bots, Results
  <2>1. CASE botStatus(c)
    BY <2>0, <2>1 DEF botStatus, Results
  <2>2. CASE processQuery(c)
    BY <2>2 DEF processQuery, Results
  <2>3. CASE setUserName(c)
    BY <2>3, SenderHas DEF setUserName, At, Row, Results
  <2>4. CASE saveFeedback(c)
    BY <2>4 DEF saveFeedback, Results
  <2> QED
    BY <2>1, <2>2, <2>3, <2>4
<1>6. ASSUME NEW res \in Results, Answer(c, res) PROVE AccountsInv'
  <2>1. c.op # "wallet" /\ c.at # "saved" /\ c.op \notin Committing
    BY <1>2 DEF Committing
  <2> QED
    BY <1>4, <1>6, <2>1, ReadsAnswer
<1>7. ASSUME c.op = "setname", NEW u \in Users, Found(c, u), users[u].there PROVE AccountsInv'
  <2>1. c.op \in FoundOps /\ c.op \notin FactorOps
    BY <1>7 DEF FoundOps, FactorOps
  <2> QED
    BY <1>2, <1>4, <1>7, <2>1, ReadsFound
<1> QED
  BY <1>5, <1>6, <1>7

LEMMA newCaptchaStep == ASSUME AccountsInv, NEW c \in calls, TalksAround, newCaptcha(c), UNCHANGED bot PROVE AccountsInv'
<1>1. UNCHANGED <<tables, minted, cache, last, sent, raced>> /\ secrets' \in Nat
  BY ServerHas DEF newCaptcha
<1>2. Reads
  BY <1>1, BotHas, TalkReads
<1>3. c.op \notin Committing \cup UserOps /\ c.at # "saved"
  BY DEF newCaptcha, At, Committing, UserOps
<1>4. PICK v \in Nat : v = secrets + 1
  BY ServerHas
<1>5. PICK d : d = WithValue(c, "ok", v)
  OBVIOUS
<1>6. Turns(c, d) /\ "ok" \in Results
  BY <1>4, <1>5 DEF Turns, WithValue, newCaptcha, Results
<1>7. Turned(c, d) /\ d.at = "ans" /\ d.tk = c.tk
  BY <1>5, <1>6, AnsweredValue
<1> QED
  BY <1>2, <1>3, <1>6, <1>7, ReadsTurn

(* A query fails.                                                          *)
LEMMA ReadsDrop ==
    ASSUME AccountsInv, NEW c \in calls, Reads, calls' = calls \ {c}, c.at # "saved", failed' = TRUE PROVE AccountsInv'
<1>1. Tables2 /\ Grows /\ Serves(c)
  BY ReadsServes
<1>2. CallsOK'
  BY <1>1, OthersKeep DEF CallsOK, Grows
<1>3. CallsApart'
  BY DEF AccountsInv, SInv, CallsApart, Active, Reads
<1>4. WalletsOK'
  BY DEF AccountsInv, SInv, WalletsOK, Reads
<1>5. FactorOK'
  BY FactorSame DEF Reads
<1> QED
  BY <1>1, <1>2, <1>3, <1>4, <1>5, ServerKeeps

LEMMA queryFailsStep == ASSUME AccountsInv, NEW c \in calls, UNCHANGED <<cvars, contact>>, queryFails(c) PROVE AccountsInv'
<1>1. TodoOK' /\ failed' = TRUE /\ c.at # "saved" /\ UNCHANGED restarted
  BY BrowserHas, SpendOK DEF queryFails, Queries
<1>2. UNCHANGED <<users, answers, baskets, wallets, erasures, captchas, minted, cache, secrets, last, sent, raced>>
  BY DEF queryFails, tables, sessions
<1>3. TablesOK' /\ bot' \in Bots
  BY <1>2 DEF contact, AccountsInv, SInv, TablesOK, BrowserInv, ContactOK, Bots
<1>4. Reads
  BY <1>1, <1>2, <1>3, ServerHas DEF Reads, contact
<1>5. CASE c.t = No
  BY <1>1, <1>4, <1>5, ReadsDrop DEF queryFails
<1>6. CASE c.t # No
  <2>1. Answer(c, "error") /\ "error" \in Results /\ c.op # "wallet"
    BY <1>2, <1>6, CallHas DEF queryFails, Answer, Results, CallOK, CallStaged
  <2> QED
    BY <1>1, <1>4, <2>1, ReadsAnswer
<1> QED
  BY <1>5, <1>6

-----------------------------------------------------------------------------
(* The steps that write.                                                   *)

LEMMA RowWrite ==
    ASSUME AccountsInv, NEW u \in Users, users[u].there, NEW r \in Rows, r.there, users' = [users EXCEPT ![u] = r],
           last' = users', UNCHANGED <<answers, baskets, wallets, erasures, captchas>>
    PROVE  /\ TablesOK' /\ NoLostUpdate' /\ users'[u] = r /\ \A x \in Users \ {u} : users'[x] = users[x]
           /\ \A x \in Users : users'[x].there = users[x].there
<1>1. users \in [Users -> Rows]
  BY ServerHas
<1>2. users' \in [Users -> Rows] /\ users'[u] = r /\ \A x \in Users \ {u} : users'[x] = users[x]
  BY <1>1
<1>4. users[u].there = TRUE /\ r.there = TRUE
  BY <1>1 DEF Rows
<1>3. \A x \in Users : users'[x].there = users[x].there
  BY <1>2, <1>4
<1> QED
  BY <1>2, <1>3 DEF AccountsInv, SInv, TablesOK, NoLostUpdate

LEMMA SameSessions ==
    ASSUME AccountsInv, UNCHANGED <<minted, cache, restarted>>, secrets' \in Nat PROVE SessionsOK'
  BY DEF AccountsInv, SInv, SessionsOK

LEMMA AroundHas ==
    ASSUME AccountsInv, UNCHANGED <<todo, cvars, action, author, bot>> PROVE TodoOK' /\ bot' \in Bots
  BY BotHas DEF AccountsInv, BrowserInv, TodoOK

LEMMA FoundHas ==
    ASSUME AccountsInv, NEW c \in calls, c.at \in {"found", "saved"}
    PROVE  /\ c.u \in Users /\ users[c.u].there /\ users[c.u] \in Rows /\ c.row \in Rows /\ c.op \in FoundOps
           /\ c.op # "wallet"
<1>1. CallOK(c) /\ c \in Calls
  BY CallHas
<1>2. c.u \in Users /\ users[c.u].there /\ c.op \in FoundOps
  BY <1>1 DEF CallOK, CallStaged, FactorOps, FoundOps
<1> QED
  BY <1>1, <1>2, ServerHas DEF Calls, FoundOps

LEMMA updatePasswordStep == ASSUME AccountsInv, NEW c \in calls, Around, updatePassword(c) PROVE AccountsInv'
<1>0. CallOK(c) /\ c.op \in {"password", "reset"} /\ c.at = "found" /\ Answer(c, "ok") /\ c.v \in Nat
  BY CallHas DEF updatePassword
<1>1. c.u \in Users /\ users[c.u].there /\ users[c.u] \in Rows /\ c.op # "wallet"
  BY <1>0, FoundHas
<1>2. PICK p \in Nat : p = Updated(c.row.password, users[c.u].password, c.v)
  BY <1>0, <1>1 DEF Updated, Rows
<1>3. PICK r : r = [users[c.u] EXCEPT !.password = p]
  OBVIOUS
<1>4. r \in Rows /\ r.there /\ r.totp = users[c.u].totp
  BY <1>1, <1>3 DEF Rows
<1>5. users' = [users EXCEPT ![c.u] = r] /\ last' = users' /\ UNCHANGED <<answers, baskets, wallets, erasures, captchas>>
  BY <1>2, <1>3 DEF updatePassword, AccountsInv, SInv, NoLostUpdate
<1>6. /\ TablesOK' /\ NoLostUpdate' /\ users'[c.u] = r /\ (\A x \in Users \ {c.u} : users'[x] = users[x])
      /\ \A x \in Users : users'[x].there = users[x].there
  BY <1>1, <1>4, <1>5, RowWrite
<1>7. UNCHANGED <<minted, cache, secrets, restarted, failed, todo, cvars, action, author, bot, sent, raced>>
  BY <1>0 DEF updatePassword, sessions, Around, hist, contact, Answer
<1>8. Tables2 /\ Grows /\ \A u \in Users : users'[u].totp = users[u].totp
  <2>1. SessionsOK' /\ TodoOK' /\ bot' \in Bots
    BY <1>7, ServerHas, SameSessions, AroundHas
  <2> QED
    BY <1>4, <1>5, <1>6, <1>7, <2>1, ServerHas DEF Tables2, Grows
<1>9. Serves(c)
  BY <1>5, <1>8 DEF Serves
<1> DEFINE d == Answered(c, "ok")
<1>10. Turns(c, d) /\ "ok" \in Results
  BY <1>0 DEF Turns, Answer, Results
<1>11. Turned(c, d) /\ d.at = "ans" /\ d.tk = c.tk /\ d.u = c.u
  BY <1>10, AnsweredTurned
<1> HIDE DEF d
<1>12. Registering(d)' /\ LoggingIn(d)'
  BY <1>0, <1>11 DEF Registering, LoggingIn, LoginOps, Turned
<1>13. CallOK(d)' /\ ~Active(d)
  BY <1>1, <1>7, <1>9, <1>11, <1>12, CallHas, AnsweredOK
<1>14. CallsOK'
  BY <1>9, <1>10, <1>13, MoveCalls
<1>15. CallsApart'
  BY <1>1, <1>7, <1>10, <1>11, <1>13, MoveApart
<1>16. WalletsOK'
  BY <1>1, <1>5, <1>6, <1>7, <1>10, MoveWallets
<1>17. FactorOK'
  <2>1. \A e \in calls : e.at = "saved" => e \in calls'
    BY <1>0, <1>10 DEF Turns, Move
  <2> QED
    BY <1>7, <1>8, <2>1, FactorSame
<1> QED
  BY <1>8, <1>14, <1>15, <1>16, <1>17, ServerKeeps

LEMMA saveFactorStep == ASSUME AccountsInv, NEW c \in calls, Around, saveFactor(c) PROVE AccountsInv'
<1>0. CallOK(c) /\ c.op \in FactorOps /\ c.at = "found" /\ To(c, "saved") /\ c.v \in Nat /\ Active(c) /\ c \in Calls
  BY CallHas DEF saveFactor, FactorOps, Active
<1>1. c.u \in Users /\ users[c.u].there /\ users[c.u] \in Rows /\ c.op # "wallet" /\ c.op \in FoundOps
  BY <1>0, FoundHas
<1>2. PICK p \in Nat : p = Updated(c.row.totp, users[c.u].totp, Secret(c))
  BY <1>0, <1>1 DEF Updated, Rows, Secret
<1>3. PICK r : r = [users[c.u] EXCEPT !.totp = p]
  OBVIOUS
<1>4. r \in Rows /\ r.there /\ r.totp = p
  BY <1>1, <1>3 DEF Rows
<1>5. users' = [users EXCEPT ![c.u] = r] /\ last' = users' /\ UNCHANGED <<answers, baskets, wallets, erasures, captchas>>
  BY <1>2, <1>3 DEF saveFactor, AccountsInv, SInv, NoLostUpdate
<1>6. /\ TablesOK' /\ NoLostUpdate' /\ users'[c.u] = r /\ (\A x \in Users \ {c.u} : users'[x] = users[x])
      /\ \A x \in Users : users'[x].there = users[x].there
  BY <1>1, <1>4, <1>5, RowWrite
<1>7. UNCHANGED <<minted, cache, secrets, restarted, failed, todo, cvars, action, author, bot, sent, raced>>
  BY <1>0 DEF saveFactor, sessions, Around, hist, contact, To
<1>8. Tables2 /\ Grows /\ Serves(c)
  <2>1. SessionsOK' /\ TodoOK' /\ bot' \in Bots
    BY <1>7, ServerHas, SameSessions, AroundHas
  <2>2. Tables2 /\ Grows
    BY <1>5, <1>6, <1>7, <2>1, ServerHas DEF Tables2, Grows
  <2>3. \A u \in Users : users'[u].totp = users[u].totp \/ (Active(c) /\ u = c.u)
    BY <1>0, <1>6
  <2> QED
    BY <1>5, <2>2, <2>3 DEF Serves
<1>9. c.auth \in DOMAIN cache /\ cache[c.auth].user = c.u /\ c.auth \in TokensOf(c.u)
  BY <1>0 DEF CallOK, SettingFactor, TokensOf
<1>10. c.u \notin raced => p = Secret(c)
  BY <1>0, <1>2 DEF CallOK, SettingFactor, Updated
<1> DEFINE d == [c EXCEPT !.at = "saved"]
<1>11. Turns(c, d) /\ "saved" \in Stages
  BY <1>0 DEF Turns, To, Stages
<1>12. Turned(c, d) /\ d.at = "saved" /\ d.tk = c.tk /\ d.u = c.u /\ d.v = c.v /\ d \in calls'
  BY <1>0, <1>11 DEF Turned, Calls, Turns, Move
<1> HIDE DEF d
<1>13. CallOK(d)'
  <2>1. CallTyped(d)'
    BY <1>0, <1>7, <1>12, CallHas DEF CallOK, CallTyped, Turned
  <2>2. CallStaged(d)'
    BY <1>0, <1>1, <1>6, <1>12 DEF CallStaged, Turned
  <2>3. Registering(d)' /\ LoggingIn(d)' /\ RowIsFresh(d)'
    BY <1>0, <1>12 DEF Registering, LoggingIn, LoginOps, Turned, FactorOps, RowIsFresh
  <2>4. SettingFactor(d)'
    BY <1>4, <1>6, <1>7, <1>9, <1>10, <1>12 DEF SettingFactor, Active, Turned, Secret
  <2> QED
    BY <2>1, <2>2, <2>3, <2>4 DEF CallOK
<1>14. CallsOK'
  BY <1>8, <1>11, <1>13, MoveCalls
<1>15. CallsApart'
  <2>1. \A e \in calls \ {c} : Active(e) /\ e.u = d.u => d.u \in raced'
    BY <1>0, <1>7, <1>12 DEF AccountsInv, SInv, CallsApart
  <2> QED
    BY <1>1, <1>7, <1>11, <1>12, <2>1, MoveApart
<1>16. WalletsOK'
  BY <1>1, <1>5, <1>6, <1>7, <1>11, MoveWallets
<1>17. FactorOK'
  <2>1. Saving(c.u)'
    BY <1>0, <1>12 DEF Saving, Turned
  <2>2. \A u : Saving(u) => Saving(u)'
    BY <1>0, <1>11 DEF Saving, Turns, Move
  <2>3. \A u : TokensOf(u)' = TokensOf(u)
    BY <1>7 DEF TokensOf
  <2>4. \A u \in Users : users'[u].totp # 0 => TokensOf(u)' # {}
    BY <1>6, <1>9, <2>3 DEF AccountsInv, SInv, FactorOK
  <2>5. \A u \in Users \ raced : \A tk \in TokensOf(u) :
            ~Saving(u)' => cache[tk].totp = users'[u].totp \/ (restarted /\ users'[u].totp = 0)
    <3> SUFFICES ASSUME NEW u \in Users \ raced, NEW tk \in TokensOf(u), ~Saving(u)'
                 PROVE  cache[tk].totp = users'[u].totp \/ (restarted /\ users'[u].totp = 0)
      OBVIOUS
    <3>1. u # c.u /\ ~Saving(u)
      BY <2>1, <2>2
    <3> QED
      BY <1>6, <3>1 DEF AccountsInv, SInv, FactorOK
  <2> QED
    BY <1>7, <2>3, <2>4, <2>5 DEF AccountsInv, SInv, FactorOK
<1> QED
  BY <1>8, <1>14, <1>15, <1>16, <1>17, ServerKeeps

(* A copy is put into authenticatedUsers.                                  *)
LEMMA PutShape ==
    ASSUME NEW tk, NEW u, NEW row, NEW b, put(tk, u, row, b)
    PROVE  /\ DOMAIN cache' = DOMAIN cache \cup {tk} /\ (\A x \in DOMAIN cache \ {tk} : cache'[x] = cache[x])
           /\ cache'[tk] = [user |-> u, password |-> row.password, totp |-> row.totp, bid |-> b]
           /\ cache'[tk].user = u /\ cache'[tk].totp = row.totp
  BY DEF put

LEMMA PutSessions ==
    ASSUME AccountsInv, NEW tk, NEW u \in Users, NEW row, row.password \in Nat, row.totp \in Nat, NEW b \in Nat, put(tk, u, row, b),
           minted' \in Seq(Tokens), tk \in DOMAIN minted', minted'[tk].user = u, DOMAIN minted \subseteq DOMAIN minted',
           \A i \in DOMAIN minted : minted'[i] = minted[i], ~restarted => DOMAIN minted' = DOMAIN minted \cup {tk},
           UNCHANGED restarted, secrets' \in Nat
    PROVE  SessionsOK'
<1>1. /\ DOMAIN cache' = DOMAIN cache \cup {tk} /\ (\A x \in DOMAIN cache \ {tk} : cache'[x] = cache[x])
      /\ cache'[tk] = [user |-> u, password |-> row.password, totp |-> row.totp, bid |-> b] /\ cache'[tk].user = u
  BY PutShape
<1>2. cache'[tk] \in Copies
  BY <1>1 DEF Copies
<1>3. SessionsOK
  BY DEF AccountsInv, SInv
<1>4. \A x \in DOMAIN cache' : cache'[x] \in Copies /\ cache'[x].user = minted'[x].user
  <2> SUFFICES ASSUME NEW x \in DOMAIN cache' PROVE cache'[x] \in Copies /\ cache'[x].user = minted'[x].user
    OBVIOUS
  <2>1. CASE x = tk
    BY <2>1, <1>1, <1>2
  <2>2. CASE x # tk
    BY <2>2, <1>1, <1>3 DEF SessionsOK
  <2> QED
    BY <2>1, <2>2
<1>5. DOMAIN cache' \subseteq DOMAIN minted' /\ (~restarted => DOMAIN cache' = DOMAIN minted')
  BY <1>1, <1>3 DEF SessionsOK
<1> QED
  BY <1>4, <1>5 DEF SessionsOK

(* The tokens of a user after a put.                                       *)
LEMMA PutTokens ==
    ASSUME AccountsInv, NEW tk, NEW u, NEW row, NEW b, put(tk, u, row, b), tk \in DOMAIN cache => cache[tk].user = u
    PROVE  /\ TokensOf(u)' = TokensOf(u) \cup {tk} /\ (\A x : x # u => TokensOf(x)' = TokensOf(x))
           /\ \A y \in DOMAIN cache : y \in DOMAIN cache' /\ cache'[y].user = cache[y].user
<1>1. /\ DOMAIN cache' = DOMAIN cache \cup {tk} /\ (\A x \in DOMAIN cache \ {tk} : cache'[x] = cache[x])
      /\ cache'[tk].user = u
  BY PutShape
<1>2. \A y \in DOMAIN cache : y \in DOMAIN cache' /\ cache'[y].user = cache[y].user
  BY <1>1
<1>3. TokensOf(u)' = TokensOf(u) \cup {tk}
  BY <1>1, <1>2 DEF TokensOf
<1>4. \A x : x # u => TokensOf(x)' = TokensOf(x)
  BY <1>1, <1>2 DEF TokensOf
<1> QED
  BY <1>2, <1>3, <1>4

LEMMA factorSavedStep == ASSUME AccountsInv, NEW c \in calls, Around, factorSaved(c) PROVE AccountsInv'
<1>0. CallOK(c) /\ c.op \in FactorOps /\ c.at = "saved" /\ Answer(c, "ok") /\ c.v \in Nat /\ Active(c) /\ c \in Calls
  BY CallHas DEF factorSaved, FactorOps, Active
<1>1. c.u \in Users /\ users[c.u].there /\ users[c.u] \in Rows /\ c.op # "wallet" /\ c.row \in Rows
  BY <1>0, FoundHas
<1>2. PICK row : row = [c.row EXCEPT !.totp = Secret(c)]
  OBVIOUS
<1>3. row.password \in Nat /\ row.totp = Secret(c) /\ Secret(c) \in Nat
  BY <1>0, <1>1, <1>2 DEF Rows, Secret
<1>4. put(c.auth, c.u, row, 0)
  BY <1>2 DEF factorSaved, updateFrom
<1>5. UNCHANGED <<users, answers, baskets, wallets, erasures, captchas, minted, secrets, last, restarted, failed, todo, cvars, action,
                  author, bot, sent, raced>>
  BY <1>0 DEF factorSaved, tables, Around, hist, contact, Answer
<1>6. c.auth \in DOMAIN cache /\ cache[c.auth].user = c.u /\ c.auth \in DOMAIN minted /\ minted[c.auth].user = c.u
  BY <1>0 DEF CallOK, SettingFactor, AccountsInv, SInv, SessionsOK
<1>7. /\ TokensOf(c.u)' = TokensOf(c.u) \cup {c.auth} /\ (\A x : x # c.u => TokensOf(x)' = TokensOf(x))
      /\ \A y \in DOMAIN cache : y \in DOMAIN cache' /\ cache'[y].user = cache[y].user
  BY <1>4, <1>6, PutTokens
<1>8. /\ DOMAIN cache' = DOMAIN cache \cup {c.auth} /\ (\A x \in DOMAIN cache \ {c.auth} : cache'[x] = cache[x])
      /\ cache'[c.auth].totp = Secret(c)
  <2>1. /\ DOMAIN cache' = DOMAIN cache \cup {c.auth} /\ (\A x \in DOMAIN cache \ {c.auth} : cache'[x] = cache[x])
        /\ cache'[c.auth].totp = row.totp
    BY <1>4 DEF put
  <2> QED
    BY <1>3, <2>1
<1>9. SessionsOK'
  <2>1. ~restarted => DOMAIN minted' = DOMAIN minted \cup {c.auth}
    BY <1>5, <1>6
  <2>2. minted' \in Seq(Tokens) /\ 0 \in Nat /\ secrets' \in Nat
    BY <1>5, ServerHas
  <2>3. c.auth \in DOMAIN minted' /\ minted'[c.auth].user = c.u /\ DOMAIN minted \subseteq DOMAIN minted'
        /\ \A i \in DOMAIN minted : minted'[i] = minted[i]
    BY <1>5, <1>6
  <2> QED
    BY <1>1, <1>3, <1>4, <1>5, <2>1, <2>2, <2>3, PutSessions
<1>10. Tables2 /\ Grows /\ Serves(c)
  <2>1. TablesOK' /\ NoLostUpdate' /\ TodoOK' /\ bot' \in Bots
    BY <1>5, AroundHas DEF AccountsInv, SInv, TablesOK, NoLostUpdate
  <2>2. Tables2 /\ Grows
    BY <1>5, <1>7, <1>9, <2>1, ServerHas DEF Tables2, Grows
  <2> QED
    BY <1>5, <2>2 DEF Serves
<1> DEFINE d == Answered(c, "ok")
<1>11. Turns(c, d) /\ "ok" \in Results
  BY <1>0 DEF Turns, Answer, Results
<1>12. Turned(c, d) /\ d.at = "ans" /\ d.tk = c.tk /\ d.u = c.u
  BY <1>11, AnsweredTurned
<1> HIDE DEF d
<1>13. Registering(d)' /\ LoggingIn(d)'
  BY <1>0, <1>12 DEF Registering, LoggingIn, LoginOps, Turned, FactorOps
<1>14. CallOK(d)' /\ ~Active(d)
  BY <1>1, <1>5, <1>10, <1>12, <1>13, CallHas, AnsweredOK
<1>15. CallsOK'
  BY <1>10, <1>11, <1>14, MoveCalls
<1>16. CallsApart'
  BY <1>1, <1>5, <1>11, <1>12, <1>14, MoveApart
<1>17. WalletsOK'
  BY <1>1, <1>5, <1>11, MoveWallets
<1>18. FactorOK'
  <2>1. \A u : u # c.u /\ Saving(u) => Saving(u)'
    BY <1>11 DEF Saving, Turns, Move
  <2>2. c.u \notin raced => \A tk \in TokensOf(c.u)' : cache'[tk].totp = users[c.u].totp
    <3> SUFFICES ASSUME c.u \notin raced, NEW tk \in TokensOf(c.u)' PROVE cache'[tk].totp = users[c.u].totp
      OBVIOUS
    <3>1. tk = c.auth
      BY <1>1, <1>6, <1>7 DEF AccountsInv, SInv, FactorOK, TokensOf
    <3>2. users[c.u].totp = Secret(c)
      BY <1>0 DEF CallOK, SettingFactor
    <3> QED
      BY <1>8, <3>1, <3>2
  <2>3. \A u : TokensOf(u)' = TokensOf(u)
    BY <1>6, <1>7 DEF TokensOf
  <2>4. \A u \in Users \ raced : \A tk \in TokensOf(u) :
            ~Saving(u)' => cache'[tk].totp = users[u].totp \/ (restarted /\ users[u].totp = 0)
    <3> SUFFICES ASSUME NEW u \in Users \ raced, NEW tk \in TokensOf(u), ~Saving(u)', u # c.u
                 PROVE  cache'[tk].totp = users[u].totp \/ (restarted /\ users[u].totp = 0)
      BY <2>2, <2>3
    <3>1. ~Saving(u)
      BY <2>1
    <3>2. cache'[tk] = cache[tk]
      BY <1>6, <1>8 DEF TokensOf
    <3> QED
      BY <3>1, <3>2 DEF AccountsInv, SInv, FactorOK
  <2> QED
    BY <1>5, <2>3, <2>4 DEF AccountsInv, SInv, FactorOK
<1> QED
  BY <1>10, <1>15, <1>16, <1>17, <1>18, ServerKeeps

(* Registration.                                                           *)
LEMMA registerUserStep == ASSUME AccountsInv, NEW c \in calls, Around, registerUser(c) PROVE AccountsInv'
<1>0. CallOK(c) /\ c.op = "register" /\ c.at = "req" /\ c.u \in Users /\ c \in Calls /\ c.pw \in Nat
  BY CallHas DEF registerUser, At, CallOK, CallTyped, UserOps
<1>1. CASE users[c.u].there
  <2>1. Answer(c, "400") /\ UNCHANGED <<tables, minted, cache, last, sent>> /\ UNCHANGED <<secrets, raced>>
    BY <1>1 DEF registerUser, Row, tables, sessions, Answer
  <2>2. Reads
    BY <2>1, ServerHas, TablesReads
  <2>3. "400" \in Results
    BY DEF Results
  <2> QED
    BY <1>0, <2>1, <2>2, <2>3, ReadsAnswer
<1>2. CASE ~users[c.u].there
  <2>1. users[c.u] = User /\ wallets[c.u] = 0 /\ users \in [Users -> Rows]
    BY <1>0, <1>2 DEF AccountsInv, SInv, TablesOK, WalletsOK
  <2>2. PICK r : r = NewUser(c.pw)
    OBVIOUS
  <2>3. r \in Rows /\ r.there /\ r.totp = 0
    BY <1>0, <2>2 DEF NewUser, User, Rows
  <2>4. /\ users' = [users EXCEPT ![c.u] = r] /\ last' = users' /\ UNCHANGED <<answers, baskets, wallets, erasures, captchas>>
        /\ UNCHANGED <<minted, cache, secrets, restarted, failed, todo, cvars, action, author, bot, raced>>
    BY <1>2, <2>2 DEF registerUser, Row, sessions, Around, hist, contact, AccountsInv, SInv, NoLostUpdate
  <2>5. users' \in [Users -> Rows] /\ users'[c.u] = r /\ \A x \in Users \ {c.u} : users'[x] = users[x]
    BY <1>0, <2>1, <2>3, <2>4
  <2>6. TablesOK' /\ NoLostUpdate' /\ SessionsOK' /\ TodoOK' /\ bot' \in Bots
    <3>1. SessionsOK' /\ TodoOK' /\ bot' \in Bots
      BY <2>4, ServerHas, SameSessions, AroundHas
    <3>2. \A u \in Users : users'[u].there \/ users'[u] = User
      BY <2>3, <2>5 DEF AccountsInv, SInv, TablesOK
    <3> QED
      BY <2>4, <2>5, <3>1, <3>2 DEF AccountsInv, SInv, TablesOK, NoLostUpdate
  <2>7. PICK n \in Nat : n = sent + 1
    BY ServerHas
  <2>8. sent' = n /\ n > sent /\ sent <= sent'
    BY <1>2, <2>7, ServerHas DEF registerUser, Row
  <2>9. Tables2 /\ Grows /\ Serves(c) /\ \A u \in Users : users'[u].totp = users[u].totp
    <3>1. \A u \in Users : (users[u].there => users'[u].there) /\ users'[u].totp = users[u].totp
      BY <2>1, <2>3, <2>5 DEF User
    <3>2. Tables2 /\ Grows
      BY <2>4, <2>6, <2>7, <2>8, <3>1, ServerHas DEF Tables2, Grows
    <3> QED
      BY <2>4, <3>1, <3>2 DEF Serves
  <2> DEFINE d == Answered(c, "ok")
  <2>10. PICK b : b = Request(n, No, 0, "wallet", 0, 0, c.u, 0, 0)
    OBVIOUS
  <2>11. calls' = Move(c, d) \cup {b} /\ "ok" \in Results
    BY <1>2, <2>7, <2>10 DEF registerUser, Row, Background, Results
  <2>12. Turned(c, d) /\ d.at = "ans" /\ d.tk = c.tk /\ d.u = c.u
    BY <2>11, AnsweredTurned
  <2> HIDE DEF d
  <2>13. Registering(d)' /\ LoggingIn(d)'
    BY <1>0, <2>3, <2>5, <2>12 DEF Registering, LoggingIn, LoginOps, Turned
  <2>14. CallOK(d)' /\ ~Active(d)
    BY <1>0, <2>4, <2>9, <2>12, <2>13, CallHas, AnsweredOK
  <2>15. /\ b \in Calls /\ b.no = n /\ b.t = No /\ b.op = "wallet" /\ b.at = "req" /\ b.u = c.u
         /\ b.auth = 0 /\ b.cookie = 0 /\ b.tk = 0
    <3>1. "wallet" \in PageOps \cup {"wallet"} /\ "req" \in Stages /\ "" \in Results /\ No \in Tabs \cup {No}
      BY DEF Stages, Results
    <3> QED
      BY <1>0, <2>10, <3>1, UserRow DEF Request, Calls
  <2>16. CallOK(b)'
    <3>1. CallTyped(b)'
      <4>1. n \in 1..n /\ 0 \in 0..Len(minted)
        BY <2>7, ServerHas
      <4> QED
        BY <1>0, <2>4, <2>8, <2>15, <4>1, AccountsAssumption DEF CallTyped
    <3>2. CallStaged(b)'
      BY <2>1, <2>3, <2>4, <2>5, <2>15 DEF CallStaged
    <3>3. Registering(b)' /\ LoggingIn(b)' /\ SettingFactor(b)' /\ RowIsFresh(b)'
      BY <2>15 DEF Registering, LoggingIn, LoginOps, SettingFactor, Active, RowIsFresh
    <3> QED
      BY <3>1, <3>2, <3>3 DEF CallOK
  <2>17. CallsOK'
    BY <2>7, <2>8, <2>9, <2>11, <2>14, <2>16, OthersKeep DEF CallsOK, Move
  <2>18. CallsApart'
    <3>1. \A e \in calls : e.no \in 1..sent /\ e.no # n
      BY <2>8, ServerHas DEF AccountsInv, SInv, CallsOK, CallOK, CallTyped
    <3>2. \A e \in calls : ~(e.op = "wallet" /\ e.u = c.u)
      BY <1>2 DEF AccountsInv, SInv, CallsOK, CallOK, CallStaged
    <3>3. d.no # n /\ d.op # "wallet" /\ (\A e \in calls \ {c} : e.no # d.no) /\ ~Active(b)
      BY <1>0, <2>12, <2>15, <3>1 DEF Turned, AccountsInv, SInv, CallsApart, Active
    <3> SUFFICES ASSUME NEW x \in calls', NEW y \in calls', x # y
                 PROVE  /\ x.no # y.no
                        /\ ~(x.op = "wallet" /\ y.op = "wallet" /\ x.u = y.u)
                        /\ ~(Active(x) /\ Active(y) /\ x.u = y.u /\ x.u \notin raced)
      BY <2>4 DEF CallsApart, Active
    <3>4. x \in (calls \ {c}) \cup {d, b} /\ y \in (calls \ {c}) \cup {d, b}
      BY <2>11 DEF Move
    <3>5. CASE x \in calls \ {c} /\ y \in calls \ {c}
      BY <3>5 DEF AccountsInv, SInv, CallsApart
    <3>6. CASE x \in {d, b} \/ y \in {d, b}
      BY <2>14, <2>15, <3>1, <3>2, <3>3, <3>4, <3>6
    <3> QED
      BY <3>4, <3>5, <3>6
  <2>19. WalletsOK'
    <3>1. \A e \in calls : e.op = "wallet" => e \in calls'
      BY <1>0, <2>11 DEF Move
    <3>2. b \in calls'
      BY <2>11
    <3> QED
      BY <2>3, <2>4, <2>5, <2>15, <3>1, <3>2 DEF AccountsInv, SInv, WalletsOK
  <2>20. FactorOK'
    <3>1. \A e \in calls : e.at = "saved" => e \in calls'
      BY <1>0, <2>11 DEF Move
    <3> QED
      BY <2>4, <2>9, <3>1, FactorSame
  <2> QED
    BY <2>9, <2>17, <2>18, <2>19, <2>20, ServerKeeps
<1> QED
  BY <1>1, <1>2

LEMMA createWalletStep == ASSUME AccountsInv, NEW c \in calls, Around, createWallet(c) PROVE AccountsInv'
<1>0. CallOK(c) /\ c.op = "wallet" /\ c.at = "req" /\ c.u \in Users /\ users[c.u].there /\ wallets[c.u] = 0
  BY CallHas DEF createWallet, At, CallOK, CallTyped, CallStaged, UserOps
<1>1. /\ wallets' = [wallets EXCEPT ![c.u] = @ + 1] /\ calls' = calls \ {c}
      /\ UNCHANGED <<users, answers, baskets, erasures, captchas, minted, cache, secrets, restarted, failed, todo, cvars, action, author, bot, sent, last, raced>>
  BY DEF createWallet, sessions, Around, hist, contact
<1>2. wallets' \in [Users -> 0..1] /\ wallets'[c.u] = 1 /\ \A u \in Users \ {c.u} : wallets'[u] = wallets[u]
  BY <1>0, <1>1 DEF AccountsInv, SInv, TablesOK
<1>3. Tables2
  <2>1. SessionsOK' /\ TodoOK' /\ bot' \in Bots
    BY <1>1, ServerHas, SameSessions, AroundHas
  <2> QED
    BY <1>1, <1>2, <2>1 DEF Tables2, AccountsInv, SInv, TablesOK, NoLostUpdate
<1>4. Grows
  BY <1>1, ServerHas DEF Grows
<1>5. Serves(c)
  <2>1. \A e \in calls \ {c} : e.op = "wallet" => e.u \in Users \ {c.u}
    BY <1>0 DEF AccountsInv, SInv, CallsApart, CallsOK, CallOK, CallTyped, UserOps
  <2> QED
    BY <1>1, <1>2, <1>3, <1>4, <2>1 DEF Serves
<1>6. CallsOK'
  BY <1>1, <1>5, OthersKeep, ServerHas DEF CallsOK
<1>7. CallsApart'
  BY <1>1 DEF AccountsInv, SInv, CallsApart, Active
<1>8. WalletsOK'
  BY <1>0, <1>1, <1>2 DEF AccountsInv, SInv, WalletsOK
<1>9. FactorOK'
  BY <1>0, <1>1, FactorSame
<1> QED
  BY <1>3, <1>4, <1>6, <1>7, <1>8, <1>9, ServerKeeps

(* Tokens are signed.                                                      *)
LEMMA MintShape ==
    ASSUME AccountsInv, NEW u \in Users, NEW row \in Rows, authorize(u, row), NEW k \in Nat, k = Len(minted) + 1
    PROVE  /\ minted' \in Seq(Tokens) /\ Len(minted') = k /\ DOMAIN minted' = DOMAIN minted \cup {k} /\ k \notin DOMAIN minted
           /\ (\A i \in DOMAIN minted : minted'[i] = minted[i]) /\ minted'[k] = Token(u, row) /\ minted'[k].user = u
           /\ DOMAIN minted = 1..Len(minted) /\ k # 0 /\ k \in 0..Len(minted')
<1>1. minted \in Seq(Tokens) /\ Len(minted) \in Nat
  BY ServerHas
<1>2. PICK x : x = Token(u, row)
  OBVIOUS
<1>3. x \in Tokens /\ x.user = u
  BY <1>2 DEF Token, Tokens, Rows
<1>4. minted' = Append(minted, x)
  BY <1>2 DEF authorize
<1> QED
  BY <1>1, <1>2, <1>3, <1>4

(* The basket of a login.                                                  *)
LEMMA BasketShape ==
    ASSUME AccountsInv, NEW u \in Users, baskets' = findOrCreate(u)
    PROVE  /\ baskets' \in Seq(Users) /\ (\A i, j \in DOMAIN baskets' : baskets'[i] = baskets'[j] => i = j)
           /\ \A i \in DOMAIN baskets : i \in DOMAIN baskets' /\ baskets'[i] = baskets[i]
           /\ BasketOf(u) \in Nat /\ BasketOf(u) \in DOMAIN baskets' /\ baskets'[BasketOf(u)] = u
<1>1. baskets \in Seq(Users) /\ (\A i, j \in DOMAIN baskets : baskets[i] = baskets[j] => i = j) /\ DOMAIN baskets = 1..Len(baskets)
      /\ Len(baskets) \in Nat
  BY DEF AccountsInv, SInv, TablesOK
<1>2. CASE OwnBasket(u) = {}
  <2>1. baskets' = Append(baskets, u) /\ BasketOf(u) = Len(baskets) + 1
    BY <1>2 DEF findOrCreate, BasketOf
  <2>2. \A i \in DOMAIN baskets : baskets[i] # u
    BY <1>2 DEF OwnBasket
  <2>3. /\ baskets' \in Seq(Users) /\ Len(baskets') = Len(baskets) + 1 /\ DOMAIN baskets' = 1..(Len(baskets) + 1)
        /\ baskets'[Len(baskets) + 1] = u /\ \A i \in 1..Len(baskets) : baskets'[i] = baskets[i]
    BY <1>1, <2>1
  <2> QED
    BY <1>1, <2>1, <2>2, <2>3
<1>3. CASE OwnBasket(u) # {}
  <2>1. baskets' = baskets /\ BasketOf(u) \in OwnBasket(u)
    BY <1>3 DEF findOrCreate, BasketOf
  <2> QED
    BY <1>1, <2>1 DEF OwnBasket
<1> QED
  BY <1>2, <1>3

LEMMA AnsweredToken ==
    ASSUME AccountsInv, NEW c \in calls, NEW tk \in Nat, NEW v \in Nat, NEW d, d = WithToken(c, tk, v)
    PROVE  Turned(c, d) /\ d.at = "ans" /\ d.tk = tk /\ d.res = "ok" /\ d.u = c.u /\ d.v = v /\ d.pw = c.pw
<1>1. c \in Calls /\ User \in Rows /\ "ans" \in Stages /\ "ok" \in Results
  BY CallHas, UserRow DEF Stages, Results
<1> QED
  BY <1>1 DEF WithToken, Answered, Turned, Calls

(* Without a race the new token is the only one, and its copy knows the    *)
(* second factor.                                                          *)
LEMMA FactorPut ==
    ASSUME AccountsInv, NEW k, NEW u \in Users, NEW row, NEW b, put(k, u, row, b), k \notin DOMAIN cache, raced \subseteq raced',
           TokensOf(u) # {} => u \in raced', \A x \in Users : users'[x].totp = users[x].totp, UNCHANGED restarted,
           \A c \in calls : c.at = "saved" => c \in calls',
           u \notin raced' /\ TokensOf(u) = {} => row.totp = users[u].totp \/ (restarted /\ users[u].totp = 0)
    PROVE  FactorOK'
<1>1. /\ TokensOf(u)' = TokensOf(u) \cup {k} /\ (\A x : x # u => TokensOf(x)' = TokensOf(x))
      /\ \A y \in DOMAIN cache : y \in DOMAIN cache' /\ cache'[y].user = cache[y].user
  BY PutTokens
<1>2. (\A x \in DOMAIN cache : cache'[x] = cache[x]) /\ cache'[k].totp = row.totp
  BY DEF put
<1>3. \A x : Saving(x) => Saving(x)'
  BY DEF Saving
<1>4. FactorOK
  BY DEF AccountsInv, SInv
<1>5. \A x \in Users : users'[x].totp # 0 => TokensOf(x)' # {}
  BY <1>1, <1>4 DEF FactorOK
<1>6. \A x \in Users \ raced' : \A y, z \in TokensOf(x)' : y = z
  BY <1>1, <1>4 DEF FactorOK
<1>7. \A x \in Users \ raced' : \A tk \in TokensOf(x)' :
        ~Saving(x)' => cache'[tk].totp = users'[x].totp \/ (restarted' /\ users'[x].totp = 0)
  <2> SUFFICES ASSUME NEW x \in Users \ raced', NEW tk \in TokensOf(x)', ~Saving(x)'
               PROVE  cache'[tk].totp = users'[x].totp \/ (restarted /\ users'[x].totp = 0)
    OBVIOUS
  <2>1. CASE x = u
    <3>1. TokensOf(u) = {} /\ tk = k
      BY <1>1, <2>1
    <3> QED
      BY <1>2, <2>1, <3>1
  <2>2. CASE x # u
    <3>1. tk \in TokensOf(x) /\ tk \in DOMAIN cache /\ ~Saving(x)
      BY <1>1, <1>3, <2>2 DEF TokensOf
    <3> QED
      BY <1>2, <1>4, <3>1 DEF FactorOK
  <2> QED
    BY <2>1, <2>2
<1> QED
  BY <1>5, <1>6, <1>7 DEF FactorOK

LEMMA afterLoginStep == ASSUME AccountsInv, NEW c \in calls, Around, afterLogin(c) PROVE AccountsInv'
<1>0. CallOK(c) /\ c.op \in LoginOps /\ c.at = "found" /\ c \in Calls
  BY CallHas DEF afterLogin, LoginOps
<1>1. c.u \in Users /\ users[c.u].there /\ c.op # "wallet" /\ c.row \in Rows
  BY <1>0, FoundHas
<1>2. PICK k \in Nat : k = Len(minted) + 1
  BY ServerHas
<1>3. /\ minted' \in Seq(Tokens) /\ Len(minted') = k /\ DOMAIN minted' = DOMAIN minted \cup {k} /\ k \notin DOMAIN minted
      /\ (\A i \in DOMAIN minted : minted'[i] = minted[i]) /\ minted'[k].user = c.u
      /\ DOMAIN minted = 1..Len(minted) /\ k # 0 /\ k \in 0..Len(minted')
  <2>1. authorize(c.u, c.row)
    BY DEF afterLogin
  <2> QED
    BY <1>1, <1>2, <2>1, MintShape
<1>4. PICK b \in Nat : b = BasketOf(c.u) /\ b \in DOMAIN baskets' /\ baskets'[b] = c.u
  BY <1>1, BasketShape DEF afterLogin
<1>5. put(k, c.u, c.row, b) /\ k \notin DOMAIN cache
  BY <1>2, <1>3, <1>4 DEF afterLogin, AccountsInv, SInv, SessionsOK
<1>6. UNCHANGED <<users, answers, wallets, erasures, captchas, secrets, sent, last, restarted, failed, todo, cvars, action, author, bot>>
  BY DEF afterLogin, Around, hist, contact
<1>7. raced \subseteq raced' /\ (TokensOf(c.u) # {} => c.u \in raced')
  BY DEF afterLogin, RacedPut
<1>8. SessionsOK'
  <2>1. c.row.password \in Nat /\ c.row.totp \in Nat /\ secrets' \in Nat
    BY <1>1, <1>6, ServerHas DEF Rows
  <2>2. k \in DOMAIN minted' /\ DOMAIN minted \subseteq DOMAIN minted'
    BY <1>3
  <2> QED
    BY <1>1, <1>3, <1>5, <1>6, <2>1, <2>2, PutSessions
<1>9. Tables2 /\ Grows /\ Serves(c)
  <2>1. TablesOK' /\ NoLostUpdate' /\ TodoOK' /\ bot' \in Bots
    <3>1. baskets' \in Seq(Users) /\ (\A i, j \in DOMAIN baskets' : baskets'[i] = baskets'[j] => i = j)
      BY <1>1, BasketShape DEF afterLogin
    <3> QED
      BY <1>6, <3>1, AroundHas DEF AccountsInv, SInv, TablesOK, NoLostUpdate
  <2>2. \A i \in DOMAIN baskets : i \in DOMAIN baskets' /\ baskets'[i] = baskets[i]
    BY <1>1, BasketShape DEF afterLogin
  <2>3. \A tk \in DOMAIN cache : tk \in DOMAIN cache' /\ cache'[tk].user = cache[tk].user
    BY <1>5, PutTokens
  <2>4. Len(minted) <= Len(minted') /\ \A i \in 1..Len(minted) : minted'[i] = minted[i]
    BY <1>2, <1>3, ServerHas
  <2>5. sent \in Nat /\ sent' = sent
    BY <1>6, ServerHas
  <2>6. Tables2 /\ Grows
    BY <1>6, <1>7, <1>8, <2>1, <2>2, <2>3, <2>4, <2>5 DEF Tables2, Grows
  <2> QED
    BY <1>6, <2>6 DEF Serves
<1>10. PICK d : d = WithToken(c, k, b)
  OBVIOUS
<1>11. Turns(c, d)
  BY <1>2, <1>4, <1>10 DEF afterLogin, Turns, WithToken
<1>12. Turned(c, d) /\ d.at = "ans" /\ d.tk = k /\ d.u = c.u /\ d.v = b
  BY <1>10, AnsweredToken
<1>13. Registering(d)' /\ LoggingIn(d)'
  BY <1>0, <1>3, <1>4, <1>12 DEF Registering, LoggingIn, LoginOps, Turned
<1>14. CallOK(d)' /\ ~Active(d)
  BY <1>1, <1>3, <1>9, <1>12, <1>13, AnsweredOK
<1>15. CallsOK'
  BY <1>9, <1>11, <1>14, MoveCalls
<1>16. CallsApart'
  BY <1>1, <1>7, <1>11, <1>12, <1>14, MoveApart
<1>17. WalletsOK'
  BY <1>1, <1>6, <1>11, MoveWallets
<1>18. FactorOK'
  <2>1. c.u \notin raced' /\ TokensOf(c.u) = {} => c.row.totp = users[c.u].totp
    BY <1>0, <1>7 DEF CallOK, RowIsFresh
  <2>2. \A e \in calls : e.at = "saved" => e \in calls'
    BY <1>0, <1>11 DEF Turns, Move
  <2>3. (\A x \in Users : users'[x].totp = users[x].totp) /\ UNCHANGED restarted
    BY <1>6
  <2>4. c.u \notin raced' /\ TokensOf(c.u) = {} => c.row.totp = users[c.u].totp \/ (restarted /\ users[c.u].totp = 0)
    BY <2>1
  <2> QED
    BY <1>1, <1>5, <1>7, <2>2, <2>3, <2>4, FactorPut
<1> QED
  BY <1>9, <1>15, <1>16, <1>17, <1>18, ServerKeeps

(* A name is saved, and another token signed.                              *)
LEMMA NameSavedStep ==
    ASSUME AccountsInv, NEW c \in calls, TalksAround, c.op \in {"username", "setname"}, c.at = "found", NameSaved(c), bot' \in Bots
    PROVE  AccountsInv'
<1>0. CallOK(c) /\ c \in Calls /\ c.v \in Nat
  BY CallHas
<1>1. c.u \in Users /\ users[c.u].there /\ c.op # "wallet" /\ c.row \in Rows /\ users[c.u] \in Rows
  BY FoundHas
<1>2. PICK k \in Nat : k = Len(minted) + 1
  BY ServerHas
<1>3. /\ minted' \in Seq(Tokens) /\ Len(minted') = k /\ DOMAIN minted' = DOMAIN minted \cup {k} /\ k \notin DOMAIN minted
      /\ (\A i \in DOMAIN minted : minted'[i] = minted[i]) /\ minted'[k].user = c.u
      /\ DOMAIN minted = 1..Len(minted) /\ k # 0 /\ k \in 0..Len(minted')
  <2>1. PICK row : row = [c.row EXCEPT !.name = c.v]
    OBVIOUS
  <2>2. row \in Rows
    BY <1>0, <1>1, <2>1 DEF Rows
  <2>3. authorize(c.u, row)
    BY <2>1 DEF NameSaved
  <2> QED
    BY <1>1, <1>2, <2>2, <2>3, MintShape
<1>4. put(k, c.u, c.row, 0) /\ k \notin DOMAIN cache
  BY <1>2, <1>3 DEF NameSaved, AccountsInv, SInv, SessionsOK
<1>5. PICK p \in Nat : p = Updated(c.row.name, users[c.u].name, c.v)
  BY <1>0, <1>1 DEF Updated, Rows
<1>6. PICK r : r = [users[c.u] EXCEPT !.name = p]
  OBVIOUS
<1>7. r \in Rows /\ r.there /\ r.totp = users[c.u].totp
  BY <1>1, <1>6 DEF Rows
<1>8. /\ users' = [users EXCEPT ![c.u] = r] /\ last' = users' /\ UNCHANGED <<answers, baskets, wallets, erasures, captchas>>
      /\ UNCHANGED <<secrets, sent, restarted, failed, todo, cvars, action, author>> /\ raced' = raced \cup {c.u}
  BY <1>5, <1>6 DEF NameSaved, AccountsInv, SInv, NoLostUpdate, TalksAround, hist
<1>9. /\ TablesOK' /\ NoLostUpdate' /\ users'[c.u] = r /\ (\A x \in Users \ {c.u} : users'[x] = users[x])
      /\ \A x \in Users : users'[x].there = users[x].there
  BY <1>1, <1>7, <1>8, RowWrite
<1>10. \A x \in Users : users'[x].totp = users[x].totp
  BY <1>7, <1>9
<1>11. SessionsOK'
  <2>1. c.row.password \in Nat /\ c.row.totp \in Nat /\ secrets' \in Nat /\ 0 \in Nat
    BY <1>1, <1>8, ServerHas DEF Rows
  <2>2. k \in DOMAIN minted' /\ DOMAIN minted \subseteq DOMAIN minted'
    BY <1>3
  <2> QED
    BY <1>1, <1>3, <1>4, <1>8, <2>1, <2>2, PutSessions
<1>12. Tables2 /\ Grows /\ Serves(c)
  <2>1. TodoOK'
    BY <1>8 DEF AccountsInv, BrowserInv, TodoOK
  <2>3. \A tk \in DOMAIN cache : tk \in DOMAIN cache' /\ cache'[tk].user = cache[tk].user
    BY <1>4, PutTokens
  <2>4. Len(minted) <= Len(minted') /\ \A i \in 1..Len(minted) : minted'[i] = minted[i]
    BY <1>2, <1>3, ServerHas
  <2>5. sent \in Nat /\ sent' = sent
    BY <1>8, ServerHas
  <2>6. Tables2 /\ Grows
    BY <1>8, <1>9, <1>11, <2>1, <2>3, <2>4, <2>5 DEF Tables2, Grows
  <2> QED
    BY <1>8, <1>10, <2>6 DEF Serves
<1>13. PICK d : d = WithToken(c, k, c.v)
  OBVIOUS
<1>14. Turns(c, d)
  <2>1. d = [Answered(c, "ok") EXCEPT !.tk = k]
    BY <1>0, <1>13 DEF WithToken, Answered, Calls
  <2> QED
    BY <1>2, <2>1 DEF NameSaved, Turns
<1>15. Turned(c, d) /\ d.at = "ans" /\ d.tk = k /\ d.u = c.u
  BY <1>0, <1>13, AnsweredToken
<1>16. Registering(d)' /\ LoggingIn(d)'
  BY <1>15 DEF Registering, LoggingIn, LoginOps, Turned
<1>17. CallOK(d)' /\ ~Active(d)
  BY <1>1, <1>3, <1>12, <1>15, <1>16, AnsweredOK
<1>18. CallsOK'
  BY <1>12, <1>14, <1>17, MoveCalls
<1>19. CallsApart'
  BY <1>1, <1>8, <1>14, <1>15, <1>17, MoveApart
<1>20. WalletsOK'
  BY <1>1, <1>8, <1>9, <1>14, MoveWallets
<1>21. FactorOK'
  <2>1. \A e \in calls : e.at = "saved" => e \in calls'
    BY <1>14 DEF Turns, Move
  <2>2. raced \subseteq raced' /\ c.u \in raced' /\ UNCHANGED restarted
    BY <1>8
  <2> QED
    BY <1>1, <1>4, <1>10, <2>1, <2>2, FactorPut
<1> QED
  BY <1>12, <1>18, <1>19, <1>20, <1>21, ServerKeeps

(* A token that was forgotten is trusted.                                  *)
LEMMA TrustedStep ==
    ASSUME AccountsInv, NEW c \in calls, Around, NEW tk \in 0..Len(minted), updateAuthenticatedUsers(tk), NEW d, Turns(c, d), Turned(c, d),
           d.at = "ans", d.tk \in 0..Len(minted), c.op \notin Committing \cup UserOps, c.at = "req",
           UNCHANGED <<tables, minted, secrets, last, sent>>
    PROVE  AccountsInv'
<1>0. c.op # "wallet" /\ Registering(d)' /\ LoggingIn(d)'
  BY DEF Registering, LoggingIn, Turned, Committing, LoginOps, UserOps
<1>1. CASE UNCHANGED <<cache, raced>>
  <2>1. Reads
    BY <1>1, ServerHas, TablesReads
  <2>2. CallOK(d)' /\ ~Active(d)
    BY <1>0, <2>1, ReadsServes, AnsweredOK
  <2> QED
    BY <1>0, <2>1, <2>2, ReadsMove
<1>2. CASE ~UNCHANGED <<cache, raced>>
  <2>1. tk # 0 /\ tk \notin DOMAIN cache /\ put(tk, minted[tk].user, minted[tk], 0) /\ RacedPut(minted[tk].user)
    BY <1>2 DEF updateAuthenticatedUsers, Known
  <2>2. PICK row \in Tokens : row = minted[tk]
    BY <2>1, ServerHas
  <2>3. PICK u \in Users : u = minted[tk].user
    BY <2>2 DEF Tokens
  <2>4. row.password \in Nat /\ row.totp \in Nat /\ 0 \in Nat /\ put(tk, u, row, 0) /\ tk \in DOMAIN minted
    BY <2>1, <2>2, <2>3, ServerHas DEF Tokens
  <2>5. UNCHANGED <<users, answers, baskets, wallets, erasures, captchas, minted, secrets, last, restarted, failed, todo, cvars,
                    action, author, bot, sent>>
    BY DEF Around, tables, hist, contact
  <2>6. raced \subseteq raced' /\ (TokensOf(u) # {} => u \in raced')
    BY <2>1, <2>3 DEF RacedPut
  <2>7. restarted
    BY <2>1, <2>4 DEF AccountsInv, SInv, SessionsOK
  <2>8. SessionsOK'
    <3>1. minted' \in Seq(Tokens) /\ tk \in DOMAIN minted' /\ minted'[tk].user = u /\ DOMAIN minted \subseteq DOMAIN minted'
          /\ (\A i \in DOMAIN minted : minted'[i] = minted[i]) /\ secrets' \in Nat
      BY <2>3, <2>4, <2>5, ServerHas
    <3> QED
      BY <2>3, <2>4, <2>5, <2>7, <3>1, PutSessions
  <2>9. Tables2 /\ Grows /\ Serves(c)
    <3>1. TablesOK' /\ NoLostUpdate' /\ TodoOK' /\ bot' \in Bots
      BY <2>5, AroundHas DEF AccountsInv, SInv, TablesOK, NoLostUpdate
    <3>2. \A x \in DOMAIN cache : x \in DOMAIN cache' /\ cache'[x].user = cache[x].user
      BY <2>1, <2>4, PutTokens
    <3>3. Tables2 /\ Grows
      BY <2>5, <2>6, <2>8, <3>1, <3>2, ServerHas DEF Tables2, Grows
    <3> QED
      BY <2>5, <3>3 DEF Serves
  <2>10. CallOK(d)' /\ ~Active(d)
    BY <1>0, <2>5, <2>9, AnsweredOK
  <2>11. CallsOK'
    BY <2>9, <2>10, MoveCalls
  <2>12. CallsApart'
    BY <1>0, <2>6, <2>10, MoveApart
  <2>13. WalletsOK'
    BY <1>0, <2>5, MoveWallets
  <2>14. FactorOK'
    <3>1. \A e \in calls : e.at = "saved" => e \in calls'
      BY DEF Turns, Move
    <3>2. TokensOf(u) = {} => row.totp = users[u].totp \/ (restarted /\ users[u].totp = 0)
      BY <2>7 DEF AccountsInv, SInv, FactorOK
    <3>3. (\A x \in Users : users'[x].totp = users[x].totp) /\ UNCHANGED restarted
      BY <2>5
    <3> QED
      BY <2>1, <2>3, <2>4, <2>6, <3>1, <3>2, <3>3, FactorPut
  <2> QED
    BY <2>9, <2>11, <2>12, <2>13, <2>14, ServerKeeps
<1> QED
  BY <1>1, <1>2

LEMMA retrieveLoggedInUserStep == ASSUME AccountsInv, NEW c \in calls, Around, retrieveLoggedInUser(c) PROVE AccountsInv'
<1>1. PICK tk \in 0..Len(minted) : tk = IF c.cookie # 0 THEN c.cookie ELSE c.auth
  BY CallHas
<1>2. updateAuthenticatedUsers(tk)
  BY <1>1 DEF retrieveLoggedInUser
<1>3. PICK u : u = IF c.cookie \in DOMAIN cache' THEN cache'[c.cookie].user ELSE No
  OBVIOUS
<1>4. u \in Users \cup {No}
  <2> SUFFICES ASSUME c.cookie \in DOMAIN cache' PROVE cache'[c.cookie].user \in Users
    BY <1>3
  <2>1. CASE UNCHANGED cache
    BY <2>1, CopyHas
  <2>2. CASE tk # 0 /\ put(tk, minted[tk].user, minted[tk], 0)
    <3>1. DOMAIN cache' = DOMAIN cache \cup {tk} /\ (\A x \in DOMAIN cache \ {tk} : cache'[x] = cache[x])
          /\ cache'[tk].user = minted[tk].user
      BY <2>2 DEF put
    <3>2. minted[tk] \in Tokens
      BY <2>2, ServerHas
    <3> QED
      BY <3>1, <3>2, CopyHas DEF Tokens
  <2> QED
    BY <1>2, <2>1, <2>2 DEF updateAuthenticatedUsers
<1>5. PICK k \in 0..Len(minted) : k = IF tk \in DOMAIN cache' \ DOMAIN cache THEN tk ELSE 0
  BY ServerHas
<1>6. PICK d : d = [Answered(c, "ok") EXCEPT !.u = u, !.tk = k]
  OBVIOUS
<1>7. Turns(c, d)
  BY <1>1, <1>3, <1>5, <1>6 DEF retrieveLoggedInUser, Turns
<1>8. Turned(c, d) /\ d.at = "ans" /\ d.tk = k
  <2>1. c \in Calls /\ User \in Rows /\ "ans" \in Stages /\ "ok" \in Results
    BY CallHas, UserRow DEF Stages, Results
  <2>2. k \in Nat
    BY ServerHas
  <2> QED
    BY <1>4, <1>6, <2>1, <2>2 DEF Answered, Turned, Calls
<1>9. c.op \notin Committing \cup UserOps /\ c.at = "req" /\ UNCHANGED <<tables, minted, secrets, last, sent>>
  BY DEF retrieveLoggedInUser, At, Committing, UserOps
<1> QED
  BY <1>2, <1>7, <1>8, <1>9, TrustedStep

LEMMA getUserProfileStep == ASSUME AccountsInv, NEW c \in calls, Around, getUserProfile(c) PROVE AccountsInv'
<1>1. PICK tk \in 0..Len(minted) : tk = IF c.cookie # 0 THEN c.cookie ELSE c.auth
  BY CallHas
<1>2. updateAuthenticatedUsers(tk)
  BY <1>1 DEF getUserProfile
<1>3. PICK res \in {"ok", "error"} : Answer(c, res)
  BY DEF getUserProfile
<1>4. res \in Results
  BY DEF Results
<1> DEFINE d == Answered(c, res)
<1>5. Turns(c, d) /\ UNCHANGED sent
  BY <1>3 DEF Answer, Turns
<1>6. Turned(c, d) /\ d.at = "ans" /\ d.tk = c.tk
  BY <1>4, AnsweredTurned
<1> HIDE DEF d
<1>7. c.op \notin Committing \cup UserOps /\ c.at = "req" /\ UNCHANGED <<tables, minted, secrets, last, sent>>
  BY <1>5 DEF getUserProfile, At, Committing, UserOps
<1> QED
  BY <1>2, <1>5, <1>6, <1>7, CallHas, TrustedStep

-----------------------------------------------------------------------------
(* Restarts, and steps that concern no call.                               *)

LEMMA StaticHas ==
    /\ StaticUsers \in [Users -> Rows]
    /\ \A u \in Users :
        /\ StaticUsers[u].totp = 0 /\ (StaticUsers[u].there \/ StaticUsers[u] = User)
        /\ u \in Registered => StaticUsers[u].there
        /\ u \notin Registered => ~StaticUsers[u].there
<1>1. NewUser(1) \in Rows /\ NewUser(1).totp = 0 /\ NewUser(1).there /\ User.totp = 0 /\ ~User.there
  BY DEF NewUser, User, Rows
<1>2. \A u \in Users : StaticUsers[u] = IF u \in Registered THEN NewUser(1) ELSE User
  BY DEF StaticUsers
<1>3. StaticUsers \in [Users -> Rows]
  BY <1>1, <1>2, UserRow DEF StaticUsers
<1> QED
  BY <1>1, <1>2, <1>3

LEMMA CrashStep == ASSUME AccountsInv, Crash PROVE AccountsInv'
<1>1. /\ users' = StaticUsers /\ last' = StaticUsers /\ answers' = Registered /\ baskets' = <<>> /\ erasures' = {}
      /\ wallets' = [u \in Users |-> IF u \in Registered THEN 1 ELSE 0] /\ captchas' = [u \in Users |-> <<>>]
      /\ cache' = <<>> /\ restarted' = TRUE /\ UNCHANGED <<minted, secrets, sent, failed, raced, cvars, action, asked, author, overlap>>
      /\ calls' = {IF c.at = "ans" THEN c ELSE Answered(c, "error") : c \in {d \in calls : d.t # No}}
  BY DEF Crash, Restart
<1>2. /\ TablesOK'
      /\ \A u \in Users :
          /\ users'[u].totp = 0 /\ (users'[u].there => wallets'[u] = 1)
          /\ ~users'[u].there => wallets'[u] = 0
  <2>2. <<>> \in Seq(Nat) /\ <<>> \in Seq(Users) /\ DOMAIN <<>> = {}
    OBVIOUS
  <2>3. wallets' \in [Users -> 0..1] /\ captchas' \in [Users -> Seq(Nat)]
    BY <1>1, <2>2
  <2> QED
    BY <1>1, <2>2, <2>3, StaticHas, AccountsAssumption DEF TablesOK
<1>3. DOMAIN cache' = {} /\ \A u : TokensOf(u)' = {}
  BY <1>1 DEF TokensOf
<1>4. SessionsOK'
  BY <1>1, <1>3 DEF AccountsInv, SInv, SessionsOK
<1>5. \A d \in calls' : \E c \in calls :
        /\ c.t # No /\ c.op # "wallet" /\ Turned(c, d) /\ d.at = "ans" /\ d.u = c.u /\ d.tk = c.tk /\ d.v = c.v
        /\ d = c \/ d.res = "error"
        /\ d = IF c.at = "ans" THEN c ELSE Answered(c, "error")
  <2> SUFFICES ASSUME NEW d \in calls', NEW c \in calls, c.t # No, d = IF c.at = "ans" THEN c ELSE Answered(c, "error")
               PROVE  /\ c.op # "wallet" /\ Turned(c, d) /\ d.at = "ans" /\ d.u = c.u /\ d.tk = c.tk /\ d.v = c.v
                      /\ d = c \/ d.res = "error"
    BY <1>1
  <2>1. c.op # "wallet" /\ c \in Calls /\ "error" \in Results
    BY CallHas DEF CallOK, CallStaged, Results
  <2> QED
    BY <2>1, AnsweredTurned DEF Turned
<1>6. CallsOK'
  <2> SUFFICES ASSUME NEW d \in calls' PROVE CallOK(d)'
    BY <1>1, ServerHas DEF CallsOK
  <2>1. PICK c \in calls : /\ c.t # No /\ c.op # "wallet" /\ Turned(c, d) /\ d.at = "ans" /\ d.u = c.u /\ d.tk = c.tk /\ d.v = c.v
                           /\ d = c \/ d.res = "error"
    BY <1>5
  <2>2. CallOK(c)
    BY CallHas
  <2>3. CallTyped(d)'
    BY <1>1, <2>1, <2>2 DEF CallOK, CallTyped, Turned
  <2>4. CallStaged(d)' /\ Registering(d)' /\ SettingFactor(d)' /\ RowIsFresh(d)'
    BY <1>1, <2>1 DEF CallStaged, Registering, SettingFactor, Active, RowIsFresh, Turned
  <2>5. LoggingIn(d)'
    BY <1>1, <2>1, <2>2 DEF CallOK, LoggingIn
  <2> QED
    BY <2>3, <2>4, <2>5 DEF CallOK
<1>7. CallsApart'
  <2> SUFFICES ASSUME NEW x \in calls', NEW y \in calls', x # y PROVE x.no # y.no /\ x.op # "wallet" /\ ~Active(x)
    BY DEF CallsApart, Active
  <2>1. PICK a \in calls : a.op # "wallet" /\ Turned(a, x) /\ x.at = "ans" /\ x = IF a.at = "ans" THEN a ELSE Answered(a, "error")
    BY <1>5
  <2>2. PICK b \in calls : Turned(b, y) /\ y = IF b.at = "ans" THEN b ELSE Answered(b, "error")
    BY <1>5
  <2> QED
    BY <2>1, <2>2 DEF Turned, Active, AccountsInv, SInv, CallsApart
<1>8. WalletsOK'
  BY <1>2 DEF WalletsOK
<1>9. FactorOK'
  BY <1>2, <1>3 DEF FactorOK
<1>10. TodoOK'
  BY BrowserHas, SpendOK DEF Crash, Restart
<1>11. SessionOK' /\ PersonOK' /\ LateOK' /\ PagesOK'
  BY <1>1 DEF AccountsInv, BrowserInv, cvars, session, SessionOK, BidIsOwn, PersonOK, ConfirmedOK, LateOK, PagesOK, PageOK
<1>12. ContactOK'
  <2>1. bot' = Untrained
    BY DEF Crash
  <2>2. bot' \in Bots
    <3>1. [u \in Users |-> 0] \in [Users -> Nat]
      OBVIOUS
    <3> QED
      BY <2>1, <3>1 DEF Untrained, Bots, NoNames
  <2> QED
    BY <1>1, <2>2 DEF AccountsInv, BrowserInv, ContactOK, Bots, cvars
<1>13. NoLostUpdate'
  BY <1>1 DEF NoLostUpdate
<1> QED
  BY <1>2, <1>4, <1>6, <1>7, <1>8, <1>9, <1>10, <1>11, <1>12, <1>13 DEF AccountsInv, SInv, BrowserInv

(* The chatbot is trained, and captchas grow old.                          *)
LEMMA initializeChatbotStep == ASSUME AccountsInv, initializeChatbot PROVE AccountsInv'
<1>1. UNCHANGED <<users, answers, baskets, wallets, erasures, captchas, minted, cache, secrets, calls, sent, todo, failed, restarted,
                  last, raced, local, cookie, bid, setBy, tmp, shown, page, phone, confirmed, late, action, author>>
  BY DEF initializeChatbot, vars, svars, cvars, tables, sessions, hist, session
<1>2. bot' \in Bots
  BY BotHas DEF initializeChatbot, Bots
<1>3. SInv'
  <2>1. TablesOK' /\ SessionsOK' /\ WalletsOK' /\ NoLostUpdate'
    BY <1>1 DEF AccountsInv, SInv, TablesOK, SessionsOK, WalletsOK, NoLostUpdate
  <2>2. CallsOK' /\ CallsApart'
    BY <1>1 DEF AccountsInv, SInv, CallsOK, CallOK, CallTyped, CallStaged, Registering, LoggingIn, SettingFactor, RowIsFresh,
                Active, Secret, TokensOf, CallsApart
  <2>3. FactorOK'
    BY <1>1 DEF AccountsInv, SInv, FactorOK, TokensOf, Saving
  <2> QED
    BY <2>1, <2>2, <2>3 DEF SInv
<1>4. BrowserInv'
  BY <1>1, <1>2 DEF AccountsInv, BrowserInv, TodoOK, SessionOK, BidIsOwn, Who, PersonOK, ConfirmedOK, LateOK, PagesOK, PageOK,
                    ContactOK, Bots
<1> QED
  BY <1>3, <1>4 DEF AccountsInv

LEMMA captchasForgottenStep == ASSUME AccountsInv, captchasForgotten, UNCHANGED contact PROVE AccountsInv'
<1>1. UNCHANGED <<users, answers, baskets, wallets, erasures, minted, cache, secrets, calls, sent, failed, restarted,
                  last, raced, local, cookie, bid, setBy, tmp, shown, page, phone, confirmed, late, action, author, bot>>
  BY DEF captchasForgotten, cvars, sessions, hist, session, contact
<1>2. captchas' \in [Users -> Seq(Nat)]
  <2>1. <<>> \in Seq(Nat)
    OBVIOUS
  <2> QED
    BY <2>1 DEF captchasForgotten, FiveMinutes
<1>3. SInv'
  <2>1. TablesOK' /\ SessionsOK' /\ WalletsOK' /\ NoLostUpdate'
    BY <1>1, <1>2 DEF AccountsInv, SInv, TablesOK, SessionsOK, WalletsOK, NoLostUpdate
  <2>2. CallsOK' /\ CallsApart'
    BY <1>1 DEF AccountsInv, SInv, CallsOK, CallOK, CallTyped, CallStaged, Registering, LoggingIn, SettingFactor, RowIsFresh,
                Active, Secret, TokensOf, CallsApart
  <2>3. FactorOK'
    BY <1>1 DEF AccountsInv, SInv, FactorOK, TokensOf, Saving
  <2> QED
    BY <2>1, <2>2, <2>3 DEF SInv
<1>4. TodoOK'
  BY BrowserHas, SpendOK DEF captchasForgotten
<1>5. BrowserInv'
  BY <1>1, <1>4 DEF AccountsInv, BrowserInv, SessionOK, BidIsOwn, Who, PersonOK, ConfirmedOK, LateOK, PagesOK, PageOK, ContactOK
<1> QED
  BY <1>3, <1>5 DEF AccountsInv

-----------------------------------------------------------------------------
(* The invariant.                                                          *)

LEMMA InitAccounts == Init => AccountsInv
<1> SUFFICES ASSUME Init PROVE AccountsInv
  OBVIOUS
<1>1. PICK s \in Scenarios :
        /\ todo = s.todo
        /\ local = (IF s.user = No THEN 0 ELSE 1)
        /\ minted = (IF s.user = No THEN <<>> ELSE <<Token(s.user, NewUser(1))>>)
        /\ cache = (IF s.user \notin Registered THEN <<>> ELSE <<[user |-> s.user, password |-> 1, totp |-> 0, bid |-> 1]>>)
        /\ baskets = (IF s.user \notin Registered THEN <<>> ELSE <<s.user>>)
        /\ restarted = (s.user \in Users \ Registered)
        /\ \E t \in todo.tabs :
            /\ bid = [x \in Tabs |-> IF x = t THEN local ELSE 0]
            /\ shown = [x \in Tabs |-> IF x = t THEN s.user ELSE No]
            /\ setBy = t
  BY DEF Init, PagesInit
<1>2. /\ cookie = local /\ page = [t \in Tabs |-> StartPage("search")] /\ users = StaticUsers /\ last = StaticUsers
      /\ answers = Registered /\ wallets = [u \in Users |-> IF u \in Registered THEN 1 ELSE 0]
      /\ erasures = {} /\ captchas = [u \in Users |-> <<>>] /\ secrets = 0 /\ calls = {} /\ sent = 0
      /\ failed = FALSE /\ raced = {} /\ tmp = No /\ phone = {} /\ confirmed = {} /\ late = [t \in Tabs |-> FALSE]
      /\ bot = Untrained /\ action = [t \in Tabs |-> <<>>] /\ author = [t \in Tabs |-> Unknown]
  BY DEF Init, PagesInit
<1>3. s.user \in Users \cup {No} /\ TodoOK
  BY <1>1, ScenariosAssumption DEF TodoOK
<1>4. PICK t \in Tabs : /\ bid = [x \in Tabs |-> IF x = t THEN local ELSE 0]
                        /\ shown = [x \in Tabs |-> IF x = t THEN s.user ELSE No]
                        /\ setBy = t
  BY <1>1, <1>3 DEF TodoOK
<1>5. s.user \in Registered => s.user \in Users /\ s.user # No
  BY AccountsAssumption
<1>6. <<>> \in Seq(Nat) /\ <<>> \in Seq(Users) /\ <<>> \in Seq(Tokens) /\ DOMAIN <<>> = {} /\ Len(<<>>) = 0
  OBVIOUS
<1>7. TablesOK
  <2>1. baskets \in Seq(Users) /\ \A i, j \in DOMAIN baskets : baskets[i] = baskets[j] => i = j
    <3>1. CASE s.user \notin Registered
      BY <1>1, <1>6, <3>1
    <3>2. CASE s.user \in Registered
      BY <1>1, <1>5, <3>2
    <3> QED
      BY <3>1, <3>2
  <2>2. wallets \in [Users -> 0..1] /\ captchas \in [Users -> Seq(Nat)]
    BY <1>2, <1>6
  <2> QED
    BY <1>2, <2>1, <2>2, StaticHas, AccountsAssumption DEF TablesOK
<1>8. /\ minted \in Seq(Tokens) /\ Len(minted) = local /\ local \in {0, 1} /\ (local = 1 => minted[1].user = s.user /\ s.user \in Users)
  <2>1. CASE s.user = No
    BY <1>1, <1>6, <2>1
  <2>2. CASE s.user # No
    <3>1. PICK x : x = Token(s.user, NewUser(1))
      OBVIOUS
    <3>2. x \in Tokens /\ x.user = s.user
      BY <1>3, <2>2, <3>1 DEF Token, NewUser, User, Tokens
    <3>3. minted = <<x>> /\ local = 1
      BY <1>1, <2>2, <3>1
    <3> QED
      BY <1>3, <2>2, <3>2, <3>3
  <2> QED
    BY <2>1, <2>2
<1>9. /\ s.user \notin Registered => DOMAIN cache = {}
      /\ s.user \in Registered => /\ DOMAIN cache = {1} /\ cache[1] \in Copies /\ cache[1].user = s.user /\ cache[1].totp = 0
                                  /\ local = 1
  <2>1. CASE s.user \notin Registered
    BY <1>1, <1>6, <2>1
  <2>2. CASE s.user \in Registered
    <3>1. PICK x : x = [user |-> s.user, password |-> 1, totp |-> 0, bid |-> 1]
      OBVIOUS
    <3>2. x \in Copies /\ x.user = s.user /\ x.totp = 0
      BY <1>5, <2>2, <3>1 DEF Copies
    <3>3. cache = <<x>> /\ local = 1
      BY <1>1, <1>5, <2>2, <3>1
    <3> QED
      BY <2>2, <3>2, <3>3
  <2> QED
    BY <2>1, <2>2
<1>10. SessionsOK
  <2>1. DOMAIN minted = 1..local
    BY <1>8
  <2>2. ~restarted => s.user \in Registered \/ local = 0
    BY <1>1, <1>3
  <2>3. s.user \notin Registered /\ local = 0 => DOMAIN cache = DOMAIN minted
    <3>1. 1..0 = {}
      OBVIOUS
    <3> QED
      BY <1>9, <2>1, <3>1
  <2>4. s.user \in Registered => DOMAIN cache = DOMAIN minted /\ \A tk \in DOMAIN cache : cache[tk] \in Copies /\ cache[tk].user = minted[tk].user
    <3>1. 1..1 = {1}
      OBVIOUS
    <3> QED
      BY <1>8, <1>9, <2>1, <3>1
  <2> QED
    BY <1>2, <1>8, <1>9, <2>2, <2>3, <2>4 DEF SessionsOK
<1>11. CallsOK /\ CallsApart /\ NoLostUpdate
  BY <1>2 DEF CallsOK, CallsApart, NoLostUpdate
<1>12. WalletsOK
  BY <1>2, StaticHas DEF WalletsOK
<1>13. FactorOK
  <2>1. \A u \in Users : users[u].totp = 0
    BY <1>2, StaticHas
  <2>2. \A u : \A tk \in TokensOf(u) : tk = 1 /\ cache[tk].totp = 0
    BY <1>9 DEF TokensOf
  <2> QED
    BY <2>1, <2>2 DEF FactorOK
<1>14. SessionOK
  <2>1. bid \in [Tabs -> Nat] /\ bid[t] = local
    BY <1>4, <1>8
  <2>2. BidIsOwn
    <3> SUFFICES ASSUME local # 0, ~restarted PROVE bid[t] \in DOMAIN baskets /\ baskets[bid[t]] = Who(local)
      BY <1>4 DEF BidIsOwn
    <3>1. local = 1 /\ s.user \in Registered
      BY <1>1, <1>3, <1>8
    <3>2. baskets = <<s.user>>
      BY <1>1, <3>1
    <3> QED
      BY <1>8, <2>1, <3>1, <3>2 DEF Who
  <2> QED
    BY <1>2, <1>4, <1>8, <2>1, <2>2 DEF SessionOK
<1>15. PersonOK /\ LateOK
  BY <1>2, <1>3, <1>4 DEF PersonOK, ConfirmedOK, LateOK
<1>16. PagesOK
  <2>1. 0 \in Nat /\ 0 \in 0..Len(minted)
    BY <1>8
  <2>2. PageOK(StartPage("search"))
    BY <2>1, NewPageOK DEF StartPage
  <2> QED
    BY <1>2, <2>2 DEF PagesOK
<1>17. ContactOK
  <2>1. [u \in Users |-> 0] \in [Users -> Nat]
    OBVIOUS
  <2>2. bot \in Bots
    BY <1>2, <2>1 DEF Untrained, Bots, NoNames
  <2>3. \A x \in Tabs : page[x].at = "search" /\ action[x] = <<>> /\ author[x] = Unknown
    BY <1>2 DEF StartPage, NewPage
  <2> QED
    BY <1>2, <1>6, <2>2, <2>3 DEF ContactOK, Bots
<1> QED
  BY <1>3, <1>7, <1>10, <1>11, <1>12, <1>13, <1>14, <1>15, <1>16, <1>17 DEF AccountsInv, SInv, BrowserInv

LEMMA ReceiveStep == ASSUME AccountsInv, NEW c \in calls, Receive(c), UNCHANGED contact PROVE BrowserStep
<1>1. CASE loginNext(c) \/ verifyNext(c) \/ loginTotp(c) \/ loginError(c)
  BY <1>1, LogInStep, loginTotpStep, loginErrorStep
<1>2. CASE verifyError(c) \/ ipSaved(c) \/ passwordChanged(c) \/ Ignored(c)
  BY <1>2, TakenSteps
<1>3. CASE userDetails(c) \/ oauthSaved(c) \/ invalidateSession(c) \/ saved(c) \/ answerSaved(c)
  BY <1>3, userDetailsStep, oauthSavedStep, invalidateSessionStep, savedStep, answerSavedStep
<1>4. CASE questionFound(c) \/ resetForm(c) \/ setupDone(c) \/ disableDone(c) \/ statusKnown(c)
  BY <1>4, questionFoundStep, resetFormStep, setupDoneStep, disableDoneStep, statusKnownStep
<1>5. CASE exported(c) \/ captchaShown(c) \/ pageLoaded(c) \/ usernameSaved(c) \/ erased(c)
  BY <1>5, exportedStep, captchaShownStep, pageLoadedStep, usernameSavedStep, erasedStep
<1> QED
  BY <1>1, <1>2, <1>3, <1>4, <1>5 DEF Receive

LEMMA VisitStep == ASSUME AccountsInv, NEW t \in Tabs, Visit(t), UNCHANGED contact PROVE BrowserStep
<1>1. CASE open(t) \/ submitLogin(t) \/ submitCode(t) \/ logout(t) \/ oauthLogin(t) \/ save(t)
  BY <1>1, openStep, submitLoginStep, submitCodeStep, logoutStep, oauthLoginStep, saveStep
<1>2. CASE emailTyped(t) \/ submitReset(t) \/ submitPassword(t) \/ submitSetup(t) \/ submitDisable(t)
  BY <1>2, emailTypedStep, submitResetStep, submitPasswordStep, submitFactorStep
<1>3. CASE saveExport(t) \/ goToProfilePage(t) \/ submit(t) \/ ngOnInit(t)
  BY <1>3, saveExportStep, goToProfilePageStep, submitStep, ngOnInitStep
<1> QED
  BY <1>1, <1>2, <1>3 DEF Visit

LEMMA HearStep == ASSUME AccountsInv, NEW c \in calls, Hear(c) PROVE BrowserStep
<1>1. CASE newCaptchaShown(c)
  <2>1. UNCHANGED contact
    BY <1>1 DEF newCaptchaShown
  <2> QED
    BY <1>1, <2>1, captchaShownStep
<1> QED
  BY <1>1, statusShownStep, messageSentStep, handleResponseStep, authorKnownStep, feedbackSavedStep DEF Hear

LEMMA ChatStep == ASSUME AccountsInv, NEW t \in Tabs, Chat(t) PROVE BrowserStep
  BY openChatbotStep, sendMessageStep, openContactStep, submitFeedbackStep DEF Chat

LEMMA HandleStep == ASSUME AccountsInv, NEW c \in calls, Handle(c), Around PROVE AccountsInv'
<1>1. CASE login(c) \/ verify(c) \/ saveLoginIp(c) \/ changePassword(c) \/ resetPassword(c) \/ updateUserProfile(c)
             \/ dataErasureForm(c) \/ dataExport(c)
  BY <1>1, readerSteps
<1>2. CASE afterLogin(c) \/ retrieveLoggedInUser(c) \/ securityQuestion(c) \/ updatePassword(c) \/ status(c)
  BY <1>2, afterLoginStep, retrieveLoggedInUserStep, securityQuestionStep, updatePasswordStep, statusStep
<1>3. CASE setup(c) \/ disable(c) \/ saveFactor(c) \/ factorSaved(c)
  BY <1>3, factorSteps, saveFactorStep, factorSavedStep
<1>4. CASE registerUser(c) \/ createWallet(c) \/ saveAnswer(c) \/ getUserProfile(c)
  BY <1>4, registerUserStep, createWalletStep, saveAnswerStep, getUserProfileStep
<1>5. CASE profileSaved(c)
  <2>1. c.op = "username" /\ c.at = "found" /\ NameSaved(c) /\ TalksAround /\ UNCHANGED bot
    BY <1>5 DEF profileSaved, At, TalksAround, Around, contact
  <2> QED
    BY <2>1, BotHas, NameSavedStep
<1>6. CASE dataErasure(c) \/ imageCaptchas(c)
  BY <1>6, dataErasureStep, imageCaptchasStep
<1> QED
  BY <1>1, <1>2, <1>3, <1>4, <1>5, <1>6 DEF Handle

LEMMA TalkStep == ASSUME AccountsInv, Talk PROVE AccountsInv'
<1>1. TalksAround
  BY DEF Talk, TalksAround
<1>2. PICK c \in calls : \/ (botStatus(c) \/ processQuery(c) \/ setUserName(c) \/ userNameSet(c)) /\ UNCHANGED <<captchaIds, feedbacks>>
                         \/ (newCaptcha(c) \/ saveFeedback(c)) /\ UNCHANGED bot
  BY DEF Talk
<1>3. CASE userNameSet(c)
  <2>1. c.op = "setname" /\ c.at = "found" /\ NameSaved(c) /\ addUser(c.u, c.v)
    BY <1>3 DEF userNameSet, At
  <2>2. c.u \in Users /\ c.v \in Nat
    BY <2>1, FoundHas, CallHas
  <2>3. bot' \in Bots
    BY <2>1, <2>2, AddUserKeeps
  <2> QED
    BY <1>1, <2>1, <2>3, NameSavedStep
<1>4. CASE newCaptcha(c) /\ UNCHANGED bot
  BY <1>1, <1>4, newCaptchaStep
<1>5. CASE botStatus(c) \/ processQuery(c) \/ setUserName(c) \/ (saveFeedback(c) /\ UNCHANGED bot)
  BY <1>1, <1>5, talkSteps
<1> QED
  BY <1>2, <1>3, <1>4, <1>5

(* A step of the system is one of the browser, or keeps the invariant.     *)
LEMMA NextCases ==
    ASSUME AccountsInv, Next
    PROVE  \/ BrowserStep
           \/ /\ AccountsInv'
              /\ \/ \E c \in calls : Handle(c)
                 \/ \E c \in calls : queryFails(c)
                 \/ Talk \/ initializeChatbot \/ captchasForgotten \/ Crash
<1>0. todo.tabs \subseteq Tabs
  BY BrowserHas DEF TodoOK
<1>1. CASE PagesNext /\ UNCHANGED contact
  <2>1. CASE Work
    <3>1. UNCHANGED cvars /\ Serve
      BY <2>1 DEF Work
    <3>2. CASE (\E c \in calls : Handle(c)) /\ UNCHANGED <<todo, hist>>
      <4>1. Around
        BY <1>1, <3>1, <3>2 DEF Around
      <4> QED
        BY <3>2, <4>1, HandleStep
    <3>3. CASE \E c \in calls : queryFails(c)
      <4>1. UNCHANGED <<cvars, contact>>
        BY <1>1, <3>1
      <4> QED
        BY <3>3, <4>1, queryFailsStep
    <3> QED
      BY <3>1, <3>2, <3>3 DEF Serve
  <2>2. CASE React
    BY <1>1, <2>2, ReceiveStep, findSecurityQuestionStep DEF React
  <2>3. CASE \E t \in todo.tabs : Visit(t)
    BY <1>0, <1>1, <2>3, VisitStep
  <2>4. CASE exportForgotten \/ captchasForgotten
    BY <1>1, <2>4, exportForgottenStep, captchasForgottenStep
  <2> QED
    BY <1>1, <2>1, <2>2, <2>3, <2>4 DEF PagesNext
<1>2. CASE Talk \/ initializeChatbot \/ Crash
  BY <1>2, TalkStep, initializeChatbotStep, CrashStep
<1>3. CASE \E c \in calls : Hear(c)
  BY <1>3, HearStep
<1>4. CASE \E t \in todo.tabs : Chat(t)
  BY <1>0, <1>4, ChatStep
<1> QED
  BY <1>1, <1>2, <1>3, <1>4 DEF Next

LEMMA AccountsStep == ASSUME AccountsInv, [Next]_allvars PROVE AccountsInv'
<1>1. CASE Next
  <2>1. BrowserStep => AccountsInv'
    BY BrowserKeeps DEF BrowserStep, AccountsInv
  <2> QED
    BY <1>1, <2>1, NextCases
<1>2. CASE UNCHANGED allvars
  <2>1. UNCHANGED <<users, answers, baskets, wallets, erasures, captchas, minted, cache, secrets, calls, sent, todo, failed, restarted,
                    last, raced, local, cookie, bid, setBy, tmp, shown, page, phone, confirmed, late, action, author, bot>>
    BY <1>2 DEF allvars, contact, vars, svars, cvars, tables, sessions, hist, session
  <2>2. SInv'
    <3>1. TablesOK' /\ SessionsOK' /\ WalletsOK' /\ NoLostUpdate'
      BY <2>1 DEF AccountsInv, SInv, TablesOK, SessionsOK, WalletsOK, NoLostUpdate
    <3>2. CallsOK' /\ CallsApart'
      BY <2>1 DEF AccountsInv, SInv, CallsOK, CallOK, CallTyped, CallStaged, Registering, LoggingIn, SettingFactor, RowIsFresh,
                  Active, Secret, TokensOf, CallsApart
    <3>3. FactorOK'
      BY <2>1 DEF AccountsInv, SInv, FactorOK, TokensOf, Saving
    <3> QED
      BY <3>1, <3>2, <3>3 DEF SInv
  <2>3. BrowserInv'
    BY <2>1 DEF AccountsInv, BrowserInv, TodoOK, SessionOK, BidIsOwn, Who, PersonOK, ConfirmedOK, LateOK, PagesOK, PageOK, ContactOK
  <2> QED
    BY <2>2, <2>3 DEF AccountsInv
<1> QED
  BY <1>1, <1>2

(* AccountsInv is an invariant of the accounts, their pages, the chatbot   *)
(* and the feedback form, whatever users, tabs and scenarios there are.    *)
THEOREM AccountsInvariant == Spec => []AccountsInv
  BY InitAccounts, AccountsStep, PTL DEF Spec

LEMMA InvAgrees == AccountsInv => AccountsAgree
<1> SUFFICES ASSUME AccountsInv PROVE AccountsAgree
  OBVIOUS
<1>1. TypeOK
  <2>1. \A c \in calls : c.no \in 1..sent
    BY DEF AccountsInv, SInv, CallsOK, CallOK, CallTyped
  <2> QED
    BY <2>1 DEF AccountsInv, SInv, BrowserInv, TablesOK, SessionsOK, SessionOK, PersonOK, LateOK, TypeOK, SecurityAnswer,
                PrivacyRequest, ImageCaptcha
<1>2. NoLostUpdate /\ BidIsOwn
  BY DEF AccountsInv, SInv, BrowserInv, SessionOK
<1>3. SessionKnows2fa
  <2> SUFFICES ASSUME NEW tk \in DOMAIN cache, cache[tk].user \notin raced, ~restarted,
                      \A c \in calls : c.op \notin {"setup", "disable"}
               PROVE  cache[tk].totp = users[cache[tk].user].totp
    BY DEF SessionKnows2fa
  <2>1. PICK u \in Users : u = cache[tk].user
    BY CopyHas
  <2>2. ~Saving(u) /\ tk \in TokensOf(u)
    BY <2>1 DEF Saving, FactorOps, TokensOf
  <2> QED
    BY <2>1, <2>2 DEF AccountsInv, SInv, FactorOK
<1>4. RegisteredComplete
  <2>1. ~restarted => \A u \in confirmed : users[u].there /\ u \in answers
    BY DEF AccountsInv, BrowserInv, PersonOK, ConfirmedOK
  <2>2. \A u \in Users : users[u].there /\ ~failed /\ (\A c \in calls : c.op # "wallet") => wallets[u] = 1
    <3> SUFFICES ASSUME NEW u \in Users, users[u].there, ~failed, \A c \in calls : c.op # "wallet" PROVE wallets[u] = 1
      OBVIOUS
    <3>1. wallets[u] \in 0..1 /\ wallets[u] # 0
      BY DEF AccountsInv, SInv, TablesOK, WalletsOK
    <3> QED
      BY <3>1
  <2> QED
    BY <2>1, <2>2 DEF RegisteredComplete
<1> QED
  BY <1>1, <1>2, <1>3, <1>4 DEF AccountsAgree

(* The rows, the copies of the users that the server keeps for its tokens  *)
(* and the ids in the browser agree, for any number of users, tabs and     *)
(* calls under way (login, register, setup and disable, changePassword,    *)
(* afterLogin).                                                            *)
THEOREM AccountsAgreeTheorem == Spec => []AccountsAgree
  BY AccountsInvariant, InvAgrees, PTL

LEMMA ReplacedStep == ASSUME AccountsInv, [Next]_allvars PROVE Replaced
<1>0. UNCHANGED users => Replaced
  BY DEF Replaced
<1>1. CASE UNCHANGED allvars
  BY <1>0, <1>1 DEF allvars, vars, svars, tables
<1>2. CASE BrowserStep
  BY <1>0, <1>2 DEF BrowserStep, Quiet, tables
<1>3. CASE Talk \/ initializeChatbot \/ captchasForgotten \/ Crash \/ \E c \in calls : Handle(c) \/ queryFails(c)
  <2>1. CASE initializeChatbot \/ captchasForgotten \/ \E c \in calls : queryFails(c)
    BY <1>0, <2>1 DEF initializeChatbot, captchasForgotten, queryFails, vars, svars, tables
  <2>2. CASE Crash
    BY <2>2, StaticHas DEF Crash, Restart, Replaced
  <2>3. ASSUME NEW c \in calls, NameSaved(c) PROVE Replaced
    <3>1. \A u \in Users : users'[u].totp = users[u].totp
      BY <2>3, ServerHas DEF NameSaved, Rows
    <3> QED
      BY <3>1 DEF Replaced
  <2>4. CASE Talk
    <3>1. PICK c \in calls : UNCHANGED tables \/ NameSaved(c)
      BY <2>4 DEF Talk, botStatus, processQuery, setUserName, userNameSet, newCaptcha, saveFeedback
    <3> QED
      BY <1>0, <2>3, <3>1 DEF tables
  <2>5. ASSUME NEW c \in calls, Handle(c) PROVE Replaced
    <3>1. CASE saveFactor(c)
      <4>1. CallOK(c) /\ c.op \in FactorOps /\ c.at = "found" /\ Active(c)
        BY <3>1, CallHas DEF saveFactor, FactorOps, Active
      <4>2. c.u \in Users /\ users[c.u] \in Rows
        BY <4>1, FoundHas
      <4>3. users'[c.u].totp = Updated(c.row.totp, users[c.u].totp, Secret(c)) /\ \A u \in Users \ {c.u} : users'[u] = users[u]
        BY <3>1, <4>2, ServerHas DEF saveFactor, Rows
      <4>4. c.u \notin raced /\ users[c.u].totp # 0 => c.op = "disable"
        BY <4>1 DEF CallOK, SettingFactor, FactorOps
      <4> QED
        BY <4>2, <4>3, <4>4 DEF Replaced, Updated, Secret
    <3>2. CASE registerUser(c)
      <4>1. users[c.u].there \/ users[c.u].totp = 0
        BY <3>2, CallHas DEF registerUser, At, CallOK, CallTyped, UserOps, AccountsInv, SInv, TablesOK, User
      <4> QED
        BY <1>0, <3>2, <4>1, ServerHas DEF registerUser, Row, Replaced
    <3>3. CASE updatePassword(c)
      <4>1. \A u \in Users : users'[u].totp = users[u].totp
        BY <3>3, ServerHas DEF updatePassword, Rows
      <4> QED
        BY <4>1 DEF Replaced
    <3>4. CASE profileSaved(c)
      BY <2>3, <3>4 DEF profileSaved
    <3>5. CASE ~(saveFactor(c) \/ registerUser(c) \/ updatePassword(c) \/ profileSaved(c))
      <4>1. UNCHANGED users
        BY <2>5, <3>5 DEF Handle, login, verify, afterLogin, retrieveLoggedInUser, saveLoginIp, changePassword, securityQuestion,
             resetPassword, status, setup, disable, factorSaved, createWallet, saveAnswer, getUserProfile, updateUserProfile,
             dataErasureForm, dataErasure, imageCaptchas, dataExport, tables
      <4> QED
        BY <1>0, <4>1
    <3> QED
      BY <3>1, <3>2, <3>3, <3>4, <3>5
  <2> QED
    BY <1>3, <2>1, <2>2, <2>4, <2>5
<1> QED
  BY <1>1, <1>2, <1>3, NextCases

(* A second factor is only replaced by another one, without being removed  *)
(* first, if the user has several sessions or has set it up twice at the   *)
(* same time (2fa.ts:117): within a session the copy of the user that the  *)
(* server keeps prevents it, although the row was read before an await.    *)
THEOREM OverwriteNeedsRaceTheorem == Spec => OverwriteNeedsRace
<1>1. AccountsInv /\ [Next]_allvars => [Replaced]_vars
  BY ReplacedStep
<1>2. Spec => [][Replaced]_vars
  BY <1>1, AccountsInvariant, PTL DEF Spec
<1> QED
  BY <1>2 DEF OverwriteNeedsRace, Replaced
-----------------------------------------------------------------------------
(* The forms.                                                              *)

(* Tokens that were signed stay what they are.                             *)
LEMMA WhoStays ==
    ASSUME AccountsInv, Passes
    PROVE  \A tk \in 0..Len(minted) : Who(tk)' = Who(tk) /\ (tk # 0 => minted'[tk] = minted[tk] /\ minted[tk] \in Tokens /\ Who(tk) \in Users)
<1> SUFFICES ASSUME NEW tk \in 0..Len(minted)
             PROVE  Who(tk)' = Who(tk) /\ (tk # 0 => minted'[tk] = minted[tk] /\ minted[tk] \in Tokens /\ Who(tk) \in Users)
  OBVIOUS
<1>1. minted \in Seq(Tokens) /\ Len(minted) \in Nat
  BY ServerHas
<1>2. tk # 0 => tk \in 1..Len(minted) /\ minted'[tk] = minted[tk] /\ minted[tk] \in Tokens
  BY <1>1 DEF Passes
<1>3. tk # 0 => minted[tk].user \in Users
  BY <1>2 DEF Tokens
<1> QED
  BY <1>2, <1>3 DEF Who

LEMMA CallNumbers ==
    ASSUME AccountsInv, NEW c \in calls
    PROVE  /\ c \in Calls /\ c.auth \in 0..Len(minted) /\ c.cookie \in 0..Len(minted) /\ c.tk \in 0..Len(minted)
           /\ c.pg \in Nat /\ c.t \in Tabs \cup {No}
<1>1. CallTyped(c)
  BY DEF AccountsInv, SInv, CallsOK, CallOK
<1> QED
  BY <1>1 DEF CallTyped, Calls

LEMMA PageNumbers ==
    ASSUME AccountsInv, NEW t \in Tabs
    PROVE  page[t].n \in Nat /\ page[t].tk \in 0..Len(minted) /\ page[t].captcha \in Nat /\ late[t] \in BOOLEAN
  BY DEF AccountsInv, BrowserInv, PagesOK, PageOK, LateOK

LEMMA NotSaid == "" \notin Said
  BY Zenon DEF Said

LEMMA PagesFitKept == ASSUME BothInv, Passes, NewFits PROVE PagesFit'
<1> SUFFICES ASSUME NEW d \in calls'
             PROVE  /\ d.t \in Tabs => d.pg <= page'[d.t].n
                    /\ Open(d)' /\ d.op \in FeedbackOps => page'[d.t].at = "contact"
                    /\ Open(d)' /\ d.op \in ExportOps => page'[d.t].at = "export"
  BY DEF PagesFit
<1>1. CASE Added(d)
  BY <1>1 DEF Added, NewFits
<1>2. CASE \E c \in calls : Follows(c, d)
  <2>1. PICK c \in calls : Follows(c, d)
    BY <1>2
  <2> SUFFICES ASSUME d.t \in Tabs
               PROVE  /\ d.pg <= page'[d.t].n
                      /\ Open(d)' /\ d.op \in FeedbackOps => page'[d.t].at = "contact"
                      /\ Open(d)' /\ d.op \in ExportOps => page'[d.t].at = "export"
    BY DEF Open
  <2>2. d.t = c.t /\ d.pg = c.pg /\ d.op = c.op /\ c.t \in Tabs
    BY <2>1, AccountsAssumption DEF Follows
  <2>3. c.pg \in Nat /\ page[c.t].n \in Nat /\ page'[c.t].n \in Nat
    <3>1. AccountsInv /\ AccountsInv'
      BY DEF BothInv
    <3> QED
      BY <2>2, <3>1, CallNumbers, PageNumbers DEF AccountsInv, BrowserInv, PagesOK, PageOK
  <2>4. /\ c.pg <= page[c.t].n
        /\ c.pg = page[c.t].n /\ c.op \in FeedbackOps => page[c.t].at = "contact"
        /\ c.pg = page[c.t].n /\ c.op \in ExportOps => page[c.t].at = "export"
    BY <2>2 DEF BothInv, FormInv, PagesFit, Open
  <2>5. PageMoves(c.t)
    BY <2>2 DEF Passes
  <2> QED
    BY <2>2, <2>3, <2>4, <2>5 DEF PageMoves, Open
<1> QED
  BY <1>1, <1>2 DEF Passes

LEMMA FeedbackKept == ASSUME BothInv, Passes, ContactStays \/ restarted', NewFeedback PROVE FeedbackInv'
<1> SUFFICES ASSUME ~restarted' PROVE FeedbackInv'
  BY DEF FeedbackInv
<1>1. ~restarted /\ FeedbackInv /\ captchaIds \subseteq captchaIds'
  BY DEF Passes, BothInv, FormInv
<1>2. \A t \in Tabs : page'[t].at = "contact" => page'[t].captcha \in captchaIds' \cup {0}
  BY <1>1 DEF ContactStays, FeedbackInv
<1>3. \A d \in calls' : d.op = "captchas" /\ d.res = "ok" => d.v \in captchaIds'
  <2> SUFFICES ASSUME NEW d \in calls', d.op = "captchas", d.res = "ok" PROVE d.v \in captchaIds'
    OBVIOUS
  <2>1. ~Added(d)
    BY DEF Added, Said
  <2>2. PICK c \in calls : Follows(c, d)
    BY <2>1 DEF Passes
  <2>3. c.op = "captchas" /\ ((c.res = "ok" /\ d.v = c.v) \/ d.v \in captchaIds')
    BY <2>2 DEF Follows
  <2> QED
    BY <1>1, <2>3 DEF FeedbackInv
<1>4. \A d \in calls' : d.op = "feedback" => d.v \in captchaIds' /\ d.res # "401"
  <2> SUFFICES ASSUME NEW d \in calls', d.op = "feedback" PROVE d.v \in captchaIds' /\ d.res # "401"
    OBVIOUS
  <2>1. CASE Added(d)
    BY <2>1, <1>1 DEF Added, Said, NewFeedback
  <2>2. CASE \E c \in calls : Follows(c, d)
    <3>1. PICK c \in calls : Follows(c, d)
      BY <2>2
    <3>2. c.op = "feedback" /\ d.v = c.v /\ (d.res = "401" => c.res = "401" \/ c.v \notin captchaIds)
      BY <3>1 DEF Follows, WordOps
    <3> QED
      BY <1>1, <3>2 DEF FeedbackInv
  <2> QED
    BY <2>1, <2>2 DEF Passes
<1> QED
  BY <1>2, <1>3, <1>4 DEF FeedbackInv

(* Who is heard stays so.                                                  *)
LEMMA HeardStays ==
    ASSUME BothInv, Passes, ~restarted', NEW c \in calls, NEW d, d.auth = c.auth, d.cookie = c.cookie, Heard(c)
    PROVE  Heard(d)'
<1>1. c.auth \in 0..Len(minted) /\ c.cookie \in 0..Len(minted)
  BY CallNumbers DEF BothInv
<1>2. Sender(c) \in 0..Len(minted) /\ Sender(d) = Sender(c)
  BY <1>1 DEF Sender
<1>3. Sender(c) # 0 => minted'[Sender(c)] = minted[Sender(c)] /\ minted[Sender(c)].user \in Users
  BY <1>2, WhoStays DEF BothInv, Tokens
<1>4. \A u \in Users : bot.names[u] # 0 => bot'.names[u] # 0
  BY DEF Passes
<1> QED
  BY <1>2, <1>3, <1>4 DEF Heard, Sender

LEMMA QuestionKept == ASSUME BothInv, Passes, NewHeard PROVE QuestionInv'
<1> SUFFICES ASSUME ~restarted', NEW d \in calls'
             PROVE  /\ d.op = "chatstatus" /\ d.res \in {"trained", "namequery"} => Heard(d)'
                    /\ d.op = "query" /\ d.pw = 1 => Heard(d)' /\ d.res # "greeting"
  BY DEF QuestionInv
<1>1. ~restarted /\ QuestionInv
  BY DEF Passes, BothInv, FormInv
<1>2. CASE Added(d)
  BY <1>2 DEF Added, Said, NewHeard
<1>3. CASE \E c \in calls : Follows(c, d)
  <2>1. PICK c \in calls : Follows(c, d)
    BY <1>3
  <2>2. c.op = d.op /\ d.auth = c.auth /\ d.cookie = c.cookie
    BY <2>1 DEF Follows
  <2>3. Heard(c) => Heard(d)'
    BY <2>2, HeardStays
  <2>4. CASE d.op = "chatstatus"
    <3>1. d.res \in {"trained", "namequery"} => d.res = c.res \/ Heard(d)'
      BY <2>1, <2>4 DEF Follows
    <3> QED
      BY <1>1, <2>2, <2>3, <2>4, <3>1 DEF QuestionInv
  <2>5. CASE d.op = "query"
    <3>1. d.pw = c.pw /\ (d.res = "greeting" => c.res = "greeting" \/ ~Heard(c))
      BY <2>1, <2>5 DEF Follows, ChatOps
    <3> QED
      BY <1>1, <2>2, <2>3, <2>5, <3>1 DEF QuestionInv
  <2> QED
    BY <2>4, <2>5
<1> QED
  BY <1>2, <1>3 DEF Passes

LEMMA TokenKept == ASSUME BothInv, Passes, NewTokenOnce PROVE TokenInv'
<1> SUFFICES ASSUME NEW d \in calls', Brings(d)
             PROVE  /\ d.tk # local'
                    /\ \A t \in Tabs : page'[t].tk # d.tk
                    /\ \A e \in calls' : e.auth # d.tk
                    /\ \A e \in calls' : Brings(e) /\ e.tk = d.tk => e = d
  BY DEF TokenInv, Brings
<1>1. AccountsInv /\ AccountsInv' /\ TokenInv
  BY DEF BothInv, FormInv
<1>2. Len(minted) \in Nat /\ local \in 0..Len(minted)
  BY <1>1, ServerHas DEF AccountsInv, BrowserInv, SessionOK
<1>3. \A e \in calls' : Brings(e) => \E c \in calls : Follows(c, e) /\ c.op = e.op /\ (e.tk = c.tk \/ e.tk > Len(minted))
  BY DEF Passes, Added, Follows, Brings, BringOps
<1>4. \A c \in calls : c.tk \in 0..Len(minted) /\ c.auth \in 0..Len(minted)
  BY <1>1, CallNumbers
<1>5. local' \in 0..Len(minted)
  BY <1>2, <1>4 DEF Passes, LocalMoves
<1>6. \A t \in Tabs : page'[t].tk \in {0, local, local', page[t].tk} /\ page[t].tk \in 0..Len(minted)
  BY <1>1, PageNumbers DEF Passes, PageMoves
<1>7. \A e \in calls' : e.auth \in {0, local, local'} \/ \E c \in calls : e.auth = c.auth
  BY DEF Passes, Added, Follows
<1>8. \A e \in calls' : e.no = d.no => e = d
  BY <1>1 DEF AccountsInv, SInv, CallsApart
<1>9. CASE d.tk > Len(minted)
  <2>1. \A e \in calls' : Brings(e) /\ e.tk = d.tk => e = d
    BY <1>9 DEF NewTokenOnce
  <2> QED
    BY <1>2, <1>4, <1>5, <1>6, <1>7, <1>9, <2>1
<1>10. CASE ~(d.tk > Len(minted))
  <2>1. PICK c \in calls : Follows(c, d) /\ c.op = d.op /\ d.tk = c.tk
    BY <1>3, <1>10
  <2>2. Brings(c) /\ d.tk # 0
    BY <2>1 DEF Brings
  <2>3. /\ c.tk # local /\ (\A t \in Tabs : page[t].tk # c.tk) /\ (\A e \in calls : e.auth # c.tk)
        /\ \A e \in calls : Brings(e) /\ e.tk = c.tk => e = c
    BY <1>1, <2>2 DEF TokenInv
  <2>4. d.tk # local'
    <3>1. CASE local' \in {local, 0}
      BY <2>1, <2>2, <2>3, <3>1
    <3>2. CASE \E x \in calls : Brings(x) /\ x.tk = local' /\ \A y \in calls' : y.no # x.no
      <4>1. PICK x \in calls : Brings(x) /\ x.tk = local' /\ \A y \in calls' : y.no # x.no
        BY <3>2
      <4>2. x # c
        BY <4>1, <2>1 DEF Follows
      <4> QED
        BY <4>1, <4>2, <2>1, <2>3
    <3> QED
      BY <3>1, <3>2 DEF Passes, LocalMoves
  <2>5. \A t \in Tabs : page'[t].tk # d.tk
    BY <1>6, <2>1, <2>2, <2>3, <2>4
  <2>6. \A e \in calls' : e.auth # d.tk
    BY <1>7, <2>1, <2>2, <2>3, <2>4
  <2>7. \A e \in calls' : Brings(e) /\ e.tk = d.tk => e = d
    <3> SUFFICES ASSUME NEW e \in calls', Brings(e), e.tk = d.tk PROVE e = d
      OBVIOUS
    <3>1. PICK x \in calls : Follows(x, e) /\ x.op = e.op /\ (e.tk = x.tk \/ e.tk > Len(minted))
      BY <1>3
    <3>2. Brings(x) /\ x.tk = c.tk
      BY <3>1, <2>1, <1>10 DEF Brings
    <3>3. x = c
      BY <3>2, <2>3
    <3> QED
      BY <3>1, <3>3, <2>1, <1>8 DEF Follows
  <2> QED
    BY <2>4, <2>5, <2>6, <2>7
<1> QED
  BY <1>9, <1>10

LEMMA AskedKept ==
    ASSUME BothInv, Passes, UNCHANGED <<action, asked>>,
           \A t \in Tabs : page'[t].n # page[t].n => page'[t].at # "chatbot"
    PROVE  Asked'
<1>1. \A t \in Tabs : page[t].n \in Nat /\ PageMoves(t)
  BY PageNumbers DEF BothInv, Passes
<1>2. \A t \in Tabs : page'[t].at = "chatbot" => page'[t].n = page[t].n /\ page[t].at = "chatbot"
  BY <1>1 DEF PageMoves
<1> QED
  BY <1>2 DEF BothInv, FormInv, NameInv, Asked

LEMMA WordedKept == ASSUME BothInv, Passes, NewWords PROVE Worded'
<1> SUFFICES ASSUME NEW d \in calls'
             PROVE  /\ d.op = "username" => d.v = 1
                    /\ d.op = "setname" \/ (d.op = "chatstatus" /\ d.pw = 1) => d.v # 0
  BY DEF Worded
<1>1. CASE Added(d)
  BY <1>1 DEF NewWords
<1>2. CASE \E c \in calls : Follows(c, d)
  <2>1. PICK c \in calls : Follows(c, d)
    BY <1>2
  <2>2. d.op = c.op /\ (d.op \in {"username", "setname", "chatstatus"} => d.v = c.v) /\ (d.op = "chatstatus" => d.pw = c.pw)
    BY <2>1 DEF Follows, WordOps, ChatOps
  <2> QED
    BY <2>2 DEF BothInv, FormInv, NameInv, Worded
<1> QED
  BY <1>1, <1>2 DEF Passes

LEMMA NamesKept == ASSUME BothInv, NamesMove, ~overlap PROVE \A u \in Users : users'[u].name # 2
<1>1. /\ \A u \in Users : users[u].name # 2
      /\ \A c \in calls : c.op \in {"username", "setname"} => c.v # 2
  BY DEF BothInv, FormInv, NameInv, InTurn, Worded
<1> QED
  BY <1>1 DEF NamesMove

(* Nothing is said to the chatbot, or only in its turn.                    *)
LEMMA InTurnKept ==
    ASSUME BothInv, Passes, NamesMove, UNCHANGED <<action, overlap>>, \A d \in calls' : Added(d) => d.op \notin ChatOps
    PROVE  InTurn'
<1> SUFFICES ASSUME ~overlap PROVE InTurn'
  BY DEF InTurn
<1>1. InTurn /\ AccountsInv'
  BY DEF BothInv, FormInv, NameInv
<1>2. \A d \in calls' : d.op \in ChatOps =>
        \E c \in calls : c.no = d.no /\ c.op = d.op /\ c.v = d.v /\ c.pw = d.pw /\ c.pg = d.pg /\ (d.t \in Tabs => c.t = d.t)
  <2> SUFFICES ASSUME NEW d \in calls', d.op \in ChatOps
               PROVE  \E c \in calls : /\ c.no = d.no /\ c.op = d.op /\ c.v = d.v /\ c.pw = d.pw /\ c.pg = d.pg
                                       /\ d.t \in Tabs => c.t = d.t
    OBVIOUS
  <2>1. PICK c \in calls : Follows(c, d)
    BY DEF Passes
  <2> QED
    BY <2>1, AccountsAssumption DEF Follows, ChatOps, WordOps
<1>3. \A c, d \in calls' : c.no = d.no => c = d
  BY <1>1 DEF AccountsInv, SInv, CallsApart
<1>4. \A u \in Users : users'[u].name # 2
  BY NamesKept
<1>5. \A d \in calls' : d.op = "setname" => d.v # 2
  BY <1>1, <1>2 DEF InTurn, ChatOps
<1>6. \A d \in calls' : d.op = "chatstatus" /\ d.pw = 1 /\ d.v = 2 /\ d.t \in Tabs => action'[d.t][d.pg] = "query"
  <2> SUFFICES ASSUME NEW d \in calls', d.op = "chatstatus", d.pw = 1, d.v = 2, d.t \in Tabs PROVE action[d.t][d.pg] = "query"
    OBVIOUS
  <2>1. PICK c \in calls : c.op = d.op /\ c.v = d.v /\ c.pw = d.pw /\ c.pg = d.pg /\ c.t = d.t
    BY <1>2 DEF ChatOps
  <2> QED
    BY <1>1, <2>1 DEF InTurn
<1>7. \A c, d \in calls' : c.op \in ChatOps /\ d.op \in ChatOps /\ c.t \in Tabs /\ c.t = d.t /\ c.pg = d.pg => c = d
  <2> SUFFICES ASSUME NEW c \in calls', NEW d \in calls', c.op \in ChatOps, d.op \in ChatOps, c.t \in Tabs, c.t = d.t, c.pg = d.pg
               PROVE  c = d
    OBVIOUS
  <2>1. PICK x \in calls : x.no = c.no /\ x.op = c.op /\ x.pg = c.pg /\ x.t = c.t
    BY <1>2
  <2>2. PICK y \in calls : y.no = d.no /\ y.op = d.op /\ y.pg = d.pg /\ y.t = d.t
    BY <1>2
  <2>3. x = y
    BY <1>1, <2>1, <2>2 DEF InTurn
  <2> QED
    BY <1>3, <2>1, <2>2, <2>3
<1> QED
  BY <1>4, <1>5, <1>6, <1>7 DEF InTurn

LEMMA CountsStays ==
    ASSUME BothInv, Passes, CaptchasStay, NEW tk \in 1..Len(minted), NEW v, Counts(tk, v) PROVE Counts(tk, v)'
<1>1. tk \in 0..Len(minted) /\ tk # 0
  BY ServerHas DEF BothInv
<1>2. Who(tk)' = Who(tk) /\ Who(tk) \in Users
  BY <1>1, WhoStays DEF BothInv
<1>3. captchas'[Who(tk)] \in {captchas[Who(tk)], <<>>}
  BY <1>2 DEF CaptchasStay
<1> QED
  BY <1>2, <1>3 DEF Counts, verifyImageCaptcha

LEMMA OneAsksKept ==
    ASSUME BothInv, Passes, ExportStays, \A d \in calls' : Added(d) => d.op # "captcha"
    PROVE  OneAsks'
<1>0. AccountsInv' /\ AccountsInv /\ OneAsks
  BY DEF BothInv, FormInv, CaptchaInv
<1> SUFFICES ASSUME NEW d \in calls', d.op = "captcha"
             PROVE  /\ \A e \in calls' : e.op = "captcha" /\ e # d => \A t \in Tabs : late'[t]
                    /\ \A t \in Tabs : Showing(t)' => d.t = t /\ d.pg = page'[t].n
  BY DEF OneAsks
<1>1. PICK c \in calls : Follows(c, d)
  BY DEF Passes
<1>2. c.op = "captcha" /\ c.no = d.no /\ c.pg = d.pg /\ (d.t = c.t \/ (d.t = No /\ c.t \in Tabs /\ page'[c.t].n # page[c.t].n))
  BY <1>1 DEF Follows
<1>3. \A e \in calls' : e.op = "captcha" /\ e # d => \A t \in Tabs : late'[t]
  <2> SUFFICES ASSUME NEW e \in calls', e.op = "captcha", e # d PROVE \A t \in Tabs : late'[t]
    OBVIOUS
  <2>1. PICK b \in calls : Follows(b, e)
    BY DEF Passes
  <2>2. b.op = "captcha" /\ b.no = e.no
    BY <2>1 DEF Follows
  <2>3. e.no # d.no
    BY <1>0 DEF AccountsInv, SInv, CallsApart
  <2> QED
    BY <1>0, <1>2, <2>2, <2>3 DEF OneAsks, Passes
<1>4. \A t \in Tabs : Showing(t)' => d.t = t /\ d.pg = page'[t].n
  <2> SUFFICES ASSUME NEW t \in Tabs, Showing(t)' PROVE d.t = t /\ d.pg = page'[t].n
    OBVIOUS
  <2>1. page[t].n \in Nat /\ PageMoves(t) /\ (late[t] => late'[t])
    BY <1>0, PageNumbers DEF Passes
  <2>2. page'[t].n = page[t].n /\ page[t].at = "export" /\ page'[t].captcha = page[t].captcha
    BY <2>1 DEF PageMoves, Showing, ExportStays
  <2>3. Showing(t)
    BY <2>1, <2>2 DEF Showing
  <2> QED
    BY <1>0, <1>2, <2>2, <2>3 DEF OneAsks
<1> QED
  BY <1>3, <1>4

(* Where a page has the token of localStorage, it had it before.           *)
LEMMA LocalStays ==
    ASSUME BothInv, Passes, NEW t \in Tabs, page'[t].n = page[t].n, page'[t].tk = local', local' # 0
    PROVE  local' = local /\ page[t].tk = local /\ local \in 1..Len(minted)
<1>1. AccountsInv /\ TokenInv
  BY DEF BothInv, FormInv
<1>2. page[t].n \in Nat
  BY <1>1, PageNumbers
<1>3. page'[t].tk = page[t].tk
  BY <1>2 DEF Passes, PageMoves
<1>4. local' = local
  BY <1>1, <1>3 DEF Passes, LocalMoves, TokenInv
<1>5. local \in 0..Len(minted) /\ Len(minted) \in Nat
  BY <1>1, ServerHas DEF AccountsInv, BrowserInv, SessionOK
<1>6. page[t].tk = local /\ local # 0
  BY <1>3, <1>4
<1>7. local \in 1..Len(minted)
  BY <1>5, <1>6
<1> QED
  BY <1>4, <1>6, <1>7

LEMMA CaptchaKept == ASSUME BothInv, Passes, CaptchasMove, ExportStays, NewExport PROVE CaptchaInv'
<1>0. AccountsInv' /\ AccountsInv /\ OneAsks /\ CaptchaOnItsWay /\ CaptchaShows /\ Exporting
  BY DEF BothInv, FormInv, CaptchaInv
<1>1. OneAsks'
  BY OneAsksKept DEF NewExport
<1>2. CaptchaOnItsWay'
  <2> SUFFICES ASSUME NEW d \in calls', d.op = "captcha", Open(d)', page'[d.t].tk = local', local' # 0
               PROVE  d.auth = local' /\ (Given(d) /\ ~late'[d.t] => Counts(local, d.v)')
    BY DEF CaptchaOnItsWay, Given
  <2>1. PICK c \in calls : Follows(c, d)
    BY DEF Passes, NewExport
  <2>2. d.t \in Tabs /\ d.pg = page'[d.t].n
    BY DEF Open
  <2>3. c.op = "captcha" /\ c.auth = d.auth /\ d.t = c.t /\ d.pg = c.pg /\ (Given(d) => (Given(c) /\ d.v = c.v) \/ Counts(d.auth, d.v)')
    BY <2>1, <2>2, AccountsAssumption DEF Follows
  <2>4. page[c.t].n \in Nat /\ PageMoves(c.t) /\ (late[c.t] => late'[c.t]) /\ c.pg <= page[c.t].n /\ c.pg \in Nat
    BY <1>0, <2>2, <2>3, PageNumbers, CallNumbers DEF Passes, BothInv, FormInv, PagesFit
  <2>5. page'[c.t].n = page[c.t].n
    BY <2>2, <2>3, <2>4 DEF PageMoves
  <2>6. local' = local /\ page[c.t].tk = local /\ local \in 1..Len(minted)
    BY <2>2, <2>3, <2>5, LocalStays
  <2>7. c.auth = local /\ (Given(c) /\ ~late[c.t] => Counts(local, c.v))
    BY <1>0, <2>2, <2>3, <2>5, <2>6 DEF CaptchaOnItsWay, Open
  <2>8. PICK k \in 1..Len(minted) : k = local /\ k = local'
    BY <2>6
  <2>9. Given(c) /\ ~late[c.t] => Counts(k, c.v)'
    <3> SUFFICES ASSUME Given(c), ~late[c.t] PROVE Counts(k, c.v)'
      OBVIOUS
    <3>1. ~CaptchaGiven
      BY <1>0, <2>2, <2>3 DEF CaptchaGiven, OneAsks, Given
    <3> QED
      BY <2>7, <2>8, <3>1, CountsStays DEF CaptchasMove
  <2> QED
    BY <2>3, <2>4, <2>6, <2>7, <2>8, <2>9
<1>3. CaptchaShows'
  <2> SUFFICES ASSUME NEW t \in Tabs, Showing(t)', page'[t].tk = local', local' # 0, \A d \in calls' : ~Given(d)
               PROVE  Counts(local, page[t].captcha)'
    BY DEF CaptchaShows, Given
  <2>1. page[t].n \in Nat /\ PageMoves(t) /\ (late[t] => late'[t])
    BY <1>0, PageNumbers DEF Passes
  <2>2. page'[t].n = page[t].n /\ page[t].at = "export" /\ page'[t].captcha = page[t].captcha
    BY <2>1 DEF PageMoves, Showing, ExportStays
  <2>3. Showing(t)
    BY <2>1, <2>2 DEF Showing
  <2>4. local' = local /\ page[t].tk = local /\ local \in 1..Len(minted)
    BY <2>2, LocalStays
  <2>5. PICK k, v : k \in 1..Len(minted) /\ k = local /\ k = local' /\ v = page[t].captcha /\ v = page'[t].captcha
    BY <2>2, <2>4
  <2>6. Counts(k, v)'
    <3>1. CASE \A c \in calls : ~Given(c)
      <4>1. Counts(k, v)
        BY <1>0, <2>3, <2>4, <2>5, <3>1 DEF CaptchaShows
      <4>2. CaptchasStay
        BY DEF CaptchasMove, CaptchaGiven
      <4> QED
        BY <2>5, <4>1, <4>2, CountsStays
    <3>2. CASE \E c \in calls : Given(c)
      <4>1. PICK c \in calls : Given(c)
        BY <3>2
      <4>2. c.t = t /\ c.pg = page[t].n
        BY <1>0, <2>3, <4>1 DEF OneAsks, Given
      <4>3. \A u \in Users : captchas'[u] = <<>>
        BY <2>2, <4>1, <4>2 DEF ExportStays, Open
      <4>4. Who(k)' \in Users
        <5>1. k \in 0..Len(minted) /\ k # 0
          BY <1>0, <2>5, ServerHas
        <5> QED
          BY <1>0, <5>1, WhoStays
      <4> QED
        BY <4>3, <4>4 DEF Counts, verifyImageCaptcha
    <3> QED
      BY <3>1, <3>2
  <2> QED
    BY <2>5, <2>6
<1>4. Exporting'
  <2> SUFFICES ASSUME NEW d \in calls', d.op = "export", d.pw # 0
               PROVE  d.res # "captcha" /\ (\A e \in calls' : e.op # "captcha") /\ (d.auth # 0 => Counts(d.auth, d.v)')
    BY DEF Exporting
  <2>1. \A e \in calls' : e.op = "captcha" => \E c \in calls : c.op = "captcha"
    BY DEF Passes, NewExport, Follows
  <2>2. CASE Added(d)
    <3>1. (\A c \in calls : c.op # "captcha") /\ (d.auth # 0 => Counts(d.auth, d.v)) /\ d.res # "captcha"
      BY <2>2 DEF NewExport, Added, Said
    <3>2. d.auth \in 0..Len(minted)
      <4>1. local \in 0..Len(minted) /\ Len(minted) \in Nat
        BY <1>0, ServerHas DEF AccountsInv, BrowserInv, SessionOK
      <4>2. local' \in 0..Len(minted)
        BY <1>0, <4>1, CallNumbers DEF Passes, LocalMoves
      <4> QED
        BY <2>2, <4>1, <4>2 DEF Added
    <3>3. d.auth # 0 => d.auth \in 1..Len(minted)
      BY <1>0, <3>2, ServerHas
    <3> QED
      BY <2>1, <3>1, <3>3, CountsStays DEF CaptchasMove, CaptchaGiven
  <2>3. CASE \E c \in calls : Follows(c, d)
    <3>1. PICK c \in calls : Follows(c, d)
      BY <2>3
    <3>2. c.op = "export" /\ c.pw # 0 /\ d.v = c.v /\ d.auth = c.auth
      BY <3>1 DEF Follows, WordOps
    <3>3. c.res # "captcha" /\ (\A e \in calls : e.op # "captcha") /\ (c.auth # 0 => Counts(c.auth, c.v))
      BY <1>0, <3>2 DEF Exporting
    <3>4. d.res # "captcha"
      BY <3>1, <3>2, <3>3 DEF Follows
    <3>5. c.auth # 0 => c.auth \in 1..Len(minted)
      BY <1>0, CallNumbers, ServerHas
    <3>6. c.auth # 0 => Counts(c.auth, c.v)'
      BY <3>3, <3>5, CountsStays DEF CaptchasMove, CaptchaGiven
    <3> QED
      BY <2>1, <3>2, <3>3, <3>4, <3>6
  <2> QED
    BY <2>2, <2>3 DEF Passes
<1> QED
  BY <1>1, <1>2, <1>3, <1>4 DEF CaptchaInv

LEMMA NothingNewHas ==
    ASSUME NothingNew
    PROVE  /\ NewFits /\ NewFeedback /\ NewHeard /\ NewWords /\ NewExport
           /\ \A d \in calls' : Added(d) => d.op \notin ChatOps
<1>1. \A d \in calls' : Added(d) => d.op \notin ChatOps /\ d.op \notin FeedbackOps /\ d.op \notin ExportOps /\ (d.op = "username" => d.v = 1)
  BY DEF NothingNew, FormOps
<1> QED
  BY <1>1 DEF NewFits, NewFeedback, NewHeard, NewWords, NewExport, ChatOps, FeedbackOps, ExportOps

LEMMA PlainKept ==
    ASSUME BothInv, Passes, NothingNew, ContactStays \/ restarted', NewTokenOnce, NamesMove, CaptchasMove, ExportStays,
           UNCHANGED <<action, asked, overlap>>, \A t \in Tabs : page'[t].n # page[t].n => page'[t].at # "chatbot"
    PROVE  FormInv'
<1>1. PagesFit' /\ FeedbackInv' /\ QuestionInv' /\ TokenInv'
  BY NothingNewHas, PagesFitKept, FeedbackKept, QuestionKept, TokenKept
<1>2. Asked' /\ Worded' /\ InTurn'
  BY NothingNewHas, AskedKept, WordedKept, InTurnKept
<1>3. CaptchaInv'
  BY NothingNewHas, CaptchaKept
<1> QED
  BY <1>1, <1>2, <1>3 DEF FormInv, NameInv

LEMMA FollowsSelf == \A c : Follows(c, c)
  BY DEF Follows

LEMMA FollowsAnswered ==
    ASSUME NEW c \in Calls, NEW res, Harmless(c.op, res)
    PROVE  /\ Follows(c, Answered(c, res))
           /\ \A u : Follows(c, WithUser(c, res, u))
           /\ \A v : c.op \notin WordOps => Follows(c, WithValue(c, res, v))
<1>1. Follows(c, Answered(c, res))
  BY DEF Calls, Answered, Follows, Harmless, Given
<1>2. ASSUME NEW u PROVE Follows(c, WithUser(c, res, u))
  BY DEF Calls, Answered, WithUser, Follows, Harmless, Given
<1>3. ASSUME NEW v, c.op \notin WordOps PROVE Follows(c, WithValue(c, res, v))
  BY <1>3 DEF Calls, Answered, WithValue, Follows, Harmless, Given
<1> QED
  BY <1>1, <1>2, <1>3

LEMMA FollowsFound ==
    ASSUME NEW c \in Calls, NEW a, a # "ans"
    PROVE  Follows(c, [c EXCEPT !.at = a]) /\ \A u, r : Follows(c, [c EXCEPT !.at = a, !.u = u, !.row = r])
  BY DEF Calls, Follows, Given

LEMMA FollowsToken ==
    ASSUME NEW c \in Calls, Harmless(c.op, "ok")
    PROVE  /\ \A tk, v : c.op \notin WordOps /\ tk > Len(minted) => Follows(c, WithToken(c, tk, v))
           /\ \A tk : tk > Len(minted) => Follows(c, [Answered(c, "ok") EXCEPT !.tk = tk])
           /\ \A u, tk : c.op \notin BringOps => Follows(c, [Answered(c, "ok") EXCEPT !.u = u, !.tk = tk])
  BY DEF Calls, Answered, WithToken, Follows, Harmless, Given

LEMMA ServerKept ==
    ASSUME BothInv, Kept,
           \A d \in calls' : (\E c \in calls : Follows(c, d)) \/ (Added(d) /\ d.op = "wallet"),
           \A c \in calls : c.at = "ans" => c \in calls',
           Len(minted) <= Len(minted'), \A i \in 1..Len(minted) : minted'[i] = minted[i],
           captchaIds \subseteq captchaIds', \A u \in Users : bot.names[u] # 0 => bot'.names[u] # 0,
           NamesMove, CaptchasMove, NewTokenOnce
    PROVE  FormInv'
<1> USE DEF Kept, cvars, session
<1>1. \A t \in Tabs : PageMoves(t) /\ (late[t] => late'[t])
  BY DEF PageMoves
<1>2. LocalMoves
  BY DEF LocalMoves
<1>3. Passes
  BY <1>1, <1>2 DEF Passes
<1>4. NothingNew
  <2>1. \A c \in calls : ~(c.no > sent)
    BY DEF BothInv, AccountsInv, SInv, CallsOK, CallOK, CallTyped
  <2>2. \A c \in calls, d \in calls' : Follows(c, d) => ~Added(d)
    BY <2>1 DEF Follows, Added
  <2> QED
    BY <2>2 DEF NothingNew, FormOps, ChatOps, FeedbackOps, ExportOps
<1>5. ContactStays
  BY DEF ContactStays
<1>6. ExportStays
  BY DEF ExportStays, Given, Open
<1>7. \A t \in Tabs : page'[t].n # page[t].n => page'[t].at # "chatbot"
  OBVIOUS
<1> QED
  BY <1>3, <1>4, <1>5, <1>6, <1>7, PlainKept

LEMMA MovesKeep ==
    ASSUME BothInv, NEW c \in calls, c.at # "ans", Moves(c), Kept, UNCHANGED <<minted, captchas, captchaIds>>, NamesMove,
           \A u \in Users : bot.names[u] # 0 => bot'.names[u] # 0
    PROVE  FormInv'
<1>1. PICK d : Turns(c, d) /\ Follows(c, d)
  BY DEF Moves
<1>2. \A e \in calls' : \E x \in calls : Follows(x, e)
  BY <1>1, FollowsSelf DEF Turns, Move
<1>3. \A x \in calls : x.at = "ans" => x \in calls'
  BY <1>1 DEF Turns, Move
<1>4. Len(minted) \in Nat /\ Len(minted') = Len(minted)
  BY ServerHas DEF BothInv
<1>5. \A e \in calls' : e.tk \in 0..Len(minted)
  BY <1>4 DEF BothInv, AccountsInv, SInv, CallsOK, CallOK, CallTyped
<1>6. NewTokenOnce
  BY <1>4, <1>5 DEF NewTokenOnce
<1>7. CaptchasMove
  BY DEF CaptchasMove, CaptchasStay
<1> QED
  BY <1>2, <1>3, <1>4, <1>6, <1>7, ServerKept

LEMMA AnswerMoves == ASSUME NEW c \in Calls, NEW res, Answer(c, res), Harmless(c.op, res) PROVE Moves(c)
  BY FollowsAnswered DEF Answer, Moves, Turns

LEMMA FoundMoves == ASSUME NEW c \in Calls, NEW u, Found(c, u) PROVE Moves(c)
<1>1. Follows(c, [c EXCEPT !.at = "found", !.u = u, !.row = Row(u)])
  BY FollowsFound
<1> QED
  BY <1>1 DEF Found, Moves, Turns

LEMMA AroundKept ==
    ASSUME Around
    PROVE  Kept /\ UNCHANGED <<captchaIds, bot>> /\ \A u \in Users : bot.names[u] # 0 => bot'.names[u] # 0
  BY DEF Around, Kept, hist, contact

LEMMA SameNames == UNCHANGED users => NamesMove
  BY DEF NamesMove

LEMMA FormCallHas ==
    ASSUME BothInv, NEW c \in calls PROVE c \in Calls /\ c.auth \in 0..Len(minted) /\ AccountsInv
  BY CallNumbers DEF BothInv

LEMMA readerForms ==
    ASSUME BothInv, NEW c \in calls, Around,
           \/ login(c) \/ verify(c) \/ saveLoginIp(c) \/ changePassword(c) \/ resetPassword(c) \/ setup(c) \/ disable(c)
           \/ updateUserProfile(c) \/ dataErasureForm(c) \/ dataErasure(c)
    PROVE  FormInv'
<1>1. c \in Calls
  BY FormCallHas
<1>2. UNCHANGED <<users, minted, captchas>> /\ c.at # "ans"
  BY DEF At, tables, sessions, login, verify, saveLoginIp, changePassword, resetPassword, setup, disable, updateUserProfile,
         dataErasureForm, dataErasure
<1>3. c.op \notin FormOps
  BY DEF At, login, verify, saveLoginIp, changePassword, resetPassword, setup, disable, updateUserProfile,
         dataErasureForm, dataErasure, FormOps, ChatOps, FeedbackOps, ExportOps
<1>4. \A res : Harmless(c.op, res)
  BY <1>3 DEF Harmless, FormOps, ChatOps, FeedbackOps, ExportOps
<1>5. (\E res : Answer(c, res)) \/ (\E u : Found(c, u))
  BY DEF login, verify, saveLoginIp, changePassword, resetPassword, setup, disable, updateUserProfile, dataErasureForm, dataErasure
<1>6. Moves(c)
  BY <1>1, <1>4, <1>5, AnswerMoves, FoundMoves
<1> QED
  BY <1>2, <1>6, MovesKeep, AroundKept, SameNames

LEMMA copierForms ==
    ASSUME BothInv, NEW c \in calls, Around, saveAnswer(c) \/ factorSaved(c) \/ getUserProfile(c)
    PROVE  FormInv'
<1>1. c \in Calls
  BY FormCallHas
<1>2. UNCHANGED <<users, minted, captchas>> /\ c.at # "ans"
  BY DEF At, tables, sessions, saveAnswer, factorSaved, getUserProfile
<1>3. \A res : Harmless(c.op, res)
  BY DEF At, saveAnswer, factorSaved, getUserProfile, Harmless
<1>4. \E res : Answer(c, res)
  BY DEF saveAnswer, factorSaved, getUserProfile
<1>5. Moves(c)
  BY <1>1, <1>3, <1>4, AnswerMoves
<1> QED
  BY <1>2, <1>5, MovesKeep, AroundKept, SameNames

LEMMA writerForms ==
    ASSUME BothInv, NEW c \in calls, Around, updatePassword(c) \/ saveFactor(c)
    PROVE  FormInv'
<1>1. c \in Calls /\ AccountsInv
  BY FormCallHas
<1>2. UNCHANGED <<minted, captchas>> /\ c.at # "ans"
  BY DEF At, sessions, updatePassword, saveFactor
<1>3. \A res : Harmless(c.op, res)
  BY DEF At, updatePassword, saveFactor, Harmless
<1>4. Moves(c)
  <2>1. CASE updatePassword(c)
    BY <1>1, <1>3, <2>1, AnswerMoves DEF updatePassword
  <2>2. CASE saveFactor(c)
    <3>1. Follows(c, [c EXCEPT !.at = "saved"])
      BY <1>1, FollowsFound
    <3> QED
      BY <2>2, <3>1 DEF saveFactor, To, Moves, Turns
  <2> QED
    BY <2>1, <2>2
<1>5. NamesMove
  <2>1. users \in [Users -> Rows]
    BY <1>1, ServerHas
  <2>2. \A u \in Users : users'[u].name = users[u].name
    BY <2>1 DEF updatePassword, saveFactor, Rows
  <2> QED
    BY <2>2 DEF NamesMove
<1> QED
  BY <1>2, <1>4, <1>5, MovesKeep, AroundKept

LEMMA tellerForms ==
    ASSUME BothInv, NEW c \in calls, Around, securityQuestion(c) \/ status(c) \/ retrieveLoggedInUser(c)
    PROVE  FormInv'
<1>1. c \in Calls
  BY FormCallHas
<1>2. UNCHANGED <<users, minted, captchas>> /\ c.at # "ans"
  BY DEF At, tables, sessions, securityQuestion, status, retrieveLoggedInUser
<1>3. (\A res : Harmless(c.op, res)) /\ c.op \notin WordOps /\ c.op \notin BringOps
  BY DEF At, securityQuestion, status, retrieveLoggedInUser, Harmless, WordOps, BringOps
<1>4. Moves(c)
  <2>1. CASE securityQuestion(c)
    <3>1. \E u : calls' = Move(c, WithUser(c, "ok", u))
      BY <2>1 DEF securityQuestion, WithUser
    <3> QED
      BY <1>1, <1>3, <3>1, FollowsAnswered DEF Moves, Turns
  <2>2. CASE status(c)
    <3>1. (\E res : Answer(c, res)) \/ calls' = Move(c, WithValue(c, "off", secrets + 1))
      BY <2>2 DEF status, WithValue
    <3>2. Follows(c, WithValue(c, "off", secrets + 1))
      BY <1>1, <1>3, FollowsAnswered
    <3> QED
      BY <1>1, <1>3, <3>1, <3>2, AnswerMoves DEF Moves, Turns
  <2>3. CASE retrieveLoggedInUser(c)
    <3>1. \E u, tk : calls' = Move(c, [Answered(c, "ok") EXCEPT !.u = u, !.tk = tk])
      BY <2>3 DEF retrieveLoggedInUser
    <3>2. \A u, tk : Follows(c, [Answered(c, "ok") EXCEPT !.u = u, !.tk = tk])
      BY <1>1, <1>3, FollowsToken
    <3> QED
      BY <3>1, <3>2 DEF Moves, Turns
  <2> QED
    BY <2>1, <2>2, <2>3
<1> QED
  BY <1>2, <1>4, MovesKeep, AroundKept, SameNames

(* An export is refused only for a captcha that does not count.            *)
LEMMA dataExportForms == ASSUME BothInv, NEW c \in calls, Around, dataExport(c) PROVE FormInv'
<1>1. c \in Calls /\ AccountsInv
  BY FormCallHas
<1>2. UNCHANGED <<users, minted, captchas>> /\ c.at = "req" /\ c.op = "export"
  BY DEF At, tables, sessions, dataExport
<1>3. PICK res : res = IF ~Known(c.auth) THEN "401"
                       ELSE IF verifyImageCaptcha(captchas[cache[c.auth].user], c.v) THEN "ok" ELSE "captcha"
  OBVIOUS
<1>4. Turns(c, Answered(c, res))
  BY <1>3 DEF dataExport, Answer, Turns
<1>5. res = "captcha" => c.auth # 0 /\ ~Counts(c.auth, c.v)
  <2> SUFFICES ASSUME res = "captcha" PROVE c.auth # 0 /\ ~Counts(c.auth, c.v)
    OBVIOUS
  <2>1. Known(c.auth) /\ ~verifyImageCaptcha(captchas[cache[c.auth].user], c.v)
    BY <1>3
  <2>2. c.auth \in 1..Len(minted)
    BY <1>1, <2>1, ServerHas DEF Known
  <2>3. Who(c.auth) = cache[c.auth].user
    BY <1>1, <2>1, KnownWho DEF Known
  <2> QED
    BY <2>1, <2>2, <2>3 DEF Counts
<1>6. Follows(c, Answered(c, res))
  BY <1>1, <1>2, <1>5 DEF Calls, Answered, Follows, Given, ChatOps, WordOps, BringOps
<1> QED
  BY <1>2, <1>4, <1>6, MovesKeep, AroundKept, SameNames DEF Moves

LEMMA createWalletForms == ASSUME BothInv, NEW c \in calls, Around, createWallet(c) PROVE FormInv'
<1>1. UNCHANGED <<users, minted, captchas>> /\ c.at # "ans" /\ calls' = calls \ {c}
  BY DEF At, sessions, createWallet
<1>2. \A d \in calls' : \E x \in calls : Follows(x, d)
  BY <1>1, FollowsSelf
<1>3. Len(minted) \in Nat
  BY ServerHas DEF BothInv
<1>4. NewTokenOnce
  BY <1>1, <1>3, CallNumbers DEF NewTokenOnce, BothInv
<1>5. CaptchasMove
  BY <1>1 DEF CaptchasMove, CaptchasStay
<1> QED
  BY <1>1, <1>2, <1>3, <1>4, <1>5, ServerKept, AroundKept, SameNames

LEMMA registerUserForms == ASSUME BothInv, NEW c \in calls, Around, registerUser(c) PROVE FormInv'
<1>1. c \in Calls /\ AccountsInv /\ sent \in Nat /\ users \in [Users -> Rows]
  BY FormCallHas, ServerHas
<1>2. UNCHANGED <<minted, captchas>> /\ c.at # "ans" /\ c.op = "register"
  BY DEF At, sessions, registerUser
<1>3. \A res : Harmless(c.op, res)
  BY <1>2 DEF Harmless
<1>4. NamesMove
  BY <1>1 DEF registerUser, NamesMove, NewUser, User
<1>5. CASE \E res : Answer(c, res)
  BY <1>1, <1>2, <1>3, <1>4, <1>5, AnswerMoves, MovesKeep, AroundKept
<1>6. CASE calls' = Move(c, Answered(c, "ok")) \cup {Background("wallet", c.u)} /\ sent' = sent + 1
  <2>1. Follows(c, Answered(c, "ok"))
    BY <1>1, <1>3, FollowsAnswered
  <2>2. PICK w : w = Background("wallet", c.u)
    OBVIOUS
  <2>3. w.op = "wallet" /\ w.no = sent + 1 /\ w.tk = 0 /\ w.auth = 0 /\ w.t = No
    BY <2>2 DEF Background, Request
  <2>4. w.res \notin Said
    BY <2>2, NotSaid, Zenon DEF Background, Request
  <2>5. Added(w)
    BY <1>1, <2>3, <2>4, AccountsAssumption DEF Added
  <2>6. \A d \in calls' : (\E x \in calls : Follows(x, d)) \/ (Added(d) /\ d.op = "wallet")
    BY <1>6, <2>1, <2>2, <2>3, <2>5, FollowsSelf DEF Move
  <2>7. \A x \in calls : x.at = "ans" => x \in calls'
    BY <1>2, <1>6 DEF Move
  <2>8. Len(minted) \in Nat /\ \A e \in calls' : e.tk \in 0..Len(minted)
    BY <1>1, <1>2, ServerHas DEF BothInv, AccountsInv, SInv, CallsOK, CallOK, CallTyped
  <2>9. NewTokenOnce
    BY <2>8 DEF NewTokenOnce
  <2>10. CaptchasMove
    BY <1>2 DEF CaptchasMove, CaptchasStay
  <2> QED
    BY <1>2, <1>4, <2>6, <2>7, <2>8, <2>9, <2>10, ServerKept, AroundKept
<1> QED
  BY <1>5, <1>6 DEF registerUser

(* A new token is signed.                                                  *)
LEMMA MintForms ==
    ASSUME BothInv, Kept, NEW c \in calls, c.at # "ans", NEW d, Turns(c, d), Follows(c, d), NEW u \in Users, NEW row \in Rows,
           authorize(u, row), UNCHANGED <<captchas, captchaIds>>, NamesMove,
           \A x \in Users : bot.names[x] # 0 => bot'.names[x] # 0
    PROVE  FormInv'
<1>0. AccountsInv
  BY DEF BothInv
<1>1. PICK k \in Nat : k = Len(minted) + 1
  BY <1>0, ServerHas
<1>2. Len(minted') = k /\ (\A i \in DOMAIN minted : minted'[i] = minted[i]) /\ DOMAIN minted = 1..Len(minted)
  BY <1>0, <1>1, MintShape
<1>3. Len(minted) \in Nat /\ Len(minted) <= Len(minted')
  BY <1>0, <1>1, <1>2, ServerHas
<1>4. \A e \in calls' : \E x \in calls : Follows(x, e)
  BY FollowsSelf DEF Turns, Move
<1>5. \A x \in calls : x.at = "ans" => x \in calls'
  BY DEF Turns, Move
<1>6. \A x \in calls : x.tk \in 0..Len(minted)
  BY <1>0, CallNumbers
<1>7. \A e \in calls' : e.tk > Len(minted) => e = d
  BY <1>3, <1>6 DEF Turns, Move
<1>8. NewTokenOnce
  BY <1>7 DEF NewTokenOnce
<1>9. CaptchasMove
  BY DEF CaptchasMove, CaptchasStay
<1> QED
  BY <1>2, <1>3, <1>4, <1>5, <1>8, <1>9, ServerKept

LEMMA afterLoginForms == ASSUME BothInv, NEW c \in calls, Around, afterLogin(c) PROVE FormInv'
<1>1. c \in Calls /\ AccountsInv
  BY FormCallHas
<1>2. c.op \in {"login", "verify"} /\ c.at = "found" /\ UNCHANGED <<users, captchas>>
  BY DEF afterLogin
<1>3. c.u \in Users /\ c.row \in Rows
  BY <1>1, <1>2, FoundHas
<1>4. PICK k : k = Len(minted) + 1
  OBVIOUS
<1>5. PICK b : b = BasketOf(c.u)
  OBVIOUS
<1>6. Turns(c, WithToken(c, k, b)) /\ authorize(c.u, c.row)
  BY <1>4, <1>5 DEF afterLogin, Turns, WithToken
<1>7. k > Len(minted)
  BY <1>1, <1>4, ServerHas
<1>8. Harmless(c.op, "ok") /\ c.op \notin WordOps
  BY <1>2 DEF Harmless, WordOps
<1>9. Follows(c, WithToken(c, k, b))
  BY <1>1, <1>7, <1>8, FollowsToken
<1> QED
  BY <1>2, <1>3, <1>6, <1>9, MintForms, AroundKept, SameNames

LEMMA NameSavedForms ==
    ASSUME BothInv, Kept, NEW c \in calls, c.op \in {"username", "setname"}, c.at = "found", NameSaved(c), UNCHANGED captchaIds,
           \A x \in Users : bot.names[x] # 0 => bot'.names[x] # 0
    PROVE  FormInv'
<1>1. c \in Calls /\ AccountsInv /\ c.v \in Nat /\ users \in [Users -> Rows]
  BY FormCallHas, ServerHas DEF Calls
<1>2. c.u \in Users /\ c.row \in Rows
  BY <1>1, FoundHas
<1>3. PICK k : k = Len(minted) + 1
  OBVIOUS
<1>4. PICK row : row = [c.row EXCEPT !.name = c.v]
  OBVIOUS
<1>5. row \in Rows
  BY <1>1, <1>2, <1>4 DEF Rows
<1>6. PICK d : d = [Answered(c, "ok") EXCEPT !.tk = k]
  OBVIOUS
<1>7. Turns(c, d) /\ authorize(c.u, row) /\ UNCHANGED captchas
  BY <1>3, <1>4, <1>6 DEF NameSaved, Turns
<1>8. k > Len(minted)
  BY <1>1, <1>3, ServerHas
<1>9. Harmless(c.op, "ok")
  BY DEF Harmless
<1>10. Follows(c, d)
  BY <1>1, <1>6, <1>8, <1>9, FollowsToken
<1>11. NamesMove
  <2>1. \A u \in Users : users'[u].name = users[u].name \/ users'[u].name = c.v
    BY <1>1, <1>2 DEF NameSaved, Updated, Rows
  <2> QED
    BY <2>1 DEF NamesMove
<1> QED
  BY <1>2, <1>5, <1>7, <1>10, <1>11, MintForms

LEMMA profileSavedForms == ASSUME BothInv, NEW c \in calls, Around, profileSaved(c) PROVE FormInv'
<1>1. c.op \in {"username", "setname"} /\ c.at = "found" /\ NameSaved(c)
  BY DEF profileSaved, At
<1> QED
  BY <1>1, NameSavedForms, AroundKept

LEMMA imageCaptchasForms == ASSUME BothInv, NEW c \in calls, Around, imageCaptchas(c) PROVE FormInv'
<1>1. c \in Calls /\ AccountsInv
  BY FormCallHas
<1>2. UNCHANGED <<users, minted>> /\ c.at = "req" /\ c.op = "captcha"
  BY DEF imageCaptchas, At
<1>3. CASE Answer(c, "401") /\ UNCHANGED captchas
  <2>1. Harmless(c.op, "401")
    BY <1>2 DEF Harmless
  <2> QED
    BY <1>1, <1>2, <1>3, <2>1, AnswerMoves, MovesKeep, AroundKept, SameNames
<1>4. CASE /\ Known(c.auth) /\ captchas' = [captchas EXCEPT ![cache[c.auth].user] = Append(@, secrets + 1)]
           /\ calls' = Move(c, [Answered(c, "ok") EXCEPT !.v = secrets + 1])
  <2>1. PICK v \in Nat : v = secrets + 1
    BY <1>1, ServerHas
  <2>2. PICK d : d = WithValue(c, "ok", v)
    OBVIOUS
  <2>3. Turns(c, d)
    BY <1>4, <2>1, <2>2 DEF Turns, WithValue
  <2>4. PICK u : u = cache[c.auth].user
    OBVIOUS
  <2>5. u \in Users /\ Who(c.auth) = u
    BY <1>1, <1>4, <2>4, KnownWho DEF Known
  <2>6. captchas \in [Users -> Seq(Nat)]
    BY <1>1 DEF AccountsInv, SInv, TablesOK
  <2>7. captchas[u] \in Seq(Nat)
    BY <2>5, <2>6
  <2>8. captchas'[u] = Append(captchas[u], v)
    BY <1>4, <2>1, <2>4, <2>5, <2>6
  <2>9. Append(captchas[u], v)[Len(Append(captchas[u], v))] = v
    BY <2>1, <2>7
  <2>10. verifyImageCaptcha(captchas'[u], v)
    BY <2>8, <2>9 DEF verifyImageCaptcha
  <2>11. Counts(c.auth, v)'
    BY <1>2, <2>5, <2>10 DEF Counts, Who
  <2>12. Follows(c, d) /\ Given(d) /\ d \in calls' /\ d.v = v /\ d.auth = c.auth
    BY <1>1, <1>2, <2>2, <2>3, <2>11 DEF Calls, Answered, WithValue, Follows, Given, ChatOps, WordOps, BringOps, Turns, Move
  <2>13. ~Given(c)
    BY <1>2 DEF Given
  <2>14. CaptchasMove
    BY <1>2, <2>12, <2>13 DEF CaptchasMove, CaptchaGiven
  <2>15. \A e \in calls' : \E x \in calls : Follows(x, e)
    BY <2>3, <2>12, FollowsSelf DEF Turns, Move
  <2>16. \A x \in calls : x.at = "ans" => x \in calls'
    BY <1>2, <2>3 DEF Turns, Move
  <2>17. Len(minted) \in Nat /\ \A e \in calls' : e.tk \in 0..Len(minted)
    BY <1>1, <1>2, ServerHas DEF BothInv, AccountsInv, SInv, CallsOK, CallOK, CallTyped
  <2>18. NewTokenOnce
    BY <2>17 DEF NewTokenOnce
  <2> QED
    BY <1>2, <2>14, <2>15, <2>16, <2>17, <2>18, ServerKept, AroundKept, SameNames
<1> QED
  BY <1>3, <1>4 DEF imageCaptchas

LEMMA HandleForms == ASSUME BothInv, NEW c \in calls, Handle(c), Around PROVE FormInv'
<1>1. CASE \/ login(c) \/ verify(c) \/ saveLoginIp(c) \/ changePassword(c) \/ resetPassword(c) \/ setup(c) \/ disable(c)
           \/ updateUserProfile(c) \/ dataErasureForm(c) \/ dataErasure(c)
  BY <1>1, readerForms
<1>2. CASE saveAnswer(c) \/ factorSaved(c) \/ getUserProfile(c)
  BY <1>2, copierForms
<1>3. CASE updatePassword(c) \/ saveFactor(c)
  BY <1>3, writerForms
<1>4. CASE securityQuestion(c) \/ status(c) \/ retrieveLoggedInUser(c)
  BY <1>4, tellerForms
<1>5. CASE dataExport(c) \/ createWallet(c) \/ registerUser(c)
  BY <1>5, dataExportForms, createWalletForms, registerUserForms
<1>6. CASE afterLogin(c) \/ profileSaved(c) \/ imageCaptchas(c)
  BY <1>6, afterLoginForms, profileSavedForms, imageCaptchasForms
<1> QED
  BY <1>1, <1>2, <1>3, <1>4, <1>5, <1>6 DEF Handle

LEMMA TalkingKept == ASSUME Talking PROVE Kept
  BY DEF Talking, Kept, hist

LEMMA botStatusForms == ASSUME BothInv, NEW c \in calls, Talking, botStatus(c), UNCHANGED captchaIds PROVE FormInv'
<1>1. c \in Calls /\ AccountsInv
  BY FormCallHas
<1>2. UNCHANGED <<users, minted, captchas>> /\ c.at = "req" /\ c.op = "chatstatus"
  BY DEF At, tables, sessions, botStatus
<1>3. CASE Answer(c, "not ready") /\ UNCHANGED bot
  <2>1. Harmless(c.op, "not ready")
    BY <1>2 DEF Harmless
  <2> QED
    BY <1>1, <1>2, <1>3, <2>1, AnswerMoves, MovesKeep, TalkingKept, SameNames
<1>4. CASE \/ bot.state # "none" /\ Sender(c) = 0 /\ Answer(c, bot.state) /\ UNCHANGED bot
           \/ bot.state # "none" /\ Sender(c) # 0 /\ getUserFromJwt(c).name = 0 /\ Answer(c, "namequery") /\ UNCHANGED bot
           \/ /\ bot.state # "none" /\ Sender(c) # 0 /\ getUserFromJwt(c).name # 0
              /\ addUser(getUserFromJwt(c).user, getUserFromJwt(c).name)
              /\ Answer(c, bot.state)
  <2>1. Sender(c) # 0 => getUserFromJwt(c).user \in Users
    BY <1>1, SenderHas DEF Tokens
  <2>2. bot \in Bots
    BY <1>1, BotHas
  <2>3. (\A u \in Users : bot.names[u] # 0 => bot'.names[u] # 0) /\ Heard(c)'
    BY <1>2, <1>4, <2>1, <2>2 DEF Heard, Sender, getUserFromJwt, addUser, Bots
  <2>4. PICK res : Answer(c, res)
    BY <1>4
  <2>5. PICK d : d = Answered(c, res)
    OBVIOUS
  <2>6. d.auth = c.auth /\ d.cookie = c.cookie
    BY <1>1, <2>5 DEF Calls, Answered
  <2>7. Heard(d)'
    BY <2>3, <2>6 DEF Heard, Sender
  <2>8. Follows(c, d)
    BY <1>1, <1>2, <2>5, <2>7 DEF Calls, Answered, Follows, Given, BringOps
  <2>9. Moves(c)
    BY <2>4, <2>5, <2>8 DEF Moves, Turns, Answer
  <2> QED
    BY <1>2, <2>3, <2>9, MovesKeep, TalkingKept, SameNames
<1> QED
  BY <1>3, <1>4 DEF botStatus

LEMMA processQueryForms == ASSUME BothInv, NEW c \in calls, Talking, processQuery(c), UNCHANGED captchaIds PROVE FormInv'
<1>1. c \in Calls /\ AccountsInv
  BY FormCallHas
<1>2. UNCHANGED <<users, minted, captchas>> /\ c.at = "req" /\ c.op = "query"
  BY DEF At, tables, sessions, processQuery
<1>3. CASE UNCHANGED bot /\ \E res \in {"response", "400", "namequery"} : Answer(c, res)
  <2>1. \A res \in {"response", "400", "namequery"} : Harmless(c.op, res)
    BY <1>2 DEF Harmless
  <2> QED
    BY <1>1, <1>2, <1>3, <2>1, AnswerMoves, MovesKeep, TalkingKept, SameNames
<1>4. CASE /\ bot.state # "none" /\ Sender(c) # 0 /\ getUserFromJwt(c).name # 0
           /\ addUser(getUserFromJwt(c).user, getUserFromJwt(c).name)
           /\ Answer(c, IF bot.names[getUserFromJwt(c).user] = 0 THEN "greeting" ELSE "response")
  <2>1. getUserFromJwt(c).user \in Users
    BY <1>1, <1>4, SenderHas DEF Tokens
  <2>2. bot \in Bots
    BY <1>1, BotHas
  <2>3. \A u \in Users : bot.names[u] # 0 => bot'.names[u] # 0
    BY <1>4, <2>1, <2>2 DEF addUser, Bots
  <2>4. PICK res : res = IF bot.names[getUserFromJwt(c).user] = 0 THEN "greeting" ELSE "response"
    OBVIOUS
  <2>5. PICK d : d = Answered(c, res)
    OBVIOUS
  <2>6. res = "greeting" => ~Heard(c)
    BY <1>4, <2>4 DEF Heard, getUserFromJwt
  <2>7. Follows(c, d)
    BY <1>1, <1>2, <2>5, <2>6 DEF Calls, Answered, Follows, Given, BringOps, WordOps, ChatOps
  <2>8. Moves(c)
    BY <1>4, <2>4, <2>5, <2>7 DEF Moves, Turns, Answer
  <2> QED
    BY <1>2, <2>3, <2>8, MovesKeep, TalkingKept, SameNames
<1> QED
  BY <1>3, <1>4 DEF processQuery

LEMMA setUserNameForms == ASSUME BothInv, NEW c \in calls, Talking, setUserName(c), UNCHANGED captchaIds PROVE FormInv'
<1>1. c \in Calls
  BY FormCallHas
<1>2. UNCHANGED <<users, minted, captchas, bot>> /\ c.at = "req" /\ c.op = "setname"
  BY DEF At, tables, sessions, setUserName
<1>3. \A res : Harmless(c.op, res)
  BY <1>2 DEF Harmless
<1>4. (\E res : Answer(c, res)) \/ (\E u : Found(c, u))
  BY DEF setUserName
<1>5. Moves(c)
  BY <1>1, <1>3, <1>4, AnswerMoves, FoundMoves
<1> QED
  BY <1>2, <1>5, MovesKeep, TalkingKept, SameNames

LEMMA userNameSetForms == ASSUME BothInv, NEW c \in calls, Talking, userNameSet(c), UNCHANGED captchaIds PROVE FormInv'
<1>1. c.op = "setname" /\ c.at = "found" /\ NameSaved(c) /\ addUser(c.u, c.v)
  BY DEF userNameSet, At
<1>2. c \in Calls /\ AccountsInv /\ bot \in Bots
  BY FormCallHas, BotHas
<1>3. c.v # 0
  BY <1>1 DEF BothInv, FormInv, NameInv, Worded
<1>4. \A u \in Users : bot.names[u] # 0 => bot'.names[u] # 0
  BY <1>1, <1>2, <1>3 DEF addUser, Bots
<1> QED
  BY <1>1, <1>4, NameSavedForms, TalkingKept

LEMMA newCaptchaForms == ASSUME BothInv, NEW c \in calls, Talking, newCaptcha(c), UNCHANGED bot PROVE FormInv'
<1>1. c \in Calls /\ AccountsInv
  BY FormCallHas
<1>2. UNCHANGED <<users, minted, captchas>> /\ c.at = "req" /\ c.op = "captchas" /\ captchaIds \subseteq captchaIds'
  BY DEF At, tables, newCaptcha
<1>3. PICK v : v = secrets + 1
  OBVIOUS
<1>4. PICK d : d = WithValue(c, "ok", v)
  OBVIOUS
<1>5. Turns(c, d) /\ v \in captchaIds'
  BY <1>3, <1>4 DEF newCaptcha, Turns, WithValue
<1>6. Follows(c, d)
  BY <1>1, <1>2, <1>4, <1>5 DEF Calls, Answered, WithValue, Follows, Given, ChatOps, WordOps, BringOps
<1>7. \A e \in calls' : \E x \in calls : Follows(x, e)
  BY <1>5, <1>6, FollowsSelf DEF Turns, Move
<1>8. \A x \in calls : x.at = "ans" => x \in calls'
  BY <1>2, <1>5 DEF Turns, Move
<1>9. Len(minted) \in Nat /\ \A e \in calls' : e.tk \in 0..Len(minted)
  BY <1>1, <1>2, ServerHas DEF BothInv, AccountsInv, SInv, CallsOK, CallOK, CallTyped
<1>10. NewTokenOnce
  BY <1>9 DEF NewTokenOnce
<1>11. CaptchasMove
  BY <1>2 DEF CaptchasMove, CaptchasStay
<1> QED
  BY <1>2, <1>7, <1>8, <1>9, <1>10, <1>11, ServerKept, TalkingKept, SameNames

LEMMA saveFeedbackForms == ASSUME BothInv, NEW c \in calls, Talking, saveFeedback(c), UNCHANGED bot PROVE FormInv'
<1>1. c \in Calls
  BY FormCallHas
<1>2. UNCHANGED <<users, minted, captchas, captchaIds>> /\ c.at = "req" /\ c.op = "feedback"
  BY DEF At, tables, sessions, saveFeedback
<1>3. PICK res : Answer(c, res) /\ (res = "401" => c.v \notin captchaIds)
  BY DEF saveFeedback, verifyCaptcha
<1>4. PICK d : d = Answered(c, res)
  OBVIOUS
<1>5. Follows(c, d)
  BY <1>1, <1>2, <1>3, <1>4 DEF Calls, Answered, Follows, Given, ChatOps, WordOps, BringOps
<1>6. Moves(c)
  BY <1>3, <1>4, <1>5 DEF Moves, Turns, Answer
<1> QED
  BY <1>2, <1>6, MovesKeep, TalkingKept, SameNames

LEMMA TalkForms == ASSUME BothInv, Talk PROVE FormInv'
<1>1. Talking
  BY DEF Talk, Talking
<1>2. PICK c \in calls :
        \/ (botStatus(c) \/ processQuery(c) \/ setUserName(c) \/ userNameSet(c)) /\ UNCHANGED <<captchaIds, feedbacks>>
        \/ (newCaptcha(c) \/ saveFeedback(c)) /\ UNCHANGED bot
  BY DEF Talk
<1> QED
  BY <1>1, <1>2, botStatusForms, processQueryForms, setUserNameForms, userNameSetForms, newCaptchaForms, saveFeedbackForms

LEMMA queryFailsForms == ASSUME BothInv, NEW c \in calls, UNCHANGED <<cvars, contact>>, queryFails(c) PROVE FormInv'
<1>1. c \in Calls /\ AccountsInv
  BY FormCallHas
<1>2. UNCHANGED <<users, minted, captchas, captchaIds, bot>> /\ c.at # "ans" /\ Kept
  BY DEF queryFails, Queries, tables, sessions, contact, Kept
<1>3. Harmless(c.op, "error")
  BY DEF Harmless
<1>4. CASE c.t # No
  <2>1. Turns(c, Answered(c, "error"))
    BY <1>4 DEF queryFails, Turns
  <2>2. Follows(c, Answered(c, "error"))
    BY <1>1, <1>3, FollowsAnswered
  <2> QED
    BY <1>2, <2>1, <2>2, MovesKeep, SameNames DEF Moves
<1>5. CASE c.t = No
  <2>1. calls' = calls \ {c}
    BY <1>5 DEF queryFails
  <2>2. \A d \in calls' : \E x \in calls : Follows(x, d)
    BY <2>1, FollowsSelf
  <2>3. Len(minted) \in Nat
    BY <1>1, ServerHas
  <2>4. NewTokenOnce
    BY <1>1, <2>1, <2>3, CallNumbers DEF NewTokenOnce
  <2>5. CaptchasMove
    BY <1>2 DEF CaptchasMove, CaptchasStay
  <2> QED
    BY <1>2, <2>1, <2>2, <2>3, <2>4, <2>5, ServerKept, SameNames
<1> QED
  BY <1>4, <1>5

LEMMA initializeChatbotForms == ASSUME BothInv, initializeChatbot PROVE FormInv'
<1>1. AccountsInv /\ bot \in Bots
  BY BotHas DEF BothInv
<1>2. UNCHANGED <<calls, users, minted, captchas, captchaIds>> /\ Kept
  BY DEF initializeChatbot, vars, svars, hist, tables, sessions, Kept
<1>3. \A u \in Users : bot.names[u] # 0 => bot'.names[u] # 0
  BY <1>1 DEF initializeChatbot, Bots
<1>4. Len(minted) \in Nat
  BY <1>1, ServerHas
<1>5. NewTokenOnce
  BY <1>1, <1>2, <1>4, CallNumbers DEF NewTokenOnce
<1>6. CaptchasMove
  BY <1>2 DEF CaptchasMove, CaptchasStay
<1> QED
  BY <1>2, <1>3, <1>4, <1>5, <1>6, ServerKept, SameNames, FollowsSelf

LEMMA captchasForgottenForms == ASSUME BothInv, captchasForgotten, UNCHANGED contact PROVE FormInv'
<1>1. AccountsInv
  BY DEF BothInv
<1>2. UNCHANGED <<calls, users, minted, captchaIds, bot>> /\ Kept
  BY DEF captchasForgotten, hist, sessions, contact, Kept
<1>3. Len(minted) \in Nat
  BY <1>1, ServerHas
<1>4. NewTokenOnce
  BY <1>1, <1>2, <1>3, CallNumbers DEF NewTokenOnce
<1>5. CaptchasMove
  BY DEF captchasForgotten, FiveMinutes, CaptchasMove, CaptchasStay
<1> QED
  BY <1>2, <1>3, <1>4, <1>5, ServerKept, SameNames, FollowsSelf

LEMMA CrashForms == ASSUME BothInv, Crash PROVE FormInv'
<1>1. AccountsInv /\ restarted' /\ UNCHANGED <<cvars, action, asked, overlap, minted, sent>>
  BY DEF BothInv, Crash, Restart
<1>2. \A d \in calls' : \E c \in calls : Follows(c, d)
  <2> SUFFICES ASSUME NEW d \in calls' PROVE \E c \in calls : Follows(c, d)
    OBVIOUS
  <2>1. PICK c \in calls : d = IF c.at = "ans" THEN c ELSE Answered(c, "error")
    BY DEF Crash, Restart
  <2>2. c \in Calls /\ Harmless(c.op, "error")
    BY <1>1, CallNumbers DEF Harmless
  <2> QED
    BY <2>1, <2>2, FollowsSelf, FollowsAnswered
<1>3. Len(minted) \in Nat
  BY <1>1, ServerHas
<1>4. (\A t \in Tabs : PageMoves(t) /\ (late[t] => late'[t])) /\ LocalMoves
  BY <1>1 DEF cvars, session, PageMoves, LocalMoves
<1>5. Passes
  BY <1>1, <1>2, <1>3, <1>4 DEF Passes
<1>6. NothingNew
  <2>1. \A c \in calls : ~(c.no > sent)
    BY <1>1 DEF AccountsInv, SInv, CallsOK, CallOK, CallTyped
  <2> QED
    BY <1>2, <2>1 DEF Follows, Added, NothingNew
<1>7. NewTokenOnce
  <2>1. \A d \in calls' : d.tk \in 0..Len(minted)
    BY <1>1, <1>3 DEF BothInv, AccountsInv, SInv, CallsOK, CallOK, CallTyped
  <2> QED
    BY <1>3, <2>1 DEF NewTokenOnce
<1>8. NamesMove
  BY DEF Crash, Restart, StaticUsers, NewUser, User, NamesMove
<1>9. \A u \in Users : captchas'[u] = <<>>
  BY DEF Crash, Restart
<1>10. CaptchasMove /\ ExportStays
  BY <1>1, <1>9 DEF CaptchasMove, CaptchasStay, ExportStays, cvars
<1> QED
  BY <1>1, <1>5, <1>6, <1>7, <1>8, <1>10, PlainKept DEF cvars
(* Nothing that a page does changes what the server knows.                 *)
LEMMA QuietKeeps ==
    ASSUME BothInv, Quiet
    PROVE  /\ NewTokenOnce /\ NamesMove /\ CaptchasStay /\ CaptchasMove
           /\ UNCHANGED <<users, minted, captchas, restarted>> /\ Len(minted) \in Nat /\ sent \in Nat
<1>1. UNCHANGED <<users, minted, captchas, restarted>>
  BY DEF Quiet, tables, sessions, hist
<1>2. Len(minted) \in Nat /\ sent \in Nat
  BY ServerHas DEF BothInv
<1>3. \A d \in calls' : d.tk \in 0..Len(minted)
  BY <1>1, <1>2 DEF BothInv, AccountsInv, SInv, CallsOK, CallOK, CallTyped
<1>4. NewTokenOnce
  BY <1>2, <1>3 DEF NewTokenOnce
<1> QED
  BY <1>1, <1>2, <1>4 DEF NamesMove, CaptchasStay, CaptchasMove

LEMMA QuietPasses ==
    ASSUME BothInv, Quiet, UNCHANGED <<bot, captchaIds>>, LocalMoves, \A t \in Tabs : PageMoves(t), LateGrows,
           \A d \in calls' : (\E c \in calls : Follows(c, d)) \/ Added(d)
    PROVE  Passes
  BY QuietKeeps DEF Passes, LateGrows

LEMMA NotAdded == ASSUME BothInv, NEW c \in calls, NEW d, Follows(c, d) PROVE ~Added(d)
<1>1. ~(c.no > sent)
  BY DEF BothInv, AccountsInv, SInv, CallsOK, CallOK, CallTyped
<1> QED
  BY <1>1 DEF Follows, Added

LEMMA BrowserPlain ==
    ASSUME BothInv, Quiet, ContactKept, LocalMoves, PagesPlain, LateGrows,
           \A d \in calls' : (\E c \in calls : Follows(c, d)) \/ News({d}),
           \A c \in calls : Given(c) /\ Open(c) => c \in calls' \/ page'[c.t].n # page[c.t].n
    PROVE  FormInv'
<1>1. \A t \in Tabs : PageMoves(t)
  BY DEF PagesPlain, SamePage, OtherPage, PageMoves
<1>2. \A d \in calls' : News({d}) => Added(d)
  BY DEF News
<1>3. Passes
  BY <1>1, <1>2, QuietPasses DEF ContactKept
<1>4. NothingNew
  BY NotAdded DEF NothingNew, News
<1>5. \A t \in Tabs : page[t].n \in Nat /\ page'[t].n \in Nat
  BY DEF BothInv, AccountsInv, BrowserInv, PagesOK, PageOK
<1>6. ContactStays /\ \A t \in Tabs : page'[t].n # page[t].n => page'[t].at # "chatbot"
  BY <1>5 DEF PagesPlain, SamePage, OtherPage, ContactStays
<1>7. ExportStays
  BY <1>5 DEF ExportStays, PagesPlain, SamePage, OtherPage
<1> QED
  BY <1>3, <1>4, <1>6, <1>7, QuietKeeps, PlainKept DEF ContactKept

LEMMA PlainForms ==
    ASSUME BothInv, Quiet, ContactKept, LocalMoves, PagesPlain, LateGrows, NEW R, Rest(R), Plainly(R)
    PROVE  FormInv'
<1>1. PICK S : Becomes(R, S) /\ News(S)
  BY DEF Plainly
<1>2. \A d \in calls' : (\E c \in calls : Follows(c, d)) \/ News({d})
  BY <1>1, FollowsSelf DEF Becomes, Rest, News
<1>3. \A c \in calls : Given(c) /\ Open(c) => c \in calls'
  BY <1>1 DEF Becomes, Rest, Open
<1> QED
  BY <1>2, <1>3, BrowserPlain

(* A page load.                                                            *)
LEMMA LoadForms ==
    ASSUME BothInv, Quiet, ContactKept, LocalMoves, PagesPlain, LateGrows, NEW t \in Tabs, page'[t].n # page[t].n, Plainly(Abandoned(t))
    PROVE  FormInv'
<1> DEFINE f(c) == [c EXCEPT !.t = IF @ = t THEN No ELSE @]
<1>1. PICK S : Becomes(Abandoned(t), S) /\ News(S)
  BY DEF Plainly
<1>2. \A c \in calls : c \in Calls
  BY FormCallHas
<1>3. \A c \in calls : Follows(c, f(c))
  BY <1>2 DEF Calls, Follows, Given
<1>4. \A c \in calls : c.t # t => f(c) = c
  BY <1>2 DEF Calls
<1>5. Abandoned(t) = {f(c) : c \in calls}
  BY DEF Abandoned
<1> HIDE DEF f
<1>6. \A d \in calls' : (\E c \in calls : Follows(c, d)) \/ News({d})
  BY <1>1, <1>3, <1>5 DEF Becomes, News
<1>7. \A c \in calls : Given(c) /\ Open(c) => c \in calls' \/ page'[c.t].n # page[c.t].n
  BY <1>1, <1>4, <1>5 DEF Becomes
<1> QED
  BY <1>6, <1>7, BrowserPlain

LEMMA RequestAdded ==
    ASSUME BothInv, NEW k \in {1, 2}, NEW t, NEW pg, t \in Tabs => pg <= page'[t].n, NEW op, NEW auth \in {0, local, local'},
           NEW ck, NEW u, NEW pw, NEW v
    PROVE  Added(Request(sent + k, t, pg, op, auth, ck, u, pw, v))
<1>1. PICK d : d = Request(sent + k, t, pg, op, auth, ck, u, pw, v)
  OBVIOUS
<1>2. d.no = sent + k /\ d.t = t /\ d.pg = pg /\ d.auth = auth /\ d.tk = 0
  BY <1>1 DEF Request
<1>3. d.res \notin Said
  BY <1>1, NotSaid, Zenon DEF Request
<1>4. sent \in Nat
  BY ServerHas DEF BothInv
<1> QED
  BY <1>1, <1>2, <1>3, <1>4 DEF Added

LEMMA RequestNews ==
    ASSUME BothInv, NEW k \in {1, 2}, NEW t, NEW pg, t \in Tabs => pg <= page'[t].n, NEW op, NEW auth \in {0, local, local'},
           NEW ck, NEW u, NEW pw, NEW v, op \notin FormOps, op = "username" => v = 1
    PROVE  News({Request(sent + k, t, pg, op, auth, ck, u, pw, v)})
<1>1. PICK d : d = Request(sent + k, t, pg, op, auth, ck, u, pw, v)
  OBVIOUS
<1>2. d.op = op /\ d.v = v
  BY <1>1 DEF Request
<1>3. Added(d)
  BY <1>1, RequestAdded
<1> QED
  BY <1>1, <1>2, <1>3 DEF News

LEMMA NewsAll == News({}) /\ \A x, y : News({x}) /\ News({y}) => News({x, y})
  BY DEF News

LEMMA PagesGrow == ASSUME BothInv, PagesPlain, NEW t \in Tabs PROVE page[t].n <= page'[t].n /\ page[t].n \in Nat /\ page'[t].n \in Nat
  BY DEF PagesPlain, SamePage, OtherPage, BothInv, AccountsInv, BrowserInv, PagesOK, PageOK

LEMMA CallPage == ASSUME BothInv, PagesPlain, NEW c \in calls, c.t \in Tabs PROVE c.pg <= page'[c.t].n
<1>1. c.pg <= page[c.t].n /\ c.pg \in Nat
  BY CallNumbers DEF BothInv, FormInv, PagesFit
<1> QED
  BY <1>1, PagesGrow

LEMMA SendPlainly ==
    ASSUME BothInv, PagesPlain, NEW t \in Tabs, NEW op, NEW u, NEW pw, NEW v, op \notin FormOps \cup {"username"}, Send(t, op, u, pw, v)
    PROVE  Plainly(calls)
<1>1. News({intercept(1, t, op, u, pw, v)})
  BY PagesGrow, RequestNews DEF intercept
<1> QED
  BY <1>1 DEF Send, Post, Plainly, Becomes

LEMMA AllRest == Rest(calls)
  BY DEF Rest

LEMMA OneRest == ASSUME NEW c \in calls, c.op # "captcha" \/ c.t \notin Tabs PROVE Rest(calls \ {c})
  BY DEF Rest, Given

LEMMA NoNews == (UNCHANGED calls => Plainly(calls)) /\ \A c : Done(c) => Plainly(calls \ {c})
  BY NewsAll DEF Plainly, Becomes, Done

LEMMA SameAll ==
    /\ UNCHANGED page => PagesPlain
    /\ UNCHANGED local => LocalMoves
    /\ local' = 0 => LocalMoves
    /\ UNCHANGED late => LateGrows
    /\ UNCHANGED contact => ContactKept
    /\ UNCHANGED cvars => UNCHANGED <<page, local, late, cookie>>
    /\ UNCHANGED session => UNCHANGED <<local, cookie>>
  BY DEF PagesPlain, SamePage, LocalMoves, LateGrows, ContactKept, contact, cvars, session

LEMMA NavigatePlain ==
    ASSUME BothInv, NEW t \in Tabs, NEW p, NEW tk \in {0, local, local'}, navigate(t, p, tk), p # "chatbot"
    PROVE  PagesPlain /\ page'[t].n # page[t].n /\ page'[t].n = page[t].n + 1
<1>1. DOMAIN page = Tabs /\ \A x \in Tabs : page[x].n \in Nat
  BY DEF BothInv, AccountsInv, BrowserInv, PagesOK, PageOK
<1>2. page'[t] = NewPage(p, page[t].n + 1, tk) /\ \A x \in Tabs \ {t} : page'[x] = page[x]
  BY <1>1 DEF navigate
<1>3. OtherPage(t) /\ page'[t].n = page[t].n + 1
  BY <1>1, <1>2 DEF NewPage, OtherPage
<1>4. \A x \in Tabs \ {t} : SamePage(x)
  BY <1>2 DEF SamePage
<1> QED
  BY <1>1, <1>3, <1>4 DEF PagesPlain

(* Forms that are sent.                                                    *)
LEMMA sendForms ==
    ASSUME BothInv, NEW t \in Tabs, UNCHANGED contact,
           \/ submitLogin(t) \/ submitCode(t) \/ save(t) \/ submitReset(t) \/ submitPassword(t)
           \/ submitSetup(t) \/ submitDisable(t)
    PROVE  FormInv'
<1>1. Quiet /\ UNCHANGED <<page, local>>
  BY DEF submitLogin, submitCode, save, submitReset, submitPassword, submitSetup, submitDisable, cvars, session
<1>2. LateGrows
  BY DEF submitLogin, submitCode, save, submitReset, submitPassword, submitSetup, submitDisable, cvars, Outdated, LateGrows
<1>3. PagesPlain /\ LocalMoves /\ ContactKept
  BY <1>1, SameAll
<1>4. Plainly(calls)
  <2>1. CASE submitLogin(t)
    <3>1. PICK u, pw : Post(userServiceLogin(t, u, pw, 0))
      BY <2>1 DEF submitLogin
    <3>2. "whoami" \notin FormOps /\ "login" \notin FormOps
      BY DEF FormOps, ChatOps, FeedbackOps, ExportOps
    <3>3. page[t].n <= page'[t].n
      BY <1>3, PagesGrow
    <3>4. News({getUserDetails(1, t, local, cookie)}) /\ News({intercept(2, t, "login", u, pw, 0)})
      BY <3>2, <3>3, RequestNews DEF getUserDetails, intercept
    <3>5. News(userServiceLogin(t, u, pw, 0))
      BY <3>4, NewsAll DEF userServiceLogin
    <3> QED
      BY <3>1, <3>5 DEF Post, Plainly, Becomes
  <2>2. CASE ~submitLogin(t)
    <3>1. PICK op, u, pw, v : op \in {"verify", "register", "reset", "password", "setup", "disable"} /\ Send(t, op, u, pw, v)
      BY <2>2 DEF submitCode, save, submitReset, submitPassword, submitSetup, submitDisable
    <3>2. op \notin FormOps \cup {"username"}
      BY <3>1 DEF FormOps, ChatOps, FeedbackOps, ExportOps
    <3> QED
      BY <1>3, <3>1, <3>2, SendPlainly
  <2> QED
    BY <2>1, <2>2
<1> QED
  BY <1>1, <1>2, <1>3, <1>4, AllRest, PlainForms

LEMMA logoutForms == ASSUME BothInv, NEW t \in Tabs, UNCHANGED contact, logout(t) PROVE FormInv'
<1>1. Quiet /\ local' = 0 /\ UNCHANGED late /\ navigate(t, "search", 0) /\ Send(t, "ip", No, 0, 0)
  BY DEF logout, RemoveToken
<1>2. PagesPlain /\ LocalMoves /\ ContactKept /\ LateGrows
  BY <1>1, SameAll, NavigatePlain
<1>3. Plainly(calls)
  BY <1>1, <1>2, SendPlainly DEF FormOps, ChatOps, FeedbackOps, ExportOps
<1> QED
  BY <1>1, <1>2, <1>3, AllRest, PlainForms

LEMMA oauthLoginForms == ASSUME BothInv, NEW t \in Tabs, UNCHANGED contact, oauthLogin(t) PROVE FormInv'
<1>1. Quiet /\ ContactKept /\ LateGrows
  BY SameAll DEF oauthLogin
<1>2. CASE (\E u \in todo.who : Send(t, "register", u, OauthPassword, 1)) /\ UNCHANGED <<session, page>>
  <2>1. PagesPlain /\ LocalMoves
    BY <1>2, SameAll
  <2>2. Plainly(calls)
    BY <1>2, <2>1, SendPlainly DEF FormOps, ChatOps, FeedbackOps, ExportOps
  <2> QED
    BY <1>1, <2>1, <2>2, AllRest, PlainForms
<1>3. CASE RemoveToken(t) /\ navigate(t, "login", 0) /\ UNCHANGED <<calls, sent>>
  <2>1. PagesPlain /\ LocalMoves
    BY <1>3, SameAll, NavigatePlain DEF RemoveToken
  <2> QED
    BY <1>1, <1>3, <2>1, NoNews, AllRest, PlainForms
<1> QED
  BY <1>2, <1>3 DEF oauthLogin

LEMMA PagesHave == ASSUME BothInv PROVE DOMAIN page = Tabs /\ \A t \in Tabs : DOMAIN page[t] = PageFields
  BY DEF BothInv, AccountsInv, BrowserInv, PagesOK, PageOK

LEMMA emailTypedForms == ASSUME BothInv, NEW t \in Tabs, UNCHANGED contact, emailTyped(t) PROVE FormInv'
<1>1. Quiet /\ ContactKept /\ LateGrows /\ LocalMoves /\ UNCHANGED calls
  BY SameAll DEF emailTyped
<1>2. PagesPlain
  BY PagesHave DEF emailTyped, PagesPlain, SamePage, PageFields
<1> QED
  BY <1>1, <1>2, NoNews, AllRest, PlainForms

LEMMA findSecurityQuestionForms == ASSUME BothInv, NEW t \in Tabs, UNCHANGED contact, findSecurityQuestion(t) PROVE FormInv'
<1>1. Quiet /\ ContactKept /\ LocalMoves
  BY SameAll DEF findSecurityQuestion
<1>2. LateGrows
  BY DEF findSecurityQuestion, LateGrows, BothInv, AccountsInv, BrowserInv, LateOK
<1>3. PagesPlain
  BY PagesHave DEF findSecurityQuestion, PagesPlain, SamePage, PageFields
<1>4. Plainly(calls)
  <2>1. CASE UNCHANGED calls
    BY <2>1, NoNews
  <2>2. CASE \E u : Send(t, "question", u, 0, 0)
    BY <1>3, <2>2, SendPlainly DEF FormOps, ChatOps, FeedbackOps, ExportOps
  <2> QED
    BY <2>1, <2>2 DEF findSecurityQuestion
<1> QED
  BY <1>1, <1>2, <1>3, <1>4, AllRest, PlainForms

LEMMA submitForms == ASSUME BothInv, NEW t \in Tabs, UNCHANGED contact, submit(t) PROVE FormInv'
<1>1. Quiet /\ ContactKept /\ LocalMoves /\ LateGrows
  BY SameAll DEF submit
<1>2. PagesPlain
  BY PagesHave DEF submit, PagesPlain, SamePage, PageFields
<1>3. PICK op \in {"username", "erasure"} : Post({Load(t, page[t].n, op, cookie, 1)})
  BY DEF submit
<1>4. op \notin FormOps
  BY DEF FormOps, ChatOps, FeedbackOps, ExportOps
<1>5. News({Load(t, page[t].n, op, cookie, 1)})
  BY <1>2, <1>4, PagesGrow, RequestNews DEF Load
<1>6. Plainly(calls)
  BY <1>3, <1>5 DEF Post, Plainly, Becomes
<1> QED
  BY <1>1, <1>2, <1>6, AllRest, PlainForms

LEMMA goToProfilePageForms == ASSUME BothInv, NEW t \in Tabs, UNCHANGED contact, goToProfilePage(t) PROVE FormInv'
<1>1. Quiet /\ ContactKept /\ LocalMoves /\ LateGrows
  BY SameAll DEF goToProfilePage
<1>2. PICK p :
        /\ p \in {"profile", "erasure"} /\ navigate(t, p, local)
        /\ calls' = Abandoned(t) \cup {Load(t, page[t].n + 1, IF p = "profile" THEN p ELSE "erasure form", cookie, 0)}
  BY DEF goToProfilePage
<1>3. PagesPlain /\ page'[t].n # page[t].n /\ page'[t].n = page[t].n + 1
  BY <1>2, NavigatePlain
<1>4. PICK op : op \in {"profile", "erasure form"} /\ op = IF p = "profile" THEN p ELSE "erasure form"
  BY <1>2
<1>5. op \notin FormOps /\ op # "username"
  BY <1>4 DEF FormOps, ChatOps, FeedbackOps, ExportOps
<1>6. page[t].n + 1 <= page'[t].n
  BY <1>3, PagesGrow
<1>7. News({Load(t, page[t].n + 1, op, cookie, 0)})
  BY <1>5, <1>6, RequestNews DEF Load
<1>8. Plainly(Abandoned(t))
  BY <1>2, <1>4, <1>7 DEF Plainly, Becomes
<1> QED
  BY <1>1, <1>3, <1>8, LoadForms

LEMMA ngOnInitForms == ASSUME BothInv, NEW t \in Tabs, UNCHANGED contact, ngOnInit(t) PROVE FormInv'
<1>1. Quiet /\ ContactKept /\ LocalMoves /\ LateGrows
  BY SameAll DEF ngOnInit
<1>2. PagesPlain /\ page'[t].n # page[t].n /\ page'[t].n = page[t].n + 1
  BY NavigatePlain DEF ngOnInit
<1>3. "whoami" \notin FormOps /\ page[t].n + 1 <= page'[t].n
  BY <1>2, PagesGrow DEF FormOps, ChatOps, FeedbackOps, ExportOps
<1>4. News({Opened(t, "whoami")})
  BY <1>3, RequestNews DEF Opened
<1>5. Plainly(Abandoned(t))
  BY <1>4, NewsAll DEF ngOnInit, Plainly, Becomes
<1> QED
  BY <1>1, <1>2, <1>5, LoadForms

LEMMA exportForgottenForms == ASSUME BothInv, UNCHANGED contact, exportForgotten PROVE FormInv'
<1>1. Quiet /\ ContactKept /\ LocalMoves /\ LateGrows /\ PagesPlain /\ UNCHANGED calls
  BY SameAll DEF exportForgotten
<1> QED
  BY <1>1, NoNews, AllRest, PlainForms

(* Answers that are no form's.                                             *)
LEMMA AnswerHas ==
    ASSUME BothInv, NEW c \in calls, c.at = "ans", c.t # No
    PROVE  c \in Calls /\ c.t \in Tabs /\ AccountsInv /\ c.pg \in Nat /\ page[c.t].n \in Nat
  BY CallNumbers, PageNumbers DEF BothInv

LEMMA takenForms ==
    ASSUME BothInv, NEW c \in calls, UNCHANGED contact, verifyError(c) \/ ipSaved(c) \/ passwordChanged(c) \/ Ignored(c)
    PROVE  FormInv'
<1>1. Quiet /\ UNCHANGED cvars /\ Done(c)
  BY DEF verifyError, ipSaved, passwordChanged, Ignored
<1>2. PagesPlain /\ LocalMoves /\ LateGrows /\ ContactKept
  BY <1>1, SameAll
<1>3. c.op # "captcha" \/ c.t \notin Tabs
  BY AccountsAssumption DEF verifyError, ipSaved, passwordChanged, Ignored, AnswerOf
<1> QED
  BY <1>1, <1>2, <1>3, NoNews, OneRest, PlainForms

(* The token of an answer replaces the one in localStorage.                *)
LEMMA TokenTaken ==
    ASSUME BothInv, NEW c \in calls, Brings(c), local' = c.tk, \A d \in calls' : d \in calls \ {c} \/ Added(d)
    PROVE  LocalMoves
<1>1. \A d \in calls \ {c} : d.no # c.no
  BY DEF BothInv, AccountsInv, SInv, CallsApart
<1>2. ~(c.no > sent)
  BY DEF BothInv, AccountsInv, SInv, CallsOK, CallOK, CallTyped
<1>3. \A d \in calls' : d.no # c.no
  BY <1>1, <1>2 DEF Added
<1> QED
  BY <1>3 DEF LocalMoves

LEMMA logInForms ==
    ASSUME BothInv, NEW c \in calls, UNCHANGED contact, loginNext(c) \/ verifyNext(c)
    PROVE  FormInv'
<1>1. Quiet /\ UNCHANGED late /\ LogIn(c) /\ c.at = "ans" /\ c.res = "ok" /\ c.t # No /\ c.op \in {"login", "verify"}
  BY DEF loginNext, verifyNext, AnswerOf
<1>2. c.t \in Tabs /\ AccountsInv
  BY <1>1, AnswerHas
<1>3. local' = c.tk /\ navigate(c.t, "search", c.tk) /\ calls' = (calls \ {c}) \cup {getUserDetails(1, c.t, c.tk, c.tk)}
  BY <1>1 DEF LogIn, Then
<1>4. PagesPlain /\ ContactKept /\ LateGrows
  BY <1>1, <1>2, <1>3, NavigatePlain, SameAll
<1>5. "whoami" \notin FormOps /\ page[c.t].n <= page'[c.t].n
  BY <1>2, <1>4, PagesGrow DEF FormOps, ChatOps, FeedbackOps, ExportOps
<1>6. News({getUserDetails(1, c.t, c.tk, c.tk)})
  BY <1>3, <1>5, RequestNews DEF getUserDetails
<1>7. LoggingIn(c)
  BY <1>2 DEF AccountsInv, SInv, CallsOK, CallOK
<1>8. Brings(c)
  BY <1>1, <1>7 DEF LoggingIn, LoginOps, Brings
<1>9. LocalMoves
  BY <1>3, <1>6, <1>8, TokenTaken DEF News
<1>10. Plainly(calls \ {c}) /\ Rest(calls \ {c})
  BY <1>1, <1>3, <1>6, OneRest DEF Plainly, Becomes
<1> QED
  BY <1>1, <1>4, <1>9, <1>10, PlainForms

LEMMA loginOtherForms ==
    ASSUME BothInv, NEW c \in calls, UNCHANGED contact, loginTotp(c) \/ loginError(c) \/ invalidateSession(c)
    PROVE  FormInv'
<1>1. Quiet /\ UNCHANGED late /\ Done(c) /\ c.at = "ans" /\ c.t # No /\ c.op = "login"
  BY DEF loginTotp, loginError, invalidateSession, AnswerOf
<1>2. c.t \in Tabs
  BY <1>1, AnswerHas
<1>3. LocalMoves
  BY SameAll DEF loginTotp, loginError, invalidateSession, RemoveToken
<1>4. PagesPlain
  BY <1>2, SameAll, NavigatePlain DEF loginTotp, loginError, invalidateSession
<1>5. Plainly(calls \ {c}) /\ Rest(calls \ {c})
  BY <1>1, NoNews, OneRest
<1> QED
  BY <1>1, <1>3, <1>4, <1>5, SameAll, PlainForms

LEMMA cookieForms ==
    ASSUME BothInv, NEW c \in calls, UNCHANGED contact, userDetails(c) \/ erased(c)
    PROVE  FormInv'
<1>1. Quiet /\ UNCHANGED <<local, page>> /\ Done(c) /\ c.op # "captcha"
  BY DEF userDetails, erased, AnswerOf
<1>2. LateGrows
  BY DEF userDetails, erased, OutdatesOthers, LateGrows
<1> QED
  BY <1>1, <1>2, SameAll, NoNews, OneRest, PlainForms

LEMMA usernameSavedForms == ASSUME BothInv, NEW c \in calls, UNCHANGED contact, usernameSaved(c) PROVE FormInv'
<1>1. Quiet /\ UNCHANGED <<local, page>> /\ c.op = "username" /\ c.at = "ans" /\ c.t # No
  BY DEF usernameSaved, AnswerOf
<1>2. LateGrows
  BY DEF usernameSaved, OutdatesOthers, LateGrows
<1>3. PagesPlain /\ LocalMoves /\ ContactKept
  BY <1>1, SameAll
<1>4. c.t \in Tabs
  BY <1>1, AnswerHas
<1>5. "profile" \notin FormOps /\ page[c.t].n <= page'[c.t].n
  BY <1>3, <1>4, PagesGrow DEF FormOps, ChatOps, FeedbackOps, ExportOps
<1>6. News({Load(c.t, page[c.t].n, "profile", c.tk, 0)})
  BY <1>5, RequestNews DEF Load
<1>7. Plainly(calls \ {c})
  BY <1>6, NoNews DEF usernameSaved, Then, Plainly, Becomes
<1>8. Rest(calls \ {c})
  BY <1>1, OneRest
<1> QED
  BY <1>1, <1>2, <1>3, <1>7, <1>8, PlainForms

LEMMA oauthSavedForms == ASSUME BothInv, NEW c \in calls, UNCHANGED contact, oauthSaved(c) PROVE FormInv'
<1>1. Quiet /\ UNCHANGED cvars /\ c.op = "register" /\ c.at = "ans" /\ c.t # No /\ Then(c, userServiceLogin(c.t, c.u, c.pw, 1))
  BY DEF oauthSaved, AnswerOf
<1>2. PagesPlain /\ LocalMoves /\ ContactKept /\ LateGrows
  BY <1>1, SameAll
<1>3. c.t \in Tabs
  BY <1>1, AnswerHas
<1>4. "whoami" \notin FormOps /\ "login" \notin FormOps /\ page[c.t].n <= page'[c.t].n
  BY <1>2, <1>3, PagesGrow DEF FormOps, ChatOps, FeedbackOps, ExportOps
<1>5. News({getUserDetails(1, c.t, local, cookie)}) /\ News({intercept(2, c.t, "login", c.u, c.pw, 1)})
  BY <1>4, RequestNews DEF getUserDetails, intercept
<1>6. News(userServiceLogin(c.t, c.u, c.pw, 1))
  BY <1>5, NewsAll DEF userServiceLogin
<1>7. Plainly(calls \ {c}) /\ Rest(calls \ {c})
  BY <1>1, <1>6, OneRest DEF Then, Plainly, Becomes
<1> QED
  BY <1>1, <1>2, <1>7, PlainForms

LEMMA savedForms == ASSUME BothInv, NEW c \in calls, UNCHANGED contact, saved(c) PROVE FormInv'
<1>1. Quiet /\ UNCHANGED cvars /\ c.op = "register" /\ c.at = "ans" /\ c.t # No
  BY DEF saved, AnswerOf
<1>2. PagesPlain /\ LocalMoves /\ ContactKept /\ LateGrows
  BY <1>1, SameAll
<1>3. c.t \in Tabs
  BY <1>1, AnswerHas
<1>4. "answer" \notin FormOps /\ page[c.t].n <= page'[c.t].n
  BY <1>2, <1>3, PagesGrow DEF FormOps, ChatOps, FeedbackOps, ExportOps
<1>5. News({intercept(1, c.t, "answer", c.u, 0, 0)})
  BY <1>4, RequestNews DEF intercept
<1>6. Plainly(calls \ {c})
  BY <1>5, NoNews DEF saved, Then, Plainly, Becomes
<1> QED
  BY <1>1, <1>2, <1>6, OneRest, PlainForms

LEMMA answerSavedForms == ASSUME BothInv, NEW c \in calls, UNCHANGED contact, answerSaved(c) PROVE FormInv'
<1>1. Quiet /\ UNCHANGED <<session, late>> /\ c.op = "answer" /\ c.at = "ans" /\ c.t # No /\ Done(c)
  BY DEF answerSaved, AnswerOf
<1>2. c.t \in Tabs
  BY <1>1, AnswerHas
<1>3. PagesPlain
  BY <1>2, SameAll, NavigatePlain DEF answerSaved
<1> QED
  BY <1>1, <1>3, SameAll, NoNews, OneRest, PlainForms

LEMMA fieldForms ==
    ASSUME BothInv, NEW c \in calls, UNCHANGED contact,
           questionFound(c) \/ resetForm(c) \/ setupDone(c) \/ statusKnown(c) \/ pageLoaded(c)
    PROVE  FormInv'
<1>1. Quiet /\ UNCHANGED session /\ c.op # "captcha" /\ c.at = "ans" /\ c.t # No /\ Done(c)
  BY DEF questionFound, resetForm, setupDone, statusKnown, pageLoaded, AnswerOf
<1>2. c.t \in Tabs
  BY <1>1, AnswerHas
<1>3. LateGrows
  BY DEF questionFound, resetForm, setupDone, statusKnown, pageLoaded, LateGrows, BothInv, AccountsInv, BrowserInv, LateOK
<1>4. PagesPlain
  <2>1. CASE questionFound(c)
    BY <1>2, <2>1, PagesHave DEF questionFound, PagesPlain, SamePage, PageFields
  <2>2. CASE resetForm(c)
    BY <1>2, <2>2, PagesHave DEF resetForm, PagesPlain, SamePage, PageFields
  <2>3. CASE setupDone(c)
    BY <1>2, <2>3, PagesHave DEF setupDone, PagesPlain, SamePage, PageFields
  <2>4. CASE statusKnown(c)
    BY <1>2, <2>4, PagesHave DEF statusKnown, PagesPlain, SamePage, PageFields
  <2>5. CASE pageLoaded(c)
    BY <1>2, <2>5, PagesHave DEF pageLoaded, PagesPlain, SamePage, PageFields
  <2> QED
    BY <2>1, <2>2, <2>3, <2>4, <2>5
<1> QED
  BY <1>1, <1>3, <1>4, SameAll, NoNews, OneRest, PlainForms

LEMMA disableDoneForms == ASSUME BothInv, NEW c \in calls, UNCHANGED contact, disableDone(c) PROVE FormInv'
<1>1. Quiet /\ UNCHANGED cvars /\ c.op = "disable" /\ c.at = "ans" /\ c.t # No
  BY DEF disableDone, AnswerOf
<1>2. PagesPlain /\ LocalMoves /\ ContactKept /\ LateGrows
  BY <1>1, SameAll
<1>3. c.t \in Tabs /\ sent \in Nat
  BY <1>1, AnswerHas, QuietKeeps
<1>4. "status" \notin FormOps /\ c.pg <= page'[c.t].n
  BY <1>2, <1>3, CallPage DEF FormOps, ChatOps, FeedbackOps, ExportOps
<1>5. updateStatus(c, 0) = Request(sent + 1, c.t, c.pg, "status", local, cookie, No, 0, 0)
  BY <1>3 DEF updateStatus
<1>6. updateStatus(c, 1) = Request(sent + 2, c.t, c.pg, "status", local, cookie, No, 1, 0)
  <2>1. sent + 1 + 1 = sent + 2
    BY <1>3
  <2> QED
    BY <2>1 DEF updateStatus
<1>7. News({updateStatus(c, 0)}) /\ News({updateStatus(c, 1)})
  BY <1>4, <1>5, <1>6, RequestNews
<1>8. News({updateStatus(c, 0), updateStatus(c, 1)})
  BY <1>7, NewsAll
<1>9. Plainly(calls \ {c})
  BY <1>8, NoNews DEF disableDone, Then, Plainly, Becomes
<1> QED
  BY <1>1, <1>2, <1>9, OneRest, PlainForms

LEMMA authorKnownForms == ASSUME BothInv, NEW c \in calls, authorKnown(c) PROVE FormInv'
<1>1. Quiet /\ ContactKept /\ UNCHANGED <<local, page>> /\ Done(c) /\ c.op # "captcha"
  BY DEF authorKnown, AnswerOf, ContactKept
<1>2. LateGrows
  BY DEF authorKnown, LateGrows
<1> QED
  BY <1>1, <1>2, SameAll, NoNews, OneRest, PlainForms

(* The forms for feedback and for exports.                                 *)
LEMMA PartsKept ==
    ASSUME BothInv, Quiet, Passes, ContactKept, NewFits, NewFeedback, ContactStays \/ restarted', CaptchaInv',
           \A d \in calls' : Added(d) => d.op \notin ChatOps \cup {"username"},
           \A t \in Tabs : page'[t].n # page[t].n => page'[t].at # "chatbot"
    PROVE  FormInv'
<1>1. NewHeard /\ NewWords
  BY DEF NewHeard, NewWords, ChatOps
<1>2. NewTokenOnce /\ NamesMove
  BY QuietKeeps
<1>3. PagesFit' /\ FeedbackInv' /\ QuestionInv' /\ TokenInv'
  BY <1>1, <1>2, PagesFitKept, FeedbackKept, QuestionKept, TokenKept
<1>4. Asked' /\ Worded' /\ InTurn'
  BY <1>1, <1>2, AskedKept, WordedKept, InTurnKept DEF ContactKept
<1> QED
  BY <1>3, <1>4 DEF FormInv, NameInv

LEMMA PlainPages ==
    ASSUME BothInv, PagesPlain
    PROVE  /\ \A t \in Tabs : PageMoves(t)
           /\ ContactStays
           /\ \A t \in Tabs : page'[t].n # page[t].n => page'[t].at # "chatbot"
           /\ \A t \in Tabs : page'[t].at = "export" /\ page'[t].n = page[t].n => page'[t].captcha = page[t].captcha
<1>1. \A t \in Tabs : page[t].n \in Nat /\ page'[t].n \in Nat
  BY PagesGrow
<1> QED
  BY <1>1 DEF PagesPlain, SamePage, OtherPage, PageMoves, ContactStays

LEMMA FeedbackForms ==
    ASSUME BothInv, Quiet, ContactKept, UNCHANGED <<local, late>>, PagesPlain,
           NEW R, R \subseteq calls, \A c \in calls : c.op = "captcha" => c \in R,
           NEW S, \A d \in S : Added(d) /\ d.op \in {"whoami", "export"} \cup FeedbackOps, Becomes(R, S), NewFits, NewFeedback, NewExport
    PROVE  FormInv'
<1>1. LocalMoves /\ LateGrows /\ \A t \in Tabs : PageMoves(t)
  BY SameAll, PlainPages
<1>2. \A d \in calls' : (\E c \in calls : Follows(c, d)) \/ Added(d)
  BY FollowsSelf DEF Becomes
<1>3. Passes
  BY <1>1, <1>2, QuietPasses DEF ContactKept
<1>4. \A d \in calls' : Added(d) => d \in S
  BY NotAdded, FollowsSelf DEF Becomes
<1>5. ExportStays
  BY PlainPages DEF ExportStays, Given, Becomes
<1>6. CaptchaInv'
  BY <1>3, <1>5, QuietKeeps, CaptchaKept
<1>7. \A d \in calls' : Added(d) => d.op \notin ChatOps \cup {"username"}
  BY <1>4 DEF ChatOps, FeedbackOps
<1> QED
  BY <1>3, <1>6, <1>7, PlainPages, PartsKept

LEMMA FormCallsAdded ==
    ASSUME BothInv, NEW t \in Tabs, NEW n, n <= page'[t].n
    PROVE  \A d \in FormCalls(t, n) : Added(d) /\ d.op \in {"whoami", "captchas"} /\ d.t = t /\ d.pg = n
<1>1. /\ Added(Request(sent + 1, t, n, "whoami", local, cookie, No, 1, 0))
      /\ Added(Request(sent + 2, t, n, "captchas", local, cookie, No, 0, 0))
  BY RequestAdded
<1>2. /\ Request(sent + 1, t, n, "whoami", local, cookie, No, 1, 0).op = "whoami"
      /\ Request(sent + 1, t, n, "whoami", local, cookie, No, 1, 0).t = t
      /\ Request(sent + 1, t, n, "whoami", local, cookie, No, 1, 0).pg = n
  BY DEF Request
<1>3. /\ Request(sent + 2, t, n, "captchas", local, cookie, No, 0, 0).op = "captchas"
      /\ Request(sent + 2, t, n, "captchas", local, cookie, No, 0, 0).t = t
      /\ Request(sent + 2, t, n, "captchas", local, cookie, No, 0, 0).pg = n
  BY DEF Request
<1> QED
  BY <1>1, <1>2, <1>3 DEF FormCalls

LEMMA AddedOf ==
    ASSUME BothInv, NEW R, R \subseteq calls, NEW S, Becomes(R, S) PROVE \A d \in calls' : Added(d) => d \in S
  BY NotAdded, FollowsSelf DEF Becomes

LEMMA openContactForms == ASSUME BothInv, NEW t \in Tabs, openContact(t) PROVE FormInv'
<1>1. Quiet /\ ContactKept /\ UNCHANGED <<local, late>> /\ navigate(t, "contact", local)
  BY DEF openContact, ContactKept, session
<1>2. PagesPlain /\ page'[t].n = page[t].n + 1
  BY <1>1, NavigatePlain
<1>3. page'[t].at = "contact"
  BY <1>1, PagesHave DEF navigate, NewPage
<1>4. page[t].n + 1 <= page'[t].n
  BY <1>2, PagesGrow
<1>5. PICK S : S = FormCalls(t, page[t].n + 1)
  OBVIOUS
<1>6. \A d \in S : Added(d) /\ d.op \in {"whoami", "captchas"} /\ d.t = t /\ d.pg = page[t].n + 1
  BY <1>4, <1>5, FormCallsAdded
<1>7. Becomes(calls, S)
  BY <1>5 DEF openContact, Post, Becomes
<1>8. \A d \in calls' : Added(d) => d \in S
  BY <1>7, AddedOf
<1>9. NewFits /\ NewFeedback /\ NewExport
  BY <1>3, <1>6, <1>8 DEF NewFits, NewFeedback, NewExport, FeedbackOps, ExportOps
<1>10. \A d \in S : Added(d) /\ d.op \in {"whoami", "export"} \cup FeedbackOps
  BY <1>6 DEF FeedbackOps
<1> QED
  BY <1>1, <1>2, <1>7, <1>9, <1>10, FeedbackForms

LEMMA feedbackSavedForms == ASSUME BothInv, NEW c \in calls, feedbackSaved(c) PROVE FormInv'
<1>1. Quiet /\ UNCHANGED <<contact, cvars>> /\ c.op = "feedback" /\ c.at = "ans" /\ c.t # No
  BY DEF feedbackSaved, AnswerOf
<1>2. ContactKept /\ PagesPlain /\ UNCHANGED <<page, local, late>>
  BY <1>1, SameAll
<1>3. c.t \in Tabs /\ c.pg <= page'[c.t].n
  BY <1>1, <1>2, AnswerHas, CallPage
<1>4. PICK S : Becomes(calls \ {c}, S) /\ S \subseteq FormCalls(c.t, c.pg)
  <2>1. CASE Done(c)
    <3>1. Becomes(calls \ {c}, {})
      BY <2>1 DEF Done, Becomes
    <3> QED
      BY <3>1
  <2>2. CASE Then(c, FormCalls(c.t, c.pg))
    BY <2>2 DEF Then, Becomes
  <2> QED
    BY <2>1, <2>2 DEF feedbackSaved
<1>5. \A d \in S : Added(d) /\ d.op \in {"whoami", "captchas"} /\ d.t = c.t /\ d.pg = c.pg
  BY <1>3, <1>4, FormCallsAdded
<1>6. \A d \in calls' : Added(d) => d \in S
  BY <1>4, AddedOf
<1>7. c.pg = page[c.t].n => page[c.t].at = "contact"
  BY <1>1, <1>3 DEF BothInv, FormInv, PagesFit, Open, FeedbackOps
<1>8. NewFits /\ NewFeedback /\ NewExport
  BY <1>2, <1>5, <1>6, <1>7 DEF NewFits, NewFeedback, NewExport, FeedbackOps, ExportOps, Open
<1>9. \A d \in S : Added(d) /\ d.op \in {"whoami", "export"} \cup FeedbackOps
  BY <1>5 DEF FeedbackOps
<1> QED
  BY <1>1, <1>2, <1>4, <1>8, <1>9, FeedbackForms

(* The call of a form on the open page.                                    *)
LEMMA SendAdded ==
    ASSUME BothInv, NEW t \in Tabs, UNCHANGED page, NEW op, NEW u, NEW pw, NEW v, Send(t, op, u, pw, v),
           NEW d, d = intercept(1, t, op, u, pw, v)
    PROVE  Becomes(calls, {d}) /\ Added(d) /\ d.t = t /\ d.pg = page[t].n /\ d.op = op /\ d.pw = pw /\ d.v = v /\ d.auth = local
<1>1. page[t].n <= page'[t].n
  BY PageNumbers DEF BothInv
<1>2. Added(intercept(1, t, op, u, pw, v))
  BY <1>1, RequestAdded DEF intercept
<1>3. d.t = t /\ d.pg = page[t].n /\ d.op = op /\ d.pw = pw /\ d.v = v /\ d.auth = local
  BY DEF intercept, Request
<1> QED
  BY <1>2, <1>3 DEF Send, Post, Becomes

LEMMA submitFeedbackForms == ASSUME BothInv, NEW t \in Tabs, submitFeedback(t) PROVE FormInv'
<1>1. Quiet /\ UNCHANGED <<contact, cvars>> /\ page[t].at = "contact" /\ page[t].captcha # 0
  BY DEF submitFeedback
<1>2. ContactKept /\ PagesPlain /\ UNCHANGED <<page, local, late>> /\ LocalMoves /\ LateGrows
  BY <1>1, SameAll
<1>3. CASE UNCHANGED calls
  BY <1>1, <1>2, <1>3, NoNews, AllRest, PlainForms
<1>4. CASE Send(t, "feedback", author[t], 0, page[t].captcha)
  <2>0. PICK v, d : v = page[t].captcha /\ d = intercept(1, t, "feedback", author[t], 0, v)
    OBVIOUS
  <2>1. Becomes(calls, {d}) /\ Added(d) /\ d.t = t /\ d.pg = page[t].n /\ d.op = "feedback" /\ d.v = v
    BY <1>2, <1>4, <2>0, SendAdded
  <2>2. \A e \in calls' : Added(e) => e = d
    BY <2>1, AddedOf
  <2>3. ~restarted => page[t].captcha \in captchaIds
    BY <1>1 DEF BothInv, FormInv, FeedbackInv
  <2>4. NewFits /\ NewFeedback /\ NewExport
    BY <1>1, <1>2, <2>0, <2>1, <2>2, <2>3 DEF NewFits, NewFeedback, NewExport, ExportOps
  <2> QED
    BY <1>1, <1>2, <2>1, <2>4, FeedbackForms DEF FeedbackOps
<1> QED
  BY <1>3, <1>4 DEF submitFeedback

LEMMA newCaptchaShownForms == ASSUME BothInv, NEW c \in calls, newCaptchaShown(c) PROVE FormInv'
<1>1. Quiet /\ UNCHANGED <<contact, session, late>> /\ c.op = "captchas" /\ c.at = "ans" /\ c.t # No /\ calls' = calls \ {c}
  BY DEF newCaptchaShown, AnswerOf, Done
<1>2. ContactKept /\ LocalMoves /\ LateGrows
  BY <1>1, SameAll
<1>3. c.t \in Tabs
  BY <1>1, AnswerHas
<1>4. \A t \in Tabs : page'[t].n = page[t].n /\ page'[t].at = page[t].at /\ page'[t].tk = page[t].tk
  BY <1>3, PagesHave DEF newCaptchaShown, PageFields
<1>5. \A t \in Tabs : page'[t].captcha = page[t].captcha \/ (page[t].at = "contact" /\ c.res = "ok" /\ page'[t].captcha = c.v)
  <2>1. Mine(c) => page[c.t].at = "contact"
    BY <1>1, <1>3 DEF BothInv, FormInv, PagesFit, Open, FeedbackOps, Mine
  <2> QED
    BY <1>3, <2>1, PagesHave DEF newCaptchaShown, PageFields
<1>6. \A d \in calls' : \E x \in calls : Follows(x, d)
  BY <1>1, FollowsSelf
<1>7. \A d \in calls' : ~Added(d)
  BY <1>6, NotAdded
<1>8. \A t \in Tabs : PageMoves(t)
  BY <1>4 DEF PageMoves
<1>9. Passes
  BY <1>1, <1>2, <1>6, <1>8, QuietPasses DEF ContactKept
<1>10. ContactStays \/ restarted'
  <2>1. ~restarted /\ c.res = "ok" => c.v \in captchaIds
    BY <1>1 DEF BothInv, FormInv, FeedbackInv
  <2>2. restarted' = restarted /\ captchaIds' = captchaIds
    BY <1>1, <1>2, QuietKeeps DEF ContactKept
  <2> QED
    BY <1>4, <1>5, <2>1, <2>2 DEF ContactStays
<1>11. ExportStays /\ NewExport /\ NewFits /\ NewFeedback
  BY <1>1, <1>4, <1>5, <1>7 DEF ExportStays, Given, NewExport, NewFits, NewFeedback
<1>12. CaptchaInv'
  BY <1>1, <1>9, <1>11, QuietKeeps, CaptchaKept
<1> QED
  BY <1>1, <1>2, <1>4, <1>7, <1>9, <1>10, <1>11, <1>12, PartsKept

(* The captcha of an export is the newest, as far as the page can know.    *)
LEMMA saveExportForms == ASSUME BothInv, NEW t \in Tabs, UNCHANGED contact, saveExport(t) PROVE FormInv'
<1>1. Quiet /\ UNCHANGED cvars /\ page[t].at = "export" /\ (page[t].present => page[t].captcha # 0)
  BY DEF saveExport
<1>2. ContactKept /\ PagesPlain /\ UNCHANGED <<page, local, late>>
  BY <1>1, SameAll
<1>3. PICK pw : pw = IF Newest(t) THEN 1 ELSE 0
  OBVIOUS
<1>4. PICK v : v = IF page[t].present THEN page[t].captcha ELSE 0
  OBVIOUS
<1>5. PICK d : d = intercept(1, t, "export", No, pw, v)
  OBVIOUS
<1>6. Send(t, "export", No, pw, v)
  BY <1>3, <1>4 DEF saveExport
<1>7. /\ Becomes(calls, {d}) /\ Added(d) /\ d.t = t /\ d.pg = page[t].n /\ d.op = "export" /\ d.pw = pw /\ d.v = v
       /\ d.auth = local
  BY <1>2, <1>5, <1>6, SendAdded
<1>8. \A e \in calls' : Added(e) => e = d
  BY <1>7, AddedOf
<1>9. NewExport
  <2>1. CASE ~Newest(t)
    BY <1>3, <1>7, <1>8, <2>1 DEF NewExport
  <2>2. CASE Newest(t)
    <3>1. page[t].present /\ page[t].tk = local /\ ~late[t] /\ \A c \in calls : c.op # "captcha"
      BY <2>2 DEF Newest
    <3>2. Showing(t) /\ v = page[t].captcha /\ \A c \in calls : ~Given(c)
      BY <1>1, <1>4, <3>1 DEF Showing, Given
    <3>3. local # 0 => Counts(local, v)
      BY <3>1, <3>2 DEF BothInv, FormInv, CaptchaInv, CaptchaShows
    <3> QED
      BY <1>7, <1>8, <3>1, <3>3 DEF NewExport
  <2> QED
    BY <2>1, <2>2
<1>10. NewFits /\ NewFeedback
  BY <1>1, <1>2, <1>7, <1>8 DEF NewFits, NewFeedback, FeedbackOps
<1> QED
  BY <1>1, <1>2, <1>7, <1>9, <1>10, FeedbackForms

(* The captcha that was on its way is shown.                               *)
LEMMA captchaShownForms == ASSUME BothInv, NEW c \in calls, UNCHANGED contact, captchaShown(c) PROVE FormInv'
<1>0. AccountsInv /\ OneAsks /\ CaptchaOnItsWay /\ CaptchaShows /\ Exporting
  BY DEF BothInv, FormInv, CaptchaInv
<1>1. Quiet /\ UNCHANGED <<contact, session, late>> /\ c.op = "captcha" /\ c.at = "ans" /\ c.t # No /\ calls' = calls \ {c}
  BY DEF captchaShown, AnswerOf, Done
<1>2. ContactKept /\ LocalMoves /\ LateGrows /\ UNCHANGED local
  BY <1>1, SameAll
<1>3. c.t \in Tabs
  BY <1>1, AnswerHas
<1>4. \A t \in Tabs : page'[t].n = page[t].n /\ page'[t].at = page[t].at /\ page'[t].tk = page[t].tk
  BY <1>3, PagesHave DEF captchaShown, PageFields
<1>5. \A t \in Tabs : \/ page'[t].captcha = page[t].captcha /\ (Given(c) => ~(t = c.t /\ Mine(c)))
                      \/ t = c.t /\ Mine(c) /\ Given(c) /\ page'[t].captcha = c.v
  <2>1. Given(c) <=> c.res = "ok"
    BY <1>1 DEF Given
  <2> QED
    BY <1>3, <2>1, PagesHave DEF captchaShown, PageFields
<1>6. \A d \in calls' : \E x \in calls : Follows(x, d)
  BY <1>1, FollowsSelf
<1>7. \A d \in calls' : ~Added(d)
  BY <1>6, NotAdded
<1>8. \A t \in Tabs : PageMoves(t)
  BY <1>4 DEF PageMoves
<1>9. Passes
  BY <1>1, <1>2, <1>6, <1>8, QuietPasses DEF ContactKept
<1>10. Mine(c) => page[c.t].at = "export"
  BY <1>1, <1>3 DEF BothInv, FormInv, PagesFit, Open, ExportOps, Mine
<1>11. ContactStays /\ NewFits /\ NewFeedback
  BY <1>4, <1>5, <1>7, <1>10 DEF ContactStays, NewFits, NewFeedback
<1>12. UNCHANGED <<minted, captchas>>
  BY <1>1, QuietKeeps
<1>13. OneAsks'
  <2>1. \A d \in calls' : d.op = "captcha" => \A t \in Tabs : late[t]
    BY <1>0, <1>1 DEF OneAsks
  <2> QED
    BY <1>1, <2>1 DEF OneAsks, Showing
<1>14. CaptchaOnItsWay'
  BY <1>0, <1>1, <1>2, <1>4, <1>12 DEF CaptchaOnItsWay, Open, Given, Counts, Who
<1>15. CaptchaShows'
  <2> SUFFICES ASSUME NEW t \in Tabs, Showing(t)', page'[t].tk = local', local' # 0, \A d \in calls' : ~Given(d)
               PROVE  Counts(local, page[t].captcha)'
    BY DEF CaptchaShows, Given
  <2>1. PICK v : v = page'[t].captcha
    OBVIOUS
  <2>2. Counts(local, v)
    <3>1. CASE t = c.t /\ Mine(c) /\ Given(c) /\ page'[t].captcha = c.v
      <4>1. ~late[c.t] /\ Open(c) /\ page[c.t].tk = local /\ local # 0
        BY <1>1, <1>2, <1>3, <1>4, <3>1 DEF Showing, Open, Mine
      <4> QED
        BY <1>0, <1>1, <2>1, <3>1, <4>1 DEF CaptchaOnItsWay
    <3>2. CASE page'[t].captcha = page[t].captcha /\ (Given(c) => ~(t = c.t /\ Mine(c)))
      <4>1. Showing(t) /\ page[t].tk = local /\ local # 0
        BY <1>1, <1>2, <1>4, <3>2 DEF Showing
      <4>2. c.t = t /\ c.pg = page[t].n
        BY <1>0, <1>1, <4>1 DEF OneAsks
      <4>3. ~Given(c)
        BY <3>2, <4>2 DEF Mine
      <4>4. \A d \in calls : ~Given(d)
        BY <1>1, <4>3
      <4> QED
        BY <1>0, <2>1, <3>2, <4>1, <4>4 DEF CaptchaShows
    <3> QED
      BY <1>5, <3>1, <3>2
  <2> QED
    BY <1>2, <1>12, <2>1, <2>2 DEF Counts, Who
<1>16. Exporting'
  BY <1>0, <1>1 DEF Exporting
<1>17. CaptchaInv'
  BY <1>13, <1>14, <1>15, <1>16 DEF CaptchaInv
<1> QED
  BY <1>1, <1>2, <1>4, <1>7, <1>9, <1>11, <1>17, PartsKept

(* A captcha is asked for: every other page with one is late, and nobody   *)
(* is sure of an export that is under way.                                 *)
LEMMA CaptchaAsked ==
    ASSUME BothInv, Quiet, UNCHANGED local, PagesPlain, NEW R, R \subseteq calls, NEW t \in Tabs, NEW q, NEW pg,
           NEW x, x.op = "captcha", x.at = "req", x.t = t, x.pg = pg, x.auth = local, Added(x),
           Becomes(Unsure(R), {x}), late' = OtherCaptcha(t, q), pg = q \/ page'[t].n # page[t].n
    PROVE  CaptchaInv' /\ \A d \in calls' : d = x \/ \E c \in R : Follows(c, d) /\ d.t = c.t
<1> DEFINE f(c) == IF c.op = "export" THEN [c EXCEPT !.pw = 0] ELSE c
<1>0. AccountsInv /\ OneAsks /\ CaptchaOnItsWay /\ CaptchaShows /\ Exporting
  BY DEF BothInv, FormInv, CaptchaInv
<1>1. \A c \in R : Follows(c, f(c)) /\ f(c).t = c.t /\ (c.op # "export" => f(c) = c) /\ (c.op = "export" => f(c).op = "export" /\ f(c).pw = 0)
  <2> SUFFICES ASSUME NEW c \in R
               PROVE  /\ Follows(c, f(c)) /\ f(c).t = c.t /\ (c.op # "export" => f(c) = c)
                      /\ c.op = "export" => f(c).op = "export" /\ f(c).pw = 0
    OBVIOUS
  <2>1. c \in Calls
    BY FormCallHas
  <2>2. CASE c.op = "export"
    BY <2>1, <2>2 DEF Calls, Follows, Given, ChatOps, BringOps
  <2>3. CASE c.op # "export"
    BY <2>3, FollowsSelf
  <2> QED
    BY <2>2, <2>3
<1>2. Unsure(R) = {f(c) : c \in R}
  BY DEF Unsure
<1> HIDE DEF f
<1>3. \A d \in calls' : d = x \/ \E c \in R : d = f(c)
  BY <1>2 DEF Becomes
<1>4. \A d \in calls' : d.op = "captcha" => d = x \/ d \in R
  BY <1>1, <1>3
<1>5. \A d \in calls' : d.op = "export" => d.pw = 0
  BY <1>1, <1>3
<1>6. /\ \A y \in Tabs : late[y] => late'[y]
      /\ (\E c \in calls : c.op = "captcha") => \A y \in Tabs : late'[y]
      /\ \A y \in Tabs : <<y, page[y].n>> # <<t, q>> /\ page[y].captcha # 0 => late'[y]
  BY DEF OtherCaptcha
<1>7. \A y \in Tabs : Showing(y)' => Showing(y) /\ SamePage(y) /\ y = t /\ page[y].n = q /\ pg = q /\ \A c \in calls : c.op # "captcha"
  <2> SUFFICES ASSUME NEW y \in Tabs, Showing(y)'
               PROVE  Showing(y) /\ SamePage(y) /\ y = t /\ page[y].n = q /\ pg = q /\ \A c \in calls : c.op # "captcha"
    OBVIOUS
  <2>1. SamePage(y)
    BY DEF PagesPlain, OtherPage, Showing
  <2>2. Showing(y) /\ ~late'[y] /\ page[y].captcha # 0
    BY <1>6, <2>1 DEF Showing, SamePage
  <2>3. y = t /\ page[y].n = q
    BY <1>6, <2>2
  <2> QED
    BY <1>6, <2>1, <2>2, <2>3 DEF SamePage
<1>8. UNCHANGED <<minted, captchas>>
  BY QuietKeeps
<1>9. OneAsks'
  <2>1. \A d, e \in calls' : d.op = "captcha" /\ e.op = "captcha" /\ e # d => \A y \in Tabs : late'[y]
    BY <1>4, <1>6
  <2>2. \A d \in calls' : d.op = "captcha" => \A y \in Tabs : Showing(y)' => d.t = y /\ d.pg = page'[y].n
    BY <1>4, <1>7 DEF SamePage
  <2> QED
    BY <2>1, <2>2 DEF OneAsks
<1>10. CaptchaOnItsWay'
  <2> SUFFICES ASSUME NEW d \in calls', d.op = "captcha", Open(d)', page'[d.t].tk = local', local' # 0
               PROVE  d.auth = local' /\ (Given(d) /\ ~late'[d.t] => Counts(local, d.v)')
    BY DEF CaptchaOnItsWay, Given
  <2>1. CASE d = x
    BY <2>1 DEF Given
  <2>2. CASE d \in R
    <3>1. d \in calls /\ d.t \in Tabs /\ d.pg = page'[d.t].n /\ late'[d.t]
      BY <1>6, <2>2 DEF Open
    <3>2. d.pg <= page[d.t].n /\ d.pg \in Nat /\ page[d.t].n \in Nat
      BY <1>0, <3>1, CallNumbers, PageNumbers DEF BothInv, FormInv, PagesFit
    <3>3. SamePage(d.t)
      BY <3>1, <3>2 DEF PagesPlain, OtherPage
    <3>4. Open(d) /\ page[d.t].tk = local /\ local # 0
      BY <3>1, <3>3 DEF SamePage, Open
    <3>5. d.auth = local
      BY <1>0, <3>1, <3>4 DEF CaptchaOnItsWay
    <3> QED
      BY <3>1, <3>5
  <2> QED
    BY <1>4, <2>1, <2>2
<1>11. CaptchaShows'
  <2> SUFFICES ASSUME NEW y \in Tabs, Showing(y)', page'[y].tk = local', local' # 0
               PROVE  Counts(local, page[y].captcha)'
    BY DEF CaptchaShows
  <2>1. Showing(y) /\ SamePage(y) /\ \A c \in calls : ~Given(c)
    BY <1>7 DEF Given
  <2>2. Counts(local, page[y].captcha)
    BY <1>0, <2>1 DEF CaptchaShows, SamePage
  <2> QED
    BY <1>8, <2>1, <2>2 DEF Counts, Who, SamePage
<1>12. Exporting'
  BY <1>5 DEF Exporting
<1> QED
  BY <1>1, <1>3, <1>9, <1>10, <1>11, <1>12 DEF CaptchaInv

LEMMA AskForms ==
    ASSUME BothInv, Quiet, UNCHANGED local, PagesPlain, ContactKept, NEW R, R \subseteq calls, NEW t \in Tabs, NEW q, NEW pg,
           NEW x, x.op = "captcha", x.at = "req", x.t = t, x.pg = pg, x.auth = local, Added(x),
           Becomes(Unsure(R), {x}), late' = OtherCaptcha(t, q), pg = q \/ page'[t].n # page[t].n,
           pg = page'[t].n => page'[t].at = "export"
    PROVE  FormInv'
<1>1. CaptchaInv' /\ \A d \in calls' : d = x \/ \E c \in R : Follows(c, d) /\ d.t = c.t
  BY CaptchaAsked
<1>2. LocalMoves /\ \A y \in Tabs : PageMoves(y)
  BY SameAll, PlainPages
<1>3. LateGrows
  BY DEF LateGrows, OtherCaptcha
<1>4. Passes
  BY <1>1, <1>2, <1>3, QuietPasses DEF ContactKept
<1>5. \A d \in calls' : Added(d) => d = x
  BY <1>1, NotAdded
<1>6. NewFits /\ NewFeedback
  BY <1>5 DEF NewFits, NewFeedback, Open, FeedbackOps
<1>7. \A d \in calls' : Added(d) => d.op \notin ChatOps \cup {"username"}
  BY <1>5 DEF ChatOps
<1> QED
  BY <1>1, <1>4, <1>6, <1>7, PlainPages, PartsKept

LEMMA CaptchaRequest ==
    ASSUME BothInv, NEW t \in Tabs, NEW pg, pg <= page'[t].n, NEW x, x = Request(sent + 1, t, pg, "captcha", local, cookie, No, 0, 0)
    PROVE  x.op = "captcha" /\ x.at = "req" /\ x.t = t /\ x.pg = pg /\ x.auth = local /\ Added(x)
<1>1. Added(Request(sent + 1, t, pg, "captcha", local, cookie, No, 0, 0))
  BY RequestAdded
<1> QED
  BY <1>1 DEF Request

LEMMA exportedForms == ASSUME BothInv, NEW c \in calls, UNCHANGED contact, exported(c) PROVE FormInv'
<1>1. Quiet /\ UNCHANGED session /\ c.op = "export" /\ c.at = "ans" /\ c.t # No
  BY DEF exported, AnswerOf
<1>2. c.t \in Tabs
  BY <1>1, AnswerHas
<1>3. ContactKept /\ UNCHANGED local /\ LocalMoves
  BY <1>1, SameAll
<1>4. PagesPlain
  BY <1>2, PagesHave DEF exported, PagesPlain, SamePage, PageFields
<1>5. CASE Done(c) /\ UNCHANGED <<lstdtxprt, page, late>>
  BY <1>1, <1>3, <1>4, <1>5, SameAll, NoNews, OneRest, PlainForms
<1>6. CASE /\ page' = IF Mine(c) THEN [page EXCEPT ![c.t].present = TRUE] ELSE page
           /\ calls' = Unsure(calls \ {c}) \cup {getNewCaptcha(1, c.t, c.pg)}
           /\ late' = OtherCaptcha(c.t, c.pg)
  <2>1. PICK x : x = Request(sent + 1, c.t, c.pg, "captcha", local, cookie, No, 0, 0)
    OBVIOUS
  <2>2. c.pg <= page'[c.t].n
    BY <1>2, <1>4, CallPage
  <2>3. x.op = "captcha" /\ x.at = "req" /\ x.t = c.t /\ x.pg = c.pg /\ x.auth = local /\ Added(x)
    BY <1>2, <2>1, <2>2, CaptchaRequest
  <2>4. Becomes(Unsure(calls \ {c}), {x})
    BY <1>6, <2>1 DEF Becomes, getNewCaptcha
  <2>5. page'[c.t].n = page[c.t].n /\ page'[c.t].at = page[c.t].at
    BY <1>2, <1>6, PagesHave DEF PageFields
  <2>6. c.pg = page[c.t].n => page[c.t].at = "export"
    BY <1>1, <1>2 DEF BothInv, FormInv, PagesFit, Open, ExportOps
  <2>7. c.pg = page'[c.t].n => page'[c.t].at = "export"
    BY <2>5, <2>6
  <2>8. calls \ {c} \subseteq calls /\ late' = OtherCaptcha(c.t, c.pg)
    BY <1>6
  <2> QED
    BY <1>1, <1>2, <1>3, <1>4, <2>3, <2>4, <2>7, <2>8, AskForms
<1> QED
  BY <1>5, <1>6 DEF exported

LEMMA openForms == ASSUME BothInv, NEW t \in Tabs, UNCHANGED contact, open(t) PROVE FormInv'
<1>1. Quiet /\ ContactKept /\ UNCHANGED local /\ LocalMoves
  BY SameAll DEF open
<1>2. PICK p :
        /\ p \in AccountForms
        /\ page' = [page EXCEPT ![t] = [NewPage(p, @.n + 1, local) EXCEPT !.present = p = "export" /\ lstdtxprt]]
        /\ \/ /\ p = "2fa" /\ Post({Opened(t, "status")})
              /\ late' = [late EXCEPT ![t] = @ \/ \E c \in calls : c.op \in {"setup", "disable"}]
           \/ /\ p = "export" /\ lstdtxprt
              /\ calls' = Unsure(calls) \cup {Opened(t, "captcha")} /\ sent' = sent + 1
              /\ late' = OtherCaptcha(t, page[t].n)
           \/ (p = "export" => ~lstdtxprt) /\ p # "2fa" /\ UNCHANGED <<calls, sent, late>>
  BY DEF open
<1>3. DOMAIN page = Tabs /\ \A x \in Tabs : page[x].n \in Nat
  BY DEF BothInv, AccountsInv, BrowserInv, PagesOK, PageOK
<1>4. page'[t].n = page[t].n + 1 /\ page'[t].at = p /\ page'[t].tk = local /\ page'[t].captcha = 0
  BY <1>2, <1>3 DEF NewPage
<1>5. p # "chatbot"
  BY <1>2 DEF AccountForms
<1>6. PagesPlain
  <2>1. OtherPage(t)
    BY <1>3, <1>4, <1>5 DEF OtherPage
  <2>2. \A x \in Tabs \ {t} : SamePage(x)
    BY <1>2, <1>3 DEF SamePage
  <2> QED
    BY <2>1, <2>2 DEF PagesPlain
<1>7. PICK n : n = page[t].n + 1
  OBVIOUS
<1>8. n <= page'[t].n /\ page'[t].n # page[t].n
  BY <1>3, <1>4, <1>7
<1>9. CASE /\ Post({Opened(t, "status")})
           /\ late' = [late EXCEPT ![t] = @ \/ \E c \in calls : c.op \in {"setup", "disable"}]
  <2>1. "status" \notin FormOps
    BY DEF FormOps, ChatOps, FeedbackOps, ExportOps
  <2>2. News({Opened(t, "status")})
    BY <1>7, <1>8, <2>1, RequestNews DEF Opened
  <2>3. Plainly(calls)
    BY <1>9, <2>2 DEF Post, Plainly, Becomes
  <2>4. LateGrows
    BY <1>9 DEF LateGrows, BothInv, AccountsInv, BrowserInv, LateOK
  <2> QED
    BY <1>1, <1>6, <2>3, <2>4, AllRest, PlainForms
<1>10. CASE p = "export" /\ calls' = Unsure(calls) \cup {Opened(t, "captcha")} /\ late' = OtherCaptcha(t, page[t].n)
  <2>1. PICK x : x = Request(sent + 1, t, n, "captcha", local, cookie, No, 0, 0)
    OBVIOUS
  <2>2. x.op = "captcha" /\ x.at = "req" /\ x.t = t /\ x.pg = n /\ x.auth = local /\ Added(x)
    BY <1>8, <2>1, CaptchaRequest
  <2>3. Becomes(Unsure(calls), {x})
    BY <1>7, <1>10, <2>1 DEF Becomes, Opened
  <2>4. PICK q : q = page[t].n
    OBVIOUS
  <2>5. late' = OtherCaptcha(t, q) /\ page'[t].at = "export"
    BY <1>4, <1>10, <2>4
  <2> QED
    BY <1>1, <1>6, <1>8, <2>2, <2>3, <2>5, AskForms
<1>11. CASE UNCHANGED <<calls, sent, late>>
  BY <1>1, <1>6, <1>11, SameAll, NoNews, AllRest, PlainForms
<1> QED
  BY <1>2, <1>9, <1>10, <1>11

LEMMA ChatKept ==
    ASSUME BothInv, Quiet, UNCHANGED <<bot, captchaIds>>, LocalMoves, LateGrows, ChatPages,
           NEW R, R \subseteq calls, \A c \in calls : c.op = "captcha" => c \in R,
           NEW S, Becomes(R, S), \A d \in S : Added(d) /\ d.op \in ChatOps \cup {"whoami"}, NewHeard, NewWords, Asked', InTurn'
    PROVE  FormInv'
<1>1. \A t \in Tabs : page[t].n \in Nat /\ page'[t].n \in Nat
  BY DEF BothInv, AccountsInv, BrowserInv, PagesOK, PageOK
<1>2. \A t \in Tabs : PageMoves(t)
  BY DEF ChatPages, SamePage, PageMoves
<1>3. \A d \in calls' : (\E c \in calls : Follows(c, d)) \/ Added(d)
  BY FollowsSelf DEF Becomes
<1>4. Passes
  BY <1>2, <1>3, QuietPasses
<1>5. \A d \in calls' : Added(d) => d.op \in ChatOps \cup {"whoami"}
  BY AddedOf
<1>6. NewFits /\ NewFeedback /\ NewExport
  BY <1>5 DEF NewFits, NewFeedback, NewExport, ChatOps, FeedbackOps, ExportOps
<1>7. ContactStays
  BY <1>1 DEF ContactStays, ChatPages, SamePage
<1>8. ExportStays
  BY <1>1 DEF ExportStays, ChatPages, SamePage, Given, Becomes
<1>9. CaptchaInv'
  BY <1>4, <1>6, <1>8, QuietKeeps, CaptchaKept
<1>10. PagesFit' /\ FeedbackInv' /\ QuestionInv' /\ TokenInv' /\ Worded'
  BY <1>4, <1>6, <1>7, QuietKeeps, PagesFitKept, FeedbackKept, QuestionKept, TokenKept, WordedKept
<1> QED
  BY <1>9, <1>10 DEF FormInv, NameInv

LEMMA NamesSame == ASSUME BothInv, Quiet, ~overlap PROVE \A u \in Users : users'[u].name # 2
  BY QuietKeeps, NamesKept

LEMMA ChatCallHas ==
    ASSUME BothInv, NEW c \in calls, c.op \in ChatOps, c.t \in Tabs
    PROVE  /\ c.pg \in DOMAIN action[c.t] /\ action[c.t][c.pg] \in {"query", "setname"} /\ DOMAIN action = Tabs
           /\ \A d \in calls : ~overlap /\ d.op \in ChatOps /\ d.t = c.t /\ d.pg = c.pg => d = c
<1>1. c.pg \in DOMAIN action[c.t]
  BY DEF BothInv, AccountsInv, SInv, CallsOK, CallOK, CallTyped
<1>2. action[c.t][c.pg] \in {"query", "setname"} /\ DOMAIN action = Tabs
  BY <1>1 DEF BothInv, AccountsInv, BrowserInv, ContactOK
<1>3. \A d \in calls : ~overlap /\ d.op \in ChatOps /\ d.t = c.t /\ d.pg = c.pg => d = c
  BY DEF BothInv, FormInv, NameInv, InTurn
<1> QED
  BY <1>1, <1>2, <1>3

(* An answer of the chatbot says what is done with the next message.       *)
LEMMA AnsweredInTurn ==
    ASSUME BothInv, Quiet, NEW c \in calls, c.op \in ChatOps, c.t \in Tabs, calls' = calls \ {c}, UNCHANGED overlap,
           \A t \in Tabs : \A n : <<t, n>> # <<c.t, c.pg>> => action'[t][n] = action[t][n]
    PROVE  InTurn'
<1> SUFFICES ASSUME ~overlap PROVE InTurn'
  BY DEF InTurn
<1>1. InTurn
  BY DEF BothInv, FormInv, NameInv
<1>2. \A u \in Users : users'[u].name # 2
  BY NamesSame
<1>3. \A d \in calls' : d.op = "chatstatus" /\ d.pw = 1 /\ d.v = 2 /\ d.t \in Tabs => action'[d.t][d.pg] = "query"
  <2> SUFFICES ASSUME NEW d \in calls', d.op = "chatstatus", d.pw = 1, d.v = 2, d.t \in Tabs PROVE action'[d.t][d.pg] = "query"
    OBVIOUS
  <2>1. d \in calls /\ d # c /\ d.op \in ChatOps
    BY DEF ChatOps
  <2>2. <<d.t, d.pg>> # <<c.t, c.pg>>
    BY <2>1, ChatCallHas
  <2>3. action[d.t][d.pg] = "query"
    BY <1>1, <2>1 DEF InTurn
  <2> QED
    BY <2>2, <2>3
<1> QED
  BY <1>1, <1>2, <1>3 DEF InTurn

LEMMA statusShownForms == ASSUME BothInv, NEW c \in calls, statusShown(c) PROVE FormInv'
<1>1. /\ Quiet /\ UNCHANGED <<bot, captchaIds, overlap, cvars>> /\ c.op = "chatstatus" /\ c.at = "ans" /\ c.t # No
      /\ calls' = calls \ {c}
  BY DEF statusShown, AnswerOf, Done
<1>2. LocalMoves /\ LateGrows /\ UNCHANGED page
  BY <1>1, SameAll
<1>3. c.t \in Tabs /\ c.op \in ChatOps
  BY <1>1, AnswerHas DEF ChatOps
<1>4. c.pg \in DOMAIN action[c.t] /\ DOMAIN action = Tabs
  BY <1>3, ChatCallHas
<1>5. /\ \A t \in Tabs : \A n : <<t, n>> # <<c.t, c.pg>> => action'[t][n] = action[t][n]
      /\ action'[c.t][c.pg] = action[c.t][c.pg] \/ c.res = "namequery"
  BY <1>3, <1>4 DEF statusShown
<1>6. Asked'
  <2>1. Asked
    BY DEF BothInv, FormInv, NameInv
  <2>2. asked' \in [Tabs -> BOOLEAN]
    BY <2>1 DEF Asked, statusShown, Mine
  <2>3. \A t \in Tabs : page'[t].at = "chatbot" /\ action'[t][page'[t].n] = "setname" => asked'[t]
    <3> SUFFICES ASSUME NEW t \in Tabs, page'[t].at = "chatbot", action'[t][page'[t].n] = "setname" PROVE asked'[t]
      OBVIOUS
    <3>1. asked[t] => asked'[t]
      BY <2>1 DEF Asked, statusShown
    <3>2. CASE t = c.t /\ page[t].n = c.pg /\ c.res = "namequery"
      BY <2>1, <3>2 DEF Asked, statusShown, Mine
    <3>3. CASE ~(t = c.t /\ page[t].n = c.pg /\ c.res = "namequery")
      <4>1. action'[t][page[t].n] = action[t][page[t].n]
        BY <1>5, <3>3
      <4> QED
        BY <1>2, <2>1, <3>1, <4>1 DEF Asked
    <3> QED
      BY <3>2, <3>3
  <2> QED
    BY <2>2, <2>3 DEF Asked
<1>7. InTurn'
  BY <1>1, <1>3, <1>5, AnsweredInTurn
<1>8. Becomes(calls \ {c}, {})
  BY <1>1 DEF Becomes
<1>9. \A d \in calls' : ~Added(d)
  BY <1>1, NotAdded, FollowsSelf
<1>10. NewHeard /\ NewWords
  BY <1>9 DEF NewHeard, NewWords
<1>11. ChatPages
  BY <1>2 DEF ChatPages, SamePage
<1> QED
  BY <1>1, <1>2, <1>6, <1>7, <1>8, <1>10, <1>11, ChatKept

LEMMA handleResponseForms == ASSUME BothInv, NEW c \in calls, handleResponse(c) PROVE FormInv'
<1>1. /\ Quiet /\ UNCHANGED <<bot, captchaIds, overlap, page>> /\ c.op \in {"query", "setname"} /\ c.at = "ans" /\ c.t # No
      /\ TakeToken(c) /\ calls' = calls \ {c}
  BY DEF handleResponse, Replied, Done
<1>2. LateGrows
  BY <1>1 DEF TakeToken, LateGrows
<1>3. c.t \in Tabs /\ c.op \in ChatOps
  BY <1>1, AnswerHas DEF ChatOps
<1>4. LocalMoves
  <2>1. CASE c.tk = 0
    BY <1>1, <2>1, SameAll DEF TakeToken
  <2>2. CASE c.tk # 0
    BY <1>1, <2>2, TokenTaken DEF TakeToken, Brings
  <2> QED
    BY <2>1, <2>2
<1>5. c.pg \in DOMAIN action[c.t] /\ DOMAIN action = Tabs
  BY <1>3, ChatCallHas
<1>6. \A t \in Tabs : \A n : <<t, n>> # <<c.t, c.pg>> => action'[t][n] = action[t][n]
  BY <1>3, <1>5 DEF handleResponse
<1>7. /\ c.res \in Refused => action'[c.t][c.pg] = action[c.t][c.pg]
      /\ c.res \notin Refused => action'[c.t][c.pg] = IF c.res = "namequery" THEN "setname" ELSE "query"
  BY <1>3, <1>5 DEF handleResponse
<1>8. Asked'
  <2>1. Asked
    BY DEF BothInv, FormInv, NameInv
  <2>2. asked' \in [Tabs -> BOOLEAN]
    BY <2>1 DEF Asked, handleResponse
  <2>3. \A t \in Tabs : page'[t].at = "chatbot" /\ action'[t][page'[t].n] = "setname" => asked'[t]
    <3> SUFFICES ASSUME NEW t \in Tabs, page'[t].at = "chatbot", action'[t][page'[t].n] = "setname" PROVE asked'[t]
      OBVIOUS
    <3>1. CASE t = c.t /\ page[t].n = c.pg /\ c.res \notin Refused
      <4>1. c.res = "namequery"
        BY <1>1, <1>7, <3>1
      <4> QED
        BY <2>1, <3>1, <4>1 DEF Asked, handleResponse, Mine
    <3>2. CASE ~(t = c.t /\ page[t].n = c.pg /\ c.res \notin Refused)
      <4>1. action'[t][page[t].n] = action[t][page[t].n]
        BY <1>6, <1>7, <3>2
      <4>2. asked'[t] = asked[t]
        BY <2>1, <3>2 DEF Asked, handleResponse, Mine
      <4> QED
        BY <1>1, <2>1, <4>1, <4>2 DEF Asked
    <3> QED
      BY <3>1, <3>2
  <2> QED
    BY <2>2, <2>3 DEF Asked
<1>9. InTurn'
  BY <1>1, <1>3, <1>6, AnsweredInTurn
<1>10. Becomes(calls \ {c}, {})
  BY <1>1 DEF Becomes
<1>11. \A d \in calls' : ~Added(d)
  BY <1>1, NotAdded, FollowsSelf
<1>12. NewHeard /\ NewWords
  BY <1>11 DEF NewHeard, NewWords
<1>13. ChatPages
  BY <1>1 DEF ChatPages, SamePage
<1> QED
  BY <1>1, <1>2, <1>4, <1>8, <1>9, <1>10, <1>12, <1>13, ChatKept

(* What is typed fits what the chatbot has asked for.                      *)
LEMMA sendMessageForms == ASSUME BothInv, NEW t \in Tabs, sendMessage(t) PROVE FormInv'
<1>1. Quiet /\ UNCHANGED <<cvars, bot, captchaIds, action, asked>> /\ page[t].at = "chatbot"
  BY DEF sendMessage
<1>2. LocalMoves /\ LateGrows /\ UNCHANGED <<page, local>>
  BY <1>1, SameAll
<1>3. PICK v : v = IF asked[t] THEN 1 ELSE 2
  OBVIOUS
<1>4. PICK d : d = intercept(1, t, "chatstatus", No, 1, v)
  OBVIOUS
<1>5. Send(t, "chatstatus", No, 1, v)
  BY <1>3 DEF sendMessage
<1>6. Becomes(calls, {d}) /\ Added(d) /\ d.t = t /\ d.pg = page[t].n /\ d.op = "chatstatus" /\ d.pw = 1 /\ d.v = v
  BY <1>2, <1>4, <1>5, SendAdded
<1>7. \A e \in calls' : Added(e) => e = d
  <2>1. Becomes(calls, {d}) /\ calls \subseteq calls
    BY <1>6
  <2>2. \A e \in calls' : Added(e) => e \in {d}
    BY <2>1, AddedOf
  <2> QED
    BY <2>2
<1>8. NewHeard /\ NewWords
  <2>1. v # 0
    BY <1>3
  <2> QED
    BY <1>6, <1>7, <2>1 DEF NewHeard, NewWords
<1>9. Asked'
  BY <1>1, <1>2 DEF BothInv, FormInv, NameInv, Asked
<1>10. InTurn'
  <2> SUFFICES ASSUME ~overlap' PROVE InTurn'
    BY DEF InTurn
  <2>1. ~overlap /\ \A c \in calls : c.op \notin ChatOps
    BY DEF sendMessage, ChatOps
  <2>2. \A e \in calls' : e.op \in ChatOps => e = d
    BY <1>6, <2>1 DEF Becomes
  <2>3. v = 2 => action[t][page[t].n] = "query"
    <3>1. page[t].n \in DOMAIN action[t]
      BY <1>1 DEF BothInv, AccountsInv, BrowserInv, ContactOK
    <3>2. action[t][page[t].n] \in {"query", "setname"}
      BY <3>1 DEF BothInv, AccountsInv, BrowserInv, ContactOK
    <3>3. v = 2 => ~asked[t]
      BY <1>3
    <3> QED
      BY <1>1, <3>2, <3>3 DEF BothInv, FormInv, NameInv, Asked
  <2>4. \A e \in calls' : e.op = "setname" => e.v # 2
    BY <1>6, <2>2 DEF ChatOps
  <2>5. \A e \in calls' : e.op = "chatstatus" /\ e.pw = 1 /\ e.v = 2 /\ e.t \in Tabs => action'[e.t][e.pg] = "query"
    BY <1>1, <1>6, <2>2, <2>3 DEF ChatOps
  <2>6. \A u \in Users : users'[u].name # 2
    BY <1>1, <2>1, NamesSame
  <2> QED
    BY <2>2, <2>4, <2>5, <2>6 DEF InTurn
<1>11. ChatPages
  BY <1>2 DEF ChatPages, SamePage
<1>12. \A e \in {d} : Added(e) /\ e.op \in ChatOps \cup {"whoami"}
  BY <1>6 DEF ChatOps
<1> QED
  BY <1>1, <1>2, <1>6, <1>8, <1>9, <1>10, <1>11, <1>12, ChatKept

(* What is done with a message is what it was typed for.                   *)
LEMMA messageSentForms == ASSUME BothInv, NEW c \in calls, messageSent(c) PROVE FormInv'
<1>1. Quiet /\ UNCHANGED <<cvars, contact>> /\ c.op = "chatstatus" /\ c.at = "ans" /\ c.t # No /\ c.pw = 1
  BY DEF messageSent, AnswerOf
<1>2. LocalMoves /\ LateGrows /\ UNCHANGED <<page, local>> /\ PagesPlain /\ ContactKept
  BY <1>1, SameAll
<1>3. c.t \in Tabs /\ c.op \in ChatOps
  BY <1>1, AnswerHas DEF ChatOps
<1>4. Asked'
  BY <1>1, <1>2 DEF BothInv, FormInv, NameInv, Asked, contact
<1>5. ChatPages
  BY <1>2 DEF ChatPages, SamePage
<1>6. CASE Done(c)
  <2>1. c.op # "captcha"
    BY <1>1
  <2> QED
    BY <1>1, <1>2, <1>6, <2>1, NoNews, OneRest, PlainForms
<1>7. CASE /\ c.res \in {"trained", "namequery"}
           /\ Then(c, {Request(sent + 1, c.t, c.pg, action[c.t][c.pg], local, cookie, No, IF SameSender(c) THEN 1 ELSE 0, c.v)})
  <2>1. PICK op : op = action[c.t][c.pg]
    OBVIOUS
  <2>2. PICK d : d = Request(sent + 1, c.t, c.pg, op, local, cookie, No, IF SameSender(c) THEN 1 ELSE 0, c.v)
    OBVIOUS
  <2>3. Becomes(calls \ {c}, {d})
    BY <1>7, <2>1, <2>2 DEF Then, Becomes
  <2>4. c.pg <= page'[c.t].n
    BY <1>2, <1>3, CallPage
  <2>5. Added(d)
    BY <2>2, <2>4, RequestAdded
  <2>6. /\ d.t = c.t /\ d.pg = c.pg /\ d.op = op /\ d.v = c.v /\ d.auth = local /\ d.cookie = cookie
        /\ d.pw = IF SameSender(c) THEN 1 ELSE 0
    BY <2>2 DEF Request
  <2>7. op \in {"query", "setname"}
    BY <1>3, <2>1, ChatCallHas
  <2>8. \A e \in calls' : Added(e) => e = d
    BY <2>3, AddedOf
  <2>9. NewHeard
    <3> SUFFICES ASSUME d.pw = 1, ~restarted' PROVE Heard(d)'
      BY <2>8 DEF NewHeard
    <3>1. SameSender(c)
      BY <2>6
    <3>2. Sender(d) = Sender(c)
      BY <2>6, <3>1 DEF SameSender, Sender
    <3>3. UNCHANGED <<minted, restarted, bot>>
      BY <1>1, QuietKeeps DEF contact
    <3>4. Heard(c)
      BY <1>1, <1>7, <3>3 DEF BothInv, FormInv, QuestionInv
    <3> QED
      BY <3>2, <3>3, <3>4 DEF Heard, Sender
  <2>10. Worded /\ InTurn
    BY DEF BothInv, FormInv, NameInv
  <2>11. NewWords
    BY <1>1, <2>6, <2>7, <2>8, <2>10 DEF NewWords, Worded
  <2>12. InTurn'
    <3> SUFFICES ASSUME ~overlap PROVE InTurn'
      BY <1>1 DEF InTurn, contact
    <3>1. \A u \in Users : users'[u].name # 2
      BY <1>1, NamesSame
    <3>2. UNCHANGED action
      BY <1>1 DEF contact
    <3>3. op = "setname" => c.v # 2
      BY <1>1, <1>3, <2>1, <2>10 DEF InTurn
    <3>4. \A e \in calls' : e.op = "setname" => e.v # 2
      BY <2>3, <2>6, <2>10, <3>3 DEF InTurn, Becomes
    <3>5. \A e \in calls' : e.op = "chatstatus" /\ e.pw = 1 /\ e.v = 2 /\ e.t \in Tabs => action'[e.t][e.pg] = "query"
      BY <2>3, <2>6, <2>7, <2>10, <3>2 DEF InTurn, Becomes
    <3>6. \A e \in calls \ {c} : ~(e.op \in ChatOps /\ e.t = c.t /\ e.pg = c.pg)
      BY <1>3, ChatCallHas
    <3>7. \A a, e \in calls' : a.op \in ChatOps /\ e.op \in ChatOps /\ a.t \in Tabs /\ a.t = e.t /\ a.pg = e.pg => a = e
      BY <2>3, <2>6, <2>10, <3>6 DEF InTurn, Becomes
    <3> QED
      BY <3>1, <3>4, <3>5, <3>7 DEF InTurn
  <2>13. \A e \in {d} : Added(e) /\ e.op \in ChatOps \cup {"whoami"}
    BY <2>5, <2>6, <2>7 DEF ChatOps
  <2>14. calls \ {c} \subseteq calls /\ \A e \in calls : e.op = "captcha" => e \in calls \ {c}
    BY <1>1
  <2>15. UNCHANGED <<bot, captchaIds>>
    BY <1>2 DEF ContactKept
  <2> QED
    BY <1>1, <1>2, <1>4, <1>5, <2>3, <2>9, <2>11, <2>12, <2>13, <2>14, <2>15, ChatKept
<1> QED
  BY <1>6, <1>7 DEF messageSent

LEMMA openChatbotForms == ASSUME BothInv, NEW t \in Tabs, openChatbot(t) PROVE FormInv'
<1>1. Quiet /\ UNCHANGED <<bot, captchaIds, overlap, session, late>> /\ navigate(t, "chatbot", local)
  BY DEF openChatbot
<1>2. LocalMoves /\ LateGrows
  BY <1>1, SameAll
<1>3. DOMAIN page = Tabs /\ \A x \in Tabs : page[x].n \in Nat
  BY DEF BothInv, AccountsInv, BrowserInv, PagesOK, PageOK
<1>4. PICK n \in Nat : n = page[t].n + 1
  BY <1>3
<1>5. page'[t].n = n /\ page'[t].captcha = 0 /\ page'[t].tk = local /\ \A x \in Tabs \ {t} : page'[x] = page[x]
  BY <1>1, <1>3, <1>4 DEF navigate, NewPage
<1>6. n > page[t].n /\ n <= page'[t].n
  BY <1>3, <1>4, <1>5
<1>7. ChatPages
  BY <1>5, <1>6 DEF ChatPages, SamePage
<1>8. PICK d, e : /\ d = Request(sent + 1, t, n, "chatstatus", local, cookie, No, 0, 0)
                  /\ e = Request(sent + 2, t, n, "whoami", local, cookie, No, 2, 0)
  OBVIOUS
<1>9. Added(d) /\ Added(e)
  BY <1>6, <1>8, RequestAdded
<1>10. d.op = "chatstatus" /\ d.pw = 0 /\ d.t = t /\ d.pg = n /\ e.op = "whoami"
  BY <1>8 DEF Request
<1>11. Becomes(calls, {d, e})
  BY <1>4, <1>8 DEF openChatbot, Post, MoreCalls, Becomes
<1>12. \A x \in calls' : Added(x) => x \in {d, e}
  BY <1>11, AddedOf
<1>13. NewHeard /\ NewWords
  BY <1>10, <1>12 DEF NewHeard, NewWords
<1>14. DOMAIN action = Tabs
  BY DEF BothInv, AccountsInv, BrowserInv, ContactOK
<1>15. action'[t] = NewAction(action[t], n) /\ \A x \in Tabs \ {t} : action'[x] = action[x]
  BY <1>4, <1>14 DEF openChatbot
<1>16. action'[t][n] = "query" /\ \A m \in DOMAIN action[t] : m # n => action'[t][m] = action[t][m]
  BY <1>15 DEF NewAction
<1>17. Asked'
  <2>1. Asked
    BY DEF BothInv, FormInv, NameInv
  <2>2. asked' \in [Tabs -> BOOLEAN] /\ \A x \in Tabs \ {t} : asked'[x] = asked[x]
    BY <2>1 DEF Asked, openChatbot
  <2>3. \A x \in Tabs : page'[x].at = "chatbot" /\ action'[x][page'[x].n] = "setname" => asked'[x]
    BY <1>5, <1>15, <1>16, <2>1, <2>2 DEF Asked
  <2> QED
    BY <2>2, <2>3 DEF Asked
<1>18. InTurn'
  <2> SUFFICES ASSUME ~overlap PROVE InTurn'
    BY <1>1 DEF InTurn
  <2>1. InTurn /\ \A u \in Users : users'[u].name # 2
    BY <1>1, NamesSame DEF BothInv, FormInv, NameInv
  <2>2. \A c \in calls : c.op \in ChatOps /\ c.t \in Tabs => c.pg \in DOMAIN action[c.t]
    BY ChatCallHas
  <2>3. \A c \in calls : c.t = t => c.pg # n
    <3> SUFFICES ASSUME NEW c \in calls, c.t = t PROVE c.pg # n
      OBVIOUS
    <3>1. c.pg <= page[t].n /\ c.pg \in Nat
      BY CallNumbers DEF BothInv, FormInv, PagesFit
    <3> QED
      BY <1>3, <1>6, <3>1
  <2>4. \A c \in calls' : c.op \in ChatOps => c = d \/ c \in calls
    BY <1>10, <1>11 DEF Becomes, ChatOps
  <2>5. \A c \in calls' : c.op = "setname" => c.v # 2
    BY <1>10, <2>1, <2>4 DEF InTurn, ChatOps
  <2>6. \A c \in calls' : c.op = "chatstatus" /\ c.pw = 1 /\ c.v = 2 /\ c.t \in Tabs => action'[c.t][c.pg] = "query"
    <3> SUFFICES ASSUME NEW c \in calls', c.op = "chatstatus", c.pw = 1, c.v = 2, c.t \in Tabs PROVE action'[c.t][c.pg] = "query"
      OBVIOUS
    <3>1. c \in calls /\ c.op \in ChatOps
      BY <1>10, <2>4 DEF ChatOps
    <3>2. action[c.t][c.pg] = "query" /\ c.pg \in DOMAIN action[c.t] /\ (c.t = t => c.pg # n)
      BY <2>1, <2>2, <2>3, <3>1 DEF InTurn
    <3> QED
      BY <1>15, <1>16, <3>2
  <2>7. \A a, b \in calls' : a.op \in ChatOps /\ b.op \in ChatOps /\ a.t \in Tabs /\ a.t = b.t /\ a.pg = b.pg => a = b
    BY <1>10, <2>1, <2>3, <2>4 DEF InTurn
  <2> QED
    BY <2>1, <2>5, <2>6, <2>7 DEF InTurn
<1>19. \A x \in {d, e} : Added(x) /\ x.op \in ChatOps \cup {"whoami"}
  BY <1>9, <1>10 DEF ChatOps
<1> QED
  BY <1>1, <1>2, <1>7, <1>11, <1>13, <1>17, <1>18, <1>19, ChatKept
-----------------------------------------------------------------------------
(* The steps of the browser and of the system keep what the forms rest on. *)

LEMMA ReceiveForms == ASSUME BothInv, NEW c \in calls, Receive(c), UNCHANGED contact PROVE FormInv'
<1>1. CASE loginNext(c) \/ verifyNext(c) \/ loginTotp(c) \/ loginError(c) \/ invalidateSession(c)
  BY <1>1, logInForms, loginOtherForms
<1>2. CASE verifyError(c) \/ ipSaved(c) \/ passwordChanged(c) \/ Ignored(c)
  BY <1>2, takenForms
<1>3. CASE userDetails(c) \/ erased(c) \/ oauthSaved(c) \/ saved(c) \/ answerSaved(c) \/ usernameSaved(c)
  BY <1>3, cookieForms, oauthSavedForms, savedForms, answerSavedForms, usernameSavedForms
<1>4. CASE questionFound(c) \/ resetForm(c) \/ setupDone(c) \/ statusKnown(c) \/ pageLoaded(c) \/ disableDone(c)
  BY <1>4, fieldForms, disableDoneForms
<1>5. CASE exported(c) \/ captchaShown(c)
  BY <1>5, exportedForms, captchaShownForms
<1> QED
  BY <1>1, <1>2, <1>3, <1>4, <1>5 DEF Receive

LEMMA VisitForms == ASSUME BothInv, NEW t \in Tabs, Visit(t), UNCHANGED contact PROVE FormInv'
<1>1. CASE \/ submitLogin(t) \/ submitCode(t) \/ save(t) \/ submitReset(t) \/ submitPassword(t)
           \/ submitSetup(t) \/ submitDisable(t)
  BY <1>1, sendForms
<1>2. CASE open(t) \/ logout(t) \/ oauthLogin(t) \/ emailTyped(t)
  BY <1>2, openForms, logoutForms, oauthLoginForms, emailTypedForms
<1>3. CASE saveExport(t) \/ goToProfilePage(t) \/ submit(t) \/ ngOnInit(t)
  BY <1>3, saveExportForms, goToProfilePageForms, submitForms, ngOnInitForms
<1> QED
  BY <1>1, <1>2, <1>3 DEF Visit

LEMMA HearForms == ASSUME BothInv, NEW c \in calls, Hear(c) PROVE FormInv'
  BY statusShownForms, messageSentForms, handleResponseForms, authorKnownForms, newCaptchaShownForms, feedbackSavedForms DEF Hear

LEMMA ChatForms == ASSUME BothInv, NEW t \in Tabs, Chat(t) PROVE FormInv'
  BY openChatbotForms, sendMessageForms, openContactForms, submitFeedbackForms DEF Chat

LEMMA StutterForms == ASSUME FormInv, UNCHANGED allvars PROVE FormInv'
<1>1. UNCHANGED <<users, captchas, minted, calls, restarted, local, page, late, bot, captchaIds, action, asked, overlap>>
  BY DEF allvars, contact, vars, svars, cvars, tables, sessions, hist, session
<1>2. PagesFit' /\ FeedbackInv'
  BY <1>1 DEF FormInv, PagesFit, FeedbackInv, Open
<1>3. NameInv'
  BY <1>1 DEF FormInv, NameInv, Asked, Worded, InTurn
<1>4. QuestionInv' /\ TokenInv'
  BY <1>1 DEF FormInv, QuestionInv, TokenInv, Heard, Sender, Brings
<1>5. CaptchaInv'
  BY <1>1 DEF FormInv, CaptchaInv, OneAsks, CaptchaOnItsWay, CaptchaShows, Exporting, Showing, Open, Given, Counts, Who,
              verifyImageCaptcha
<1> QED
  BY <1>2, <1>3, <1>4, <1>5 DEF FormInv

LEMMA FormStep == ASSUME AccountsInv, AccountsInv', FormInv, [Next]_allvars PROVE FormInv'
<1>0. BothInv /\ todo.tabs \subseteq Tabs
  BY BrowserHas DEF BothInv, TodoOK
<1>1. CASE PagesNext /\ UNCHANGED contact
  <2>1. CASE Work
    <3>1. UNCHANGED cvars /\ Serve
      BY <2>1 DEF Work
    <3>2. CASE (\E c \in calls : Handle(c)) /\ UNCHANGED <<todo, hist>>
      <4>1. Around
        BY <1>1, <3>1, <3>2 DEF Around
      <4> QED
        BY <1>0, <3>2, <4>1, HandleForms
    <3>3. CASE \E c \in calls : queryFails(c)
      <4>1. UNCHANGED <<cvars, contact>>
        BY <1>1, <3>1
      <4> QED
        BY <1>0, <3>3, <4>1, queryFailsForms
    <3> QED
      BY <3>1, <3>2, <3>3 DEF Serve
  <2>2. CASE React
    BY <1>0, <1>1, <2>2, ReceiveForms, findSecurityQuestionForms DEF React
  <2>3. CASE \E t \in todo.tabs : Visit(t)
    BY <1>0, <1>1, <2>3, VisitForms
  <2>4. CASE exportForgotten \/ captchasForgotten
    BY <1>0, <1>1, <2>4, exportForgottenForms, captchasForgottenForms
  <2> QED
    BY <1>1, <2>1, <2>2, <2>3, <2>4 DEF PagesNext
<1>2. CASE Talk \/ initializeChatbot \/ Crash
  BY <1>0, <1>2, TalkForms, initializeChatbotForms, CrashForms
<1>3. CASE \E c \in calls : Hear(c)
  BY <1>0, <1>3, HearForms
<1>4. CASE \E t \in todo.tabs : Chat(t)
  BY <1>0, <1>4, ChatForms
<1>5. CASE UNCHANGED allvars
  BY <1>5, StutterForms
<1> QED
  BY <1>1, <1>2, <1>3, <1>4, <1>5 DEF Next

LEMMA InitForms == Init => FormInv
<1> SUFFICES ASSUME Init PROVE FormInv
  OBVIOUS
<1>1. calls = {} /\ asked = [t \in Tabs |-> FALSE] /\ page = [t \in Tabs |-> StartPage("search")] /\ users = StaticUsers
  BY DEF Init, PagesInit
<1>2. \A t \in Tabs : page[t].at = "search"
  BY <1>1 DEF StartPage, NewPage
<1>3. PagesFit /\ FeedbackInv
  BY <1>1, <1>2 DEF PagesFit, FeedbackInv
<1>4. \A u \in Users : users[u].name # 2
  BY <1>1 DEF StaticUsers, NewUser, User
<1>5. NameInv
  BY <1>1, <1>2, <1>4 DEF NameInv, Asked, Worded, InTurn
<1>6. QuestionInv /\ TokenInv
  BY <1>1 DEF QuestionInv, TokenInv
<1>7. CaptchaInv
  BY <1>1, <1>2 DEF CaptchaInv, OneAsks, CaptchaOnItsWay, CaptchaShows, Exporting, Showing
<1> QED
  BY <1>3, <1>5, <1>6, <1>7 DEF FormInv

LEMMA FormsFit == FormInv => FormsAreServed
<1> SUFFICES ASSUME FormInv PROVE FormsAreServed
  OBVIOUS
<1>1. CaptchaAccepted
  BY DEF FormInv, CaptchaInv, Exporting, CaptchaAccepted
<1>2. FeedbackAccepted
  BY DEF FormInv, FeedbackInv, FeedbackAccepted
<1>3. NameIsMeant
  BY DEF FormInv, NameInv, InTurn, NameIsMeant
<1>4. QuestionHeard
  BY DEF FormInv, QuestionInv, QuestionHeard
<1> QED
  BY <1>1, <1>2, <1>3, <1>4 DEF FormsAreServed

(* What the forms rest on holds in every state that can be reached,        *)
(* together with what is known of the accounts.                            *)
THEOREM FormInvariant == Spec => [](AccountsInv /\ FormInv)
<1>1. Init => AccountsInv /\ FormInv
  BY InitAccounts, InitForms
<1>2. AccountsInv /\ FormInv /\ [Next]_allvars => (AccountsInv /\ FormInv)'
  BY AccountsStep, FormStep
<1> QED
  BY <1>1, <1>2, PTL DEF Spec

(* The forms do what their user means, for any number of users, tabs and   *)
(* calls under way: the captcha on the page is accepted by the data export *)
(* (dataExport.ts) and by the feedback form (verifyCaptcha), a question is *)
(* never taken for a name (chatbot.component.ts: sendMessage reads the     *)
(* action after the status has come), and a question is not lost to a      *)
(* greeting (processQuery), save in the races the parts of the property    *)
(* name.                                                                   *)
THEOREM FormsAreServedTheorem == Spec => []FormsAreServed
  BY FormInvariant, FormsFit, PTL
-----------------------------------------------------------------------------
(* Pages at rest.                                                          *)

(* PagesAtRest is what the invariant says of pages nothing is on its way   *)
(* to.                                                                     *)
LEMMA RestFits == RestInv => PagesAtRest
<1> SUFFICES ASSUME RestInv PROVE PagesAtRest
  OBVIOUS
<1>1. NavbarAtRest
  BY DEF RestInv, Told, Leads, Asks, ServerPages, NavbarAtRest, Resting
<1>2. FactorPageFits
  <2> SUFFICES ASSUME NEW t \in Tabs, Fitting(t), Resting(t, {"status", "setup", "disable"})
               PROVE  FactorShown(t)
    BY DEF FactorPageFits, Fitting, FactorShown, RowFactor
  <2>1. Fitted(t) /\ \A c \in calls : c.t = t => c.op \notin PageFactorOps
    BY DEF RestInv, Resting, PageFactorOps
  <2>2. \A c \in calls : c.op \notin FactorOps
    BY <2>1 DEF Fitted, Changing, FactorOps, PageFactorOps
  <2>3. \A c \in calls : ~Checks(c, t)
    BY <2>1 DEF Checks, PageFactorOps
  <2> QED
    BY <2>1, <2>2, <2>3 DEF Fitted
<1>3. QuestionFits
  BY DEF RestInv, Sought, QuestionFits
<1> QED
  BY <1>1, <1>2, <1>3 DEF PagesAtRest

LEMMA WhoGrows == ASSUME AccountsInv, AllGrows, NEW tk \in 0..Len(minted) PROVE Who(tk)' = Who(tk)
<1>1. Len(minted) \in Nat
  BY ServerHas
<1>2. tk # 0 => tk \in 1..Len(minted)
  BY <1>1
<1> QED
  BY <1>2 DEF AllGrows, Who

LEMMA ServerTold ==
    ASSUME BothInv, RestInv, UNCHANGED cvars, AllGrows, Carried
    PROVE  Placed' /\ TellsUser' /\ \A t \in Tabs : Sought(t)' /\ Told(t)'
<1>0. AccountsInv /\ AccountsInv' /\ UNCHANGED <<page, late, local, cookie, setBy, shown>> /\ local \in 0..Len(minted) /\ cookie \in 0..Len(minted)
  BY BrowserHas DEF BothInv, cvars, session
<1>1. \A c \in calls : c.cookie \in 0..Len(minted) /\ Who(c.cookie)' = Who(c.cookie)
  BY <1>0, CallHas, WhoGrows
<1>2. Who(cookie)' = Who(cookie)
  <2>1. PICK k : k = cookie /\ k = cookie'
    BY <1>0
  <2>2. Who(k)' = Who(k)
    BY <1>0, <2>1, WhoGrows
  <2> QED
    BY <2>1, <2>2
<1>3. Placed'
  BY <1>0, AccountsAssumption DEF Carried, Goes, RestInv, Placed
<1>4. TellsUser'
  <2> SUFFICES ASSUME NEW d \in calls', d.op = "whoami", d.at = "ans", d.res = "ok" PROVE d.u = Who(d.cookie)'
    BY DEF TellsUser
  <2>1. PICK c \in calls : Goes(c, d)
    BY DEF Carried
  <2>2. d.cookie = c.cookie /\ c.op = "whoami" /\ Who(c.cookie)' = Who(c.cookie)
    BY <1>1, <2>1 DEF Goes
  <2>3. d.u = Who(c.cookie)
    BY <2>1, <2>2 DEF Goes, RestInv, TellsUser
  <2>4. PICK k : k = c.cookie /\ k = d.cookie
    BY <2>2
  <2> QED
    BY <2>2, <2>3, <2>4
<1>5. ASSUME NEW t \in Tabs PROVE Sought(t)'
  <2> SUFFICES ASSUME ~late[t] PROVE Sought(t)'
    BY <1>0 DEF Sought
  <2>1. \A d \in calls' : Looks(d, t) => \E c \in calls : Looks(c, t) /\ c.no = d.no /\ c.pg = d.pg /\ d.u \in {c.u, No}
    BY AccountsAssumption DEF Looks, Carried, Goes
  <2>2. \A c, d \in calls' : c.no = d.no => c = d
    BY <1>0 DEF AccountsInv, SInv, CallsApart
  <2>3. \A c, d \in calls' : Looks(c, t) /\ Looks(d, t) => c = d
    BY <2>1, <2>2 DEF RestInv, Sought
  <2>4. page[t].at = "forgot" /\ ~page[t].timer =>
            /\ page[t].question \in {No, page[t].email}
            /\ \A d \in calls' : Looks(d, t) /\ d.pg = page[t].n => d.u \in {No, page[t].email}
    BY <2>1 DEF RestInv, Sought
  <2> QED
    BY <1>0, <2>3, <2>4 DEF Sought, Looks
<1>6. ASSUME NEW t \in Tabs PROVE Told(t)'
  <2> SUFFICES ASSUME Leads(t) PROVE Told(t)'
    BY <1>0 DEF Told, Leads
  <2>1. \A d \in calls' : Asks(d, t) => \E c \in calls : Asks(c, t) /\ c.no = d.no /\ c.cookie = d.cookie
    BY AccountsAssumption DEF Asks, Carried, Goes
  <2>2. \A c \in calls : Asks(c, t) => \E d \in calls' : Asks(d, t) /\ c.no = d.no
    BY AccountsAssumption DEF Asks, Carried, Goes
  <2>3. (\A d \in calls' : ~Asks(d, t)) => shown[t] = Who(cookie)
    BY <2>2 DEF RestInv, Told
  <2>4. ASSUME NEW d \in calls', Asks(d, t), \A e \in calls' : Asks(e, t) => e.no <= d.no PROVE Who(d.cookie)' = Who(cookie)
    <3>1. PICK c \in calls : Asks(c, t) /\ c.no = d.no /\ c.cookie = d.cookie
      BY <2>1, <2>4
    <3>2. \A e \in calls : Asks(e, t) => e.no <= c.no
      BY <2>2, <2>4, <3>1
    <3>3. Who(c.cookie) = Who(cookie)
      BY <3>1, <3>2 DEF RestInv, Told
    <3>4. PICK k : k = c.cookie /\ k = d.cookie
      BY <3>1
    <3> QED
      BY <1>1, <3>3, <3>4
  <2> QED
    BY <1>0, <1>2, <2>3, <2>4 DEF Told, Asks
<1> QED
  BY <1>3, <1>4, <1>5, <1>6

LEMMA LocalHas == ASSUME AccountsInv PROVE local \in 0..Len(minted) /\ (local # 0 => Who(local) \in Users)
<1>1. local \in 0..Len(minted) /\ minted \in Seq(Tokens) /\ Len(minted) \in Nat
  BY BrowserHas, ServerHas
<1>2. local # 0 => local \in 1..Len(minted) /\ minted[local] \in Tokens
  BY <1>1
<1> QED
  BY <1>1, <1>2 DEF Who, Tokens

LEMMA ServerFitted ==
    ASSUME BothInv, RestInv, UNCHANGED cvars, AllGrows, Carried, FactorMoves
    PROVE  \A t \in Tabs : Fitted(t)'
<1>0. AccountsInv /\ AccountsInv' /\ UNCHANGED <<page, late, local>>
  BY DEF BothInv, cvars, session
<1>1. Who(local)' = Who(local)
  <2>1. PICK k : k = local /\ k = local'
    BY <1>0
  <2>2. Who(k)' = Who(k)
    BY <1>0, <2>1, WhoGrows, LocalHas
  <2> QED
    BY <2>1, <2>2
<1> SUFFICES ASSUME NEW t \in Tabs, Fitting(t)' PROVE Fitted(t)'
  BY DEF Fitted
<1>2. StillFitting(t)
  BY <1>0, <1>1 DEF Fitting, StillFitting, AllGrows
<1>3. Fitting(t) /\ Fitted(t)
  BY <1>2 DEF StillFitting, RestInv
<1>4. /\ \A c \in calls, d \in calls' : Goes(c, d) => FactorGoes(c, d)
      /\ RowFactor' = RowFactor \/ \E c \in calls : c.op \in FactorOps
  BY <1>2 DEF FactorMoves
<1>5. \A c, d \in calls' : c.no = d.no => c = d
  BY <1>0 DEF AccountsInv, SInv, CallsApart
<1>6. \A d \in calls' : d.op \in PageFactorOps => \E c \in calls : Goes(c, d)
  BY DEF Carried, PageFactorOps
<1>7. ASSUME NEW d \in calls', d.op \in FactorOps PROVE Changing(d, t)'
  <2>1. PICK c \in calls : Goes(c, d) /\ FactorGoes(c, d)
    BY <1>4, <1>6, <1>7 DEF FactorOps, PageFactorOps
  <2>2. Changing(c, t) /\ c.op = d.op
    BY <1>3, <1>7, <2>1 DEF Goes, Fitted
  <2>3. ASSUME NEW e \in calls', e.t = t, e.op \in PageFactorOps PROVE e = d
    <3>1. PICK b \in calls : Goes(b, e)
      BY <1>6, <2>3
    <3>2. b = c
      BY <2>2, <2>3, <3>1 DEF Changing, Goes
    <3> QED
      BY <1>5, <2>1, <3>1, <3>2 DEF Goes
  <2>4. d.t = t /\ d.pg = page[t].n /\ d.auth = local
    BY <2>1, <2>2 DEF Goes, Changing
  <2>5. page[t].status = (IF d.op = "setup" THEN "off" ELSE "on") /\ (d.op = "setup" => page[t].secret # 0)
    BY <2>2 DEF Changing
  <2>6. d.op = "setup" /\ d.at = "found" => d.v # 0
    BY <2>1, <2>2 DEF Changing, FactorGoes
  <2>7. IF Before(d) THEN FactorShown(t)' ELSE RowFactor' = 0 <=> d.op = "disable"
    <3>1. CASE (Before(d) <=> Before(c)) /\ RowFactor' = RowFactor
      BY <1>0, <2>2, <3>1 DEF Changing, FactorShown
    <3>2. CASE ~Before(d) /\ (RowFactor' = 0 <=> d.op = "disable")
      BY <3>2
    <3> QED
      BY <1>7, <2>1, <3>1, <3>2 DEF FactorGoes
  <2> QED
    BY <1>0, <2>3, <2>4, <2>5, <2>6, <2>7 DEF Changing, Before
<1>8. ASSUME NEW d \in calls', Checks(d, t)' PROVE Checking(d, t)'
  <2>1. d.op = "status" /\ d.t = t /\ d.pg = page[t].n
    BY <1>0, <1>8 DEF Checks
  <2>2. PICK c \in calls : Goes(c, d) /\ FactorGoes(c, d)
    BY <1>4, <1>6, <2>1 DEF PageFactorOps
  <2>3. Checks(c, t) /\ Checking(c, t)
    BY <1>3, <2>1, <2>2 DEF Goes, Checks, Fitted
  <2>0. \A b \in calls : b.op \notin FactorOps
    BY <1>3, <2>3 DEF Fitted, Changing, Checks, PageFactorOps, FactorOps
  <2>4. RowFactor' = RowFactor
    BY <1>4, <2>0
  <2>5. d.auth = local /\ d.pw = c.pw
    BY <2>2, <2>3 DEF Goes, Checking
  <2>6. d.at \in {"req", "ans"} /\ (d.at = "ans" => d.res = (IF RowFactor = 0 THEN "off" ELSE "on") /\ (d.res = "off" => d.v # 0))
    BY <2>0, <2>1, <2>2, <2>3, <2>5 DEF FactorGoes, SameFactor, Checking
  <2> QED
    BY <1>0, <2>3, <2>4, <2>5, <2>6 DEF Checking
<1>9. ASSUME \A d \in calls' : d.op \notin FactorOps, \A d \in calls' : Checks(d, t)' => d.pw # 0 PROVE FactorShown(t)'
  <2>1. \A c \in calls : c.op \notin FactorOps
    BY <1>3, <1>9, AccountsAssumption DEF Carried, Goes, Fitted, Changing
  <2>2. \A c \in calls : Checks(c, t) => c.pw # 0
    BY <1>0, <1>9, AccountsAssumption DEF Carried, Goes, Checks
  <2>3. FactorShown(t) /\ RowFactor' = RowFactor
    BY <1>3, <1>4, <2>1, <2>2 DEF Fitted
  <2> QED
    BY <1>0, <2>3 DEF FactorShown
<1> QED
  BY <1>7, <1>8, <1>9 DEF Fitted

LEMMA ServerRests ==
    ASSUME BothInv, RestInv, UNCHANGED cvars, AllGrows, Carried, FactorMoves PROVE RestInv'
  BY ServerTold, ServerFitted DEF RestInv

LEMMA RowStays ==
    ASSUME AccountsInv, UNCHANGED local, AllGrows, \A u \in Users : users'[u].totp = users[u].totp, local # 0
    PROVE  RowFactor' = RowFactor
<1>1. Who(local) \in Users /\ local \in 0..Len(minted)
  BY LocalHas
<1>2. PICK k : k = local /\ k = local'
  OBVIOUS
<1>3. Who(k)' = Who(k)
  BY <1>1, <1>2, WhoGrows
<1>4. PICK u \in Users : u = Who(local) /\ u = Who(local)'
  BY <1>1, <1>2, <1>3
<1>5. users'[u].totp = users[u].totp
  BY <1>4
<1> QED
  BY <1>4, <1>5 DEF RowFactor

(* One call goes on.                                                       *)
LEMMA MoveRests ==
    ASSUME BothInv, RestInv, UNCHANGED cvars, AllGrows, NEW c \in calls, NEW d, Goes(c, d),
           Turns(c, d) \/ \E w : w.op = "wallet" /\ w.t = No /\ calls' = Move(c, d) \cup {w},
           \A u \in Users : users'[u].totp = users[u].totp,
           \A t \in Tabs : StillFitting(t) => FactorGoes(c, d)
    PROVE  RestInv'
<1>1. AccountsInv /\ AccountsInv'
  BY DEF BothInv
<1>2. \A e \in calls' : (e.op = "wallet" /\ e.t = No) \/ e = d \/ (e \in calls /\ e # c)
  BY DEF Turns, Move
<1>3. d \in calls' /\ \A e \in calls : e # c => e \in calls'
  BY DEF Turns, Move
<1>4. \A e \in calls : Goes(e, e)
  BY DEF Goes
<1>5. Carried
  BY <1>2, <1>3, <1>4 DEF Carried
<1>6. FactorMoves
  <2> SUFFICES ASSUME NEW t \in Tabs, StillFitting(t)
               PROVE  /\ \A x \in calls, y \in calls' : Goes(x, y) => FactorGoes(x, y)
                      /\ RowFactor' = RowFactor
    BY DEF FactorMoves
  <2>1. RowFactor' = RowFactor
    BY <1>1, RowStays DEF cvars, session, StillFitting, Fitting
  <2>2. ASSUME NEW x \in calls, NEW y \in calls', Goes(x, y) PROVE FactorGoes(x, y)
    <3>1. \A a, b \in calls : a.no = b.no => a = b
      BY <1>1 DEF AccountsInv, SInv, CallsApart
    <3>2. CASE y = d
      <4>1. x.no = c.no
        BY <2>2, <3>2 DEF Goes
      <4> QED
        BY <3>1, <3>2, <4>1
    <3>3. CASE y \in calls
      <4>1. x = y
        BY <2>2, <3>1, <3>3 DEF Goes
      <4> QED
        BY <2>1, <4>1 DEF FactorGoes, SameFactor
    <3>4. CASE y.op = "wallet"
      BY <3>4 DEF FactorGoes, FactorOps
    <3> QED
      BY <1>2, <3>2, <3>3, <3>4
  <2> QED
    BY <2>1, <2>2
<1> QED
  BY <1>5, <1>6, ServerRests

LEMMA GoesShapes ==
    ASSUME NEW c \in Calls
    PROVE  /\ \A res : c.op # "whoami" \/ res # "ok" => Goes(c, Answered(c, res))
           /\ \A u : c.op # "question" => Goes(c, [c EXCEPT !.at = "found", !.u = u, !.row = Row(u)])
           /\ Goes(c, [c EXCEPT !.at = "saved"])
           /\ \A res, v : c.op # "whoami" \/ res # "ok" => Goes(c, WithValue(c, res, v))
           /\ \A tk, v : c.op # "whoami" => Goes(c, WithToken(c, tk, v))
           /\ \A tk : c.op # "whoami" => Goes(c, [Answered(c, "ok") EXCEPT !.tk = tk])
  BY DEF Calls, Goes, Answered, WithValue, WithToken

LEMMA OtherMove == ASSUME NEW c, NEW d, Goes(c, d), c.op \notin PageFactorOps PROVE FactorGoes(c, d)
  BY DEF Goes, FactorGoes, PageFactorOps, FactorOps

LEMMA MinorRests ==
    ASSUME BothInv, RestInv, UNCHANGED cvars, AllGrows, NEW c \in calls, Minor(c), MinorMoves(c),
           \A u \in Users : users'[u].totp = users[u].totp
    PROVE  RestInv'
<1>1. c \in Calls /\ c.op \notin PageFactorOps /\ c.op # "whoami" /\ c.op # "question"
  BY FormCallHas DEF Minor
<1>2. PICK d : Goes(c, d) /\ Turns(c, d)
  BY <1>1, GoesShapes DEF MinorMoves, Answer, Found, Turns
<1>3. FactorGoes(c, d)
  BY <1>1, <1>2, OtherMove
<1> QED
  BY <1>2, <1>3, MoveRests

LEMMA AroundGrows ==
    ASSUME AccountsInv, UNCHANGED hist PROVE UNCHANGED minted /\ raced \subseteq raced' => AllGrows
<1>1. Len(minted) \in Nat
  BY ServerHas
<1> QED
  BY <1>1 DEF hist, AllGrows

LEMMA MintGrows ==
    ASSUME AccountsInv, UNCHANGED hist, raced \subseteq raced', NEW u \in Users, NEW row \in Rows, authorize(u, row) PROVE AllGrows
<1>1. PICK k \in Nat : k = Len(minted) + 1
  BY ServerHas
<1>2. Len(minted') = k /\ (\A i \in DOMAIN minted : minted'[i] = minted[i]) /\ DOMAIN minted = 1..Len(minted)
  BY <1>1, MintShape
<1>3. Len(minted) \in Nat /\ Len(minted) <= Len(minted')
  BY <1>1, <1>2, ServerHas
<1> QED
  BY <1>2, <1>3 DEF hist, AllGrows

LEMMA readerRests ==
    ASSUME BothInv, RestInv, NEW c \in calls, Around,
           \/ login(c) \/ verify(c) \/ saveLoginIp(c) \/ changePassword(c) \/ resetPassword(c) \/ updateUserProfile(c)
           \/ dataErasureForm(c) \/ dataErasure(c) \/ saveAnswer(c) \/ getUserProfile(c) \/ dataExport(c) \/ updatePassword(c)
           \/ imageCaptchas(c)
    PROVE  RestInv'
<1>1. UNCHANGED cvars /\ UNCHANGED hist /\ AccountsInv /\ users \in [Users -> Rows]
  BY ServerHas DEF Around, BothInv
<1>2. UNCHANGED minted
  BY DEF sessions, login, verify, saveLoginIp, changePassword, resetPassword, updateUserProfile, dataErasureForm, dataErasure,
         saveAnswer, getUserProfile, dataExport, updatePassword, imageCaptchas
<1>3. raced \subseteq raced'
  BY DEF login, verify, saveLoginIp, changePassword, resetPassword, updateUserProfile, dataErasureForm, dataErasure,
         saveAnswer, getUserProfile, dataExport, updatePassword, imageCaptchas, updateAuthenticatedUsers, RacedPut
<1>4. Minor(c)
  BY DEF login, verify, saveLoginIp, changePassword, resetPassword, updateUserProfile, dataErasureForm, dataErasure,
         saveAnswer, getUserProfile, dataExport, updatePassword, imageCaptchas, At, Minor, PageFactorOps
<1>5. \A u \in Users : users'[u].totp = users[u].totp
  <2>1. CASE updatePassword(c)
    BY <1>1, <2>1 DEF updatePassword, Rows
  <2>2. CASE ~updatePassword(c)
    BY <2>2 DEF login, verify, saveLoginIp, changePassword, resetPassword, updateUserProfile, dataErasureForm, dataErasure,
         saveAnswer, getUserProfile, dataExport, imageCaptchas, tables
  <2> QED
    BY <2>1, <2>2
<1>6. MinorMoves(c)
  <2>1. CASE imageCaptchas(c)
    <3>1. Answer(c, "401") \/ Turns(c, WithValue(c, "ok", secrets + 1))
      BY <2>1 DEF imageCaptchas, Turns, WithValue
    <3> QED
      BY <3>1 DEF MinorMoves
  <2>2. CASE ~imageCaptchas(c)
    <3>1. (\E res : Answer(c, res)) \/ (\E u : Found(c, u))
      BY <2>2 DEF login, verify, saveLoginIp, changePassword, resetPassword, updateUserProfile, dataErasureForm, dataErasure,
                  saveAnswer, getUserProfile, dataExport, updatePassword
    <3> QED
      BY <3>1 DEF MinorMoves
  <2> QED
    BY <2>1, <2>2
<1> QED
  BY <1>1, <1>2, <1>3, <1>4, <1>5, <1>6, AroundGrows, MinorRests

LEMMA registerUserRests == ASSUME BothInv, RestInv, NEW c \in calls, Around, registerUser(c) PROVE RestInv'
<1>1. c \in Calls /\ AccountsInv /\ users \in [Users -> Rows] /\ UNCHANGED cvars /\ c.op = "register"
  BY FormCallHas, ServerHas DEF Around, registerUser, At
<1>2. AllGrows
  BY <1>1, AroundGrows DEF registerUser, sessions, Around
<1>3. users[c.u].there \/ users[c.u].totp = 0
  BY <1>1, CallHas DEF CallOK, CallTyped, UserOps, AccountsInv, SInv, TablesOK, User
<1>4. \A u \in Users : users'[u].totp = users[u].totp
  BY <1>1, <1>3 DEF registerUser, Row, NewUser, User
<1>5. PICK d : Goes(c, d) /\ (Turns(c, d) \/ \E w : w.op = "wallet" /\ w.t = No /\ calls' = Move(c, d) \cup {w})
  <2>1. CASE \E res : Answer(c, res)
    BY <1>1, <2>1, GoesShapes DEF Answer, Turns
  <2>2. CASE calls' = Move(c, Answered(c, "ok")) \cup {Background("wallet", c.u)}
    <3>1. PICK w : w = Background("wallet", c.u)
      OBVIOUS
    <3>2. w.op = "wallet" /\ w.t = No
      BY <3>1 DEF Background, Request
    <3> QED
      BY <1>1, <2>2, <3>1, <3>2, GoesShapes
  <2> QED
    BY <2>1, <2>2 DEF registerUser
<1>6. FactorGoes(c, d)
  BY <1>1, <1>5, OtherMove DEF PageFactorOps
<1> QED
  BY <1>1, <1>2, <1>4, <1>5, <1>6, MoveRests

LEMMA afterLoginRests == ASSUME BothInv, RestInv, NEW c \in calls, Around, afterLogin(c) PROVE RestInv'
<1>1. c.op \in {"login", "verify"} /\ c.at = "found" /\ UNCHANGED <<users, cvars, hist>> /\ AccountsInv
  BY DEF afterLogin, Around, BothInv
<1>2. c.u \in Users /\ c.row \in Rows
  BY <1>1, FoundHas
<1>3. raced \subseteq raced' /\ authorize(c.u, c.row)
  BY DEF afterLogin, RacedPut
<1>4. AllGrows
  BY <1>1, <1>2, <1>3, MintGrows
<1>5. Minor(c)
  BY <1>1 DEF Minor, PageFactorOps
<1>6. MinorMoves(c)
  BY DEF afterLogin, MinorMoves, Turns, WithToken
<1> QED
  BY <1>1, <1>4, <1>5, <1>6, MinorRests

LEMMA NameSavedRests ==
    ASSUME BothInv, RestInv, NEW c \in calls, UNCHANGED <<cvars, hist>>, c.op \in {"username", "setname"}, c.at = "found", NameSaved(c)
    PROVE  RestInv'
<1>1. AccountsInv /\ users \in [Users -> Rows] /\ c.v \in Nat
  BY ServerHas, FormCallHas DEF BothInv, Calls
<1>2. c.u \in Users /\ c.row \in Rows
  BY <1>1, FoundHas
<1>3. PICK row : row = [c.row EXCEPT !.name = c.v]
  OBVIOUS
<1>4. row \in Rows
  BY <1>1, <1>2, <1>3 DEF Rows
<1>5. raced \subseteq raced' /\ authorize(c.u, row)
  BY <1>3 DEF NameSaved
<1>6. AllGrows
  BY <1>1, <1>2, <1>4, <1>5, MintGrows
<1>7. Minor(c)
  BY DEF Minor, PageFactorOps
<1>8. \A u \in Users : users'[u].totp = users[u].totp
  BY <1>1 DEF NameSaved, Rows
<1>9. MinorMoves(c)
  BY DEF NameSaved, MinorMoves, Turns
<1> QED
  BY <1>6, <1>7, <1>8, <1>9, MinorRests

(* Nothing goes on; calls of no page may end.                              *)
LEMMA StayRests ==
    ASSUME BothInv, RestInv, UNCHANGED cvars, AllGrows, calls' \subseteq calls, \A c \in calls : c.t # No => c \in calls',
           \A u \in Users : users'[u].totp = users[u].totp
    PROVE  RestInv'
<1>1. AccountsInv
  BY DEF BothInv
<1>2. \A e \in calls : Goes(e, e)
  BY DEF Goes
<1>3. Carried
  BY <1>2 DEF Carried
<1>4. \A a, b \in calls : a.no = b.no => a = b
  BY <1>1 DEF AccountsInv, SInv, CallsApart
<1>5. \A x \in calls, y \in calls' : Goes(x, y) => x = y
  BY <1>4 DEF Goes
<1>6. FactorMoves
  <2> SUFFICES ASSUME NEW t \in Tabs, StillFitting(t)
               PROVE  /\ \A x \in calls, y \in calls' : Goes(x, y) => FactorGoes(x, y)
                      /\ RowFactor' = RowFactor
    BY DEF FactorMoves
  <2>1. RowFactor' = RowFactor
    BY <1>1, RowStays DEF cvars, session, StillFitting, Fitting
  <2> QED
    BY <1>5, <2>1 DEF FactorGoes, SameFactor
<1> QED
  BY <1>3, <1>6, ServerRests

LEMMA createWalletRests == ASSUME BothInv, RestInv, NEW c \in calls, Around, createWallet(c) PROVE RestInv'
<1>1. AccountsInv /\ UNCHANGED <<cvars, hist>> /\ UNCHANGED <<users, minted, raced>> /\ calls' = calls \ {c}
  BY DEF BothInv, Around, createWallet, sessions
<1>2. c.t = No
  BY <1>1, CallHas DEF createWallet, At, CallOK, CallStaged
<1>3. AllGrows
  BY <1>1, AroundGrows
<1> QED
  BY <1>1, <1>2, <1>3, StayRests

LEMMA securityQuestionRests == ASSUME BothInv, RestInv, NEW c \in calls, Around, securityQuestion(c) PROVE RestInv'
<1>1. c \in Calls /\ AccountsInv /\ UNCHANGED <<cvars, hist>> /\ UNCHANGED <<users, minted, raced>> /\ c.op = "question"
  BY FormCallHas DEF Around, securityQuestion, At, sessions, tables
<1>2. AllGrows
  BY <1>1, AroundGrows
<1>3. PICK u : u \in {c.u, No} /\ Turns(c, WithUser(c, "ok", u))
  BY DEF securityQuestion, Turns, WithUser
<1>4. Goes(c, WithUser(c, "ok", u))
  BY <1>1, <1>3 DEF Goes, WithUser, Answered, Calls
<1>5. FactorGoes(c, WithUser(c, "ok", u))
  BY <1>1, <1>4, OtherMove DEF PageFactorOps
<1> QED
  BY <1>1, <1>2, <1>3, <1>4, <1>5, MoveRests

LEMMA retrieveLoggedInUserRests == ASSUME BothInv, RestInv, NEW c \in calls, Around, retrieveLoggedInUser(c) PROVE RestInv'
<1>1. c \in Calls /\ AccountsInv /\ UNCHANGED <<cvars, hist>> /\ UNCHANGED <<users, minted>> /\ c.op = "whoami"
  BY FormCallHas DEF Around, retrieveLoggedInUser, At, tables
<1>2. PICK tk \in 0..Len(minted) : tk = IF c.cookie # 0 THEN c.cookie ELSE c.auth
  BY <1>1, CallHas
<1>3. updateAuthenticatedUsers(tk)
  BY <1>2 DEF retrieveLoggedInUser
<1>4. raced \subseteq raced'
  BY <1>3 DEF updateAuthenticatedUsers, RacedPut
<1>5. AllGrows
  BY <1>1, <1>4, AroundGrows
<1>6. PICK u : u = IF c.cookie \in DOMAIN cache' THEN cache'[c.cookie].user ELSE No
  OBVIOUS
<1>7. u = Who(c.cookie)
  <2>1. AccountsInv' /\ DOMAIN minted = 1..Len(minted)
    BY <1>1, ServerHas DEF BothInv
  <2>2. DOMAIN cache' \subseteq 1..Len(minted) /\ \A x \in DOMAIN cache' : cache'[x].user = minted[x].user
    BY <1>1, <2>1 DEF AccountsInv, SInv, SessionsOK
  <2>3. CASE c.cookie = 0
    BY <1>6, <2>2, <2>3 DEF Who
  <2>4. CASE c.cookie # 0
    <3>1. tk = c.cookie /\ tk \in DOMAIN cache'
      BY <1>2, <1>3, <2>4 DEF updateAuthenticatedUsers, put, Known
    <3> QED
      BY <1>6, <2>2, <2>4, <3>1 DEF Who
  <2> QED
    BY <2>3, <2>4
<1>8. PICK k : k = IF tk \in DOMAIN cache' \ DOMAIN cache THEN tk ELSE 0
  OBVIOUS
<1>9. PICK d : d = [Answered(c, "ok") EXCEPT !.u = u, !.tk = k]
  OBVIOUS
<1>10. Turns(c, d)
  BY <1>2, <1>6, <1>8, <1>9 DEF retrieveLoggedInUser, Turns
<1>11. Goes(c, d)
  BY <1>1, <1>7, <1>9 DEF Goes, Answered, Calls
<1>12. FactorGoes(c, d)
  BY <1>1, <1>11, OtherMove DEF PageFactorOps
<1> QED
  BY <1>1, <1>5, <1>10, <1>11, <1>12, MoveRests

(* The copy that the server keeps for the token says what is in the row.   *)
LEMMA CopyFits ==
    ASSUME BothInv, NEW t \in Tabs, Fitting(t), \A b \in calls : b.op \notin FactorOps
    PROVE  local \in DOMAIN cache /\ cache[local].totp = RowFactor
<1>1. AccountsInv /\ local # 0 /\ Who(local) \notin raced /\ ~restarted
  BY DEF BothInv, Fitting
<1>2. Len(minted) \in Nat /\ DOMAIN minted = 1..Len(minted) /\ local \in 0..Len(minted) /\ Who(local) \in Users
  BY <1>1, ServerHas, LocalHas
<1>3. DOMAIN cache = DOMAIN minted
  BY <1>1 DEF AccountsInv, SInv, SessionsOK
<1>4. local \in DOMAIN cache
  BY <1>1, <1>2, <1>3
<1>5. local \in TokensOf(Who(local))
  BY <1>1, <1>4, KnownWho DEF TokensOf
<1>6. ~Saving(Who(local))
  BY DEF Saving
<1> QED
  BY <1>1, <1>2, <1>4, <1>5, <1>6 DEF AccountsInv, SInv, FactorOK, RowFactor

LEMMA statusRests == ASSUME BothInv, RestInv, NEW c \in calls, Around, status(c) PROVE RestInv'
<1>1. c \in Calls /\ AccountsInv /\ UNCHANGED <<cvars, hist>> /\ UNCHANGED <<users, minted, raced>> /\ c.op = "status" /\ secrets \in Nat
  BY FormCallHas, ServerHas DEF Around, status, At, tables
<1>2. AllGrows
  BY <1>1, AroundGrows
<1>3. PICK res, v : /\ Turns(c, WithValue(c, res, v))
                    /\ c.auth \in DOMAIN cache => res = (IF cache[c.auth].totp = 0 THEN "off" ELSE "on") /\ (res = "off" => v # 0)
  <2>1. CASE ~Known(c.auth) /\ Answer(c, "401")
    <3>1. WithValue(c, "401", c.v) = Answered(c, "401")
      BY <1>1 DEF WithValue, Answered, Calls
    <3> QED
      BY <2>1, <3>1 DEF Answer, Turns, Known
  <2>2. CASE Known(c.auth) /\ cache[c.auth].totp = 0 /\ calls' = Move(c, [Answered(c, "off") EXCEPT !.v = secrets + 1])
    <3>1. secrets + 1 # 0
      BY <1>1
    <3> QED
      BY <2>2, <3>1 DEF WithValue, Turns
  <2>3. CASE Known(c.auth) /\ cache[c.auth].totp # 0 /\ Answer(c, "on")
    <3>1. WithValue(c, "on", c.v) = Answered(c, "on")
      BY <1>1 DEF WithValue, Answered, Calls
    <3> QED
      BY <2>3, <3>1 DEF Answer, Turns
  <2> QED
    BY <2>1, <2>2, <2>3 DEF status
<1>4. PICK d : d = WithValue(c, res, v)
  OBVIOUS
<1>5. d.op = "status" /\ d.auth = c.auth /\ d.at = "ans" /\ d.res = res /\ d.v = v
  BY <1>1, <1>4 DEF WithValue, Answered, Calls
<1>6. Goes(c, d)
  BY <1>1, <1>4, GoesShapes
<1>7. ASSUME NEW t \in Tabs, StillFitting(t) PROVE FactorGoes(c, d)
  <2>1. Fitting(t)
    BY <1>7 DEF StillFitting
  <2>2. ASSUME d.auth = local, \A b \in calls : b.op \notin FactorOps
        PROVE  res = (IF RowFactor = 0 THEN "off" ELSE "on") /\ (res = "off" => v # 0)
    BY <1>3, <1>5, <2>1, <2>2, CopyFits
  <2> QED
    BY <1>5, <2>2 DEF FactorGoes, FactorOps
<1> QED
  BY <1>1, <1>2, <1>3, <1>4, <1>6, <1>7, MoveRests

LEMMA factorRests == ASSUME BothInv, RestInv, NEW c \in calls, Around, setup(c) \/ disable(c) PROVE RestInv'
<1>1. c \in Calls /\ AccountsInv /\ UNCHANGED <<cvars, hist>> /\ UNCHANGED <<users, minted>> /\ c.op \in FactorOps /\ c.at = "req"
  BY FormCallHas DEF Around, setup, disable, At, tables, sessions, FactorOps
<1>2. raced \subseteq raced'
  BY DEF setup, disable, RacedBy
<1>3. AllGrows
  BY <1>1, <1>2, AroundGrows
<1>4. (\E u : (c.op = "setup" => c.v # 0) /\ Found(c, u)) \/ Answer(c, "401")
  BY DEF setup, disable, At
<1>5. PICK d : Turns(c, d) /\ Goes(c, d) /\ Before(d) /\ (d.op = "setup" /\ d.at = "found" => d.v # 0)
  <2>1. CASE Answer(c, "401")
    <3>1. PICK d : d = Answered(c, "401")
      OBVIOUS
    <3>2. d.at = "ans" /\ d.res = "401"
      BY <1>1, <3>1 DEF Answered, Calls
    <3>3. Goes(c, d)
      BY <1>1, <3>1, GoesShapes
    <3> QED
      BY <2>1, <3>1, <3>2, <3>3 DEF Answer, Turns, Before
  <2>2. ASSUME NEW u, c.op = "setup" => c.v # 0, Found(c, u) PROVE \E d : Turns(c, d) /\ Goes(c, d) /\ Before(d) /\ (d.op = "setup" /\ d.at = "found" => d.v # 0)
    <3>1. PICK d : d = [c EXCEPT !.at = "found", !.u = u, !.row = Row(u)]
      OBVIOUS
    <3>2. d.op = c.op /\ d.v = c.v /\ d.at = "found"
      BY <1>1, <3>1 DEF Calls
    <3>3. Goes(c, d)
      BY <1>1, <3>1, GoesShapes DEF FactorOps
    <3> QED
      BY <2>2, <3>1, <3>2, <3>3 DEF Found, Turns, Before
  <2> QED
    BY <1>4, <2>1, <2>2
<1>6. ASSUME NEW t \in Tabs, StillFitting(t) PROVE FactorGoes(c, d)
  <2>1. RowFactor' = RowFactor
    BY <1>1, <1>3, <1>6, RowStays DEF cvars, session, StillFitting, Fitting
  <2>2. Before(c) /\ d.op # "status"
    BY <1>1, <1>5 DEF Before, Goes, FactorOps
  <2> QED
    BY <1>5, <2>1, <2>2 DEF FactorGoes
<1> QED
  BY <1>1, <1>3, <1>5, <1>6, MoveRests

LEMMA factorSavedRests == ASSUME BothInv, RestInv, NEW c \in calls, Around, factorSaved(c) PROVE RestInv'
<1>1. c \in Calls /\ AccountsInv /\ UNCHANGED <<cvars, hist>> /\ UNCHANGED <<users, minted, raced>> /\ c.op \in FactorOps /\ c.at = "saved"
  BY FormCallHas DEF Around, factorSaved, tables, FactorOps
<1>2. AllGrows
  BY <1>1, AroundGrows
<1>3. PICK d : d = Answered(c, "ok")
  OBVIOUS
<1>4. Turns(c, d) /\ d.at = "ans" /\ d.res = "ok" /\ d.op = c.op
  BY <1>1, <1>3 DEF factorSaved, Answer, Turns, Answered, Calls
<1>5. Goes(c, d)
  BY <1>1, <1>3, GoesShapes DEF FactorOps
<1>6. ASSUME NEW t \in Tabs, StillFitting(t) PROVE FactorGoes(c, d)
  <2>1. RowFactor' = RowFactor
    BY <1>1, <1>2, <1>6, RowStays DEF cvars, session, StillFitting, Fitting
  <2>2. ~Before(c) /\ ~Before(d) /\ d.op # "status" /\ d.at # "found"
    BY <1>1, <1>4 DEF Before, FactorOps
  <2> QED
    BY <2>1, <2>2 DEF FactorGoes
<1> QED
  BY <1>1, <1>2, <1>4, <1>5, <1>6, MoveRests

LEMMA saveFactorRests == ASSUME BothInv, RestInv, NEW c \in calls, Around, saveFactor(c) PROVE RestInv'
<1>1. c \in Calls /\ AccountsInv /\ UNCHANGED <<cvars, hist>> /\ UNCHANGED <<minted, raced>> /\ c.op \in FactorOps /\ c.at = "found"
  BY FormCallHas DEF Around, saveFactor, sessions, FactorOps
<1>2. AllGrows
  BY <1>1, AroundGrows
<1>3. PICK d : d = [c EXCEPT !.at = "saved"]
  OBVIOUS
<1>4. Turns(c, d) /\ d.at = "saved" /\ d.op = c.op
  BY <1>1, <1>3 DEF saveFactor, To, Turns, Calls
<1>5. Goes(c, d)
  BY <1>1, <1>3, GoesShapes
<1>6. \A e \in calls' : e = d \/ (e \in calls /\ e # c)
  BY <1>4 DEF Turns, Move
<1>7. d \in calls' /\ \A e \in calls : e # c => e \in calls'
  BY <1>4 DEF Turns, Move
<1>8. \A e \in calls : Goes(e, e)
  BY DEF Goes
<1>9. Carried
  BY <1>5, <1>6, <1>7, <1>8 DEF Carried
<1>10. FactorMoves
  <2> SUFFICES ASSUME NEW t \in Tabs, StillFitting(t)
               PROVE  \A x \in calls, y \in calls' : Goes(x, y) => FactorGoes(x, y)
    BY <1>1 DEF FactorMoves
  <2>1. Fitting(t) /\ Fitted(t) /\ Who(local) \notin raced /\ local # 0
    BY DEF StillFitting, RestInv, Fitting
  <2>2. Changing(c, t)
    BY <1>1, <2>1 DEF Fitted
  <2>3. Active(c) /\ SettingFactor(c) /\ users \in [Users -> Rows] /\ c.u \in Users
    BY <1>1, CallHas, ServerHas, FoundHas DEF Active, CallOK
  <2>4. c.auth = local /\ c.u = Who(local)
    BY <1>1, <2>2, <2>3, KnownWho DEF Changing, SettingFactor
  <2>5. c.row.totp = users[c.u].totp
    BY <1>1, <2>1, <2>3, <2>4 DEF SettingFactor
  <2>6. users'[c.u].totp = Secret(c)
    BY <2>3, <2>5 DEF saveFactor, Updated, Rows
  <2>7. RowFactor' = Secret(c)
    <3>1. PICK k : k = local /\ k = local'
      BY <1>1 DEF cvars, session
    <3>2. Who(k)' = Who(k)
      BY <1>1, <1>2, <3>1, WhoGrows, LocalHas
    <3>3. PICK u : u = c.u /\ u = Who(local)'
      BY <2>4, <3>1, <3>2
    <3> QED
      BY <2>6, <3>3 DEF RowFactor
  <2>8. RowFactor' = 0 <=> c.op = "disable"
    BY <1>1, <2>2, <2>7 DEF Secret, Changing, FactorOps
  <2>9. \A a, b \in calls : a.no = b.no => a = b
    BY <1>1 DEF AccountsInv, SInv, CallsApart
  <2>10. ASSUME NEW x \in calls, NEW y \in calls', Goes(x, y) PROVE FactorGoes(x, y)
    <3>1. CASE y = d
      BY <1>1, <1>4, <2>8, <3>1 DEF FactorGoes, Before, FactorOps
    <3>2. CASE y \in calls /\ y # c
      <4>1. x = y
        BY <2>9, <2>10, <3>2 DEF Goes
      <4>2. y.op \notin FactorOps
        BY <1>1, <2>1, <2>2, <3>2 DEF Fitted, Changing, PageFactorOps, FactorOps
      <4> QED
        BY <4>1, <4>2 DEF FactorGoes, SameFactor, FactorOps
    <3> QED
      BY <1>6, <3>1, <3>2
  <2> QED
    BY <2>10
<1> QED
  BY <1>1, <1>2, <1>9, <1>10, ServerRests

LEMMA HandleRests == ASSUME BothInv, RestInv, NEW c \in calls, Handle(c), Around PROVE RestInv'
<1>1. CASE \/ login(c) \/ verify(c) \/ saveLoginIp(c) \/ changePassword(c) \/ resetPassword(c) \/ updateUserProfile(c)
           \/ dataErasureForm(c) \/ dataErasure(c) \/ saveAnswer(c) \/ getUserProfile(c) \/ dataExport(c) \/ updatePassword(c)
           \/ imageCaptchas(c)
  BY <1>1, readerRests
<1>2. CASE afterLogin(c) \/ registerUser(c) \/ createWallet(c)
  BY <1>2, afterLoginRests, registerUserRests, createWalletRests
<1>3. CASE retrieveLoggedInUser(c) \/ securityQuestion(c) \/ status(c)
  BY <1>3, retrieveLoggedInUserRests, securityQuestionRests, statusRests
<1>4. CASE setup(c) \/ disable(c) \/ saveFactor(c) \/ factorSaved(c)
  BY <1>4, factorRests, saveFactorRests, factorSavedRests
<1>5. CASE profileSaved(c)
  BY <1>5, NameSavedRests DEF profileSaved, At, Around
<1> QED
  BY <1>1, <1>2, <1>3, <1>4, <1>5 DEF Handle

LEMMA TalkRests == ASSUME BothInv, RestInv, Talk PROVE RestInv'
<1>1. AccountsInv /\ UNCHANGED <<cvars, hist>>
  BY DEF BothInv, Talk
<1>2. PICK c \in calls : botStatus(c) \/ processQuery(c) \/ setUserName(c) \/ userNameSet(c) \/ newCaptcha(c) \/ saveFeedback(c)
  BY DEF Talk
<1>3. CASE userNameSet(c)
  BY <1>1, <1>3, NameSavedRests DEF userNameSet, At
<1>4. CASE ~userNameSet(c)
  <2>1. UNCHANGED <<users, minted, raced>>
    BY <1>2, <1>4 DEF botStatus, processQuery, setUserName, newCaptcha, saveFeedback, tables, sessions
  <2>2. Minor(c)
    BY <1>2, <1>4 DEF botStatus, processQuery, setUserName, newCaptcha, saveFeedback, At, Minor, PageFactorOps
  <2>3. MinorMoves(c)
    <3>1. CASE newCaptcha(c)
      BY <3>1 DEF newCaptcha, MinorMoves, Turns, WithValue
    <3>2. CASE ~newCaptcha(c)
      <4>1. (\E res : Answer(c, res)) \/ (\E u : Found(c, u))
        BY <1>2, <1>4, <3>2 DEF botStatus, processQuery, setUserName, saveFeedback
      <4> QED
        BY <4>1 DEF MinorMoves
    <3> QED
      BY <3>1, <3>2
  <2>4. AllGrows
    BY <1>1, <2>1, AroundGrows
  <2> QED
    BY <1>1, <2>1, <2>2, <2>3, <2>4, MinorRests
<1> QED
  BY <1>3, <1>4

LEMMA queryFailsRests == ASSUME BothInv, RestInv, NEW c \in calls, UNCHANGED <<cvars, contact>>, queryFails(c) PROVE RestInv'
<1>1. c \in Calls /\ AccountsInv /\ UNCHANGED <<cvars, users, minted, raced, restarted>> /\ failed'
  BY FormCallHas DEF queryFails, tables, sessions
<1>2. AllGrows
  BY <1>1, ServerHas DEF AllGrows
<1>3. CASE c.t = No
  <2>1. calls' = calls \ {c}
    BY <1>3 DEF queryFails
  <2> QED
    BY <1>1, <1>2, <1>3, <2>1, StayRests
<1>4. CASE c.t # No
  <2>1. PICK d : d = Answered(c, "error")
    OBVIOUS
  <2>2. Turns(c, d)
    BY <1>4, <2>1 DEF queryFails, Turns
  <2>3. Goes(c, d)
    BY <1>1, <2>1, GoesShapes
  <2>4. \A t \in Tabs : ~StillFitting(t)
    BY <1>1 DEF StillFitting
  <2> QED
    BY <1>1, <1>2, <2>2, <2>3, <2>4, MoveRests
<1> QED
  BY <1>3, <1>4

LEMMA CrashRests == ASSUME BothInv, RestInv, Crash PROVE RestInv'
<1>1. AccountsInv /\ UNCHANGED <<cvars, minted, raced, failed>> /\ restarted'
  BY DEF BothInv, Crash, Restart
<1>2. AllGrows
  BY <1>1, ServerHas DEF AllGrows
<1> DEFINE f(c) == IF c.at = "ans" THEN c ELSE Answered(c, "error")
<1>3. \A c \in calls : c \in Calls
  BY FormCallHas
<1>4. \A c \in calls : Goes(c, f(c))
  BY <1>3, GoesShapes DEF Goes
<1>5. calls' = {f(c) : c \in {d \in calls : d.t # No}}
  BY DEF Crash, Restart
<1> HIDE DEF f
<1>6. Carried
  BY <1>4, <1>5 DEF Carried
<1>7. FactorMoves
  BY <1>1 DEF FactorMoves, StillFitting
<1> QED
  BY <1>1, <1>2, <1>6, <1>7, ServerRests

LEMMA idleRests ==
    ASSUME BothInv, RestInv, initializeChatbot \/ (captchasForgotten /\ UNCHANGED contact) \/ UNCHANGED allvars PROVE RestInv'
<1>1. AccountsInv /\ UNCHANGED <<cvars, hist, calls, users, minted, raced>>
  <2>1. AccountsInv
    BY DEF BothInv
  <2>2. CASE captchasForgotten
    BY <2>1, <2>2 DEF captchasForgotten, sessions
  <2>3. CASE UNCHANGED vars
    BY <2>1, <2>3 DEF vars, svars, tables, sessions
  <2> QED
    BY <2>2, <2>3 DEF initializeChatbot, allvars
<1>2. AllGrows
  BY <1>1, AroundGrows
<1> QED
  BY <1>1, <1>2, StayRests

-----------------------------------------------------------------------------
(* The steps of the browser and the pages at rest.                         *)

LEMMA PlacedFlow ==
    ASSUME RestInv, NEW gone, NEW left, NEW S, Flow(gone, left, S),
           \A t \in Tabs : t = left \/ (page'[t].at \in ServerPages <=> page[t].at \in ServerPages),
           \A d \in S : d.t \in Tabs => (d.op \in LoadOps <=> page'[d.t].at \in ServerPages),
           \A t \in Tabs : page'[t].timer \/ page'[t].email # No => page'[t].at \notin ServerPages
    PROVE  Placed'
<1>1. ASSUME NEW d \in calls', d.t \in Tabs PROVE d.op \in LoadOps <=> page'[d.t].at \in ServerPages
  <2>1. CASE d \in S
    BY <1>1, <2>1
  <2>2. ASSUME NEW c \in calls, Same(c, d, left) PROVE d.op \in LoadOps <=> page'[d.t].at \in ServerPages
    <3>1. c.op = d.op /\ c.t = d.t /\ d.t # left
      BY <1>1, <2>2, AccountsAssumption DEF Same
    <3> QED
      BY <1>1, <3>1 DEF RestInv, Placed
  <2> QED
    BY <2>1, <2>2 DEF Flow
<1> QED
  BY <1>1 DEF Placed

LEMMA TellsFlow == ASSUME RestInv, Quiet, NEW gone, NEW left, NEW S, Flow(gone, left, S) PROVE TellsUser'
<1> SUFFICES ASSUME NEW d \in calls', d.op = "whoami", d.at = "ans", d.res = "ok" PROVE d.u = Who(d.cookie)'
  BY DEF TellsUser
<1>1. PICK c \in calls : Same(c, d, left)
  BY DEF Flow
<1>2. c.u = Who(c.cookie) /\ c.u = d.u /\ c.cookie = d.cookie
  BY <1>1 DEF Same, RestInv, TellsUser
<1> QED
  BY <1>2 DEF Who, Quiet, sessions

LEMMA SoughtFlow ==
    ASSUME BothInv, RestInv, LateGrows, NEW gone, NEW left, NEW S, Flow(gone, left, S), NEW t \in Tabs,
           SameQuestion(t) \/ Blank(t), \A d \in S : ~Looks(d, t)
    PROVE  Sought(t)'
<1> SUFFICES ASSUME ~late'[t] PROVE Sought(t)'
  BY DEF Sought
<1>1. AccountsInv /\ Sought(t) /\ ~late[t]
  BY DEF BothInv, RestInv, LateGrows
<1>2. \A d \in calls' : Looks(d, t) => \E c \in calls : Looks(c, t) /\ c.no = d.no /\ c.pg = d.pg /\ c.u = d.u
  BY AccountsAssumption DEF Flow, Same, Looks
<1>3. \A c, d \in calls' : c.no = d.no => c = d
  BY DEF BothInv, AccountsInv, SInv, CallsApart
<1>4. \A c, d \in calls' : Looks(c, t) /\ Looks(d, t) => c = d
  BY <1>1, <1>2, <1>3 DEF Sought
<1>5. page'[t].at = "forgot" /\ ~page'[t].timer =>
            /\ page'[t].question \in {No, page'[t].email}
            /\ \A d \in calls' : Looks(d, t) /\ d.pg = page'[t].n => d.u \in {No, page'[t].email}
  <2>1. CASE SameQuestion(t)
    BY <1>1, <1>2, <2>1 DEF SameQuestion, Sought
  <2>2. CASE Blank(t)
    <3>1. page[t].n \in Nat /\ page'[t].n \in Nat
      BY DEF BothInv, AccountsInv, BrowserInv, PagesOK, PageOK
    <3>2. \A c \in calls : c.t = t => c.pg <= page[t].n /\ c.pg \in Nat
      BY <1>1, CallNumbers DEF BothInv, FormInv, PagesFit
    <3>3. \A d \in calls' : Looks(d, t) => d.pg # page'[t].n
      BY <1>2, <2>2, <3>1, <3>2 DEF Blank, Looks
    <3> QED
      BY <2>2, <3>3 DEF Blank
  <2> QED
    BY <2>1, <2>2
<1> QED
  BY <1>4, <1>5 DEF Sought, Looks

LEMMA ToldFlow ==
    ASSUME BothInv, RestInv, Quiet, NEW gone, NEW left, NEW S, Flow(gone, left, S), NEW t \in Tabs, Steady(t, gone, left, S)
    PROVE  Told(t)'
<1>0. UNCHANGED minted /\ AccountsInv /\ sent \in Nat
  BY ServerHas DEF Quiet, sessions, BothInv
<1>1. \A k : Who(k)' = Who(k)
  BY <1>0 DEF Who
<1>2. Who(cookie)' = Who(cookie')
  BY <1>0 DEF Who
<1>3. \A c \in calls : c.no \in Nat /\ c.no <= sent
  BY <1>0 DEF AccountsInv, SInv, CallsOK, CallOK, CallTyped
<1>4. \A d \in S : d \in calls' /\ d.no > sent /\ d.no \in Nat
  BY DEF Flow, BothInv, AccountsInv, SInv, CallsOK, CallOK, CallTyped
<1> SUFFICES ASSUME Leads(t)'
             PROVE  /\ (\A d \in calls' : ~Asks(d, t)) => shown'[t] = Who(cookie')
                    /\ \A d \in calls' : Asks(d, t) /\ (\A e \in calls' : Asks(e, t) => e.no <= d.no) => Who(d.cookie) = Who(cookie')
  BY <1>1, <1>2 DEF Told, Asks
<1>5. CASE (\E d \in S : Asks(d, t)) /\ (\A d \in S : Asks(d, t) => Who(d.cookie) = Who(cookie'))
  <2>1. PICK e \in S : Asks(e, t)
    BY <1>5
  <2>2. \A d \in calls' : d \in S \/ (d.no \in Nat /\ d.no <= sent)
    BY <1>3 DEF Flow, Same
  <2>3. ASSUME NEW d \in calls', Asks(d, t), \A x \in calls' : Asks(x, t) => x.no <= d.no PROVE d \in S
    BY <1>0, <1>4, <2>1, <2>2, <2>3
  <2> QED
    BY <1>4, <1>5, <2>1, <2>3
<1>6. CASE /\ Leads(t) /\ t # left /\ shown'[t] = shown[t] /\ Who(cookie') = Who(cookie)
           /\ (\A c \in gone : ~Asks(c, t)) /\ (\A d \in S : ~Asks(d, t))
  <2>0. t # No
    BY AccountsAssumption
  <2>1. \A d \in calls' : Asks(d, t) => \E c \in calls : Asks(c, t) /\ c.no = d.no /\ c.cookie = d.cookie
    BY <1>6, <2>0 DEF Flow, Same, Asks
  <2>2. \A c \in calls : Asks(c, t) => \E d \in calls' : Asks(d, t) /\ c.no = d.no
    BY <1>6, <2>0 DEF Flow, Same, Asks
  <2>3. (\A d \in calls' : ~Asks(d, t)) => shown'[t] = Who(cookie')
    BY <1>6, <2>2 DEF RestInv, Told
  <2>4. ASSUME NEW d \in calls', Asks(d, t), \A e \in calls' : Asks(e, t) => e.no <= d.no PROVE Who(d.cookie) = Who(cookie')
    <3>1. PICK c \in calls : Asks(c, t) /\ c.no = d.no /\ c.cookie = d.cookie
      BY <2>1, <2>4
    <3>2. \A e \in calls : Asks(e, t) => e.no <= c.no
      BY <2>2, <2>4, <3>1
    <3>3. Who(c.cookie) = Who(cookie)
      BY <1>6, <3>1, <3>2 DEF RestInv, Told
    <3> QED
      BY <1>6, <3>1, <3>3
  <2> QED
    BY <2>3, <2>4
<1> QED
  BY <1>5, <1>6 DEF Steady

(* A page of the second factor that still fits has fitted.                 *)
LEMMA FitStays ==
    ASSUME BothInv, Quiet, LateGrows, LocalMoves, NEW t \in Tabs, page'[t].at = page[t].at, page'[t].tk = page[t].tk, Fitting(t)'
    PROVE  Fitting(t) /\ local' = local /\ RowFactor' = RowFactor
<1>1. page'[t].tk = local' /\ local' # 0 /\ Who(local)' \notin raced' /\ ~late'[t] /\ ~failed' /\ ~restarted' /\ page'[t].at = "2fa"
  BY DEF Fitting
<1>2. UNCHANGED <<minted, users, raced, failed, restarted>>
  BY DEF Quiet, sessions, tables, hist
<1>3. local' = local
  BY <1>1 DEF LocalMoves, BothInv, FormInv, TokenInv
<1>4. Who(local)' = Who(local)
  BY <1>2, <1>3 DEF Who
<1>5. ~late[t]
  BY <1>1 DEF LateGrows
<1> QED
  BY <1>1, <1>2, <1>3, <1>4, <1>5 DEF Fitting, RowFactor

LEMMA FittedFlow ==
    ASSUME BothInv, RestInv, Quiet, LateGrows, LocalMoves, NEW gone, NEW left, NEW S, Flow(gone, left, S), NEW t \in Tabs,
           (SameStatus(t) /\ t # left) \/ page'[t].at # "2fa",
           \A c \in gone : c.t = t /\ c.op \in PageFactorOps => c.op = "status" /\ c.pg # page[t].n,
           \A d \in S : d.op \notin FactorOps /\ (d.op = "status" => d.t # t)
    PROVE  Fitted(t)'
<1> SUFFICES ASSUME Fitting(t)' PROVE Fitted(t)'
  BY DEF Fitted
<1>1. SameStatus(t) /\ t # left /\ t # No
  BY AccountsAssumption DEF Fitting
<1>2. Fitting(t) /\ local' = local /\ RowFactor' = RowFactor
  BY <1>1, FitStays DEF SameStatus
<1>3. Fitted(t)
  BY DEF RestInv
<1>4. \A c, d \in calls' : c.no = d.no => c = d
  BY DEF BothInv, AccountsInv, SInv, CallsApart
<1>5. \A d \in calls' : d.op \in PageFactorOps /\ (d.op \in FactorOps \/ d.t = t) => \E c \in calls \ gone : Same(c, d, left)
  BY DEF Flow, PageFactorOps, FactorOps
<1>6. ASSUME NEW d \in calls', d.op \in FactorOps PROVE Changing(d, t)'
  <2>1. PICK c \in calls \ gone : Same(c, d, left)
    BY <1>5, <1>6 DEF PageFactorOps, FactorOps
  <2>2. Changing(c, t) /\ c.op = d.op
    BY <1>2, <1>3, <1>6, <2>1 DEF Same, Fitted
  <2>3. ASSUME NEW e \in calls', e.t = t, e.op \in PageFactorOps PROVE e = d
    <3>1. PICK b \in calls \ gone : Same(b, e, left)
      BY <1>5, <2>3
    <3>2. b.t = t /\ b.op \in PageFactorOps
      BY <1>1, <2>3, <3>1 DEF Same
    <3>3. b = c
      BY <2>2, <3>2 DEF Changing
    <3> QED
      BY <1>4, <2>1, <3>1, <3>3 DEF Same
  <2>4. d.t = t /\ d.pg = page[t].n /\ d.auth = local
    BY <1>1, <2>1, <2>2 DEF Same, Changing
  <2>5. page[t].status = (IF d.op = "setup" THEN "off" ELSE "on") /\ (d.op = "setup" => page[t].secret # 0)
    BY <2>2 DEF Changing
  <2>6. d.op = "setup" /\ d.at = "found" => d.v # 0
    BY <2>1, <2>2 DEF Changing, Same
  <2>7. Before(d) <=> Before(c)
    BY <2>1 DEF Before, Same
  <2>8. IF Before(d) THEN FactorShown(t)' ELSE RowFactor' = 0 <=> d.op = "disable"
    BY <1>1, <1>2, <2>2, <2>7 DEF Changing, FactorShown, SameStatus
  <2> QED
    BY <1>1, <1>2, <2>3, <2>4, <2>5, <2>6, <2>8 DEF Changing, Before, SameStatus
<1>7. ASSUME NEW d \in calls', Checks(d, t)' PROVE Checking(d, t)'
  <2>1. d.op = "status" /\ d.t = t /\ d.pg = page[t].n
    BY <1>1, <1>7 DEF Checks, SameStatus
  <2>2. PICK c \in calls : Same(c, d, left)
    BY <1>5, <2>1 DEF PageFactorOps
  <2>3. Checks(c, t)
    BY <1>1, <2>1, <2>2 DEF Checks, Same
  <2>4. Checking(c, t)
    BY <1>2, <1>3, <2>3 DEF Fitted
  <2>5. d.auth = c.auth /\ d.at = c.at /\ d.pw = c.pw /\ d.res = c.res /\ d.v = c.v
    BY <2>1, <2>2 DEF Same
  <2> QED
    BY <1>2, <2>4, <2>5 DEF Checking
<1>8. ASSUME \A d \in calls' : d.op \notin FactorOps, \A d \in calls' : Checks(d, t)' => d.pw # 0 PROVE FactorShown(t)'
  <2>1. ASSUME NEW c \in calls, c.op \in FactorOps PROVE FALSE
    <3>1. Changing(c, t)
      BY <1>2, <1>3, <2>1 DEF Fitted
    <3>2. c \notin gone
      BY <2>1, <3>1 DEF Changing, FactorOps, PageFactorOps
    <3> QED
      BY <1>8, <2>1, <3>2 DEF Flow, Same
  <2>2. ASSUME NEW c \in calls, Checks(c, t) PROVE c.pw # 0
    <3>1. c \notin gone
      BY <2>2 DEF Checks, PageFactorOps
    <3>2. PICK d \in calls' : Same(c, d, left)
      BY <3>1 DEF Flow
    <3>3. Checks(d, t)' /\ d.pw = c.pw
      BY <1>1, <2>2, <3>2 DEF Checks, Same, SameStatus
    <3> QED
      BY <1>8, <3>3
  <2>3. FactorShown(t)
    BY <1>2, <1>3, <2>1, <2>2 DEF Fitted
  <2> QED
    BY <1>1, <1>2, <2>3 DEF FactorShown, SameStatus
<1> QED
  BY <1>6, <1>7, <1>8 DEF Fitted

LEMMA UsualTold ==
    ASSUME BothInv, RestInv, Quiet, LateGrows, LocalMoves, NEW gone, NEW left, NEW S, Flow(gone, left, S),
           Usual(left), Sends(S), Takes(gone), \A t \in Tabs : Told(t)'
    PROVE  RestInv'
<1>1. Placed'
  <2>1. \A t \in Tabs : t = left \/ (page'[t].at \in ServerPages <=> page[t].at \in ServerPages)
    BY DEF Usual, SameQuestion
  <2>2. \A t \in Tabs : page'[t].timer \/ page'[t].email # No => page'[t].at \notin ServerPages
    BY DEF Usual, SameQuestion, Blank, RestInv, Placed
  <2> QED
    BY <2>1, <2>2, PlacedFlow DEF Sends
<1>2. TellsUser'
  BY TellsFlow
<1>3. ASSUME NEW t \in Tabs PROVE Sought(t)' /\ Told(t)' /\ Fitted(t)'
  <2>1. Sought(t)'
    BY SoughtFlow DEF Usual, Sends, Looks
  <2>2. Told(t)'
    OBVIOUS
  <2>3. (SameStatus(t) /\ t # left) \/ page'[t].at # "2fa"
    BY DEF Usual
  <2>4. \A c \in gone : c.t = t => c.op \notin PageFactorOps
    BY DEF Takes
  <2>5. \A d \in S : d.op \notin FactorOps /\ d.op # "status"
    BY DEF Sends, PageFactorOps, FactorOps
  <2>6. Fitted(t)'
    BY <2>3, <2>4, <2>5, FittedFlow
  <2> QED
    BY <2>1, <2>2, <2>6
<1> QED
  BY <1>1, <1>2, <1>3 DEF RestInv

LEMMA UsualRests ==
    ASSUME BothInv, RestInv, Quiet, LateGrows, LocalMoves, NEW gone, NEW left, NEW S, Flow(gone, left, S),
           Usual(left), Sends(S), Takes(gone), \A t \in Tabs : Steady(t, gone, left, S)
    PROVE  RestInv'
  BY ToldFlow, UsualTold

LEMMA SteadyStays ==
    ASSUME UNCHANGED <<local, cookie, setBy>>, LateGrows, NEW gone, NEW left, NEW S, AsksNow(S), Untold(gone),
           NEW t \in Tabs, t # left, shown'[t] = shown[t],
           page[t].at \in ServerPages => page'[t].at \in ServerPages
    PROVE  Steady(t, gone, left, S)
<1>1. Leads(t)' => Leads(t)
  BY DEF Leads, LateGrows
<1> QED
  BY <1>1 DEF Steady, AsksNow, Untold, Asks

LEMMA StillRests ==
    ASSUME BothInv, RestInv, Quiet, LateGrows, UNCHANGED <<local, cookie, setBy, shown>>, NEW gone, NEW S, Flow(gone, No, S),
           Usual(No), Sends(S), Takes(gone), AsksNow(S), Untold(gone)
    PROVE  RestInv'
<1>1. LocalMoves
  BY DEF LocalMoves
<1>2. ASSUME NEW t \in Tabs PROVE Steady(t, gone, No, S)
  <2>1. t # No
    BY AccountsAssumption
  <2>2. page[t].at \in ServerPages => page'[t].at \in ServerPages
    BY <2>1 DEF Usual, SameQuestion
  <2> QED
    BY <2>1, <2>2, SteadyStays
<1> QED
  BY <1>1, <1>2, UsualRests

(* How the calls change.                                                   *)
LEMMA FlowShapes ==
    ASSUME BothInv, NEW S, \A d \in S : d.no > sent /\ d.at = "req"
    PROVE  /\ \A G : Becomes(calls \ G, S) => Flow(G, No, S)
           /\ Becomes(calls, S) => Flow({}, No, S)
           /\ \A G : Becomes(Unsure(calls \ G), S) => Flow(G, No, S)
           /\ \A t \in Tabs : Becomes(Abandoned(t), S) => Flow({}, t, S)
<1>1. \A c \in calls : c \in Calls
  BY FormCallHas
<1>2. \A c \in calls : Same(c, c, No)
  BY DEF Same
<1>3. ASSUME NEW G, Becomes(calls \ G, S) PROVE Flow(G, No, S)
  BY <1>2, <1>3 DEF Becomes, Flow
<1>4. ASSUME Becomes(calls, S) PROVE Flow({}, No, S)
  BY <1>2, <1>4 DEF Becomes, Flow
<1>5. ASSUME NEW G, Becomes(Unsure(calls \ G), S) PROVE Flow(G, No, S)
  <2> DEFINE f(c) == IF c.op = "export" THEN [c EXCEPT !.pw = 0] ELSE c
  <2>1. \A c \in calls : Same(c, f(c), No)
    BY <1>1 DEF Same, Calls
  <2>2. Unsure(calls \ G) = {f(c) : c \in calls \ G}
    BY DEF Unsure
  <2> HIDE DEF f
  <2> QED
    BY <1>5, <2>1, <2>2 DEF Becomes, Flow
<1>6. ASSUME NEW t \in Tabs, Becomes(Abandoned(t), S) PROVE Flow({}, t, S)
  <2> DEFINE f(c) == [c EXCEPT !.t = IF @ = t THEN No ELSE @]
  <2>1. \A c \in calls : Same(c, f(c), t)
    BY <1>1 DEF Same, Calls
  <2>2. Abandoned(t) = {f(c) : c \in calls}
    BY DEF Abandoned
  <2> HIDE DEF f
  <2> QED
    BY <1>6, <2>1, <2>2 DEF Becomes, Flow
<1> QED
  BY <1>3, <1>4, <1>5, <1>6

LEMMA RequestHas ==
    ASSUME BothInv, NEW k \in {1, 2}, NEW t, NEW pg, NEW op, NEW auth, NEW ck, NEW u, NEW pw, NEW v, NEW d,
           d = Request(sent + k, t, pg, op, auth, ck, u, pw, v)
    PROVE  /\ d.no > sent /\ d.at = "req" /\ d.t = t /\ d.pg = pg /\ d.op = op /\ d.auth = auth /\ d.cookie = ck
           /\ d.u = u /\ d.pw = pw /\ d.v = v
<1>1. sent \in Nat
  BY ServerHas DEF BothInv
<1>2. /\ d.no = sent + k /\ d.at = "req" /\ d.t = t /\ d.pg = pg /\ d.op = op /\ d.auth = auth /\ d.cookie = ck
      /\ d.u = u /\ d.pw = pw /\ d.v = v
  BY DEF Request
<1> QED
  BY <1>1, <1>2

LEMMA RequestOrdinary ==
    ASSUME BothInv, NEW k \in {1, 2}, NEW t \in Tabs, NEW pg, NEW op, NEW auth, NEW ck, NEW u, NEW pw, NEW v,
           op \notin PageFactorOps \cup LoadOps \cup {"question"}, page'[t].at \notin ServerPages, op = "whoami" /\ pw = 0 => ck = cookie
    PROVE  Ordinary(Request(sent + k, t, pg, op, auth, ck, u, pw, v))
<1>1. PICK d : d = Request(sent + k, t, pg, op, auth, ck, u, pw, v)
  OBVIOUS
<1> QED
  BY <1>1, RequestHas DEF Ordinary

LEMMA PostRests ==
    ASSUME BothInv, RestInv, Quiet, LateGrows, UNCHANGED <<local, cookie, setBy, shown>>, Usual(No),
           NEW G, NEW S, Becomes(calls \ G, S) \/ Becomes(Unsure(calls \ G), S), Takes(G), Untold(G), \A d \in S : Ordinary(d)
    PROVE  RestInv'
<1>1. Flow(G, No, S)
  BY FlowShapes DEF Ordinary
<1>2. Sends(S) /\ AsksNow(S)
  BY DEF Ordinary, Sends, AsksNow
<1> QED
  BY <1>1, <1>2, StillRests

LEMMA SendRests ==
    ASSUME BothInv, RestInv, Quiet, LateGrows, UNCHANGED <<local, cookie, setBy, shown>>, Usual(No),
           NEW S, Becomes(calls, S), \A d \in S : Ordinary(d)
    PROVE  RestInv'
<1>1. Becomes(calls \ {}, S) /\ Takes({}) /\ Untold({})
  BY DEF Becomes, Takes, Untold
<1> QED
  BY <1>1, PostRests

LEMMA SameUsual == (UNCHANGED page => Usual(No)) /\ (UNCHANGED cvars => UNCHANGED <<local, cookie, setBy, shown, page, late>> /\ LateGrows /\ Usual(No))
<1>1. ASSUME UNCHANGED page PROVE Usual(No)
  BY <1>1, AccountsAssumption DEF Usual, SameQuestion, SameStatus
<1> QED
  BY <1>1 DEF cvars, session, LateGrows

LEMMA NotServer == ASSUME RestInv, NEW c \in calls, c.t \in Tabs, c.op \notin LoadOps PROVE page[c.t].at \notin ServerPages
  BY DEF RestInv, Placed

LEMMA submitRests ==
    ASSUME BothInv, RestInv, NEW t \in Tabs,
           \/ submitLogin(t) \/ submitCode(t) \/ save(t) \/ submitReset(t) \/ submitPassword(t) \/ saveExport(t)
           \/ sendMessage(t) \/ submitFeedback(t)
    PROVE  RestInv'
<1>1. Quiet /\ UNCHANGED cvars
  BY DEF submitLogin, submitCode, save, submitReset, submitPassword, saveExport, sendMessage, submitFeedback
<1>2. UNCHANGED <<local, cookie, setBy, shown, page>> /\ LateGrows /\ Usual(No)
  BY <1>1, SameUsual
<1>3. page[t].at \notin ServerPages
  <2>1. CASE submitReset(t)
    BY <2>1 DEF submitReset, RestInv, Placed
  <2>2. CASE ~submitReset(t)
    BY <2>2 DEF submitLogin, submitCode, save, submitPassword, saveExport, sendMessage, submitFeedback, ServerPages
  <2> QED
    BY <2>1, <2>2
<1>4. \E S : Becomes(calls, S) /\ \A d \in S : Ordinary(d)
  <2>1. CASE submitLogin(t)
    <3>1. PICK u, pw : Post(userServiceLogin(t, u, pw, 0))
      BY <2>1 DEF submitLogin
    <3>2. "whoami" \notin PageFactorOps \cup LoadOps \cup {"question"} /\ "login" \notin PageFactorOps \cup LoadOps \cup {"question"}
      BY DEF PageFactorOps, LoadOps
    <3>3. Ordinary(getUserDetails(1, t, local, cookie)) /\ Ordinary(intercept(2, t, "login", u, pw, 0))
      BY <1>2, <1>3, <3>2, RequestOrdinary DEF getUserDetails, intercept
    <3> QED
      BY <3>1, <3>3 DEF Post, Becomes, userServiceLogin
  <2>2. CASE ~submitLogin(t) /\ ~UNCHANGED calls
    <3>1. PICK op, u, pw, v :
            op \in {"verify", "register", "reset", "password", "export", "chatstatus", "feedback"} /\ Send(t, op, u, pw, v)
      BY <2>2 DEF submitCode, save, submitReset, submitPassword, saveExport, sendMessage, submitFeedback
    <3>2. op \notin PageFactorOps \cup LoadOps \cup {"question"} /\ op # "whoami"
      BY <3>1 DEF PageFactorOps, LoadOps
    <3>3. Ordinary(intercept(1, t, op, u, pw, v))
      BY <1>2, <1>3, <3>2, RequestOrdinary DEF intercept
    <3> QED
      BY <3>1, <3>3 DEF Send, Post, Becomes
  <2>3. CASE UNCHANGED calls
    <3>1. Becomes(calls, {})
      BY <2>3 DEF Becomes
    <3> QED
      BY <3>1
  <2> QED
    BY <2>1, <2>2, <2>3
<1> QED
  BY <1>1, <1>2, <1>4, SendRests

(* An answer is taken.                                                     *)
LEMMA DoneRests ==
    ASSUME BothInv, RestInv, Quiet, LateGrows, UNCHANGED <<local, cookie, setBy, shown>>, Usual(No),
           NEW c \in calls, c.t \in Tabs => c.op \notin PageFactorOps /\ ~(c.op = "whoami" /\ c.pw = 0), calls' = calls \ {c}
    PROVE  RestInv'
<1>1. Becomes(calls \ {c}, {}) /\ Takes({c}) /\ Untold({c})
  BY DEF Becomes, Takes, Untold
<1> QED
  BY <1>1, PostRests

LEMMA takenRests ==
    ASSUME BothInv, RestInv, NEW c \in calls, verifyError(c) \/ ipSaved(c) \/ passwordChanged(c) \/ Ignored(c) \/ statusShown(c)
    PROVE  RestInv'
<1>1. Quiet /\ UNCHANGED cvars /\ calls' = calls \ {c}
  BY DEF verifyError, ipSaved, passwordChanged, Ignored, statusShown, Done
<1>2. c.t \in Tabs => c.op \notin PageFactorOps /\ c.op # "whoami"
  BY AccountsAssumption DEF verifyError, ipSaved, passwordChanged, Ignored, statusShown, AnswerOf, PageFactorOps
<1> QED
  BY <1>1, <1>2, SameUsual, DoneRests

LEMMA answeredRests ==
    ASSUME BothInv, RestInv, NEW c \in calls, oauthSaved(c) \/ saved(c) \/ messageSent(c) \/ feedbackSaved(c)
    PROVE  RestInv'
<1>1. Quiet /\ UNCHANGED cvars /\ c.at = "ans" /\ c.t # No /\ c.op \in {"register", "chatstatus", "feedback"}
  BY DEF oauthSaved, saved, messageSent, feedbackSaved, AnswerOf
<1>2. UNCHANGED <<local, cookie, setBy, shown, page>> /\ LateGrows /\ Usual(No)
  BY <1>1, SameUsual
<1>3. c.t \in Tabs /\ c.op \notin PageFactorOps /\ c.op \notin LoadOps /\ c.op # "whoami"
  BY <1>1, AnswerHas DEF PageFactorOps, LoadOps
<1>4. page[c.t].at \notin ServerPages
  BY <1>3, NotServer
<1>5. \E S : Becomes(calls \ {c}, S) /\ \A d \in S : Ordinary(d)
  <2>1. CASE Done(c)
    <3>1. Becomes(calls \ {c}, {})
      BY <2>1 DEF Done, Becomes
    <3> QED
      BY <3>1
  <2>2. CASE oauthSaved(c)
    <3>1. "whoami" \notin PageFactorOps \cup LoadOps \cup {"question"} /\ "login" \notin PageFactorOps \cup LoadOps \cup {"question"}
      BY DEF PageFactorOps, LoadOps
    <3>2. Ordinary(getUserDetails(1, c.t, local, cookie)) /\ Ordinary(intercept(2, c.t, "login", c.u, c.pw, 1))
      BY <1>2, <1>3, <1>4, <3>1, RequestOrdinary DEF getUserDetails, intercept
    <3> QED
      BY <2>2, <3>2 DEF oauthSaved, Then, Becomes, userServiceLogin
  <2>3. CASE saved(c) /\ ~Done(c)
    <3>1. "answer" \notin PageFactorOps \cup LoadOps \cup {"question"} /\ "answer" # "whoami"
      BY DEF PageFactorOps, LoadOps
    <3>2. Ordinary(intercept(1, c.t, "answer", c.u, 0, 0))
      BY <1>2, <1>3, <1>4, <3>1, RequestOrdinary DEF intercept
    <3> QED
      BY <2>3, <3>2 DEF saved, Then, Becomes
  <2>4. CASE messageSent(c) /\ ~Done(c)
    <3>1. PICK op : op = action[c.t][c.pg]
      OBVIOUS
    <3>2. op \in {"query", "setname"}
      BY <1>3, <2>4, <3>1, ChatCallHas DEF messageSent, AnswerOf, ChatOps
    <3>3. op \notin PageFactorOps \cup LoadOps \cup {"question"} /\ op # "whoami"
      BY <3>2 DEF PageFactorOps, LoadOps
    <3>4. PICK pw : pw = IF SameSender(c) THEN 1 ELSE 0
      OBVIOUS
    <3>5. Ordinary(Request(sent + 1, c.t, c.pg, op, local, cookie, No, pw, c.v))
      BY <1>2, <1>3, <1>4, <3>3, RequestOrdinary
    <3> QED
      BY <2>4, <3>1, <3>4, <3>5 DEF messageSent, Then, Becomes
  <2>5. CASE feedbackSaved(c) /\ ~Done(c)
    <3>1. "whoami" \notin PageFactorOps \cup LoadOps \cup {"question"} /\ "captchas" \notin PageFactorOps \cup LoadOps \cup {"question"}
          /\ "captchas" # "whoami" /\ 1 # 0
      BY DEF PageFactorOps, LoadOps
    <3>2. /\ Ordinary(Request(sent + 1, c.t, c.pg, "whoami", local, cookie, No, 1, 0))
          /\ Ordinary(Request(sent + 2, c.t, c.pg, "captchas", local, cookie, No, 0, 0))
      BY <1>2, <1>3, <1>4, <3>1, RequestOrdinary
    <3> QED
      BY <2>5, <3>2 DEF feedbackSaved, Then, Becomes, FormCalls
  <2> QED
    BY <2>1, <2>2, <2>3, <2>4, <2>5
<1>6. Takes({c}) /\ Untold({c})
  BY <1>3 DEF Takes, Untold
<1> QED
  BY <1>1, <1>2, <1>5, <1>6, PostRests

LEMMA FieldsUsual == ASSUME NEW t \in Tabs, OtherFields(t) PROVE Usual(No)
<1>1. \A x \in Tabs : SameQuestion(x) /\ SameStatus(x)
  BY DEF OtherFields, SameQuestion, SameStatus
<1> QED
  BY <1>1, AccountsAssumption DEF Usual

LEMMA fieldRests ==
    ASSUME BothInv, RestInv, NEW c \in calls, captchaShown(c) \/ pageLoaded(c) \/ newCaptchaShown(c)
    PROVE  RestInv'
<1>1. Quiet /\ UNCHANGED <<session, shown, late>> /\ c.at = "ans" /\ c.t # No /\ c.op \in {"captcha", "captchas", "profile", "erasure form"}
      /\ calls' = calls \ {c}
  BY DEF captchaShown, pageLoaded, newCaptchaShown, AnswerOf, Done
<1>2. c.t \in Tabs /\ c.op \notin PageFactorOps /\ c.op # "whoami"
  BY <1>1, AnswerHas DEF PageFactorOps
<1>3. OtherFields(c.t)
  <2>1. CASE captchaShown(c)
    BY <1>2, <2>1, PagesHave DEF captchaShown, OtherFields, SameQuestion, SameStatus, PageFields
  <2>2. CASE pageLoaded(c)
    BY <1>2, <2>2, PagesHave DEF pageLoaded, OtherFields, SameQuestion, SameStatus, PageFields
  <2>3. CASE newCaptchaShown(c)
    BY <1>2, <2>3, PagesHave DEF newCaptchaShown, OtherFields, SameQuestion, SameStatus, PageFields
  <2> QED
    BY <2>1, <2>2, <2>3
<1>4. Usual(No) /\ UNCHANGED <<local, cookie, setBy, shown>> /\ LateGrows
  BY <1>1, <1>2, <1>3, FieldsUsual DEF session, LateGrows
<1> QED
  BY <1>1, <1>2, <1>4, DoneRests

LEMMA exportedRests == ASSUME BothInv, RestInv, NEW c \in calls, exported(c) PROVE RestInv'
<1>1. Quiet /\ UNCHANGED <<session, shown>> /\ c.at = "ans" /\ c.t # No /\ c.op = "export"
  BY DEF exported, AnswerOf
<1>2. c.t \in Tabs /\ c.op \notin PageFactorOps /\ c.op \notin LoadOps /\ c.op # "whoami" /\ UNCHANGED <<local, cookie, setBy, shown>>
  BY <1>1, AnswerHas DEF PageFactorOps, LoadOps, session
<1>3. page[c.t].at \notin ServerPages
  BY <1>2, NotServer
<1>4. OtherFields(c.t)
  BY <1>2, PagesHave DEF exported, OtherFields, SameQuestion, SameStatus, PageFields
<1>5. LateGrows
  BY DEF exported, OtherCaptcha, LateGrows
<1>6. Usual(No) /\ page'[c.t].at \notin ServerPages
  BY <1>2, <1>3, <1>4, FieldsUsual DEF OtherFields, SameStatus
<1>7. CASE Done(c)
  BY <1>1, <1>2, <1>5, <1>6, <1>7, DoneRests DEF Done
<1>8. CASE calls' = Unsure(calls \ {c}) \cup {getNewCaptcha(1, c.t, c.pg)}
  <2>1. "captcha" \notin PageFactorOps \cup LoadOps \cup {"question"} /\ "captcha" # "whoami"
    BY DEF PageFactorOps, LoadOps
  <2>2. Ordinary(getNewCaptcha(1, c.t, c.pg))
    BY <1>2, <1>6, <2>1, RequestOrdinary DEF getNewCaptcha
  <2>3. Becomes(Unsure(calls \ {c}), {getNewCaptcha(1, c.t, c.pg)}) /\ Takes({c}) /\ Untold({c})
    BY <1>2, <1>8 DEF Becomes, Takes, Untold
  <2> QED
    BY <1>1, <1>2, <1>5, <1>6, <2>2, <2>3, PostRests
<1> QED
  BY <1>7, <1>8 DEF exported

LEMMA exportForgottenRests == ASSUME BothInv, RestInv, exportForgotten PROVE RestInv'
<1>1. Quiet /\ UNCHANGED <<local, cookie, setBy, shown, page>> /\ LateGrows /\ Becomes(calls, {})
  BY DEF exportForgotten, session, LateGrows, Becomes
<1> QED
  BY <1>1, SameUsual, SendRests

(* Another page is opened.                                                 *)
LEMMA NavigateHas ==
    ASSUME BothInv, NEW t \in Tabs, NEW p, NEW tk, navigate(t, p, tk)
    PROVE  Blank(t) /\ page'[t].at = p /\ page'[t].n = page[t].n + 1 /\ \A x \in Tabs \ {t} : page'[x] = page[x]
<1>1. DOMAIN page = Tabs /\ page[t].n \in Nat
  BY DEF BothInv, AccountsInv, BrowserInv, PagesOK, PageOK
<1>2. page'[t] = NewPage(p, page[t].n + 1, tk) /\ \A x \in Tabs \ {t} : page'[x] = page[x]
  BY <1>1 DEF navigate
<1> QED
  BY <1>1, <1>2 DEF NewPage, Blank

LEMMA BlankUsual ==
    ASSUME NEW t \in Tabs, Blank(t), page'[t].at # "2fa", \A x \in Tabs \ {t} : page'[x] = page[x]
    PROVE  Usual(t) /\ ((page'[t].at \in ServerPages <=> page[t].at \in ServerPages) => Usual(No))
<1>1. \A x \in Tabs \ {t} : SameQuestion(x) /\ SameStatus(x)
  BY DEF SameQuestion, SameStatus
<1> QED
  BY <1>1, AccountsAssumption DEF Usual

LEMMA NavigateUsual ==
    ASSUME BothInv, NEW t \in Tabs, NEW p, NEW tk, navigate(t, p, tk), p # "2fa", p \notin ServerPages, page[t].at \notin ServerPages
    PROVE  Usual(No) /\ page'[t].at \notin ServerPages
  BY NavigateHas, BlankUsual

LEMMA openFormRests == ASSUME BothInv, RestInv, NEW t \in Tabs, openChatbot(t) \/ openContact(t) PROVE RestInv'
<1>1. Quiet /\ UNCHANGED <<local, cookie, setBy, shown>> /\ LateGrows /\ page[t].at \notin ServerPages
  BY DEF openChatbot, openContact, session, LateGrows, ServerPages
<1>2. PICK p \in {"chatbot", "contact"} : navigate(t, p, local)
  BY DEF openChatbot, openContact
<1>3. Usual(No) /\ page'[t].at \notin ServerPages
  <2>1. p # "2fa" /\ p \notin ServerPages
    BY DEF ServerPages
  <2> QED
    BY <1>1, <1>2, <2>1, NavigateUsual
<1>4. "whoami" \notin PageFactorOps \cup LoadOps \cup {"question"} /\ "captchas" \notin PageFactorOps \cup LoadOps \cup {"question"}
      /\ "chatstatus" \notin PageFactorOps \cup LoadOps \cup {"question"} /\ "captchas" # "whoami" /\ "chatstatus" # "whoami" /\ 1 # 0 /\ 2 # 0
  BY DEF PageFactorOps, LoadOps
<1>5. \A n, v : /\ Ordinary(Request(sent + 1, t, n, "whoami", local, cookie, No, 1, v))
                /\ Ordinary(Request(sent + 2, t, n, "captchas", local, cookie, No, 0, v))
                /\ Ordinary(Request(sent + 1, t, n, "chatstatus", local, cookie, No, 0, v))
                /\ Ordinary(Request(sent + 2, t, n, "whoami", local, cookie, No, 2, v))
  BY <1>3, <1>4, RequestOrdinary
<1>6. PICK S : S \in {MoreCalls(t, page[t].n + 1), FormCalls(t, page[t].n + 1)} /\ Becomes(calls, S)
  BY DEF openChatbot, openContact, Post, Becomes
<1>7. \A d \in S : Ordinary(d)
  BY <1>5, <1>6 DEF MoreCalls, FormCalls
<1> QED
  BY <1>1, <1>3, <1>6, <1>7, SendRests

LEMMA SessionRests ==
    ASSUME BothInv, RestInv, Quiet, LateGrows, LocalMoves, Usual(No), NEW G, NEW S, Becomes(calls \ G, S), Takes(G),
           \A d \in S : Ordinary(d), \A t \in Tabs : Steady(t, G, No, S)
    PROVE  RestInv'
<1>1. Flow(G, No, S)
  BY FlowShapes DEF Ordinary
<1>2. Sends(S)
  BY DEF Ordinary, Sends
<1> QED
  BY <1>1, <1>2, UsualRests

(* Nobody is logged in any more.                                           *)
LEMMA OutRests ==
    ASSUME BothInv, RestInv, Quiet, LateGrows, local' = 0, Usual(No), NEW G, NEW S, Becomes(calls \ G, S), Takes(G), \A d \in S : Ordinary(d)
    PROVE  RestInv'
<1>1. LocalMoves /\ \A t \in Tabs : Steady(t, G, No, S)
  BY DEF LocalMoves, Steady, Leads
<1> QED
  BY <1>1, SessionRests

LEMMA logoutRests == ASSUME BothInv, RestInv, NEW t \in Tabs, logout(t) PROVE RestInv'
<1>1. Quiet /\ local' = 0 /\ LateGrows /\ navigate(t, "search", 0) /\ Send(t, "ip", No, 0, 0) /\ page[t].at \notin ServerPages
  BY DEF logout, RemoveToken, LateGrows, ServerPages
<1>2. "search" # "2fa" /\ "search" \notin ServerPages /\ "ip" \notin PageFactorOps \cup LoadOps \cup {"question"} /\ "ip" # "whoami"
  BY DEF ServerPages, PageFactorOps, LoadOps
<1>3. Usual(No) /\ page'[t].at \notin ServerPages
  BY <1>1, <1>2, NavigateUsual
<1>4. Ordinary(intercept(1, t, "ip", No, 0, 0))
  BY <1>2, <1>3, RequestOrdinary DEF intercept
<1>5. Becomes(calls \ {}, {intercept(1, t, "ip", No, 0, 0)}) /\ Takes({})
  BY <1>1 DEF Send, Post, Becomes, Takes
<1> QED
  BY <1>1, <1>3, <1>4, <1>5, OutRests

LEMMA oauthLoginRests == ASSUME BothInv, RestInv, NEW t \in Tabs, oauthLogin(t) PROVE RestInv'
<1>1. Quiet /\ LateGrows /\ UNCHANGED shown /\ page[t].at \notin ServerPages
  BY DEF oauthLogin, LateGrows, ServerPages
<1>2. CASE \E u \in todo.who : Send(t, "register", u, OauthPassword, 1) /\ UNCHANGED <<session, page>>
  <2>1. PICK u : Send(t, "register", u, OauthPassword, 1)
    BY <1>2
  <2>2. UNCHANGED <<local, cookie, setBy, page>>
    BY <1>2 DEF session
  <2>3. "register" \notin PageFactorOps \cup LoadOps \cup {"question"} /\ "register" # "whoami"
    BY DEF PageFactorOps, LoadOps
  <2>4. Ordinary(intercept(1, t, "register", u, OauthPassword, 1))
    BY <1>1, <2>2, <2>3, RequestOrdinary DEF intercept
  <2>5. Becomes(calls, {intercept(1, t, "register", u, OauthPassword, 1)})
    BY <2>1 DEF Send, Post, Becomes
  <2> QED
    BY <1>1, <2>2, <2>4, <2>5, SameUsual, SendRests
<1>3. CASE RemoveToken(t) /\ navigate(t, "login", 0) /\ UNCHANGED <<calls, sent>>
  <2>1. "login" # "2fa" /\ "login" \notin ServerPages
    BY DEF ServerPages
  <2>2. Usual(No) /\ local' = 0
    BY <1>1, <1>3, <2>1, NavigateUsual DEF RemoveToken
  <2>3. Becomes(calls \ {}, {}) /\ Takes({})
    BY <1>3 DEF Becomes, Takes
  <2> QED
    BY <1>1, <2>2, <2>3, OutRests
<1> QED
  BY <1>2, <1>3 DEF oauthLogin

LEMMA loginOtherRests ==
    ASSUME BothInv, RestInv, NEW c \in calls, loginTotp(c) \/ loginError(c) \/ invalidateSession(c) \/ answerSaved(c)
    PROVE  RestInv'
<1>1. Quiet /\ LateGrows /\ calls' = calls \ {c} /\ c.at = "ans" /\ c.t # No /\ c.op \in {"login", "answer"}
  BY DEF loginTotp, loginError, invalidateSession, answerSaved, AnswerOf, Done, LateGrows
<1>2. c.t \in Tabs /\ c.op \notin PageFactorOps /\ c.op \notin LoadOps /\ c.op # "whoami"
  BY <1>1, AnswerHas DEF PageFactorOps, LoadOps
<1>3. page[c.t].at \notin ServerPages
  BY <1>2, NotServer
<1>4. Usual(No)
  <2>1. CASE UNCHANGED page
    BY <2>1, SameUsual
  <2>2. ASSUME NEW p \in {"enter", "login"}, NEW tk, navigate(c.t, p, tk) PROVE Usual(No)
    <3>1. p # "2fa" /\ p \notin ServerPages
      BY DEF ServerPages
    <3> QED
      BY <1>2, <1>3, <2>2, <3>1, NavigateUsual
  <2> QED
    BY <2>1, <2>2 DEF loginTotp, loginError, invalidateSession, answerSaved
<1>5. CASE loginTotp(c) \/ answerSaved(c)
  <2>1. UNCHANGED <<local, cookie, setBy, shown>>
    BY <1>5 DEF loginTotp, answerSaved, session
  <2> QED
    BY <1>1, <1>2, <1>4, <2>1, DoneRests
<1>6. CASE loginError(c) \/ invalidateSession(c)
  <2>1. local' = 0 /\ Becomes(calls \ {c}, {}) /\ Takes({c})
    BY <1>1, <1>2, <1>6 DEF loginError, invalidateSession, RemoveToken, Becomes, Takes
  <2> QED
    BY <1>1, <1>4, <2>1, OutRests
<1> QED
  BY <1>5, <1>6

LEMMA LoadHas ==
    ASSUME BothInv, NEW t \in Tabs, NEW pg, NEW op, NEW ck, NEW v, op \in LoadOps, page'[t].at \in ServerPages
    PROVE  Ordinary(Load(t, pg, op, ck, v))
<1>1. PICK d : d = Load(t, pg, op, ck, v)
  OBVIOUS
<1>2. d.no > sent /\ d.at = "req" /\ d.t = t /\ d.op = op
  BY <1>1, RequestHas DEF Load
<1> QED
  BY <1>1, <1>2 DEF Ordinary, LoadOps, PageFactorOps

LEMMA goToProfilePageRests == ASSUME BothInv, RestInv, NEW t \in Tabs, goToProfilePage(t) PROVE RestInv'
<1>1. Quiet /\ UNCHANGED <<local, cookie, setBy, shown>> /\ LateGrows /\ LocalMoves
  BY DEF goToProfilePage, session, LateGrows, LocalMoves
<1>2. PICK p \in {"profile", "erasure"} :
        /\ navigate(t, p, local)
        /\ calls' = Abandoned(t) \cup {Load(t, page[t].n + 1, IF p = "profile" THEN p ELSE "erasure form", cookie, 0)}
  BY DEF goToProfilePage
<1>3. PICK op : op = IF p = "profile" THEN p ELSE "erasure form"
  OBVIOUS
<1>4. op \in LoadOps /\ op # "whoami" /\ p \in ServerPages /\ p # "2fa"
  BY <1>3 DEF LoadOps, ServerPages
<1>5. Blank(t) /\ page'[t].at = p /\ \A x \in Tabs \ {t} : page'[x] = page[x]
  BY <1>2, NavigateHas
<1>6. Usual(t)
  BY <1>4, <1>5, BlankUsual
<1>7. PICK S : S = {Load(t, page[t].n + 1, op, cookie, 0)}
  OBVIOUS
<1>8. \A d \in S : Ordinary(d)
  BY <1>4, <1>5, <1>7, LoadHas
<1>9. Flow({}, t, S)
  BY <1>2, <1>3, <1>7, <1>8, FlowShapes DEF Becomes, Ordinary
<1>10. Sends(S) /\ AsksNow(S) /\ Takes({}) /\ Untold({})
  BY <1>8 DEF Ordinary, Sends, AsksNow, Takes, Untold
<1>11. \A x \in Tabs : Steady(x, {}, t, S)
  <2>1. Steady(t, {}, t, S)
    BY <1>4, <1>5 DEF Steady, Leads
  <2>2. ASSUME NEW x \in Tabs, x # t PROVE Steady(x, {}, t, S)
    BY <1>1, <1>5, <1>10, <2>2, SteadyStays
  <2> QED
    BY <2>1, <2>2
<1> QED
  BY <1>1, <1>6, <1>9, <1>10, <1>11, UsualRests

LEMMA ngOnInitRests == ASSUME BothInv, RestInv, NEW t \in Tabs, ngOnInit(t) PROVE RestInv'
<1>1. Quiet /\ UNCHANGED <<local, cookie, setBy>> /\ LateGrows /\ LocalMoves
  BY DEF ngOnInit, session, LateGrows, LocalMoves
<1>2. \A x \in Tabs \ {t} : shown'[x] = shown[x]
  BY DEF ngOnInit, BothInv, AccountsInv, BrowserInv, PersonOK
<1>3. Blank(t) /\ page'[t].at = "search" /\ \A x \in Tabs \ {t} : page'[x] = page[x]
  BY NavigateHas DEF ngOnInit
<1>4. "search" # "2fa" /\ "search" \notin ServerPages /\ "whoami" \notin PageFactorOps \cup LoadOps \cup {"question"}
  BY DEF ServerPages, PageFactorOps, LoadOps
<1>5. Usual(t)
  BY <1>3, <1>4, BlankUsual
<1>6. PICK r : r = Opened(t, "whoami")
  OBVIOUS
<1>7. Ordinary(r)
  BY <1>3, <1>4, <1>6, RequestOrdinary DEF Opened
<1>8. Asks(r, t) /\ r.cookie = cookie
  BY <1>6, RequestHas DEF Opened, Asks
<1>9. PICK S : S = (IF local = 0 THEN {} ELSE {r}) /\ Becomes(Abandoned(t), S)
  BY <1>6 DEF ngOnInit, Becomes
<1>10. \A d \in S : Ordinary(d) /\ d = r
  BY <1>7, <1>9
<1>11. Flow({}, t, S)
  BY <1>9, <1>10, FlowShapes DEF Ordinary
<1>12. Sends(S) /\ AsksNow(S) /\ Takes({}) /\ Untold({})
  BY <1>10 DEF Ordinary, Sends, AsksNow, Takes, Untold
<1>13. \A x \in Tabs : Steady(x, {}, t, S)
  <2>1. CASE local = 0
    BY <1>1, <2>1 DEF Steady, Leads
  <2>2. CASE local # 0
    <3>1. Who(r.cookie) = Who(cookie')
      BY <1>1, <1>8
    <3>2. Steady(t, {}, t, S)
      BY <1>8, <1>9, <1>10, <2>2, <3>1 DEF Steady
    <3>3. ASSUME NEW x \in Tabs, x # t PROVE Steady(x, {}, t, S)
      BY <1>1, <1>2, <1>3, <1>12, <3>3, SteadyStays
    <3> QED
      BY <3>2, <3>3
  <2> QED
    BY <2>1, <2>2
<1> QED
  BY <1>1, <1>5, <1>11, <1>12, <1>13, UsualRests

LEMMA submitFormRests == ASSUME BothInv, RestInv, NEW t \in Tabs, submit(t) PROVE RestInv'
<1>1. Quiet /\ UNCHANGED <<local, cookie, setBy, shown>> /\ LateGrows /\ page[t].at \in ServerPages
  BY DEF submit, session, LateGrows, ServerPages
<1>2. OtherFields(t)
  BY PagesHave DEF submit, OtherFields, SameQuestion, SameStatus, PageFields
<1>3. Usual(No) /\ page'[t].at \in ServerPages
  BY <1>1, <1>2, FieldsUsual DEF OtherFields, SameStatus
<1>4. PICK op \in {"username", "erasure"} : Post({Load(t, page[t].n, op, cookie, 1)})
  BY DEF submit
<1>5. op \in LoadOps /\ op # "whoami"
  BY DEF LoadOps
<1>6. Ordinary(Load(t, page[t].n, op, cookie, 1))
  BY <1>3, <1>5, LoadHas
<1>7. Becomes(calls, {Load(t, page[t].n, op, cookie, 1)})
  BY <1>4 DEF Post, Becomes
<1> QED
  BY <1>1, <1>3, <1>6, <1>7, SendRests

(* The answer brings the token.                                            *)
LEMMA TokenGone ==
    ASSUME BothInv, NEW c \in calls, Brings(c), local' = c.tk, NEW S, Becomes(calls \ {c}, S), \A d \in S : d.no > sent
    PROVE  LocalMoves
<1>1. \A d \in calls \ {c} : d.no # c.no
  BY DEF BothInv, AccountsInv, SInv, CallsApart
<1>2. ~(c.no > sent)
  BY DEF BothInv, AccountsInv, SInv, CallsOK, CallOK, CallTyped
<1> QED
  BY <1>1, <1>2 DEF LocalMoves, Becomes

LEMMA logInRests == ASSUME BothInv, RestInv, NEW c \in calls, loginNext(c) \/ verifyNext(c) PROVE RestInv'
<1>1. Quiet /\ LateGrows /\ LogIn(c) /\ c.at = "ans" /\ c.res = "ok" /\ c.t # No /\ c.op \in {"login", "verify"}
  BY DEF loginNext, verifyNext, AnswerOf, LateGrows
<1>2. c.t \in Tabs /\ AccountsInv /\ c.op \notin PageFactorOps /\ c.op \notin LoadOps
  BY <1>1, AnswerHas DEF PageFactorOps, LoadOps
<1>3. page[c.t].at \notin ServerPages
  BY <1>2, NotServer
<1>4. local' = c.tk /\ cookie' = c.tk /\ setBy' = c.t /\ navigate(c.t, "search", c.tk) /\ calls' = (calls \ {c}) \cup {getUserDetails(1, c.t, c.tk, c.tk)}
  BY <1>1 DEF LogIn, Then
<1>5. "search" # "2fa" /\ "search" \notin ServerPages /\ "whoami" \notin PageFactorOps /\ "whoami" \notin LoadOps /\ "whoami" # "question"
  BY DEF ServerPages, PageFactorOps, LoadOps
<1>6. Usual(No) /\ page'[c.t].at \notin ServerPages
  BY <1>2, <1>3, <1>4, <1>5, NavigateUsual
<1>7. PICK r : r = getUserDetails(1, c.t, c.tk, c.tk)
  OBVIOUS
<1>8. r.no > sent /\ r.at = "req" /\ Asks(r, c.t) /\ r.cookie = c.tk /\ r.t = c.t /\ r.op = "whoami"
  BY <1>7, RequestHas DEF getUserDetails, Asks
<1>9. Becomes(calls \ {c}, {r})
  BY <1>4, <1>7 DEF Becomes
<1>10. Flow({c}, No, {r})
  BY <1>8, <1>9, FlowShapes
<1>11. Sends({r}) /\ Takes({c})
  BY <1>2, <1>5, <1>6, <1>8 DEF Sends, Takes
<1>12. Brings(c)
  BY <1>1, <1>2, CallHas DEF CallOK, LoggingIn, LoginOps, Brings
<1>13. LocalMoves
  BY <1>4, <1>8, <1>9, <1>12, TokenGone
<1>14. \A t \in Tabs : Steady(t, {c}, No, {r})
  <2>1. Who(r.cookie) = Who(cookie')
    BY <1>4, <1>8
  <2>2. Steady(c.t, {c}, No, {r})
    BY <1>8, <2>1 DEF Steady
  <2>3. \A t \in Tabs : t # c.t => ~Leads(t)'
    BY <1>4 DEF Leads
  <2> QED
    BY <2>2, <2>3 DEF Steady
<1> QED
  BY <1>1, <1>6, <1>10, <1>11, <1>13, <1>14, UsualRests

(* The cookie is replaced by one of the same user, or the page is late.    *)
LEMMA CookieRests ==
    ASSUME BothInv, RestInv, Quiet, LateGrows, LocalMoves, UNCHANGED <<shown, page>>, NEW c \in calls, NEW S, Becomes(calls \ {c}, S),
           c.op \notin PageFactorOps, ~(c.op = "whoami" /\ c.pw = 0), \A d \in S : Ordinary(d) /\ d.op # "whoami",
           \A x \in Tabs : Leads(x)' => setBy = x /\ local # 0 /\ Who(cookie') = Who(cookie)
    PROVE  RestInv'
<1>1. \A x \in Tabs : Leads(x)' => Leads(x)
  BY DEF Leads, LateGrows
<1>2. \A x \in Tabs : Steady(x, {c}, No, S)
  BY <1>1, AccountsAssumption DEF Steady, Asks
<1>3. Takes({c}) /\ Usual(No)
  BY SameUsual DEF Takes
<1> QED
  BY <1>2, <1>3, SessionRests

LEMMA handleResponseRests == ASSUME BothInv, RestInv, NEW c \in calls, handleResponse(c) PROVE RestInv'
<1>1. Quiet /\ UNCHANGED <<shown, page>> /\ TakeToken(c) /\ Becomes(calls \ {c}, {}) /\ c.op \in {"query", "setname"}
  BY DEF handleResponse, Replied, Done, Becomes
<1>2. c.op \notin PageFactorOps /\ c.op # "whoami" /\ AccountsInv /\ No \notin Users
  BY <1>1, AccountsAssumption DEF PageFactorOps, BothInv
<1>3. LateGrows
  BY <1>1 DEF TakeToken, LateGrows
<1>4. LocalMoves
  <2>1. CASE c.tk = 0
    BY <1>1, <2>1 DEF TakeToken, LocalMoves
  <2>2. CASE c.tk # 0
    <3>1. Brings(c) /\ local' = c.tk
      BY <1>1, <2>2 DEF Brings, TakeToken
    <3> QED
      BY <1>1, <3>1, TokenGone
  <2> QED
    BY <2>1, <2>2
<1>5. ASSUME NEW x \in Tabs, Leads(x)' PROVE setBy = x /\ local # 0 /\ Who(cookie') = Who(cookie)
  <2>1. setBy' = x /\ x # No /\ ~late'[x] /\ local' # 0
    BY <1>5, AccountsAssumption DEF Leads
  <2>2. CASE c.tk = 0
    BY <1>1, <2>1, <2>2 DEF TakeToken
  <2>3. CASE c.tk # 0
    <3>1. setBy = x /\ Who(c.tk) = Who(local) /\ Who(c.tk) = Who(cookie) /\ cookie' = c.tk
      BY <1>1, <2>1, <2>3 DEF TakeToken, Replaces
    <3>2. Who(c.tk) # No
      <4>0. c.tk \in 0..Len(minted)
        BY <1>2, CallHas
      <4>1. c.tk \in 1..Len(minted) /\ minted \in Seq(Tokens)
        <5>1. minted \in Seq(Tokens) /\ Len(minted) \in Nat
          BY <1>2, ServerHas
        <5> QED
          BY <2>3, <4>0, <5>1
      <4>2. minted[c.tk].user \in Users
        <5>1. minted[c.tk] \in Tokens
          BY <4>1
        <5> QED
          BY <5>1 DEF Tokens
      <4> QED
        BY <1>2, <2>3, <4>2 DEF Who
    <3>3. local # 0
      BY <3>1, <3>2 DEF Who
    <3> QED
      BY <3>1, <3>3
  <2> QED
    BY <2>2, <2>3
<1> QED
  BY <1>1, <1>2, <1>3, <1>4, <1>5, CookieRests

LEMMA authorKnownRests == ASSUME BothInv, RestInv, NEW c \in calls, authorKnown(c) PROVE RestInv'
<1>1. /\ Quiet /\ UNCHANGED <<shown, page, local, setBy>> /\ Becomes(calls \ {c}, {}) /\ c.op = "whoami" /\ c.pw # 0
      /\ cookie' = (IF c.tk # 0 THEN c.tk ELSE cookie)
      /\ late' = [x \in Tabs |-> late[x] \/ (c.tk # 0 /\ Replaces(c.tk))]
  BY DEF authorKnown, AnswerOf, Done, Becomes
<1>2. c.op \notin PageFactorOps /\ LateGrows /\ LocalMoves
  BY <1>1 DEF PageFactorOps, LateGrows, LocalMoves
<1>3. ASSUME NEW x \in Tabs, Leads(x)' PROVE setBy = x /\ local # 0 /\ Who(cookie') = Who(cookie)
  BY <1>1, <1>3 DEF Leads, Replaces
<1> QED
  BY <1>1, <1>2, <1>3, CookieRests

LEMMA formSavedRests == ASSUME BothInv, RestInv, NEW c \in calls, usernameSaved(c) \/ erased(c) PROVE RestInv'
<1>1. Quiet /\ UNCHANGED <<shown, page, local, setBy>> /\ c.at = "ans" /\ c.t # No /\ c.op \in {"username", "erasure"}
  BY DEF usernameSaved, erased, AnswerOf
<1>2. c.op \notin PageFactorOps /\ c.op # "whoami" /\ c.op \in LoadOps /\ c.t \in Tabs
  BY <1>1, AnswerHas DEF PageFactorOps, LoadOps
<1>3. page[c.t].at \in ServerPages
  BY <1>2 DEF RestInv, Placed
<1>4. PICK tk : cookie' = (IF c.res = "ok" THEN tk ELSE cookie) /\ OutdatesOthers(c, tk)
  BY DEF usernameSaved, erased
<1>5. LateGrows /\ LocalMoves
  BY <1>1, <1>4 DEF OutdatesOthers, LateGrows, LocalMoves
<1>6. ASSUME NEW x \in Tabs, Leads(x)' PROVE setBy = x /\ local # 0 /\ Who(cookie') = Who(cookie)
  <2>1. x # c.t /\ setBy = x /\ local # 0 /\ ~late'[x]
    BY <1>1, <1>3, <1>6 DEF Leads
  <2> QED
    BY <1>4, <2>1 DEF OutdatesOthers, Replaces
<1>7. PICK S : Becomes(calls \ {c}, S) /\ (S = {} \/ S = {Load(c.t, page[c.t].n, "profile", c.tk, 0)})
  BY DEF usernameSaved, erased, Then, Done, Becomes
<1>8. ASSUME NEW d, d = Load(c.t, page[c.t].n, "profile", c.tk, 0) PROVE Ordinary(d) /\ d.op # "whoami"
  <2>1. "profile" \in LoadOps /\ page'[c.t].at \in ServerPages
    BY <1>1, <1>3 DEF LoadOps
  <2>2. d.op = "profile"
    BY <1>8, RequestHas DEF Load
  <2> QED
    BY <1>2, <1>8, <2>1, <2>2, LoadHas
<1>9. \A d \in S : Ordinary(d) /\ d.op # "whoami"
  BY <1>7, <1>8
<1> QED
  BY <1>1, <1>2, <1>5, <1>6, <1>7, <1>9, CookieRests

LEMMA userDetailsRests == ASSUME BothInv, RestInv, NEW c \in calls, userDetails(c) PROVE RestInv'
<1>1. /\ Quiet /\ UNCHANGED <<page, local, setBy>> /\ calls' = calls \ {c} /\ c.op = "whoami" /\ c.pw = 0 /\ c.at = "ans" /\ c.t # No
      /\ cookie' = (IF c.tk # 0 THEN c.tk ELSE cookie)
      /\ late' = [x \in Tabs |-> late[x] \/ (x = c.t /\ (c.res # "ok" \/ Overtakes(c))) \/ (c.tk # 0 /\ Replaces(c.tk))]
  BY DEF userDetails, AnswerOf, Done
<1>2. c.t \in Tabs /\ AccountsInv /\ c.op \notin PageFactorOps
  BY <1>1, AnswerHas DEF PageFactorOps
<1>3. LateGrows /\ LocalMoves /\ Takes({c}) /\ Usual(No) /\ Becomes(calls \ {c}, {}) /\ Sends({})
  BY <1>1, <1>2, SameUsual DEF LateGrows, LocalMoves, Takes, Becomes, Sends
<1>4. Flow({c}, No, {})
  BY <1>3, FlowShapes
<1>5. \A x \in Tabs : Leads(x)' => Leads(x) /\ Who(cookie') = Who(cookie)
  BY <1>1, <1>3 DEF Leads, LateGrows, Replaces
<1>6. \A x \in Tabs \ {c.t} : shown'[x] = shown[x]
  BY <1>2 DEF userDetails, AccountsInv, BrowserInv, PersonOK
<1>7. ASSUME NEW x \in Tabs, x # c.t PROVE Told(x)'
  <2>1. Steady(x, {c}, No, {})
    BY <1>5, <1>6, <1>7, AccountsAssumption DEF Steady, Asks
  <2> QED
    BY <1>1, <1>4, <2>1, ToldFlow
<1>8. Told(c.t)'
  <2>0. UNCHANGED minted
    BY <1>1 DEF Quiet, sessions
  <2>1. (\A k : Who(k)' = Who(k)) /\ Who(cookie)' = Who(cookie')
    BY <2>0 DEF Who
  <2> SUFFICES ASSUME Leads(c.t)'
               PROVE  /\ (\A d \in calls' : ~Asks(d, c.t)) => shown'[c.t] = Who(cookie)
                      /\ \A d \in calls' : Asks(d, c.t) /\ (\A e \in calls' : Asks(e, c.t) => e.no <= d.no) => Who(d.cookie) = Who(cookie)
    BY <1>2, <1>5, <2>1 DEF Told, Asks
  <2>2. Leads(c.t) /\ Told(c.t) /\ ~late'[c.t]
    BY <1>2, <1>5 DEF RestInv, Leads
  <2>3. c.res = "ok" /\ ~Overtakes(c)
    BY <1>1, <1>2, <2>2
  <2>4. shown'[c.t] = Who(c.cookie)
    <3>1. shown'[c.t] = c.u
      BY <1>2, <2>3 DEF userDetails, AccountsInv, BrowserInv, PersonOK
    <3> QED
      BY <1>1, <2>3, <3>1 DEF RestInv, TellsUser
  <2>5. \A d \in calls : Asks(d, c.t) => ~(d.no < c.no)
    BY <1>1, <2>3 DEF Asks, Overtakes
  <2>6. \A d \in calls : d.no \in Nat
    BY <1>2 DEF AccountsInv, SInv, CallsOK, CallOK, CallTyped
  <2>7. Asks(c, c.t)
    BY <1>1 DEF Asks
  <2>8. ASSUME \A d \in calls' : ~Asks(d, c.t) PROVE shown'[c.t] = Who(cookie)
    <3>1. \A d \in calls : Asks(d, c.t) => d.no <= c.no
      BY <1>1, <2>6, <2>8
    <3> QED
      BY <2>2, <2>4, <2>7, <3>1 DEF Told
  <2>9. ASSUME NEW d \in calls', Asks(d, c.t), \A e \in calls' : Asks(e, c.t) => e.no <= d.no PROVE Who(d.cookie) = Who(cookie)
    <3>1. d \in calls /\ c.no <= d.no
      BY <1>1, <2>5, <2>6, <2>9
    <3>2. \A e \in calls : Asks(e, c.t) => e.no <= d.no
      BY <1>1, <2>9, <3>1
    <3> QED
      BY <2>2, <2>9, <3>1, <3>2 DEF Told
  <2> QED
    BY <2>8, <2>9
<1>9. \A x \in Tabs : Told(x)'
  BY <1>7, <1>8
<1> QED
  BY <1>1, <1>3, <1>4, <1>9, UsualTold

(* Steps of one page that concern its question or its second factor.       *)
LEMMA PartRests ==
    ASSUME BothInv, RestInv, Quiet, LateGrows, UNCHANGED <<local, cookie, setBy, shown>>, NEW gone, NEW S, Flow(gone, No, S),
           Untold(gone), \A d \in S : d.op # "whoami" /\ (d.t \in Tabs => d.op \notin LoadOps /\ page'[d.t].at \notin ServerPages),
           \A x \in Tabs : page'[x].at \in ServerPages <=> page[x].at \in ServerPages,
           \A x \in Tabs : page'[x].timer \/ page'[x].email # No => page'[x].at \notin ServerPages,
           \A x \in Tabs : Sought(x)' /\ Fitted(x)'
    PROVE  RestInv'
<1>1. Placed'
  BY PlacedFlow
<1>2. TellsUser'
  BY TellsFlow
<1>3. AsksNow(S)
  BY DEF AsksNow
<1>4. ASSUME NEW x \in Tabs PROVE Told(x)'
  <2>1. Steady(x, gone, No, S)
    BY <1>3, SteadyStays, AccountsAssumption
  <2> QED
    BY <2>1, ToldFlow
<1> QED
  BY <1>1, <1>2, <1>4 DEF RestInv

LEMMA openRests == ASSUME BothInv, RestInv, NEW t \in Tabs, open(t) PROVE RestInv'
<1>1. Quiet /\ UNCHANGED <<local, cookie, setBy, shown>> /\ page[t].at \notin ServerPages
  BY DEF open, session, ServerPages
<1>2. PICK p \in AccountForms :
        /\ page' = [page EXCEPT ![t] = [NewPage(p, @.n + 1, local) EXCEPT !.present = p = "export" /\ lstdtxprt]]
        /\ \/ /\ p = "2fa" /\ Post({Opened(t, "status")})
              /\ late' = [late EXCEPT ![t] = @ \/ \E c \in calls : c.op \in {"setup", "disable"}]
           \/ /\ p = "export" /\ lstdtxprt
              /\ calls' = Unsure(calls) \cup {Opened(t, "captcha")} /\ sent' = sent + 1
              /\ late' = OtherCaptcha(t, page[t].n)
           \/ (p = "export" => ~lstdtxprt) /\ p # "2fa" /\ UNCHANGED <<calls, sent, late>>
  BY DEF open
<1>3. p \notin ServerPages
  BY DEF AccountForms, ServerPages
<1>4. /\ page'[t].at = p /\ page'[t].n = page[t].n + 1 /\ page'[t].tk = local /\ Blank(t) /\ page[t].n \in Nat
      /\ \A x \in Tabs \ {t} : page'[x] = page[x]
  <2>1. DOMAIN page = Tabs /\ page[t].n \in Nat
    BY DEF BothInv, AccountsInv, BrowserInv, PagesOK, PageOK
  <2>2. PICK q : q = NewPage(p, page[t].n + 1, local)
    OBVIOUS
  <2>3. page'[t] = [q EXCEPT !.present = p = "export" /\ lstdtxprt] /\ \A x \in Tabs \ {t} : page'[x] = page[x]
    BY <1>2, <2>1, <2>2
  <2>4. page'[t].at = q.at /\ page'[t].n = q.n /\ page'[t].tk = q.tk /\ page'[t].email = q.email /\ page'[t].question = q.question
        /\ page'[t].timer = q.timer
    BY <2>3
  <2> QED
    BY <2>1, <2>2, <2>3, <2>4 DEF NewPage, Blank
<1>5. LateGrows
  BY <1>2 DEF LateGrows, OtherCaptcha, BothInv, AccountsInv, BrowserInv, LateOK
<1>6. CASE p # "2fa"
  <2>1. Usual(No) /\ page'[t].at \notin ServerPages
    BY <1>1, <1>3, <1>4, <1>6, BlankUsual
  <2>2. CASE UNCHANGED calls
    <3>1. Becomes(calls, {})
      BY <2>2 DEF Becomes
    <3> QED
      BY <1>1, <1>5, <2>1, <3>1, SendRests
  <2>3. CASE calls' = Unsure(calls) \cup {Opened(t, "captcha")}
    <3>1. "captcha" \notin PageFactorOps \cup LoadOps \cup {"question"} /\ "captcha" # "whoami"
      BY DEF PageFactorOps, LoadOps
    <3>2. Ordinary(Opened(t, "captcha"))
      BY <2>1, <3>1, RequestOrdinary DEF Opened
    <3>3. calls \ {} = calls
      OBVIOUS
    <3>4. Becomes(Unsure(calls \ {}), {Opened(t, "captcha")}) /\ Takes({}) /\ Untold({})
      BY <2>3, <3>3 DEF Becomes, Takes, Untold
    <3> QED
      BY <1>1, <1>5, <2>1, <3>2, <3>4, PostRests
  <2> QED
    BY <1>2, <1>6, <2>2, <2>3
<1>7. CASE p = "2fa"
  <2>1. PICK r : r = Opened(t, "status")
    OBVIOUS
  <2>2. r.no > sent /\ r.at = "req" /\ r.t = t /\ r.op = "status" /\ r.auth = local /\ r.pw = 0
    BY <2>1, RequestHas DEF Opened
  <2>3. /\ calls' = calls \cup {r}
        /\ late' = [late EXCEPT ![t] = @ \/ \E c \in calls : c.op \in {"setup", "disable"}]
    BY <1>2, <1>7, <2>1 DEF Post
  <2>4. Flow({}, No, {r}) /\ LocalMoves /\ Untold({})
    BY <1>1, <2>2, <2>3, FlowShapes DEF Becomes, LocalMoves, Untold
  <2>5. r.op # "whoami" /\ r.op \notin LoadOps /\ r.op # "question" /\ r.op \notin FactorOps /\ page'[t].at \notin ServerPages
    BY <1>3, <1>4, <2>2 DEF LoadOps, FactorOps
  <2>6. \A x \in Tabs : page'[x].at \in ServerPages <=> page[x].at \in ServerPages
    BY <1>1, <1>4, <2>5
  <2>7. \A x \in Tabs : page'[x].timer \/ page'[x].email # No => page'[x].at \notin ServerPages
    BY <1>4, <2>5 DEF RestInv, Placed
  <2>8. ASSUME NEW x \in Tabs PROVE Sought(x)'
    <3>1. SameQuestion(x) \/ Blank(x)
      BY <1>4 DEF SameQuestion
    <3> QED
      BY <1>5, <2>4, <2>5, <3>1, SoughtFlow DEF Looks
  <2>9. ASSUME NEW x \in Tabs, x # t PROVE Fitted(x)'
    <3>1. SameStatus(x) /\ x # No
      BY <1>4, <2>9, AccountsAssumption DEF SameStatus
    <3> QED
      BY <1>1, <1>5, <2>2, <2>4, <2>5, <2>9, <3>1, FittedFlow
  <2>10. Fitted(t)'
    <3> SUFFICES ASSUME Fitting(t)' PROVE Fitted(t)'
      BY DEF Fitted
    <3>1. \A c \in calls' : c.op \notin FactorOps
      <4>1. ~late'[t]
        BY DEF Fitting
      <4>2. \A c \in calls : c.op \notin FactorOps
        BY <2>3, <4>1 DEF FactorOps, BothInv, AccountsInv, BrowserInv, LateOK
      <4> QED
        BY <2>3, <2>5, <4>2
    <3>2. \A c \in calls : c.t = t => c.pg \in Nat /\ c.pg <= page[t].n
      BY CallNumbers DEF BothInv, FormInv, PagesFit
    <3>3. \A c \in calls' : Checks(c, t)' => c = r
      BY <1>4, <2>3, <3>2 DEF Checks
    <3>4. Checking(r, t)'
      BY <1>1, <2>2 DEF Checking
    <3>5. Checks(r, t)' /\ r \in calls' /\ r.pw = 0
      <4>1. r.pg = page[t].n + 1
        BY <2>1, RequestHas DEF Opened
      <4> QED
        BY <1>4, <2>2, <2>3, <4>1 DEF Checks
    <3> QED
      BY <3>1, <3>3, <3>4, <3>5 DEF Fitted
  <2>11. \A x \in Tabs : Sought(x)' /\ Fitted(x)'
    BY <2>8, <2>9, <2>10
  <2> QED
    BY <1>1, <1>5, <2>2, <2>4, <2>5, <2>6, <2>7, <2>11, PartRests
<1> QED
  BY <1>6, <1>7

(* The forgotten password.                                                 *)
LEMMA SoughtRests ==
    ASSUME BothInv, RestInv, Quiet, LateGrows, UNCHANGED <<local, cookie, setBy, shown>>, NEW gone, NEW S, Flow(gone, No, S),
           NEW t \in Tabs, SameStatus(t), page[t].at \notin ServerPages, \A x \in Tabs \ {t} : page'[x] = page[x],
           Takes(gone), Untold(gone), \A d \in S : d.op = "question" /\ d.t = t, Sought(t)'
    PROVE  RestInv'
<1>1. \A d \in S : d.op # "whoami" /\ d.op \notin LoadOps /\ d.op \notin FactorOps /\ d.op # "status"
  BY DEF LoadOps, FactorOps
<1>2. \A x \in Tabs : SameStatus(x) /\ x # No
  BY AccountsAssumption DEF SameStatus
<1>3. \A x \in Tabs : page'[x].at \in ServerPages <=> page[x].at \in ServerPages
  BY <1>2 DEF SameStatus
<1>4. \A x \in Tabs : page'[x].timer \/ page'[x].email # No => page'[x].at \notin ServerPages
  BY <1>3 DEF RestInv, Placed
<1>5. LocalMoves
  BY DEF LocalMoves
<1>6. ASSUME NEW x \in Tabs, x # t PROVE Sought(x)'
  <2>1. SameQuestion(x) /\ \A d \in S : ~Looks(d, x)
    BY <1>6 DEF SameQuestion, Looks
  <2> QED
    BY <2>1, SoughtFlow
<1>7. ASSUME NEW x \in Tabs PROVE Fitted(x)'
  BY <1>1, <1>2, <1>5, FittedFlow DEF Takes
<1>8. \A x \in Tabs : Sought(x)' /\ Fitted(x)'
  BY <1>6, <1>7
<1> QED
  BY <1>1, <1>3, <1>4, <1>8, PartRests

(* Typing starts the timer.                                                *)
LEMMA TimerSeeks ==
    ASSUME RestInv, LateGrows, NEW t \in Tabs, calls' \subseteq calls, page'[t].timer
    PROVE  Sought(t)'
  BY DEF RestInv, Sought, Looks, LateGrows

LEMMA emailTypedRests == ASSUME BothInv, RestInv, NEW t \in Tabs, emailTyped(t) PROVE RestInv'
<1>1. Quiet /\ UNCHANGED <<local, cookie, setBy, shown>> /\ LateGrows /\ UNCHANGED calls /\ page[t].at \notin ServerPages
  BY DEF emailTyped, session, LateGrows, ServerPages
<1>2. SameStatus(t) /\ page'[t].timer /\ \A x \in Tabs \ {t} : page'[x] = page[x]
  BY PagesHave DEF emailTyped, SameStatus, PageFields
<1>3. Sought(t)'
  BY <1>1, <1>2, TimerSeeks
<1>4. Becomes(calls, {}) /\ Takes({}) /\ Untold({})
  BY <1>1 DEF Becomes, Takes, Untold
<1>5. Flow({}, No, {})
  BY <1>4, FlowShapes
<1> QED
  BY <1>1, <1>2, <1>3, <1>4, <1>5, SoughtRests

LEMMA resetFormRests == ASSUME BothInv, RestInv, NEW c \in calls, resetForm(c) PROVE RestInv'
<1>1. /\ Quiet /\ UNCHANGED <<local, cookie, setBy, shown>> /\ LateGrows /\ calls' = calls \ {c}
      /\ c.op = "reset" /\ c.at = "ans" /\ c.t # No
  BY DEF resetForm, AnswerOf, Done, session, LateGrows
<1>2. c.t \in Tabs /\ c.op \notin PageFactorOps /\ c.op \notin LoadOps /\ c.op # "whoami"
  BY <1>1, AnswerHas DEF PageFactorOps, LoadOps
<1>3. CASE UNCHANGED page
  BY <1>1, <1>2, <1>3, SameUsual, DoneRests
<1>4. CASE page' = [page EXCEPT ![c.t].email = No, ![c.t].timer = TRUE]
  <2>1. SameStatus(c.t) /\ page'[c.t].timer /\ \A x \in Tabs \ {c.t} : page'[x] = page[x]
    BY <1>2, <1>4, PagesHave DEF SameStatus, PageFields
  <2>2. Sought(c.t)'
    BY <1>1, <1>2, <2>1, TimerSeeks
  <2>3. Becomes(calls \ {c}, {}) /\ Takes({c}) /\ Untold({c})
    BY <1>1, <1>2 DEF Becomes, Takes, Untold
  <2>4. Flow({c}, No, {}) /\ page[c.t].at \notin ServerPages
    BY <1>2, <2>3, FlowShapes, NotServer
  <2> QED
    BY <1>1, <1>2, <2>1, <2>2, <2>3, <2>4, SoughtRests
<1> QED
  BY <1>3, <1>4 DEF resetForm

LEMMA questionFoundRests == ASSUME BothInv, RestInv, NEW c \in calls, questionFound(c) PROVE RestInv'
<1>1. /\ Quiet /\ UNCHANGED <<local, cookie, setBy, shown, late>> /\ LateGrows /\ calls' = calls \ {c}
      /\ c.op = "question" /\ c.at = "ans" /\ c.t # No
  BY DEF questionFound, AnswerOf, Done, session, LateGrows
<1>2. c.t \in Tabs /\ c.op \notin PageFactorOps /\ c.op \notin LoadOps /\ c.op # "whoami"
  BY <1>1, AnswerHas DEF PageFactorOps, LoadOps
<1>3. CASE UNCHANGED page
  BY <1>1, <1>2, <1>3, SameUsual, DoneRests
<1>4. CASE page' # page
  <2>1. /\ SameStatus(c.t) /\ (\A x \in Tabs \ {c.t} : page'[x] = page[x])
        /\ page'[c.t].email = page[c.t].email /\ page'[c.t].timer = page[c.t].timer /\ page'[c.t].question \in {page[c.t].question, c.u}
    BY <1>2, <1>4, PagesHave DEF questionFound, SameStatus, PageFields
  <2>2. c.pg = page[c.t].n
    BY <1>4 DEF questionFound, Mine
  <2>3. Sought(c.t)'
    <3> SUFFICES ASSUME ~late[c.t] PROVE Sought(c.t)'
      BY <1>1 DEF Sought
    <3>1. Sought(c.t) /\ Looks(c, c.t)
      BY <1>1, <1>2 DEF RestInv, Looks
    <3>2. \A d \in calls' : ~Looks(d, c.t)
      BY <1>1, <3>1 DEF Sought
    <3>3. page[c.t].at = "forgot" /\ ~page[c.t].timer => page[c.t].question \in {No, page[c.t].email} /\ c.u \in {No, page[c.t].email}
      BY <2>2, <3>1 DEF Sought
    <3>4. page'[c.t].at = "forgot" /\ ~page'[c.t].timer => page'[c.t].question \in {No, page'[c.t].email}
      BY <2>1, <3>3 DEF SameStatus
    <3> QED
      BY <3>2, <3>4 DEF Sought, Looks
  <2>4. Becomes(calls \ {c}, {}) /\ Takes({c}) /\ Untold({c})
    BY <1>1, <1>2 DEF Becomes, Takes, Untold
  <2>5. Flow({c}, No, {}) /\ page[c.t].at \notin ServerPages
    BY <1>2, <2>4, FlowShapes, NotServer
  <2> QED
    BY <1>1, <1>2, <2>1, <2>3, <2>4, <2>5, SoughtRests
<1> QED
  BY <1>3, <1>4

LEMMA findSecurityQuestionRests == ASSUME BothInv, RestInv, NEW t \in Tabs, findSecurityQuestion(t) PROVE RestInv'
<1>1. Quiet /\ UNCHANGED <<local, cookie, setBy, shown>> /\ page[t].timer
  BY DEF findSecurityQuestion, session
<1>2. LateGrows /\ (late'[t] <=> late[t] \/ \E c \in calls : Looks(c, t))
  BY DEF findSecurityQuestion, LateGrows, Looks, BothInv, AccountsInv, BrowserInv, LateOK
<1>3. page[t].at \notin ServerPages
  BY <1>1 DEF RestInv, Placed
<1>4. /\ SameStatus(t) /\ (\A x \in Tabs \ {t} : page'[x] = page[x])
      /\ page'[t].email = page[t].email /\ page'[t].question = No
  BY PagesHave DEF findSecurityQuestion, SameStatus, PageFields
<1>5. PICK r : r = intercept(1, t, "question", page[t].email, 0, 0)
  OBVIOUS
<1>6. r.no > sent /\ r.at = "req" /\ r.t = t /\ r.op = "question" /\ r.u = page[t].email
  BY <1>5, RequestHas DEF intercept
<1>7. PICK S : Becomes(calls, S) /\ S \in {{}, {r}}
  BY <1>5 DEF findSecurityQuestion, Send, Post, Becomes
<1>8. Flow({}, No, S) /\ Takes({}) /\ Untold({})
  BY <1>6, <1>7, FlowShapes DEF Takes, Untold
<1>9. Sought(t)'
  <2> SUFFICES ASSUME ~late'[t] PROVE Sought(t)'
    BY DEF Sought
  <2>1. \A d \in calls' : Looks(d, t) => d = r
    BY <1>2, <1>7 DEF Becomes
  <2> QED
    BY <1>4, <1>6, <2>1 DEF Sought, Looks
<1> QED
  BY <1>1, <1>2, <1>3, <1>4, <1>6, <1>7, <1>8, <1>9, SoughtRests

(* The page of the second factor.                                          *)
LEMMA FactorRests ==
    ASSUME BothInv, RestInv, Quiet, LateGrows, UNCHANGED <<local, cookie, setBy, shown>>, NEW gone, NEW S, Flow(gone, No, S),
           NEW t \in Tabs, SameQuestion(t), page[t].at \notin ServerPages, \A x \in Tabs \ {t} : page'[x] = page[x],
           Untold(gone), \A d \in S : d.op \in PageFactorOps /\ d.t = t, \A x \in Tabs : Fitted(x)'
    PROVE  RestInv'
<1>1. \A d \in S : d.op # "whoami" /\ d.op \notin LoadOps /\ d.op # "question"
  BY DEF LoadOps, PageFactorOps
<1>2. \A x \in Tabs : SameQuestion(x)
  BY DEF SameQuestion
<1>3. \A x \in Tabs : page'[x].at \in ServerPages <=> page[x].at \in ServerPages
  BY <1>2 DEF SameQuestion
<1>4. \A x \in Tabs : page'[x].timer \/ page'[x].email # No => page'[x].at \notin ServerPages
  BY <1>2, <1>3 DEF RestInv, Placed, SameQuestion
<1>5. ASSUME NEW x \in Tabs PROVE Sought(x)'
  BY <1>1, <1>2, SoughtFlow DEF Looks
<1>6. \A x \in Tabs : Sought(x)' /\ Fitted(x)'
  BY <1>5
<1> QED
  BY <1>1, <1>3, <1>4, <1>6, PartRests

LEMMA submitFactorRests == ASSUME BothInv, RestInv, NEW t \in Tabs, submitSetup(t) \/ submitDisable(t) PROVE RestInv'
<1>1. Quiet /\ UNCHANGED <<local, cookie, setBy, shown, page>> /\ Outdated(t) /\ page[t].at = "2fa"
  BY DEF submitSetup, submitDisable, session
<1>2. page[t].at \notin ServerPages /\ SameQuestion(t) /\ LateGrows /\ LocalMoves /\ Untold({})
  BY <1>1 DEF ServerPages, SameQuestion, Outdated, LateGrows, LocalMoves, Untold
<1>3. PICK op, pw, v :
        /\ op \in FactorOps /\ Send(t, op, No, pw, v)
        /\ op = "setup" => page[t].status # "on"
        /\ op = "disable" => page[t].status = "on"
  BY DEF submitSetup, submitDisable, FactorOps
<1>4. PICK r : r = intercept(1, t, op, No, pw, v)
  OBVIOUS
<1>5. r.no > sent /\ r.at = "req" /\ r.t = t /\ r.op = op /\ r.pg = page[t].n /\ r.auth = local
  BY <1>4, RequestHas DEF intercept
<1>6. Becomes(calls, {r}) /\ r.op \in PageFactorOps
  BY <1>3, <1>4, <1>5 DEF Send, Post, Becomes, FactorOps, PageFactorOps
<1>7. Flow({}, No, {r})
  BY <1>5, <1>6, FlowShapes
<1>8. ASSUME NEW x \in Tabs, x # t PROVE Fitted(x)'
  BY <1>1, <1>8 DEF Fitted, Fitting, Outdated
<1>9. Fitted(t)'
  <2> SUFFICES ASSUME Fitting(t)' PROVE Fitted(t)'
    BY DEF Fitted
  <2>1. Fitting(t) /\ local' = local /\ RowFactor' = RowFactor /\ Fitted(t)
    BY <1>1, <1>2, FitStays DEF RestInv
  <2>2. \A c \in calls : c.t = t => c.op \notin PageFactorOps
    BY <1>1 DEF Fitting, Outdated, PageFactorOps
  <2>3. \A c \in calls : c.op \notin FactorOps
    BY <2>1, <2>2 DEF Fitted, Changing, FactorOps, PageFactorOps
  <2>4. \A c \in calls : ~Checks(c, t)
    BY <2>2 DEF Checks, PageFactorOps
  <2>5. FactorShown(t)
    BY <2>1, <2>3, <2>4 DEF Fitted
  <2>6. page[t].status = (IF r.op = "setup" THEN "off" ELSE "on") /\ (r.op = "setup" => page[t].secret # 0)
    BY <1>3, <1>5, <2>5 DEF FactorShown, FactorOps
  <2>7. FactorShown(t)'
    BY <1>1, <2>1, <2>5 DEF FactorShown
  <2>8. Before(r) /\ r.at # "found" /\ r.op # "status" /\ r.op \in FactorOps
    BY <1>3, <1>5 DEF Before, FactorOps
  <2>9. Changing(r, t)'
    <3>1. \A d \in calls' : d.t = t /\ d.op \in PageFactorOps => d = r
      BY <1>6, <2>2 DEF Becomes
    <3> QED
      BY <1>1, <1>5, <2>6, <2>7, <2>8, <3>1 DEF Changing, Before
  <2>10. \A d \in calls' : (d.op \in FactorOps => d = r) /\ ~Checks(d, t)'
    BY <1>1, <1>6, <2>3, <2>4, <2>8 DEF Becomes, Checks
  <2>11. r \in calls'
    BY <1>6 DEF Becomes
  <2> QED
    BY <2>8, <2>9, <2>10, <2>11 DEF Fitted
<1>10. \A x \in Tabs : Fitted(x)'
  BY <1>8, <1>9
<1> QED
  BY <1>1, <1>2, <1>5, <1>6, <1>7, <1>10, FactorRests

(* The only call about the second factor is answered.                      *)
LEMMA FactorAnswered ==
    ASSUME BothInv, RestInv, Quiet, LateGrows, LocalMoves, NEW c \in calls, c.op \in FactorOps, c.at = "ans",
           NEW x \in Tabs, page'[x].at = page[x].at, page'[x].tk = page[x].tk, Fitting(x)'
    PROVE  FactorAnswer(c, x)
<1>1. Fitting(x) /\ local' = local /\ RowFactor' = RowFactor /\ Fitted(x)
  BY FitStays DEF RestInv
<1>2. \A d \in calls : d.op \in FactorOps => Changing(d, x) /\ d.t = x
  BY <1>1 DEF Fitted, Changing
<1>3. Changing(c, x)
  BY <1>2
<1>4. \A d \in calls : d.op \in FactorOps \/ (d.t = x /\ d.op \in PageFactorOps) => d = c
  BY <1>2, <1>3 DEF Changing, FactorOps, PageFactorOps
<1>5. Before(c) <=> c.res # "ok"
  BY DEF Before
<1> QED
  BY <1>1, <1>3, <1>4, <1>5 DEF Changing, FactorAnswer

LEMMA setupDoneRests == ASSUME BothInv, RestInv, NEW c \in calls, setupDone(c) PROVE RestInv'
<1>1. /\ Quiet /\ UNCHANGED <<local, cookie, setBy, shown>> /\ LateGrows /\ LocalMoves /\ calls' = calls \ {c}
      /\ c.op = "setup" /\ c.at = "ans" /\ c.t # No
  BY DEF setupDone, AnswerOf, Done, session, LateGrows, LocalMoves
<1>2. c.t \in Tabs /\ c.op \in FactorOps /\ c.op \notin LoadOps /\ c.op # "whoami" /\ c.op # "disable"
  BY <1>1, AnswerHas DEF FactorOps, LoadOps
<1>3. page[c.t].at \notin ServerPages /\ Becomes(calls \ {c}, {}) /\ Untold({c})
  BY <1>1, <1>2, NotServer DEF Becomes, Untold
<1>4. /\ SameQuestion(c.t) /\ page'[c.t].tk = page[c.t].tk /\ \A x \in Tabs \ {c.t} : page'[x] = page[x]
      /\ Mine(c) /\ c.res = "ok" => page'[c.t].status = "on"
      /\ c.res # "ok" => page' = page
  BY <1>2, PagesHave DEF setupDone, SameQuestion, PageFields
<1>5. ASSUME NEW x \in Tabs PROVE Fitted(x)'
  <2> SUFFICES ASSUME Fitting(x)' PROVE Fitted(x)'
    BY DEF Fitted
  <2>1. page'[x].at = page[x].at /\ page'[x].tk = page[x].tk
    BY <1>4 DEF SameQuestion
  <2>2. FactorAnswer(c, x)
    BY <1>1, <1>2, <2>1, FactorAnswered
  <2>3. \A d \in calls' : d.op \notin FactorOps /\ ~Checks(d, x)'
    BY <1>1, <2>2 DEF FactorAnswer, Checks, PageFactorOps
  <2>4. FactorShown(x)'
    <3>1. CASE c.res = "ok"
      BY <1>2, <1>4, <2>2, <3>1 DEF FactorAnswer, FactorShown, Mine
    <3>2. CASE c.res # "ok"
      BY <1>4, <2>2, <3>2 DEF FactorAnswer, FactorShown
    <3> QED
      BY <3>1, <3>2
  <2> QED
    BY <2>3, <2>4 DEF Fitted
<1>6. Flow({c}, No, {})
  BY <1>3, FlowShapes
<1> QED
  BY <1>1, <1>2, <1>3, <1>4, <1>5, <1>6, FactorRests

LEMMA disableDoneRests == ASSUME BothInv, RestInv, NEW c \in calls, disableDone(c) PROVE RestInv'
<1>1. /\ Quiet /\ UNCHANGED <<local, cookie, setBy, shown, page>> /\ LateGrows /\ LocalMoves
      /\ c.op = "disable" /\ c.at = "ans" /\ c.t # No
  BY DEF disableDone, AnswerOf, cvars, session, LateGrows, LocalMoves
<1>2. c.t \in Tabs /\ c.op \in FactorOps /\ c.op \notin LoadOps /\ c.op # "whoami"
  BY <1>1, AnswerHas DEF FactorOps, LoadOps
<1>3. page[c.t].at \notin ServerPages /\ Untold({c}) /\ SameQuestion(c.t)
  BY <1>1, <1>2, NotServer DEF Untold, SameQuestion
<1>4. PICK q, r : q = updateStatus(c, 0) /\ r = updateStatus(c, 1)
  OBVIOUS
<1>5. /\ q.no > sent /\ q.at = "req" /\ q.t = c.t /\ q.op = "status" /\ q.pg = c.pg /\ q.auth = local /\ q.pw = 0
      /\ r.no > sent /\ r.at = "req" /\ r.t = c.t /\ r.op = "status" /\ r.pg = c.pg /\ r.auth = local /\ r.pw = 1
  <2>1. sent + 1 + 0 = sent + 1 /\ sent + 1 + 1 = sent + 2
    BY ServerHas DEF BothInv
  <2>2. /\ q = Request(sent + 1, c.t, c.pg, "status", local, cookie, No, 0, 0)
        /\ r = Request(sent + 2, c.t, c.pg, "status", local, cookie, No, 1, 0)
    BY <1>4, <2>1 DEF updateStatus
  <2> QED
    BY <2>2, RequestHas
<1>6. PICK S : Becomes(calls \ {c}, S) /\ S = IF c.res = "ok" THEN {q, r} ELSE {}
  BY <1>4 DEF disableDone, Then, Done, Becomes
<1>7. Flow({c}, No, S) /\ \A d \in S : d.op \in PageFactorOps /\ d.t = c.t
  BY <1>5, <1>6, FlowShapes DEF PageFactorOps
<1>8. ASSUME NEW x \in Tabs PROVE Fitted(x)'
  <2> SUFFICES ASSUME Fitting(x)' PROVE Fitted(x)'
    BY DEF Fitted
  <2>1. FactorAnswer(c, x)
    BY <1>1, <1>2, FactorAnswered
  <2>2. \A d \in calls' : d \in S \/ (d.op \notin FactorOps /\ ~Checks(d, x)')
    BY <1>6, <2>1 DEF FactorAnswer, Becomes, Checks, PageFactorOps
  <2>3. \A d \in S : d.op \notin FactorOps
    BY <1>5, <1>6 DEF FactorOps
  <2>4. CASE c.res = "ok"
    <3>1. RowFactor' = 0
      BY <1>1, <2>1, <2>4 DEF FactorAnswer
    <3>2. Checking(q, x)' /\ Checking(r, x)'
      BY <1>1, <1>5, <3>1 DEF Checking
    <3>3. Checks(q, x)' /\ q \in calls' /\ q.pw = 0
      BY <1>1, <1>5, <1>6, <2>1, <2>4 DEF FactorAnswer, Checks, Becomes
    <3> QED
      BY <1>6, <2>2, <2>3, <2>4, <3>2, <3>3 DEF Fitted
  <2>5. CASE c.res # "ok"
    <3>1. FactorShown(x)'
      BY <1>1, <2>1, <2>5 DEF FactorAnswer, FactorShown
    <3> QED
      BY <1>6, <2>2, <2>5, <3>1 DEF Fitted
  <2> QED
    BY <2>4, <2>5
<1> QED
  BY <1>1, <1>2, <1>3, <1>7, <1>8, FactorRests

LEMMA statusKnownRests == ASSUME BothInv, RestInv, NEW c \in calls, statusKnown(c) PROVE RestInv'
<1>1. /\ Quiet /\ UNCHANGED <<local, cookie, setBy, shown>> /\ LocalMoves /\ calls' = calls \ {c}
      /\ c.op = "status" /\ c.at = "ans" /\ c.t # No
  BY DEF statusKnown, AnswerOf, Done, session, LocalMoves
<1>2. c.t \in Tabs /\ c.op \notin FactorOps /\ c.op \notin LoadOps /\ c.op # "whoami" /\ c.op \in PageFactorOps
  BY <1>1, AnswerHas DEF FactorOps, LoadOps, PageFactorOps
<1>3. LateGrows
  BY <1>2 DEF statusKnown, LateGrows, BothInv, AccountsInv, BrowserInv, LateOK
<1>4. page[c.t].at \notin ServerPages /\ Becomes(calls \ {c}, {}) /\ Untold({c})
  BY <1>1, <1>2, NotServer DEF Becomes, Untold
<1>5. Flow({c}, No, {})
  BY <1>4, FlowShapes
<1>6. SameQuestion(c.t) /\ page'[c.t].tk = page[c.t].tk /\ (\A x \in Tabs \ {c.t} : page'[x] = page[x]) /\ (~Mine(c) => page' = page)
  BY <1>2, PagesHave DEF statusKnown, SameQuestion, PageFields
<1>7. ASSUME NEW x \in Tabs, x # c.t \/ ~Mine(c) PROVE Fitted(x)'
  <2>1. SameStatus(x) /\ x # No
    BY <1>6, <1>7, AccountsAssumption DEF SameStatus
  <2>2. c.t = x => c.op = "status" /\ c.pg # page[x].n
    BY <1>1, <1>7 DEF Mine
  <2> QED
    BY <1>1, <1>3, <1>5, <2>1, <2>2, FittedFlow
<1>8. ASSUME Mine(c) PROVE Fitted(c.t)'
  <2> SUFFICES ASSUME Fitting(c.t)' PROVE Fitted(c.t)'
    BY DEF Fitted
  <2>1. Fitting(c.t) /\ local' = local /\ RowFactor' = RowFactor /\ Fitted(c.t)
    BY <1>1, <1>2, <1>3, <1>6, FitStays DEF SameQuestion, RestInv
  <2>2. Checks(c, c.t) /\ Checking(c, c.t) /\ page'[c.t].n = page[c.t].n
    BY <1>1, <1>6, <1>8, <2>1 DEF Checks, Mine, Fitted, SameQuestion
  <2>3. \A d \in calls : d.op \notin FactorOps
    BY <1>2, <2>1 DEF Fitted, Changing
  <2>4. ASSUME NEW d \in calls', Checks(d, c.t)' PROVE Checking(d, c.t)'
    <3>1. d \in calls /\ Checks(d, c.t)
      BY <1>1, <2>2, <2>4 DEF Checks
    <3>2. Checking(d, c.t)
      BY <2>1, <3>1 DEF Fitted
    <3> QED
      BY <2>1, <3>2 DEF Checking
  <2>5. ASSUME \A d \in calls' : Checks(d, c.t)' => d.pw # 0 PROVE FactorShown(c.t)'
    <3>1. c.res = (IF RowFactor = 0 THEN "off" ELSE "on") /\ (c.res = "off" => c.v # 0) /\ (c.pw # 0 => RowFactor = 0)
      BY <1>1, <2>2 DEF Checking
    <3>2. CASE c.pw = 1
      <4>1. \A d \in calls : Checks(d, c.t) => d.pw # 0
        BY <1>1, <2>2, <2>5, <3>2 DEF Checks
      <4>2. FactorShown(c.t)
        BY <2>1, <2>3, <4>1 DEF Fitted
      <4>3. RowFactor = 0 /\ page[c.t].secret # 0
        BY <3>1, <3>2, <4>2 DEF FactorShown
      <4>4. page'[c.t].status = "off" /\ page'[c.t].secret = page[c.t].secret
        BY <1>2, <1>8, <3>1, <3>2, PagesHave DEF statusKnown, PageFields
      <4> QED
        BY <2>1, <4>3, <4>4 DEF FactorShown
    <3>3. CASE c.pw # 1
      <4>1. page'[c.t].status = c.res /\ (c.res = "off" => page'[c.t].secret = c.v)
        BY <1>2, <1>8, <3>1, <3>3, PagesHave DEF statusKnown, PageFields
      <4> QED
        BY <2>1, <3>1, <4>1 DEF FactorShown
    <3> QED
      BY <3>2, <3>3
  <2> QED
    BY <1>1, <2>3, <2>4, <2>5 DEF Fitted
<1>9. \A x \in Tabs : Fitted(x)'
  BY <1>7, <1>8
<1> QED
  BY <1>1, <1>2, <1>3, <1>4, <1>5, <1>6, <1>9, FactorRests

-----------------------------------------------------------------------------
(* Every step keeps what the pages at rest depend on.                      *)

LEMMA ReceiveRests == ASSUME BothInv, RestInv, NEW c \in calls, Receive(c) PROVE RestInv'
<1>1. CASE loginNext(c) \/ verifyNext(c) \/ loginTotp(c) \/ loginError(c) \/ invalidateSession(c) \/ answerSaved(c)
  BY <1>1, logInRests, loginOtherRests
<1>2. CASE verifyError(c) \/ ipSaved(c) \/ passwordChanged(c) \/ Ignored(c) \/ oauthSaved(c) \/ saved(c)
  BY <1>2, takenRests, answeredRests
<1>3. CASE userDetails(c) \/ usernameSaved(c) \/ erased(c)
  BY <1>3, userDetailsRests, formSavedRests
<1>4. CASE questionFound(c) \/ resetForm(c) \/ setupDone(c) \/ disableDone(c) \/ statusKnown(c)
  BY <1>4, questionFoundRests, resetFormRests, setupDoneRests, disableDoneRests, statusKnownRests
<1>5. CASE exported(c) \/ captchaShown(c) \/ pageLoaded(c)
  BY <1>5, exportedRests, fieldRests
<1> QED
  BY <1>1, <1>2, <1>3, <1>4, <1>5 DEF Receive

LEMMA VisitRests == ASSUME BothInv, RestInv, NEW t \in Tabs, Visit(t) PROVE RestInv'
<1>1. CASE submitLogin(t) \/ submitCode(t) \/ save(t) \/ submitReset(t) \/ submitPassword(t) \/ saveExport(t)
  BY <1>1, submitRests
<1>2. CASE open(t) \/ logout(t) \/ oauthLogin(t) \/ emailTyped(t)
  BY <1>2, openRests, logoutRests, oauthLoginRests, emailTypedRests
<1>3. CASE submitSetup(t) \/ submitDisable(t) \/ goToProfilePage(t) \/ submit(t) \/ ngOnInit(t)
  BY <1>3, submitFactorRests, goToProfilePageRests, submitFormRests, ngOnInitRests
<1> QED
  BY <1>1, <1>2, <1>3 DEF Visit

LEMMA HearRests == ASSUME BothInv, RestInv, NEW c \in calls, Hear(c) PROVE RestInv'
  BY takenRests, answeredRests, handleResponseRests, authorKnownRests, fieldRests DEF Hear

LEMMA ChatRests == ASSUME BothInv, RestInv, NEW t \in Tabs, Chat(t) PROVE RestInv'
  BY openFormRests, submitRests DEF Chat

LEMMA RestStep == ASSUME AccountsInv, AccountsInv', FormInv, RestInv, [Next]_allvars PROVE RestInv'
<1>0. BothInv /\ todo.tabs \subseteq Tabs
  BY BrowserHas DEF BothInv, TodoOK
<1>1. CASE PagesNext /\ UNCHANGED contact
  <2>1. CASE Work
    <3>1. UNCHANGED cvars /\ Serve
      BY <2>1 DEF Work
    <3>2. CASE (\E c \in calls : Handle(c)) /\ UNCHANGED <<todo, hist>>
      <4>1. Around
        BY <1>1, <3>1, <3>2 DEF Around
      <4> QED
        BY <1>0, <3>2, <4>1, HandleRests
    <3>3. CASE \E c \in calls : queryFails(c)
      <4>1. UNCHANGED <<cvars, contact>>
        BY <1>1, <3>1
      <4> QED
        BY <1>0, <3>3, <4>1, queryFailsRests
    <3> QED
      BY <3>1, <3>2, <3>3 DEF Serve
  <2>2. CASE React
    BY <1>0, <2>2, ReceiveRests, findSecurityQuestionRests DEF React
  <2>3. CASE \E t \in todo.tabs : Visit(t)
    BY <1>0, <2>3, VisitRests
  <2>4. CASE exportForgotten \/ captchasForgotten
    BY <1>0, <1>1, <2>4, exportForgottenRests, idleRests
  <2> QED
    BY <1>1, <2>1, <2>2, <2>3, <2>4 DEF PagesNext
<1>2. CASE Talk \/ initializeChatbot \/ Crash
  BY <1>0, <1>2, TalkRests, idleRests, CrashRests
<1>3. CASE \E c \in calls : Hear(c)
  BY <1>0, <1>3, HearRests
<1>4. CASE \E t \in todo.tabs : Chat(t)
  BY <1>0, <1>4, ChatRests
<1>5. CASE UNCHANGED allvars
  BY <1>0, <1>5, idleRests
<1> QED
  BY <1>1, <1>2, <1>3, <1>4, <1>5 DEF Next

LEMMA InitRest == Init => RestInv
<1> SUFFICES ASSUME Init PROVE RestInv
  OBVIOUS
<1>1. calls = {} /\ page = [t \in Tabs |-> StartPage("search")] /\ cookie = local
  BY DEF Init, PagesInit
<1>2. \A t \in Tabs : page[t].at = "search" /\ ~page[t].timer /\ page[t].email = No
  BY <1>1 DEF StartPage, NewPage
<1>3. Placed /\ TellsUser
  BY <1>1, <1>2 DEF Placed, TellsUser, ServerPages
<1>4. \A t \in Tabs : Sought(t) /\ Fitted(t)
  BY <1>1, <1>2 DEF Sought, Fitted, Fitting
<1>5. ASSUME NEW t \in Tabs, setBy = t, local # 0 PROVE shown[t] = Who(cookie)
  <2>1. PICK s \in Scenarios :
          /\ local = IF s.user = No THEN 0 ELSE 1
          /\ minted = IF s.user = No THEN <<>> ELSE <<Token(s.user, NewUser(1))>>
          /\ \E x \in todo.tabs : shown = [y \in Tabs |-> IF y = x THEN s.user ELSE No] /\ setBy = x
    BY DEF Init, PagesInit
  <2>2. shown[t] = s.user /\ local = 1 /\ minted = <<Token(s.user, NewUser(1))>>
    BY <1>5, <2>1
  <2>3. minted[1] = Token(s.user, NewUser(1))
    BY <2>2
  <2>4. minted[1].user = s.user
    BY <2>3 DEF Token
  <2> QED
    BY <1>1, <2>2, <2>4 DEF Who
<1>6. \A t \in Tabs : Told(t)
  BY <1>1, <1>5 DEF Told, Leads
<1> QED
  BY <1>3, <1>4, <1>6 DEF RestInv

(* What the pages at rest depend on holds in every state that can be       *)
(* reached, with what is known of the accounts and of the forms.           *)
THEOREM RestInvariant == Spec => [](AccountsInv /\ FormInv /\ RestInv)
<1>1. Init => AccountsInv /\ FormInv /\ RestInv
  BY InitAccounts, InitForms, InitRest
<1>2. AccountsInv /\ FormInv /\ RestInv /\ [Next]_allvars => (AccountsInv /\ FormInv /\ RestInv)'
  BY AccountsStep, FormStep, RestStep
<1> QED
  BY <1>1, <1>2, PTL DEF Spec

(* Once its calls are answered a page shows what is there, for any number  *)
(* of users, tabs and calls under way: the navigation bar of the tab that  *)
(* logged in or out last names the user of the cookie                      *)
(* (navbar.component.ts: getUserDetails), the page of the second factor    *)
(* agrees with the row (two-factor-auth.component.ts: setup, disable,      *)
(* updateStatus), and the security question is that of the address         *)
(* (forgot-password.component.ts: findSecurityQuestion), save in the races *)
(* the parts of the property name.                                         *)
THEOREM PagesAtRestTheorem == Spec => []PagesAtRest
  BY RestInvariant, RestFits, PTL
=============================================================================
