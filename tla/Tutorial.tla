------------------------------ MODULE Tutorial ------------------------------
(***************************************************************************)
(* The hacking instructor of the Juice Shop client                          *)
(* (frontend/src/hacking-instructor): scripts of hints that are shown one   *)
(* after the other next to an element of the page, each until a condition   *)
(* holds.  An instructor is an async loop; nothing keeps the user from      *)
(* leaving the page a hint is about, or from starting a second loop.        *)
(*                                                                         *)
(* Texts and values are left out: a hint is the place of its fixture,       *)
(* whether it can be skipped, and what it waits for.                        *)
(***************************************************************************)
EXTENDS Naturals, Sequences

CONSTANTS
    Instructors,    \* the loops that may be started in one tab
    Starts,         \* bound: the script each loop of a behaviour is started with, or "none"
    MaxDetours      \* bound: things the user does that no hint asked for

ASSUME TutorialAssumption == MaxDetours \in Nat

-----------------------------------------------------------------------------
(* Hints.  A fixture is on a page, in the frame every page has, or in no    *)
(* template at all.                                                         *)

Must(at, until) == [at |-> at, must |-> TRUE, until |-> until]
May(at, until) == [at |-> at, must |-> FALSE, until |-> until]

Time == [k |-> "time", p |-> "frame"]           \* waitInMs
Route(r) == [k |-> "route", p |-> r]            \* waitForAngularRouteToBeVisited
Uri(r) == [k |-> "uri", p |-> r]                \* waitForRightUriQueryParamPair
Token(s) == [k |-> "token", p |-> s]            \* waitForLogIn, LogOut, AdminLogIn
Type(p) == [k |-> "type", p |-> p]              \* waitForInputTo(Not)Have..., on page p
Click(p) == [k |-> "click", p |-> p]            \* waitForElementToGetClicked, on page p
Login(s) == [k |-> "login", p |-> s]            \* the same on #loginButton, with right or wrong input
Search(s) == [k |-> "search", p |-> s]          \* waitForElementsInnerHtmlToBe #searchValue
Resize == [k |-> "resize", p |-> "frame"]       \* waitForDevTools
Change(p) == [k |-> "change", p |-> p]          \* a value differs from the one at the start

ScoreBoardInstruction ==
    <<Must("frame", Time), May("frame", Time), May("frame", Time), May("frame", Resize),
      Must("frame", Route("score-board")), May("score-board", Time)>>

(* Variant: the hint that asks for the login page is left out.              *)
LoginAdminWithoutRoute ==
    <<Must("frame", Token("none")),
      May("login", Time), May("login", Time), Must("login", Type("login")), Must("login", Type("login")),
      Must("login", Login("wrong")), May("login", Time), May("login", Time), May("login", Time),
      Must("login", Type("login")), Must("login", Login("wrong")), May("login", Time), May("login", Time),
      May("login", Time), Must("login", Type("login")), Must("login", Login("right")),
      Must("frame", Click("frame")), May("frame", Time)>>

LoginAdminInstruction ==
    <<Must("frame", Token("none")), Must("frame", Route("login")),
      May("login", Time), May("login", Time), Must("login", Type("login")), Must("login", Type("login")),
      Must("login", Login("wrong")), May("login", Time), May("login", Time), May("login", Time),
      Must("login", Type("login")), Must("login", Login("wrong")), May("login", Time), May("login", Time),
      May("login", Time), Must("login", Type("login")), Must("login", Login("right")),
      Must("frame", Click("frame")), May("frame", Time)>>

LoginJimInstruction ==
    <<Must("frame", Token("none")), Must("frame", Route("login")), May("frame", Time), May("frame", Time),
      May("frame", Time), May("frame", Route("search")), Must("frame", Route("login")),
      Must("login", Type("login")), Must("login", Type("login")), Must("login", Login("wrong")),
      May("login", Time), Must("login", Type("login")), Must("login", Login("right")), May("frame", Time)>>

(* Variant: the hint that leads back from the about page is left out.       *)
LoginBenderWithoutReturn ==
    <<May("frame", Time), Must("frame", Token("none")), Must("frame", Route("login")), May("frame", Time),
      May("frame", Time), May("frame", Time), May("frame", Route("about")),
      Must("login", Type("login")), Must("login", Type("login")), Must("login", Login("wrong")),
      May("login", Time), Must("login", Type("login")), Must("login", Login("right")), May("frame", Time)>>

(* The first hint is skipped once Login Admin is solved.                    *)
LoginBenderInstruction ==
    <<May("frame", Time), Must("frame", Token("none")), Must("frame", Route("login")), May("frame", Time),
      May("frame", Time), May("frame", Time), May("frame", Route("about")), Must("about", Route("login")),
      Must("login", Type("login")), Must("login", Type("login")), Must("login", Login("wrong")),
      May("login", Time), Must("login", Type("login")), Must("login", Login("right")), May("frame", Time)>>

DomXssInstruction ==
    <<Must("frame", Time), Must("frame", Type("frame")), Must("frame", Search("hits")), May("frame", Time),
      May("search", Time), May("search", Time), Must("frame", Type("frame")), Must("frame", Search("none")),
      May("noResult", Time), May("noResult", Time), Must("frame", Type("frame")), Must("frame", Search("none")),
      May("noResult", Time), Must("frame", Type("frame")), Must("frame", Search("none")),
      May("noResult", Time), May("noResult", Time)>>

BonusPayloadInstruction ==
    <<Must("frame", Time), Must("frame", Type("frame")), Must("frame", Search("none")), May("noResult", Time)>>

PrivacyPolicyInstruction ==
    <<Must("frame", Token("user")), May("frame", Click("frame")), Must("frame", Route("privacy-policy")),
      May("frame", Time)>>

ViewBasketInstruction ==
    <<May("frame", Time), Must("frame", Token("user")), Must("frame", Route("basket")), May("frame", Time),
      May("frame", Time), May("frame", Resize), Must("frame", Change("frame")), May("frame", Time),
      Must("frame", Change("frame")), May("basket", Time)>>

ForgedFeedbackInstruction ==
    <<Must("frame", Route("contact")), May("frame", Time), May("frame", Time), May("frame", Time),
      May("frame", Resize), May("frame", Time), Must("frame", Change("contact")), Must("frame", Click("contact")),
      May("frame", Time)>>

PasswordStrengthInstruction ==
    <<Must("frame", Token("none")), May("frame", Time), Must("frame", Route("login")),
      Must("login", Type("login")), Must("login", Type("login")), Must("login", Type("login")),
      Must("login", Type("login")), Must("login", Type("login")), Must("login", Type("login")),
      Must("login", Login("right")), May("frame", Time)>>

(* Only the first fixture is in a template.                                 *)
CodingChallengesInstruction ==
    <<Must("frame", Route("score-board")), May("nowhere", Time), Must("nowhere", Click("nowhere")),
      May("nowhere", Time), May("nowhere", Time), May("nowhere", Time), Must("nowhere", Click("nowhere")),
      Must("nowhere", Click("nowhere")), May("nowhere", Time), Must("nowhere", Click("nowhere")),
      Must("nowhere", Click("nowhere"))>>

AdminSectionInstruction ==
    <<May("frame", Token("admin")), Must("frame", Click("frame")), Must("frame", Time), Must("frame", Time),
      Must("frame", Time), Must("frame", Time), Must("frame", Time), Must("frame", Time),
      Must("frame", Route("admin")), Must("frame", Route("administration")), May("frame", Time),
      May("frame", Time), May("frame", Time), May("frame", Time)>>

ReflectedXssInstruction ==
    <<Must("frame", Token("user")), Must("frame", Route("address-saved")), Must("frame", Route("address-create")),
      Must("frame", Route("address-saved")), Must("frame", Route("address-create")),
      Must("frame", Route("address-saved")), Must("frame", Route("order-completion")),
      Must("frame", Route("track-result")), May("frame", Uri("track-result-new")), May("frame", Time)>>

ExposedCredentialsInstruction ==
    <<Must("frame", Token("none")), Must("frame", Resize), May("frame", Time), May("frame", Time),
      May("frame", Route("login")), Must("login", Type("login")), Must("login", Type("login")),
      Must("login", Login("right")), May("frame", Time)>>

TutorialUnavailableInstruction == <<May("frame", Time), May("frame", Time), May("frame", Time)>>

challengeInstructions ==
    [scoreBoard |-> ScoreBoardInstruction, loginAdmin |-> LoginAdminInstruction,
     loginJim |-> LoginJimInstruction, domXss |-> DomXssInstruction,
     privacyPolicy |-> PrivacyPolicyInstruction, viewBasket |-> ViewBasketInstruction,
     forgedFeedback |-> ForgedFeedbackInstruction, passwordStrength |-> PasswordStrengthInstruction,
     bonusPayload |-> BonusPayloadInstruction, loginBender |-> LoginBenderInstruction,
     codingChallenges |-> CodingChallengesInstruction, adminSection |-> AdminSectionInstruction,
     reflectedXss |-> ReflectedXssInstruction, exposedCredentials |-> ExposedCredentialsInstruction,
     unavailable |-> TutorialUnavailableInstruction]

Scripts == DOMAIN challengeInstructions


-----------------------------------------------------------------------------
VARIABLES
    nav,        \* the hash in the address bar, the route that is shown, whether a guard denied one
    token,      \* localStorage: nobody, a customer or the admin is logged in
    found,      \* what the search page shows: all products, some hits, or that there are none
    resized,    \* the window has not the size it had when the scripts were imported
    banner,     \* the welcome banner
    loop,       \* instructor -> its script, the hint it is at, and what the loop waits for
    boxes,      \* the hint boxes in the document
    detours,    \* things done that no hint asked for
    strayed,    \* history: a detour was made, a task was skipped or two loops have met
    missed      \* history: why hints were left out or a loop has died

vars == <<nav, token, found, resized, banner, loop, boxes, detours, strayed, missed>>

Pages == {"administration", "accounting", "about", "address-select", "address-saved", "address-create",
          "address-edit", "delivery-method", "deluxe-membership", "saved-payment-methods", "basket",
          "order-completion", "contact", "photo-wall", "complain", "chatbot", "order-summary",
          "order-history", "payment", "wallet", "login", "forgot-password", "recycle", "register",
          "search", "score-board", "track-result", "track-result-new", "2fa-enter", "privacy-policy",
          "change-password", "two-factor-authentication", "data-export", "last-login-ip", "juicy-nft",
          "wallet-web3", "web3-sandbox", "bee-haven"}

hints(i) == challengeInstructions[loop[i].script]
hint(i) == hints(i)[loop[i].k]
Waiting(i) == loop[i].st = "wait"
Box(i) == [i |-> i, k |-> loop[i].k, at |-> hint(i).at]

(* AdminGuard and LoginGuard; nobody here is an accountant.                *)
canActivate(r) ==
    CASE r = "administration" -> token = "admin"
      [] r = "accounting" -> FALSE
      [] r \in {"address-select", "address-saved", "address-create", "address-edit", "deluxe-membership"} ->
            token # "none"
      [] OTHER -> TRUE

(* A path that no route has shows the search page.                         *)
routes(r) == IF r \in Pages THEN r ELSE "search"
Page(n) == IF n.denied THEN "403" ELSE routes(n.shown)

Present(f, n, fd) ==
    \/ f = "frame"
    \/ f = Page(n)
    \/ f = "noResult" /\ Page(n) = "search" /\ fd = "none"

(* The conditions that keep the element they found when the hint was       *)
(* loaded.                                                                 *)
Captures(c) == c.k \in {"type", "click", "login", "change"}
Target(c) == IF c.k = "login" THEN "login" ELSE c.p

(* The document after the page has changed: what stood on the old page is  *)
(* gone, and a loop that watches an element of it watches it for ever.     *)
Shows(n, fd) ==
    /\ nav' = n
    /\ found' = fd
    /\ boxes' = {b \in boxes : Present(b.at, n, fd)}

Watching(lp, n, fd) ==
    [i \in Instructors |->
        IF /\ lp[i].st = "wait" /\ lp[i].met = "no"
           /\ Captures(hint(i).until) /\ ~Present(Target(hint(i).until), n, fd)
        THEN [lp[i] EXCEPT !.met = "lost"] ELSE lp[i]]

At(r) == [hash |-> r, shown |-> r, denied |-> FALSE]

(* forbidRoute shows the error page without a location of its own.         *)
forbidRoute == [hash |-> nav.shown, shown |-> nav.shown, denied |-> TRUE]

(* SearchResultComponent.filterTable: without a query all products.        *)
filterTable(r) == IF r = "search" THEN "all" ELSE found

Lands(r, lp) ==
    LET n == IF canActivate(r) THEN At(r) ELSE forbidRoute IN
    /\ Shows(n, filterTable(r))
    /\ loop' = Watching(lp, n, filterTable(r))

Met(i) == [loop EXCEPT ![i].met = "yes"]

-----------------------------------------------------------------------------
Init ==
    /\ nav = At("search")
    /\ token \in {"none", "user"}
    /\ found = "all"
    /\ resized = FALSE
    /\ \E s \in Starts :
         /\ banner = IF \E i \in Instructors : s[i] = "scoreBoard" THEN "unseen" ELSE "dismissed"
         /\ loop = [i \in Instructors |-> [script |-> s[i], k |-> 1, st |-> "off", met |-> "no",
                                         cancel |-> [i |-> i, k |-> 0, at |-> "frame"]]]
    /\ boxes = {}
    /\ detours = 0
    /\ strayed = FALSE
    /\ missed = {}

(* WelcomeComponent.ngOnInit: the banner opens unless the cookie is set.   *)
openWelcome ==
    /\ banner = "unseen"
    /\ banner' = "open"
    /\ UNCHANGED <<nav, token, found, resized, loop, boxes, detours, strayed, missed>>

(* closeWelcome sets the cookie.                                           *)
closeWelcome ==
    /\ banner = "open"
    /\ banner' = "dismissed"
    /\ UNCHANGED <<nav, token, found, resized, loop, boxes, detours, strayed, missed>>

Launch(i) ==
    /\ loop[i].st = "off" /\ loop[i].script \in Scripts
    /\ loop' = [loop EXCEPT ![i].st = "load"]
    /\ strayed' = (strayed \/ \E j \in Instructors : loop[j].st \in {"load", "wait"})

(* WelcomeBannerComponent.startHackingInstructor.                          *)
startFromBanner(i) ==
    /\ banner = "open" /\ loop[i].script = "scoreBoard"
    /\ banner' = "dismissed"
    /\ Launch(i)
    /\ UNCHANGED <<nav, token, found, resized, boxes, detours, missed>>

(* SidenavComponent.startHackingInstructor.                                *)
startFromSidenav(i) ==
    /\ loop[i].script = "scoreBoard"
    /\ Launch(i)
    /\ UNCHANGED <<nav, token, found, resized, banner, boxes, detours, missed>>

(* The route /hacking-instructor: the search page starts the script when   *)
(* it has its products.                                                    *)
startHackingInstructor(i) ==
    /\ Page(nav) = "search"
    /\ Launch(i)
    /\ UNCHANGED <<nav, token, found, resized, banner, boxes, detours, missed>>

-----------------------------------------------------------------------------
(* The loop of startHackingInstructorFor.                                  *)

(* Variant: the hint after a hint is left out.                             *)
AdvanceTwice(lp, i) == [lp EXCEPT ![i].k = @ + 2, ![i].st = "load", ![i].met = "no"]

(* The next hint of the for loop.                                          *)
Advance(lp, i) == [lp EXCEPT ![i].k = @ + 1, ![i].st = "load", ![i].met = "no"]

finish(i) ==
    /\ loop[i].st = "load" /\ loop[i].k > Len(hints(i))
    /\ loop' = [loop EXCEPT ![i].st = "end"]
    /\ UNCHANGED <<nav, token, found, resized, banner, boxes, detours, strayed, missed>>

(* The one hint with a skipIf: Login Admin may be solved, and a request    *)
(* that fails counts as not solved.                                        *)
isChallengeSolved(i) ==
    /\ loop[i].st = "load" /\ loop[i].script = "loginBender" /\ loop[i].k = 1
    /\ loop' = Advance(loop, i)
    /\ UNCHANGED <<nav, token, found, resized, banner, boxes, detours, strayed, missed>>

(* Why an element is not there.                                            *)
Absence(f) ==
    IF f = "nowhere" THEN "nowhere" ELSE IF nav.hash # nav.shown THEN "unrendered" ELSE "away"

(* Variant: an element that is not there is waited for.                    *)
couldNotFindElementYet(i) ==
    /\ loop[i].st = "load" /\ loop[i].k <= Len(hints(i))
    /\ ~Present(hint(i).at, nav, found)
    /\ UNCHANGED vars

(* loadHint returns null: the hint is left out.                            *)
couldNotFindElement(i) ==
    /\ loop[i].st = "load" /\ loop[i].k <= Len(hints(i))
    /\ ~Present(hint(i).at, nav, found)
    /\ loop' = Advance(loop, i)
    /\ missed' = missed \cup {Absence(hint(i).at)}
    /\ UNCHANGED <<nav, token, found, resized, banner, boxes, detours, strayed>>

(* The box is put up and the conditions are raced.  waitForCancel listens  *)
(* at the first cancel button of the document.  A condition that needs an  *)
(* element that is not there rejects: the loop dies and leaves its box.    *)
loadHint(i) ==
    /\ loop[i].st = "load" /\ loop[i].k <= Len(hints(i))
    /\ Present(hint(i).at, nav, found)
    /\ boxes' = boxes \cup {Box(i)}
    /\ \E first \in boxes' :
         LET there == Captures(hint(i).until) => Present(Target(hint(i).until), nav, found) IN
         /\ loop' = [loop EXCEPT ![i].st = IF there THEN "wait" ELSE "dead", ![i].cancel = first]
         /\ missed' = missed \cup (IF there THEN {} ELSE {Absence(Target(hint(i).until))})
    /\ UNCHANGED <<nav, token, found, resized, banner, detours, strayed>>

(* The conditions of a hint.                                               *)
waitInMs(i) == hint(i).until.k = "time"
waitForAngularRouteToBeVisited(i) ==
    /\ hint(i).until.k = "route"
    /\ \/ nav.hash = hint(i).until.p
       \/ <<hint(i).until.p, nav.hash>> \in {<<"admin", "administration">>, <<"track-result", "track-result-new">>}
waitForRightUriQueryParamPair(i) == hint(i).until.k = "uri" /\ nav.hash = hint(i).until.p
waitForLogIn(i) == hint(i).until = Token("user") /\ token # "none"
waitForAdminLogIn(i) == hint(i).until = Token("admin") /\ token = "admin"
waitForLogOut(i) == hint(i).until = Token("none") /\ token = "none"
waitForDevTools(i) == hint(i).until.k = "resize" /\ resized
waitForInputToHaveValue(i) == hint(i).until.k \in {"type", "change"} /\ loop[i].met = "yes"
waitForElementToGetClicked(i) == hint(i).until.k \in {"click", "login"} /\ loop[i].met = "yes"
waitForElementsInnerHtmlToBe(i) ==
    hint(i).until.k = "search" /\ loop[i].met = "yes" /\ Page(nav) = "search"

Holds(i) ==
    \/ waitInMs(i)
    \/ waitForAngularRouteToBeVisited(i)
    \/ waitForRightUriQueryParamPair(i)
    \/ waitForLogIn(i)
    \/ waitForAdminLogIn(i)
    \/ waitForLogOut(i)
    \/ waitForDevTools(i)
    \/ waitForInputToHaveValue(i)
    \/ waitForElementToGetClicked(i)
    \/ waitForElementsInnerHtmlToBe(i)

(* Variant: the box of a hint that is done stays.                          *)
resolvedKeepingBox(i) ==
    /\ Waiting(i) /\ Holds(i)
    /\ loop' = Advance(loop, i)
    /\ UNCHANGED <<nav, token, found, resized, banner, boxes, detours, strayed, missed>>

(* The condition has won the race.                                         *)
resolved(i) ==
    /\ Waiting(i) /\ Holds(i)
    /\ boxes' = boxes \ {Box(i)}
    /\ loop' = Advance(loop, i)
    /\ UNCHANGED <<nav, token, found, resized, banner, detours, strayed, missed>>

(* Variant: any hint can be skipped.                                       *)
waitForDoubleClickAlways(i) ==
    /\ Waiting(i) /\ Box(i) \in boxes
    /\ boxes' = boxes \ {Box(i)}
    /\ loop' = Advance(loop, i)
    /\ UNCHANGED <<nav, token, found, resized, banner, detours, strayed, missed>>

(* A hint that is not unskippable is double clicked.                       *)
waitForDoubleClick(i) ==
    /\ Waiting(i) /\ Box(i) \in boxes /\ ~hint(i).must
    /\ boxes' = boxes \ {Box(i)}
    /\ loop' = Advance(loop, i)
    /\ strayed' = (strayed \/ hint(i).until.k # "time")
    /\ UNCHANGED <<nav, token, found, resized, banner, detours, missed>>

(* Variant: a cancelled loop leaves its box.                               *)
waitForCancelKeepingBox(b) ==
    /\ b \in boxes
    /\ \E i \in Instructors : Waiting(i) /\ loop[i].cancel = b
    /\ loop' = [i \in Instructors |->
                   IF Waiting(i) /\ loop[i].cancel = b THEN [loop[i] EXCEPT !.st = "end"] ELSE loop[i]]
    /\ UNCHANGED <<nav, token, found, resized, banner, boxes, detours, strayed, missed>>

(* A cancel button is clicked: every loop that listens there ends.         *)
waitForCancel(b) ==
    /\ b \in boxes
    /\ LET ends == {i \in Instructors : Waiting(i) /\ loop[i].cancel = b} IN
       /\ ends # {}
       /\ boxes' = boxes \ {Box(i) : i \in ends}
       /\ loop' = [i \in Instructors |-> IF i \in ends THEN [loop[i] EXCEPT !.st = "end"] ELSE loop[i]]
    /\ UNCHANGED <<nav, token, found, resized, banner, detours, strayed, missed>>

-----------------------------------------------------------------------------
(* The user.  A task is done by who sees its box.                          *)

Sees(i, kind) == Waiting(i) /\ Box(i) \in boxes /\ hint(i).until.k = kind /\ ~Holds(i)

(* By a link, or by an address whose page the router has yet to show.      *)
followRoute(i) ==
    /\ Sees(i, "route") \/ Sees(i, "uri")
    /\ LET r == hint(i).until.p IN
       \/ Lands(r, loop)
       \/ nav' = [nav EXCEPT !.hash = r] /\ UNCHANGED <<found, loop, boxes>>
    /\ UNCHANGED <<token, resized, banner, detours, strayed, missed>>

(* Logging in and out ends on the search page.                             *)
followToken(i) ==
    /\ Sees(i, "token")
    /\ token' = hint(i).until.p
    /\ Lands("search", loop)
    /\ UNCHANGED <<resized, banner, detours, strayed, missed>>

followInput(i) ==
    /\ \E kind \in {"type", "click", "change"} : Sees(i, kind)
    /\ loop[i].met = "no"
    /\ loop' = Met(i)
    /\ UNCHANGED <<nav, token, found, resized, banner, boxes, detours, strayed, missed>>

followLogin(i) ==
    /\ Sees(i, "login") /\ loop[i].met = "no"
    /\ IF hint(i).until.p = "right"
       THEN token' = "user" /\ Lands("search", Met(i))
       ELSE loop' = Met(i) /\ UNCHANGED <<nav, token, found, boxes>>
    /\ UNCHANGED <<resized, banner, detours, strayed, missed>>

followSearch(i) ==
    /\ Sees(i, "search")
    /\ LET fd == hint(i).until.p IN Shows(At("search"), fd) /\ loop' = Watching(Met(i), At("search"), fd)
    /\ UNCHANGED <<token, resized, banner, detours, strayed, missed>>

followResize(i) ==
    /\ Sees(i, "resize")
    /\ resized' = TRUE
    /\ UNCHANGED <<nav, token, found, banner, loop, boxes, detours, strayed, missed>>

(* The router shows the page of an address that was typed.                 *)
Render ==
    /\ nav.hash # nav.shown
    /\ Lands(nav.hash, loop)
    /\ UNCHANGED <<token, resized, banner, detours, strayed, missed>>

(* What no hint asked for: another page, another search, logging in or     *)
(* out, the developer tools.                                               *)
Unmet == [i \in Instructors |->
             IF Waiting(i) /\ hint(i).until.k = "search" THEN [loop[i] EXCEPT !.met = "no"] ELSE loop[i]]
Detour ==
    /\ \E i \in Instructors : loop[i].st \in {"load", "wait"}
    /\ detours < MaxDetours
    /\ detours' = detours + 1
    /\ strayed' = TRUE
    /\ \/ /\ \E r \in {"login", "about", "search"} : Lands(r, Unmet)
          /\ UNCHANGED <<token, resized>>
       \/ /\ \E fd \in {"hits", "none"} : Shows(At("search"), fd) /\ loop' = Watching(Unmet, At("search"), fd)
          /\ UNCHANGED <<token, resized>>
       \/ /\ token' \in {"none", "user"} \ {token}
          /\ Lands("search", Unmet)
          /\ UNCHANGED resized
       \/ resized' = ~resized /\ UNCHANGED <<nav, token, found, loop, boxes>>
    /\ UNCHANGED <<banner, missed>>

Follow(i) ==
    \/ followRoute(i) \/ followToken(i) \/ followInput(i)
    \/ followLogin(i) \/ followSearch(i) \/ followResize(i)

Step(i) == finish(i) \/ couldNotFindElement(i) \/ loadHint(i) \/ resolved(i)

Next ==
    \/ openWelcome \/ closeWelcome
    \/ \E i \in Instructors :
         \/ startFromBanner(i) \/ startFromSidenav(i) \/ startHackingInstructor(i)
         \/ Step(i) \/ isChallengeSolved(i)
         \/ waitForDoubleClick(i)
         \/ Follow(i)
    \/ \E b \in boxes : waitForCancel(b)
    \/ Render
    \/ Detour

(* The loops poll, the router renders, and the user goes on following the  *)
(* hint that is shown.                                                     *)
Fairness == WF_vars(Render) /\ \A i \in Instructors : WF_vars(Step(i)) /\ WF_vars(Follow(i))

Spec == Init /\ [][Next]_vars /\ Fairness

-----------------------------------------------------------------------------
(* Properties.                                                             *)

(* The variables have the values the client gives them.                    *)
TypeOK ==
    /\ nav \in [hash : Pages \cup {"admin"}, shown : Pages \cup {"admin"}, denied : BOOLEAN]
    /\ token \in {"none", "user", "admin"}
    /\ found \in {"all", "hits", "none"}
    /\ {resized, strayed} \subseteq BOOLEAN
    /\ banner \in {"unseen", "open", "dismissed"}
    /\ \A i \in Instructors :
         /\ loop[i].st = "off" \/ loop[i].k \in 1..(Len(hints(i)) + 1)
         /\ loop[i].st \in {"off", "load", "wait", "dead", "end"}
         /\ loop[i].met \in {"no", "yes", "lost"}
         /\ Waiting(i) => loop[i].k <= Len(hints(i))
    /\ \A b \in boxes : b.i \in Instructors
    /\ detours \in 0..MaxDetours

(* Who only does what the hints ask for misses no hint and no element a    *)
(* hint needs, except those that are in no template of the client, until   *)
(* the page of a typed address is shown too late for its hint.             *)
FollowerIsGuided == "away" \in missed => strayed \/ "unrendered" \in missed

(* A loop whose box has gone from the document and whose condition cannot  *)
(* come true any more has no cancel button: it polls until the tab is      *)
(* closed.  Following the hints leads there only when the page of a typed  *)
(* address was shown too late for a hint on it.                            *)
StrandedOnlyIfStrayed ==
    \A i \in Instructors :
       Waiting(i) /\ loop[i].met = "lost" /\ Box(i) \notin boxes => strayed \/ "unrendered" \in missed

(* The cancel button next to a hint ends that hint's loop, unless another  *)
(* loop was running or has died and left its box: all boxes have the same  *)
(* element id.                                                             *)
CancelIsOwn ==
    \A i \in Instructors :
       Waiting(i) /\ Box(i) \in boxes /\ loop[i].cancel # Box(i) =>
          strayed \/ \E j \in Instructors : loop[j].st = "dead"

(* A box in the document is the hint its loop is at, and the loop waits or *)
(* has died.  A loop that went on or ended has taken its box away.         *)
NoStrayBox ==
    \A b \in boxes : b = Box(b.i) /\ loop[b.i].st \in {"wait", "dead"}

(* A task that is not skippable is only left with its condition true, or   *)
(* by cancelling.                                                          *)
TasksAreDone ==
    [][\A i \in Instructors :
          Waiting(i) /\ hint(i).must /\ loop'[i].k # loop[i].k => Holds(i)]_vars

(* Who goes on following gets to the end of a script, unless a page was    *)
(* shown too late.                                                         *)
Guided(i) == loop[i].st \in {"load", "wait"} ~> (loop[i].st \in {"end", "dead"} \/ strayed \/ "unrendered" \in missed)
Finishes == \A i \in Instructors : Guided(i)

(* The loop of startHackingInstructorFor guides who follows it: it misses  *)
(* no hint and is not left behind without a way to cancel it.              *)
FollowerIsLed == TypeOK /\ FollowerIsGuided /\ StrandedOnlyIfStrayed

(* Every box in the document belongs to the hint its loop is at, and its   *)
(* cancel button to that loop (loadHint, waitForCancel).                   *)
BoxesAreOwn == CancelIsOwn /\ NoStrayBox

(* Tasks are done before they are left (unskippable hints), and the script *)
(* comes to its end.                                                       *)
ScriptsAreFollowed == TasksAreDone /\ Finishes
=============================================================================
