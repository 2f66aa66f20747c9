----------------------------- MODULE MCAccounts -----------------------------
(* u1 and u2 are in users.yml, u3 registers.  Each scenario bounds what    *)
(* happens in one behaviour, and in which tabs.                            *)
EXTENDS ContactPages, TLC

CONSTANTS u1, u2, u3, t1, t2

Nothing == [fail |-> 0, restart |-> 0, open |-> 0, login |-> 0, verify |-> 0, logout |-> 0, oauth |-> 0,
            register |-> 0, type |-> 0, reset |-> 0, password |-> 0, setup |-> 0, disable |-> 0, export |-> 0,
            minutes |-> 0, profile |-> 0, submit |-> 0, reload |-> 0, message |-> 0, feedback |-> 0,
            wrong |-> FALSE, who |-> {u1}, pages |-> {"login"}, tabs |-> {t1}]
Scenario(user, todo_) == [user |-> user, todo |-> todo_ @@ Nothing]

(* Two logins at a time; mistakes.                                         *)
Logins == Scenario(u1, ("open" :> 1) @@ ("login" :> 2) @@ ("logout" :> 1) @@ ("who" :> {u1, u2}))
Mistakes == Scenario(u1, ("open" :> 2) @@ ("login" :> 1) @@ ("logout" :> 1) @@ ("wrong" :> TRUE) @@ ("who" :> {u1, u2}))

(* Two users in two tabs.                                                  *)
TwoTabs == Scenario(u1, ("open" :> 1) @@ ("login" :> 1) @@ ("logout" :> 1) @@ ("reload" :> 1) @@ ("who" :> {u2})
                        @@ ("tabs" :> {t1, t2}))

(* The server is restarted while a user is logged in.                      *)
Restarts == Scenario(u1, ("open" :> 1) @@ ("login" :> 1) @@ ("logout" :> 1) @@ ("reload" :> 1) @@ ("restart" :> 1)
                         @@ ("password" :> 1) @@ ("who" :> {u2}) @@ ("pages" :> {"login", "password"}))

(* The second factor is set up, used and removed.                          *)
Factor == Scenario(u1, ("open" :> 1) @@ ("setup" :> 2) @@ ("disable" :> 1) @@ ("fail" :> 1) @@ ("wrong" :> TRUE)
                       @@ ("pages" :> {"2fa"}))
FactorLogin == Scenario(u1, ("open" :> 2) @@ ("setup" :> 1) @@ ("logout" :> 1) @@ ("login" :> 1) @@ ("verify" :> 2)
                            @@ ("pages" :> {"2fa", "login"}))
FactorTabs == Scenario(u1, ("open" :> 2) @@ ("setup" :> 2) @@ ("pages" :> {"2fa"}) @@ ("tabs" :> {t1, t2}))
FactorPassword == Scenario(u1, ("open" :> 2) @@ ("setup" :> 1) @@ ("password" :> 1) @@ ("pages" :> {"2fa", "password"})
                               @@ ("tabs" :> {t1, t2}))

(* A user registers, with the form or through the provider.                *)
Registers == Scenario(No, ("open" :> 2) @@ ("register" :> 2) @@ ("login" :> 1) @@ ("fail" :> 1) @@ ("who" :> {u3})
                          @@ ("pages" :> {"register", "login"}))
Providers == Scenario(u1, ("open" :> 1) @@ ("oauth" :> 2) @@ ("fail" :> 1) @@ ("who" :> {u1, u3}))

(* A password is changed twice; the user is gone after a restart.          *)
Passwords == Scenario(u1, ("open" :> 1) @@ ("password" :> 2) @@ ("wrong" :> TRUE) @@ ("pages" :> {"password"}))
Gone == Scenario(No, ("open" :> 2) @@ ("register" :> 1) @@ ("login" :> 1) @@ ("restart" :> 1) @@ ("reload" :> 1)
                     @@ ("password" :> 1) @@ ("who" :> {u3}) @@ ("pages" :> {"register", "password"}))

(* A password is forgotten.                                                *)
Forgets == Scenario(No, ("open" :> 1) @@ ("type" :> 2) @@ ("reset" :> 2) @@ ("fail" :> 1) @@ ("who" :> {u1, u3})
                        @@ ("pages" :> {"forgot"}))

(* Data is exported again and again.                                       *)
Exports == Scenario(u1, ("open" :> 2) @@ ("export" :> 3) @@ ("minutes" :> 2) @@ ("pages" :> {"export", "login"}))
ExportsOut == Scenario(u1, ("open" :> 2) @@ ("export" :> 1) @@ ("logout" :> 1) @@ ("pages" :> {"export"}))
ExportTabs == Scenario(u1, ("open" :> 2) @@ ("export" :> 2) @@ ("pages" :> {"export"}) @@ ("tabs" :> {t1, t2}))

(* The pages of the server.                                                *)
Profiles == Scenario(u1, ("profile" :> 1) @@ ("submit" :> 1) @@ ("reload" :> 2) @@ ("fail" :> 1) @@ ("restart" :> 1)
                         @@ ("pages" :> {"profile"}))
Erasures == Scenario(u1, ("profile" :> 1) @@ ("submit" :> 1) @@ ("reload" :> 1) @@ ("fail" :> 1) @@ ("restart" :> 1) @@ ("open" :> 1)
                         @@ ("login" :> 1) @@ ("pages" :> {"erasure", "login"}))

(* The chatbot, with a session that ends, a restart, or a user lost by one.  *)
Chats == Scenario(u1, ("open" :> 1) @@ ("message" :> 1) @@ ("logout" :> 1) @@ ("pages" :> {"chatbot"}))
ChatFails == Scenario(u1, ("open" :> 1) @@ ("message" :> 2) @@ ("fail" :> 1) @@ ("pages" :> {"chatbot"}))
ChatRestart == Scenario(u1, ("open" :> 1) @@ ("message" :> 2) @@ ("restart" :> 1) @@ ("pages" :> {"chatbot"}))
ChatGone == Scenario(u3, ("open" :> 1) @@ ("message" :> 2) @@ ("pages" :> {"chatbot"}))
ChatNamed == Scenario(u1, ("profile" :> 1) @@ ("submit" :> 1) @@ ("reload" :> 1) @@ ("open" :> 1) @@ ("message" :> 1)
                          @@ ("pages" :> {"profile", "chatbot"}))
ChatOut == Scenario(No, ("open" :> 1) @@ ("message" :> 1) @@ ("pages" :> {"chatbot"}))

(* Feedback of two tabs.                                                   *)
Feedbacks == Scenario(u1, ("open" :> 1) @@ ("feedback" :> 2) @@ ("pages" :> {"contact"}))
FeedbackTabs == Scenario(u1, ("open" :> 2) @@ ("feedback" :> 1) @@ ("pages" :> {"contact"}) @@ ("tabs" :> {t1, t2}))
FeedbackRestart == Scenario(u1, ("open" :> 1) @@ ("feedback" :> 2) @@ ("fail" :> 1) @@ ("restart" :> 1) @@ ("pages" :> {"contact"}))

MCScenarios ==
    {Logins, Mistakes, TwoTabs, Restarts, Factor, FactorLogin, FactorTabs, FactorPassword, Registers, Providers,
     Passwords, Gone, Forgets, Exports, ExportsOut, ExportTabs, Profiles, Erasures,
     Chats, ChatFails, ChatRestart, ChatGone, ChatNamed, ChatOut, Feedbacks, FeedbackTabs, FeedbackRestart}
=============================================================================
