---------------------------- MODULE MCScoreBoard ----------------------------
(* One browser; c1 has a coding challenge, c2 is verified by queries.      *)
EXTENDS ScoreBoard, TLC

CONSTANTS c1, c2, t1

Nothing == [solve |-> 0, token |-> 0, check |-> 0, fail |-> 0, restart |-> 0, close |-> 0, clear |-> 0,
            backup |-> 0, apply |-> 0, board |-> 0, hint |-> 0, repeat |-> 0, dialog |-> 0, toggle |-> 0,
            submit |-> 0]

(* Solving in several ways.                                                *)
Solving == ("solve" :> 1) @@ ("check" :> 1) @@ ("token" :> 1) @@ Nothing

(* A crash while something is solved.                                      *)
Crashing == ("solve" :> 1) @@ ("check" :> 1) @@ ("restart" :> 1) @@ Nothing

(* The score board while something is solved.                              *)
Watching == ("solve" :> 1) @@ ("token" :> 1) @@ ("board" :> 1) @@ ("hint" :> 1) @@ Nothing
Repeating == ("solve" :> 1) @@ ("board" :> 1) @@ ("repeat" :> 2) @@ Nothing

(* A board that is older than a crash repeats a notification.              *)
OldBoard == ("solve" :> 2) @@ ("board" :> 1) @@ ("repeat" :> 1) @@ ("restart" :> 1) @@ Nothing

(* A coding challenge, submitted three times; the snippets may fail.       *)
Phases == ("board" :> 1) @@ ("dialog" :> 1) @@ ("submit" :> 3) @@ ("toggle" :> 1) @@ ("fail" :> 1) @@ Nothing

(* A coding challenge, and a crash; the dialog may be opened again.        *)
CodeCrash == ("board" :> 1) @@ ("dialog" :> 2) @@ ("submit" :> 2) @@ ("restart" :> 1) @@ Nothing

(* A backup that is applied.                                               *)
Backups == ("solve" :> 1) @@ ("token" :> 1) @@ ("backup" :> 1) @@ ("apply" :> 1) @@ ("clear" :> 1) @@ ("close" :> 1) @@ Nothing

MCScenarios == {Solving, Crashing, Watching, Repeating, OldBoard, Phases, CodeCrash, Backups}
=============================================================================
