---------------------------- MODULE OciLifecycle ----------------------------
(***************************************************************************)
(* What a container id promises to its users, whatever commands run, die   *)
(* or race: one incarnation at a time, each going through creating,        *)
(* created, running and stopped, in that order and with a single init.     *)
(* The names are those of libcontainer's Status and of the runtime         *)
(* specification; absent is an id that may be created.                     *)
(***************************************************************************)
CONSTANTS Inits, NoInit

VARIABLES
  status,   \* of the id
  init      \* the init of this incarnation, once it is known

Statuses == {"absent", "creating", "created", "running", "stopped"}

Init == status = "absent" /\ init = NoInit

Step(from, to) == status \in from /\ status' = to

Create == Step({"absent"}, "creating") /\ UNCHANGED init
(* The init is on record before it may run. *)
Record == /\ status = "creating" /\ init = NoInit
          /\ status' \in {"creating", "stopped"}
          /\ \E x \in Inits : init' = x
Ready  == Step({"creating"}, "created") /\ init # NoInit /\ UNCHANGED init
Start  == Step({"created"}, "running") /\ UNCHANGED init
Stop   == Step({"creating", "created", "running"}, "stopped") /\ init # NoInit /\ UNCHANGED init
Delete == Step({"creating", "stopped"}, "absent") /\ init' = NoInit

Next == Create \/ Record \/ Ready \/ Start \/ Stop \/ Delete

Spec == Init /\ [][Next]_<<status, init>>

=============================================================================
