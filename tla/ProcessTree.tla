---------------------------- MODULE ProcessTree -----------------------------
(***************************************************************************)
(* The processes of one sandboxed command and what the backends do to      *)
(* them.  The leader is what the agent forked: the shell itself or, when   *)
(* processes are isolated, a supervisor whose child is the init of a new   *)
(* PID namespace and becomes the shell.  The shell may leave one process   *)
(* behind: in its group, as a child in a session of its own, or detached   *)
(* (a grandchild in a session of its own), with the pipes open or not.     *)
(***************************************************************************)
EXTENDS Naturals, FiniteSets

VARIABLE tree

Members == {"leader", "init", "background"}
Stages  == {"none", "forking", "unarmed", "setup", "staged", "prepared",
            "executing", "failed"}
Places  == {"none", "grouped", "session", "detached"}

TreeTypeOK ==
    tree \in [isolated : BOOLEAN, scoped : BOOLEAN, grouped : BOOLEAN, lists : BOOLEAN,
              terminates : BOOLEAN, stage : Stages, armed : BOOLEAN, staging : BOOLEAN,
              place : Places, pipe : BOOLEAN, listed : BOOLEAN, missed : BOOLEAN,
              alive : SUBSET Members]

NoTree == [isolated |-> FALSE, scoped |-> FALSE, grouped |-> FALSE, lists |-> FALSE,
           terminates |-> FALSE, stage |-> "none", armed |-> FALSE, staging |-> FALSE,
           place |-> "none", pipe |-> FALSE, listed |-> FALSE, missed |-> FALSE, alive |-> {}]

(* spawn returns when the shell executes, its setup done in the child; an   *)
(* isolated command's supervisor has only been forked.  Linux always makes  *)
(* a process group, Seatbelt when it is to terminate descendants.           *)
Forked(backend, process, scoped) ==
    LET isolated == process.visibility = "isolated"
    IN  [NoTree EXCEPT !.isolated = isolated, !.scoped = scoped,
            !.grouped = backend = "linux" \/ process.terminates,
            !.lists = backend = "linux", !.terminates = process.terminates,
            !.alive = {"leader"}, !.stage = IF isolated THEN "forking" ELSE "executing"]

-----------------------------------------------------------------------------
(* What the kernel and the supervisor do when processes die: the death of   *)
(* the namespace's init takes all of it, and the supervisor, which waits    *)
(* for it, follows; the death of the supervisor takes an init that asked    *)
(* for that (PDEATHSIG).                                                    *)
InitDies(dead) == tree.isolated /\ ("init" \in dead \/ ("leader" \in dead /\ tree.armed))
Gone(dead)     == dead \cup (IF InitDies(dead) THEN Members ELSE {})
Without(dead)  == [tree EXCEPT !.alive = @ \ Gone(dead)]

Alive(process) == process \in tree.alive
Shell == IF tree.isolated THEN "init" ELSE "leader"

(* Who keeps the output pipes from ending.                                  *)
PipesOpen == tree.alive \ (IF tree.pipe THEN {} ELSE {"background"}) # {}

-----------------------------------------------------------------------------
(* The setup of an isolated command: setup_linux_sandbox.                   *)

ForkInit ==
    /\ tree.stage = "forking" /\ Alive("leader")
    /\ tree' = [tree EXCEPT !.stage = "unarmed", !.alive = @ \cup {"init"}]

(* set_parent_death_signal: no signal comes from a parent already dead.     *)
ArmInit ==
    /\ tree.stage = "unarmed" /\ Alive("init")
    /\ tree' = [tree EXCEPT !.stage = "setup", !.armed = Alive("leader")]

(* prepare_scoped_workspace: a directory under the host's /tmp, which the   *)
(* failure to mount on it removes.                                          *)
StageWorkspace ==
    /\ tree.stage = "setup" /\ tree.scoped /\ Alive("init")
    /\ tree' = [tree EXCEPT !.stage = "staged", !.staging = TRUE]

(* Mutant: the first error leaves at once.                                  *)
UnstagedUnless(failed) ==
    IF failed THEN [Without({"init"}) EXCEPT !.stage = "failed"]
    ELSE [tree EXCEPT !.stage = "prepared", !.staging = FALSE]

(* apply_prepared_scoped_workspace: the directory goes whatever happened.   *)
Unstaged(failed) ==
    IF failed THEN [Without({"init"}) EXCEPT !.stage = "failed", !.staging = FALSE]
    ELSE [tree EXCEPT !.stage = "prepared", !.staging = FALSE]

ApplyWorkspace ==
    /\ tree.stage = "staged" /\ Alive("init")
    /\ \E failed \in BOOLEAN : tree' = Unstaged(failed)

(* Any other step of the setup errs: the marker is written to stderr.       *)
SetupFails ==
    \/ tree.stage = "forking" /\ Alive("leader")
       /\ tree' = [Without({"leader"}) EXCEPT !.stage = "failed"]
    \/ tree.stage \in {"unarmed", "setup", "prepared"} /\ Alive("init")
       /\ tree' = [Without({"init"}) EXCEPT !.stage = "failed"]

(* run_isolated_child: execve.                                              *)
Executes ==
    /\ tree.stage = (IF tree.scoped THEN "prepared" ELSE "setup") /\ Alive("init")
    /\ tree' = [tree EXCEPT !.stage = "executing"]

SetupSteps == ForkInit \/ ArmInit \/ StageWorkspace \/ ApplyWorkspace \/ SetupFails \/ Executes

-----------------------------------------------------------------------------
(* The command.                                                            *)

LeavesBehind(place, pipe) ==
    /\ tree.stage = "executing" /\ Alive(Shell) /\ tree.place = "none"
    /\ tree' = [tree EXCEPT !.place = place, !.pipe = pipe, !.missed = @ \/ tree.listed,
                            !.alive = @ \cup {"background"}]

ShellExits ==
    tree.stage = "executing" /\ Alive(Shell) /\ tree' = Without({Shell})

BackgroundExits == Alive("background") /\ tree' = Without({"background"})

CommandSteps ==
    \/ \E place \in Places \ {"none"}, pipe \in BOOLEAN : LeavesBehind(place, pipe)
    \/ ShellExits
    \/ BackgroundExits

-----------------------------------------------------------------------------
(* Termination: Linux first lists and kills the leader's children, then     *)
(* both kill the group and the leader.                                      *)

Children == IF ~Alive("leader") THEN {}
            ELSE {"init"} \cup (IF tree.place = "session" THEN {"background"} ELSE {})
Group    == {"init"} \cup (IF tree.place = "grouped" THEN {"background"} ELSE {})

Listed   == IF tree.terminates /\ tree.lists THEN Children ELSE {}
Grouped  == IF tree.terminates /\ tree.grouped THEN Group ELSE {}

ChildrenKilled == [Without(Listed) EXCEPT !.listed = TRUE, !.missed = ~Alive("leader")]

(* Mutant: only the direct child is killed.                                 *)
LeaderKilled == Without({"leader"})

GroupKilled == Without({"leader"} \cup Grouped)
AllKilled   == Without({"leader"} \cup Listed \cup Grouped)

(* What the code's termination does not reach, outside a PID namespace: a   *)
(* process that has left both the group and the leader's children, or that  *)
(* was no child of it, or not yet, when the children were listed.  The      *)
(* sandbox module asks for more, the complete process tree                  *)
(* (sandbox/mod.rs:82-83).                                                  *)
Escaped ==
    IF tree.isolated THEN {}
    ELSE IF \/ tree.place = "detached"
            \/ tree.place = "session" /\ (tree.missed \/ ~tree.lists)
    THEN {"background"} ELSE {}

(* The future is dropped: kill_on_drop reaches the leader of a command that *)
(* was spawned; nothing reaches a supervisor.                               *)
Dropped == IF tree.isolated THEN tree ELSE Without({"leader"})
=============================================================================
