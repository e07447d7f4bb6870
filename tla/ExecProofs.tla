----------------------------- MODULE ExecProofs ------------------------------
(***************************************************************************)
(* Theorems about ExecCommand, for any policies, grants, backends and      *)
(* number of attempts: a command is launched at most once, and only under  *)
(* a policy that was approved; what is reported as over is over; staging   *)
(* is removed; and what is resolved is what was asked for or is warned of. *)
(***************************************************************************)
EXTENDS ExecCommand, TLAPS

(* Before the launch nothing has been launched, no attempt has a result but *)
(* one that is over, and preflight has rejected only what waits for the     *)
(* authorizer.  The grant that is looked up was made by the host.           *)
Unlaunched == {"idle", "resolving", "authorizing"}

LaunchInv ==
    /\ launches \in Nat /\ launches <= 1
    /\ pc \in Unlaunched => launches = 0
    /\ outcome = "suspended" => launches = 0
    /\ pc # "done" => outcome = "none"
    /\ pc \in {"idle", "resolving"} => rejected = FALSE
    /\ grant \subseteq granted

LEMMA LaunchInvInit == Init => LaunchInv
  BY DEF Init, LaunchInv, Unlaunched

(* An attempt of run_sandbox, from the workspace's policy or from a grant:  *)
(* the three ways it can go.                                                *)
LEMMA RunsKeepInv ==
  ASSUME LaunchInv, NEW policy, pc \in {"resolving", "authorizing"}, RunsUnder(policy)
  PROVE  LaunchInv'
<1>1. CASE Launch(policy)
  BY <1>1 DEF LaunchInv, Unlaunched, Launch, host
<1>2. CASE CancelledFirst
  BY <1>2 DEF LaunchInv, Unlaunched, CancelledFirst, Finish, host, running
<1>3. CASE NotLaunched
  BY <1>3 DEF LaunchInv, Unlaunched, NotLaunched, Finish, host, running
<1> QED BY <1>1, <1>2, <1>3 DEF RunsUnder

(* What the host does, and what happens before the launch.                  *)
LEMMA HostKeepsInv ==
  ASSUME LaunchInv,
         \/ \E policy \in Grants : Grant(policy)
         \/ Revoke \/ Abort \/ Resume
  PROVE  LaunchInv'
<1>1. CASE \E policy \in Grants : Grant(policy)
  BY <1>1 DEF LaunchInv, Unlaunched, Grant, running
<1>2. CASE Revoke
  BY <1>2 DEF LaunchInv, Unlaunched, Revoke, running
<1>3. CASE Abort
  BY <1>3 DEF LaunchInv, Unlaunched, Abort, running
<1>4. CASE Resume
  BY <1>4 DEF LaunchInv, Unlaunched, Resume
<1> QED BY <1>1, <1>2, <1>3, <1>4

LEMMA EntryKeepsInv ==
  ASSUME LaunchInv,
         \/ CallRefused \/ Call \/ ResolverFails \/ PreflightFails
         \/ PreflightRejects \/ PreflightAllows
  PROVE  LaunchInv'
<1>1. CASE CallRefused
  BY <1>1 DEF LaunchInv, Unlaunched, CallRefused, Finish, running
<1>2. CASE Call
  BY <1>2 DEF LaunchInv, Unlaunched, Call, running
<1>3. CASE ResolverFails
  BY <1>3 DEF LaunchInv, Unlaunched, ResolverFails, Finish, host, running
<1>4. CASE PreflightFails
  BY <1>4 DEF LaunchInv, Unlaunched, PreflightFails, Finish, host, running
<1>5. CASE PreflightRejects
  BY <1>5 DEF LaunchInv, Unlaunched, PreflightRejects, host
<1>6. CASE PreflightAllows
  BY <1>6, RunsKeepInv DEF PreflightAllows
<1> QED BY <1>1, <1>2, <1>3, <1>4, <1>5, <1>6

LEMMA AuthorizationKeepsInv ==
  ASSUME LaunchInv, Authorize \/ RequireApproval \/ AuthorizerRefuses
  PROVE  LaunchInv'
<1>1. CASE Authorize
  <2> PICK policy \in grant :
        IF Widens(policy) THEN RunsUnder(policy)
        ELSE Finish("error") /\ UNCHANGED host /\ UNCHANGED running
    BY <1>1 DEF Authorize
  <2>1. CASE Widens(policy)
    BY <1>1, <2>1, RunsKeepInv DEF Authorize
  <2>2. CASE ~Widens(policy)
    BY <1>1, <2>2 DEF LaunchInv, Unlaunched, Finish, host, running
  <2> QED BY <2>1, <2>2
<1>2. CASE RequireApproval
  BY <1>2 DEF LaunchInv, Unlaunched, RequireApproval, Finish, host, running
<1>3. CASE AuthorizerRefuses
  BY <1>3 DEF LaunchInv, Unlaunched, AuthorizerRefuses, Finish, host, running
<1> QED BY <1>1, <1>2, <1>3

(* What happens once it was launched, and the dropped future.               *)
LEMMA DrainedKeepsInv ==
  ASSUME LaunchInv, pc = "draining", Drained
  PROVE  LaunchInv'
<1>1. ASSUME NEW r \in {"error", "timedOut", "tooLarge", "completed"}, Ends(r)
      PROVE  LaunchInv'
  BY <1>1 DEF LaunchInv, Unlaunched, Ends, Finish, host, running
<1>2. CASE Violation
  BY <1>2 DEF LaunchInv, Unlaunched, Violation, Finish, host, running
<1>3. CASE Completed
  BY <1>1, <1>3 DEF Completed
<1> QED BY <1>1, <1>2, <1>3 DEF Drained

LEMMA CommandKeepsInv ==
  ASSUME LaunchInv,
         \/ WaitReturns \/ KillChildren \/ KillGroup \/ Drains
         \/ DrainsAtCap \/ TreeMoves \/ ToolTimesOut
  PROVE  LaunchInv'
<1>1. CASE WaitReturns
  BY <1>1 DEF LaunchInv, Unlaunched, WaitReturns, Alongside, host
<1>2. CASE KillChildren
  BY <1>2 DEF LaunchInv, Unlaunched, KillChildren, Alongside, host
<1>3. CASE KillGroup
  BY <1>3 DEF LaunchInv, Unlaunched, KillGroup, Alongside, host
<1>4. CASE Drains
  BY <1>4, DrainedKeepsInv DEF Drains
<1>5. CASE DrainsAtCap
  BY <1>5, DrainedKeepsInv DEF DrainsAtCap
<1>6. CASE TreeMoves
  BY <1>6 DEF LaunchInv, Unlaunched, TreeMoves
<1>7. CASE ToolTimesOut
  BY <1>7 DEF LaunchInv, Unlaunched, ToolTimesOut, Alongside, host
<1> QED BY <1>1, <1>2, <1>3, <1>4, <1>5, <1>6, <1>7

LEMMA DropKeepsInv ==
  ASSUME LaunchInv, BudgetExpires \/ AbortDrops
  PROVE  LaunchInv'
<1> ASSUME NEW r \in {"budget", "aborted"}, Abandon(r) PROVE LaunchInv'
  BY DEF LaunchInv, Unlaunched, Abandon, Finish, host
<1> QED BY DEF BudgetExpires, AbortDrops

LEMMA LaunchInvInductive == LaunchInv /\ [Next]_vars => LaunchInv'
<1> SUFFICES ASSUME LaunchInv, [Next]_vars PROVE LaunchInv'
  OBVIOUS
<1>1. CASE ToolSteps
  BY <1>1, EntryKeepsInv, AuthorizationKeepsInv, CommandKeepsInv DEF ToolSteps
<1>2. CASE UNCHANGED vars
  BY <1>2 DEF LaunchInv, Unlaunched, vars
<1> QED BY <1>1, <1>2, HostKeepsInv, CommandKeepsInv, DropKeepsInv DEF Next

(* sandbox/mod.rs:52-54: a suspended call has not run, and one that has run *)
(* is never launched again.                                                 *)
THEOREM LaunchedOnce == Spec => []LaunchedAtMostOnce
<1>1. LaunchInv => LaunchedAtMostOnce
  BY DEF LaunchInv, LaunchedAtMostOnce
<1> QED BY LaunchInvInit, LaunchInvInductive, <1>1, PTL DEF Spec

-----------------------------------------------------------------------------
(* Only run_sandbox launches; each launch is of a policy that was approved. *)

LaunchApproved ==
    launches' > launches =>
        \E policy \in using' :
            \/ policy = setting.policy /\ ~rejected
            \/ policy \in granted /\ policy # setting.policy

(* A step of run_sandbox launches under the policy it was given, if at all. *)
LEMMA RunsUnderGiven ==
  ASSUME LaunchInv, NEW policy, RunsUnder(policy), launches' > launches
  PROVE  using' = {policy}
<1>1. CASE Launch(policy)
  BY <1>1 DEF Launch
<1>2. CASE CancelledFirst
  BY <1>2 DEF LaunchInv, CancelledFirst, running
<1>3. CASE NotLaunched
  BY <1>3 DEF LaunchInv, NotLaunched, running
<1> QED BY <1>1, <1>2, <1>3 DEF RunsUnder

LEMMA PreflightApproves == LaunchInv /\ PreflightAllows => LaunchApproved
<1> SUFFICES ASSUME LaunchInv, PreflightAllows, launches' > launches
             PROVE  using' = {setting.policy} /\ ~rejected
  BY DEF LaunchApproved
<1> QED BY RunsUnderGiven DEF PreflightAllows, LaunchInv

LEMMA GrantApproves == LaunchInv /\ Authorize => LaunchApproved
<1> SUFFICES ASSUME LaunchInv, Authorize, launches' > launches
             PROVE  \E policy \in using' : policy \in granted /\ policy # setting.policy
  BY DEF LaunchApproved
<1>1. PICK policy \in grant :
        IF Widens(policy) THEN RunsUnder(policy)
        ELSE Finish("error") /\ UNCHANGED host /\ UNCHANGED running
  BY DEF Authorize
<1>2. CASE Widens(policy)
  BY <1>1, <1>2, RunsUnderGiven DEF Widens, LaunchInv
<1>3. CASE ~Widens(policy)
  BY <1>1, <1>3 DEF running, LaunchInv
<1> QED BY <1>2, <1>3

LEMMA OthersLaunchNothing ==
  ASSUME LaunchInv, Next, ~PreflightAllows, ~Authorize
  PROVE  launches' = launches
<1>1. CASE (\E policy \in Grants : Grant(policy)) \/ Revoke \/ Abort \/ Resume
  BY <1>1 DEF Grant, Revoke, Abort, Resume, running
<1>2. CASE CallRefused \/ Call \/ ResolverFails \/ PreflightFails \/ PreflightRejects
  BY <1>2 DEF CallRefused, Call, ResolverFails, PreflightFails, PreflightRejects, running
<1>3. CASE RequireApproval \/ AuthorizerRefuses
  BY <1>3 DEF RequireApproval, AuthorizerRefuses, running
<1>4. CASE WaitReturns \/ KillChildren \/ KillGroup \/ TreeMoves \/ ToolTimesOut
  BY <1>4 DEF WaitReturns, KillChildren, KillGroup, TreeMoves, ToolTimesOut, Alongside
<1>5. CASE Drains \/ DrainsAtCap
  BY <1>5 DEF Drains, DrainsAtCap, Drained, Ends, Violation, Completed, running
<1>6. CASE BudgetExpires \/ AbortDrops
  BY <1>6 DEF BudgetExpires, AbortDrops, Abandon
<1> QED BY <1>1, <1>2, <1>3, <1>4, <1>5, <1>6 DEF Next, ToolSteps

(* A command is launched only under the workspace's own policy, if that was *)
(* not what preflight has rejected, or under another one the host granted.  *)
THEOREM ApprovedLaunches == Spec => LaunchesAreApproved
<1>1. LaunchInv /\ [Next]_vars => [LaunchApproved]_vars
  <2> SUFFICES ASSUME LaunchInv, Next PROVE LaunchApproved
    OBVIOUS
  <2>1. CASE PreflightAllows \/ Authorize
    BY <2>1, PreflightApproves, GrantApproves
  <2>2. CASE ~PreflightAllows /\ ~Authorize
    <3> launches' = launches
      BY <2>2, OthersLaunchNothing
    <3> QED BY DEF LaunchApproved, LaunchInv
  <2> QED BY <2>1, <2>2
<1>2. [LaunchApproved]_vars => [launches' > launches =>
          \E policy \in using' :
            \/ policy = setting.policy /\ ~rejected
            \/ policy \in granted /\ policy # setting.policy]_vars
  BY DEF LaunchApproved
<1> QED BY LaunchInvInit, LaunchInvInductive, <1>1, <1>2, PTL DEF Spec, LaunchesAreApproved

-----------------------------------------------------------------------------
(* The processes.  A termination that takes the group has one to take; only *)
(* an isolated command is set up, or has an init; what was left behind was  *)
(* left somewhere; and the staging directory is there between two steps of  *)
(* the setup.                                                               *)

TreeShape ==
    /\ tree.terminates => tree.grouped
    /\ ~tree.isolated => tree.stage \in {"none", "executing"} /\ "init" \notin tree.alive
    /\ "background" \in tree.alive => tree.place # "none"
    /\ tree.staging => tree.stage = "staged"

(* The call was ended from outside, and whatever it had under way with it.  *)
Lost == killed \/ outcome \in {"budget", "aborted"}

(* How the call stands to the processes.  Between the two steps of a        *)
(* termination the children have been killed that the leader was seen to    *)
(* have; after it, only what has escaped is left; the end of the leader     *)
(* that the wait has seen was the end of an isolated command.               *)
Launched == {"running", "killing", "draining"}

CallInv ==
    /\ launches = 0 => tree = NoTree /\ ~killed /\ pc \notin Launched
    /\ pc = "running" => ~killed
    /\ pc = "killing" =>
          /\ killed /\ tree.listed
          /\ "background" \in tree.alive /\ tree.place = "session" /\ ~tree.isolated
                /\ tree.terminates /\ tree.lists => tree.missed
    /\ pc = "draining" /\ killed /\ tree.terminates => tree.alive \subseteq Escaped
    /\ pc = "draining" /\ ~killed => "leader" \notin tree.alive
    /\ tree.stage = "staged" /\ "init" \notin tree.alive => Lost
    /\ tree.isolated /\ "leader" \notin tree.alive =>
          tree.alive = {} \/ tree.stage = "failed" \/ Lost
    /\ ReportedIsOver

TreeInv == TreeTypeOK /\ TreeShape /\ CallInv

-----------------------------------------------------------------------------
(* The steps of the processes themselves.                                  *)

(* What dies takes its dependents and nothing else with it.                 *)
LEMMA WithoutFields ==
  ASSUME TreeTypeOK, NEW dead, NEW t, t = Without(dead)
  PROVE  /\ t \in [isolated : BOOLEAN, scoped : BOOLEAN, grouped : BOOLEAN,
                   lists : BOOLEAN, terminates : BOOLEAN, stage : Stages,
                   armed : BOOLEAN, staging : BOOLEAN, place : Places,
                   pipe : BOOLEAN, listed : BOOLEAN, missed : BOOLEAN,
                   alive : SUBSET Members]
         /\ t.isolated = tree.isolated /\ t.scoped = tree.scoped
         /\ t.grouped = tree.grouped /\ t.lists = tree.lists
         /\ t.terminates = tree.terminates /\ t.stage = tree.stage
         /\ t.armed = tree.armed /\ t.staging = tree.staging /\ t.place = tree.place
         /\ t.pipe = tree.pipe /\ t.listed = tree.listed /\ t.missed = tree.missed
         /\ t.alive = tree.alive \ Gone(dead)
  BY DEF TreeTypeOK, Without

LEMMA SetupKeepsShape ==
  ASSUME TreeTypeOK, TreeShape, SetupSteps
  PROVE  TreeTypeOK' /\ TreeShape'
<1>1. CASE ForkInit
  BY <1>1 DEF ForkInit, Alive, TreeTypeOK, TreeShape, Stages, Members
<1>2. CASE ArmInit
  <2> DEFINE armed == Alive("leader")
  <2>1. armed \in BOOLEAN
    BY DEF Alive
  <2>2. tree' = [tree EXCEPT !.stage = "setup", !.armed = armed]
    BY <1>2 DEF ArmInit
  <2>3. tree.isolated /\ ~tree.staging
    BY <1>2 DEF ArmInit, TreeShape
  <2> HIDE DEF armed
  <2> QED BY <2>1, <2>2, <2>3 DEF TreeTypeOK, TreeShape, Stages
<1>3. CASE StageWorkspace
  BY <1>3 DEF StageWorkspace, Alive, TreeTypeOK, TreeShape, Stages
<1>4. CASE ApplyWorkspace
  <2> PICK failed \in BOOLEAN : tree' = Unstaged(failed)
    BY <1>4 DEF ApplyWorkspace
  <2> QED
    BY <1>4 DEF ApplyWorkspace, Unstaged, Without, TreeTypeOK, TreeShape, Stages
<1>5. CASE SetupFails
  <2>1. PICK dead \in {{"leader"}, {"init"}} :
          tree' = [Without(dead) EXCEPT !.stage = "failed"]
    BY <1>5 DEF SetupFails
  <2>2. tree.isolated /\ ~tree.staging
    BY <1>5 DEF SetupFails, TreeShape
  <2> DEFINE t == Without(dead)
  <2>3. /\ tree'.isolated = tree.isolated /\ tree'.staging = tree.staging
        /\ tree'.terminates = tree.terminates /\ tree'.grouped = tree.grouped
        /\ tree'.place = tree.place /\ tree'.alive \subseteq tree.alive /\ TreeTypeOK'
    <3>1. tree' = [t EXCEPT !.stage = "failed"]
      BY <2>1
    <3> HIDE DEF t
    <3> QED BY <3>1, WithoutFields DEF TreeTypeOK, Stages, t
  <2> QED BY <2>2, <2>3 DEF TreeShape
<1>6. CASE Executes
  BY <1>6 DEF Executes, Alive, TreeTypeOK, TreeShape, Stages
<1> QED BY <1>1, <1>2, <1>3, <1>4, <1>5, <1>6 DEF SetupSteps

LEMMA CommandKeepsShape ==
  ASSUME TreeTypeOK, TreeShape, CommandSteps
  PROVE  TreeTypeOK' /\ TreeShape'
<1>1. ASSUME NEW place \in Places \ {"none"}, NEW pipe \in BOOLEAN, LeavesBehind(place, pipe)
      PROVE  TreeTypeOK' /\ TreeShape'
  BY <1>1 DEF LeavesBehind, TreeTypeOK, TreeShape, Members
<1>2. CASE ShellExits \/ BackgroundExits
  BY <1>2 DEF ShellExits, BackgroundExits, Without, TreeTypeOK, TreeShape
<1> QED BY <1>1, <1>2 DEF CommandSteps

(* When nothing is left but what a command left behind, that may end, and   *)
(* nothing else happens.                                                   *)
LEMMA OnlyBackgroundEnds ==
  ASSUME TreeTypeOK, TreeShape, SetupSteps \/ CommandSteps,
         tree.alive \subseteq {"background"}, ~tree.isolated
  PROVE  BackgroundExits
<1>1. ~SetupSteps
  BY DEF SetupSteps, ForkInit, ArmInit, StageWorkspace, ApplyWorkspace, SetupFails,
         Executes, Alive, TreeShape, TreeTypeOK
<1>2. \A place, pipe : ~LeavesBehind(place, pipe)
  BY DEF LeavesBehind, Alive, Shell
<1>3. ~ShellExits
  BY DEF ShellExits, Alive, Shell
<1> QED BY <1>1, <1>2, <1>3 DEF CommandSteps

LEMMA BackgroundOnly ==
  ASSUME TreeTypeOK, BackgroundExits, tree.alive \subseteq {"background"}
  PROVE  tree'.alive = {} /\ tree'.isolated = tree.isolated
  BY DEF BackgroundExits, Without, Gone, TreeTypeOK

(* What a step of the processes does, as far as the call is concerned.      *)
Moved ==
    /\ tree'.isolated = tree.isolated /\ tree'.lists = tree.lists
    /\ tree'.terminates = tree.terminates /\ tree'.listed = tree.listed
    /\ \/ /\ tree'.place = tree.place /\ tree'.missed = tree.missed
          /\ "background" \in tree'.alive => "background" \in tree.alive
       \/ tree.listed => tree'.missed
    /\ "leader" \in tree'.alive => "leader" \in tree.alive
    /\ tree'.stage = "staged" /\ "init" \notin tree'.alive =>
          tree.stage = "staged" /\ "init" \notin tree.alive
    /\ tree.stage = "failed" => tree'.stage = "failed"
    /\ tree.isolated /\ "leader" \in tree.alive /\ "leader" \notin tree'.alive =>
          tree'.alive = {} \/ tree'.stage = "failed"

LEMMA SetupMoves ==
  ASSUME TreeTypeOK, TreeShape, SetupSteps
  PROVE  Moved
<1>1. CASE ForkInit
  BY <1>1 DEF ForkInit, Alive, Moved, TreeTypeOK
<1>2. CASE ArmInit
  BY <1>2 DEF ArmInit, Moved, TreeTypeOK
<1>3. CASE StageWorkspace
  BY <1>3 DEF StageWorkspace, Alive, Moved, TreeTypeOK
<1>4. CASE ApplyWorkspace
  <2> PICK failed \in BOOLEAN : tree' = Unstaged(failed)
    BY <1>4 DEF ApplyWorkspace
  <2> QED
    BY <1>4 DEF ApplyWorkspace, Unstaged, Without, Moved, TreeTypeOK
<1>5. CASE SetupFails
  <2>1. PICK dead : tree' = [Without(dead) EXCEPT !.stage = "failed"]
    BY <1>5 DEF SetupFails
  <2> DEFINE t == Without(dead)
  <2>2. tree' = [t EXCEPT !.stage = "failed"]
    BY <2>1
  <2>3. /\ t.isolated = tree.isolated /\ t.lists = tree.lists
        /\ t.terminates = tree.terminates /\ t.listed = tree.listed
        /\ t.place = tree.place /\ t.missed = tree.missed /\ t.alive \subseteq tree.alive
        /\ t \in [isolated : BOOLEAN, scoped : BOOLEAN, grouped : BOOLEAN,
                  lists : BOOLEAN, terminates : BOOLEAN, stage : Stages,
                  armed : BOOLEAN, staging : BOOLEAN, place : Places,
                  pipe : BOOLEAN, listed : BOOLEAN, missed : BOOLEAN,
                  alive : SUBSET Members]
    BY WithoutFields
  <2> HIDE DEF t
  <2> QED
    BY <2>2, <2>3 DEF Moved
<1>6. CASE Executes
  BY <1>6 DEF Executes, Alive, Moved, TreeTypeOK
<1> QED BY <1>1, <1>2, <1>3, <1>4, <1>5, <1>6 DEF SetupSteps

LEMMA CommandMoves ==
  ASSUME TreeTypeOK, TreeShape, CommandSteps
  PROVE  Moved
<1>1. ASSUME NEW place, NEW pipe, LeavesBehind(place, pipe)
      PROVE  Moved
  BY <1>1 DEF LeavesBehind, Moved, TreeTypeOK
<1>2. CASE ShellExits
  <2>1. tree.stage = "executing" /\ tree' = Without({Shell})
    BY <1>2 DEF ShellExits
  <2>2. tree.isolated => Gone({Shell}) = Members \cup {"init"}
    BY DEF Shell, Gone, InitDies, Members
  <2>3. tree.isolated => tree'.alive = {}
    <3>1. tree'.alive = tree.alive \ Gone({Shell})
      BY <2>1, WithoutFields
    <3>2. tree.alive \subseteq Members
      BY DEF TreeTypeOK
    <3> QED BY <2>2, <3>1, <3>2
  <2> QED BY <2>1, <2>3, WithoutFields DEF Moved
<1>3. CASE BackgroundExits
  <2>1. tree' = Without({"background"})
    BY <1>3 DEF BackgroundExits
  <2>2. Gone({"background"}) = {"background"}
    BY DEF Gone, InitDies
  <2> QED BY <2>1, <2>2, WithoutFields DEF Moved
<1> QED BY <1>1, <1>2, <1>3 DEF CommandSteps

LEMMA MovesKeepCall ==
  ASSUME TreeInv, TreeMoves
  PROVE  TreeInv'
<1>1. /\ TreeTypeOK /\ TreeShape /\ CallInv /\ tree.alive # {}
      /\ SetupSteps \/ CommandSteps
      /\ UNCHANGED <<pc, outcome, killed, launches>>
  BY DEF TreeInv, TreeMoves
<1>2. TreeTypeOK' /\ TreeShape'
  BY <1>1, SetupKeepsShape, CommandKeepsShape
<1>3. Moved
  BY <1>1, SetupMoves, CommandMoves
<1>4. launches' # 0 /\ (pc' = "running" => ~killed')
  BY <1>1 DEF CallInv, NoTree
<1>5. ~tree.isolated /\ tree.alive \subseteq {"background"} =>
        tree'.alive = {} /\ tree'.isolated = tree.isolated
  BY <1>1, OnlyBackgroundEnds, BackgroundOnly
<1>6. tree.alive \subseteq Escaped => ~tree.isolated /\ tree.alive \subseteq {"background"}
  BY <1>1 DEF Escaped
<1>7. pc' = "killing" =>
          /\ killed' /\ tree'.listed
          /\ "background" \in tree'.alive /\ tree'.place = "session" /\ ~tree'.isolated
                /\ tree'.terminates /\ tree'.lists => tree'.missed
  BY <1>1, <1>3 DEF CallInv, Moved
<1>8. pc' = "draining" /\ killed' /\ tree'.terminates => tree'.alive \subseteq Escaped'
  BY <1>1, <1>3, <1>5, <1>6 DEF CallInv, Moved
<1>9. pc' = "draining" /\ ~killed' => "leader" \notin tree'.alive
  BY <1>1, <1>3 DEF CallInv, Moved
<1>10. tree'.stage = "staged" /\ "init" \notin tree'.alive => Lost'
  BY <1>1, <1>3 DEF CallInv, Moved, Lost
<1>11. tree'.isolated /\ "leader" \notin tree'.alive =>
          tree'.alive = {} \/ tree'.stage = "failed" \/ Lost'
  BY <1>1, <1>3 DEF CallInv, Moved, Lost
<1>12. ReportedIsOver'
  BY <1>1, <1>3, <1>5, <1>6 DEF CallInv, Moved, ReportedIsOver
<1> QED
  BY <1>1, <1>2, <1>4, <1>7, <1>8, <1>9, <1>10, <1>11, <1>12 DEF TreeInv, CallInv

-----------------------------------------------------------------------------
(* The steps of the call.                                                  *)

(* As long as nothing is launched there is nothing to end.                  *)
LEMMA NothingLaunched ==
  ASSUME TreeInv, launches = 0, UNCHANGED <<tree, killed, launches>>, pc' \notin Launched
  PROVE  TreeInv'
<1>1. tree' = NoTree /\ ~killed' /\ launches' = 0 /\ TreeTypeOK'
  BY DEF TreeInv, CallInv, TreeTypeOK
<1> HIDE DEF TreeTypeOK
<1>2. /\ tree'.alive = {} /\ tree'.stage = "none" /\ ~tree'.isolated
      /\ ~tree'.terminates /\ ~tree'.staging
  BY <1>1 DEF NoTree
<1>3. TreeShape'
  BY <1>2 DEF TreeShape
<1>4. CallInv'
  BY <1>1, <1>2 DEF CallInv, ReportedIsOver, Launched
<1> QED BY <1>1, <1>3, <1>4 DEF TreeInv

(* What does not concern the processes.                                     *)
LEMMA NothingDone ==
  ASSUME TreeInv, UNCHANGED <<tree, killed, launches, pc, outcome>>
  PROVE  TreeInv'
  BY DEF TreeInv, TreeTypeOK, TreeShape, CallInv, Launched, ReportedIsOver, Lost, Escaped

LEMMA LaunchForks ==
  ASSUME NEW policy \in Policies \cup Grants, Launch(policy), launches = 0, outcome = "none"
  PROVE  TreeInv'
<1> DEFINE process  == Effective(setting.backend, policy).process
           isolated == process.visibility = "isolated"
           grouped  == setting.backend = "linux" \/ process.terminates
           lists    == setting.backend = "linux"
<1>1. process.terminates \in BOOLEAN
  BY PoliciesAssumption
     DEF ProcessPolicies, Effective, Weakened, Dimensions
<1>2. isolated \in BOOLEAN /\ grouped \in BOOLEAN /\ lists \in BOOLEAN
  BY <1>1
<1>3. PICK scoped \in BOOLEAN : tree' = Forked(setting.backend, process, scoped)
  BY DEF Launch
<1>4. tree' = [NoTree EXCEPT !.isolated = isolated, !.scoped = scoped, !.grouped = grouped,
                  !.lists = lists, !.terminates = process.terminates, !.alive = {"leader"},
                  !.stage = IF isolated THEN "forking" ELSE "executing"]
  BY <1>3 DEF Forked
<1>5. process.terminates => grouped
  OBVIOUS
<1> DEFINE terminates == process.terminates
<1>6. terminates \in BOOLEAN /\ (terminates => grouped)
  BY <1>1, <1>5
<1>7. tree' = [NoTree EXCEPT !.isolated = isolated, !.scoped = scoped, !.grouped = grouped,
                  !.lists = lists, !.terminates = terminates, !.alive = {"leader"},
                  !.stage = IF isolated THEN "forking" ELSE "executing"]
  BY <1>4
<1> HIDE DEF isolated, grouped, lists, terminates
<1>8. /\ tree'.isolated = isolated /\ tree'.alive = {"leader"} /\ tree'.staging = FALSE
      /\ tree'.terminates = terminates /\ tree'.grouped = grouped
      /\ tree'.stage = IF isolated THEN "forking" ELSE "executing"
  BY <1>7 DEF NoTree
<1>9. TreeTypeOK'
  <2> DEFINE stage == IF isolated THEN "forking" ELSE "executing"
  <2>1. stage \in Stages /\ "none" \in Places /\ {"leader"} \in SUBSET Members
    BY DEF Stages, Places, Members
  <2> HIDE DEF stage
  <2>2. tree' = [isolated |-> isolated, scoped |-> scoped, grouped |-> grouped,
                 lists |-> lists, terminates |-> terminates, stage |-> stage,
                 armed |-> FALSE, staging |-> FALSE, place |-> "none", pipe |-> FALSE,
                 listed |-> FALSE, missed |-> FALSE, alive |-> {"leader"}]
    BY <1>7 DEF NoTree, stage
  <2> QED BY <1>2, <1>6, <2>1, <2>2 DEF TreeTypeOK
<1>10. TreeShape'
  BY <1>6, <1>8 DEF TreeShape
<1>11. pc' = "running" /\ killed' = FALSE /\ launches' = 1 /\ outcome' = "none"
  BY DEF Launch
<1>12. tree'.stage # "staged" /\ "leader" \in tree'.alive
  BY <1>8
<1>13. CallInv'
  BY <1>11, <1>12 DEF CallInv, ReportedIsOver
<1> QED BY <1>9, <1>10, <1>13 DEF TreeInv

(* The leader has ended.                                                    *)
LEMMA WaitKeepsTree ==
  ASSUME TreeInv, LaunchInv, WaitReturns
  PROVE  TreeInv'
<1>1. /\ TreeTypeOK /\ TreeShape /\ CallInv /\ UNCHANGED tree
      /\ pc = "running" /\ pc' = "draining" /\ outcome = "none" /\ outcome' = "none"
      /\ UNCHANGED <<killed, launches>> /\ "leader" \notin tree.alive
  BY DEF TreeInv, WaitReturns, Alongside, Alive, LaunchInv
<1>2. TreeTypeOK' /\ TreeShape'
  BY <1>1 DEF TreeTypeOK, TreeShape
<1>3. CallInv'
  BY <1>1 DEF CallInv, Launched, Lost, ReportedIsOver, Escaped
<1> QED BY <1>2, <1>3 DEF TreeInv

(* The children are killed that the leader has, if it is still there.       *)
LEMMA KillsListed ==
  ASSUME TreeInv, LaunchInv, KillChildren
  PROVE  TreeInv'
<1> DEFINE t      == Without(Listed)
           missed == ~Alive("leader")
<1>1. /\ TreeTypeOK /\ TreeShape /\ CallInv
      /\ pc = "running" /\ pc' = "killing" /\ killed' /\ outcome' = "none"
      /\ launches' = launches
  BY DEF TreeInv, KillChildren, Alongside, LaunchInv
<1>2. tree' = [t EXCEPT !.listed = TRUE, !.missed = missed]
  BY DEF KillChildren, ChildrenKilled
<1>3. missed \in BOOLEAN
  BY DEF Alive
<1>4. /\ t \in [isolated : BOOLEAN, scoped : BOOLEAN, grouped : BOOLEAN,
                lists : BOOLEAN, terminates : BOOLEAN, stage : Stages,
                armed : BOOLEAN, staging : BOOLEAN, place : Places,
                pipe : BOOLEAN, listed : BOOLEAN, missed : BOOLEAN,
                alive : SUBSET Members]
      /\ t.isolated = tree.isolated /\ t.grouped = tree.grouped /\ t.lists = tree.lists
      /\ t.terminates = tree.terminates /\ t.stage = tree.stage
      /\ t.staging = tree.staging /\ t.place = tree.place
      /\ t.alive = tree.alive \ Gone(Listed)
  BY <1>1, WithoutFields
<1>5. /\ "leader" \in tree.alive /\ tree.terminates /\ tree.lists /\ tree.place = "session"
           => "background" \in Gone(Listed)
      /\ missed <=> "leader" \notin tree.alive
  BY DEF Listed, Children, Gone, Alive
<1> HIDE DEF t, missed
<1>6. /\ tree'.isolated = tree.isolated /\ tree'.grouped = tree.grouped
      /\ tree'.lists = tree.lists /\ tree'.terminates = tree.terminates
      /\ tree'.stage = tree.stage /\ tree'.staging = tree.staging
      /\ tree'.place = tree.place /\ tree'.alive = tree.alive \ Gone(Listed)
      /\ tree'.listed = TRUE /\ tree'.missed = missed
  BY <1>2, <1>4
<1>7. TreeTypeOK'
  BY <1>2, <1>3, <1>4 DEF TreeTypeOK
<1>8. TreeShape'
  BY <1>1, <1>6 DEF TreeShape
<1>9. CallInv'
  BY <1>1, <1>5, <1>6 DEF CallInv, Launched, Lost, ReportedIsOver
<1> QED BY <1>7, <1>8, <1>9 DEF TreeInv

(* The group is killed, and with it whatever can be reached.                *)
LEMMA KillsReached ==
  ASSUME TreeInv, LaunchInv, KillGroup
  PROVE  TreeInv'
<1> DEFINE dead == {"leader"} \cup Grouped
<1>1. /\ TreeTypeOK /\ TreeShape /\ CallInv
      /\ pc = "killing" /\ pc' = "draining" /\ killed /\ killed' /\ outcome' = "none"
      /\ launches' = launches /\ tree' = Without(dead)
  BY DEF TreeInv, KillGroup, Alongside, LaunchInv, CallInv, GroupKilled
<1>2. tree.terminates => Grouped = Group
  BY <1>1 DEF Grouped, TreeShape
<1>3. "leader" \in Gone(dead)
  BY DEF Gone
<1>4. tree.terminates =>
        /\ "init" \in Gone(dead)
        /\ tree.isolated => Members \subseteq Gone(dead)
        /\ tree.place = "grouped" => "background" \in Gone(dead)
  BY <1>2 DEF Group, Gone, InitDies
<1> HIDE DEF dead
<1>5. /\ TreeTypeOK'
      /\ tree'.isolated = tree.isolated /\ tree'.grouped = tree.grouped
      /\ tree'.lists = tree.lists /\ tree'.terminates = tree.terminates
      /\ tree'.stage = tree.stage /\ tree'.staging = tree.staging
      /\ tree'.place = tree.place /\ tree'.missed = tree.missed
      /\ tree'.alive = tree.alive \ Gone(dead)
  BY <1>1, WithoutFields DEF TreeTypeOK
<1>6. TreeShape'
  BY <1>1, <1>5 DEF TreeShape
<1>7. tree'.terminates => tree'.alive \subseteq Escaped'
  <2>1. tree.alive \subseteq Members /\ tree.place \in Places
    BY <1>1 DEF TreeTypeOK
  <2>2. tree.isolated /\ tree.terminates => tree'.alive = {}
    BY <2>1, <1>4, <1>5
  <2>3. tree.terminates => tree'.alive \subseteq {"background"}
    BY <2>1, <1>3, <1>4, <1>5 DEF Members
  <2>4. tree.terminates /\ "background" \in tree'.alive =>
          /\ "background" \in tree.alive /\ tree.place \in {"session", "detached"}
          /\ ~tree.isolated
    BY <2>1, <2>2, <1>1, <1>4, <1>5 DEF TreeShape, Places
  <2>5. tree.terminates /\ "background" \in tree'.alive =>
          \/ tree.place = "detached"
          \/ tree.place = "session" /\ (tree.missed \/ ~tree.lists)
    BY <2>4, <1>1 DEF CallInv
  <2> QED BY <2>3, <2>4, <2>5, <1>5 DEF Escaped
<1>8. CallInv'
  BY <1>1, <1>3, <1>5, <1>7 DEF CallInv, Launched, Lost, ReportedIsOver
<1> QED BY <1>5, <1>6, <1>8 DEF TreeInv

(* The output has ended: of what was terminated only what escaped is left,  *)
(* and of what ended by itself only what it left behind.                    *)
LEMMA DrainedKeepsTree ==
  ASSUME TreeInv, LaunchInv, pc = "draining", Drained
  PROVE  TreeInv'
<1>1. TreeTypeOK /\ TreeShape /\ CallInv /\ outcome = "none"
  BY DEF TreeInv, LaunchInv
<1>2. ASSUME NEW r \in Outcomes \ {"none", "budget", "aborted"},
             Finish(r), UNCHANGED host, UNCHANGED running,
             r = "timedOut" => killed,
             r \in {"completed", "tooLarge"} => ~killed /\ tree.stage # "failed"
      PROVE  TreeInv'
  <2>1. /\ UNCHANGED <<tree, killed, launches>> /\ pc' = "done" /\ outcome' = r
        /\ tree.alive \subseteq Members
    BY <1>1, <1>2 DEF Finish, running, TreeTypeOK
  <2>2. r = "timedOut" /\ tree.terminates => tree.alive \subseteq Escaped
    BY <1>1, <1>2 DEF CallInv
  <2>3. ~killed => "leader" \notin tree.alive
    BY <1>1 DEF CallInv
  <2>4. r \in {"completed", "tooLarge"} =>
          tree.alive \subseteq (IF tree.isolated THEN {} ELSE {"background"})
    BY <1>1, <1>2, <2>1, <2>3 DEF CallInv, TreeShape, Lost, Members
  <2>5. ReportedIsOver'
    BY <2>1, <2>2, <2>4 DEF ReportedIsOver, Escaped
  <2>6. TreeTypeOK' /\ TreeShape'
    BY <1>1, <2>1 DEF TreeTypeOK, TreeShape
  <2>7. CallInv'
    BY <1>1, <2>1, <2>5 DEF CallInv, Launched, Lost
  <2> QED BY <2>6, <2>7 DEF TreeInv
<1>3. CASE tree.stage = "failed"
  BY <1>2, <1>3 DEF Drained, Ends, Outcomes
<1>4. CASE tree.stage # "failed" /\ killed
  BY <1>2, <1>4 DEF Drained, Ends, Outcomes
<1>5. CASE tree.stage # "failed" /\ ~killed /\ Violation
  BY <1>2, <1>5 DEF Violation, Outcomes
<1>6. CASE tree.stage # "failed" /\ ~killed /\ Completed
  <2>1. PICK r \in {"tooLarge", "completed"} : Ends(r)
    BY <1>6 DEF Completed
  <2> QED BY <1>2, <1>6, <2>1 DEF Ends, Outcomes
<1> QED BY <1>3, <1>4, <1>5, <1>6 DEF Drained

(* The dropped future: whatever is killed or left, the call was lost.       *)
LEMMA AbandonKeepsTree ==
  ASSUME TreeInv, LaunchInv, NEW r \in {"budget", "aborted"}, pc \in Awaiting, Abandon(r)
  PROVE  TreeInv'
<1>1. /\ TreeTypeOK /\ TreeShape /\ CallInv /\ UNCHANGED <<killed, launches>>
      /\ pc' = "done" /\ outcome' = r
  BY DEF TreeInv, Abandon, Finish
<1>2. \/ tree' = tree /\ tree.isolated
      \/ \E dead : tree' = Without(dead)
  BY DEF Abandon, Dropped, AllKilled
<1>3. /\ TreeTypeOK'
      /\ tree'.isolated = tree.isolated /\ tree'.grouped = tree.grouped
      /\ tree'.terminates = tree.terminates /\ tree'.stage = tree.stage
      /\ tree'.staging = tree.staging /\ tree'.place = tree.place
      /\ tree'.alive \subseteq tree.alive
  <2>1. CASE tree' = tree
    BY <1>1, <2>1 DEF TreeTypeOK
  <2>2. ASSUME NEW dead, tree' = Without(dead)
        PROVE  <1>3!:
    BY <1>1, <2>2, WithoutFields DEF TreeTypeOK
  <2> QED BY <1>2, <2>1, <2>2
<1>4. TreeShape'
  BY <1>1, <1>3 DEF TreeShape
<1>5. launches = 0 => tree' = NoTree
  <2>1. launches = 0 => tree = NoTree /\ pc # "running"
    BY <1>1 DEF CallInv, Launched
  <2>2. launches = 0 => tree' = Without({"leader"})
    BY <2>1 DEF Abandon, Dropped, NoTree
  <2>3. ASSUME tree = NoTree
        PROVE  Without({"leader"}) = NoTree
    <3>1. tree.alive \ Gone({"leader"}) = tree.alive
      BY <2>3 DEF NoTree
    <3> QED BY <2>3, <3>1 DEF Without, NoTree
  <2> QED BY <2>1, <2>2, <2>3
<1>6. CallInv'
  BY <1>1, <1>5 DEF CallInv, Launched, Lost, ReportedIsOver
<1> QED BY <1>3, <1>4, <1>6 DEF TreeInv

-----------------------------------------------------------------------------
(* The invariant of the whole: with the types, what a launched command runs *)
(* under is what its backend gave it.                                      *)
UsingInv == \A policy \in using : Resolves(setting.backend, policy)

ExecInv == TypeOK /\ LaunchInv /\ TreeInv /\ UsingInv

LEMMA ExecInit == Init => ExecInv
<1> SUFFICES ASSUME Init PROVE ExecInv
  OBVIOUS
<1>1. TreeTypeOK
  BY DEF Init, TreeTypeOK, NoTree, Stages, Places
<1>2. (pc = "done") = (outcome # "none")
  BY DEF Init
<1>3. pc \in Points /\ outcome \in Outcomes /\ 0 \in 0..MaxAttempts
  BY AttemptsAssumption DEF Init, Points, Outcomes
<1>4. TypeOK /\ UsingInv
  BY <1>1, <1>2, <1>3 DEF Init, TypeOK, UsingInv
<1>5. TreeShape /\ CallInv
  BY DEF Init, TreeShape, CallInv, NoTree, Launched, ReportedIsOver
<1> QED BY <1>1, <1>4, <1>5, LaunchInvInit DEF ExecInv, TreeInv

(* The policy of the workspace and those of the authorizer.                 *)
LEMMA KnownPolicies ==
  ASSUME TypeOK
  PROVE  setting.policy \in Policies /\ grant \subseteq Grants
  BY DEF TypeOK

LEMMA RunsKeepTree ==
  ASSUME LaunchInv, TreeInv, pc \in {"resolving", "authorizing"},
         NEW policy \in Policies \cup Grants, RunsUnder(policy)
  PROVE  TreeInv'
<1>1. launches = 0 /\ outcome = "none"
  BY DEF LaunchInv, Unlaunched
<1>2. CASE Launch(policy)
  BY <1>1, <1>2, LaunchForks
<1>3. CASE CancelledFirst \/ NotLaunched
  <2>1. UNCHANGED <<tree, killed, launches>> /\ pc' = "done"
    BY <1>3 DEF CancelledFirst, NotLaunched, Finish, running
  <2> QED BY <1>1, <2>1, NothingLaunched DEF Launched
<1> QED BY <1>2, <1>3 DEF RunsUnder

LEMMA AuthorizeKeepsTree ==
  ASSUME TypeOK, LaunchInv, TreeInv, Authorize
  PROVE  TreeInv'
<1>1. PICK policy \in grant :
        IF Widens(policy) THEN RunsUnder(policy)
        ELSE Finish("error") /\ UNCHANGED host /\ UNCHANGED running
  BY DEF Authorize
<1>2. pc = "authorizing" /\ launches = 0 /\ policy \in Policies \cup Grants
  BY KnownPolicies DEF Authorize, LaunchInv, Unlaunched
<1>3. CASE Widens(policy)
  BY <1>1, <1>2, <1>3, RunsKeepTree
<1>4. CASE ~Widens(policy)
  <2>1. UNCHANGED <<tree, killed, launches>> /\ pc' = "done"
    BY <1>1, <1>4 DEF Finish, running
  <2> QED BY <1>2, <2>1, NothingLaunched DEF Launched
<1> QED BY <1>3, <1>4

LEMMA ExecTree ==
  ASSUME TypeOK, LaunchInv, TreeInv, Next
  PROVE  TreeInv'
<1>1. CASE (\E policy \in Grants : Grant(policy)) \/ Revoke \/ Abort \/ ToolTimesOut
  BY <1>1, NothingDone DEF Grant, Revoke, Abort, ToolTimesOut, Alongside, running
<1>2. CASE \/ Resume \/ CallRefused \/ Call \/ ResolverFails \/ PreflightFails
           \/ PreflightRejects \/ RequireApproval \/ AuthorizerRefuses
  <2>1. UNCHANGED <<tree, killed, launches>> /\ pc' \notin Launched
    BY <1>2 DEF Resume, CallRefused, Call, ResolverFails, PreflightFails, PreflightRejects,
                RequireApproval, AuthorizerRefuses, Finish, running, Launched
  <2>2. launches = 0
    BY <1>2 DEF LaunchInv, Unlaunched, Resume, CallRefused, Call, ResolverFails,
                PreflightFails, PreflightRejects, RequireApproval, AuthorizerRefuses
  <2> QED BY <2>1, <2>2, NothingLaunched
<1>3. CASE PreflightAllows
  BY <1>3, KnownPolicies, RunsKeepTree DEF PreflightAllows
<1>4. CASE Authorize
  BY <1>4, AuthorizeKeepsTree
<1>5. CASE WaitReturns \/ KillChildren \/ KillGroup
  BY <1>5, WaitKeepsTree, KillsListed, KillsReached
<1>6. CASE Drains \/ DrainsAtCap
  BY <1>6, DrainedKeepsTree DEF Drains, DrainsAtCap
<1>7. CASE TreeMoves
  BY <1>7, MovesKeepCall
<1>8. CASE BudgetExpires \/ AbortDrops
  BY <1>8, AbandonKeepsTree DEF BudgetExpires, AbortDrops, InTime
<1> QED
  BY <1>1, <1>2, <1>3, <1>4, <1>5, <1>6, <1>7, <1>8 DEF Next, ToolSteps

(* The types of what a step of the call changes.                            *)
CallTypes ==
    /\ pc' \in Points /\ outcome' \in Outcomes
    /\ (pc' = "done") = (outcome' # "none")
    /\ rejected' \in BOOLEAN /\ cancelled' \in BOOLEAN /\ killed' \in BOOLEAN
    /\ using' = using \/ \E policy \in Policies \cup Grants :
                            using' = {policy} /\ Resolves(setting.backend, policy)

LEMMA RunsKeepTypes ==
  ASSUME TypeOK, pc # "done", NEW policy \in Policies \cup Grants, RunsUnder(policy)
  PROVE  CallTypes
<1>1. outcome = "none"
  BY DEF TypeOK
<1>2. CASE Launch(policy)
  BY <1>1, <1>2 DEF Launch, CallTypes, TypeOK, Points, Awaiting, Outcomes
<1>3. CASE CancelledFirst
  BY <1>3 DEF CancelledFirst, Finish, running, CallTypes, TypeOK, Points, Outcomes
<1>4. CASE NotLaunched
  BY <1>4 DEF NotLaunched, Finish, running, CallTypes, TypeOK, Points, Outcomes
<1> QED BY <1>2, <1>3, <1>4 DEF RunsUnder

LEMMA EndsKeepTypes ==
  ASSUME TypeOK, NEW r \in Outcomes \ {"none"}, Finish(r),
         UNCHANGED <<rejected, using, cancelled, killed>>
  PROVE  CallTypes
  BY DEF Finish, CallTypes, TypeOK, Points

LEMMA StepTypes ==
  ASSUME TypeOK, Next
  PROVE  CallTypes
<1>1. CASE (\E policy \in Grants : Grant(policy)) \/ Revoke \/ Abort \/ TreeMoves
  BY <1>1 DEF Grant, Revoke, Abort, TreeMoves, running, CallTypes, TypeOK
<1>2. CASE ToolTimesOut
  BY <1>2 DEF ToolTimesOut, Cancel, Alongside, CallTypes, TypeOK
<1>3. CASE Resume \/ Call \/ PreflightRejects
  <2>1. pc' \in Points \ {"done"} /\ outcome' = "none"
    BY <1>3 DEF Resume, Call, PreflightRejects, TypeOK, Points, Awaiting
  <2>2. rejected' \in BOOLEAN /\ UNCHANGED <<using, cancelled, killed>>
    BY <1>3 DEF Resume, Call, PreflightRejects, running, TypeOK
  <2> QED BY <2>1, <2>2 DEF CallTypes, TypeOK, Outcomes
<1>4. CASE WaitReturns \/ KillChildren \/ KillGroup
  BY <1>4 DEF WaitReturns, KillChildren, KillGroup, Alongside, CallTypes, TypeOK, Points,
              Awaiting
<1>5. CASE \/ CallRefused \/ ResolverFails \/ PreflightFails \/ RequireApproval
           \/ AuthorizerRefuses
  BY <1>5, EndsKeepTypes
     DEF CallRefused, ResolverFails, PreflightFails, RequireApproval, AuthorizerRefuses,
         running, Outcomes
<1>6. CASE PreflightAllows
  BY <1>6, KnownPolicies, RunsKeepTypes DEF PreflightAllows
<1>7. CASE Authorize
  <2>1. PICK policy \in grant :
          IF Widens(policy) THEN RunsUnder(policy)
          ELSE Finish("error") /\ UNCHANGED host /\ UNCHANGED running
    BY <1>7 DEF Authorize
  <2>2. CASE Widens(policy)
    BY <1>7, <2>1, <2>2, KnownPolicies, RunsKeepTypes DEF Authorize
  <2>3. CASE ~Widens(policy)
    BY <2>1, <2>3, EndsKeepTypes DEF running, Outcomes
  <2> QED BY <2>2, <2>3
<1>8. CASE Drains \/ DrainsAtCap
  <2>1. Drained
    BY <1>8 DEF Drains, DrainsAtCap
  <2>2. ASSUME NEW r \in Outcomes \ {"none"}, Ends(r)
        PROVE  CallTypes
    BY <2>2, EndsKeepTypes DEF Ends, running
  <2>3. \E r \in Outcomes \ {"none"} : Ends(r)
    BY <2>1 DEF Drained, Violation, Ends, Completed, Outcomes
  <2> QED BY <2>2, <2>3
<1>9. CASE BudgetExpires \/ AbortDrops
  BY <1>9, EndsKeepTypes DEF BudgetExpires, AbortDrops, Abandon, Outcomes
<1> QED
  BY <1>1, <1>2, <1>3, <1>4, <1>5, <1>6, <1>7, <1>8, <1>9 DEF Next, ToolSteps

(* The host changes the grant, which it then has granted; a call counts its *)
(* attempt, and no other one is counted.                                    *)
HostTypes ==
    /\ setting' = setting /\ abort' \in BOOLEAN
    /\ grant' \subseteq granted' /\ granted' \subseteq Grants
    /\ attempts' \in 0..MaxAttempts

LEMMA HostStepTypes ==
  ASSUME TypeOK, Next
  PROVE  HostTypes
<1>1. CASE host' = host
  BY <1>1 DEF host, HostTypes, TypeOK
<1>2. CASE (\E policy \in Grants : Grant(policy)) \/ Revoke \/ Abort \/ Resume \/ TreeMoves
  BY <1>2 DEF Grant, Revoke, Abort, Resume, TreeMoves, HostTypes, TypeOK
<1>3. CASE CallRefused \/ Call
  BY <1>3, AttemptsAssumption DEF CallRefused, Call, HostTypes, TypeOK
<1>4. CASE Authorize \/ PreflightAllows
  BY <1>1, <1>4 DEF Authorize, PreflightAllows, RunsUnder, Launch, CancelledFirst, NotLaunched
<1>5. CASE Drains \/ DrainsAtCap
  BY <1>1, <1>5 DEF Drains, DrainsAtCap, Drained, Ends, Violation, Completed
<1>6. CASE \/ ResolverFails \/ PreflightFails \/ PreflightRejects \/ RequireApproval
           \/ AuthorizerRefuses \/ WaitReturns \/ KillChildren \/ KillGroup \/ ToolTimesOut
           \/ BudgetExpires \/ AbortDrops
  BY <1>1, <1>6
     DEF ResolverFails, PreflightFails, PreflightRejects, RequireApproval,
         AuthorizerRefuses, WaitReturns, KillChildren, KillGroup, ToolTimesOut,
         BudgetExpires, AbortDrops, Abandon, Alongside
<1> QED
  BY <1>2, <1>3, <1>4, <1>5, <1>6 DEF Next, ToolSteps

LEMMA ExecInductive == ExecInv /\ [Next]_vars => ExecInv'
<1>1. ASSUME ExecInv, Next
      PROVE  ExecInv'
  <2>1. LaunchInv' /\ TreeInv'
    BY <1>1, LaunchInvInductive, ExecTree DEF ExecInv
  <2>2. CallTypes /\ HostTypes
    BY <1>1, StepTypes, HostStepTypes DEF ExecInv
  <2>3. launches' \in 0..MaxAttempts
    BY <2>1, AttemptsAssumption DEF LaunchInv
  <2>4. using' \subseteq Policies \cup Grants /\ UsingInv'
    BY <1>1, <2>2 DEF ExecInv, TypeOK, UsingInv, CallTypes, HostTypes
  <2>5. TypeOK'
    BY <1>1, <2>1, <2>2, <2>3, <2>4 DEF ExecInv, TypeOK, TreeInv, CallTypes, HostTypes
  <2> QED BY <2>1, <2>4, <2>5 DEF ExecInv
<1>2. ASSUME ExecInv, UNCHANGED vars
      PROVE  ExecInv'
  <2>1. LaunchInv'
    BY <1>2, LaunchInvInductive DEF ExecInv
  <2>2. TreeInv'
    BY <1>2, NothingDone DEF ExecInv, vars
  <2>3. TypeOK'
    BY <1>2 DEF ExecInv, TypeOK, vars, TreeTypeOK
  <2>4. UsingInv'
    BY <1>2 DEF ExecInv, UsingInv, vars
  <2> QED BY <2>1, <2>2, <2>3, <2>4 DEF ExecInv
<1> QED BY <1>1, <1>2

-----------------------------------------------------------------------------
(* Every variable has its type, whatever the policies, if what they ask of  *)
(* processes is a ProcessPolicy.                                            *)
THEOREM ExecTypeCorrect == Spec => []TypeOK
<1>1. ExecInv => TypeOK
  BY DEF ExecInv
<1> QED BY ExecInit, ExecInductive, <1>1, PTL DEF Spec

(* A command reported as ended by its timeout has no process left that the  *)
(* code's termination reaches, none at all if it was isolated, and one      *)
(* reported as completed has no shell left, nor anything that was isolated. *)
(* Not the complete tree, which sandbox/mod.rs:82-83 asks for.              *)
THEOREM ReportsAreTrue == Spec => []ReportedIsOver
<1>1. ExecInv => ReportedIsOver
  BY DEF ExecInv, TreeInv, CallInv
<1> QED BY ExecInit, ExecInductive, <1>1, PTL DEF Spec

(* Only a setup that was killed in the middle leaves its staging directory. *)
THEOREM StagingIsRemoved == Spec => []StagingRemoved
<1>1. ExecInv => StagingRemoved
  BY DEF ExecInv, TreeInv, TreeShape, CallInv, Lost, StagingRemoved
<1> QED BY ExecInit, ExecInductive, <1>1, PTL DEF Spec

(* sandbox/mod.rs:61-65: of every policy a command was launched under, each *)
(* dimension is what was asked for, or it may be weakened and is warned of. *)
THEOREM HonestResolution == Spec => []ResolutionIsHonest
<1>1. ExecInv => ResolutionIsHonest
  <2> SUFFICES ASSUME UsingInv, NEW policy \in using, NEW d \in Dimensions
               PROVE  \/ Effective(setting.backend, policy)[d] = policy[d].requested
                      \/ policy[d].fallback /\ d \in Warnings(setting.backend, policy)
    BY DEF ExecInv, ResolutionIsHonest
  <2>1. CASE d \in Lacking(setting.backend, policy)
    BY <2>1 DEF UsingInv, Resolves, Warnings
  <2>2. CASE d \notin Lacking(setting.backend, policy)
    BY <2>2 DEF Effective
  <2> QED BY <2>1, <2>2
<1> QED BY ExecInit, ExecInductive, <1>1, PTL DEF Spec
=============================================================================
