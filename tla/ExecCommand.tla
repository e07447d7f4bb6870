----------------------------- MODULE ExecCommand -----------------------------
(***************************************************************************)
(* One call of exec_command, from the registry that limits it to the       *)
(* processes a backend starts for it: preflight and authorization, the     *)
(* race of the command with its own timeout, the registry's time budget    *)
(* and the abort of the turn, termination, the draining of the output, and *)
(* the resumption of a call that was suspended for approval.               *)
(***************************************************************************)
EXTENDS SandboxPolicy, ProcessTree

CONSTANTS
    Backends,           \* subset of {"linux", "seatbelt"}
    Policies,           \* policies a workspace resolver may give
    Grants,             \* policies the host may grant
    Timeouts,           \* subset of {"zero", "short", "budget"}
    MaxAttempts         \* bound: times the call is made, resumptions included

ASSUME AttemptsAssumption == MaxAttempts \in Nat \ {0}
ASSUME PoliciesAssumption ==
    \A policy \in Policies \cup Grants : policy.process.requested \in ProcessPolicies

VARIABLES
    setting,            \* backend, workspace policy, timeout and approval handling
    grant,              \* ThreadExecAuthorizer: {} or the policy for this command
    granted,            \* history: every policy ever granted
    pc,                 \* where the call awaits
    rejected,           \* preflight found a violation in this attempt
    using,              \* {} or the policy the command was launched under
    cancelled,          \* the timeout has passed and set the CancellationToken
    killed,             \* the backend has terminated the command
    abort,              \* the turn's abort signal
    outcome,            \* what the call came to
    attempts,           \* bound: attempts made
    launches            \* history: times the command was launched

vars == <<setting, grant, granted, pc, rejected, using, cancelled, killed, abort,
          outcome, attempts, launches, tree>>
host    == <<setting, grant, granted, abort, attempts>>
running == <<rejected, using, cancelled, killed, launches, tree>>

Awaiting == {"resolving", "authorizing", "running", "draining"}
Points   == Awaiting \cup {"idle", "killing", "done"}
Outcomes == {"none", "error", "suspended", "completed", "timedOut", "cancelled",
             "tooLarge", "budget", "aborted"}

Init ==
    /\ setting \in [backend : Backends, policy : Policies, timeout : Timeouts,
                    suspends : BOOLEAN]
    /\ grant = {} /\ granted = {} /\ pc = "idle" /\ rejected = FALSE /\ using = {}
    /\ cancelled = FALSE /\ killed = FALSE /\ abort = FALSE /\ outcome = "none"
    /\ attempts = 0 /\ launches = 0 /\ tree = NoTree

(* The call comes back; the registry and the loop pass on what it came to.  *)
Finish(result) == pc' = "done" /\ outcome' = result

-----------------------------------------------------------------------------
(* The host: grants, revocations (bound: until the launch, after which no   *)
(* grant is read), the abort of the turn, and the approval of a suspended   *)
(* call, which makes the call again in an operation of its own.            *)

Grant(policy) ==
    /\ launches = 0 /\ grant # {policy}
    /\ grant' = {policy} /\ granted' = granted \cup {policy}
    /\ UNCHANGED <<setting, abort, attempts, pc, outcome>> /\ UNCHANGED running

Revoke ==
    /\ launches = 0 /\ grant # {} /\ grant' = {}
    /\ UNCHANGED <<setting, granted, abort, attempts, pc, outcome>> /\ UNCHANGED running

Abort ==
    /\ pc \in Awaiting /\ ~abort /\ abort' = TRUE
    /\ UNCHANGED <<setting, grant, granted, attempts, pc, outcome>> /\ UNCHANGED running

(* Mutant: the suspension stays the outcome of the call made again.         *)
ResumeUnreset ==
    /\ pc = "done" /\ outcome = "suspended" /\ attempts < MaxAttempts
    /\ pc' = "idle" /\ rejected' = FALSE /\ abort' = FALSE
    /\ UNCHANGED <<setting, grant, granted, attempts, outcome>>
    /\ UNCHANGED <<using, cancelled, killed, launches, tree>>

Resume ==
    /\ pc = "done" /\ outcome = "suspended" /\ attempts < MaxAttempts
    /\ pc' = "idle" /\ outcome' = "none" /\ rejected' = FALSE /\ abort' = FALSE
    /\ UNCHANGED <<setting, grant, granted, attempts>>
    /\ UNCHANGED <<using, cancelled, killed, launches, tree>>

-----------------------------------------------------------------------------
(* Before the launch.                                                      *)

(* No such function, limits of zero, or no command in the arguments.        *)
CallRefused ==
    /\ pc = "idle" /\ attempts < MaxAttempts /\ Finish("error")
    /\ attempts' = attempts + 1
    /\ UNCHANGED <<setting, grant, granted, abort>> /\ UNCHANGED running

Call ==
    /\ pc = "idle" /\ attempts < MaxAttempts /\ pc' = "resolving"
    /\ attempts' = attempts + 1
    /\ UNCHANGED <<setting, grant, granted, abort, outcome>> /\ UNCHANGED running

ResolverFails ==
    pc = "resolving" /\ Finish("error") /\ UNCHANGED host /\ UNCHANGED running

(* A policy the backend cannot give is an error.  The default preflight     *)
(* finds no violation; that of an embedder's backend may.                  *)
PreflightFails ==
    /\ pc = "resolving" /\ ~Resolves(setting.backend, setting.policy) /\ Finish("error")
    /\ UNCHANGED host /\ UNCHANGED running

PreflightRejects ==
    /\ pc = "resolving" /\ Resolves(setting.backend, setting.policy)
    /\ pc' = "authorizing" /\ rejected' = TRUE
    /\ UNCHANGED host /\ UNCHANGED <<using, cancelled, killed, launches, tree, outcome>>

(* run_sandbox: backend.execute resolves the policy again, and may fail to  *)
(* spawn.                                                                  *)
Launch(policy) ==
    /\ Resolves(setting.backend, policy)
    /\ pc' = "running" /\ using' = {policy} /\ launches' = launches + 1
    /\ cancelled' = FALSE /\ killed' = FALSE
    /\ LET applied == Effective(setting.backend, policy)
       IN  tree' = Forked(setting.backend, applied.process,
                          applied.filesystem.kind = "scoped"
                              /\ applied.filesystem.base # applied.filesystem.visible)
    /\ UNCHANGED host /\ UNCHANGED <<rejected, outcome>>

(* A timeout of zero, or an abort the loop has not seen yet, may be seen    *)
(* before the backend is asked: it then answers Cancelled at once.         *)
CancelledFirst ==
    /\ \/ abort /\ Finish("cancelled")
       \/ setting.timeout = "zero" /\ Finish("timedOut")
    /\ UNCHANGED host /\ UNCHANGED running

NotLaunched == Finish("error") /\ UNCHANGED host /\ UNCHANGED running

RunsUnder(policy) == Launch(policy) \/ CancelledFirst \/ NotLaunched

PreflightAllows ==
    /\ pc = "resolving" /\ Resolves(setting.backend, setting.policy)
    /\ RunsUnder(setting.policy)

-----------------------------------------------------------------------------
(* handle_policy_violation.                                                *)

(* Mutant: a grant is taken whatever it says.                               *)
AnyGrant(policy) == TRUE

(* The policy that was just rejected is no answer to its rejection.         *)
Widens(policy) == policy # setting.policy

Authorize ==
    /\ pc = "authorizing" /\ grant # {}
    /\ \E policy \in grant :
        IF Widens(policy) THEN RunsUnder(policy)
        ELSE Finish("error") /\ UNCHANGED host /\ UNCHANGED running

RequireApproval ==
    /\ pc = "authorizing" /\ grant = {}
    /\ Finish(IF setting.suspends THEN "suspended" ELSE "error")
    /\ UNCHANGED host /\ UNCHANGED running

(* The authorizer denies, or its lookup fails.                              *)
AuthorizerRefuses ==
    pc = "authorizing" /\ Finish("error") /\ UNCHANGED host /\ UNCHANGED running

-----------------------------------------------------------------------------
(* The command runs: its own steps, its timeout, and its termination.       *)

Alongside == UNCHANGED host /\ UNCHANGED <<rejected, using, launches>>

TreeMoves ==
    /\ tree.alive # {}
    /\ SetupSteps \/ CommandSteps
    /\ UNCHANGED <<setting, grant, granted, abort, attempts, pc, outcome>>
    /\ UNCHANGED <<rejected, using, cancelled, killed, launches>>

(* CancellationToken: once set it stays so, for whoever asks and when.      *)
Cancel == cancelled' = TRUE

(* A timeout that is no shorter than the registry's budget comes too late.  *)
ToolTimesOut ==
    /\ pc = "running" /\ ~cancelled /\ setting.timeout # "budget"
    /\ Cancel
    /\ Alongside /\ UNCHANGED <<pc, outcome, killed, tree>>

(* The backend's select: the leader ends, or the token is set.              *)
WaitReturns ==
    /\ pc = "running" /\ ~Alive("leader") /\ pc' = "draining"
    /\ Alongside /\ UNCHANGED <<outcome, cancelled, killed, tree>>

KillChildren ==
    /\ pc = "running" /\ cancelled
    /\ pc' = "killing" /\ killed' = TRUE /\ tree' = ChildrenKilled
    /\ Alongside /\ UNCHANGED <<outcome, cancelled>>

KillGroup ==
    /\ pc = "killing"
    /\ pc' = "draining" /\ tree' = GroupKilled
    /\ Alongside /\ UNCHANGED <<outcome, cancelled, killed>>

-----------------------------------------------------------------------------
(* The output has been read to its end, or to 20 MiB; no cancellation is    *)
(* looked at any more.  A launch failure is told by the marker; what was    *)
(* terminated was cancelled, by the timeout; an exit with permission text   *)
(* in stderr is a violation, and an error.  The rest completes; stdout and  *)
(* stderr are cut at max_output_bytes, and the registry discards a result   *)
(* whose JSON is longer than that, as it is when either was cut.            *)

(* Mutant: a violation found after the launch is authorized and retried.    *)
RetryViolation ==
    /\ pc' = "authorizing" /\ rejected' = TRUE
    /\ UNCHANGED host /\ UNCHANGED <<outcome, using, cancelled, killed, launches, tree>>

Violation == Finish("error") /\ UNCHANGED host /\ UNCHANGED running

Ends(result) == Finish(result) /\ UNCHANGED host /\ UNCHANGED running

Completed ==
    \E cut, long \in BOOLEAN : Ends(IF cut \/ long THEN "tooLarge" ELSE "completed")

Drained ==
    IF tree.stage = "failed" THEN Ends("error")
    ELSE IF killed THEN Ends("timedOut")
    ELSE \/ Violation
         \/ Completed

Drains == pc = "draining" /\ ~PipesOpen /\ Drained

DrainsAtCap == pc = "draining" /\ PipesOpen /\ Drained

-----------------------------------------------------------------------------
(* The future of the call is dropped, whatever it awaits: by the registry's *)
(* budget or by the loop, which looks for the abort first.  In the same     *)
(* poll the tool may have seen its timeout, or the abort, and terminated    *)
(* the command.                                                            *)

(* Mutant: the budget covers the command only as long as it runs.           *)
WhileItRuns(p) == p \in Awaiting \ {"draining"}

InTime(p) == p \in Awaiting

Abandon(result) ==
    /\ Finish(result)
    /\ \/ tree' = Dropped
       \/ pc = "running" /\ tree' = AllKilled
    /\ UNCHANGED host /\ UNCHANGED <<rejected, using, cancelled, killed, launches>>

BudgetExpires == InTime(pc) /\ Abandon("budget")

AbortDrops == pc \in Awaiting /\ abort /\ Abandon("aborted")

-----------------------------------------------------------------------------
ToolSteps ==
    \/ CallRefused \/ Call \/ ResolverFails \/ PreflightFails \/ PreflightRejects
    \/ PreflightAllows \/ Authorize \/ RequireApproval \/ AuthorizerRefuses
    \/ WaitReturns \/ KillChildren \/ KillGroup \/ Drains

Next ==
    \/ \E policy \in Grants : Grant(policy)
    \/ Revoke \/ Abort \/ Resume
    \/ ToolSteps
    \/ DrainsAtCap \/ TreeMoves \/ ToolTimesOut
    \/ BudgetExpires \/ AbortDrops

(* The runtime polls what is ready and its timer fires; nothing is assumed  *)
(* of the command, the tool's own timeout, the host, or an embedder's code. *)
Fairness == WF_vars(BudgetExpires) /\ WF_vars(KillGroup) /\ WF_vars(AbortDrops)

Spec == Init /\ [][Next]_vars /\ Fairness

-----------------------------------------------------------------------------
(* Every variable has its type.                                             *)
TypeOK ==
    /\ setting \in [backend : Backends, policy : Policies, timeout : Timeouts,
                    suspends : BOOLEAN]
    /\ grant \subseteq granted /\ granted \subseteq Grants
    /\ pc \in Points /\ outcome \in Outcomes /\ (pc = "done") = (outcome # "none")
    /\ using \subseteq Policies \cup Grants
    /\ rejected \in BOOLEAN /\ cancelled \in BOOLEAN /\ killed \in BOOLEAN /\ abort \in BOOLEAN
    /\ attempts \in 0..MaxAttempts /\ launches \in 0..MaxAttempts
    /\ TreeTypeOK

(* sandbox/mod.rs:52-54: a call that is suspended has not run, and one that *)
(* has run is never launched again, whatever is granted, revoked, resumed   *)
(* or found out afterwards.                                                *)
LaunchedAtMostOnce == launches <= 1 /\ (outcome = "suspended" => launches = 0)

(* A command is launched only under the workspace's own policy, if that was *)
(* not what preflight has rejected, or under another one the host granted.  *)
LaunchesAreApproved ==
    [][launches' > launches =>
          \E policy \in using' :
            \/ policy = setting.policy /\ ~rejected
            \/ policy \in granted /\ policy # setting.policy]_vars

(* A call the tool reports as ended by its timeout has no process left if   *)
(* it was isolated; otherwise its leader, its group and the children that   *)
(* were listed are gone, though children are listed, killed and left behind *)
(* in any order.  This is less than the complete tree sandbox/mod.rs:82-83  *)
(* asks for: a detached process of a command that sees the host's processes *)
(* survives, see Escaped.  Of a command that is reported as completed no    *)
(* shell is left, nor anything that was isolated.                           *)
ReportedIsOver ==
    /\ (outcome = "timedOut" /\ tree.terminates) => tree.alive \subseteq Escaped
    /\ outcome \in {"completed", "tooLarge"} =>
          tree.alive \subseteq (IF tree.isolated THEN {} ELSE {"background"})

(* The staging directory under the host's /tmp is left behind only by a     *)
(* setup that was killed in the middle, never by one that failed or by a    *)
(* command that came to run.                                               *)
StagingRemoved ==
    tree.staging => /\ tree.stage = "staged"
                    /\ "init" \in tree.alive \/ killed \/ outcome \in {"budget", "aborted"}

(* sandbox/mod.rs:61-65: what a command runs under is what was asked for,   *)
(* or, where the setting allows it, something that a warning tells of.      *)
ResolutionIsHonest ==
    \A policy \in using, d \in Dimensions :
        LET applied == Effective(setting.backend, policy)
        IN  \/ applied[d] = policy[d].requested
            \/ policy[d].fallback /\ d \in Warnings(setting.backend, policy)

(* Whatever the command does with its output pipes, a call comes to an end. *)
CallEnds == pc \notin {"idle", "done"} ~> pc = "done"
=============================================================================
