------------------------------ MODULE AgentLoop ------------------------------
(***************************************************************************)
(* canary-agent-runtime's turn loop (agent_loop.rs) over one thread:        *)
(* several agents run, recover, resume and abort turns of the same durable  *)
(* thread, each through its session coordinator's lease and the store's     *)
(* compare-and-commit, and any of them may be lost at any await.            *)
(*                                                                         *)
(* An agent's in-memory Thread is a copy of what it last loaded or          *)
(* committed; every commit is refused unless that copy's revision is still  *)
(* the stored one.  Since revisions only grow, a copy whose revision is     *)
(* current equals the stored thread, and one that is not can change nothing *)
(* durable: `base` keeps the copy's revision, and a step that commits reads *)
(* the stored thread itself.  Pushes made between two awaits are one step   *)
(* with the commit that follows them.                                       *)
(***************************************************************************)
EXTENDS ThreadLog

CONSTANTS
    Agents,             \* Agent values: each has its own active-turn registry
    Coordinators,       \* LocalSessionCoordinator instances
    CoordinatorOf,      \* the coordinator each agent was built with
    NonIdempotent,      \* calls to functions whose recovery_policy() says so
    Vetoed,             \* calls a before-hook rejects whenever it is asked
    MaxIterations,      \* turn_execution_limits.max_model_iterations
    MaxFunctionCalls,   \* turn_execution_limits.max_function_calls
    MaxTurns,           \* bound: calls of run_turn
    MaxContinuations,   \* bound: calls of recover_turn and resume_suspended_turn
    MaxDrops,           \* bound: agents lost in the middle of an operation
    MaxAborts           \* bound: calls of abort

NoAgent == "no agent"

ASSUME AgentsFinite   == IsFiniteSet(Agents) /\ NoAgent \notin Agents
ASSUME CoordinatorsOk == CoordinatorOf \in [Agents -> Coordinators]
ASSUME CallsOk        == NonIdempotent \subseteq Calls /\ Vetoed \subseteq Calls
ASSUME LimitsOk       == MaxIterations \in Nat /\ MaxFunctionCalls \in Nat

VARIABLES
    \* The thread file.
    rev,        \* Thread.revision
    status,     \* status of each turn
    log,        \* items of all turns
    \* Volatile.
    agent,      \* what each agent is doing
    lease,      \* per coordinator, the agent that holds the thread's lease
    outcome,    \* what the agent's last finished operation returned
    \* History.
    runs,       \* per call, how often its function's body was entered
    approvals,  \* per call, how many Approve resolutions were recorded
    spent       \* use of the bounds

vars == <<rev, status, log, agent, lease, outcome, runs, approvals, spent>>

-----------------------------------------------------------------------------
(* Agent state.  pc names the await the operation stands at.                *)
PC == {"idle", "acquire", "load", "openTurn",           \* entry
       "reply", "deny", "approve",                      \* resume, before its commit
       "recover", "model", "calls",                     \* loop heads
       "asking", "exec", "running", "finish"}           \* requests, final commit

Idle == [pc      |-> "idle",
         op      |-> "none",    \* "run", "recover", "resume"
         sid     |-> 0,         \* resume: the suspension id given
         answer  |-> "none",    \* resume: the SuspensionResolution
         base    |-> 0,         \* revision of the in-memory thread
         turn    |-> 0,         \* turn_id
         mode    |-> "none",    \* whose call it is: "live", "recover", "approve"
         queue   |-> <<>>,      \* calls of the batch not yet dealt with
         admit   |-> 0,         \* how many of them max_function_calls admits
         iter    |-> 0,         \* `iteration`
         count   |-> 0,         \* function_call_count
         result  |-> "none",    \* outcome the final commit will return
         newSid  |-> 0,         \* and its suspension
         abort   |-> FALSE]     \* the abort signal

Answers == {"approve", "deny", "userInput", "external"}
Outcomes == {"message", "suspended", "failed", "aborted", "error"}

AgentState ==
    [pc : PC, op : {"none", "run", "recover", "resume"}, sid : Nat,
     answer : Answers \cup {"none"}, base : Nat, turn : Nat,
     mode : {"none", "live", "recover", "approve"}, queue : Seq(Calls),
     admit : Nat, iter : Nat, count : Nat, result : Outcomes \cup {"none"},
     newSid : Nat, abort : BOOLEAN]

Current(a) == Head(agent[a].queue)

(* What pc says of the rest: an agent at a call has it at the head of its   *)
(* queue, and a live one was admitted; between calls there is no queue.     *)
WellFormed(s) ==
    /\ s.pc \in {"deny", "approve", "exec", "running"} => s.queue # <<>>
    /\ s.pc \in {"idle", "acquire", "load", "openTurn", "model", "asking", "finish"}
           => s.queue = <<>>
    /\ s.pc \in {"exec", "running"} =>
           s.mode # "none" /\ (s.mode = "live" => s.admit > 0)
    /\ s.pc = "recover" => s.mode = "recover"
    /\ s.pc = "calls" => s.mode = "live"
    /\ s.pc \in {"acquire", "load", "reply", "deny", "approve"} => s.mode = "none"

(* TypeOK: every variable stays within the shapes the code's types allow.   *)
TypeOK ==
    /\ rev \in Nat
    /\ status \in Seq(TurnStatus)
    /\ log \in Seq(TurnItem)
    /\ agent \in [Agents -> AgentState]
    /\ lease \in [Coordinators -> Agents \cup {NoAgent}]
    /\ outcome \in [Agents -> [kind : Outcomes \cup {"none"}, sid : Nat]]
    /\ runs \in [Calls -> Nat]
    /\ approvals \in [Calls -> Nat]
    /\ spent \in [turns : Nat, continuations : Nat, drops : Nat, aborts : Nat]
    /\ \A a \in Agents : WellFormed(agent[a])

Init ==
    /\ rev = 0 /\ status = <<>> /\ log = <<>>
    /\ agent = [a \in Agents |-> Idle]
    /\ lease = [k \in Coordinators |-> NoAgent]
    /\ outcome = [a \in Agents |-> [kind |-> "none", sid |-> 0]]
    /\ runs = [c \in Calls |-> 0]
    /\ approvals = [c \in Calls |-> 0]
    /\ spent = [turns |-> 0, continuations |-> 0, drops |-> 0, aborts |-> 0]

-----------------------------------------------------------------------------
(* Building blocks.                                                         *)

(* compare_and_commit, when it succeeds for agent a: `items` are appended.  *)
Persist(a, items) ==
    /\ agent[a].base = rev
    /\ rev' = rev + 1
    /\ log' = log \o items

SetStatus(t, s) == status' = [status EXCEPT ![t] = s]

Goto(a, next) == agent' = [agent EXCEPT ![a] = next]

(* Commit and go on: the in-memory thread becomes the committed one.        *)
CommitAndGoto(a, items, next) ==
    /\ Persist(a, items)
    /\ Goto(a, [next EXCEPT !.base = rev + 1])
    /\ UNCHANGED <<lease, outcome>>

(* Mutant: the lease outlives the operation.                                *)
ReturnKeepingLease(a, kind, sid) ==
    /\ Goto(a, Idle)
    /\ outcome' = [outcome EXCEPT ![a] = [kind |-> kind, sid |-> sid]]
    /\ UNCHANGED lease

(* The operation ends and tells its caller `kind`: the ActiveTurnGuard and  *)
(* the SessionLease are dropped.                                           *)
Return(a, kind, sid) ==
    /\ Goto(a, Idle)
    /\ outcome' = [outcome EXCEPT ![a] = [kind |-> kind, sid |-> sid]]
    /\ lease' = [lease EXCEPT ![CoordinatorOf[a]] = IF @ = a THEN NoAgent ELSE @]

(* Outputs for each call of a queue, all with the same result.              *)
OutputsFor(t, queue, result) ==
    [k \in 1..Len(queue) |-> ToolOutput(t, queue[k], result)]

Spend(what) == spent' = [spent EXCEPT ![what] = @ + 1]

-----------------------------------------------------------------------------
(* Callers.  While an agent is busy with the thread, its active-turn        *)
(* registry refuses a second operation (TurnAlreadyActive), and when it is  *)
(* idle abort finds nothing (TurnNotActive): both change nothing.           *)

Begin(a, request) ==
    /\ agent[a].pc = "idle"
    /\ Goto(a, request)
    /\ outcome' = [outcome EXCEPT ![a] = [kind |-> "none", sid |-> 0]]
    /\ UNCHANGED <<rev, status, log, lease, runs, approvals>>

RunTurn(a) ==
    /\ spent.turns < MaxTurns
    /\ Begin(a, [Idle EXCEPT !.pc = "acquire", !.op = "run"])
    /\ Spend("turns")

RecoverTurn(a) ==
    /\ spent.continuations < MaxContinuations
    /\ Begin(a, [Idle EXCEPT !.pc = "acquire", !.op = "recover"])
    /\ Spend("continuations")

(* A caller knows the suspensions it was told of, pending or not.           *)
ResumeSuspendedTurn(a) ==
    /\ spent.continuations < MaxContinuations
    /\ \E i \in {j \in DOMAIN log : log[j].kind = "suspension"}, answer \in Answers :
           Begin(a, [Idle EXCEPT !.pc = "acquire", !.op = "resume",
                                 !.sid = log[i].sid, !.answer = answer])
    /\ Spend("continuations")

Abort(a) ==
    /\ agent[a].pc # "idle" /\ ~agent[a].abort
    /\ spent.aborts < MaxAborts
    /\ agent' = [agent EXCEPT ![a].abort = TRUE]
    /\ Spend("aborts")
    /\ UNCHANGED <<rev, status, log, lease, outcome, runs, approvals>>

(* The operation is lost between two awaits: the process crashes, the       *)
(* caller drops the future, or an I/O, context or registry error leaves     *)
(* through `?`.  A crash of the process is this for every agent.            *)
Drop(a) ==
    /\ agent[a].pc # "idle"
    /\ spent.drops < MaxDrops
    /\ Return(a, "none", 0)
    /\ Spend("drops")
    /\ UNCHANGED <<rev, status, log, runs, approvals>>

-----------------------------------------------------------------------------
(* Entry of an operation.                                                   *)

(* Mutant: the lease does not exclude.                                      *)
AcquireUnlocked(a) ==
    /\ agent[a].pc = "acquire"
    /\ lease' = [lease EXCEPT ![CoordinatorOf[a]] = a]
    /\ agent' = [agent EXCEPT ![a].pc = "load"]
    /\ UNCHANGED <<rev, status, log, outcome, runs, approvals, spent>>

Acquire(a) ==
    /\ agent[a].pc = "acquire"
    /\ lease[CoordinatorOf[a]] = NoAgent
    /\ lease' = [lease EXCEPT ![CoordinatorOf[a]] = a]
    /\ agent' = [agent EXCEPT ![a].pc = "load"]
    /\ UNCHANGED <<rev, status, log, outcome, runs, approvals, spent>>

Loading(a, op) == agent[a].pc = "load" /\ agent[a].op = op

LoadForRun(a) ==
    /\ Loading(a, "run")
    /\ PendingSuspension(log) = {}
    /\ Goto(a, [agent[a] EXCEPT !.pc = "openTurn", !.base = rev])
    /\ UNCHANGED <<rev, status, log, lease, outcome, runs, approvals, spent>>

OpenTurn(a) ==
    /\ agent[a].pc = "openTurn"
    /\ CommitAndGoto(a, <<UserInput(Len(status) + 1, 0)>>,
           [agent[a] EXCEPT !.pc = "model", !.turn = Len(status) + 1])
    /\ status' = Append(status, "running")
    /\ UNCHANGED <<runs, approvals, spent>>

(* recover_turn, and resume_suspended_turn once it has settled the          *)
(* suspension: run_turn_internal without user text.                         *)
LoadForRecover(a) ==
    /\ Loading(a, "recover")
    /\ PendingSuspension(log) = {}
    /\ \E t \in ActiveTurn(status) : \E pending \in PendingLists(log, t) :
           Goto(a, [agent[a] EXCEPT !.pc = "recover", !.base = rev, !.turn = t,
                                    !.mode = "recover", !.queue = pending])
    /\ UNCHANGED <<rev, status, log, lease, outcome, runs, approvals, spent>>

(* What resume_suspended_turn accepts: the id must be the pending one, user *)
(* input answers a suspension after execution, approval or denial one       *)
(* before it.                                                               *)
Accepts(a, i) ==
    /\ log[i].sid = agent[a].sid
    /\ IF log[i].deferred THEN agent[a].answer \in {"approve", "deny"}
                          ELSE agent[a].answer = "userInput"

LoadForResume(a) ==
    /\ Loading(a, "resume")
    /\ \E i \in PendingSuspension(log) :
           /\ Accepts(a, i)
           /\ Goto(a, [agent[a] EXCEPT
                  !.pc = IF agent[a].answer = "userInput" THEN "reply"
                                                          ELSE agent[a].answer,
                  !.base = rev, !.turn = log[i].turn, !.queue = <<log[i].call>>])
    /\ UNCHANGED <<rev, status, log, lease, outcome, runs, approvals, spent>>

(* SuspendedTurn, TurnNotFound, or a resolution resume does not accept.     *)
Refuse(a) ==
    /\ \/ /\ Loading(a, "run")
          /\ PendingSuspension(log) # {}
       \/ /\ Loading(a, "recover")
          /\ PendingSuspension(log) # {} \/ ActiveTurn(status) = {}
       \/ /\ Loading(a, "resume")
          /\ ~\E i \in PendingSuspension(log) : Accepts(a, i)
    /\ Return(a, "error", 0)
    /\ UNCHANGED <<rev, status, log, runs, approvals, spent>>

(* RevisionConflict: somebody else committed since the copy was taken, and  *)
(* the operation fails at its next commit.  While it awaits a model or a    *)
(* function, that commit comes with the answer, or with the abort.          *)
AwaitsProvider(a) ==
    /\ ~agent[a].abort
    /\ agent[a].pc \in {"asking", "exec", "running"}

CommitsNext(a) ==
    \/ agent[a].pc \in {"openTurn", "reply", "deny", "approve", "finish"}
    \/ agent[a].pc \in {"recover", "calls"} /\ agent[a].queue # <<>>
    \/ agent[a].pc = "model" /\ agent[a].iter >= MaxIterations
    \/ agent[a].pc \in {"asking", "exec", "running"} /\ ~AwaitsProvider(a)

Conflict(a) ==
    /\ agent[a].base # rev
    /\ Return(a, "error", 0)
    /\ UNCHANGED <<rev, status, log, runs, approvals, spent>>

RevisionConflict(a)  == CommitsNext(a) /\ Conflict(a)
LateFunctionReply(a) == agent[a].pc \in {"exec", "running"} /\ AwaitsProvider(a) /\ Conflict(a)
LateModelReply(a)    == agent[a].pc = "asking" /\ AwaitsProvider(a) /\ Conflict(a)

-----------------------------------------------------------------------------
(* resume_suspended_turn, from its first commit.                            *)

(* The rest of the resumed turn: recovery of that turn by the same agent.   *)
Continued(a) ==
    [agent[a] EXCEPT !.pc = "load", !.op = "recover", !.sid = 0,
                     !.answer = "none", !.mode = "none", !.queue = <<>>]

ReplyToSuspension(a) ==
    /\ agent[a].pc = "reply"
    /\ CommitAndGoto(a, <<UserInput(agent[a].turn, agent[a].sid)>>, Continued(a))
    /\ SetStatus(agent[a].turn, "running")
    /\ UNCHANGED <<runs, approvals, spent>>

DenySuspended(a) ==
    /\ agent[a].pc = "deny"
    /\ CommitAndGoto(a, <<ToolOutput(agent[a].turn, Current(a), "denied")>>, Continued(a))
    /\ SetStatus(agent[a].turn, "running")
    /\ UNCHANGED <<runs, approvals, spent>>

(* The start marker is committed while the turn stays suspended.            *)
ApproveSuspended(a) ==
    /\ agent[a].pc = "approve"
    /\ CommitAndGoto(a, <<CallStarted(agent[a].turn, Current(a))>>,
           [agent[a] EXCEPT !.pc = "exec", !.mode = "approve"])
    /\ approvals' = [approvals EXCEPT ![Current(a)] = @ + 1]
    /\ UNCHANGED <<status, runs, spent>>

-----------------------------------------------------------------------------
(* recover_pending_function_calls: one pending call.                        *)

(* Mutant: the recovery policies are swapped.                               *)
ReconcilesIdempotent(a) ==
    /\ Current(a) \notin NonIdempotent
    /\ StartedInTurn(log, agent[a].turn, Current(a))

NeedsReconciliation(a) ==
    /\ Current(a) \in NonIdempotent
    /\ StartedInTurn(log, agent[a].turn, Current(a))

(* Started, no output, not idempotent: suspend, leave later calls alone.    *)
SuspendRecovery(a) ==
    /\ agent[a].pc = "recover" /\ agent[a].queue # <<>>
    /\ NeedsReconciliation(a)
    /\ CommitAndGoto(a, <<Suspension(agent[a].turn, rev + 1, Current(a), TRUE)>>,
           [agent[a] EXCEPT !.pc = "finish", !.result = "suspended",
                            !.newSid = rev + 1, !.queue = <<>>])
    /\ SetStatus(agent[a].turn, "suspended")
    /\ UNCHANGED <<runs, approvals, spent>>

RetryCall(a) ==
    /\ agent[a].pc = "recover" /\ agent[a].queue # <<>>
    /\ ~NeedsReconciliation(a)
    /\ CommitAndGoto(a, <<CallStarted(agent[a].turn, Current(a))>>,
           [agent[a] EXCEPT !.pc = "exec"])
    /\ UNCHANGED <<status, runs, approvals, spent>>

RecoveryDone(a) ==
    /\ agent[a].pc = "recover" /\ agent[a].queue = <<>>
    /\ Goto(a, [agent[a] EXCEPT !.pc = "model", !.mode = "none"])
    /\ UNCHANGED <<rev, status, log, lease, outcome, runs, approvals, spent>>

-----------------------------------------------------------------------------
(* The model loop of run_turn_internal.                                     *)

(* Mutant: the final commit is made before the status is set.               *)
CloseTurnUnmarked(a, items, kind) ==
    /\ Persist(a, items)
    /\ Return(a, kind, 0)
    /\ UNCHANGED <<status, runs, approvals, spent>>

(* The turn ends with an item pushed in memory and the final commit.        *)
CloseTurn(a, items, kind) ==
    /\ Persist(a, items)
    /\ SetStatus(agent[a].turn, kind)
    /\ Return(a, kind, 0)
    /\ UNCHANGED <<runs, approvals, spent>>

IterationsExhausted(a) ==
    /\ agent[a].pc = "model" /\ agent[a].iter >= MaxIterations
    /\ CloseTurn(a, <<TurnFailed(agent[a].turn)>>, "failed")

(* The cached context is loaded and the request built: by the context       *)
(* builder, which may ask a model for a summary.  An abort is not looked at *)
(* until that is done; an error leaves through `?` (Drop).                  *)
BuildRequest(a) ==
    /\ agent[a].pc = "model" /\ agent[a].iter < MaxIterations
    /\ agent' = [agent EXCEPT ![a].pc = "asking"]
    /\ UNCHANGED <<rev, status, log, lease, outcome, runs, approvals, spent>>

(* The request: await_step_or_abort around the model client, biased to the  *)
(* abort signal.                                                            *)
Asking(a) == agent[a].pc = "asking"

AbortModel(a) ==
    /\ Asking(a) /\ agent[a].abort
    /\ CloseTurn(a, <<TurnAborted(agent[a].turn)>>, "aborted")

(* The request fails, or the response is empty and may not be.              *)
ModelFails(a) ==
    /\ Asking(a) /\ ~agent[a].abort
    /\ CloseTurn(a, <<TurnFailed(agent[a].turn)>>, "failed")

ModelAnswers(a) ==
    /\ Asking(a) /\ ~agent[a].abort
    /\ CommitAndGoto(a, <<ModelResponse(agent[a].turn, <<>>)>>,
           [agent[a] EXCEPT !.pc = "finish", !.result = "message"])
    /\ SetStatus(agent[a].turn, "completed")
    /\ UNCHANGED <<runs, approvals, spent>>

(* Batches of distinct, never used calls.                                   *)
Batches ==
    LET unused == Calls \ Requested(log)
    IN  {q \in UNION {[1..n -> unused] : n \in 1..Cardinality(unused)} :
            \A i, j \in DOMAIN q : q[i] = q[j] => i = j}

Least(m, n) == IF m < n THEN m ELSE n
Remaining(a) ==
    IF agent[a].count >= MaxFunctionCalls THEN 0 ELSE MaxFunctionCalls - agent[a].count

ModelCalls(a, batch) ==
    LET admit == Least(Len(batch), Remaining(a))
    IN  /\ Asking(a) /\ ~agent[a].abort
        /\ CommitAndGoto(a, <<ModelResponse(agent[a].turn, batch)>>,
               [agent[a] EXCEPT !.pc = "calls", !.mode = "live", !.queue = batch,
                                !.admit = admit, !.count = @ + admit])
        /\ UNCHANGED <<status, runs, approvals, spent>>

-----------------------------------------------------------------------------
(* One call of a live batch.                                                *)

(* Mutant: the marker is not committed before the call.                     *)
StartCallUnmarked(a) ==
    /\ agent[a].pc = "calls" /\ agent[a].queue # <<>> /\ agent[a].admit > 0
    /\ Current(a) \notin Vetoed
    /\ CommitAndGoto(a, <<>>, [agent[a] EXCEPT !.pc = "exec"])
    /\ UNCHANGED <<status, runs, approvals, spent>>

(* Before-hooks passed: the marker is committed before the call is made.    *)
StartCall(a) ==
    /\ agent[a].pc = "calls" /\ agent[a].queue # <<>> /\ agent[a].admit > 0
    /\ Current(a) \notin Vetoed
    /\ CommitAndGoto(a, <<CallStarted(agent[a].turn, Current(a))>>,
           [agent[a] EXCEPT !.pc = "exec"])
    /\ UNCHANGED <<status, runs, approvals, spent>>

(* Mutant: recovered calls are counted against the batch's limit too.       *)
AdvancedCountingAll(a) ==
    [agent[a] EXCEPT !.pc = IF agent[a].mode = "recover" THEN "recover" ELSE "calls",
                     !.queue = Tail(@),
                     !.admit = @ - 1]

(* What follows a call that has its output.                                 *)
Advanced(a) ==
    [agent[a] EXCEPT !.pc = IF agent[a].mode = "recover" THEN "recover" ELSE "calls",
                     !.queue = Tail(@),
                     !.admit = IF agent[a].mode = "live" THEN @ - 1 ELSE @]

(* A before-hook fails, for good (Vetoed) or this time.                     *)
HookRejects(a) ==
    /\ agent[a].pc = "calls" /\ agent[a].queue # <<>> /\ agent[a].admit > 0
    /\ CommitAndGoto(a, <<ToolOutput(agent[a].turn, Current(a), "error")>>, Advanced(a))
    /\ UNCHANGED <<status, runs, approvals, spent>>

(* Mutant: calls beyond the limit get no output.                            *)
LimitReachedSilently(a) ==
    /\ agent[a].pc = "calls" /\ agent[a].queue # <<>> /\ agent[a].admit = 0
    /\ CommitAndGoto(a, <<TurnFailed(agent[a].turn)>>,
           [agent[a] EXCEPT !.pc = "finish", !.result = "failed", !.queue = <<>>])
    /\ SetStatus(agent[a].turn, "failed")
    /\ UNCHANGED <<runs, approvals, spent>>

LimitReached(a) ==
    /\ agent[a].pc = "calls" /\ agent[a].queue # <<>> /\ agent[a].admit = 0
    /\ CommitAndGoto(a,
           Append(OutputsFor(agent[a].turn, agent[a].queue, "skipped"),
                  TurnFailed(agent[a].turn)),
           [agent[a] EXCEPT !.pc = "finish", !.result = "failed", !.queue = <<>>])
    /\ SetStatus(agent[a].turn, "failed")
    /\ UNCHANGED <<runs, approvals, spent>>

BatchDone(a) ==
    /\ agent[a].pc = "calls" /\ agent[a].queue = <<>>
    /\ Goto(a, [agent[a] EXCEPT !.pc = "model", !.mode = "none", !.iter = @ + 1])
    /\ UNCHANGED <<rev, status, log, lease, outcome, runs, approvals, spent>>

-----------------------------------------------------------------------------
(* A function call, live, recovered or approved: await_step_or_abort around *)
(* FunctionRegistry::call.  The select is biased to the abort signal.       *)

EnterFunction(a) ==
    /\ agent[a].pc = "exec" /\ ~agent[a].abort
    /\ agent' = [agent EXCEPT ![a].pc = "running"]
    /\ runs' = [runs EXCEPT ![Current(a)] = @ + 1]
    /\ UNCHANGED <<rev, status, log, lease, outcome, approvals, spent>>

(* The call is answered: with the function's output or its error; without   *)
(* its body entered, when the registry has no such function.                *)
AnswerCall(a, result) ==
    /\ \/ agent[a].pc = "running"
       \/ agent[a].pc = "exec" /\ result = "error"
    /\ ~agent[a].abort
    /\ LET items == <<ToolOutput(agent[a].turn, Current(a), result)>>
       IN  IF agent[a].mode = "approve"
           THEN /\ CommitAndGoto(a, items, Continued(a))
                /\ SetStatus(agent[a].turn, "running")
           ELSE /\ CommitAndGoto(a, items, Advanced(a))
                /\ UNCHANGED status
    /\ UNCHANGED <<runs, approvals, spent>>

(* Mutant: the suspended call is among those answered as not executed.      *)
SuspendCallSkippingAll(a, executed, deferred) ==
    LET t == agent[a].turn
    IN  /\ agent[a].pc = "running" /\ agent[a].mode # "approve" /\ ~agent[a].abort
        /\ CommitAndGoto(a,
               <<Suspension(t, rev + 1, Current(a), deferred)>>
                   \o OutputsFor(t, agent[a].queue, "skipped"),
               [agent[a] EXCEPT !.pc = "finish", !.result = "suspended",
                                !.newSid = rev + 1, !.queue = <<>>])
        /\ SetStatus(t, "suspended")
        /\ UNCHANGED <<runs, approvals, spent>>

(* The function suspends, before executing or after: later calls of the     *)
(* batch are answered as not executed.  Recovery keeps no output.           *)
SuspendCall(a, executed, deferred) ==
    LET t      == agent[a].turn
        output == IF executed /\ agent[a].mode = "live"
                  THEN <<ToolOutput(t, Current(a), "success")>> ELSE <<>>
    IN  /\ agent[a].pc = "running" /\ agent[a].mode # "approve" /\ ~agent[a].abort
        /\ CommitAndGoto(a,
               output \o <<Suspension(t, rev + 1, Current(a), deferred)>>
                      \o OutputsFor(t, Tail(agent[a].queue), "skipped"),
               [agent[a] EXCEPT !.pc = "finish", !.result = "suspended",
                                !.newSid = rev + 1, !.queue = <<>>])
        /\ SetStatus(t, "suspended")
        /\ UNCHANGED <<runs, approvals, spent>>

(* An approved function that suspends again: the caller is told, nothing is *)
(* recorded, so the suspension it is told of has no item (id 0).            *)
SuspendAgain(a) ==
    /\ agent[a].pc = "running" /\ agent[a].mode = "approve" /\ ~agent[a].abort
    /\ Return(a, "suspended", 0)
    /\ UNCHANGED <<rev, status, log, runs, approvals, spent>>

(* Mutants: an aborted turn's calls are left open; the function is not      *)
(* interrupted once entered.                                                *)
AbortCallLeavingOpen(a) ==
    /\ agent[a].pc \in {"exec", "running"} /\ agent[a].abort
    /\ CloseTurn(a, <<TurnAborted(agent[a].turn)>>, "aborted")
AbortCallBeforeEntry(a) ==
    /\ agent[a].pc = "exec" /\ agent[a].abort
    /\ CloseTurn(a, <<TurnAborted(agent[a].turn)>>
                       \o OutputsFor(agent[a].turn, agent[a].queue, "aborted"), "aborted")

(* Aborted around the call: it and the rest of the queue are answered as    *)
(* aborted.  Recovery commits once more before it returns.                  *)
AbortCall(a) ==
    LET items == <<TurnAborted(agent[a].turn)>>
                     \o OutputsFor(agent[a].turn, agent[a].queue, "aborted")
    IN  /\ agent[a].pc \in {"exec", "running"} /\ agent[a].abort
        /\ IF agent[a].mode = "recover"
           THEN /\ CommitAndGoto(a, items,
                       [agent[a] EXCEPT !.pc = "finish", !.result = "aborted",
                                        !.queue = <<>>])
                /\ SetStatus(agent[a].turn, "aborted")
                /\ UNCHANGED <<runs, approvals, spent>>
           ELSE CloseTurn(a, items, "aborted")

(* The last commit of run_turn_internal: token usage only.                  *)
FinishTurn(a) ==
    /\ agent[a].pc = "finish"
    /\ Persist(a, <<>>)
    /\ Return(a, agent[a].result, agent[a].newSid)
    /\ UNCHANGED <<status, runs, approvals, spent>>

-----------------------------------------------------------------------------
FunctionReturns(a) ==
    \/ \E result \in {"success", "error"} : AnswerCall(a, result)
    \/ \E deferred \in BOOLEAN : SuspendCall(a, FALSE, deferred)
    \/ SuspendCall(a, TRUE, FALSE)
    \/ SuspendAgain(a)
    \/ LateFunctionReply(a)

ModelReturns(a) ==
    \/ ModelFails(a) \/ ModelAnswers(a) \/ LateModelReply(a)
    \/ \E batch \in Batches : ModelCalls(a, batch)

(* What the agent does next without waiting for a model or a function.      *)
OwnStep(a) ==
    \/ LoadForRun(a) \/ OpenTurn(a) \/ LoadForRecover(a) \/ LoadForResume(a)
    \/ Refuse(a) \/ RevisionConflict(a)
    \/ ReplyToSuspension(a) \/ DenySuspended(a) \/ ApproveSuspended(a)
    \/ SuspendRecovery(a) \/ RetryCall(a) \/ RecoveryDone(a)
    \/ IterationsExhausted(a) \/ BuildRequest(a) \/ AbortModel(a)
    \/ StartCall(a) \/ HookRejects(a) \/ LimitReached(a) \/ BatchDone(a)
    \/ EnterFunction(a) \/ AbortCall(a) \/ FinishTurn(a)

Caller(a) == RunTurn(a) \/ RecoverTurn(a) \/ ResumeSuspendedTurn(a) \/ Abort(a)

Next == \E a \in Agents :
    Caller(a) \/ Drop(a) \/ Acquire(a) \/ OwnStep(a) \/ FunctionReturns(a) \/ ModelReturns(a)

Spec == Init /\ [][Next]_vars

(* Before it goes on it awaits code of the embedder that no abort cuts      *)
(* short: the context builder, with the compactor's model, and the hooks    *)
(* around live calls, those after a call before what comes next.            *)
AwaitsHost(a) ==
    \/ agent[a].pc = "model" /\ agent[a].iter < MaxIterations
    \/ agent[a].pc = "calls"
    \/ agent[a].pc = "finish" /\ agent[a].mode = "live" /\ agent[a].result = "suspended"

(* The runtime polls an operation until it is done, and the store answers;  *)
(* tokio's mutex is fair, so an agent that waits for the lease gets it.     *)
RuntimeFairness ==
    \A a \in Agents : WF_vars(~AwaitsHost(a) /\ OwnStep(a)) /\ SF_vars(Acquire(a))
FairSpec == Spec /\ RuntimeFairness

(* Builder, compactor and hooks return: nothing in the runtime sees to it.  *)
HostFairness == \A a \in Agents : WF_vars(AwaitsHost(a) /\ OwnStep(a))

(* A function ends within its time budget (FunctionRegistry::call); a model *)
(* client may be hoped, but is not known, to answer or fail.                *)
ProviderFairness ==
    \A a \in Agents : WF_vars(FunctionReturns(a)) /\ WF_vars(ModelReturns(a))
-----------------------------------------------------------------------------
(* Properties.                                                              *)

(* A function that is not idempotent is entered once on the runtime's own   *)
(* account, and again only as often as a caller has approved: whatever is   *)
(* lost, recovered or contended, recovery never repeats it by itself        *)
(* (recover_turn, agent_loop.rs:511-516).                                   *)
RerunsApproved == \A c \in NonIdempotent : runs[c] <= 1 + approvals[c]

(* A call gets one output, however many operations of however many agents   *)
(* deal with it: the conversation the projection builds answers each tool   *)
(* call once (projection.rs:95-141).                                        *)
AnsweredAtMostOnce == \A c \in Calls : Cardinality(Outputs(log, c)) <= 1

(* When a turn is completed or failed every call its model asked for has an *)
(* output: batches cut short by suspension, by the call limit or by a lost  *)
(* process leave none open (1232-1311, 1488-1548, 1639-1885).               *)
ClosedTurnsAnswered ==
    \A t \in DOMAIN status :
        status[t] \in {"completed", "failed"} =>
            \A c \in CallsOf(log, t) : Outputs(log, c) # {}

(* "function not executed because ..." is the truth: such a call was never  *)
(* started, by this process or by one before it.                            *)
SkippedNeverRan ==
    \A i \in DOMAIN log :
        log[i].kind = "output" /\ log[i].result = "skipped" =>
            Markers(log, log[i].call) = {} /\ runs[log[i].call] = 0

(* A suspended turn can be resumed: its suspension is the one the           *)
(* projection reports pending, the only one resume_suspended_turn accepts.  *)
(* Without it "suspended for external reconciliation" (agent_loop.rs:515)   *)
(* is a dead end.                                                           *)
SuspendedIsPending ==
    \A t \in DOMAIN status :
        status[t] = "suspended" =>
            \E i \in PendingSuspension(log) : log[i].turn = t

(* A pending suspension belongs to a suspended turn: the thread is not left *)
(* refusing every run_turn and recover_turn for a suspension whose turn has *)
(* gone on or ended, nor can resume_suspended_turn reopen such a turn       *)
(* (agent_loop.rs:549-568, 814-824).                                        *)
PendingIsSuspended ==
    \A i \in PendingSuspension(log) : status[log[i].turn] = "suspended"

(* A completed, failed or aborted turn never changes again: no recovery,    *)
(* resume or late agent adds to it or reopens it.                           *)
ClosedTurnsFrozen ==
    [][\A t \in DOMAIN status :
           status[t] \in Closed =>
               /\ status'[t] = status[t]
               /\ \A i \in (Len(log) + 1)..Len(log') : log'[i].turn # t]_<<status, log>>

(* What an operation tells its caller about the turn is what is stored when *)
(* it returns.                                                              *)
StatusOf == [message |-> "completed", suspended |-> "suspended",
             failed |-> "failed", aborted |-> "aborted"]
OutcomeIsDurable ==
    [][\A a \in Agents :
           agent[a].pc # "idle" /\ outcome'[a].kind \in DOMAIN StatusOf =>
               status'[agent[a].turn] = StatusOf[outcome'[a].kind]]_vars

(* No function is entered for a call that already has an output.            *)
NoRunAfterAnswer ==
    [][\A c \in Calls : runs'[c] # runs[c] => Outputs(log, c) = {}]_vars

(* A suspension reported to the caller is the pending one, so that it can   *)
(* be answered.                                                             *)
ReportedSuspensionPending ==
    [][\A a \in Agents :
           agent[a].pc # "idle" /\ outcome'[a].kind = "suspended" =>
               \E i \in PendingSuspension(log') : log'[i].sid = outcome'[a].sid]_vars

(* Every operation returns, the one that waits for the lease included, when *)
(* models and functions answer, and builder and hooks return.               *)
OperationsReturn ==
    HostFairness /\ ProviderFairness =>
        \A a \in Agents : agent[a].pc # "idle" ~> agent[a].pc = "idle"

(* An operation that is aborted while it awaits a model or a function       *)
(* returns, even if that never answers.  Aborted anywhere else behind its   *)
(* lease it returns too, with nothing assumed of models and functions, but  *)
(* only when what is awaited without looking at the abort comes back: the   *)
(* context builder (896-904), which may wait for a model itself, and hooks  *)
(* (1108-1110, 1221-1227).                                                  *)
AbortReturns ==
    /\ \A a \in Agents :
           agent[a].abort /\ agent[a].pc \in {"asking", "exec", "running"}
               ~> agent[a].pc = "idle"
    /\ HostFairness =>
           \A a \in Agents :
               agent[a].abort /\ agent[a].pc # "acquire" ~> agent[a].pc = "idle"
=============================================================================
