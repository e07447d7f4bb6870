# Canary Agent: TLA+ models, checks and proofs

Canary Agent is a Rust runtime that drives a language model through durable conversation
threads: it asks the model, runs the functions the model calls, suspends for approval,
recovers after a crash, and keeps all of it in a store with optimistic concurrency. This
directory models it in TLA+, checks the models on small instances with TLC, and proves the
most important theorems for every instance with TLAPS.

`PROJECT.json` maps each definition to the source lines it stands for and lists the runs,
the mutants (a plausible bug per property that the property must catch), the findings, the
hazards and the theorems.

## 1. The system

Crates are named without their prefix `canary-agent-`.

| Component | State it keeps | Operations | What makes it correct |
| --- | --- | --- | --- |
| Thread record (`kernel/events.rs`, `projection.rs`) | turns, their status and append-only items, a revision | push item, set status; `ThreadProjection::from_thread` | the pending suspension and the active turn can be read off the items alone |
| Turn loop (`runtime/agent_loop.rs`) | per operation: in-memory thread, batch, counters, abort signal | `run_turn`, `recover_turn`, `resume_suspended_turn`, `abort` | no function is repeated that may not be; every call gets one answer; ended turns stay ended; outcomes are durable |
| Active-turn registry, session lease (`agent_loop.rs`, `session.rs`) | one entry per agent and thread; one async mutex per thread | register, acquire, release on drop | one operation at a time; always released |
| Function registry (`runtime/functions.rs`) | the functions | `call` within a time budget, `recovery_policy` | a call ends; limits are enforced |
| Store contract (`runtime/store.rs`) | thread, context cache | load, compare-and-commit, delete, cache load and save | a versioned register: no lost update |
| JSON store (`store-json/store.rs`) | two files per thread, a write lock | the same, each several file operations | implements the contract through crashes |
| Context builder (`runtime/context.rs`) | none; the cache is in the store | `build`: select blocks, elide, continue or make a summary, save it | what is left out is what the summary is about; the window holds |
| Revision control (`revision/*`) | revision objects, branch heads | commit, branch, merge, log | no lost commit; merges contain both parents |
| Evaluation (`eval/*`) | graph position, constraints, exposures, events; a decision sink that outlives a run | compile, reset, step, submit, run | rollback on error; nothing visible unexposed; no stale decision; the step limit is exact; it ends |
| Command tool (`tools/exec_command.rs`) | thread grants | preflight, authorize, launch, time out, drain | one launch per call, under a policy that was approved; the call ends |
| Sandboxes (`tools/sandbox/*`) | the processes of a command, a staging directory | resolve a policy, spawn, set up, terminate | what is reported is what it ran under; what is reported over is over |
| Model clients (`openai/*`) | the items and fragments of a stream | send with retries, decode, complete | bounded retries, none after text was shown; the response is what the provider answered |
| Web search (`tools/web_search.rs`) | none | one HTTP request | formatting |
| Observability | files, counters | record, flush | write-only, best-effort |
| Examples (`examples/*`) | none of their own | call the operations above | - |

How they interact. A host calls an `Agent`. The operation enters the agent's active-turn
registry (or is refused), awaits the session lease, loads the thread from the store and
then alternates between awaits: the model, a function, the context builder and
`compare_and_commit`. Each commit carries the revision of the in-memory copy. `abort` sets
a watch channel that the awaits of the model and of a function race in a biased select; the
context builder and the hooks are awaited without it. Functions may suspend; a later
`resume_suspended_turn` settles the suspension and then continues as recovery of that turn.
`exec_command` is such a function: it asks an authorizer when preflight rejects the policy,
and spawns a process that outlives no select it takes part in unless it is isolated. Before
each model request the context builder reads thread and cache, may call a model itself, and
saves the cache beside the thread. An evaluation is a host too: it drives one agent as the
evaluated policy and one as the judge, which reports through a function of its own.

What is hard: operations of several processes on one thread (the lease is per process, the
store decides); a process lost at any await, between any two commits; answers that arrive
after somebody else went on; recovery of calls whose effect is unknown; suspension, abort
and limits in the middle of a batch; a dropped future whose file operation goes on; a
summary that is about other messages than those it stands for; a process that leaves its
group or its parent while it is being killed; event streams of providers that differ in
what they send; a failure in the middle of a step, and what it leaves for the next run.

## 2. Modules

```
ThreadLog ---- AgentLoop ---- AgentLoopInv ---- AgentLoopLedger ---- MCAgentLoop  (TLC)
                                     \                  \
                                      AgentLoopProofs --- AgentLedgerProofs      (TLAPS)

CallLedger <--refines-- AgentLoopLedger

ThreadRegister <--refines-- JsonStore ---- JsonStoreProofs             (TLC, TLAPS)

SpecMerge ---- RevisionControl ---- MCRevisions                        (TLC)
                          \
                           RevisionProofs                              (TLAPS)

ContextWindow --.
                 ModelRequest ---- RequestInv ---- MCRequest           (TLC)
ModelStream ----'                            \
                                              RequestProofs            (TLAPS)

SandboxPolicy --.
                 ExecCommand ---- MCExec                               (TLC)
ProcessTree ----'        \
                          ExecProofs                                   (TLAPS)

TaskGraph ---- GraphEnvironment ---- EvalRunner ---- MCEval            (TLC)
                                               \
                                                EvalProofs             (TLAPS)
```

**ThreadLog** is the durable thread. The code nests items in turns; here one log holds the
items of all turns, each naming its turn, which loses nothing: the items of turn `t` in log
order are `thread.turns[t].items`. `PendingSuspension`, `ActiveTurn` and `PendingLists` are
`from_thread` and `pending_function_calls` as declarative definitions: the code's loops are
replaced by "the last item that is not cleared by one read later". The order of reading is
turn by turn, not log order; a finding depends on that.

**AgentLoop** is the turn loop over one thread. `rev`, `status` and `log` are the thread
file; `agent[a]` is the operation agent `a` is in, with `pc` naming the await it stands at;
`lease` is the coordinator's mutex. One action is what the code does from one await to the
next, so pushes made in memory are one step with the commit that follows. An agent's copy
of the thread is not stored: a commit succeeds only if the copy's revision is the stored
one, revisions only grow, so a copy that can still commit *is* the stored thread, and one
that cannot changes nothing. `base` therefore suffices, and `RevisionConflict` is the step
of an agent whose copy is out of date.

| Code | Actions |
| --- | --- |
| entry, lease, load | `RunTurn`, `RecoverTurn`, `ResumeSuspendedTurn`, `Acquire`, `LoadForRun`, `LoadForRecover`, `LoadForResume`, `Refuse` |
| first commit of a turn | `OpenTurn` |
| settling a suspension | `ReplyToSuspension`, `DenySuspended`, `ApproveSuspended` |
| `recover_pending_function_calls` | `SuspendRecovery`, `RetryCall`, `RecoveryDone` |
| the model | `BuildRequest`, `ModelAnswers`, `ModelCalls`, `ModelFails`, `IterationsExhausted`, `AbortModel`, `LateModelReply` |
| a batch | `StartCall`, `HookRejects`, `LimitReached`, `BatchDone` |
| a function | `EnterFunction`, `AnswerCall`, `SuspendCall`, `SuspendAgain`, `AbortCall`, `LateFunctionReply` |
| the end | `CloseTurn`, `FinishTurn` |
| failure | `Drop` (crash, dropped future, an error through `?`), `Abort` |

`runs` and `approvals` are history: how often a function's body was entered, and how often
a caller approved it. `spent` counts the bounds.

**CallLedger** is what the turn loop promises of calls, to whoever uses the thread: a call is
asked for in one turn, when all that turn asked for before is answered; its start is recorded
in the running turn, and not twice by itself if it may not be repeated; it is entered only
after that, once, and once more for each approval; it gets one answer, `skipped` only if it
was never started and `success` only if it was entered, in a turn that has not ended and that
cannot complete or fail without it. There are no agents, leases, revisions, batches, markers or
suspensions in it. AgentLoopLedger reads its state off the log (`TurnOf`, `AnswerTo`, the
markers) and states the refinement, `ImplementsCallLedger`.

**ThreadRegister** is the abstract specification of a store: `Load`, `Commit`, `Delete` of
one versioned thread, each atomic, whose content is the set of commits it is made of.

**JsonStore** is `JsonFileThreadStore` at the grain of single file operations: compare,
temporary file, rename, removal of cache and thread, all under `write_lock`. `Crash` drops
everything volatile. `Drop` is a caller that drops its future: the lock guard goes, but a
file operation that is under way stays in `landing` and takes effect later (`Land`), as
`tokio::fs` runs it on the blocking pool. The revision of a missing thread is 0, which is
`Thread::new`'s.

**SpecMerge** is `merge.rs`: the three-way merge as three operators on values: is a value
settled without looking into it, what it settles to, and can objects be merged key by key.
The code recurses through JSON of any depth; here a spec is an object of values that are
atoms or objects of atoms, which has every case of `merge_value`: settled or not, at the
top and below, object or not, a key missing (`None` is one of the atoms).

**RevisionControl** is the controller over its store. `objects` and `head` are the two
directories of `LocalRevisionStore`; `task[c]` is what operation `c` keeps across the await
it stands at, with exactly the fields that are alive there. A revision's id is the hash of
its content; the model uses the content (parents, spec, message, each parent a revision
again), so equal commits are one object, as in the code.

| Code | Actions |
| --- | --- |
| `commit` | `Commit` (reads the head), `Save`, `Advance` |
| `create_branch` | `CreateBranch` (reads the source), `FindNoTarget`, `Advance` |
| `merge` | `Merge` (reads the source), `PrepareMerge` (reads the target and merges), `CommitMerge` (reads the target again), `Save`, `Advance` |
| errors | `BranchNotFound`, `Refuse` (each error at its await), `Lose` (crash, dropped future, store error) |

`MergeBases` gives every common ancestor with the least sum of distances; the code takes
the one with the smallest hash, and which one that is cannot be known.

**ContextWindow** is what `CompactingContextBuilder::build` computes around its await on the
compactor: blocks (a message that calls tools and its outputs), budgets, the selection, the
checks on a cached summary and on a new one. The code walks from the newest block backwards
and stops at the first that does not fit; costs are never negative, so what it selects is
the smallest start whose messages fit, and the model says that. A summary carries, besides
the fields of `ThreadContextCache`, which messages it is really about (`about`); no step
reads that, only the properties do.

**ModelStream** is one model call: `send_with_retries`, and the two stream decoders. A
provider is a *style*: which events it sends for an item (`added`, deltas, `arguments`,
`done`), whether they carry an output index or ids, and what `response.completed` has as its
output: nothing, an empty list, or the whole answer. The decoders' three tables are `added`, `done`, `partial`, by index.

**ModelRequest** composes the two on one thread: build, summarise, save the cache, send,
stream, commit, answer calls, again. The thread and its cache outlive a deletion, a crash
and a process with another window.

| Code | Actions |
| --- | --- |
| `model_request_from_projection`, `build` | `Builds`, `Compacted`, `CompactorFails`, `SavesCache` |
| `send_with_retries` | `Opens`, `FailsForNow`, `FailsForGood` |
| chat and Responses decoders | `TextDelta`, `CallDelta`, `ItemAdded`, `ArgumentsDone`, `ItemDone`, `Completed`, `Closed`, `Broken` |
| the turn loop around it | `UserSays`, `Recovers`, `Answered`, `Failed`, `Aborted`, `ToolAnswers`, `OutOfIterations` |
| what else happens | `Crash`, `Delete`, `Reconfigures` |

**SandboxPolicy** is what a policy asks of a sandbox and what a backend makes of it: paths
as sequences of components, normalised as the code does, and resolution per dimension, with
a fallback and a warning where the setting allows one.

**ProcessTree** is the operating system's side of a command: the leader the agent forked,
for an isolated command the init of its PID namespace, and one process the command leaves
behind, in its group, in a session of its own, or detached. Setup steps happen one by one,
so termination may come between any two of them. `Escaped` says what termination does not
reach; the sandbox module asks for more, the complete process tree (section 6).

**ExecCommand** is one call of `exec_command`, under the registry's budget and the turn's
abort, made again when a suspension is approved.

| Code | Actions |
| --- | --- |
| entry and preflight | `CallRefused`, `Call`, `ResolverFails`, `PreflightFails`, `PreflightRejects`, `PreflightAllows` |
| `handle_policy_violation` | `Authorize`, `RequireApproval`, `AuthorizerRefuses` |
| `run_sandbox`, the backend's select | `Launch` (in `RunsUnder`), `TreeMoves`, `ToolTimesOut`, `WaitReturns`, `KillChildren`, `KillGroup` |
| reading the output | `Drains`, `DrainsAtCap` |
| the future is dropped | `BudgetExpires`, `AbortDrops` |
| host | `Grant`, `Revoke`, `Abort`, `Resume` |

**TaskGraph** is a task case and what compiles it. **GraphEnvironment** holds what `reset`
and `step` do to an environment, as functions cut where the code awaits: the environment is
borrowed mutably through them, so nothing runs beside them. **EvalRunner** is
`EvalRunner::run` over it, with the policy's agent, the judge's turn and its sink, and a
host that evaluates again in the same process.

| Code | Actions |
| --- | --- |
| host | `Evaluate`, `ResetRefused` |
| `reset`, `emit_observation` | `Reset`, `Realize`, `RealizerFails` |
| `run` | `LoopStops`, `LoopGoesOn`, `RefereeScores`, `RefereeFails` |
| `step` | `PolicyActs`, `PolicyFails`, `Decide`, `NothingDecided`, `TurnFails` |
| `environment_decision` | `Submit` |

**AgentLoopInv** and **AgentLoopLedger** hold the inductive invariants of AgentLoop,
**RequestInv** those of ModelRequest. **AgentLoopProofs**, **AgentLedgerProofs**,
**JsonStoreProofs**, **RevisionProofs**, **ExecProofs**, **EvalProofs** and
**RequestProofs** hold the proofs (JsonStoreProofs, RevisionProofs, ExecProofs and
EvalProofs with their invariants, ThreadRegister with its proof);
**MCAgentLoop**, **MCRevisions**, **MCRequest**, **MCExec** and **MCEval** the instances.

## 3. Runs

| Run | Instance | What it shows |
| --- | --- | --- |
| contended | 2 agents, each with its own coordinator; 2 calls, one not idempotent; 1 turn, 2 recoveries or resumptions, 1 loss, 1 abort; 1 admitted call | with compare-and-commit alone: `RerunsApproved`, `AnsweredAtMostOnce`, `ClosedTurnsAnswered`, `SkippedNeverRan`, `ImplementsCallLedger` (refinement of CallLedger) (930 000 states) |
| leased | 2 agents, one coordinator; 1 call, 2 turns, 3 recoveries or resumptions, 1 loss, 1 abort | `ClosedTurnsFrozen`, `OutcomeIsDurable`, `PendingIsSuspended`, `NoRunAfterAnswer`, `TypeOK` (520 000 states) |
| live | 2 agents, one coordinator, 1 turn, 2 continuations, 1 loss, 1 abort, with fairness | `AbortReturns`, `OperationsReturn` (24 000 states) |
| store | 2 clients, 3 commits, 1 deletion, crashes, 1 dropped caller, with fairness | `Implements` (refinement of ThreadRegister), `KeepsCommits`, `CacheGoesFirst`, `CallsReturn`, `Consistent` |
| revisions | 2 controllers, 2 branches, 8 requests in any order, each operation lost at any await | `CommitsStay`, `MergesAreThreeWay`, `TypeOK` (the store is complete) (570 000 states) |
| request | two settings of windows (3 and 4 configurations, up to 4 messages), one of streams (9 styles of provider, answers of up to 3 items of 2 fragments, 1 retry) | `WindowIsKept`, `NothingIsLost`, `AnswerIsFaithful`, `ShownOnce`, `TypeOK` (budgets and slices exist); no deadlock (1 700 000 states) |
| exec | 2 backends, 6 policies, 2 grants, a timeout of zero, a short one and one beyond the budget, the call made twice; with fairness | `LaunchedAtMostOnce`, `LaunchesAreApproved`, `ReportedIsOver`, `StagingRemoved`, `ResolutionIsHonest`, `CallEnds` (360 000 states) |
| evaluation | 5 cases (a loop, a replacement, two that do not compile or start, one that starts at its end), 3 steps, 2 submissions in a turn, 2 evaluations; with fairness | `LedgerFollowsPath`, `VisibleValuesWereExposed`, `ExposuresAreGrounded`, `TrajectoryIsFactual`, `LimitIsExact`, `DecisionsAreFresh`, `RunEnds` (85 000 states) |
| masked, resuspend, detached, raced_merge | the smallest that show it | the findings below |

Why two agents and two calls are enough for the questions asked: the conflicts are between
the one operation whose copy is current and one that is late; a batch needs one call that
is dealt with and one that is left. What is not bounded by these instances is what the
theorems cover.

Why `NoRunAfterAnswer` is checked only behind one coordinator: without a common lease two
processes may both be inside an idempotent function, and one may enter it after the other
has answered. The code accepts that (its retry policy is for that); its own account of
non-idempotent functions is `RerunsApproved`, which holds without a lease.

In run revisions two hosts commit to main, and only one of them touches its branch dev, into
which it merges main twice. That is what `MergesAreThreeWay` needs to hold: run raced_merge
gives up the owner of the target. The requests are chosen so that main changes a tool and
changes it back between the merges: only the right merge base tells that from no change.

Bounds (constants of the modules): `MaxTurns`, `MaxContinuations`, `MaxDrops`, `MaxAborts`
limit the callers and the failures, not the code; `MaxIterations` and `MaxFunctionCalls`
are the code's own limits. In JsonStore each commit is asked for once, `MaxDeletes` and
`MaxDrops` limit deletions and dropped callers, `DroppedAt` says at which file operations a
caller may give up. The agents' runs do not check deadlock: when callers have used up their
bounds the system is idle and may stop. The store's runs do check it.

In RevisionControl `Asks` lists the requests of each controller, each made once.

The windows of run request are chosen so that in four messages every outcome of the
selection happens: all blocks whole, a newest block whole, elided, as a marker, or left out;
a summary made, continued, used again, over its budget or too large beside a whole newest
block; a cache of another revision, of another policy version, of a wider window, of a
deleted thread. Two fragments are the least that can be cut short; three items the least
where two calls interleave behind a text. A thread has at most two lives: what a deletion
leaves for the next life does not depend on how many there were before.

The policies of run exec are one of each kind that resolution tells apart: the default,
which Seatbelt refuses, an invalid scope, a scope that needs staging, one with the host's
network, one whose processes are the host's, and one that asks strictly for a kernel filter
and leaves its descendants alone. One process left behind is enough: termination looks at
each by itself. A call made twice has one suspension and one resumption, and the property
to hold across them is that nothing was launched before.

In run evaluation a second evaluation is enough to find what the first left in the sink or
on the policy's thread. Its limit of three steps is one more than the shortest way to the
end, so that runs end before it, at it, and by it.

Symmetry of agents is used in the runs that check safety only. ModelRequest is checked for deadlock; an exec call or an evaluation that is over may stop.

### Fairness

`FairSpec` of AgentLoop gives weak fairness to what an agent does by itself: the executor
polls a ready task, and the store answers. The lease is a tokio mutex, which serves waiters
in order: strong fairness of `Acquire`. It assumes nothing of three kinds of await, `AwaitsHost`:
building a request (the builder may ask a model for a summary), the before- and the
after-hooks. The code does not race these with the abort, and nothing makes them return.
`AbortReturns` therefore has two parts. Aborted while it awaits a model or a function, an
operation returns though that never answers. Aborted anywhere else behind its lease, it
returns if `HostFairness` holds, that is if builder and hooks come back; of models and
functions it still assumes nothing. `OperationsReturn` assumes `HostFairness`, that functions
return (`FunctionRegistry::call` puts `tokio::time::timeout` around every one) and that the
model client answers or fails (a hope: no timeout of the runtime covers it). In JsonStore file
operations end and the write lock, a tokio mutex again, is fair.

In ExecCommand the registry's budget expires, the backend's second kill follows the first,
and an abort that was set is seen, all weakly fair; nothing is assumed of the command, of
the tool's own timeout, of the host or of an embedder's resolver and authorizer. `CallEnds`
rests on the budget alone. In EvalRunner what the task itself does next is weakly fair: it
awaits only the runtime and the provider, which end or fail. ModelRequest states no
liveness: nothing bounds a chat stream that stays silent (limits, below).

## 4. Findings

* **masked.** `recover_turn` promises that a call of unknown effect leaves the turn
  "suspended for external reconciliation". `run_turn` does not look for a turn left
  running by a crash; if one is recovered after a later turn was run, the later turn's
  user message, read after the suspension, hides it. The turn is suspended and cannot be
  resumed, and its call never gets an output.
* **resuspend.** A function that suspends again when approved: the caller is given a
  suspension that is stored nowhere, and no resume accepts its id.
* **detached.** `compare_and_commit` should commit only over the revision it was based on.
  A caller that drops the future during the rename frees the lock while the rename goes
  on; it may land over a later commit that has already returned `Ok`.
* **raced_merge.** "The controller does not silently choose a side." A merge computes its
  spec from one head of the target and commits it on top of another, if a commit lands in
  between: the merge has that commit as a parent and not its change.

## 5. Proofs

TLAPS proves these for every value of the constants: any number of agents, coordinators,
calls, turns, crashes, recoveries, clients, commits, messages, windows, tasks and limits.
Every safety property that a passing run checks is a theorem, refinements included, but for
`MergesAreThreeWay`, which the code guarantees only of histories like those of its run. Some
have a hypothesis on the constants, which is named below and holds in the run.

**Turn loop, reruns** (AgentLoopProofs). `TypeCorrect`: `TypeOK`. Besides types it holds
what `pc` says of the queue (`WellFormed`), without which `Head` and `Tail` in the actions
say nothing. `RerunsNeedApproval`: `RerunsApproved`, from the inductive invariant `IInv`
(`Inductive`). `RerunsApproved` alone is not inductive: it says nothing of an agent that is
about to enter a function. `IInv` counts those agents too. An agent that stands before the
call with its marker committed holds a *permit*; entries plus permits never exceed
approvals, plus one once a marker exists (`Accounting`). A live call takes the first permit
because it has no marker yet, which an agent knows of its batch as long as its copy is
current (`LiveQueue`, `Copies`); recovery gives no permit for a call with a marker, because
the marker is found after the last response of the turn, the one that asked for the call
(`RecoveryQueue`, `RequestedOnce`, `MarkersRequested`); an approval gives one and counts
one. `Drop` and conflicts only lose permits. The proof has three layers: lemmas on
appending to the log, one lemma per class of step (nothing durable; a commit that gives no
permit; a marker), and lemmas that put each action in its class.

**Turn loop, ledger** (AgentLedgerProofs). `AnsweredOnce`, `ClosedAnswered`,
`SkippedNotRun`, `PendingSuspended` and `ClosedFrozen` follow from `LInv`
(`LedgerInductive`), with or without a common lease. What each of them forbids is done by
a commit, and a commit appends what the agent's copy lets it conclude. So `LInv` adds to
`IInv`:
 * what holds of the stored items alone (`Ledger`): outputs follow their request and come
   once, a call that was skipped has no marker, behind an open call of a batch no other was
   started, and a model is asked again only when its turn's calls are answered;
 * what an agent whose copy is current may conclude (`Conclusions`): its turn is running
   (or suspended, while an answer is settled), its queue is what is open of the turn's last
   batch, in order, and the suspension it settles is the pending one. This is where most
   of the proof is: an agent loads, and the queue it computes from the items
   (`pending_function_calls`) must be what a live agent would hold.
 * that the functions entered left a marker (`StartsMarked`).

An agent with a stale copy concludes nothing and need not: its commit is refused.
`DurableOutcome` and `NoRunAnswered` have the hypothesis `SharedLease`, that all agents
have one coordinator (the code's default, `LocalSessionCoordinator`, per process).
`HolderAlone` says what it gives: who is past its load holds the lease and has the stored
revision. Without it `NoRunAfterAnswer` is false (section 3).

`CallsGoByTheLedger`: the turn loop implements CallLedger (`ImplementsCallLedger`), with or
without a common lease. The mapping reads everything off the thread, and `LInv` makes what it
reads unique: one request, one output for each call. To it `LifeInv` adds that a function
that runs was entered (`RunningEntered`), from which its success is told. Every action is then a
step of one kind: a commit that puts outputs or a status behind the items is `Settle` of the
agent's turn, because what the agent holds in its queue is what is `Waiting`; a marker is
`Start`, or `Approve` together with the count of the approval; a response that calls is `Ask`,
by the batches being answered one after the other; entering is `Enter`, its bound being
`Accounting`; what commits neither calls nor outputs stutters, or settles nothing but the
status. What an agent with a stale copy may still do is `Enter` and nothing else.

**Stores** (ThreadRegister, JsonStoreProofs). `CommitsKept`: the register loses no commit,
except to a copy from before a deletion whose revision has been reached again (`Revenant`).
`LockProtocol`, `StoreImplementsRegister`, `StoreKeepsCommits`: the file store keeps its
lock protocol, implements the register and hence loses no commit. The refinement maps the
copy of a client between rename and return to what it has committed, so that the rename is
the register's `Commit`; `RemoveThread` is `Delete`; a crash or a drop is `Forget`; all
else stutters. The hypothesis `CallersStay` says no caller gives up during the rename or
the removal of the thread file; run detached shows that the theorem is false without it.
`CacheRemovedFirst` (`CacheGoesFirst`) needs `SavesStay` besides, that none gives up while
it saves a cache: the file operation would go on after the deletion that comes next.

**Revisions** (RevisionProofs). `BranchesKeepCommits`, `StoreComplete`: `CommitsStay` and
`TypeOK`, for any controllers and requests. `TypeOK` is where the completeness of the store
is (a draft's parents are stored; a revision is stored before it is set). `CommitsStay`
needs one thing more, `BuildsOnSeen`: an update that expects a head has it as first parent.
That a revision is in a log is said of every set that is closed under first parents, so
that no induction is needed. `MergeKeepsBothSides`, `MergeIsSymmetric`: what a clean merge
is made of, for any specs.

`SearchFindsHistory`: breadth-first search up the parents, cut at the size of the store,
finds every ancestor (`SearchIsComplete`), so the model's bound on it, which the code does
not have, leaves nothing out. A revision enters the store after its parents; counting the
store when it entered ranks it above them (`HistoryInv`), and a search descends in rank by
one a step (`SearchDescends`). Being ranked, the history also has an induction (`ByHistory`:
what a revision has if its parents have it, all have) without an operator parameter. From
the ranks follows that ancestors, distances and bases of stored revisions do not change when
the store grows (`HistoryStays`).

`MergesAreThreeWay` says of a merge that its spec is the clean three-way merge of its two
parents over a latest common ancestor. The code does not guarantee that: the target's head is
read twice (run raced_merge), and the least sum of distances need not be a latest ancestor
(section 6). `MergesFollowTheLog` says what it does guarantee (`MergesAreOfTheLog`), with no
hypothesis: a merge that was reported done is the clean three-way merge of its second parent
and of a revision in the log of its first, over a base the search finds for these two, and
over a latest common ancestor where they have a history in which nothing else is found
(`Upstream`). So no conflict between the two that were merged is decided silently, and what
the target can lose is what landed on it between the two reads. The invariant `MergeInv` says it at
each await. What was read of the target was its head then, and the log of a head only grows
(`HeadGrows`), so it is in the log of the head that is read again and becomes the parent
(`ReadOf`, `ReadStays`, `LogStays`); once stored, a merge stays what it is by `HistoryStays`.

`Upstream` is a condition one can see on the two sides: one was reached by commits alone, and
each merge in the other's history took from it a revision at least as far as what it had of it
already. That is a branch that keeps up with main any number of times and is merged back, or
two branches that were never merged into. There one common ancestor leads all the others,
none is nearer to the follower (`FollowerHasLatest`), and every other is farther from the
linear side (`LinearDistance`), so the least sum names it alone (`UpstreamBase`).
`FollowersMergeThreeWay` adds a hypothesis on the requests, `OwnedTargets`: only the controller
that is asked to merge into a branch is asked for anything else on it. Then the head that is
read again is the one that was merged (`PreparedStep`, `DraftedStep`, `StoredStep`), and each
merge in an `Upstream` history is that of its very parents, as all of run revisions are.

**Context and model calls** (RequestProofs, invariants in RequestInv). `TypeCorrect`,
`WindowKept`, `NothingLost`, `Faithful`, `Shown`: every property of run request, for
conversations and answers of any length and any sizes, windows and conforming providers.
`Faithful` and `Shown` have the exception of their properties, `TakenAtItsWord` (section 6).
The invariant (`RequestInductive`) has two halves.
 * `ContextInv`. What was selected is a start of a block, no earlier start of which would
   have fitted (`Selects`): the code's walk as a minimum. A cached summary that no named
   exception touches is about exactly the messages it counts, and no window it was made
   for, nor the present one if it may be used, has room for a block it covers (`Covers`).
   The second part is what makes it inductive: it says that what a later build omits is at
   least what the cache covers, so there is a summary to continue. It needs the
   estimates to grow with the messages.
 * `StreamInv`. While an answer is streamed, what was collected is what the events sent so
   far tell. For a chat stream that is the fragments of each call and of the one text
   (`Collected`). For a Responses stream every item is in its place (`InPlace`) if the
   events carry an index or ids, or if each item is one event; if items are added without
   either, an item that is done is put beside the one that was added (`Displaced`), and
   then never all are finished, so that the response fails rather than being wrong.

   The sums over messages and the folds over fragments and items are finite-set and
   sequence folds; the lemmas that solve them (`SumExists`, `SumsAgree`,
   `ChainExists`) are inductions over a set of numbers, by its least element outside.

**Commands** (ExecProofs). `LaunchedOnce`, `ApprovedLaunches`: for any backends, policies,
grants and number of attempts. Neither is inductive: `LaunchInv` adds that nothing was
launched before the call runs, that a call under way has no outcome yet (so it cannot have
been suspended after a launch), that a rejection does not outlast its attempt, and that the
grant in force is one that was made. `ExecTypeCorrect`, `ReportsAreTrue`,
`StagingIsRemoved`, `HonestResolution`: from `ExecInv`, which adds what each place of the
call says of the process tree (`TreeInv`: after the kills the leader is gone, its
descendants are gone or escaped, setup is over or abandoned) and of the policy it runs
under (`UsingInv`).

**Evaluation** (EvalProofs, with its invariant). `EvalTypeCorrect`, `StepLimit`,
`TrajectoryTold`, `LedgerTold`, `ExposuresGrounded`, `ShownWasExposed`, `DecisionFresh`:
every safety property of run evaluation, for any tasks, paths, decisions and limits, from
`EvalInv` (`EvalInductive`): the trajectory so far is a story of the task (`Story`), the
ledger is what its nodes ask for (`Ledger`), and where the run stands agrees with the last
event and the number of actions (`PlaceInv`, `StepInv`). `Applying` and `Due` are recursive
functions over the operations of a node and the events of a run; the lemmas
`ApplyingIsLast` and `DueIsLast` solve them in the same way. A step that fails in the middle keeps the ledger
because the environment is only replaced when all of a node's operations applied.
`ShownWasExposed` rests on a compiled case declaring each constraint id once.

Only model-checked: `MergesAreThreeWay` as it stands, and liveness (`AbortReturns`,
`OperationsReturn`, `CallsReturn`, `CallEnds`, `RunEnds`). The prover has no `ENABLED`, so no step can be drawn from fairness.

Assumptions on constants (`AgentsFinite`, `CoordinatorsOk`, `CallsOk`, `LimitsOk`,
`ClientsOk`, `CommitsOk`, `AtomsOk`, `AsksOk`, `SizesAssumption`, `SettingsAssumption`,
`ProvidersAssumption`, `BoundsAssumption`, `CasesAssumption`, `RealizationsAssumption`,
`AttemptsAssumption`, `PoliciesAssumption`) are evaluated by TLC in the runs. All but
`ProvidersAssumption` say which type a constant has, or that names differ.
`ProvidersAssumption` is what the clients rely on (section 6).

## 6. Abstractions and limits

* One thread. Threads share only the registry and the coordinator, both keyed by thread.
* The model provider never reuses a call id (`Batches`). The runtime relies on it: it
  finds outputs by call id.
* A suspension names its call, as every suspension made in the repository does.
* Attempt numbers, texts, token counts, traces, metrics and stream events carry no control.
* `Drop` stands for crash, dropped future, and every `?` at an await: I/O errors, context
  errors, an unknown function in `recovery_policy`.
* An aborted turn may keep calls without an output: when recovery suspended an earlier call
  of the batch and the approved call is aborted. `ClosedTurnsAnswered` is about completed
  and failed turns.
* `max_function_calls` counts live calls of one operation, as the code does.
* Revisions are natural numbers; the code saturates at 2^64 - 1.
* A second store on the same directory is excluded by the file lock of `open` and is not
  modelled.
* One agent id in RevisionControl: the checks that branches and specs belong to the same
  agent, and the validation of specs and messages, are not modelled.
* `LocalRevisionStore` renames its files as the JSON store does, so a caller lost during the
  rename of a branch head can put an old head in place; RevisionControl takes its calls as
  atomic. Two stores on one directory are not modelled either: the code leaves those to
  other stores.
* Merging a branch that is merged already is not refused (only equal heads are), and a merge
  is stored where the target could just move on. The least sum of distances may then name an
  ancestor of a later common ancestor. Two topic branches leave main at x, main goes on to y,
  and each of them merges main before it has a commit of its own: x and y are now parents of
  both merges, at the same distance. The first branch sets a field back to what it was in x.
  When the two are merged the hash decides between x and y, and over x that change is taken
  for none and dropped; where the other branch has changed the field as well, a conflict is
  settled without being reported. Merging an old branch once more into one that has it can
  leave x as the only candidate. The instance of run revisions has no such merge.
* An abort does not end a turn whose context builder, compactor or hook never returns
  (`agent_loop.rs:896-904`, `1108-1110`, `1221-1227`): `HostFairness` (section 3). In ModelRequest
  no abort happens while the compactor is awaited, for the same reason.
* Thread deletion under a running turn is in JsonStore, not in AgentLoop.
* Calls that recovery or an approved resumption makes are not put to the before- and
  after-hooks (`agent_loop.rs:1709`). The README's hooks promise nothing of these paths, so
  no property says they should be.

Context and model calls:

* The estimate of several messages is the sum of theirs. The code's estimators are that up
  to rounding.
* `NothingIsLost` has two named exceptions. `save_context_cache` does not ask whether there
  still is such a thread, so a summary that is saved after a deletion waits for the next
  thread of that id, and is taken if revision, version and count agree (`haunted`). And a
  window that grew without a new policy version omits fewer messages than the cached summary
  covers: the builder then starts at the end of what it omits, with no summary to continue,
  and the new summary is about nothing (`widened`).
* A process without a compactor that finds a cache that is current uses it and, having
  reserved nothing for a summary, refuses the build.
* A newest block that fits the full budget, but not beside a summary, is kept whole; the
  summary is then refused, although `context.rs:157` grants the block the full budget.
* A build that fails leaves through `?`: the turn stays running and waits for recovery.
* An event arrives whole or breaks the stream; how bytes are cut into frames, the mapping of
  requests to JSON and the capture of error events are left out.
* The run has nine styles of provider. The theorems hold for every style that `Conforms`:
  a chat stream is deltas, of one text and of calls; an item that ends with an event of its
  own has an index, was added before, or is that event alone. One that sends `arguments.done` after
  `output_item.done` would overwrite the authoritative item with the added one
  (`responses.rs:411`, against the comment at 455); no provider modelled does.
* A Responses stream that finished no item and ends with an empty `output` is a success with
  neither text nor calls (`responses.rs:446-468`): items that were added and not finished fail
  the response only if some item was finished. Text that was shown by then is not stored; the
  turn fails as empty or, with `allow_empty_response` (off by default, and not modelled),
  completes without a message. A test (`responses.rs:947-973`) accepts an empty completion.
  `AnswerIsFaithful` and `ShownOnce` name it (`TakenAtItsWord`), and the first says that the
  answer is then dropped as a whole.
* A chat stream that is closed early counts as complete if its arguments parse. It has no
  idle timeout either: a provider that stays silent holds the call until an abort.

Commands:

* Termination is two steps (children, then group and leader); a setup step visible to the
  host is one step with spawning. The seccomp filter, the text of a Seatbelt profile,
  Landlock and mount details and user mapping are taken as given.
* Grants and revocations come before the launch; none is read later.
* A future dropped by the budget or by an abort kills the leader of a plain command; an
  isolated one goes on under its supervisor, which nothing kills. `ReportedIsOver` is
  therefore about calls that report their own end.
* The sandbox module asks backends to terminate "the complete command process tree, not only
  the direct child process" (`sandbox/mod.rs:82-83`). The code reaches less where a command
  sees the host's processes (`terminate_pid`, `direct_children`, `linux.rs:969-991`): the
  leader, its group, and the children it has when they are listed. A process that is detached,
  or left the group unlisted, survives a timeout that is reported. `ReportedIsOver` states what
  the code reaches and excuses that process (`Escaped`); without the excuse it would be false.
* Draining does not look at the token any more, so a command that keeps its pipes open is
  ended by the budget.
* Output that was cut at `max_output_bytes` makes the registry discard the whole result.

Evaluation:

* The controller is the one of the eval example (`examples/eval/src/main.rs`), the only one in
  the repository that asks a model.
* The judge's and the realizer's answers are any member of small sets; their agents are not
  the model of AgentLoop, but end or fail as it does.
* The policy's agent keeps one thread over evaluations. A call suspended in it is never
  resumed by the evaluation, so every later action of the policy fails.

Not modelled: web search (one request and its formatting), observability (sinks nothing
reads), the examples (they call the operations above), configuration and error types.

## 7. Plan

What is left, by how much of the system rests on it.

1. `ExecCommand` under AgentLoop: the approval of a suspended call by the loop in place of
   `Resume`, to state that one approval launches one command.
2. Output limits and resolvers of the function registry; `LocalRevisionStore` at the grain
   of file operations.

## 8. Running

```
tlc -workers 2 -config AgentLoop_contended.cfg MCAgentLoop
tlc -workers 2 -config JsonStore.cfg JsonStore
tlc -workers 2 -config RevisionControl.cfg MCRevisions
tlc -workers 2 -config ModelRequest.cfg MCRequest
tlc -workers 2 -config ExecCommand.cfg MCExec
tlc -workers 2 -config EvalRunner.cfg MCEval
tlapm AgentLoopProofs.tla
tlapm AgentLedgerProofs.tla
tlapm JsonStoreProofs.tla
tlapm ThreadRegister.tla
tlapm RevisionProofs.tla
tlapm RequestProofs.tla
tlapm ExecProofs.tla
tlapm EvalProofs.tla
```
