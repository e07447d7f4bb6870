----------------------------- MODULE EvalRunner -----------------------------
(***************************************************************************)
(* An evaluation: EvalRunner::run drives the graph environment, the        *)
(* evaluated policy, the LLM controller with its decision tool, and the    *)
(* referee.  One task runs it all, so what can go wrong is not a race but  *)
(* a failure between two steps and what it leaves for the next: the        *)
(* environment of a failed run can be run again, and the sink, the agents  *)
(* and their threads outlive it, shared with the next evaluation.          *)
(***************************************************************************)
EXTENDS GraphEnvironment

CONSTANTS
    Cases,              \* task cases an author may hand in
    Decisions,          \* decisions the controller's model may submit
    Realizations,       \* exposure lists the realizer may answer with
    MaxSteps,           \* EvalRunnerConfig::max_environment_steps
    MaxSubmissions,     \* bound: calls of environment_decision in one turn
    MaxRuns             \* bound: evaluations in one process

ASSUME BoundsAssumption ==
    MaxSteps \in Nat /\ MaxSubmissions \in Nat /\ MaxRuns \in Nat \ {0}
ASSUME CasesAssumption == \A c \in Cases : IsCase(c)
ASSUME RealizationsAssumption == \A r \in Realizations : IsList(r)

VARIABLES
    case,               \* the task of this evaluation
    env,                \* the GraphEnvironment
    pc,                 \* where the host, or run(), awaits
    steps,              \* run()'s local counter
    sink,               \* EnvironmentDecisionSink: {} or one pending decision
    suspended,          \* the policy's thread holds a suspended call
    submitted,          \* history: what the controller's turn has submitted
    runs                \* bound: evaluations started

vars == <<case, env, pc, steps, sink, suspended, submitted, runs>>

Stopped == {"rejected", "failed", "scored"}
Places  == Stopped \cup {"built", "realizing", "looping", "acting", "judging", "scoring"}

-----------------------------------------------------------------------------
(* The host: compile the case, build the environment, run it, and later    *)
(* perhaps run it again or evaluate another case.                          *)

Built(c)  == Compiles(c) /\ New(c).ok
Opened(c) == IF Built(c) THEN New(c).env ELSE Fresh(c)

Init ==
    /\ case \in Cases
    /\ env = Opened(case)
    /\ pc = IF Built(case) THEN "built" ELSE "rejected"
    /\ steps = 0 /\ sink = {} /\ suspended = FALSE /\ submitted = <<>> /\ runs = 1

Evaluate(c) ==
    /\ pc \in Stopped /\ runs < MaxRuns
    /\ case' = c /\ env' = Opened(c)
    /\ pc' = IF Built(c) THEN "built" ELSE "rejected"
    /\ steps' = 0 /\ submitted' = <<>> /\ runs' = runs + 1
    /\ UNCHANGED <<sink, suspended>>

Reset ==
    /\ pc = "built"
    /\ env' = Started(case, env)
    /\ pc' = IF env'.status = "running" THEN "realizing" ELSE "scoring"
    /\ UNCHANGED <<case, steps, sink, suspended, submitted, runs>>

(* run() on an environment that has been run: reset refuses.                *)
ResetRefused ==
    /\ pc \in {"failed", "scored"} /\ env.status # "notStarted"
    /\ pc' = "failed"
    /\ UNCHANGED <<case, env, steps, sink, suspended, submitted, runs>>

-----------------------------------------------------------------------------
(* emit_observation: the realizer errs, answers blank text, or answers with *)
(* exposures; reset's observation is not counted as a step.                *)

InStep(e) == e.events[Len(e.events)].event.kind # "started"

Fail == pc' = "failed" /\ UNCHANGED <<case, steps, sink, suspended, submitted, runs>>

Realize(exposures) ==
    /\ pc = "realizing"
    /\ LET emitted == EmitObservation(env, exposures)
       IN  /\ env' = emitted.env
           /\ pc' = IF emitted.ok THEN "looping" ELSE "failed"
           /\ steps' = IF emitted.ok /\ InStep(env) THEN steps + 1 ELSE steps
    /\ UNCHANGED <<case, sink, suspended, submitted, runs>>

RealizerFails == pc = "realizing" /\ Fail /\ UNCHANGED env

-----------------------------------------------------------------------------
(* The loop of run(), and one action of the policy.                         *)

(* Mutant: the limit is one more than configured.                           *)
LimitOvershot == steps > MaxSteps

LimitReached == steps >= MaxSteps

LoopStops == pc = "looping" /\ LimitReached /\ Fail /\ UNCHANGED env

LoopGoesOn ==
    /\ pc = "looping" /\ ~LimitReached
    /\ pc' = "acting"
    /\ UNCHANGED <<case, env, steps, sink, suspended, submitted, runs>>

(* Mutant: a turn on a suspended thread waits instead of being refused.     *)
PolicyWaits == pc = "acting" /\ ~suspended /\ Fail /\ UNCHANGED env

(* run_turn errs; on a thread with a suspended call it always does.         *)
PolicyFails == pc = "acting" /\ Fail /\ UNCHANGED env

(* Mutant: the controller does not look.                                    *)
IgnoreStale == FALSE

(* RuntimeAgentPolicy::act answers whatever the outcome of the turn, and a  *)
(* suspended one leaves its thread suspended.  step records the action and  *)
(* asks the controller, who first looks for a decision left in the sink.    *)
StaleDecision == sink # {}

PolicyActs(suspends) ==
    /\ pc = "acting" /\ ~suspended
    /\ env' = Record(env, [kind |-> "action"])
    /\ suspended' = suspends
    /\ sink' = IF StaleDecision THEN {} ELSE sink
    /\ submitted' = <<>>
    /\ pc' = IF StaleDecision THEN "failed" ELSE "judging"
    /\ UNCHANGED <<case, steps, runs>>

-----------------------------------------------------------------------------
(* The controller's turn: calls of environment_decision, then its end.      *)

(* Mutant: a second decision is queued behind the first.                    *)
AcceptsBoth(pending, decision) == pending \cup {decision}

(* EnvironmentDecisionSink::submit: the same decision again is accepted, a  *)
(* different one is refused to the model as an error of the call.          *)
Accepts(pending, decision) == IF pending = {} THEN {decision} ELSE pending

Submit(decision) ==
    /\ pc = "judging" /\ Len(submitted) < MaxSubmissions
    /\ sink' = Accepts(sink, decision)
    /\ submitted' = Append(submitted, decision)
    /\ UNCHANGED <<case, env, pc, steps, suspended, runs>>

(* run_turn errs, or does not complete: what was submitted stays behind.    *)
TurnFails == pc = "judging" /\ Fail /\ UNCHANGED env

(* The turn completed: the decision is taken, recorded and applied.  An     *)
(* error leaves the action and the decision recorded.                      *)
NothingDecided == pc = "judging" /\ sink = {} /\ Fail /\ UNCHANGED env

Decide(decision) ==
    /\ pc = "judging" /\ sink = {decision}
    /\ sink' = {}
    /\ LET made    == Record(env, [kind |-> "decision", decision |-> decision])
           applied == ApplyDecision(case, made, decision)
       IN  /\ env' = applied.env
           /\ pc' = IF ~applied.ok THEN "failed"
                    ELSE IF applied.env.status = "running" THEN "realizing"
                    ELSE "scoring"
    /\ UNCHANGED <<case, steps, suspended, submitted, runs>>

-----------------------------------------------------------------------------
(* The referee is given the snapshot and the trajectory.                    *)
RefereeScores ==
    /\ pc = "scoring" /\ pc' = "scored"
    /\ UNCHANGED <<case, env, steps, sink, suspended, submitted, runs>>
RefereeFails == pc = "scoring" /\ Fail /\ UNCHANGED env

-----------------------------------------------------------------------------
Run ==
    \/ Reset \/ RealizerFails \/ LoopStops \/ LoopGoesOn \/ PolicyFails
    \/ TurnFails \/ NothingDecided \/ RefereeScores \/ RefereeFails
    \/ \E exposures \in Realizations : Realize(exposures)
    \/ \E suspends \in BOOLEAN : PolicyActs(suspends)
    \/ \E decision \in Decisions : Submit(decision) \/ Decide(decision)

Next == Run \/ ResetRefused \/ \E c \in Cases : Evaluate(c)

(* Every await is on the runtime or the provider, which end (the turns of   *)
(* AgentLoop end under their fairness); the task is then scheduled again.  *)
Spec == Init /\ [][Next]_vars /\ WF_vars(Run)

-----------------------------------------------------------------------------
Events(kind)  == {k \in DOMAIN env.events : env.events[k].event.kind = kind}
EventAt(k)    == env.events[k].event

TypeOK ==
    /\ case \in Cases
    /\ env.status \in {"notStarted", "running", "terminated"}
    /\ env.step \in Nat /\ steps \in 0..MaxSteps /\ runs \in 1..MaxRuns
    /\ pc \in Places /\ suspended \in BOOLEAN
    /\ sink \in {{}} \cup {{d} : d \in Decisions}
    /\ submitted \in Seq(Decisions)

(* What the trajectory says: the operations of the nodes that were entered, *)
(* in order, and the node at which the task stood before event k.           *)
Due(c, events) ==
    LET due[k \in 0..Len(events)] ==
            IF k = 0 THEN Node(c, c.start).constraints
            ELSE IF events[k].event.kind = "transition"
            THEN due[k - 1] \o Node(c, events[k].event.to).constraints
            ELSE due[k - 1]
    IN  due[Len(events)]

StoodAt(c, events, k, node) ==
    LET moves == {j \in 1..(k - 1) : events[j].event.kind = "transition"}
    IN  \/ moves = {} /\ node = c.start
        \/ \E j \in moves : node = events[j].event.to /\ \A i \in moves : i <= j

(* What is in force: the places at which id was declared and not taken away *)
(* since, and what they make active.                                       *)
Latest(deltas, id) ==
    {k \in DOMAIN deltas : /\ Declares(deltas[k], id)
                           /\ \A j \in (k + 1)..Len(deltas) : ~Targets(deltas[j], id)}
InForce(deltas, active) ==
    /\ \A k \in DOMAIN deltas :
          deltas[k].op # "remove" =>
              (deltas[k].id \in DOMAIN active <=> Latest(deltas, deltas[k].id) # {})
    /\ \A id \in DOMAIN active :
          \E k \in Latest(deltas, id) : active[id] = deltas[k].value

(* The ledger is exactly what the path applied: every operation of every    *)
(* node entered and none of a node whose entry failed; a constraint is      *)
(* active, with the value last declared, iff nothing took it away since.    *)
LedgerFollowsPath ==
    pc # "rejected" =>
        LET applied == [k \in DOMAIN env.applied |-> env.applied[k].delta]
        IN  /\ applied = Due(case, env.events)
            /\ StoodAt(case, env.events, Len(env.events) + 1, env.node)
            /\ InForce(applied, env.active)

(* Nothing is shown to the policy that no observation disclosed: each value *)
(* visible was exposed under its id, with that very value, then or before.  *)
VisibleValuesWereExposed ==
    \A k \in Events("observation") : \A id \in DOMAIN EventAt(k).visible :
        \E j \in Events("observation") :
            /\ j <= k
            /\ \E x \in Range(EventAt(j).exposures) : x.constraint = id
            /\ id \in DOMAIN EventAt(j).visible
            /\ EventAt(j).visible[id] = EventAt(k).visible[id]

(* An exposure is new, of something active, and what it was derived from    *)
(* was already known to the policy and still in force.                     *)
ExposuresAreGrounded ==
    \A k \in Events("observation") : \A x \in DOMAIN EventAt(k).exposures :
        LET exposure == EventAt(k).exposures[x]
            earlier  == {EventAt(k).exposures[y].constraint : y \in 1..(x - 1)}
                          \cup UNION {{e.constraint : e \in Range(EventAt(j).exposures)} :
                                        j \in {i \in Events("observation") : i < k}}
        IN  /\ exposure.constraint \in DOMAIN EventAt(k).visible \ earlier
            /\ exposure.how = "derive" =>
                  /\ exposure.inputs # {}
                  /\ exposure.inputs \subseteq earlier \cap DOMAIN EventAt(k).visible

(* The trajectory is gapless and tells a story that can have happened: who  *)
(* follows whom, each move from where the last one ended, along an edge of  *)
(* the task, and nothing after the end.                                    *)
Follows ==
    [started     |-> {"observation", "terminated"}, observation |-> {"action"},
     action      |-> {"decision"}, transition |-> {"observation", "terminated"},
     decision    |-> {"transition", "observation", "terminated"},
     terminated  |-> {}]
TrajectoryIsFactual ==
    /\ env.step = Len(env.events)
    /\ \A k \in DOMAIN env.events : env.events[k].sequence = k
    /\ \A k \in 1..(Len(env.events) - 1) : EventAt(k + 1).kind \in Follows[EventAt(k).kind]
    /\ \A k \in Events("transition") :
          /\ StoodAt(case, env.events, k, EventAt(k).from)
          /\ \E t \in Range(case.transitions) :
                t.from = EventAt(k).from /\ t.to = EventAt(k).to

(* The limit is exact: no action beyond it is taken, a run whose last       *)
(* permitted step ends the task is scored and not failed, and what the      *)
(* referee sees has ended.                                                 *)
LimitIsExact ==
    /\ Cardinality(Events("action")) <= MaxSteps
    /\ pc = "looping" => steps = Cardinality(Events("action"))
    /\ pc = "scoring" => env.status = "terminated"
    /\ pc \in {"looping", "acting", "judging", "realizing"} => env.status = "running"

(* A decision that is acted on was submitted in answer to this very action, *)
(* the first of its turn: never one that a failed turn left in the sink.    *)
DecisionsAreFresh ==
    [][Len(env'.events) > Len(env.events) =>
         LET k == Len(env.events) + 1
         IN  env'.events[k].event.kind = "decision" =>
                 /\ submitted # <<>>
                 /\ env'.events[k].event.decision = submitted[1]]_vars

(* Every evaluation that was started ends, however often the controller     *)
(* asks for the same step again.                                           *)
RunEnds == pc = "built" ~> pc \in Stopped
=============================================================================
