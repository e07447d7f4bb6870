-------------------------- MODULE GraphEnvironment --------------------------
(***************************************************************************)
(* GraphEnvironment of canary-agent-eval: the state of one evaluation and  *)
(* what its operations do to it (environment.rs).  The environment is      *)
(* borrowed mutably across the awaits of reset and step, so nothing runs   *)
(* beside them: here they are functions from environment to environment,   *)
(* cut where the code awaits the controller and the realizer.  A result    *)
(* [ok, env] with ok = FALSE is an error through `?`: env is what the error *)
(* leaves behind.                                                          *)
(***************************************************************************)
EXTENDS TaskGraph, FiniteSets, SequencesExt

Put(f, key, value) ==
    [k \in DOMAIN f \cup {key} |-> IF k = key THEN value ELSE f[k]]
Without(f, key) == Restrict(f, DOMAIN f \ {key})
Empty == [k \in {} |-> {}]

(* ConstraintExposure.  `named` says that the rule of a derivation, or the  *)
(* source of a context, is not blank.                                      *)
Disclose(c)              ==
    [how |-> "disclose", constraint |-> c, inputs |-> {}, named |-> TRUE]
Derive(c, inputs, named) ==
    [how |-> "derive", constraint |-> c, inputs |-> inputs, named |-> named]
ProvideContext(c, named) ==
    [how |-> "context", constraint |-> c, inputs |-> {}, named |-> named]

(* EnvironmentState and the events of the trajectory.                       *)
Fresh(case) ==
    [status |-> "notStarted", node |-> case.start, active |-> Empty,
     applied |-> <<>>, exposures |-> Empty, step |-> 0, events |-> <<>>]

Record(env, event) ==
    [env EXCEPT !.step = @ + 1,
                !.events = Append(@, [sequence |-> env.step + 1, event |-> event])]

(* apply_constraint: the precondition and the effect of each operation.     *)
Applicable(env, delta) ==
    IF delta.op = "add" THEN delta.id \notin DOMAIN env.active
    ELSE delta.target \in DOMAIN env.active
ActiveAfter(env, delta) ==
    IF delta.op = "add" THEN Put(env.active, delta.id, delta.value)
    ELSE IF delta.op = "remove" THEN Without(env.active, delta.target)
    ELSE Put(Without(env.active, delta.target), delta.id, delta.value)
ApplyConstraint(env, node, delta) ==
    [env EXCEPT !.active = ActiveAfter(env, delta),
                !.applied = Append(@, [node |-> node, delta |-> delta])]

(* One operation more, if all before it applied.                            *)
Applied(result, node, delta) ==
    IF result.ok /\ Applicable(result.env, delta)
    THEN [ok |-> TRUE, env |-> ApplyConstraint(result.env, node, delta)]
    ELSE [ok |-> FALSE, env |-> result.env]

Applying(case, env, id) ==
    LET deltas == Node(case, id).constraints
        after[k \in 0..Len(deltas)] ==
            IF k = 0 THEN [ok |-> TRUE, env |-> env]
            ELSE Applied(after[k - 1], id, deltas[k])
    IN  after[Len(deltas)]

(* Mutant: the operations before the one that fails stay applied.           *)
ApplyNodePartly(case, env, id) == Applying(case, env, id)

(* apply_node: all the operations of the node in order, or, when one does   *)
(* not apply, the state of before.                                         *)
ApplyNode(case, env, id) ==
    LET all == Applying(case, env, id)
    IN  [ok |-> all.ok, env |-> IF all.ok THEN all.env ELSE env]

(* GraphEnvironment::new applies the start node before anything is recorded. *)
New(case) == ApplyNode(case, Fresh(case), case.start)

Terminate(env) ==
    Record([env EXCEPT !.status = "terminated"], [kind |-> "terminated"])

(* apply_decision: a transition must be known and leave the current node,   *)
(* and its target's operations must apply; a terminal target ends the run. *)
Advance(case, env, transition) ==
    LET applied == ApplyNode(case, env, transition.to)
        moved   == Record([applied.env EXCEPT !.node = transition.to],
                          [kind |-> "transition", from |-> env.node, to |-> transition.to])
    IN  IF ~applied.ok THEN applied
        ELSE [ok  |-> TRUE,
              env |-> IF Node(case, transition.to).terminal THEN Terminate(moved) ELSE moved]

(* Mutant: any known transition will do, wherever the run stands.           *)
ApplyAnyDecision(case, env, decision) ==
    IF decision.kind = "retry" THEN [ok |-> TRUE, env |-> env]
    ELSE IF decision.kind = "terminate" THEN [ok |-> TRUE, env |-> Terminate(env)]
    ELSE IF Transition(case, decision.transition) = {} THEN [ok |-> FALSE, env |-> env]
    ELSE Advance(case, env, CHOOSE t \in Transition(case, decision.transition) : TRUE)

ApplyDecision(case, env, decision) ==
    IF decision.kind = "retry" THEN [ok |-> TRUE, env |-> env]
    ELSE IF decision.kind = "terminate" THEN [ok |-> TRUE, env |-> Terminate(env)]
    ELSE LET leaving == {t \in Transition(case, decision.transition) : t.from = env.node}
         IN  IF leaving = {} THEN [ok |-> FALSE, env |-> env]
             ELSE Advance(case, env, CHOOSE t \in leaving : TRUE)

(* Mutant: a derivation may use what is active, exposed or not.             *)
ExposableUngrounded(env, exposed, exposure) ==
    /\ exposure.constraint \in DOMAIN env.active
    /\ exposure.constraint \notin exposed
    /\ exposure.named
    /\ exposure.how = "derive" => /\ exposure.inputs # {}
                                  /\ exposure.inputs \subseteq DOMAIN env.active

(* prepare_exposure_records: may `exposure` follow when the constraints in  *)
(* `exposed` are already exposed?  It is active and not exposed yet, and    *)
(* what it is derived from is active and exposed.                          *)
Exposable(env, exposed, exposure) ==
    /\ exposure.constraint \in DOMAIN env.active
    /\ exposure.constraint \notin exposed
    /\ exposure.named
    /\ exposure.how = "derive" =>
          /\ exposure.inputs # {}
          /\ exposure.inputs \subseteq DOMAIN env.active \cap exposed

(* The exposures of one observation, in order: those listed before count.   *)
ExposedBefore(env, exposures, k) ==
    DOMAIN env.exposures \cup {exposures[j].constraint : j \in 1..(k - 1)}
AllExposable(env, exposures) ==
    \A k \in DOMAIN exposures :
        Exposable(env, ExposedBefore(env, exposures, k), exposures[k])

ExposuresWith(env, exposures) ==
    LET now == {exposures[k].constraint : k \in DOMAIN exposures}
    IN  [c \in DOMAIN env.exposures \cup now |->
            IF c \in now THEN env.step + 1 ELSE env.exposures[c]]

(* visible_state: what is active of what was ever exposed.                  *)
VisibleState(env) == Restrict(env.active, DOMAIN env.active \cap DOMAIN env.exposures)

(* emit_observation after the realizer answered: nothing changes unless     *)
(* every exposure is in order.                                             *)
EmitObservation(env, exposures) ==
    LET exposed == [env EXCEPT !.exposures = ExposuresWith(env, exposures)]
    IN  IF ~AllExposable(env, exposures) THEN [ok |-> FALSE, env |-> env]
        ELSE [ok  |-> TRUE,
              env |-> Record(exposed, [kind |-> "observation", exposures |-> exposures,
                                       visible |-> VisibleState(exposed)])]

(* reset up to the first observation.                                       *)
Started(case, env) ==
    LET started == Record([env EXCEPT !.status = "running"], [kind |-> "started"])
    IN  IF Node(case, env.node).terminal THEN Terminate(started) ELSE started
=============================================================================
