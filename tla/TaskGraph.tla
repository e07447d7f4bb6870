----------------------------- MODULE TaskGraph ------------------------------
(***************************************************************************)
(* The authored task of an evaluation and what compiles it: program.rs of  *)
(* canary-agent-eval.  Ids are model values, so never empty; obligations,  *)
(* provenance and the kinds of transitions are data nobody here reads.     *)
(***************************************************************************)
EXTENDS Naturals, Sequences, Functions

(* ConstraintOperation.                                                     *)
AddC(id, value)             == [op |-> "add", id |-> id, value |-> value]
ReplaceC(target, id, value) ==
    [op |-> "replace", target |-> target, id |-> id, value |-> value]
RemoveC(target)             == [op |-> "remove", target |-> target]

Declares(delta, id) == delta.op \in {"add", "replace"} /\ delta.id = id
Targets(delta, id)  == delta.op \in {"replace", "remove"} /\ delta.target = id

(* TaskCase: nodes [id, constraints, terminal] and transitions              *)
(* [id, from, to], both in the order in which they are authored.           *)
HasNode(case, id) == \E n \in DOMAIN case.nodes : case.nodes[n].id = id
Node(case, id) ==
    case.nodes[CHOOSE n \in DOMAIN case.nodes : case.nodes[n].id = id]

(* TaskCase and TaskNode: lists of nodes, transitions and operations.       *)
IsList(s) == s \in Seq(Range(s))
IsCase(case) ==
    /\ IsList(case.nodes) /\ IsList(case.transitions)
    /\ \A n \in DOMAIN case.nodes :
          /\ IsList(case.nodes[n].constraints)
          /\ \A i \in DOMAIN case.nodes[n].constraints :
                case.nodes[n].constraints[i].op \in {"add", "replace", "remove"}

(* The places <<node, position>> at which the case declares constraint id.  *)
Declarations(case, id) ==
    UNION {{<<n, i>> : i \in {k \in DOMAIN case.nodes[n].constraints :
                                Declares(case.nodes[n].constraints[k], id)}} :
              n \in DOMAIN case.nodes}

(* Mutant: a later node may declare a constraint again.                     *)
TargetsAreDeclared(case) ==
    \A n \in DOMAIN case.nodes : \A i \in DOMAIN case.nodes[n].constraints :
        LET delta == case.nodes[n].constraints[i]
        IN  delta.op = "replace" => Declarations(case, delta.target) # {}

(* validate_constraint_ids: an id is declared once in the whole case, and   *)
(* what is replaced is declared somewhere; what is removed need not be.    *)
ValidConstraintIds(case) ==
    \A n \in DOMAIN case.nodes : \A i \in DOMAIN case.nodes[n].constraints :
        LET delta == case.nodes[n].constraints[i]
        IN  /\ delta.op # "remove" => Declarations(case, delta.id) = {<<n, i>>}
            /\ delta.op = "replace" => Declarations(case, delta.target) # {}

(* TaskCase::compile accepts the case; the TaskGraph it then builds is the  *)
(* same data indexed by id.                                                *)
Compiles(case) ==
    /\ case.nodes # <<>>
    /\ IsInjective([n \in DOMAIN case.nodes |-> case.nodes[n].id])
    /\ HasNode(case, case.start)
    /\ IsInjective([t \in DOMAIN case.transitions |-> case.transitions[t].id])
    /\ \A t \in DOMAIN case.transitions :
          /\ HasNode(case, case.transitions[t].from)
          /\ HasNode(case, case.transitions[t].to)
    /\ ValidConstraintIds(case)

(* TaskGraph::transition: the transition of that id, none or one.           *)
Transition(case, id) ==
    {case.transitions[t] : t \in {k \in DOMAIN case.transitions :
                                     case.transitions[k].id = id}}
=============================================================================
