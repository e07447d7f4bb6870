------------------------------ MODULE SpecMerge ------------------------------
(***************************************************************************)
(* canary-agent-revision/merge.rs: the three-way merge of agent specs.      *)
(*                                                                         *)
(* A spec is a JSON object whose keys are always there (model, prompts,     *)
(* tools ...).  A value of it is an atom, or an object again; objects       *)
(* nest one deep here where the code recurses.  A key that an object does   *)
(* not have is the atom that stands for None.                               *)
(***************************************************************************)

CONSTANTS
    Fields,     \* keys of a spec
    Keys,       \* keys of the objects in it
    Atoms       \* anything that is not an object, None included

Objects == [Keys -> Atoms]
Specs == [Fields -> Atoms \cup Objects]

ASSUME AtomsOk == Atoms \cap Objects = {}

(* One side left the value alone, or both made the same change of it.       *)
Settled(base, ours, theirs) == ours = theirs \/ ours = base \/ theirs = base

(* Mutant: what only the other branch changed is dropped.                   *)
SettleForOurs(base, ours, theirs) == ours

Settle(base, ours, theirs) == IF ours = base THEN theirs ELSE ours

(* May the values be merged without a conflict?                             *)
Mergeable(base, ours, theirs) ==
    \/ Settled(base, ours, theirs)
    \/ /\ {base, ours, theirs} \subseteq Objects
       /\ \A k \in Keys : Settled(base[k], ours[k], theirs[k])

MergeValue(base, ours, theirs) ==
    IF Settled(base, ours, theirs)
        THEN Settle(base, ours, theirs)
        ELSE [k \in Keys |-> Settle(base[k], ours[k], theirs[k])]

(* MergeResult::is_clean and its spec.                                      *)
Clean(base, ours, theirs) == \A f \in Fields : Mergeable(base[f], ours[f], theirs[f])
MergeSpecs(base, ours, theirs) == [f \in Fields |-> MergeValue(base[f], ours[f], theirs[f])]
=============================================================================
