--------------------------- MODULE RevisionControl ---------------------------
(***************************************************************************)
(* canary-agent-revision: controllers that commit, branch and merge the     *)
(* specs of one agent over a RevisionStore.                                 *)
(*                                                                         *)
(* Every call of the store is atomic (LocalRevisionStore holds its lock     *)
(* through it); a controller's operation is several calls, and an action is *)
(* what it does up to the next one.  A revision's id is the hash of its     *)
(* content, parent ids included, so the model uses the content as the id.   *)
(* An Option is a sequence of at most one element.                          *)
(***************************************************************************)
EXTENDS SpecMerge, Naturals, Sequences, FiniteSets

CONSTANTS
    Controllers,    \* operations going on at a time
    Branches,       \* branch names
    Messages,       \* commit messages
    Asks            \* bound: the requests a controller may get, each once

Requests ==
    [kind : {"commit"}, branch : Branches, spec : Specs, message : Messages]
    \cup [kind : {"branch"}, branch : Branches, source : Branches]
    \cup [kind : {"merge"}, branch : Branches, source : Branches, message : Messages]

ASSUME AsksOk == \A c \in Controllers : \A q \in Asks[c] : q \in Requests

VARIABLES
    objects,    \* revisions in the store
    head,       \* refs/heads: the revision of each branch
    task,       \* what each controller's operation keeps across its await
    asked,      \* use of the bound
    acked       \* history: the branch updates that were reported done

vars == <<objects, head, task, asked, acked>>

Idle == [at |-> "idle"]

(* Revisions whose parents are in the store.                                *)
Options == {<<>>} \cup {<<r>> : r \in objects}
Drafts ==
    [parents : Options \cup {<<p, q>> : p \in objects, q \in objects},
     spec : Specs, message : Messages]

Tasks ==
    {Idle}
    \cup [at : {"save"}, branch : Branches, seen : Options, draft : Drafts]
    \cup [at : {"set"}, branch : Branches, seen : Options, draft : objects]
    \cup [at : {"target"}, branch : Branches, draft : objects]
    \cup [at : {"prepare"}, branch : Branches, theirs : objects, message : Messages]
    \cup [at : {"reread"}, branch : Branches, theirs : objects, message : Messages,
          spec : Specs]

(* TypeOK: the shapes of the state, and that the store is complete: heads,  *)
(* parents, and the revisions an operation has read are stored revisions,   *)
(* so that checkout, log and the search for a merge base find what they     *)
(* load, wherever an operation was lost.                                    *)
TypeOK ==
    /\ objects \subseteq Drafts
    /\ head \in [Branches -> Options]
    /\ task \in [Controllers -> Tasks]
    /\ asked \subseteq Controllers \X Requests
    /\ acked \subseteq [branch : Branches, revision : objects]

Init ==
    /\ objects = {}
    /\ head = [b \in Branches |-> <<>>]
    /\ task = [c \in Controllers |-> Idle]
    /\ asked = {}
    /\ acked = {}

-----------------------------------------------------------------------------
(* History.                                                                 *)

Parents(r) == {r.parents[i] : i \in DOMAIN r.parents}

(* Breadth-first search: the revisions n steps up from r.                   *)
Search(r, limit) ==
    LET up[n \in 0..limit] == IF n = 0 THEN {r} ELSE UNION {Parents(x) : x \in up[n - 1]}
    IN  up

Generation(r) == Search(r, Cardinality(objects))

Ancestors(r) == UNION {Generation(r)[n] : n \in 0..Cardinality(objects)}

Distance(r, a) ==
    CHOOSE n \in 0..Cardinality(objects) :
        /\ a \in Generation(r)[n]
        /\ \A m \in 0..(n - 1) : a \notin Generation(r)[m]

(* Mutant: any common ancestor serves as the base.                          *)
CommonAncestors(ours, theirs) == Ancestors(ours) \cap Ancestors(theirs)

(* choose_merge_base: the common ancestors with the least sum of distances; *)
(* the code takes the one with the smallest hash of them, which may be any. *)
MergeBases(ours, theirs) ==
    LET common   == CommonAncestors(ours, theirs)
        detour(a) == Distance(ours, a) + Distance(theirs, a)
    IN  {a \in common : \A b \in common : detour(a) <= detour(b)}

(* May preparing the merge of these two end in an error?                    *)
Unmergeable(ours, theirs) ==
    LET bases == MergeBases(ours, theirs)
    IN  \/ ours = theirs
        \/ bases = {}
        \/ \E base \in bases : ~ Clean(base.spec, ours.spec, theirs.spec)

-----------------------------------------------------------------------------
(* A controller c is given request q.                                       *)
Ask(c, kind, q) ==
    /\ task[c] = Idle
    /\ q.kind = kind /\ <<c, q>> \notin asked
    /\ asked' = asked \cup {<<c, q>>}

Becomes(c, next) == task' = [task EXCEPT ![c] = next]

(* commit: reads the branch head and makes it the parent.                   *)
Commit(c, q) ==
    /\ Ask(c, "commit", q)
    /\ Becomes(c, [at |-> "save", branch |-> q.branch, seen |-> head[q.branch],
                   draft |-> [parents |-> head[q.branch], spec |-> q.spec,
                              message |-> q.message]])
    /\ UNCHANGED <<objects, head, acked>>

(* create_branch: reads the source's head, then looks for the target.       *)
CreateBranch(c, q) ==
    /\ Ask(c, "branch", q)
    /\ head[q.source] # <<>>
    /\ Becomes(c, [at |-> "target", branch |-> q.branch, draft |-> head[q.source][1]])
    /\ UNCHANGED <<objects, head, acked>>

FindNoTarget(c) ==
    /\ task[c].at = "target" /\ head[task[c].branch] = <<>>
    /\ Becomes(c, [at |-> "set", branch |-> task[c].branch, seen |-> <<>>,
                   draft |-> task[c].draft])
    /\ UNCHANGED <<objects, head, asked, acked>>

(* merge: reads the source's head ...                                       *)
Merge(c, q) ==
    /\ Ask(c, "merge", q)
    /\ head[q.source] # <<>>
    /\ Becomes(c, [at |-> "prepare", branch |-> q.branch, theirs |-> head[q.source][1],
                   message |-> q.message])
    /\ UNCHANGED <<objects, head, acked>>

BranchNotFound(c, q) ==
    /\ Ask(c, "branch", q) \/ Ask(c, "merge", q)
    /\ head[q.source] = <<>>
    /\ UNCHANGED <<objects, head, task, acked>>

(* ... and the target's, and merges the specs of the two.  Objects never    *)
(* change, so the loads that follow the two reads are part of the step.     *)
PrepareMerge(c) ==
    /\ task[c].at = "prepare" /\ head[task[c].branch] # <<>>
    /\ LET ours   == head[task[c].branch][1]
           theirs == task[c].theirs
       IN  /\ ours # theirs
           /\ \E base \in MergeBases(ours, theirs) :
                  /\ Clean(base.spec, ours.spec, theirs.spec)
                  /\ Becomes(c, [at |-> "reread", branch |-> task[c].branch,
                                 theirs |-> theirs, message |-> task[c].message,
                                 spec |-> MergeSpecs(base.spec, ours.spec, theirs.spec)])
    /\ UNCHANGED <<objects, head, asked, acked>>

(* commit_merge: reads the target's head once more, for the parent.         *)
CommitMerge(c) ==
    /\ task[c].at = "reread"
    /\ head[task[c].branch] \notin {<<>>, <<task[c].theirs>>}
    /\ Becomes(c, [at |-> "save", branch |-> task[c].branch, seen |-> head[task[c].branch],
                   draft |-> [parents |-> <<head[task[c].branch][1], task[c].theirs>>,
                              spec |-> task[c].spec, message |-> task[c].message]])
    /\ UNCHANGED <<objects, head, asked, acked>>

-----------------------------------------------------------------------------
(* Mutant: the object is not written.                                       *)
StoreWithout(r) == objects

StoreWith(r) == objects \cup {r}

(* save_revision; an object that is there already has the same content.     *)
Save(c) ==
    /\ task[c].at = "save"
    /\ objects' = StoreWith(task[c].draft)
    /\ Becomes(c, [task[c] EXCEPT !.at = "set"])
    /\ UNCHANGED <<head, asked, acked>>

(* Mutant: a set without the compare.                                       *)
AlwaysCurrent(c) == TRUE

Current(c) == head[task[c].branch] = task[c].seen

(* compare_and_set_branch, and the operation returns.                       *)
Advance(c) ==
    /\ task[c].at = "set" /\ Current(c)
    /\ head' = [head EXCEPT ![task[c].branch] = <<task[c].draft>>]
    /\ acked' = acked \cup {[branch |-> task[c].branch, revision |-> task[c].draft]}
    /\ Becomes(c, Idle)
    /\ UNCHANGED <<objects, asked>>

(* What ends an operation with an error: BranchAlreadyExists; or one of     *)
(* BranchNotFound, NothingToMerge, NoCommonAncestor, MergeConflicts; or the *)
(* two parents of a merge are one by now; or ConcurrentUpdate.              *)
Refused(c) ==
    LET at   == task[c].at
        ours == head[task[c].branch]
    IN  \/ at = "target" /\ ours # <<>>
        \/ at = "prepare" /\ (ours # <<>> => Unmergeable(ours[1], task[c].theirs))
        \/ at = "reread" /\ ours \in {<<>>, <<task[c].theirs>>}
        \/ at = "set" /\ ~ Current(c)

Refuse(c) ==
    /\ task[c] # Idle /\ Refused(c)
    /\ Becomes(c, Idle)
    /\ UNCHANGED <<objects, head, asked, acked>>

(* A crash, a dropped future or an error of the store at any await.         *)
Lose(c) ==
    /\ task[c] # Idle
    /\ Becomes(c, Idle)
    /\ UNCHANGED <<objects, head, asked, acked>>

Begin(c) ==
    \E q \in Asks[c] : Commit(c, q) \/ CreateBranch(c, q) \/ Merge(c, q) \/ BranchNotFound(c, q)

Step(c) ==
    \/ FindNoTarget(c) \/ PrepareMerge(c) \/ CommitMerge(c)
    \/ Save(c) \/ Advance(c) \/ Refuse(c)

Next == \E c \in Controllers : Begin(c) \/ Step(c) \/ Lose(c)

Spec == Init /\ [][Next]_vars

-----------------------------------------------------------------------------
(* Is r in the log of a branch whose head is h, that is, in every set of    *)
(* revisions that has h and the first parents of its members?               *)
LogClosed(S) == \A x \in S : x.parents # <<>> => x.parents[1] \in S
InLog(r, h) == \A S \in SUBSET objects : h \in S /\ LogClosed(S) => r \in S

(* CommitsStay: what a commit, merge or create_branch reported done stays   *)
(* in the log of its branch, whoever else moves the branch (the compare in  *)
(* compare_and_set_branch against the head that became the first parent).   *)
CommitsStay == \A a \in acked : head[a.branch] # <<>> /\ InLog(a.revision, head[a.branch][1])

(* The common ancestors that no other common ancestor descends from.        *)
LatestCommon(p, q) ==
    LET common == CommonAncestors(p, q)
    IN  {a \in common : \A b \in common : a \in Ancestors(b) => a = b}

(* Is spec the clean three-way merge of ours and theirs over one of bases?  *)
MergedCleanly(spec, bases, ours, theirs) ==
    \E base \in bases :
        /\ Clean(base.spec, ours.spec, theirs.spec)
        /\ spec = MergeSpecs(base.spec, ours.spec, theirs.spec)

(* MergesAreThreeWay: a merge that was reported done holds the clean        *)
(* three-way merge of its own two parents over a latest common ancestor of  *)
(* theirs: no change of either parent is dropped, and nothing that both     *)
(* changed differently was decided silently.                                *)
MergesAreThreeWay ==
    \A a \in acked :
        LET m == a.revision
        IN  Len(m.parents) = 2 =>
                MergedCleanly(m.spec, LatestCommon(m.parents[1], m.parents[2]),
                              m.parents[1], m.parents[2])
=============================================================================
