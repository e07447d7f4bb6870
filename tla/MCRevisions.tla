---------------------------- MODULE MCRevisions ----------------------------
(* Small instances of RevisionControl for TLC.                              *)
EXTENDS RevisionControl, TLC

CONSTANTS c1, c2, main, dev, prompt, tools, search, fetch, v0, v1, v2, msg, again

Of(p, s, f) == [i \in {prompt, tools} |->
                    IF i = prompt THEN p ELSE [k \in {search, fetch} |-> IF k = search THEN s ELSE f]]
CommitTo(b, spec) == [kind |-> "commit", branch |-> b, spec |-> spec, message |-> msg]
BranchFrom(s, b)  == [kind |-> "branch", branch |-> b, source |-> s]
MergeOf(s, b)     == [kind |-> "merge", branch |-> b, source |-> s, message |-> msg]
Reworded(q)       == [q EXCEPT !.message = again]

(* Two hosts contend for main; one of them has a branch of its own, into    *)
(* which it merges main twice.  main changes a tool and changes it back.    *)
Workflow ==
    (c1 :> {CommitTo(main, Of(v0, v0, v0)), BranchFrom(main, dev),
            CommitTo(dev, Of(v1, v0, v0)), MergeOf(main, dev), Reworded(MergeOf(main, dev))})
    @@ (c2 :> {CommitTo(main, Of(v0, v0, v0)), CommitTo(main, Of(v0, v1, v0)),
               Reworded(CommitTo(main, Of(v0, v0, v0)))})

(* Both hosts work on main, and one of them merges into it.                 *)
Contended ==
    (c1 :> {CommitTo(main, Of(v0, v0, v0)), BranchFrom(main, dev), MergeOf(dev, main)})
    @@ (c2 :> {CommitTo(dev, Of(v1, v0, v0)), CommitTo(main, Of(v2, v0, v0))})

=============================================================================
