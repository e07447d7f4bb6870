------------------------------- MODULE MCEval -------------------------------
(* Small task cases for EvalRunner: a loop whose second visit does not      *)
(* apply, a replacement, a case that declares a constraint twice, one whose *)
(* start does not apply and one that starts at its end.                    *)
EXTENDS EvalRunner

CONSTANTS A, B, T, ab, ba, bt, elsewhere, c1, c2, c3, v1, v2

N(id, constraints, terminal) ==
    [id |-> id, constraints |-> constraints, terminal |-> terminal]
TaskOf(start, a, b) ==
    [start |-> start,
     nodes |-> <<N(A, a, FALSE), N(B, b, FALSE), N(T, <<>>, TRUE)>>,
     transitions |-> <<[id |-> ab, from |-> A, to |-> B], [id |-> ba, from |-> B, to |-> A],
                       [id |-> bt, from |-> B, to |-> T]>>]

MCCases ==
    { TaskOf(A, <<AddC(c1, v1)>>, <<RemoveC(c1), AddC(c2, v2)>>),
      TaskOf(A, <<AddC(c1, v1), AddC(c2, v2)>>, <<ReplaceC(c2, c3, v1)>>),
      TaskOf(A, <<AddC(c1, v1)>>, <<RemoveC(c1), AddC(c1, v2)>>),
      TaskOf(A, <<RemoveC(c1)>>, <<AddC(c1, v1)>>),
      TaskOf(T, <<>>, <<>>) }

MCDecisions ==
    {[kind |-> "transition", transition |-> t] : t \in {ab, ba, bt, elsewhere}}
        \cup {[kind |-> "retry"], [kind |-> "terminate"]}

MCRealizations ==
    { <<>>, <<Disclose(c1)>>, <<Disclose(c1), Derive(c2, {c1}, TRUE)>>,
      <<Derive(c3, {c1}, TRUE)>>, <<ProvideContext(c2, TRUE)>>,
      <<ProvideContext(c3, FALSE)>> }
=============================================================================
