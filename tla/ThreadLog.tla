------------------------------ MODULE ThreadLog ------------------------------
(***************************************************************************)
(* The durable record of one conversation thread and what is read off it:  *)
(* canary-agent-kernel's events.rs (Thread, Turn, TurnItem) and            *)
(* projection.rs, and the two functions of agent_loop.rs that search a     *)
(* turn's items.                                                           *)
(*                                                                         *)
(* The code nests items inside turns.  Here the thread is one log whose    *)
(* items name their turn: the items of turn t, in log order, are exactly   *)
(* `thread.turns[t].items`.  Texts, function names, arguments, timestamps, *)
(* attempt numbers and token counts carry no control and are left out.     *)
(***************************************************************************)
EXTENDS Integers, Sequences, FiniteSets

CONSTANT Calls      \* call ids the model provider may assign; never reused

Closed == {"completed", "failed", "aborted"}
TurnStatus == {"running", "suspended"} \cup Closed

(* ToolResult.  "skipped" and "denied" are ToolResult::Error with the       *)
(* runtime's own texts ("function ... not executed because ...",           *)
(* "execution denied by user"); "error" is any other one.                  *)
ToolResult == {"success", "error", "skipped", "denied", "aborted"}

UserInput(t, reply)        == [kind |-> "user", turn |-> t, reply |-> reply]
ModelResponse(t, calls)    == [kind |-> "response", turn |-> t, calls |-> calls]
CallStarted(t, c)          == [kind |-> "started", turn |-> t, call |-> c]
ToolOutput(t, c, result)   ==
    [kind |-> "output", turn |-> t, call |-> c, result |-> result]
Suspension(t, sid, c, def) ==
    [kind |-> "suspension", turn |-> t, sid |-> sid, call |-> c, deferred |-> def]
TurnFailed(t)              == [kind |-> "turnFailed", turn |-> t]
TurnAborted(t)             == [kind |-> "turnAborted", turn |-> t]

(* A suspension id is new_id("suspension"): here the revision of the commit *)
(* that records it, which is as unique.  Reply 0 is `response_to: None`.    *)
(* `call` and `deferred` are in the suspension's payload: the functions of   *)
(* the repository that suspend, and recovery, name their call in it.        *)
TurnItem ==
    [kind : {"user"}, turn : Nat, reply : Nat]
    \cup [kind : {"response"}, turn : Nat, calls : Seq(Calls)]
    \cup [kind : {"started"}, turn : Nat, call : Calls]
    \cup [kind : {"output"}, turn : Nat, call : Calls, result : ToolResult]
    \cup [kind : {"suspension"}, turn : Nat, sid : Nat, call : Calls, deferred : BOOLEAN]
    \cup [kind : {"turnFailed", "turnAborted"}, turn : Nat]

(* The order in which ThreadProjection::from_thread meets the items: turns *)
(* in order, and the items of a turn in order.                             *)
ReadBefore(log, i, j) ==
    \/ log[i].turn < log[j].turn
    \/ log[i].turn = log[j].turn /\ i < j

(* Item j, read while the suspension at i is pending, ends that: a new user *)
(* message, the reply to it, the output of its call, or another suspension. *)
Clears(log, j, i) ==
    \/ log[j].kind = "user" /\ log[j].reply \in {0, log[i].sid}
    \/ log[j].kind = "output" /\ log[j].call = log[i].call
    \/ log[j].kind = "suspension"

(* ThreadProjection.pending_suspension: the position of the suspension item *)
(* that nothing read after it clears; empty or a singleton.                *)
PendingSuspension(log) ==
    {i \in DOMAIN log :
        /\ log[i].kind = "suspension"
        /\ \A j \in DOMAIN log : ReadBefore(log, i, j) => ~Clears(log, j, i)}

(* Mutant: failed turns can be gone on with.                                *)
UnfinishedTurns(status) ==
    {t \in DOMAIN status : status[t] \in {"running", "failed"}}

(* ThreadProjection.active_turn_id: the last turn that is still running,    *)
(* none or one.                                                             *)
RunningTurns(status) == {t \in DOMAIN status : status[t] = "running"}
ActiveTurn(status) ==
    {t \in RunningTurns(status) : \A u \in RunningTurns(status) : u <= t}

(* The last model response of turn t that asked for calls: none or one.     *)
CallResponses(log, t) ==
    {i \in DOMAIN log :
        log[i].turn = t /\ log[i].kind = "response" /\ log[i].calls # <<>>}
LastCallResponse(log, t) ==
    {r \in CallResponses(log, t) : \A i \in CallResponses(log, t) : i <= r}

(* Mutant: an error is no answer.                                           *)
SucceededSince(log, t, r, c) ==
    \E j \in DOMAIN log : /\ j > r
                          /\ log[j].turn = t
                          /\ log[j].kind = "output"
                          /\ log[j].result = "success"
                          /\ log[j].call = c

(* pending_function_calls: the calls of that response without an output     *)
(* after it, in order (the one member of PendingLists); and whether one has *)
(* a durable start marker.                                                  *)
AnsweredSince(log, t, r, c) ==
    \E j \in DOMAIN log : /\ j > r
                          /\ log[j].turn = t
                          /\ log[j].kind = "output"
                          /\ log[j].call = c
PendingAfter(log, t, r) ==
    LET calls   == log[r].calls
        pending == {k \in DOMAIN calls : ~AnsweredSince(log, t, r, calls[k])}
    IN  {q \in [1..Cardinality(pending) -> Calls] :
            \E at \in [DOMAIN q -> pending] :
                /\ \A k, l \in DOMAIN q : k < l => at[k] < at[l]
                /\ \A k \in DOMAIN q : q[k] = calls[at[k]]}
PendingLists(log, t) ==
    IF CallResponses(log, t) = {} THEN {<<>>}
    ELSE UNION {PendingAfter(log, t, r) : r \in LastCallResponse(log, t)}
StartedInTurn(log, t, c) ==
    \E j \in DOMAIN log : /\ \A r \in LastCallResponse(log, t) : j > r
                          /\ log[j].turn = t
                          /\ log[j].kind = "started"
                          /\ log[j].call = c

(* What the properties ask of a log.                                        *)
CallsOf(log, t) ==
    UNION {{log[i].calls[k] : k \in DOMAIN log[i].calls} :
               i \in CallResponses(log, t)}
Requested(log) ==
    UNION {{log[i].calls[k] : k \in DOMAIN log[i].calls} :
               i \in {j \in DOMAIN log : log[j].kind = "response"}}
Outputs(log, c) == {i \in DOMAIN log : log[i].kind = "output" /\ log[i].call = c}
Markers(log, c) == {i \in DOMAIN log : log[i].kind = "started" /\ log[i].call = c}
=============================================================================
