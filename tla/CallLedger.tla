----------------------------- MODULE CallLedger -----------------------------
(***************************************************************************)
(* The life of the calls a model makes, as the turn loop promises it to     *)
(* whoever uses the thread, however many operations of however many         *)
(* processes deal with it and wherever they are lost: a call is asked for   *)
(* in one turn, may be started, entered and approved, and gets one answer,  *)
(* the turn's last word on it.  Nothing here says how that is recorded.     *)
(***************************************************************************)
EXTENDS ThreadLog

CONSTANT NonIdempotent      \* calls to functions that may not be repeated

VARIABLES
    status,     \* of each turn
    turnOf,     \* the turn that asked for each call, 0 before
    answer,     \* the result of each call, "none" before
    started,    \* the calls whose start is recorded
    entered,    \* how often the function of each call was entered
    approved    \* how often it was approved

vars == <<status, turnOf, answer, started, entered, approved>>

Init ==
    /\ status = <<>>
    /\ turnOf = [c \in Calls |-> 0] /\ answer = [c \in Calls |-> "none"]
    /\ started = {}
    /\ entered = [c \in Calls |-> 0] /\ approved = [c \in Calls |-> 0]

CallsIn(t) == {c \in Calls : turnOf[c] = t}
Waiting(t) == {c \in CallsIn(t) : answer[c] = "none"}
In(c, s)   == turnOf[c] \in DOMAIN status /\ status[turnOf[c]] = s

OpenTurn ==
    /\ status' = Append(status, "running")
    /\ UNCHANGED <<turnOf, answer, started, entered, approved>>

(* The model is asked again only when all it asked for is answered.         *)
Ask(t, calls) ==
    /\ status[t] = "running" /\ Waiting(t) = {}
    /\ turnOf' = [c \in Calls |-> IF c \in calls THEN t ELSE turnOf[c]]
    /\ UNCHANGED <<status, answer, started, entered, approved>>

(* The runtime starts a call again by itself only if it may be repeated.    *)
Start(c) ==
    /\ In(c, "running") /\ answer[c] = "none"
    /\ c \in NonIdempotent => c \notin started
    /\ started' = started \cup {c}
    /\ UNCHANGED <<status, turnOf, answer, entered, approved>>

Approve(c) ==
    /\ In(c, "suspended") /\ answer[c] = "none" /\ c \in started
    /\ approved' = [approved EXCEPT ![c] = @ + 1]
    /\ UNCHANGED <<status, turnOf, answer, started, entered>>

(* One that may not is entered once, and once more for each approval.  An   *)
(* operation whose copy is out of date may still enter a function: that is  *)
(* all it can do.                                                           *)
Enter(c) ==
    /\ c \in started
    /\ c \in NonIdempotent => entered[c] <= approved[c]
    /\ entered' = [entered EXCEPT ![c] = @ + 1]
    /\ UNCHANGED <<status, turnOf, answer, started, approved>>

(* Some calls of a turn that has not ended get their only answer: "skipped" *)
(* if it was never started, "success" if it was entered, "denied" by whom   *)
(* the suspended turn asked.  The turn goes on, is suspended or ends, and   *)
(* completes or fails only if no call is left without an answer.            *)
MayBe(c, s, result) ==
    /\ result = "skipped" => c \notin started
    /\ result = "success" => entered[c] > 0
    /\ result = "denied"  => s = "suspended"

Settle(t, to) ==
    /\ status[t] \notin Closed
    /\ status' = [status EXCEPT ![t] = to]
    /\ answer' \in [Calls -> ToolResult \cup {"none"}]
    /\ \A c \in Calls : answer'[c] # answer[c] =>
                           c \in Waiting(t) /\ MayBe(c, status[t], answer'[c])
    /\ to \in {"completed", "failed"} => \A c \in Waiting(t) : answer'[c] # "none"
    /\ UNCHANGED <<turnOf, started, entered, approved>>

Next ==
    \/ OpenTurn
    \/ \E t \in DOMAIN status :
           \/ \E calls \in SUBSET {c \in Calls : turnOf[c] = 0} : Ask(t, calls)
           \/ \E to \in TurnStatus : Settle(t, to)
    \/ \E c \in Calls : Start(c) \/ Approve(c) \/ Enter(c)

Spec == Init /\ [][Next]_vars
=============================================================================
