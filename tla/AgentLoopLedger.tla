--------------------------- MODULE AgentLoopLedger ---------------------------
(***************************************************************************)
(* The inductive invariant behind what the thread file promises of calls    *)
(* and turns: AnsweredAtMostOnce, ClosedTurnsAnswered, SkippedNeverRan,     *)
(* PendingIsSuspended and ClosedTurnsFrozen, with or without a common       *)
(* lease; with one, also OutcomeIsDurable and NoRunAfterAnswer.             *)
(*                                                                         *)
(* Each of them is about what a step appends, and a step appends what the   *)
(* agent's copy of the thread lets it conclude.  So the invariant has three *)
(* parts: what holds of the stored items, what an agent whose copy is       *)
(* current concludes of its turn and its queue, and, under a common lease,  *)
(* that the holder's copy is current.                                       *)
(*                                                                         *)
(* At the end, what the thread says of calls is mapped to CallLedger.       *)
(***************************************************************************)
EXTENDS AgentLoopInv

-----------------------------------------------------------------------------
(* The stored items.                                                        *)

Open(items, c) == Outputs(items, c) = {}

(* Outputs come after the response that asked for their call, in its turn.  *)
OutputsRequested(items) ==
    \A i \in DOMAIN items :
        items[i].kind = "output" =>
            \E r \in DOMAIN items :
                /\ r < i /\ items[r].turn = items[i].turn
                /\ Requests(items, r, items[i].call)

OutputsOnce(items) ==
    \A i, j \in DOMAIN items :
        items[i].kind = "output" /\ items[j].kind = "output"
            /\ items[i].call = items[j].call => i = j

SkippedUnmarked(items) ==
    \A i \in DOMAIN items :
        items[i].kind = "output" /\ items[i].result = "skipped" =>
            Markers(items, items[i].call) = {}

(* A function suspends after it was started; a suspension before execution  *)
(* ("deferred") comes before any output of its call.                        *)
SuspensionsSound(items) ==
    \A i \in DOMAIN items :
        items[i].kind = "suspension" =>
            /\ Markers(items, items[i].call) # {}
            /\ items[i].deferred => \A j \in Outputs(items, items[i].call) : i < j

BatchesDistinct(items) ==
    \A r \in DOMAIN items :
        items[r].kind = "response" =>
            \A k, l \in DOMAIN items[r].calls :
                items[r].calls[k] = items[r].calls[l] => k = l

(* Calls of a batch are taken up in order: behind an open call no other     *)
(* open one has been started.                                               *)
OneUnderWay(items) ==
    \A r \in DOMAIN items :
        items[r].kind = "response" =>
            \A k, l \in DOMAIN items[r].calls :
                k < l /\ Open(items, items[r].calls[k]) /\ Open(items, items[r].calls[l]) =>
                    Markers(items, items[r].calls[l]) = {}

(* A model is asked again only when every call of its turn has its output.  *)
EarlierAnswered(items) ==
    \A r, s \in DOMAIN items :
        items[r].kind = "response" /\ items[s].kind = "response" /\ r < s
            /\ items[r].turn = items[s].turn /\ items[s].calls # <<>> =>
                \A k \in DOMAIN items[r].calls : ~Open(items, items[r].calls[k])

Ledger(items) ==
    /\ OutputsRequested(items) /\ OutputsOnce(items) /\ SkippedUnmarked(items)
    /\ SuspensionsSound(items) /\ BatchesDistinct(items)
    /\ OneUnderWay(items) /\ EarlierAnswered(items)

ItemsInTurns(items, st) == \A i \in DOMAIN items : items[i].turn \in DOMAIN st

(* No function is entered, or about to be, without a start marker.          *)
StartsMarked ==
    /\ \A c \in Calls : runs[c] > 0 => Markers(log, c) # {}
    /\ \A a \in Agents :
           agent[a].pc \in {"exec", "running"} => Markers(log, Current(a)) # {}

-----------------------------------------------------------------------------
(* What an agent in state s concludes if its copy holds `items` and `st`.   *)

AtCall(s)   == s.pc \in {"exec", "running"}
Working(s)  == \/ s.pc \in {"recover", "model", "asking", "calls"}
               \/ AtCall(s) /\ s.mode \in {"live", "recover"}
Settling(s) == \/ s.pc \in {"reply", "deny", "approve"}
               \/ AtCall(s) /\ s.mode = "approve"

(* Its turn is the one it works on: running, or suspended while a caller's  *)
(* answer is dealt with; once the turn is over, what it will be reported as.*)
TurnKnown(s, st) ==
    /\ Working(s) => s.turn \in DOMAIN st /\ st[s.turn] = "running"
    /\ Settling(s) => s.turn \in DOMAIN st /\ st[s.turn] = "suspended"
    /\ s.pc = "finish" /\ s.result \in DOMAIN StatusOf =>
           s.turn \in DOMAIN st /\ st[s.turn] = StatusOf[s.result]

(* No call in its queue has an output, and none is there twice.             *)
QueueOpen(s, items) ==
    s.pc # "reply" =>
        \A k \in DOMAIN s.queue :
            /\ Open(items, s.queue[k])
            /\ \A l \in DOMAIN s.queue : s.queue[k] = s.queue[l] => k = l

(* Its queue is what is open of the turn's last batch, in order, and only   *)
(* its first call may have been started.                                    *)
QueueComplete(s, items) ==
    Working(s) =>
        /\ \A c \in CallsOf(items, s.turn) :
               Open(items, c) => \E k \in DOMAIN s.queue : s.queue[k] = c
        /\ \A k \in DOMAIN s.queue :
               /\ \E r \in LastCallResponse(items, s.turn) : Requests(items, r, s.queue[k])
               /\ k > 1 => Markers(items, s.queue[k]) = {}
        /\ \A r \in LastCallResponse(items, s.turn), k, l \in DOMAIN s.queue :
               \A m, n \in DOMAIN items[r].calls :
                   k < l /\ s.queue[k] = items[r].calls[m] /\ s.queue[l] = items[r].calls[n]
                       => m < n

(* The suspension it settles is the only pending one, and an approved call  *)
(* was started when it was suspended.                                       *)
SuspensionKnown(s, items) ==
    /\ Settling(s) =>
           \A i \in PendingSuspension(items) :
               /\ items[i].turn = s.turn /\ items[i].call = Head(s.queue)
               /\ s.pc = "reply" => items[i].sid = s.sid
    /\ s.pc = "approve" => Markers(items, Head(s.queue)) # {}

Concludes(s, items, st) ==
    /\ TurnKnown(s, st) /\ QueueOpen(s, items)
    /\ QueueComplete(s, items) /\ SuspensionKnown(s, items)

Conclusions ==
    \A a \in Agents : agent[a].base = rev => Concludes(agent[a], log, status)

(* LInv: the ledger, with IInv, which it rests on.                          *)
LInv == /\ IInv
        /\ Ledger(log)
        /\ ItemsInTurns(log, status)
        /\ ClosedTurnsAnswered
        /\ PendingIsSuspended
        /\ StartsMarked
        /\ Conclusions

-----------------------------------------------------------------------------
(* One coordinator for every agent: LocalSessionCoordinator admits one      *)
(* operation at a time, from its load to its return.                        *)
SharedLease == \A a, b \in Agents : CoordinatorOf[a] = CoordinatorOf[b]

Entering == {"idle", "acquire"}
Exclusive ==
    /\ \A a \in Agents : agent[a].pc \notin Entering => lease[CoordinatorOf[a]] = a
    /\ \A a \in Agents : agent[a].pc \notin Entering \cup {"load"} => agent[a].base = rev
    /\ \A a \in Agents : agent[a].pc # "idle" => outcome[a].kind = "none"

-----------------------------------------------------------------------------
(* The life of calls, read off the thread: the turn of the response that    *)
(* asked for a call, and the result of its output.                          *)
TurnOf(items, c) ==
    LET asking == {r \in DOMAIN items : Requests(items, r, c)}
    IN  IF asking = {} THEN 0 ELSE items[CHOOSE r \in asking : TRUE].turn
AnswerTo(items, c) ==
    IF Open(items, c) THEN "none"
    ELSE items[CHOOSE i \in Outputs(items, c) : TRUE].result

Life == INSTANCE CallLedger WITH
            turnOf   <- [c \in Calls |-> TurnOf(log, c)],
            answer   <- [c \in Calls |-> AnswerTo(log, c)],
            started  <- {c \in Calls : Markers(log, c) # {}},
            entered  <- runs,
            approved <- approvals

(* A function that runs was entered for the call its agent stands at.       *)
RunningEntered == \A a \in Agents : agent[a].pc = "running" => runs[Current(a)] > 0

LifeInv == LInv /\ RunningEntered

(* Whatever agents do, with or without a common lease, what the thread says *)
(* of calls and turns goes through the steps of CallLedger.                 *)
ImplementsCallLedger == Life!Spec
=============================================================================
