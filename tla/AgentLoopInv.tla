---------------------------- MODULE AgentLoopInv ----------------------------
(***************************************************************************)
(* The inductive invariant behind RerunsApproved.  A function that is not   *)
(* idempotent may be entered only on a permit: an agent that stands at the  *)
(* call ("exec") with its start marker committed.  The first permit for a   *)
(* call is taken with its first marker, every other one with an approval.   *)
(* That a permit without an approval is never taken twice rests on what an  *)
(* agent whose copy is current knows of the calls in its queue.             *)
(***************************************************************************)
EXTENDS AgentLoop

(* Agents about to enter the function of call c.                            *)
Permits(c) == {a \in Agents : agent[a].pc = "exec" /\ Current(a) = c}

Accounting ==
    \A c \in NonIdempotent :
        runs[c] + Cardinality(Permits(c))
            <= approvals[c] + (IF Markers(log, c) = {} THEN 0 ELSE 1)

(* Item r of a log asks for call c.                                         *)
Requests(items, r, c) ==
    /\ items[r].kind = "response"
    /\ \E k \in DOMAIN items[r].calls : items[r].calls[k] = c
RequestedIn(items, t, c) ==
    \E r \in DOMAIN items : items[r].turn = t /\ Requests(items, r, c)

(* Call ids are not reused.                                                 *)
RequestedOnce(items) ==
    \A r, s \in DOMAIN items, c \in Calls :
        Requests(items, r, c) /\ Requests(items, s, c) => r = s

(* Start markers and suspensions come after the response that asked for     *)
(* their call, in the same turn.                                            *)
MarkersRequested(items) ==
    \A i \in DOMAIN items :
        items[i].kind \in {"started", "suspension"} =>
            \E r \in DOMAIN items :
                /\ r < i /\ items[r].turn = items[i].turn
                /\ Requests(items, r, items[i].call)

(* What an agent in state s knows if its copy holds `items`.  The calls it  *)
(* deals with were asked for in its turn; in recovery by the turn's last    *)
(* response; the calls of a live batch are distinct, and those not yet      *)
(* begun have no marker.                                                    *)
QueueRequested(s, items) ==
    \A k \in DOMAIN s.queue : RequestedIn(items, s.turn, s.queue[k])
RecoveryQueue(s, items) ==
    s.mode = "recover" =>
        \A k \in DOMAIN s.queue :
            \E r \in LastCallResponse(items, s.turn) : Requests(items, r, s.queue[k])
LiveQueue(s, items) ==
    s.mode = "live" =>
        \A k \in DOMAIN s.queue :
            /\ \A l \in DOMAIN s.queue : s.queue[k] = s.queue[l] => k = l
            /\ k > 1 \/ s.pc = "calls" => Markers(items, s.queue[k]) = {}
Knows(s, items) ==
    QueueRequested(s, items) /\ RecoveryQueue(s, items) /\ LiveQueue(s, items)

(* A copy is never ahead of the thread, and an agent whose copy is current  *)
(* knows its queue.                                                         *)
Copies ==
    \A a \in Agents :
        /\ agent[a].base <= rev
        /\ agent[a].base = rev => Knows(agent[a], log)

(* IInv: the accounting of permits together with what keeps it.             *)
IInv == /\ TypeOK
        /\ Accounting
        /\ RequestedOnce(log)
        /\ MarkersRequested(log)
        /\ Copies
=============================================================================
