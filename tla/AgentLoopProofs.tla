--------------------------- MODULE AgentLoopProofs ---------------------------
(***************************************************************************)
(* TypeOK and RerunsApproved, for every value of AgentLoop's constants: any *)
(* number of agents with or without a common lease, any number of turns,    *)
(* calls, losses, recoveries and approvals.                                 *)
(*                                                                         *)
(* First the types, one lemma per group of actions.  The proof of           *)
(* RerunsApproved then has three layers: what appending to the log keeps,   *)
(* what a step of each class keeps of IInv, and one lemma per group of      *)
(* actions that puts the actions into their classes.                        *)
(***************************************************************************)
EXTENDS AgentLoopInv, FiniteSetTheorems, TLAPS

-----------------------------------------------------------------------------
(* Types of what the actions build.                                         *)

LEMMA ItemTypes ==
    ASSUME NEW t \in Nat, NEW c \in Calls
    PROVE  /\ \A r \in Nat : UserInput(t, r) \in TurnItem
           /\ \A q \in Seq(Calls) : ModelResponse(t, q) \in TurnItem
           /\ CallStarted(t, c) \in TurnItem
           /\ \A r \in ToolResult : ToolOutput(t, c, r) \in TurnItem
           /\ \A s \in Nat, d \in BOOLEAN : Suspension(t, s, c, d) \in TurnItem
  BY DEF TurnItem, UserInput, ModelResponse, CallStarted, ToolOutput, Suspension

LEMMA EndTypes ==
    ASSUME NEW t \in Nat
    PROVE  /\ TurnFailed(t) \in TurnItem /\ TurnAborted(t) \in TurnItem
           /\ \A r \in Nat : UserInput(t, r) \in TurnItem
           /\ \A q \in Seq(Calls) : ModelResponse(t, q) \in TurnItem
  BY DEF TurnItem, TurnFailed, TurnAborted, UserInput, ModelResponse

LEMMA ItemFields ==
    ASSUME NEW item \in TurnItem
    PROVE  /\ item.turn \in Nat
           /\ item.kind = "response" => item.calls \in Seq(Calls)
           /\ item.kind \in {"started", "output", "suspension"} => item.call \in Calls
           /\ item.kind = "suspension" => item.sid \in Nat
<1>1. CASE item \in [kind : {"user"}, turn : Nat, reply : Nat]
  BY <1>1
<1>2. CASE item \in [kind : {"response"}, turn : Nat, calls : Seq(Calls)]
  BY <1>2
<1>3. CASE item \in [kind : {"started"}, turn : Nat, call : Calls]
  BY <1>3
<1>4. CASE item \in [kind : {"output"}, turn : Nat, call : Calls, result : ToolResult]
  BY <1>4
<1>5. CASE item \in [kind : {"suspension"}, turn : Nat, sid : Nat, call : Calls,
                     deferred : BOOLEAN]
  BY <1>5
<1>6. CASE item \in [kind : {"turnFailed", "turnAborted"}, turn : Nat]
  BY <1>6
<1>7. QED
  BY <1>1, <1>2, <1>3, <1>4, <1>5, <1>6 DEF TurnItem

LEMMA OutputsForType ==
    ASSUME NEW t \in Nat, NEW q \in Seq(Calls), NEW r \in ToolResult
    PROVE  OutputsFor(t, q, r) \in Seq(TurnItem)
<1>1. \A k \in 1..Len(q) : ToolOutput(t, q[k], r) \in TurnItem
  BY ItemTypes
<1>2. QED
  BY <1>1 DEF OutputsFor

(* What the actions append.                                                 *)
LEMMA Appended ==
    ASSUME NEW t \in Nat
    PROVE  /\ <<>> \in Seq(TurnItem)
           /\ <<TurnFailed(t)>> \in Seq(TurnItem) /\ <<TurnAborted(t)>> \in Seq(TurnItem)
           /\ \A r \in Nat : <<UserInput(t, r)>> \in Seq(TurnItem)
           /\ \A q \in Seq(Calls) : <<ModelResponse(t, q)>> \in Seq(TurnItem)
           /\ \A c \in Calls : <<CallStarted(t, c)>> \in Seq(TurnItem)
           /\ \A c \in Calls, r \in ToolResult : <<ToolOutput(t, c, r)>> \in Seq(TurnItem)
           /\ \A s \in Nat, c \in Calls, d \in BOOLEAN :
                  <<Suspension(t, s, c, d)>> \in Seq(TurnItem)
<1>1. \A item \in TurnItem : <<item>> \in Seq(TurnItem)
  OBVIOUS
<1>2. <<>> \in Seq(TurnItem)
  OBVIOUS
<1>3. QED
  BY <1>1, <1>2, ItemTypes, EndTypes

LEMMA AppendType ==
    ASSUME NEW items \in Seq(TurnItem), NEW item \in TurnItem
    PROVE  Append(items, item) \in Seq(TurnItem)
  OBVIOUS

LEMMA QueueTypes ==
    ASSUME NEW q \in Seq(Calls), q # <<>>
    PROVE  Head(q) \in Calls /\ Tail(q) \in Seq(Calls)
  OBVIOUS

(* A commit keeps the types when what it appends and where it goes have     *)
(* them.                                                                    *)
LEMMA GotoType ==
    ASSUME TypeOK, NEW a \in Agents, NEW next \in AgentState, WellFormed(next),
           Goto(a, next)
    PROVE  /\ agent' \in [Agents -> AgentState]
           /\ \A b \in Agents : WellFormed(agent'[b])
<1>1. \A b \in Agents : WellFormed(agent[b])
  BY DEF TypeOK, WellFormed
<1>2. QED
  BY <1>1 DEF TypeOK, Goto

LEMMA PersistType ==
    ASSUME TypeOK, NEW a \in Agents, NEW items \in Seq(TurnItem), Persist(a, items)
    PROVE  rev' \in Nat /\ log' \in Seq(TurnItem)
  BY DEF TypeOK, Persist

LEMMA CommitType ==
    ASSUME TypeOK, NEW a \in Agents, NEW items \in Seq(TurnItem),
           NEW next \in AgentState, WellFormed(next), CommitAndGoto(a, items, next)
    PROVE  /\ rev' \in Nat /\ log' \in Seq(TurnItem)
           /\ agent' \in [Agents -> AgentState]
           /\ \A b \in Agents : WellFormed(agent'[b])
           /\ lease' = lease /\ outcome' = outcome
<1>0. rev + 1 \in Nat
  BY DEF TypeOK
<1>1. [next EXCEPT !.base = rev + 1] \in AgentState
  BY <1>0 DEF AgentState
<1>2. WellFormed([next EXCEPT !.base = rev + 1])
  BY DEF WellFormed, AgentState
<1>3. QED
  BY <1>1, <1>2, GotoType, PersistType DEF CommitAndGoto

LEMMA IdleType == Idle \in AgentState /\ WellFormed(Idle)
<1>1. <<>> \in Seq(Calls)
  OBVIOUS
<1>2. QED
  BY <1>1 DEF Idle, AgentState, PC, WellFormed

LEMMA ReturnType ==
    ASSUME TypeOK, NEW a \in Agents, NEW kind \in Outcomes \cup {"none"},
           NEW sid \in Nat, Return(a, kind, sid)
    PROVE  /\ agent' \in [Agents -> AgentState]
           /\ \A b \in Agents : WellFormed(agent'[b])
           /\ lease' \in [Coordinators -> Agents \cup {NoAgent}]
           /\ outcome' \in [Agents -> [kind : Outcomes \cup {"none"}, sid : Nat]]
<1>1. outcome' \in [Agents -> [kind : Outcomes \cup {"none"}, sid : Nat]]
  BY DEF TypeOK, Return
<1>2. lease' \in [Coordinators -> Agents \cup {NoAgent}]
  BY CoordinatorsOk DEF TypeOK, Return
<1>3. QED
  BY <1>1, <1>2, GotoType, IdleType DEF Return

LEMMA SetStatusType ==
    ASSUME TypeOK, NEW t, NEW s \in TurnStatus, SetStatus(t, s)
    PROVE  status' \in Seq(TurnStatus)
<1>1. status \in Seq(TurnStatus) /\ status' = [status EXCEPT ![t] = s]
  BY DEF TypeOK, SetStatus
<1>2. Len(status) \in Nat /\ status \in [1..Len(status) -> TurnStatus]
  BY <1>1
<1>3. status' \in [1..Len(status) -> TurnStatus]
  BY <1>1, <1>2, Zenon
<1>4. QED
  BY <1>2, <1>3

(* The three kinds of step that leave the bounds alone.                     *)
LEMMA CommitStep ==
    ASSUME TypeOK, NEW a \in Agents, NEW items \in Seq(TurnItem),
           NEW next \in AgentState, WellFormed(next), CommitAndGoto(a, items, next),
           status' \in Seq(TurnStatus),
           runs' \in [Calls -> Nat], approvals' \in [Calls -> Nat], spent' = spent
    PROVE  TypeOK'
<1>1. /\ rev' \in Nat /\ log' \in Seq(TurnItem)
      /\ agent' \in [Agents -> AgentState]
      /\ \A b \in Agents : WellFormed(agent'[b])
      /\ lease' = lease /\ outcome' = outcome
  BY CommitType
<1>2. QED
  BY <1>1 DEF TypeOK, WellFormed

LEMMA ReturnStep ==
    ASSUME TypeOK, NEW a \in Agents, NEW kind \in Outcomes \cup {"none"},
           NEW sid \in Nat, Return(a, kind, sid),
           rev' \in Nat, status' \in Seq(TurnStatus), log' \in Seq(TurnItem),
           UNCHANGED <<runs, approvals, spent>>
    PROVE  TypeOK'
<1>1. /\ agent' \in [Agents -> AgentState]
      /\ \A b \in Agents : WellFormed(agent'[b])
      /\ lease' \in [Coordinators -> Agents \cup {NoAgent}]
      /\ outcome' \in [Agents -> [kind : Outcomes \cup {"none"}, sid : Nat]]
  BY ReturnType
<1>2. QED
  BY <1>1 DEF TypeOK, WellFormed

LEMMA GotoStep ==
    ASSUME TypeOK, NEW a \in Agents, NEW next \in AgentState, WellFormed(next),
           Goto(a, next), runs' \in [Calls -> Nat],
           lease' \in [Coordinators -> Agents \cup {NoAgent}],
           UNCHANGED <<rev, status, log, outcome, approvals, spent>>
    PROVE  TypeOK'
<1>1. /\ agent' \in [Agents -> AgentState]
      /\ \A b \in Agents : WellFormed(agent'[b])
  BY GotoType
<1>2. QED
  BY <1>1 DEF TypeOK, WellFormed

-----------------------------------------------------------------------------
(* TypeOK is inductive.                                                     *)

LEMMA TypeInit == Init => TypeOK
<1> SUFFICES ASSUME Init PROVE TypeOK
  OBVIOUS
<1>1. <<>> \in Seq(TurnStatus) /\ <<>> \in Seq(TurnItem) /\ 0 \in Nat
  OBVIOUS
<1>2. agent \in [Agents -> AgentState] /\ \A a \in Agents : WellFormed(agent[a])
  BY IdleType DEF Init
<1>3. QED
  BY <1>1, <1>2 DEF Init, TypeOK, WellFormed

LEMMA CallerTypes ==
    ASSUME TypeOK, NEW a \in Agents, Caller(a) \/ Drop(a)
    PROVE  TypeOK'
<1> USE DEF WellFormed
<1>1. \A b \in Agents : WellFormed(agent[b])
  BY DEF TypeOK
<1>2. spent' \in [turns : Nat, continuations : Nat, drops : Nat, aborts : Nat]
  <2>1. PICK what \in {"turns", "continuations", "drops", "aborts"} : Spend(what)
    BY DEF Caller, RunTurn, RecoverTurn, ResumeSuspendedTurn, Abort, Drop
  <2>2. spent \in [turns : Nat, continuations : Nat, drops : Nat, aborts : Nat]
    BY DEF TypeOK
  <2>3. QED
    BY <2>1, <2>2 DEF Spend
<1>3. ASSUME NEW request \in AgentState, WellFormed(request), Begin(a, request)
      PROVE  TypeOK'
  <2>1. /\ agent' \in [Agents -> AgentState]
        /\ \A b \in Agents : WellFormed(agent'[b])
    BY <1>3, GotoType DEF Begin
  <2>2. outcome' \in [Agents -> [kind : Outcomes \cup {"none"}, sid : Nat]]
    BY <1>3 DEF TypeOK, Begin
  <2>3. QED
    BY <1>2, <1>3, <2>1, <2>2 DEF TypeOK, Begin
<1>4. CASE RunTurn(a)
  <2>1. [Idle EXCEPT !.pc = "acquire", !.op = "run"] \in AgentState
    BY IdleType DEF AgentState, PC
  <2>2. WellFormed([Idle EXCEPT !.pc = "acquire", !.op = "run"])
    BY DEF Idle
  <2>3. QED
    BY <1>3, <1>4, <2>1, <2>2 DEF RunTurn
<1>5. CASE RecoverTurn(a)
  <2>1. [Idle EXCEPT !.pc = "acquire", !.op = "recover"] \in AgentState
    BY IdleType DEF AgentState, PC
  <2>2. WellFormed([Idle EXCEPT !.pc = "acquire", !.op = "recover"])
    BY DEF Idle
  <2>3. QED
    BY <1>3, <1>5, <2>1, <2>2 DEF RecoverTurn
<1>6. CASE ResumeSuspendedTurn(a)
  <2>1. PICK i \in {j \in DOMAIN log : log[j].kind = "suspension"}, answer \in Answers :
            Begin(a, [Idle EXCEPT !.pc = "acquire", !.op = "resume",
                                  !.sid = log[i].sid, !.answer = answer])
    BY <1>6 DEF ResumeSuspendedTurn
  <2>2. log[i].sid \in Nat
    BY ItemFields DEF TypeOK
  <2>3. [Idle EXCEPT !.pc = "acquire", !.op = "resume",
                     !.sid = log[i].sid, !.answer = answer] \in AgentState
    BY <2>2, IdleType DEF AgentState, PC
  <2>4. WellFormed([Idle EXCEPT !.pc = "acquire", !.op = "resume",
                                !.sid = log[i].sid, !.answer = answer])
    BY DEF Idle
  <2>5. QED
    BY <1>3, <2>1, <2>3, <2>4
<1>7. CASE Abort(a)
  <2>1. /\ agent[a] \in AgentState
        /\ agent' = [agent EXCEPT ![a] = [agent[a] EXCEPT !.abort = TRUE]]
    BY <1>7 DEF TypeOK, Abort
  <2>2. /\ [agent[a] EXCEPT !.abort = TRUE] \in AgentState
        /\ WellFormed([agent[a] EXCEPT !.abort = TRUE])
    BY <1>1, <2>1 DEF AgentState
  <2>3. /\ agent' \in [Agents -> AgentState]
        /\ \A b \in Agents : WellFormed(agent'[b])
    BY <2>1, <2>2, GotoType DEF Goto
  <2>4. QED
    BY <1>2, <1>7, <2>3 DEF TypeOK, Abort
<1>8. CASE Drop(a)
  BY <1>2, <1>8, ReturnType DEF TypeOK, Drop
<1>9. QED
  BY <1>4, <1>5, <1>6, <1>7, <1>8 DEF Caller

(* The parts of TypeOK a step of agent a starts from.                       *)
Shape(a) ==
    /\ agent[a] \in AgentState /\ WellFormed(agent[a])
    /\ rev \in Nat /\ rev + 1 \in Nat
    /\ status \in Seq(TurnStatus) /\ Len(status) + 1 \in Nat
    /\ log \in Seq(TurnItem)
    /\ runs \in [Calls -> Nat] /\ approvals \in [Calls -> Nat]
    /\ lease \in [Coordinators -> Agents \cup {NoAgent}]
    /\ agent[a].queue # <<>> => Current(a) \in Calls
    /\ agent[a].turn \in Nat /\ agent[a].queue \in Seq(Calls)
    /\ agent[a].queue # <<>> => Tail(agent[a].queue) \in Seq(Calls)
    /\ <<>> \in Seq(Calls)
    /\ agent[a].sid \in Nat /\ agent[a].newSid \in Nat
    /\ agent[a].admit \in Nat
    /\ agent[a].count \in Nat
    /\ agent[a].iter \in Nat /\ agent[a].iter + 1 \in Nat

LEMMA Typed ==
    ASSUME TypeOK, NEW a \in Agents
    PROVE  Shape(a)
<1>1. agent[a] \in AgentState /\ WellFormed(agent[a])
  BY DEF TypeOK, WellFormed
<1>2. /\ agent[a].turn \in Nat /\ agent[a].queue \in Seq(Calls)
      /\ agent[a].sid \in Nat /\ agent[a].newSid \in Nat /\ agent[a].admit \in Nat
      /\ agent[a].count \in Nat /\ agent[a].iter \in Nat
  BY <1>1 DEF AgentState
<1>3. rev \in Nat /\ rev + 1 \in Nat /\ agent[a].iter + 1 \in Nat
  <2>1. rev \in Nat
    BY DEF TypeOK
  <2>2. QED
    BY <1>2, <2>1
<1>4. status \in Seq(TurnStatus) /\ Len(status) + 1 \in Nat
  <2>1. status \in Seq(TurnStatus)
    BY DEF TypeOK
  <2>2. QED
    BY <2>1
<1>5. /\ log \in Seq(TurnItem)
      /\ runs \in [Calls -> Nat] /\ approvals \in [Calls -> Nat]
      /\ lease \in [Coordinators -> Agents \cup {NoAgent}]
  BY DEF TypeOK
<1>6. /\ agent[a].queue # <<>> => Current(a) \in Calls
      /\ agent[a].queue # <<>> => Tail(agent[a].queue) \in Seq(Calls)
      /\ <<>> \in Seq(Calls)
  BY <1>2, QueueTypes DEF Current
<1>7. QED
  BY <1>1, <1>2, <1>3, <1>4, <1>5, <1>6 DEF Shape

(* One more run, or one more approval, of a call.                           *)
LEMMA CountUp ==
    ASSUME NEW f \in [Calls -> Nat], NEW c \in Calls
    PROVE  [f EXCEPT ![c] = @ + 1] \in [Calls -> Nat]
  OBVIOUS

LEMMA AdmitType ==
    ASSUME NEW a \in Agents, agent[a].count \in Nat, NEW n \in Nat
    PROVE  /\ Least(n, Remaining(a)) \in Nat
           /\ agent[a].count + Least(n, Remaining(a)) \in Nat
<1>1. Remaining(a) \in Nat
  BY LimitsOk DEF Remaining
<1>2. Least(n, Remaining(a)) \in Nat
  BY <1>1 DEF Least
<1>3. QED
  BY <1>2

(* What is pending is a list of calls.                                      *)
LEMMA PendingType ==
    ASSUME NEW items \in Seq(TurnItem), NEW t, NEW q \in PendingLists(items, t)
    PROVE  q \in Seq(Calls)
<1>1. CASE CallResponses(items, t) = {}
  <2>1. q = <<>>
    BY <1>1 DEF PendingLists
  <2>2. QED
    BY <2>1
<1>2. ASSUME NEW r \in LastCallResponse(items, t), q \in PendingAfter(items, t, r)
      PROVE  q \in Seq(Calls)
  <2> DEFINE calls == items[r].calls
             pending == {k \in DOMAIN calls : ~AnsweredSince(items, t, r, calls[k])}
  <2>1. calls \in Seq(Calls)
    BY ItemFields DEF LastCallResponse, CallResponses
  <2>2. IsFiniteSet(pending)
    <3>1. DOMAIN calls = 1..Len(calls) /\ Len(calls) \in Nat
      BY <2>1
    <3>2. IsFiniteSet(1..Len(calls))
      BY <3>1, FS_Interval
    <3>3. QED
      BY <3>1, <3>2, FS_Subset
  <2>3. Cardinality(pending) \in Nat
    BY <2>2, FS_CardinalityType
  <2>4. q \in [1..Cardinality(pending) -> Calls]
    BY <1>2 DEF PendingAfter
  <2>5. PICK n \in Nat : q \in [1..n -> Calls]
    BY <2>3, <2>4, Zenon
  <2>6. QED
    BY <2>5
<1>3. QED
  BY <1>1, <1>2 DEF PendingLists

LEMMA BatchType ==
    ASSUME NEW q \in Batches
    PROVE  q \in Seq(Calls)
<1>1. PICK n \in 1..Cardinality(Calls \ Requested(log)) :
          q \in [1..n -> Calls \ Requested(log)]
  BY DEF Batches
<1>2. n \in Nat
  OBVIOUS
<1>3. QED
  BY <1>1, <1>2

LEMMA AdvancedType ==
    ASSUME TypeOK, NEW a \in Agents, agent[a].queue # <<>>,
           agent[a].mode \in {"live", "recover"},
           agent[a].mode = "live" => agent[a].admit > 0
    PROVE  Advanced(a) \in AgentState /\ WellFormed(Advanced(a))
<1>0. Shape(a)
  BY Typed
<1> DEFINE pc    == IF agent[a].mode = "recover" THEN "recover" ELSE "calls"
           admit == IF agent[a].mode = "live" THEN agent[a].admit - 1 ELSE agent[a].admit
<1>1. /\ pc \in PC
      /\ \/ pc = "recover" /\ agent[a].mode = "recover"
         \/ pc = "calls" /\ agent[a].mode = "live"
  BY DEF PC
<1>2. admit \in Nat
  <2>1. agent[a].admit \in Nat
    BY <1>0 DEF Shape
  <2>2. QED
    BY <2>1
<1>3. Advanced(a) =
         [agent[a] EXCEPT !.pc = pc, !.queue = Tail(agent[a].queue), !.admit = admit]
  BY <1>0 DEF Advanced, Shape, AgentState
<1> HIDE DEF pc, admit
<1> DEFINE next == [agent[a] EXCEPT !.pc = pc, !.queue = Tail(agent[a].queue), !.admit = admit]
<1>4. next \in AgentState
  BY <1>0, <1>1, <1>2 DEF Shape, AgentState
<1>5. next.pc = pc /\ next.mode = agent[a].mode
  BY <1>0 DEF Shape, AgentState
<1>6. WellFormed(next)
  BY <1>1, <1>5 DEF WellFormed
<1>7. QED
  BY <1>3, <1>4, <1>6

LEMMA EntryTypes ==
    ASSUME TypeOK, NEW a \in Agents,
           \/ Acquire(a) \/ LoadForRun(a) \/ OpenTurn(a) \/ LoadForResume(a)
           \/ Refuse(a) \/ Conflict(a)
    PROVE  TypeOK'
<1>0. Shape(a)
  BY Typed
<1> USE <1>0 DEF Shape, WellFormed
<1>1. CASE Acquire(a)
  <2> DEFINE next == [agent[a] EXCEPT !.pc = "load"]
  <2>0. Goto(a, next)
    BY <1>1 DEF Acquire, Goto
  <2>a. agent[a].pc = "acquire"
    BY <1>1 DEF Acquire
  <2>1. next \in AgentState /\ WellFormed(next)
    BY <2>a DEF AgentState, PC
  <2>2. lease' \in [Coordinators -> Agents \cup {NoAgent}]
    BY <1>1, CoordinatorsOk DEF Acquire
  <2>3. QED
    BY <1>1, <2>0, <2>1, <2>2, GotoStep DEF Acquire
<1>2. CASE LoadForRun(a)
  <2> DEFINE next == [agent[a] EXCEPT !.pc = "openTurn", !.base = rev]
  <2>a. agent[a].pc = "load"
    BY <1>2 DEF LoadForRun, Loading
  <2>1. next \in AgentState /\ WellFormed(next)
    BY <2>a DEF AgentState, PC
  <2>2. QED
    BY <1>2, <2>1, GotoStep DEF LoadForRun
<1>3. CASE OpenTurn(a)
  <2> DEFINE next == [agent[a] EXCEPT !.pc = "model", !.turn = Len(status) + 1]
             items == <<UserInput(Len(status) + 1, 0)>>
  <2>a. agent[a].pc = "openTurn"
    BY <1>3 DEF OpenTurn
  <2>1. next \in AgentState /\ WellFormed(next)
    BY <2>a DEF AgentState, PC
  <2>2. items \in Seq(TurnItem)
    BY Appended
  <2>3. status' \in Seq(TurnStatus)
    BY <1>3 DEF OpenTurn, TurnStatus
  <2>4. QED
    BY <1>3, <2>1, <2>2, <2>3, CommitStep DEF OpenTurn
<1>4. CASE LoadForResume(a)
  <2>1. PICK i \in PendingSuspension(log) :
            /\ Accepts(a, i)
            /\ Goto(a, [agent[a] EXCEPT
                   !.pc = IF agent[a].answer = "userInput" THEN "reply"
                                                           ELSE agent[a].answer,
                   !.base = rev, !.turn = log[i].turn, !.queue = <<log[i].call>>])
    BY <1>4 DEF LoadForResume
  <2>2. log[i].turn \in Nat /\ log[i].call \in Calls
    BY ItemFields DEF PendingSuspension
  <2>3. agent[a].answer \in {"userInput", "approve", "deny"}
    BY <2>1 DEF Accepts
  <2> DEFINE pc == IF agent[a].answer = "userInput" THEN "reply" ELSE agent[a].answer
             next == [agent[a] EXCEPT !.pc = pc, !.base = rev, !.turn = log[i].turn,
                                      !.queue = <<log[i].call>>]
  <2>4. pc \in PC /\ pc \in {"reply", "approve", "deny"}
    BY <2>3 DEF PC
  <2>5. next \in AgentState /\ WellFormed(next)
    <3>0. agent[a].mode = "none"
      BY <1>4 DEF LoadForResume, Loading
    <3> HIDE DEF pc
    <3>1. <<log[i].call>> \in Seq(Calls) /\ <<log[i].call>> # <<>>
      BY <2>2
    <3>2. QED
      BY <2>2, <2>4, <3>0, <3>1 DEF AgentState
  <2>6. QED
    BY <1>4, <2>1, <2>5, GotoStep DEF LoadForResume
<1>5. CASE Refuse(a)
  BY <1>5, ReturnStep DEF Refuse, Outcomes
<1>6. CASE Conflict(a)
  BY <1>6, ReturnStep DEF Conflict, Outcomes
<1>7. QED
  BY <1>1, <1>2, <1>3, <1>4, <1>5, <1>6

(* An agent about to hand back a suspension is well formed.                 *)
LEMMA ParkedShape ==
    ASSUME NEW s \in AgentState, NEW sid \in Nat
    PROVE  LET next == [s EXCEPT !.pc = "finish", !.result = "suspended",
                                 !.newSid = sid, !.queue = <<>>]
           IN  next \in AgentState /\ WellFormed(next)
<1> DEFINE next == [s EXCEPT !.pc = "finish", !.result = "suspended",
                             !.newSid = sid, !.queue = <<>>]
<1>1. "finish" \in PC /\ "suspended" \in Outcomes \cup {"none"} /\ <<>> \in Seq(Calls)
  BY DEF PC, Outcomes
<1>2. next \in AgentState
  BY <1>1 DEF AgentState
<1>3. next.pc = "finish" /\ next.queue = <<>>
  BY DEF AgentState
<1>4. WellFormed(next)
  BY <1>3 DEF WellFormed
<1>5. QED
  BY <1>2, <1>4

LEMMA RecoverTypes ==
    ASSUME TypeOK, NEW a \in Agents,
           \/ LoadForRecover(a) \/ SuspendRecovery(a) \/ RetryCall(a) \/ RecoveryDone(a)
    PROVE  TypeOK'
<1>0. Shape(a)
  BY Typed
<1> USE <1>0 DEF Shape, WellFormed
<1>1. CASE LoadForRecover(a)
  <2>0. PICK t \in ActiveTurn(status) : \E pending \in PendingLists(log, t) :
            Goto(a, [agent[a] EXCEPT !.pc = "recover", !.base = rev, !.turn = t,
                                     !.mode = "recover", !.queue = pending])
    BY <1>1 DEF LoadForRecover
  <2>1. PICK pending \in PendingLists(log, t) :
            Goto(a, [agent[a] EXCEPT !.pc = "recover", !.base = rev, !.turn = t,
                                     !.mode = "recover", !.queue = pending])
    BY <2>0
  <2>2. t \in Nat
    BY DEF ActiveTurn, RunningTurns
  <2>3. pending \in Seq(Calls)
    BY PendingType
  <2> DEFINE next == [agent[a] EXCEPT !.pc = "recover", !.base = rev, !.turn = t,
                                      !.mode = "recover", !.queue = pending]
  <2>4. next \in AgentState /\ WellFormed(next)
    BY <2>2, <2>3, ZenonT(40) DEF AgentState, PC
  <2>5. QED
    BY <1>1, <2>1, <2>4, GotoStep DEF LoadForRecover
<1>2. CASE SuspendRecovery(a)
  <2> DEFINE next == [agent[a] EXCEPT !.pc = "finish", !.result = "suspended",
                                      !.newSid = rev + 1, !.queue = <<>>]
             items == <<Suspension(agent[a].turn, rev + 1, Current(a), TRUE)>>
  <2>1. next \in AgentState /\ WellFormed(next)
    BY ParkedShape DEF PC
  <2>2. items \in Seq(TurnItem)
    BY <1>2, Appended DEF SuspendRecovery
  <2>3. status' \in Seq(TurnStatus)
    BY <1>2, SetStatusType DEF SuspendRecovery, TurnStatus
  <2>4. QED
    BY <1>2, <2>1, <2>2, <2>3, CommitStep DEF SuspendRecovery
<1>3. CASE RetryCall(a)
  <2> DEFINE next == [agent[a] EXCEPT !.pc = "exec"]
             items == <<CallStarted(agent[a].turn, Current(a))>>
  <2>1. next \in AgentState /\ WellFormed(next)
    BY <1>3 DEF AgentState, PC, RetryCall
  <2>2. items \in Seq(TurnItem)
    BY <1>3, Appended DEF RetryCall
  <2>3. QED
    BY <1>3, <2>1, <2>2, CommitStep DEF RetryCall
<1>4. CASE RecoveryDone(a)
  <2> DEFINE next == [agent[a] EXCEPT !.pc = "model", !.mode = "none"]
  <2>a. agent[a].queue = <<>>
    BY <1>4 DEF RecoveryDone
  <2>1. next \in AgentState /\ WellFormed(next)
    BY <2>a, ZenonT(40) DEF AgentState, PC
  <2>2. QED
    BY <1>4, <2>1, GotoStep DEF RecoveryDone
<1>5. QED
  BY <1>1, <1>2, <1>3, <1>4

LEMMA ResumeTypes ==
    ASSUME TypeOK, NEW a \in Agents,
           ReplyToSuspension(a) \/ DenySuspended(a) \/ ApproveSuspended(a)
    PROVE  TypeOK'
<1>0. Shape(a)
  BY Typed
<1> USE <1>0 DEF Shape, WellFormed
<1>1. Continued(a) \in AgentState /\ WellFormed(Continued(a))
  BY ZenonT(40) DEF Continued, AgentState, PC
<1>2. CASE ReplyToSuspension(a)
  <2>1. <<UserInput(agent[a].turn, agent[a].sid)>> \in Seq(TurnItem)
    BY Appended DEF AgentState
  <2>2. status' \in Seq(TurnStatus)
    BY <1>2, SetStatusType DEF ReplyToSuspension, TurnStatus
  <2>3. QED
    BY <1>1, <1>2, <2>1, <2>2, CommitStep DEF ReplyToSuspension
<1>3. CASE DenySuspended(a)
  <2>1. <<ToolOutput(agent[a].turn, Current(a), "denied")>> \in Seq(TurnItem)
    BY <1>3, Appended DEF DenySuspended, ToolResult
  <2>2. status' \in Seq(TurnStatus)
    BY <1>3, SetStatusType DEF DenySuspended, TurnStatus
  <2>3. QED
    BY <1>1, <1>3, <2>1, <2>2, CommitStep DEF DenySuspended
<1>4. CASE ApproveSuspended(a)
  <2> DEFINE next == [agent[a] EXCEPT !.pc = "exec", !.mode = "approve"]
             items == <<CallStarted(agent[a].turn, Current(a))>>
  <2>1. next \in AgentState /\ WellFormed(next)
    BY <1>4 DEF AgentState, PC, ApproveSuspended
  <2>2. items \in Seq(TurnItem)
    BY <1>4, Appended DEF ApproveSuspended
  <2>3. approvals' \in [Calls -> Nat]
    BY <1>4, CountUp DEF ApproveSuspended
  <2>4. QED
    BY <1>4, <2>1, <2>2, <2>3, CommitStep DEF ApproveSuspended
<1>5. QED
  BY <1>2, <1>3, <1>4

LEMMA CloseTypes ==
    ASSUME TypeOK, NEW a \in Agents, NEW items \in Seq(TurnItem), NEW kind \in Closed,
           kind \in Outcomes, CloseTurn(a, items, kind)
    PROVE  TypeOK'
<1>1. rev' \in Nat /\ log' \in Seq(TurnItem)
  BY PersistType DEF CloseTurn
<1>2. status' \in Seq(TurnStatus)
  BY SetStatusType DEF CloseTurn, TurnStatus
<1>3. QED
  BY <1>1, <1>2, ReturnStep DEF CloseTurn

LEMMA ModelTypes ==
    ASSUME TypeOK, NEW a \in Agents,
           \/ IterationsExhausted(a) \/ AbortModel(a) \/ ModelFails(a) \/ ModelAnswers(a)
           \/ \E batch \in Batches : ModelCalls(a, batch)
    PROVE  TypeOK'
<1>0. Shape(a)
  BY Typed
<1> USE <1>0 DEF Shape, WellFormed
<1>1. CASE IterationsExhausted(a) \/ ModelFails(a)
  BY <1>1, Appended, CloseTypes DEF IterationsExhausted, ModelFails, Closed, Outcomes
<1>2. CASE AbortModel(a)
  BY <1>2, Appended, CloseTypes DEF AbortModel, Closed, Outcomes
<1>3. CASE ModelAnswers(a)
  <2> DEFINE next == [agent[a] EXCEPT !.pc = "finish", !.result = "message"]
  <2>a. agent[a].pc = "asking"
    BY <1>3 DEF ModelAnswers, Asking
  <2>1. next \in AgentState /\ WellFormed(next)
    BY <2>a DEF AgentState, PC, Outcomes
  <2>2. <<ModelResponse(agent[a].turn, <<>>)>> \in Seq(TurnItem)
    BY Appended
  <2>3. status' \in Seq(TurnStatus)
    BY <1>3, SetStatusType DEF ModelAnswers, TurnStatus, Closed
  <2>4. QED
    BY <1>3, <2>1, <2>2, <2>3, CommitStep DEF ModelAnswers
<1>4. ASSUME NEW batch \in Batches, ModelCalls(a, batch)
      PROVE  TypeOK'
  <2> DEFINE admit == Least(Len(batch), Remaining(a))
             next  == [agent[a] EXCEPT !.pc = "calls", !.mode = "live", !.queue = batch,
                                       !.admit = admit, !.count = @ + admit]
  <2>1. batch \in Seq(Calls)
    BY BatchType
  <2>2. admit \in Nat
    <3>1. Len(batch) \in Nat
      BY <2>1
    <3>2. QED
      BY <3>1, AdmitType
  <2>3. next \in AgentState /\ WellFormed(next)
    <3>1. Len(batch) \in Nat
      BY <2>1
    <3>2. agent[a].count + admit \in Nat
      BY <3>1, AdmitType
    <3> HIDE DEF admit
    <3>3. QED
      BY <2>1, <2>2, <3>2, ZenonT(40) DEF AgentState, PC
  <2>4. <<ModelResponse(agent[a].turn, batch)>> \in Seq(TurnItem)
    BY <2>1, Appended
  <2>5. QED
    BY <1>4, <2>3, <2>4, CommitStep DEF ModelCalls
<1>5. QED
  BY <1>1, <1>2, <1>3, <1>4

LEMMA BatchTypes ==
    ASSUME TypeOK, NEW a \in Agents,
           \/ StartCall(a) \/ HookRejects(a) \/ LimitReached(a) \/ BatchDone(a)
           \/ BuildRequest(a)
    PROVE  TypeOK'
<1>0. Shape(a)
  BY Typed
<1> USE <1>0 DEF Shape, WellFormed
<1>1. CASE StartCall(a)
  <2> DEFINE next == [agent[a] EXCEPT !.pc = "exec"]
  <2>1. next \in AgentState /\ WellFormed(next)
    BY <1>1 DEF StartCall, AgentState, PC
  <2>2. <<CallStarted(agent[a].turn, Current(a))>> \in Seq(TurnItem)
    BY <1>1, Appended DEF StartCall
  <2>3. QED
    BY <1>1, <2>1, <2>2, CommitStep DEF StartCall
<1>2. CASE HookRejects(a)
  <2>1. Advanced(a) \in AgentState /\ WellFormed(Advanced(a))
    BY <1>2, AdvancedType DEF HookRejects, AgentState
  <2>2. <<ToolOutput(agent[a].turn, Current(a), "error")>> \in Seq(TurnItem)
    BY <1>2, Appended DEF HookRejects, ToolResult
  <2>3. QED
    BY <1>2, <2>1, <2>2, CommitStep DEF HookRejects
<1>3. CASE LimitReached(a)
  <2> DEFINE next  == [agent[a] EXCEPT !.pc = "finish", !.result = "failed", !.queue = <<>>]
             items == Append(OutputsFor(agent[a].turn, agent[a].queue, "skipped"),
                             TurnFailed(agent[a].turn))
  <2>1. next \in AgentState /\ WellFormed(next)
    BY ZenonT(40) DEF AgentState, PC, Outcomes
  <2>2. items \in Seq(TurnItem)
    <3>1. OutputsFor(agent[a].turn, agent[a].queue, "skipped") \in Seq(TurnItem)
      BY OutputsForType DEF ToolResult
    <3>2. TurnFailed(agent[a].turn) \in TurnItem
      BY EndTypes
    <3>3. QED
      BY <3>1, <3>2, AppendType
  <2>3. status' \in Seq(TurnStatus)
    BY <1>3, SetStatusType DEF LimitReached, TurnStatus, Closed
  <2>4. QED
    BY <1>3, <2>1, <2>2, <2>3, CommitStep DEF LimitReached
<1>4. CASE BatchDone(a)
  <2> DEFINE next == [agent[a] EXCEPT !.pc = "model", !.mode = "none", !.iter = @ + 1]
  <2>a. agent[a].queue = <<>>
    BY <1>4 DEF BatchDone
  <2>1. next \in AgentState /\ WellFormed(next)
    BY <2>a, ZenonT(40) DEF AgentState, PC
  <2>2. QED
    BY <1>4, <2>1, GotoStep DEF BatchDone
<1>5. CASE BuildRequest(a)
  <2> DEFINE next == [agent[a] EXCEPT !.pc = "asking"]
  <2>1. Goto(a, next)
    BY <1>5 DEF BuildRequest, Goto
  <2>2. next \in AgentState /\ WellFormed(next)
    BY <1>5 DEF BuildRequest, AgentState, PC
  <2>3. QED
    BY <1>5, <2>1, <2>2, GotoStep DEF BuildRequest
<1>6. QED
  BY <1>1, <1>2, <1>3, <1>4, <1>5

LEMMA CallTypes ==
    ASSUME TypeOK, NEW a \in Agents,
           EnterFunction(a) \/ FunctionReturns(a) \/ AbortCall(a) \/ FinishTurn(a)
    PROVE  TypeOK'
<1>0. Shape(a)
  BY Typed
<1> USE <1>0 DEF Shape, WellFormed
<1>1. CASE EnterFunction(a)
  <2> DEFINE next == [agent[a] EXCEPT !.pc = "running"]
  <2>1. Goto(a, next)
    BY <1>1 DEF EnterFunction, Goto
  <2>2. next \in AgentState /\ WellFormed(next)
    BY <1>1 DEF EnterFunction, AgentState, PC
  <2>3. runs' \in [Calls -> Nat]
    BY <1>1, CountUp DEF EnterFunction
  <2>4. QED
    BY <1>1, <2>1, <2>2, <2>3, GotoStep DEF EnterFunction
<1>2. ASSUME NEW result \in {"success", "error"}, AnswerCall(a, result)
      PROVE  TypeOK'
  <2> DEFINE items == <<ToolOutput(agent[a].turn, Current(a), result)>>
  <2>1. items \in Seq(TurnItem)
    BY <1>2, Appended DEF AnswerCall, ToolResult
  <2>2. CASE agent[a].mode = "approve"
    <3>1. Continued(a) \in AgentState /\ WellFormed(Continued(a))
      BY ZenonT(40) DEF Continued, AgentState, PC
    <3>2. status' \in Seq(TurnStatus)
      BY <1>2, <2>2, SetStatusType DEF AnswerCall, TurnStatus
    <3>3. QED
      BY <1>2, <2>1, <2>2, <3>1, <3>2, CommitStep DEF AnswerCall
  <2>3. CASE agent[a].mode # "approve"
    <3>1. Advanced(a) \in AgentState /\ WellFormed(Advanced(a))
      BY <1>2, <2>3, AdvancedType DEF AnswerCall, AgentState
    <3>2. QED
      BY <1>2, <2>1, <2>3, <3>1, CommitStep DEF AnswerCall
  <2>4. QED
    BY <2>2, <2>3
<1>3. ASSUME NEW executed \in BOOLEAN, NEW deferred \in BOOLEAN,
             SuspendCall(a, executed, deferred)
      PROVE  TypeOK'
  <2> DEFINE t      == agent[a].turn
             output == IF executed /\ agent[a].mode = "live"
                       THEN <<ToolOutput(t, Current(a), "success")>> ELSE <<>>
             asked  == <<Suspension(t, rev + 1, Current(a), deferred)>>
             rest   == OutputsFor(t, Tail(agent[a].queue), "skipped")
             next   == [agent[a] EXCEPT !.pc = "finish", !.result = "suspended",
                                        !.newSid = rev + 1, !.queue = <<>>]
  <2>1. Current(a) \in Calls /\ Tail(agent[a].queue) \in Seq(Calls)
    BY <1>3 DEF SuspendCall
  <2>2. output \in Seq(TurnItem)
    BY <2>1, Appended DEF ToolResult
  <2>3. asked \in Seq(TurnItem)
    BY <2>1, Appended
  <2>4. rest \in Seq(TurnItem)
    BY <2>1, OutputsForType DEF ToolResult
  <2>5. output \o asked \o rest \in Seq(TurnItem)
    <3> HIDE DEF output, asked, rest
    <3>1. QED
      BY <2>2, <2>3, <2>4
  <2>6. next \in AgentState /\ WellFormed(next)
    BY ParkedShape
  <2>7. CommitAndGoto(a, output \o asked \o rest, next)
    BY <1>3 DEF SuspendCall
  <2>8. status' \in Seq(TurnStatus)
    BY <1>3, SetStatusType DEF SuspendCall, TurnStatus
  <2>9. QED
    BY <1>3, <2>5, <2>6, <2>7, <2>8, CommitStep DEF SuspendCall
<1>4. CASE SuspendAgain(a)
  BY <1>4, ReturnStep DEF SuspendAgain, Outcomes
<1>5. CASE LateFunctionReply(a)
  BY <1>5, EntryTypes DEF LateFunctionReply
<1>6. CASE AbortCall(a)
  <2> DEFINE items == <<TurnAborted(agent[a].turn)>>
                          \o OutputsFor(agent[a].turn, agent[a].queue, "aborted")
             next  == [agent[a] EXCEPT !.pc = "finish", !.result = "aborted",
                                       !.queue = <<>>]
  <2>1. items \in Seq(TurnItem)
    <3>1. OutputsFor(agent[a].turn, agent[a].queue, "aborted") \in Seq(TurnItem)
      BY OutputsForType DEF ToolResult
    <3>2. <<TurnAborted(agent[a].turn)>> \in Seq(TurnItem)
      BY Appended
    <3>3. QED
      BY <3>1, <3>2
  <2>2. CASE agent[a].mode = "recover"
    <3>1. next \in AgentState /\ WellFormed(next)
      BY ZenonT(40) DEF AgentState, PC, Outcomes
    <3>2. status' \in Seq(TurnStatus)
      BY <1>6, <2>2, SetStatusType DEF AbortCall, TurnStatus, Closed
    <3>3. QED
      BY <1>6, <2>1, <2>2, <3>1, <3>2, CommitStep DEF AbortCall
  <2>3. CASE agent[a].mode # "recover"
    BY <1>6, <2>1, <2>3, CloseTypes DEF AbortCall, Closed, Outcomes
  <2>4. QED
    BY <2>2, <2>3
<1>7. CASE FinishTurn(a)
  <2>1. rev' \in Nat /\ log' \in Seq(TurnItem)
    BY <1>7, Appended, PersistType DEF FinishTurn
  <2>2. agent[a].result \in Outcomes \cup {"none"}
    BY DEF AgentState
  <2>3. QED
    BY <1>7, <2>1, <2>2, ReturnStep DEF FinishTurn
<1>8. QED
  BY <1>1, <1>2, <1>3, <1>4, <1>5, <1>6, <1>7 DEF FunctionReturns

LEMMA TypeNext == TypeOK /\ [Next]_vars => TypeOK'
<1> SUFFICES ASSUME TypeOK, [Next]_vars PROVE TypeOK'
  OBVIOUS
<1>1. CASE UNCHANGED vars
  BY <1>1 DEF TypeOK, vars
<1>2. ASSUME NEW a \in Agents,
             \/ Caller(a) \/ Drop(a) \/ Acquire(a) \/ OwnStep(a)
             \/ FunctionReturns(a) \/ ModelReturns(a)
      PROVE  TypeOK'
  <2>1. CASE Caller(a) \/ Drop(a)
    BY <2>1, CallerTypes
  <2>2. CASE Acquire(a)
    BY <2>2, EntryTypes
  <2>3. CASE OwnStep(a)
    BY <2>3, EntryTypes, RecoverTypes, ResumeTypes, ModelTypes, BatchTypes, CallTypes
       DEF OwnStep, RevisionConflict
  <2>4. CASE FunctionReturns(a)
    BY <2>4, CallTypes
  <2>5. CASE ModelReturns(a)
    BY <2>5, EntryTypes, ModelTypes DEF ModelReturns, LateModelReply
  <2>6. QED
    BY <1>2, <2>1, <2>2, <2>3, <2>4, <2>5
<1>3. QED
  BY <1>1, <1>2 DEF Next

(* In every reachable state each variable has the shape TypeOK gives it:    *)
(* no step stands at a call with an empty queue, whatever is lost or raced. *)
THEOREM TypeCorrect == Spec => []TypeOK
  BY TypeInit, TypeNext, PTL DEF Spec

-----------------------------------------------------------------------------
(* Appending to a log.                                                      *)

LEMMA Extend ==
    ASSUME NEW items \in Seq(TurnItem), NEW more \in Seq(TurnItem)
    PROVE  /\ \A i \in DOMAIN items : /\ i \in DOMAIN (items \o more)
                                      /\ (items \o more)[i] = items[i]
           /\ \A i \in DOMAIN (items \o more) : i \notin DOMAIN items =>
                  \E j \in DOMAIN more : /\ i = Len(items) + j
                                         /\ (items \o more)[i] = more[j]
           /\ \A j \in DOMAIN more : /\ Len(items) + j \in DOMAIN (items \o more)
                                     /\ (items \o more)[Len(items) + j] = more[j]
           /\ \A i \in DOMAIN items, j \in DOMAIN more : i < Len(items) + j
           /\ items \o more \in Seq(TurnItem)
<1>1. /\ Len(items) \in Nat /\ Len(more) \in Nat
      /\ DOMAIN items = 1..Len(items) /\ DOMAIN more = 1..Len(more)
      /\ items \o more \in Seq(TurnItem)
      /\ DOMAIN (items \o more) = 1..(Len(items) + Len(more))
  OBVIOUS
<1>2. \A i \in 1..Len(items) : (items \o more)[i] = items[i]
  OBVIOUS
<1>3. \A j \in 1..Len(more) : (items \o more)[Len(items) + j] = more[j]
  OBVIOUS
<1>4. ASSUME NEW i \in DOMAIN (items \o more), i \notin DOMAIN items
      PROVE  \E j \in DOMAIN more : i = Len(items) + j /\ (items \o more)[i] = more[j]
  <2>1. i - Len(items) \in DOMAIN more /\ i = Len(items) + (i - Len(items))
    BY <1>1, <1>4
  <2>2. QED
    BY <1>1, <1>3, <2>1
<1>5. \A i \in DOMAIN items, j \in DOMAIN more : i < Len(items) + j
  BY <1>1
<1>6. \A j \in DOMAIN more : Len(items) + j \in DOMAIN (items \o more)
  BY <1>1
<1>7. QED
  BY <1>1, <1>2, <1>3, <1>4, <1>5, <1>6

(* `more` asks for no calls, and marks or suspends only calls asked for.    *)
Quiet(items, more) ==
    \A j \in DOMAIN more :
        /\ more[j].kind = "response" => more[j].calls = <<>>
        /\ more[j].kind \in {"started", "suspension"} =>
               RequestedIn(items, more[j].turn, more[j].call)

LEMMA RequestsKept ==
    ASSUME NEW items \in Seq(TurnItem), NEW more \in Seq(TurnItem),
           NEW r \in DOMAIN items, NEW c
    PROVE  Requests(items \o more, r, c) <=> Requests(items, r, c)
<1>1. (items \o more)[r] = items[r]
  BY Extend
<1>2. QED
  BY <1>1 DEF Requests

LEMMA RequestsOld ==
    ASSUME NEW items \in Seq(TurnItem), NEW more \in Seq(TurnItem), Quiet(items, more),
           NEW r \in DOMAIN (items \o more), NEW c, Requests(items \o more, r, c)
    PROVE  r \in DOMAIN items /\ Requests(items, r, c)
<1>1. ASSUME r \notin DOMAIN items PROVE FALSE
  <2>1. PICK j \in DOMAIN more : (items \o more)[r] = more[j]
    BY <1>1, Extend
  <2>2. more[j].kind = "response" /\ more[j].calls # <<>>
    BY <2>1 DEF Requests
  <2>3. QED
    BY <2>2 DEF Quiet
<1>2. QED
  BY <1>1, RequestsKept

LEMMA RequestedKept ==
    ASSUME NEW items \in Seq(TurnItem), NEW more \in Seq(TurnItem),
           NEW t, NEW c, RequestedIn(items, t, c)
    PROVE  RequestedIn(items \o more, t, c)
  BY Extend, RequestsKept DEF RequestedIn

LEMMA QuietKeepsLog ==
    ASSUME NEW items \in Seq(TurnItem), NEW more \in Seq(TurnItem), Quiet(items, more),
           RequestedOnce(items), MarkersRequested(items)
    PROVE  RequestedOnce(items \o more) /\ MarkersRequested(items \o more)
<1> DEFINE all == items \o more
<1>1. RequestedOnce(all)
  BY RequestsOld DEF RequestedOnce
<1>2. ASSUME NEW i \in DOMAIN all, all[i].kind \in {"started", "suspension"}
      PROVE  \E r \in DOMAIN all :
                 r < i /\ all[r].turn = all[i].turn /\ Requests(all, r, all[i].call)
  <2>1. CASE i \in DOMAIN items
    <3>1. all[i] = items[i]
      BY <2>1, Extend
    <3>2. PICK r \in DOMAIN items :
              r < i /\ items[r].turn = items[i].turn /\ Requests(items, r, items[i].call)
      BY <1>2, <2>1, <3>1 DEF MarkersRequested
    <3>3. QED
      BY <3>1, <3>2, Extend, RequestsKept
  <2>2. CASE i \notin DOMAIN items
    <3>1. PICK j \in DOMAIN more : i = Len(items) + j /\ all[i] = more[j]
      BY <2>2, Extend
    <3>2. PICK r \in DOMAIN items :
              items[r].turn = more[j].turn /\ Requests(items, r, more[j].call)
      BY <1>2, <3>1 DEF Quiet, RequestedIn
    <3>3. r < i /\ r \in DOMAIN all /\ all[r] = items[r]
      BY <3>1, Extend
    <3>4. QED
      BY <3>1, <3>2, <3>3, RequestsKept
  <2>3. QED
    BY <2>1, <2>2
<1>3. QED
  BY <1>1, <1>2 DEF MarkersRequested

LEMMA QuietKeepsLast ==
    ASSUME NEW items \in Seq(TurnItem), NEW more \in Seq(TurnItem), Quiet(items, more),
           NEW t
    PROVE  LastCallResponse(items \o more, t) = LastCallResponse(items, t)
<1>1. ASSUME NEW i \in DOMAIN (items \o more), i \notin DOMAIN items
      PROVE  i \notin CallResponses(items \o more, t)
  <2>1. PICK j \in DOMAIN more : (items \o more)[i] = more[j]
    BY <1>1, Extend
  <2>2. QED
    BY <2>1 DEF Quiet, CallResponses
<1>2. CallResponses(items \o more, t) = CallResponses(items, t)
  BY <1>1, Extend DEF CallResponses
<1>3. QED
  BY <1>2 DEF LastCallResponse

LEMMA MarkersGrow ==
    ASSUME NEW items \in Seq(TurnItem), NEW more \in Seq(TurnItem), NEW c
    PROVE  /\ Markers(items, c) # {} => Markers(items \o more, c) # {}
           /\ (\A j \in DOMAIN more : more[j].kind = "started" => more[j].call # c) =>
                  Markers(items \o more, c) = Markers(items, c)
<1>1. Markers(items, c) \subseteq Markers(items \o more, c)
  BY Extend DEF Markers
<1>2. ASSUME \A j \in DOMAIN more : more[j].kind = "started" => more[j].call # c,
             NEW i \in Markers(items \o more, c)
      PROVE  i \in Markers(items, c)
  <2>1. ASSUME i \notin DOMAIN items PROVE FALSE
    BY <1>2, <2>1, Extend DEF Markers
  <2>2. QED
    BY <2>1, Extend DEF Markers
<1>3. QED
  BY <1>1, <1>2

-----------------------------------------------------------------------------
(* Permits.                                                                 *)

LEMMA PermitsFinite ==
    ASSUME NEW c
    PROVE  IsFiniteSet(Permits(c)) /\ Cardinality(Permits(c)) \in Nat
<1>1. IsFiniteSet(Permits(c))
  BY AgentsFinite, FS_Subset DEF Permits
<1>2. QED
  BY <1>1, FS_CardinalityType

LEMMA PermitsAfter ==
    ASSUME TypeOK, NEW a \in Agents, NEW s, Goto(a, s), NEW c
    PROVE  Permits(c)' = IF s.pc = "exec" /\ Head(s.queue) = c
                         THEN Permits(c) \cup {a} ELSE Permits(c) \ {a}
<1>1. agent' = [agent EXCEPT ![a] = s] /\ DOMAIN agent = Agents
  BY DEF Goto, TypeOK
<1>2. /\ agent'[a] = s
      /\ \A b \in Agents \ {a} : agent'[b] = agent[b]
  BY <1>1
<1>3. \A b \in Agents \ {a} : b \in Permits(c)' <=> b \in Permits(c)
  BY <1>2 DEF Permits, Current
<1>4. a \in Permits(c)' <=> s.pc = "exec" /\ Head(s.queue) = c
  BY <1>2 DEF Permits, Current
<1>5. Permits(c)' \subseteq Agents /\ Permits(c) \subseteq Agents
  BY DEF Permits
<1>6. QED
  BY <1>3, <1>4, <1>5

LEMMA PermitsCount ==
    ASSUME TypeOK, NEW a \in Agents, NEW s, Goto(a, s), NEW c
    PROVE  /\ Cardinality(Permits(c)') \in Nat
           /\ (s.pc = "exec" => Head(s.queue) # c) =>
                  Cardinality(Permits(c)') =
                      Cardinality(Permits(c)) - (IF a \in Permits(c) THEN 1 ELSE 0)
           /\ Cardinality(Permits(c)') <= Cardinality(Permits(c)) + 1
<1>1. IsFiniteSet(Permits(c)) /\ Cardinality(Permits(c)) \in Nat
  BY PermitsFinite
<1>2. CASE s.pc = "exec" /\ Head(s.queue) = c
  <2>1. Permits(c)' = Permits(c) \cup {a}
    BY <1>2, PermitsAfter
  <2>2. Cardinality(Permits(c)') =
            IF a \in Permits(c) THEN Cardinality(Permits(c)) ELSE Cardinality(Permits(c)) + 1
    BY <1>1, <2>1, FS_AddElement
  <2>3. QED
    BY <1>1, <1>2, <2>2
<1>3. CASE ~(s.pc = "exec" /\ Head(s.queue) = c)
  <2>1. Permits(c)' = Permits(c) \ {a}
    BY <1>3, PermitsAfter
  <2>2. /\ IsFiniteSet(Permits(c)')
        /\ Cardinality(Permits(c)') =
               Cardinality(Permits(c)) - (IF a \in Permits(c) THEN 1 ELSE 0)
    BY <1>1, <2>1, FS_RemoveElement
  <2>3. QED
    BY <1>1, <2>2, FS_CardinalityType
<1>4. QED
  BY <1>2, <1>3

-----------------------------------------------------------------------------
(* Classes of steps.                                                        *)

(* Agent a moves to state s; every other agent stays where it is, and its   *)
(* copy is out of date once a has committed.                                *)
LEMMA CopiesAfter ==
    ASSUME IInv, NEW a \in Agents, NEW s, Goto(a, s),
           \/ rev' = rev /\ log' = log
           \/ rev' = rev + 1,
           s.base <= rev', s.base = rev' => Knows(s, log')
    PROVE  \A b \in Agents : /\ agent'[b].base <= rev'
                             /\ agent'[b].base = rev' => Knows(agent'[b], log')
<1>1. agent \in [Agents -> AgentState] /\ rev \in Nat
  BY DEF IInv, TypeOK
<1>2. agent'[a] = s /\ \A b \in Agents \ {a} : agent'[b] = agent[b]
  BY <1>1 DEF Goto
<1>3. ASSUME NEW b \in Agents, b # a
      PROVE  agent'[b].base <= rev' /\ (agent'[b].base = rev' => Knows(agent'[b], log'))
  <2>1. agent'[b] = agent[b] /\ agent[b].base \in Nat /\ agent[b].base <= rev
    BY <1>1, <1>2, <1>3 DEF IInv, Copies, AgentState
  <2>2. agent[b].base = rev => Knows(agent[b], log)
    BY <1>3 DEF IInv, Copies
  <2>3. QED
    BY <1>1, <2>1, <2>2
<1>4. QED
  BY <1>2, <1>3

(* No permit is given and no history counted.                               *)
LEMMA AccountKept ==
    ASSUME IInv, NEW a \in Agents, NEW s, Goto(a, s), s.pc # "exec",
           NEW more \in Seq(TurnItem), log' = log \o more,
           UNCHANGED <<runs, approvals>>
    PROVE  Accounting'
<1> SUFFICES ASSUME NEW c \in NonIdempotent
             PROVE  runs'[c] + Cardinality(Permits(c)')
                        <= approvals'[c] + (IF Markers(log', c) = {} THEN 0 ELSE 1)
  BY DEF Accounting
<1>1. runs[c] \in Nat /\ approvals[c] \in Nat
  BY CallsOk DEF IInv, TypeOK
<1>2. Cardinality(Permits(c)') <= Cardinality(Permits(c)) /\ Cardinality(Permits(c)') \in Nat
  BY PermitsCount, PermitsFinite DEF IInv
<1>3. Markers(log, c) # {} => Markers(log', c) # {}
  BY MarkersGrow DEF IInv, TypeOK
<1>4. runs[c] + Cardinality(Permits(c))
          <= approvals[c] + (IF Markers(log, c) = {} THEN 0 ELSE 1)
  BY DEF IInv, Accounting
<1>5. QED
  BY <1>1, <1>2, <1>3, <1>4, PermitsFinite

(* Nothing durable changes.                                                 *)
LEMMA StillStep ==
    ASSUME IInv, TypeOK', NEW a \in Agents, NEW s, Goto(a, s), s.pc # "exec",
           UNCHANGED <<rev, log, runs, approvals>>,
           s.base <= rev, s.base = rev => Knows(s, log)
    PROVE  IInv'
<1>1. log' = log \o <<>> /\ <<>> \in Seq(TurnItem)
  BY DEF IInv, TypeOK
<1>2. Accounting'
  BY <1>1, AccountKept
<1>3. RequestedOnce(log') /\ MarkersRequested(log')
  BY DEF IInv
<1>4. \A b \in Agents : /\ agent'[b].base <= rev'
                        /\ agent'[b].base = rev' => Knows(agent'[b], log')
  BY CopiesAfter
<1>5. QED
  BY <1>2, <1>3, <1>4 DEF IInv, Copies

(* A commit that gives no permit.                                           *)
LEMMA CommitKept ==
    ASSUME IInv, TypeOK', NEW a \in Agents, NEW s, Goto(a, s), s.pc # "exec",
           NEW more \in Seq(TurnItem), log' = log \o more, rev' = rev + 1,
           UNCHANGED <<runs, approvals>>,
           RequestedOnce(log'), MarkersRequested(log'),
           s.base <= rev', s.base = rev' => Knows(s, log')
    PROVE  IInv'
<1>1. Accounting'
  BY AccountKept
<1>2. \A b \in Agents : /\ agent'[b].base <= rev'
                        /\ agent'[b].base = rev' => Knows(agent'[b], log')
  BY CopiesAfter
<1>3. QED
  BY <1>1, <1>2 DEF IInv, Copies

LEMMA EmptyKnows ==
    ASSUME NEW s, s.queue = <<>>, NEW items
    PROVE  Knows(s, items)
  BY DEF Knows, QueueRequested, RecoveryQueue, LiveQueue

(* The same commit when what it appends is quiet and agent a has no queue   *)
(* left, or no current copy.                                                *)
LEMMA QuietCommit ==
    ASSUME IInv, TypeOK', NEW a \in Agents, NEW s, Goto(a, s), s.pc # "exec",
           NEW more \in Seq(TurnItem), Persist(a, more), Quiet(log, more),
           UNCHANGED <<runs, approvals>>, s.queue = <<>>, s.base \in {0, rev + 1}
    PROVE  IInv'
<1>1. rev \in Nat /\ log \in Seq(TurnItem) /\ RequestedOnce(log) /\ MarkersRequested(log)
  BY DEF IInv, TypeOK
<1>2. rev' = rev + 1 /\ log' = log \o more
  BY DEF Persist
<1>3. RequestedOnce(log') /\ MarkersRequested(log')
  BY <1>1, <1>2, QuietKeepsLog
<1>4. s.base <= rev' /\ Knows(s, log')
  BY <1>1, <1>2, EmptyKnows
<1>5. QED
  BY <1>2, <1>3, <1>4, CommitKept

(* What is quiet.                                                           *)
Plain(item) ==
    \/ item.kind \in {"user", "output", "turnFailed", "turnAborted"}
    \/ item.kind = "response" /\ item.calls = <<>>

LEMMA PlainQuiet ==
    ASSUME NEW items, NEW more, \A j \in DOMAIN more : Plain(more[j])
    PROVE  Quiet(items, more)
  BY DEF Plain, Quiet

LEMMA PlainItems ==
    ASSUME NEW t, NEW r, NEW c, NEW q
    PROVE  /\ Plain(UserInput(t, r)) /\ Plain(ToolOutput(t, c, r))
           /\ Plain(TurnFailed(t)) /\ Plain(TurnAborted(t))
           /\ Plain(ModelResponse(t, <<>>))
           /\ \A j \in DOMAIN OutputsFor(t, q, r) : Plain(OutputsFor(t, q, r)[j])
  BY DEF Plain, UserInput, ToolOutput, TurnFailed, TurnAborted, ModelResponse, OutputsFor

(* The in-memory thread after a commit is the stored one.                   *)
LEMMA CommitGoto ==
    ASSUME NEW a \in Agents, NEW more, NEW next \in AgentState, CommitAndGoto(a, more, next)
    PROVE  /\ Persist(a, more)
           /\ Goto(a, [next EXCEPT !.base = rev + 1])
           /\ [next EXCEPT !.base = rev + 1].base = rev + 1
           /\ [next EXCEPT !.base = rev + 1].pc = next.pc
           /\ [next EXCEPT !.base = rev + 1].mode = next.mode
           /\ [next EXCEPT !.base = rev + 1].turn = next.turn
           /\ [next EXCEPT !.base = rev + 1].queue = next.queue
  BY DEF CommitAndGoto, AgentState

-----------------------------------------------------------------------------
(* Steps that change nothing durable.                                       *)

(* An agent's own knowledge, when it only moves.                            *)
LEMMA IdleKnows ==
    /\ Idle.pc # "exec" /\ Idle.queue = <<>> /\ Idle.base = 0
    /\ \A items : Knows(Idle, items)
<1>1. Idle.pc # "exec" /\ Idle.queue = <<>> /\ Idle.base = 0
  BY DEF Idle
<1>2. QED
  BY <1>1, EmptyKnows

(* The step ends the operation without a commit.                            *)
LEMMA ReturnKeeps ==
    ASSUME IInv, TypeOK', NEW a \in Agents, NEW kind, NEW sid, Return(a, kind, sid),
           UNCHANGED <<rev, log, runs, approvals>>
    PROVE  IInv'
<1>1. Goto(a, Idle) /\ rev \in Nat
  BY DEF Return, IInv, TypeOK
<1>2. Idle.base <= rev
  BY <1>1, IdleKnows
<1>3. QED
  BY <1>1, <1>2, IdleKnows, StillStep

LEMMA CallerKeeps ==
    ASSUME IInv, TypeOK', NEW a \in Agents,
           RunTurn(a) \/ RecoverTurn(a) \/ ResumeSuspendedTurn(a) \/ Drop(a)
    PROVE  IInv'
<1>1. ASSUME NEW s, s.pc = "acquire", s.queue = <<>>, s.base = 0, Begin(a, s)
      PROVE  IInv'
  <2>1. rev \in Nat /\ Goto(a, s)
    BY <1>1 DEF Begin, IInv, TypeOK
  <2>2. s.base <= rev /\ Knows(s, log)
    BY <1>1, <2>1, EmptyKnows
  <2>3. QED
    BY <1>1, <2>1, <2>2, StillStep DEF Begin
<1>2. CASE RunTurn(a)
  BY <1>1, <1>2 DEF RunTurn, Idle
<1>3. CASE RecoverTurn(a)
  BY <1>1, <1>3 DEF RecoverTurn, Idle
<1>4. CASE ResumeSuspendedTurn(a)
  BY <1>1, <1>4 DEF ResumeSuspendedTurn, Idle
<1>5. CASE Drop(a)
  BY <1>5, ReturnKeeps DEF Drop
<1>6. QED
  BY <1>2, <1>3, <1>4, <1>5

(* Steps between awaits that leave the agent without a queue.               *)
LEMMA MoveKeeps ==
    ASSUME IInv, TypeOK', NEW a \in Agents,
           \/ Acquire(a) \/ LoadForRun(a) \/ RecoveryDone(a) \/ BatchDone(a)
           \/ BuildRequest(a) \/ Refuse(a) \/ Conflict(a) \/ SuspendAgain(a)
    PROVE  IInv'
<1>0. /\ agent[a] \in AgentState /\ WellFormed(agent[a])
      /\ agent[a].base <= rev /\ rev \in Nat /\ agent[a].base \in Nat
  BY DEF IInv, TypeOK, Copies, AgentState
<1>1. ASSUME NEW s \in AgentState, s.pc # "exec", s.queue = <<>>, s.base \in {agent[a].base, rev},
             Goto(a, s), UNCHANGED <<rev, log, runs, approvals>>
      PROVE  IInv'
  <2>1. s.base <= rev /\ Knows(s, log)
    BY <1>0, <1>1, EmptyKnows
  <2>2. QED
    BY <1>1, <2>1, StillStep
<1>2. CASE Acquire(a)
  <2> DEFINE s == [agent[a] EXCEPT !.pc = "load"]
  <2>1. agent[a].queue = <<>>
    BY <1>0, <1>2 DEF Acquire, WellFormed
  <2>2. /\ s \in AgentState /\ s.pc = "load" /\ s.queue = <<>> /\ s.base = agent[a].base
    BY <1>0, <2>1 DEF AgentState, PC
  <2>3. Goto(a, s) /\ UNCHANGED <<rev, log, runs, approvals>>
    BY <1>2 DEF Acquire, Goto
  <2>4. QED
    BY <1>1, <2>2, <2>3
<1>3. CASE LoadForRun(a)
  <2> DEFINE s == [agent[a] EXCEPT !.pc = "openTurn", !.base = rev]
  <2>1. agent[a].queue = <<>>
    BY <1>0, <1>3 DEF LoadForRun, Loading, WellFormed
  <2>2. /\ s \in AgentState /\ s.pc = "openTurn" /\ s.queue = <<>> /\ s.base = rev
    BY <1>0, <2>1 DEF AgentState, PC
  <2>3. Goto(a, s) /\ UNCHANGED <<rev, log, runs, approvals>>
    BY <1>3 DEF LoadForRun
  <2>4. QED
    BY <1>1, <2>2, <2>3
<1>4. CASE RecoveryDone(a)
  <2> DEFINE s == [agent[a] EXCEPT !.pc = "model", !.mode = "none"]
  <2>1. agent[a].queue = <<>>
    BY <1>4 DEF RecoveryDone
  <2>2. /\ s \in AgentState /\ s.pc = "model" /\ s.queue = <<>> /\ s.base = agent[a].base
    BY <1>0, <2>1 DEF AgentState, PC
  <2>3. Goto(a, s) /\ UNCHANGED <<rev, log, runs, approvals>>
    BY <1>4 DEF RecoveryDone
  <2>4. QED
    BY <1>1, <2>2, <2>3
<1>5. CASE BatchDone(a)
  <2> DEFINE s == [agent[a] EXCEPT !.pc = "model", !.mode = "none", !.iter = @ + 1]
  <2>1. agent[a].queue = <<>> /\ agent[a].iter + 1 \in Nat
    BY <1>0, <1>5 DEF BatchDone, AgentState
  <2>2. /\ s \in AgentState /\ s.pc = "model" /\ s.queue = <<>> /\ s.base = agent[a].base
    BY <1>0, <2>1 DEF AgentState, PC
  <2>3. Goto(a, s) /\ UNCHANGED <<rev, log, runs, approvals>>
    BY <1>5 DEF BatchDone
  <2>4. QED
    BY <1>1, <2>2, <2>3
<1>6. CASE Refuse(a) \/ Conflict(a) \/ SuspendAgain(a)
  BY <1>6, ReturnKeeps DEF Refuse, Conflict, SuspendAgain
<1>7. CASE BuildRequest(a)
  <2> DEFINE s == [agent[a] EXCEPT !.pc = "asking"]
  <2>1. agent[a].queue = <<>>
    BY <1>0, <1>7 DEF BuildRequest, WellFormed
  <2>2. /\ s \in AgentState /\ s.pc = "asking" /\ s.queue = <<>> /\ s.base = agent[a].base
    BY <1>0, <2>1 DEF AgentState, PC
  <2>3. Goto(a, s) /\ UNCHANGED <<rev, log, runs, approvals>>
    BY <1>7 DEF BuildRequest, Goto
  <2>4. QED
    BY <1>1, <2>2, <2>3
<1>8. QED
  BY <1>2, <1>3, <1>4, <1>5, <1>6, <1>7

(* What a caller resumes was asked for in the suspended turn.               *)
LEMMA LoadForResumeKeeps ==
    ASSUME IInv, TypeOK', NEW a \in Agents, LoadForResume(a)
    PROVE  IInv'
<1>0. /\ agent[a] \in AgentState /\ WellFormed(agent[a]) /\ rev \in Nat
      /\ log \in Seq(TurnItem)
  BY DEF IInv, TypeOK
<1>1. PICK i \in PendingSuspension(log) :
          /\ Accepts(a, i)
          /\ Goto(a, [agent[a] EXCEPT
                 !.pc = IF agent[a].answer = "userInput" THEN "reply"
                                                         ELSE agent[a].answer,
                 !.base = rev, !.turn = log[i].turn, !.queue = <<log[i].call>>])
  BY DEF LoadForResume
<1> DEFINE pc == IF agent[a].answer = "userInput" THEN "reply" ELSE agent[a].answer
           s  == [agent[a] EXCEPT !.pc = pc, !.base = rev, !.turn = log[i].turn,
                                  !.queue = <<log[i].call>>]
<1>2. pc # "exec"
  BY <1>1 DEF Accepts
<1>3. agent[a].mode = "none"
  BY <1>0 DEF LoadForResume, Loading, WellFormed
<1>4. Goto(a, s)
  BY <1>1
<1> HIDE DEF pc
<1>5. /\ s.pc = pc /\ s.base = rev /\ s.turn = log[i].turn /\ s.queue = <<log[i].call>>
      /\ s.mode = "none"
  BY <1>0, <1>3 DEF AgentState
<1> HIDE DEF s
<1>6. RequestedIn(log, log[i].turn, log[i].call)
  BY DEF PendingSuspension, IInv, MarkersRequested, RequestedIn
<1>7. Knows(s, log)
  BY <1>5, <1>6 DEF Knows, QueueRequested, RecoveryQueue, LiveQueue
<1>8. UNCHANGED <<rev, log, runs, approvals>>
  BY DEF LoadForResume
<1>9. QED
  BY <1>0, <1>2, <1>4, <1>5, <1>7, <1>8, StillStep

(* What recovery takes up was asked for by the turn's last response.        *)
LEMMA PendingRequested ==
    ASSUME NEW items, NEW t, NEW q \in PendingLists(items, t)
    PROVE  \A k \in DOMAIN q :
               \E r \in LastCallResponse(items, t) : Requests(items, r, q[k])
<1>1. CASE CallResponses(items, t) = {}
  BY <1>1 DEF PendingLists
<1>2. ASSUME NEW r \in LastCallResponse(items, t), q \in PendingAfter(items, t, r),
             NEW k \in DOMAIN q
      PROVE  Requests(items, r, q[k])
  <2> DEFINE calls   == items[r].calls
             pending == {n \in DOMAIN calls : ~AnsweredSince(items, t, r, calls[n])}
  <2>1. PICK at \in [DOMAIN q -> pending] : \A n \in DOMAIN q : q[n] = calls[at[n]]
    BY <1>2 DEF PendingAfter
  <2>2. at[k] \in DOMAIN calls /\ q[k] = calls[at[k]]
    BY <2>1
  <2>3. items[r].kind = "response"
    BY DEF LastCallResponse, CallResponses
  <2>4. QED
    BY <2>2, <2>3 DEF Requests
<1>3. QED
  BY <1>1, <1>2 DEF PendingLists

LEMMA LoadForRecoverKeeps ==
    ASSUME IInv, TypeOK', NEW a \in Agents, LoadForRecover(a)
    PROVE  IInv'
<1>0. agent[a] \in AgentState /\ rev \in Nat
  BY DEF IInv, TypeOK
<1>1. PICK t \in ActiveTurn(status) : \E q \in PendingLists(log, t) :
          Goto(a, [agent[a] EXCEPT !.pc = "recover", !.base = rev, !.turn = t,
                                   !.mode = "recover", !.queue = q])
  BY DEF LoadForRecover
<1>2. PICK q \in PendingLists(log, t) :
          Goto(a, [agent[a] EXCEPT !.pc = "recover", !.base = rev, !.turn = t,
                                   !.mode = "recover", !.queue = q])
  BY <1>1
<1> DEFINE s == [agent[a] EXCEPT !.pc = "recover", !.base = rev, !.turn = t,
                                 !.mode = "recover", !.queue = q]
<1>3. Goto(a, s)
  BY <1>2
<1>4. s.pc = "recover" /\ s.base = rev /\ s.turn = t /\ s.mode = "recover" /\ s.queue = q
  BY <1>0 DEF AgentState
<1> HIDE DEF s
<1>5. \A k \in DOMAIN q : \E r \in LastCallResponse(log, t) : Requests(log, r, q[k])
  BY PendingRequested
<1>6. \A k \in DOMAIN q : RequestedIn(log, t, q[k])
  BY <1>5 DEF RequestedIn, LastCallResponse, CallResponses
<1>7. Knows(s, log)
  BY <1>4, <1>5, <1>6 DEF Knows, QueueRequested, RecoveryQueue, LiveQueue
<1>8. UNCHANGED <<rev, log, runs, approvals>>
  BY DEF LoadForRecover
<1>9. QED
  BY <1>0, <1>3, <1>4, <1>7, <1>8, StillStep

-----------------------------------------------------------------------------
(* Commits that give no permit and leave no queue.                          *)

LEMMA LastCommit ==
    ASSUME IInv, TypeOK', NEW a \in Agents, NEW more \in Seq(TurnItem), Quiet(log, more),
           NEW next \in AgentState, next.pc # "exec", next.queue = <<>>,
           CommitAndGoto(a, more, next), UNCHANGED <<runs, approvals>>
    PROVE  IInv'
  BY CommitGoto, QuietCommit

LEMMA LastClose ==
    ASSUME IInv, TypeOK', NEW a \in Agents, NEW more \in Seq(TurnItem), Quiet(log, more),
           NEW kind, CloseTurn(a, more, kind)
    PROVE  IInv'
<1>1. Goto(a, Idle) /\ Persist(a, more) /\ UNCHANGED <<runs, approvals>>
  BY DEF CloseTurn, Return
<1>2. QED
  BY <1>1, IdleKnows, QuietCommit

LEMMA OnePlain ==
    ASSUME NEW items, NEW item, Plain(item)
    PROVE  Quiet(items, <<item>>)
  BY PlainQuiet

(* The call at the head of an up-to-date agent's queue was asked for in     *)
(* its turn.                                                                *)
LEMMA CurrentRequested ==
    ASSUME IInv, NEW a \in Agents, agent[a].base = rev, agent[a].queue # <<>>
    PROVE  RequestedIn(log, agent[a].turn, Current(a))
<1>1. agent[a].queue \in Seq(Calls)
  BY DEF IInv, TypeOK, AgentState
<1>2. 1 \in DOMAIN agent[a].queue /\ Current(a) = agent[a].queue[1]
  BY <1>1 DEF Current
<1>3. QED
  BY <1>2 DEF IInv, Copies, Knows, QueueRequested

LEMMA TurnEnds ==
    ASSUME IInv, TypeOK', NEW a \in Agents,
           \/ OpenTurn(a) \/ IterationsExhausted(a) \/ AbortModel(a) \/ ModelFails(a)
           \/ ModelAnswers(a) \/ LimitReached(a) \/ FinishTurn(a)
    PROVE  IInv'
<1>0. Shape(a)
  BY Typed DEF IInv
<1>1. CASE OpenTurn(a)
  <2> DEFINE next == [agent[a] EXCEPT !.pc = "model", !.turn = Len(status) + 1]
             item == UserInput(Len(status) + 1, 0)
  <2>1. agent[a].queue = <<>>
    BY <1>0, <1>1 DEF OpenTurn, Shape, WellFormed
  <2>2. next \in AgentState /\ next.pc # "exec" /\ next.queue = <<>>
    BY <1>0, <2>1 DEF Shape, AgentState, PC
  <2>3. <<item>> \in Seq(TurnItem) /\ Quiet(log, <<item>>)
    BY <1>0, Appended, PlainItems, OnePlain DEF Shape
  <2>4. CommitAndGoto(a, <<item>>, next) /\ UNCHANGED <<runs, approvals>>
    BY <1>1 DEF OpenTurn
  <2>5. QED
    BY <2>2, <2>3, <2>4, LastCommit
<1>2. CASE IterationsExhausted(a) \/ ModelFails(a)
  <2>1. /\ <<TurnFailed(agent[a].turn)>> \in Seq(TurnItem)
        /\ Quiet(log, <<TurnFailed(agent[a].turn)>>)
    BY <1>0, Appended, PlainItems, OnePlain DEF Shape
  <2>2. QED
    BY <1>2, <2>1, LastClose DEF IterationsExhausted, ModelFails
<1>3. CASE AbortModel(a)
  <2>1. /\ <<TurnAborted(agent[a].turn)>> \in Seq(TurnItem)
        /\ Quiet(log, <<TurnAborted(agent[a].turn)>>)
    BY <1>0, Appended, PlainItems, OnePlain DEF Shape
  <2>2. QED
    BY <1>3, <2>1, LastClose DEF AbortModel
<1>4. CASE ModelAnswers(a)
  <2> DEFINE next == [agent[a] EXCEPT !.pc = "finish", !.result = "message"]
             item == ModelResponse(agent[a].turn, <<>>)
  <2>1. agent[a].queue = <<>>
    BY <1>0, <1>4 DEF ModelAnswers, Asking, Shape, WellFormed
  <2>2. next \in AgentState /\ next.pc # "exec" /\ next.queue = <<>>
    BY <1>0, <2>1, ZenonT(40) DEF Shape, AgentState, PC, Outcomes
  <2>3. <<item>> \in Seq(TurnItem) /\ Quiet(log, <<item>>)
    BY <1>0, Appended, PlainItems, OnePlain DEF Shape
  <2>4. CommitAndGoto(a, <<item>>, next) /\ UNCHANGED <<runs, approvals>>
    BY <1>4 DEF ModelAnswers
  <2>5. QED
    BY <2>2, <2>3, <2>4, LastCommit
<1>5. CASE LimitReached(a)
  <2> DEFINE next == [agent[a] EXCEPT !.pc = "finish", !.result = "failed", !.queue = <<>>]
             outs == OutputsFor(agent[a].turn, agent[a].queue, "skipped")
             item == TurnFailed(agent[a].turn)
  <2>1. next \in AgentState /\ next.pc # "exec" /\ next.queue = <<>>
    BY <1>0, ZenonT(40) DEF Shape, AgentState, PC, Outcomes
  <2>2. outs \in Seq(TurnItem) /\ item \in TurnItem
    BY <1>0, OutputsForType, EndTypes DEF Shape, ToolResult
  <2>3. (\A j \in DOMAIN outs : Plain(outs[j])) /\ Plain(item)
    BY PlainItems
  <2>4. CommitAndGoto(a, Append(outs, item), next) /\ UNCHANGED <<runs, approvals>>
    BY <1>5 DEF LimitReached
  <2> HIDE DEF next, outs, item
  <2>5. Append(outs, item) \in Seq(TurnItem)
    BY <2>2, AppendType
  <2>6. \A j \in DOMAIN Append(outs, item) : Plain(Append(outs, item)[j])
    BY <2>2, <2>3
  <2>7. QED
    BY <2>1, <2>4, <2>5, <2>6, PlainQuiet, LastCommit
<1>6. CASE FinishTurn(a)
  <2>1. Goto(a, Idle) /\ Persist(a, <<>>) /\ UNCHANGED <<runs, approvals>>
    BY <1>6 DEF FinishTurn, Return
  <2>2. <<>> \in Seq(TurnItem) /\ Quiet(log, <<>>)
    BY DEF Quiet
  <2>3. QED
    BY <2>1, <2>2, IdleKnows, QuietCommit
<1>7. QED
  BY <1>1, <1>2, <1>3, <1>4, <1>5, <1>6

LEMMA SettleKeeps ==
    ASSUME IInv, TypeOK', NEW a \in Agents,
           \/ ReplyToSuspension(a) \/ DenySuspended(a)
           \/ /\ agent[a].mode = "approve"
              /\ \E result \in {"success", "error"} : AnswerCall(a, result)
    PROVE  IInv'
<1>0. Shape(a)
  BY Typed DEF IInv
<1>1. /\ Continued(a) \in AgentState /\ Continued(a).pc # "exec"
      /\ Continued(a).queue = <<>>
  BY <1>0, ZenonT(40) DEF Continued, Shape, AgentState, PC
<1>2. CASE ReplyToSuspension(a)
  <2> DEFINE item == UserInput(agent[a].turn, agent[a].sid)
  <2>1. <<item>> \in Seq(TurnItem) /\ Quiet(log, <<item>>)
    BY <1>0, Appended, PlainItems, OnePlain DEF Shape
  <2>2. QED
    BY <1>1, <1>2, <2>1, LastCommit DEF ReplyToSuspension
<1>3. ASSUME NEW result \in ToolResult, agent[a].queue # <<>>,
             CommitAndGoto(a, <<ToolOutput(agent[a].turn, Current(a), result)>>, Continued(a)),
             UNCHANGED <<runs, approvals>>
      PROVE  IInv'
  <2> DEFINE item == ToolOutput(agent[a].turn, Current(a), result)
  <2>1. <<item>> \in Seq(TurnItem) /\ Quiet(log, <<item>>)
    BY <1>0, <1>3, Appended, PlainItems, OnePlain DEF Shape
  <2>2. QED
    BY <1>1, <1>3, <2>1, LastCommit
<1>4. CASE DenySuspended(a)
  <2>1. agent[a].queue # <<>> /\ "denied" \in ToolResult
    BY <1>0, <1>4 DEF DenySuspended, Shape, WellFormed, ToolResult
  <2>2. QED
    BY <1>3, <1>4, <2>1 DEF DenySuspended
<1>5. ASSUME NEW result \in {"success", "error"}, agent[a].mode = "approve",
             AnswerCall(a, result)
      PROVE  IInv'
  <2>1. agent[a].queue # <<>> /\ result \in ToolResult
    BY <1>0, <1>5 DEF AnswerCall, Shape, WellFormed, ToolResult
  <2>2. QED
    BY <1>3, <1>5, <2>1 DEF AnswerCall
<1>6. QED
  BY <1>2, <1>4, <1>5

LEMMA SuspendKeeps ==
    ASSUME IInv, TypeOK', NEW a \in Agents,
           \/ SuspendRecovery(a)
           \/ \E executed, deferred \in BOOLEAN : SuspendCall(a, executed, deferred)
    PROVE  IInv'
<1>0. Shape(a)
  BY Typed DEF IInv
<1> DEFINE t    == agent[a].turn
           next == [agent[a] EXCEPT !.pc = "finish", !.result = "suspended",
                                    !.newSid = rev + 1, !.queue = <<>>]
<1>1. next \in AgentState /\ next.pc # "exec" /\ next.queue = <<>>
  <2>1. next \in AgentState
    BY <1>0, ParkedShape DEF Shape
  <2>2. next.pc = "finish" /\ next.queue = <<>>
    BY <1>0 DEF Shape, AgentState
  <2> QED
    BY <2>1, <2>2
<1> DEFINE susp(d) == Suspension(t, rev + 1, Current(a), d)
<1>2. ASSUME NEW deferred \in BOOLEAN, agent[a].queue # <<>>, agent[a].base = rev
      PROVE  /\ susp(deferred) \in TurnItem
             /\ susp(deferred).kind = "suspension"
             /\ RequestedIn(log, susp(deferred).turn, susp(deferred).call)
  <2>1. RequestedIn(log, t, Current(a))
    BY <1>2, CurrentRequested
  <2>2. susp(deferred) \in TurnItem
    BY <1>0, <1>2, ItemTypes DEF Shape
  <2>3. QED
    BY <2>1, <2>2 DEF Suspension
<1>3. CASE SuspendRecovery(a)
  <2> DEFINE item == susp(TRUE)
  <2>1. agent[a].queue # <<>> /\ agent[a].base = rev
    BY <1>3 DEF SuspendRecovery, CommitAndGoto, Persist
  <2>2. /\ item \in TurnItem /\ item.kind = "suspension"
        /\ RequestedIn(log, item.turn, item.call)
    BY <1>2, <2>1
  <2>3. CommitAndGoto(a, <<item>>, next) /\ UNCHANGED <<runs, approvals>>
    BY <1>3 DEF SuspendRecovery
  <2> HIDE DEF item, next
  <2>4. <<item>> \in Seq(TurnItem) /\ Quiet(log, <<item>>)
    BY <2>2 DEF Quiet
  <2>5. QED
    BY <1>1, <2>3, <2>4, LastCommit
<1>4. ASSUME NEW executed \in BOOLEAN, NEW deferred \in BOOLEAN,
             SuspendCall(a, executed, deferred)
      PROVE  IInv'
  <2> DEFINE item   == susp(deferred)
             output == IF executed /\ agent[a].mode = "live"
                       THEN <<ToolOutput(t, Current(a), "success")>> ELSE <<>>
             rest   == OutputsFor(t, Tail(agent[a].queue), "skipped")
             more   == output \o <<item>> \o rest
  <2>1. agent[a].queue # <<>> /\ agent[a].base = rev
    BY <1>0, <1>4 DEF SuspendCall, CommitAndGoto, Persist, Shape, WellFormed
  <2>2. /\ output \in Seq(TurnItem) /\ \A j \in DOMAIN output : Plain(output[j])
    <3>1. ToolOutput(t, Current(a), "success") \in TurnItem
      BY <1>0, <2>1, ItemTypes DEF Shape, ToolResult
    <3>2. Plain(ToolOutput(t, Current(a), "success"))
      BY PlainItems
    <3>3. QED
      BY <3>1, <3>2
  <2>3. /\ rest \in Seq(TurnItem) /\ \A j \in DOMAIN rest : Plain(rest[j])
    BY <1>0, <2>1, OutputsForType, PlainItems DEF Shape, ToolResult
  <2>4. /\ item \in TurnItem /\ item.kind = "suspension"
        /\ RequestedIn(log, item.turn, item.call)
    BY <1>2, <2>1
  <2>5. CommitAndGoto(a, more, next) /\ UNCHANGED <<runs, approvals>>
    BY <1>4 DEF SuspendCall
  <2> HIDE DEF item, output, rest, next
  <2>6. more \in Seq(TurnItem)
    BY <2>2, <2>3, <2>4
  <2>7. \A j \in DOMAIN more : Plain(more[j]) \/ more[j] = item
    BY <2>2, <2>3, <2>4
  <2>8. Quiet(log, more)
    BY <2>4, <2>7 DEF Quiet, Plain
  <2>9. QED
    BY <1>1, <2>5, <2>6, <2>8, LastCommit
<1>5. QED
  BY <1>3, <1>4

LEMMA AbortCallKeeps ==
    ASSUME IInv, TypeOK', NEW a \in Agents, AbortCall(a)
    PROVE  IInv'
<1>0. Shape(a)
  BY Typed DEF IInv
<1> DEFINE item == TurnAborted(agent[a].turn)
           rest == OutputsFor(agent[a].turn, agent[a].queue, "aborted")
           more == <<item>> \o rest
           next == [agent[a] EXCEPT !.pc = "finish", !.result = "aborted", !.queue = <<>>]
<1>1. next \in AgentState /\ next.pc # "exec" /\ next.queue = <<>>
  BY <1>0 DEF Shape, AgentState, PC, Outcomes
<1>2. item \in TurnItem /\ rest \in Seq(TurnItem)
  BY <1>0, EndTypes, OutputsForType DEF Shape, ToolResult
<1>3. Plain(item) /\ \A j \in DOMAIN rest : Plain(rest[j])
  BY PlainItems
<1>4. \/ CommitAndGoto(a, more, next) /\ UNCHANGED <<runs, approvals>>
      \/ CloseTurn(a, more, "aborted")
  BY DEF AbortCall
<1> HIDE DEF item, rest, next
<1>5. more \in Seq(TurnItem) /\ \A j \in DOMAIN more : Plain(more[j])
  BY <1>2, <1>3
<1>6. Quiet(log, more)
  BY <1>5, PlainQuiet
<1>7. QED
  BY <1>1, <1>4, <1>5, <1>6, LastCommit, LastClose

-----------------------------------------------------------------------------
(* Steps that keep part of a queue.                                         *)

(* What an agent knows after a quiet commit by which it keeps its queue     *)
(* from position 1 + d on.                                                  *)
LEMMA KnowsKept ==
    ASSUME NEW items \in Seq(TurnItem), NEW more \in Seq(TurnItem), Quiet(items, more),
           NEW s, NEW next, Knows(s, items), next.turn = s.turn, next.mode = s.mode,
           NEW d \in {0, 1},
           \A k \in DOMAIN next.queue : /\ k \in Nat /\ k + d \in DOMAIN s.queue
                                        /\ next.queue[k] = s.queue[k + d],
           s.mode = "live" =>
               \A k \in DOMAIN next.queue : k > 1 \/ next.pc = "calls" =>
                   Markers(items \o more, next.queue[k]) = {}
    PROVE  Knows(next, items \o more)
<1>1. QueueRequested(next, items \o more)
  BY RequestedKept DEF Knows, QueueRequested
<1>2. RecoveryQueue(next, items \o more)
  <2> SUFFICES ASSUME next.mode = "recover", NEW k \in DOMAIN next.queue
               PROVE  \E r \in LastCallResponse(items \o more, next.turn) :
                          Requests(items \o more, r, next.queue[k])
    BY DEF RecoveryQueue
  <2>1. PICK r \in LastCallResponse(items, s.turn) : Requests(items, r, s.queue[k + d])
    BY DEF Knows, RecoveryQueue
  <2>2. r \in DOMAIN items
    BY DEF LastCallResponse, CallResponses
  <2>3. Requests(items \o more, r, next.queue[k])
    BY <2>1, <2>2, RequestsKept
  <2>4. QED
    BY <2>3, QuietKeepsLast
<1>3. LiveQueue(next, items \o more)
  <2> SUFFICES ASSUME next.mode = "live", NEW k \in DOMAIN next.queue
               PROVE  \A l \in DOMAIN next.queue : next.queue[k] = next.queue[l] => k = l
    BY DEF LiveQueue
  <2>1. ASSUME NEW l \in DOMAIN next.queue, next.queue[k] = next.queue[l]
        PROVE  k = l
    <3>1. s.queue[k + d] = s.queue[l + d] /\ k + d \in DOMAIN s.queue /\ l + d \in DOMAIN s.queue
      BY <2>1
    <3>2. k + d = l + d
      BY <3>1 DEF Knows, LiveQueue
    <3>3. QED
      BY <3>2
  <2>2. QED
    BY <2>1
<1>4. QED
  BY <1>1, <1>2, <1>3 DEF Knows

LEMMA TailIndices ==
    ASSUME NEW q \in Seq(Calls), q # <<>>
    PROVE  \A k \in DOMAIN Tail(q) : /\ k \in Nat /\ k >= 1 /\ k + 1 \in DOMAIN q
                                     /\ Tail(q)[k] = q[k + 1]
  OBVIOUS

(* A call gets its output and the agent turns to the next one.              *)
LEMMA AdvanceKeeps ==
    ASSUME IInv, TypeOK', NEW a \in Agents,
           \/ HookRejects(a)
           \/ /\ agent[a].mode # "approve"
              /\ \E result \in {"success", "error"} : AnswerCall(a, result)
    PROVE  IInv'
<1>0. Shape(a)
  BY Typed DEF IInv
<1>1. /\ agent[a].queue # <<>> /\ agent[a].mode \in {"live", "recover"}
      /\ agent[a].mode = "live" => agent[a].admit > 0
  BY <1>0 DEF HookRejects, AnswerCall, Shape, WellFormed, AgentState
<1>2. PICK result \in {"success", "error"} :
          /\ CommitAndGoto(a, <<ToolOutput(agent[a].turn, Current(a), result)>>, Advanced(a))
          /\ UNCHANGED <<runs, approvals>>
  BY DEF HookRejects, AnswerCall
<1> DEFINE item == ToolOutput(agent[a].turn, Current(a), result)
           s    == [Advanced(a) EXCEPT !.base = rev + 1]
<1>3. Advanced(a) \in AgentState
  BY <1>1, AdvancedType DEF IInv
<1>4. /\ Persist(a, <<item>>) /\ Goto(a, s)
      /\ s.base = rev + 1 /\ s.pc = Advanced(a).pc /\ s.mode = Advanced(a).mode
      /\ s.turn = Advanced(a).turn /\ s.queue = Advanced(a).queue
  BY <1>2, <1>3, CommitGoto
<1>5. /\ Advanced(a).pc # "exec" /\ Advanced(a).mode = agent[a].mode
      /\ Advanced(a).turn = agent[a].turn /\ Advanced(a).queue = Tail(agent[a].queue)
  BY <1>0 DEF Advanced, Shape, AgentState
<1>6. <<item>> \in Seq(TurnItem) /\ Quiet(log, <<item>>) /\ item.kind = "output"
  BY <1>0, <1>1, Appended, PlainItems, OnePlain DEF Shape, ToolResult, ToolOutput
<1> HIDE DEF item, s
<1>7. agent[a].base = rev /\ rev' = rev + 1 /\ log' = log \o <<item>>
  BY <1>4 DEF Persist
<1>8. log \in Seq(TurnItem) /\ RequestedOnce(log') /\ MarkersRequested(log')
  BY <1>6, <1>7, QuietKeepsLog DEF IInv, TypeOK
<1>9. Knows(s, log')
  <2>1. Knows(agent[a], log)
    BY <1>7 DEF IInv, Copies
  <2>2. \A k \in DOMAIN s.queue : /\ k \in Nat /\ k >= 1 /\ k + 1 \in DOMAIN agent[a].queue
                                  /\ s.queue[k] = agent[a].queue[k + 1]
    BY <1>0, <1>1, <1>4, <1>5, TailIndices DEF Shape
  <2>3. ASSUME agent[a].mode = "live", NEW k \in DOMAIN s.queue
        PROVE  Markers(log', s.queue[k]) = {}
    <3>0. k + 1 > 1 /\ k + 1 \in DOMAIN agent[a].queue
      BY <2>2, <2>3
    <3>1. Markers(log, agent[a].queue[k + 1]) = {}
      BY <2>1, <2>3, <3>0 DEF Knows, LiveQueue
    <3>2. \A j \in DOMAIN <<item>> : <<item>>[j].kind # "started"
      BY <1>6
    <3>3. Markers(log \o <<item>>, s.queue[k]) = Markers(log, s.queue[k])
      BY <1>6, <1>8, <3>2, MarkersGrow
    <3>4. QED
      BY <1>7, <2>2, <2>3, <3>1, <3>3
  <2>4. QED
    BY <1>4, <1>5, <1>6, <1>7, <1>8, <2>1, <2>2, <2>3, KnowsKept
<1>10. s.base <= rev' /\ s.pc # "exec"
  BY <1>0, <1>4, <1>5, <1>7 DEF Shape
<1>11. QED
  BY <1>2, <1>4, <1>6, <1>7, <1>8, <1>9, <1>10, CommitKept

(* Agent a keeps queue, turn and mode while nothing durable changes.        *)
LEMMA KnowsSame ==
    ASSUME NEW items, NEW s, NEW next, Knows(s, items),
           next.queue = s.queue, next.turn = s.turn, next.mode = s.mode,
           next.pc = "calls" => s.pc = "calls"
    PROVE  Knows(next, items)
  BY DEF Knows, QueueRequested, RecoveryQueue, LiveQueue

LEMMA AbortKeeps ==
    ASSUME IInv, TypeOK', NEW a \in Agents, Abort(a)
    PROVE  IInv'
<1> DEFINE s == [agent[a] EXCEPT !.abort = TRUE]
<1>0. agent[a] \in AgentState /\ agent \in [Agents -> AgentState]
  BY DEF IInv, TypeOK
<1>1. Goto(a, s)
  BY DEF Abort, Goto
<1>2. /\ s.pc = agent[a].pc /\ s.queue = agent[a].queue /\ s.turn = agent[a].turn
      /\ s.mode = agent[a].mode /\ s.base = agent[a].base
  BY <1>0 DEF AgentState
<1> HIDE DEF s
<1>3. UNCHANGED <<rev, log, runs, approvals>>
  BY DEF Abort
<1>4. s.base <= rev /\ (s.base = rev => Knows(s, log))
  BY <1>2, KnowsSame DEF IInv, Copies
<1>5. \A b \in Agents : /\ agent'[b].base <= rev'
                        /\ agent'[b].base = rev' => Knows(agent'[b], log')
  BY <1>1, <1>3, <1>4, CopiesAfter
<1>6. \A b \in Agents : agent'[b].pc = agent[b].pc /\ agent'[b].queue = agent[b].queue
  BY <1>0, <1>1, <1>2 DEF Goto
<1>7. \A c : Permits(c)' = Permits(c)
  BY <1>6 DEF Permits, Current
<1>8. Accounting'
  BY <1>3, <1>7 DEF IInv, Accounting, Markers
<1>9. QED
  BY <1>3, <1>5, <1>8 DEF IInv, Copies

-----------------------------------------------------------------------------
(* Permits used and given.                                                  *)

LEMMA EnterKeeps ==
    ASSUME IInv, TypeOK', NEW a \in Agents, EnterFunction(a)
    PROVE  IInv'
<1> DEFINE s == [agent[a] EXCEPT !.pc = "running"]
<1>0. /\ agent[a] \in AgentState /\ agent \in [Agents -> AgentState]
      /\ runs \in [Calls -> Nat] /\ approvals \in [Calls -> Nat]
  BY DEF IInv, TypeOK
<1>1. Goto(a, s)
  BY DEF EnterFunction, Goto
<1>2. /\ s.pc = "running" /\ s.queue = agent[a].queue /\ s.turn = agent[a].turn
      /\ s.mode = agent[a].mode /\ s.base = agent[a].base
  BY <1>0 DEF AgentState
<1> HIDE DEF s
<1>3. UNCHANGED <<rev, log, approvals>> /\ runs' = [runs EXCEPT ![Current(a)] = @ + 1]
  BY DEF EnterFunction
<1>4. s.base <= rev /\ (s.base = rev => Knows(s, log))
  BY <1>2, KnowsSame DEF IInv, Copies
<1>5. \A b \in Agents : /\ agent'[b].base <= rev'
                        /\ agent'[b].base = rev' => Knows(agent'[b], log')
  BY <1>1, <1>3, <1>4, CopiesAfter
<1>6. ASSUME NEW c \in NonIdempotent
      PROVE  runs'[c] + Cardinality(Permits(c)')
                 <= approvals'[c] + (IF Markers(log', c) = {} THEN 0 ELSE 1)
  <2>1. runs[c] \in Nat /\ approvals[c] \in Nat /\ Cardinality(Permits(c)) \in Nat
    BY <1>0, CallsOk, PermitsFinite
  <2>2. Cardinality(Permits(c)') =
            Cardinality(Permits(c)) - (IF a \in Permits(c) THEN 1 ELSE 0)
    BY <1>1, <1>2, PermitsCount DEF IInv
  <2>3. a \in Permits(c) <=> Current(a) = c
    BY DEF EnterFunction, Permits
  <2>4. runs'[c] = IF Current(a) = c THEN runs[c] + 1 ELSE runs[c]
    BY <1>0, <1>3, CallsOk
  <2>5. runs[c] + Cardinality(Permits(c))
            <= approvals[c] + (IF Markers(log, c) = {} THEN 0 ELSE 1)
    BY DEF IInv, Accounting
  <2>6. approvals'[c] = approvals[c] /\ Markers(log', c) = Markers(log, c)
    BY <1>3
  <2>7. QED
    BY <2>1, <2>2, <2>3, <2>4, <2>5, <2>6
<1>7. Accounting'
  BY <1>6 DEF Accounting
<1>8. QED
  BY <1>3, <1>5, <1>7 DEF IInv, Copies

(* A start marker is committed and a permit given: with an approval, or for *)
(* a call that had no marker.                                               *)
LEMMA MarkerStep ==
    ASSUME IInv, TypeOK', NEW a \in Agents, NEW next \in AgentState,
           agent[a].queue # <<>>, agent[a].pc # "exec", next.pc = "exec",
           next.queue = agent[a].queue, next.turn = agent[a].turn,
           next.mode \in {agent[a].mode, "approve"},
           CommitAndGoto(a, <<CallStarted(agent[a].turn, Current(a))>>, next),
           runs' = runs,
           \/ approvals' = [approvals EXCEPT ![Current(a)] = @ + 1]
           \/ /\ approvals' = approvals
              /\ Current(a) \in NonIdempotent => Markers(log, Current(a)) = {}
    PROVE  IInv'
<1>0. Shape(a)
  BY Typed DEF IInv
<1> DEFINE item == CallStarted(agent[a].turn, Current(a))
           s    == [next EXCEPT !.base = rev + 1]
<1>1. /\ Persist(a, <<item>>) /\ Goto(a, s)
      /\ s.base = rev + 1 /\ s.pc = "exec" /\ s.mode = next.mode
      /\ s.turn = agent[a].turn /\ s.queue = agent[a].queue
  BY CommitGoto
<1>2. /\ <<item>> \in Seq(TurnItem)
      /\ item.kind = "started" /\ item.turn = agent[a].turn /\ item.call = Current(a)
  BY <1>0, Appended DEF Shape, CallStarted
<1> HIDE DEF item, s
<1>3. agent[a].base = rev /\ rev' = rev + 1 /\ log' = log \o <<item>> /\ rev \in Nat
  BY <1>0, <1>1 DEF Persist, Shape
<1>4. Quiet(log, <<item>>)
  <2>1. RequestedIn(log, agent[a].turn, Current(a))
    BY <1>3, CurrentRequested
  <2>2. QED
    BY <1>2, <2>1 DEF Quiet
<1>5. log \in Seq(TurnItem) /\ RequestedOnce(log') /\ MarkersRequested(log')
  BY <1>2, <1>3, <1>4, QuietKeepsLog DEF IInv, TypeOK
<1>6. Knows(s, log')
  <2>1. Knows(agent[a], log)
    BY <1>3 DEF IInv, Copies
  <2>2. /\ DOMAIN agent[a].queue \subseteq Nat
        /\ 1 \in DOMAIN agent[a].queue /\ agent[a].queue[1] = Current(a)
    <3>1. agent[a].queue \in Seq(Calls)
      BY <1>0 DEF Shape
    <3>2. QED
      BY <3>1 DEF Current
  <2>3. CASE next.mode = agent[a].mode
    <3>1. ASSUME agent[a].mode = "live", NEW k \in DOMAIN s.queue, k > 1
          PROVE  Markers(log', s.queue[k]) = {}
      <4>1. Markers(log, s.queue[k]) = {}
        BY <1>1, <2>1, <3>1 DEF Knows, LiveQueue
      <4>2. s.queue[k] # Current(a)
        BY <1>1, <2>1, <2>2, <3>1 DEF Knows, LiveQueue
      <4>3. \A j \in DOMAIN <<item>> : <<item>>[j].call # s.queue[k]
        BY <1>2, <4>2
      <4>4. QED
        BY <1>2, <1>3, <1>5, <4>1, <4>3, MarkersGrow
    <3>2. \A k \in DOMAIN s.queue : /\ k \in Nat /\ k + 0 \in DOMAIN agent[a].queue
                                    /\ s.queue[k] = agent[a].queue[k + 0]
      BY <1>1, <2>2
    <3>3. QED
      BY <1>1, <1>2, <1>3, <1>4, <1>5, <2>1, <2>3, <3>1, <3>2, KnowsKept
  <2>4. CASE next.mode = "approve"
    <3>1. QueueRequested(s, log')
      BY <1>1, <1>2, <1>3, <1>5, <2>1, RequestedKept DEF Knows, QueueRequested
    <3>2. QED
      BY <1>1, <2>4, <3>1 DEF Knows, RecoveryQueue, LiveQueue
  <2>5. QED
    BY <2>3, <2>4
<1>7. \A b \in Agents : /\ agent'[b].base <= rev'
                        /\ agent'[b].base = rev' => Knows(agent'[b], log')
  <2>1. s.base <= rev'
    BY <1>1, <1>3
  <2>2. QED
    BY <1>1, <1>3, <1>6, <2>1, CopiesAfter
<1>8. ASSUME NEW c \in NonIdempotent
      PROVE  runs'[c] + Cardinality(Permits(c)')
                 <= approvals'[c] + (IF Markers(log', c) = {} THEN 0 ELSE 1)
  <2>1. /\ runs'[c] = runs[c] /\ runs[c] \in Nat /\ approvals[c] \in Nat
        /\ Cardinality(Permits(c)) \in Nat /\ Cardinality(Permits(c)') \in Nat
    BY <1>0, <1>1, CallsOk, PermitsFinite, PermitsCount DEF Shape, IInv
  <2>2. runs[c] + Cardinality(Permits(c))
            <= approvals[c] + (IF Markers(log, c) = {} THEN 0 ELSE 1)
    BY DEF IInv, Accounting
  <2>3. Markers(log, c) # {} => Markers(log', c) # {}
    BY <1>2, <1>3, <1>5, MarkersGrow
  <2>4. CASE c # Current(a)
    <3>1. Head(s.queue) # c
      BY <1>1, <2>4 DEF Current
    <3>2. Cardinality(Permits(c)') <= Cardinality(Permits(c))
      BY <1>1, <2>1, <3>1, PermitsCount DEF IInv
    <3>3. approvals'[c] = approvals[c]
      BY <1>0, <2>4, CallsOk DEF Shape
    <3>4. QED
      BY <2>1, <2>2, <2>3, <3>2, <3>3
  <2>5. CASE c = Current(a)
    <3>1. Cardinality(Permits(c)') <= Cardinality(Permits(c)) + 1
      BY <1>1, PermitsCount DEF IInv
    <3>2. CASE approvals' = [approvals EXCEPT ![Current(a)] = @ + 1]
      <4>1. approvals'[c] = approvals[c] + 1
        BY <1>0, <2>5, <3>2, CallsOk DEF Shape
      <4>2. QED
        BY <2>1, <2>2, <2>3, <3>1, <4>1
    <3>3. CASE approvals' = approvals /\ Markers(log, c) = {}
      <4>1. Len(log) + 1 \in Markers(log', c)
        <5>1. 1 \in DOMAIN <<item>> /\ <<item>>[1] = item
          OBVIOUS
        <5>2. /\ Len(log) + 1 \in DOMAIN (log \o <<item>>)
              /\ (log \o <<item>>)[Len(log) + 1] = item
          BY <1>2, <1>5, <5>1, Extend
        <5>3. QED
          BY <1>2, <1>3, <2>5, <5>2 DEF Markers
      <4>2. QED
        BY <2>1, <2>2, <3>1, <3>3, <4>1
    <3>4. QED
      BY <2>5, <3>2, <3>3
  <2>6. QED
    BY <2>4, <2>5
<1>9. Accounting'
  BY <1>8 DEF Accounting
<1>10. QED
  BY <1>5, <1>7, <1>9 DEF IInv, Copies

LEMMA ApproveKeeps ==
    ASSUME IInv, TypeOK', NEW a \in Agents, ApproveSuspended(a)
    PROVE  IInv'
<1> DEFINE next == [agent[a] EXCEPT !.pc = "exec", !.mode = "approve"]
<1>1. agent[a] \in AgentState /\ agent[a].pc = "approve" /\ agent[a].queue # <<>>
  BY DEF IInv, TypeOK, WellFormed, ApproveSuspended
<1>2. /\ next \in AgentState /\ next.pc = "exec" /\ next.queue = agent[a].queue
      /\ next.turn = agent[a].turn /\ next.mode = "approve"
  BY <1>1 DEF AgentState, PC
<1>3. /\ CommitAndGoto(a, <<CallStarted(agent[a].turn, Current(a))>>, next)
      /\ approvals' = [approvals EXCEPT ![Current(a)] = @ + 1]
      /\ runs' = runs
  BY DEF ApproveSuspended
<1>4. QED
  BY <1>1, <1>2, <1>3, MarkerStep

(* The first call of a live batch has no marker yet.                        *)
LEMMA StartUnmarked ==
    ASSUME IInv, NEW a \in Agents, StartCall(a)
    PROVE  Markers(log, Current(a)) = {}
<1>1. /\ agent[a].base = rev /\ agent[a].pc = "calls" /\ agent[a].queue # <<>>
      /\ agent[a].mode = "live" /\ agent[a].queue \in Seq(Calls)
  BY DEF IInv, TypeOK, WellFormed, StartCall, AgentState, CommitAndGoto, Persist
<1>2. Knows(agent[a], log)
  BY <1>1 DEF IInv, Copies
<1>3. 1 \in DOMAIN agent[a].queue /\ agent[a].queue[1] = Current(a)
  BY <1>1 DEF Current
<1>4. QED
  BY <1>1, <1>2, <1>3 DEF Knows, LiveQueue

LEMMA StartKeeps ==
    ASSUME IInv, TypeOK', NEW a \in Agents, StartCall(a)
    PROVE  IInv'
<1> DEFINE next == [agent[a] EXCEPT !.pc = "exec"]
<1>1. /\ agent[a] \in AgentState /\ agent[a].pc = "calls" /\ agent[a].queue # <<>>
      /\ agent[a].mode = "live" /\ agent[a].queue \in Seq(Calls)
  BY DEF IInv, TypeOK, WellFormed, StartCall, AgentState
<1>2. /\ next \in AgentState /\ next.pc = "exec" /\ next.queue = agent[a].queue
      /\ next.turn = agent[a].turn /\ next.mode = agent[a].mode
  BY <1>1 DEF AgentState, PC
<1>3. /\ CommitAndGoto(a, <<CallStarted(agent[a].turn, Current(a))>>, next)
      /\ runs' = runs /\ approvals' = approvals
  BY DEF StartCall
<1>4. QED
  BY <1>1, <1>2, <1>3, StartUnmarked, MarkerStep

(* A call that recovery may repeat has no marker, if it is not idempotent:  *)
(* a marker would stand after the turn's last response, which asked for it. *)
LEMMA RetryUnmarked ==
    ASSUME IInv, NEW a \in Agents, RetryCall(a), Current(a) \in NonIdempotent
    PROVE  Markers(log, Current(a)) = {}
<1> DEFINE c == Current(a)
           t == agent[a].turn
<1>1. /\ agent[a].base = rev /\ agent[a].queue # <<>>
      /\ agent[a].mode = "recover" /\ agent[a].queue \in Seq(Calls)
  BY DEF IInv, TypeOK, WellFormed, RetryCall, AgentState, CommitAndGoto, Persist
<1>2. Knows(agent[a], log)
  BY <1>1 DEF IInv, Copies
<1>3. 1 \in DOMAIN agent[a].queue /\ agent[a].queue[1] = c
  BY <1>1 DEF Current
<1>4. PICK last \in LastCallResponse(log, t) : Requests(log, last, c)
  BY <1>1, <1>2, <1>3 DEF Knows, RecoveryQueue
<1>5. /\ last \in DOMAIN log /\ last \in Nat /\ log[last].turn = t
      /\ \A r \in LastCallResponse(log, t) : r = last
  <2>1. log \in Seq(TurnItem)
    BY DEF IInv, TypeOK
  <2>2. CallResponses(log, t) \subseteq Nat
    BY <2>1 DEF CallResponses
  <2>3. QED
    BY <2>2 DEF LastCallResponse, CallResponses
<1>6. ASSUME NEW i \in Markers(log, c) PROVE FALSE
  <2>1. i \in DOMAIN log /\ log[i].kind = "started" /\ log[i].call = c
    BY DEF Markers
  <2>2. PICK r \in DOMAIN log : r < i /\ log[r].turn = log[i].turn /\ Requests(log, r, c)
    BY <2>1 DEF IInv, MarkersRequested
  <2>3. c \in Calls
    BY CallsOk
  <2>4. r = last
    BY <1>4, <1>5, <2>2, <2>3 DEF IInv, RequestedOnce
  <2>5. StartedInTurn(log, t, c)
    BY <1>5, <2>1, <2>2, <2>4 DEF StartedInTurn
  <2>6. QED
    BY <2>5 DEF RetryCall, NeedsReconciliation
<1>7. QED
  BY <1>6

LEMMA RetryKeeps ==
    ASSUME IInv, TypeOK', NEW a \in Agents, RetryCall(a)
    PROVE  IInv'
<1> DEFINE next == [agent[a] EXCEPT !.pc = "exec"]
<1>1. /\ agent[a] \in AgentState /\ agent[a].pc = "recover" /\ agent[a].queue # <<>>
      /\ agent[a].mode = "recover" /\ agent[a].queue \in Seq(Calls)
  BY DEF IInv, TypeOK, WellFormed, RetryCall, AgentState
<1>2. /\ next \in AgentState /\ next.pc = "exec" /\ next.queue = agent[a].queue
      /\ next.turn = agent[a].turn /\ next.mode = agent[a].mode
  BY <1>1 DEF AgentState, PC
<1>3. /\ CommitAndGoto(a, <<CallStarted(agent[a].turn, Current(a))>>, next)
      /\ runs' = runs /\ approvals' = approvals
  BY DEF RetryCall
<1>4. QED
  BY <1>1, <1>2, <1>3, RetryUnmarked, MarkerStep

-----------------------------------------------------------------------------
(* New calls: never asked for before, so without a marker.                  *)

LEMMA ModelCallsKeeps ==
    ASSUME IInv, TypeOK', NEW a \in Agents, NEW batch \in Batches, ModelCalls(a, batch)
    PROVE  IInv'
<1>0. Shape(a) /\ log \in Seq(TurnItem)
  BY Typed DEF IInv, TypeOK
<1> DEFINE admit == Least(Len(batch), Remaining(a))
           next  == [agent[a] EXCEPT !.pc = "calls", !.mode = "live", !.queue = batch,
                                     !.admit = admit, !.count = @ + admit]
           s     == [next EXCEPT !.base = rev + 1]
           item  == ModelResponse(agent[a].turn, batch)
<1>1. batch \in Seq(Calls) /\ Len(batch) \in Nat
  BY BatchType
<1>2. admit \in Nat /\ agent[a].count + admit \in Nat
  BY <1>0, <1>1, AdmitType DEF Shape
<1>3. /\ next \in AgentState /\ next.pc = "calls" /\ next.queue = batch
      /\ next.turn = agent[a].turn /\ next.mode = "live"
  <2> HIDE DEF admit
  <2>1. QED
    BY <1>0, <1>1, <1>2 DEF Shape, AgentState, PC
<1>4. CommitAndGoto(a, <<item>>, next) /\ runs' = runs /\ approvals' = approvals
  BY DEF ModelCalls
<1> HIDE DEF next
<1>5. /\ Persist(a, <<item>>) /\ Goto(a, s)
      /\ s.base = rev + 1 /\ s.pc = "calls" /\ s.mode = "live"
      /\ s.turn = agent[a].turn /\ s.queue = batch
  BY <1>3, <1>4, CommitGoto
<1>6. /\ <<item>> \in Seq(TurnItem) /\ item \in TurnItem
      /\ item.kind = "response" /\ item.turn = agent[a].turn /\ item.calls = batch
  BY <1>0, <1>1, Appended, EndTypes DEF Shape, ModelResponse
<1> HIDE DEF s, item
<1> DEFINE all == log \o <<item>>
           new == Len(log) + 1
<1>7. rev' = rev + 1 /\ log' = all /\ rev \in Nat
  BY <1>0, <1>5 DEF Persist, Shape
<1>8. /\ new \in DOMAIN all /\ all[new] = item
      /\ \A i \in DOMAIN all : i # new => i \in DOMAIN log
      /\ \A i \in DOMAIN log : i \in DOMAIN all /\ all[i] = log[i] /\ i # new
  BY <1>0, <1>6
<1>9. \A r \in DOMAIN log : \A c : Requests(all, r, c) <=> Requests(log, r, c)
  BY <1>0, <1>6, RequestsKept
<1>10. \A k \in DOMAIN batch :
           /\ batch[k] \in Calls
           /\ \A r \in DOMAIN log : ~Requests(log, r, batch[k])
           /\ \A l \in DOMAIN batch : batch[k] = batch[l] => k = l
  <2>1. /\ \A k, l \in DOMAIN batch : batch[k] = batch[l] => k = l
        /\ \A k \in DOMAIN batch : batch[k] \in Calls \ Requested(log)
    BY DEF Batches
  <2>2. QED
    BY <2>1 DEF Requested, Requests
<1>11. RequestedOnce(all)
  <2> SUFFICES ASSUME NEW r \in DOMAIN all, NEW q \in DOMAIN all, NEW c \in Calls,
                      Requests(all, r, c), Requests(all, q, c)
               PROVE  r = q
    BY DEF RequestedOnce
  <2>1. \A i \in DOMAIN log : Requests(log, i, c) => ~Requests(all, new, c)
    BY <1>6, <1>8, <1>10 DEF Requests
  <2>2. CASE r = new \/ q = new
    BY <1>8, <1>9, <2>1, <2>2
  <2>3. CASE r # new /\ q # new
    BY <1>8, <1>9, <2>3 DEF IInv, RequestedOnce
  <2>4. QED
    BY <2>2, <2>3
<1>12. MarkersRequested(all)
  <2> SUFFICES ASSUME NEW i \in DOMAIN all, all[i].kind \in {"started", "suspension"}
               PROVE  \E r \in DOMAIN all :
                          /\ r < i /\ all[r].turn = all[i].turn
                          /\ Requests(all, r, all[i].call)
    BY DEF MarkersRequested
  <2>1. i \in DOMAIN log /\ all[i] = log[i]
    BY <1>6, <1>8
  <2>2. PICK r \in DOMAIN log :
            r < i /\ log[r].turn = log[i].turn /\ Requests(log, r, log[i].call)
    BY <2>1 DEF IInv, MarkersRequested
  <2>3. QED
    BY <1>8, <1>9, <2>1, <2>2
<1>13. Knows(s, all)
  <2>1. \A k \in DOMAIN batch : RequestedIn(all, agent[a].turn, batch[k])
    BY <1>6, <1>8 DEF RequestedIn, Requests
  <2>2. ASSUME NEW k \in DOMAIN batch PROVE Markers(all, batch[k]) = {}
    <3>1. ASSUME NEW i \in Markers(all, batch[k]) PROVE FALSE
      <4>1. i \in DOMAIN log /\ log[i].kind = "started" /\ log[i].call = batch[k]
        BY <1>6, <1>8, <3>1 DEF Markers
      <4>2. QED
        BY <1>10, <4>1 DEF IInv, MarkersRequested
    <3>2. QED
      BY <3>1
  <2>3. QED
    BY <1>5, <1>10, <2>1, <2>2 DEF Knows, QueueRequested, RecoveryQueue, LiveQueue
<1>14. s.base <= rev' /\ s.pc # "exec"
  BY <1>5, <1>7
<1>15. QED
  BY <1>4, <1>5, <1>6, <1>7, <1>11, <1>12, <1>13, <1>14, CommitKept

-----------------------------------------------------------------------------
(* The invariant and the theorem.                                           *)

LEMMA InductiveInit == Init => IInv
<1> SUFFICES ASSUME Init PROVE IInv
  OBVIOUS
<1>1. TypeOK
  BY TypeInit
<1>2. \A c : Permits(c) = {} /\ Markers(log, c) = {}
  BY DEF Init, Permits, Idle, Markers
<1>3. Accounting
  <2>1. \A c \in NonIdempotent : runs[c] = 0 /\ approvals[c] = 0
    BY CallsOk DEF Init
  <2>2. QED
    BY <1>2, <2>1, FS_EmptySet DEF Accounting
<1>4. RequestedOnce(log) /\ MarkersRequested(log)
  BY DEF Init, RequestedOnce, MarkersRequested
<1>5. Copies
  BY IdleKnows DEF Init, Copies
<1>6. QED
  BY <1>1, <1>3, <1>4, <1>5 DEF IInv

LEMMA InductiveNext == IInv /\ [Next]_vars => IInv'
<1> SUFFICES ASSUME IInv, [Next]_vars PROVE IInv'
  OBVIOUS
<1>0. TypeOK'
  BY TypeNext DEF IInv
<1>1. CASE UNCHANGED vars
  <2>1. \A c : Permits(c)' = Permits(c)
    BY <1>1 DEF vars, Permits, Current
  <2>2. QED
    BY <1>0, <1>1, <2>1 DEF vars, IInv, Accounting, Copies
<1>2. ASSUME NEW a \in Agents,
             \/ Caller(a) \/ Drop(a) \/ Acquire(a) \/ OwnStep(a)
             \/ FunctionReturns(a) \/ ModelReturns(a)
      PROVE  IInv'
  <2> USE <1>0
  <2>1. CASE Caller(a) \/ Drop(a)
    BY <2>1, CallerKeeps, AbortKeeps DEF Caller
  <2>2. CASE Acquire(a)
    BY <2>2, MoveKeeps
  <2>3. CASE OwnStep(a)
    <3>1. CASE \/ LoadForRun(a) \/ RecoveryDone(a) \/ BatchDone(a)
               \/ BuildRequest(a) \/ Refuse(a) \/ RevisionConflict(a)
      BY <3>1, MoveKeeps DEF RevisionConflict
    <3>2. CASE LoadForRecover(a) \/ LoadForResume(a)
      BY <3>2, LoadForRecoverKeeps, LoadForResumeKeeps
    <3>3. CASE \/ OpenTurn(a) \/ IterationsExhausted(a) \/ AbortModel(a)
               \/ LimitReached(a) \/ FinishTurn(a)
      BY <3>3, TurnEnds
    <3>4. CASE ReplyToSuspension(a) \/ DenySuspended(a)
      BY <3>4, SettleKeeps
    <3>5. CASE SuspendRecovery(a) \/ AbortCall(a) \/ HookRejects(a)
      BY <3>5, SuspendKeeps, AbortCallKeeps, AdvanceKeeps
    <3>6. CASE ApproveSuspended(a) \/ RetryCall(a) \/ StartCall(a) \/ EnterFunction(a)
      BY <3>6, ApproveKeeps, RetryKeeps, StartKeeps, EnterKeeps
    <3>7. QED
      BY <2>3, <3>1, <3>2, <3>3, <3>4, <3>5, <3>6 DEF OwnStep
  <2>4. CASE FunctionReturns(a)
    <3>1. CASE \E result \in {"success", "error"} : AnswerCall(a, result)
      BY <3>1, SettleKeeps, AdvanceKeeps
    <3>2. CASE \E executed, deferred \in BOOLEAN : SuspendCall(a, executed, deferred)
      BY <3>2, SuspendKeeps
    <3>3. CASE SuspendAgain(a) \/ LateFunctionReply(a)
      BY <3>3, MoveKeeps DEF LateFunctionReply
    <3>4. QED
      BY <2>4, <3>1, <3>2, <3>3 DEF FunctionReturns
  <2>5. CASE ModelReturns(a)
    BY <2>5, TurnEnds, MoveKeeps, ModelCallsKeeps DEF ModelReturns, LateModelReply
  <2>6. QED
    BY <1>2, <2>1, <2>2, <2>3, <2>4, <2>5
<1>3. QED
  BY <1>1, <1>2 DEF Next

(* IInv holds in every reachable state: permits, markers and approvals      *)
(* balance, and an agent with a current copy knows what its calls are.      *)
THEOREM Inductive == Spec => []IInv
  BY InductiveInit, InductiveNext, PTL DEF Spec

(* Whatever agents are lost, recover, resume or race, with or without a     *)
(* shared lease: a function that is not idempotent is entered at most once  *)
(* more often than a caller approved it (recover_turn, 511-516).            *)
THEOREM RerunsNeedApproval == Spec => []RerunsApproved
<1>1. IInv => RerunsApproved
  <2> SUFFICES ASSUME IInv, NEW c \in NonIdempotent PROVE runs[c] <= 1 + approvals[c]
    BY DEF RerunsApproved
  <2>1. runs[c] \in Nat /\ approvals[c] \in Nat /\ Cardinality(Permits(c)) \in Nat
    BY CallsOk, PermitsFinite DEF IInv, TypeOK
  <2>2. runs[c] + Cardinality(Permits(c))
            <= approvals[c] + (IF Markers(log, c) = {} THEN 0 ELSE 1)
    BY DEF IInv, Accounting
  <2>3. QED
    BY <2>1, <2>2
<1>2. QED
  BY <1>1, Inductive, PTL
=============================================================================
