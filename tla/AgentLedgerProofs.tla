-------------------------- MODULE AgentLedgerProofs --------------------------
(***************************************************************************)
(* LInv is inductive, for every value of AgentLoop's constants, and what    *)
(* follows from it.  First what appending to the log keeps of the ledger,   *)
(* then what a commit of each kind keeps of LInv, then the actions.  Last,  *)
(* the turn loop implements CallLedger: what each commit says of the calls  *)
(* is a step of theirs.                                                     *)
(***************************************************************************)
EXTENDS AgentLoopLedger, AgentLoopProofs

-----------------------------------------------------------------------------
(* Appending to a log.                                                      *)

LEMMA OutputsGrow ==
    ASSUME NEW items \in Seq(TurnItem), NEW more \in Seq(TurnItem), NEW c
    PROVE  /\ Outputs(items, c) \subseteq Outputs(items \o more, c)
           /\ Open(items \o more, c) => Open(items, c)
           /\ (\A j \in DOMAIN more : more[j].kind = "output" => more[j].call # c) =>
                  Outputs(items \o more, c) = Outputs(items, c)
<1>1. Outputs(items, c) \subseteq Outputs(items \o more, c)
  BY Extend DEF Outputs
<1>2. ASSUME \A j \in DOMAIN more : more[j].kind = "output" => more[j].call # c,
             NEW i \in Outputs(items \o more, c)
      PROVE  i \in Outputs(items, c)
  <2>1. i \in DOMAIN (items \o more)
    BY DEF Outputs
  <2>2. ASSUME i \notin DOMAIN items PROVE FALSE
    <3>1. PICK j \in DOMAIN more : (items \o more)[i] = more[j]
      BY <2>1, <2>2, Extend
    <3>2. QED
      BY <1>2, <3>1 DEF Outputs
  <2>3. QED
    BY <2>2, Extend DEF Outputs
<1>3. QED
  BY <1>1, <1>2 DEF Open

(* An output among what is appended answers its call.                       *)
LEMMA OutputAppended ==
    ASSUME NEW items \in Seq(TurnItem), NEW more \in Seq(TurnItem),
           NEW j \in DOMAIN more, more[j].kind = "output"
    PROVE  ~Open(items \o more, more[j].call)
<1>1. /\ Len(items) + j \in DOMAIN (items \o more)
      /\ (items \o more)[Len(items) + j] = more[j]
  BY Extend
<1>2. QED
  BY <1>1 DEF Open, Outputs

(* Markers added by what is appended are among it.                          *)
LEMMA MarkersFrom ==
    ASSUME NEW items \in Seq(TurnItem), NEW more \in Seq(TurnItem), NEW c,
           Markers(items, c) = {}, Markers(items \o more, c) # {}
    PROVE  \E j \in DOMAIN more : more[j].kind = "started" /\ more[j].call = c
<1>1. PICK i \in DOMAIN (items \o more) :
          (items \o more)[i].kind = "started" /\ (items \o more)[i].call = c
  BY DEF Markers
<1>2. i \notin DOMAIN items
  BY <1>1, Extend DEF Markers
<1>3. QED
  BY <1>1, <1>2, Extend

LEMMA CallsOfTurn ==
    ASSUME NEW items, NEW t, NEW c
    PROVE  c \in CallsOf(items, t) <=>
               \E r \in CallResponses(items, t) :
                   \E k \in DOMAIN items[r].calls : items[r].calls[k] = c
<1> DEFINE asked(r) == {items[r].calls[k] : k \in DOMAIN items[r].calls}
<1>1. CallsOf(items, t) = UNION {asked(r) : r \in CallResponses(items, t)}
  BY DEF CallsOf
<1>2. c \in CallsOf(items, t) <=> \E r \in CallResponses(items, t) : c \in asked(r)
  <2> HIDE DEF asked
  <2>1. QED
    BY <1>1
<1>3. QED
  BY <1>2

LEMMA SameCalls ==
    ASSUME NEW items, NEW all, NEW t, CallResponses(all, t) = CallResponses(items, t),
           \A i \in CallResponses(items, t) : all[i] = items[i]
    PROVE  CallsOf(all, t) = CallsOf(items, t)
<1>1. \A c : c \in CallsOf(all, t) <=> c \in CallsOf(items, t)
  BY CallsOfTurn
<1>2. QED
  BY <1>1

LEMMA QuietKeepsCalls ==
    ASSUME NEW items \in Seq(TurnItem), NEW more \in Seq(TurnItem), Quiet(items, more),
           NEW t
    PROVE  CallsOf(items \o more, t) = CallsOf(items, t)
<1>1. ASSUME NEW i \in DOMAIN (items \o more), i \notin DOMAIN items
      PROVE  i \notin CallResponses(items \o more, t)
  <2>1. PICK j \in DOMAIN more : (items \o more)[i] = more[j]
    BY <1>1, Extend
  <2>2. QED
    BY <2>1 DEF Quiet, CallResponses
<1>2. CallResponses(items \o more, t) = CallResponses(items, t)
  BY <1>1, Extend DEF CallResponses
<1>3. \A i \in CallResponses(items, t) : (items \o more)[i] = items[i]
  BY Extend DEF CallResponses
<1>4. QED
  BY <1>2, <1>3, SameCalls, Zenon

-----------------------------------------------------------------------------
(* What an orderly step appends.                                            *)

(* Every call before c in a batch is answered.                              *)
FirstOpen(items, c) ==
    \A r \in DOMAIN items :
        items[r].kind = "response" =>
            \A k, l \in DOMAIN items[r].calls :
                k < l /\ items[r].calls[l] = c => ~Open(items, items[r].calls[k])

OrderlyOutputs(items, more) ==
    /\ \A j \in DOMAIN more :
           more[j].kind = "output" =>
               /\ RequestedIn(items, more[j].turn, more[j].call)
               /\ Open(items, more[j].call)
               /\ more[j].result = "skipped" => Markers(items, more[j].call) = {}
    /\ \A i, j \in DOMAIN more :
           more[i].kind = "output" /\ more[j].kind = "output"
               /\ more[i].call = more[j].call => i = j

OrderlyMarkers(items, more) ==
    \A j \in DOMAIN more :
        more[j].kind = "started" =>
            /\ Open(items, more[j].call)
            /\ \A i \in DOMAIN more : more[i].kind # "output"
            /\ Markers(items, more[j].call) # {} \/ FirstOpen(items, more[j].call)

OrderlySuspensions(items, more) ==
    \A j \in DOMAIN more :
        more[j].kind = "suspension" =>
            /\ Markers(items, more[j].call) # {}
            /\ more[j].deferred =>
                   /\ Open(items, more[j].call)
                   /\ \A i \in DOMAIN more :
                          more[i].kind = "output" /\ more[i].call = more[j].call => j < i

Orderly(items, more) ==
    /\ Quiet(items, more) /\ OrderlyOutputs(items, more)
    /\ OrderlyMarkers(items, more) /\ OrderlySuspensions(items, more)

LEMMA OrderlyRequested ==
    ASSUME NEW items \in Seq(TurnItem), NEW more \in Seq(TurnItem),
           OrderlyOutputs(items, more), OutputsRequested(items)
    PROVE  OutputsRequested(items \o more)
<1> DEFINE all == items \o more
<1> SUFFICES ASSUME NEW i \in DOMAIN all, all[i].kind = "output"
             PROVE  \E r \in DOMAIN all :
                        r < i /\ all[r].turn = all[i].turn /\ Requests(all, r, all[i].call)
  BY DEF OutputsRequested
<1>1. CASE i \in DOMAIN items
  <2>1. all[i] = items[i]
    BY <1>1, Extend
  <2>2. PICK r \in DOMAIN items :
            r < i /\ items[r].turn = items[i].turn /\ Requests(items, r, items[i].call)
    BY <1>1, <2>1 DEF OutputsRequested
  <2>3. QED
    BY <2>1, <2>2, Extend, RequestsKept
<1>2. CASE i \notin DOMAIN items
  <2>1. PICK j \in DOMAIN more : i = Len(items) + j /\ all[i] = more[j]
    BY <1>2, Extend
  <2>2. PICK r \in DOMAIN items :
            items[r].turn = more[j].turn /\ Requests(items, r, more[j].call)
    BY <2>1 DEF OrderlyOutputs, RequestedIn
  <2>3. r < i /\ r \in DOMAIN all /\ all[r] = items[r]
    BY <2>1, Extend
  <2>4. QED
    BY <2>1, <2>2, <2>3, RequestsKept
<1>3. QED
  BY <1>1, <1>2

LEMMA OrderlyOnce ==
    ASSUME NEW items \in Seq(TurnItem), NEW more \in Seq(TurnItem),
           OrderlyOutputs(items, more), OutputsOnce(items)
    PROVE  OutputsOnce(items \o more)
<1> DEFINE all == items \o more
<1> SUFFICES ASSUME NEW i \in DOMAIN all, NEW j \in DOMAIN all,
                    all[i].kind = "output", all[j].kind = "output",
                    all[i].call = all[j].call
             PROVE  i = j
  BY DEF OutputsOnce
<1>1. ASSUME NEW m \in DOMAIN all, NEW n \in DOMAIN all, m \in DOMAIN items,
             n \notin DOMAIN items, all[m].kind = "output", all[n].kind = "output"
      PROVE  all[m].call # all[n].call
  <2>1. PICK k \in DOMAIN more : all[n] = more[k]
    BY <1>1, Extend
  <2>2. Outputs(items, more[k].call) = {}
    BY <1>1, <2>1 DEF OrderlyOutputs, Open
  <2>3. all[m] = items[m]
    BY <1>1, Extend
  <2>4. QED
    BY <1>1, <2>1, <2>2, <2>3 DEF Outputs
<1>2. CASE i \in DOMAIN items /\ j \in DOMAIN items
  BY <1>2, Extend DEF OutputsOnce
<1>3. CASE i \notin DOMAIN items /\ j \notin DOMAIN items
  <2>1. PICK k \in DOMAIN more : i = Len(items) + k /\ all[i] = more[k]
    BY <1>3, Extend
  <2>2. PICK l \in DOMAIN more : j = Len(items) + l /\ all[j] = more[l]
    BY <1>3, Extend
  <2>3. k = l
    BY <2>1, <2>2 DEF OrderlyOutputs
  <2>4. QED
    BY <2>1, <2>2, <2>3
<1>4. QED
  BY <1>1, <1>2, <1>3

LEMMA OrderlySkipped ==
    ASSUME NEW items \in Seq(TurnItem), NEW more \in Seq(TurnItem),
           OrderlyOutputs(items, more), OrderlyMarkers(items, more), SkippedUnmarked(items)
    PROVE  SkippedUnmarked(items \o more)
<1> DEFINE all == items \o more
<1> SUFFICES ASSUME NEW i \in DOMAIN all, all[i].kind = "output",
                    all[i].result = "skipped", Markers(all, all[i].call) # {}
             PROVE  FALSE
  BY DEF SkippedUnmarked
<1>1. CASE i \in DOMAIN items
  <2>1. all[i] = items[i]
    BY <1>1, Extend
  <2>2. Markers(items, all[i].call) = {}
    BY <1>1, <2>1 DEF SkippedUnmarked
  <2>3. PICK j \in DOMAIN more : more[j].kind = "started" /\ more[j].call = all[i].call
    BY <2>2, MarkersFrom
  <2>4. Outputs(items, all[i].call) = {}
    BY <2>3 DEF OrderlyMarkers, Open
  <2>5. QED
    BY <1>1, <2>1, <2>4 DEF Outputs
<1>2. CASE i \notin DOMAIN items
  <2>1. PICK k \in DOMAIN more : all[i] = more[k]
    BY <1>2, Extend
  <2>2. Markers(items, more[k].call) = {} /\ Markers(all, more[k].call) # {}
    BY <2>1 DEF OrderlyOutputs
  <2>3. PICK j \in DOMAIN more : more[j].kind = "started" /\ more[j].call = more[k].call
    BY <2>2, MarkersFrom
  <2>4. more[k].kind # "output"
    BY <2>3 DEF OrderlyMarkers
  <2>5. QED
    BY <2>1, <2>4
<1>3. QED
  BY <1>1, <1>2

LEMMA OrderlySuspended ==
    ASSUME NEW items \in Seq(TurnItem), NEW more \in Seq(TurnItem),
           OrderlySuspensions(items, more), SuspensionsSound(items)
    PROVE  SuspensionsSound(items \o more)
<1> DEFINE all == items \o more
<1> SUFFICES ASSUME NEW i \in DOMAIN all, all[i].kind = "suspension"
             PROVE  /\ Markers(all, all[i].call) # {}
                    /\ all[i].deferred => \A j \in Outputs(all, all[i].call) : i < j
  BY DEF SuspensionsSound
<1>1. CASE i \in DOMAIN items
  <2>1. all[i] = items[i]
    BY <1>1, Extend
  <2>2. Markers(all, all[i].call) # {}
    BY <1>1, <2>1, MarkersGrow DEF SuspensionsSound
  <2>3. ASSUME all[i].deferred, NEW j \in Outputs(all, all[i].call) PROVE i < j
    <3>0. j \in DOMAIN all /\ all[j].kind = "output" /\ all[j].call = all[i].call
      BY DEF Outputs
    <3>1. CASE j \in DOMAIN items
      <4>1. j \in Outputs(items, items[i].call)
        BY <2>1, <3>0, <3>1, Extend DEF Outputs
      <4>2. QED
        BY <1>1, <2>1, <2>3, <4>1 DEF SuspensionsSound
    <3>2. CASE j \notin DOMAIN items
      BY <1>1, <3>0, <3>2, Extend
    <3>3. QED
      BY <3>1, <3>2
  <2>4. QED
    BY <2>2, <2>3
<1>2. CASE i \notin DOMAIN items
  <2>1. PICK k \in DOMAIN more : i = Len(items) + k /\ all[i] = more[k]
    BY <1>2, Extend
  <2>2. Markers(all, all[i].call) # {}
    BY <2>1, MarkersGrow DEF OrderlySuspensions
  <2>3. ASSUME all[i].deferred, NEW j \in Outputs(all, all[i].call) PROVE i < j
    <3>0. j \in DOMAIN all /\ all[j].kind = "output" /\ all[j].call = all[i].call
      BY DEF Outputs
    <3>1. Outputs(items, all[i].call) = {}
      BY <2>1, <2>3 DEF OrderlySuspensions, Open
    <3>2. j \notin DOMAIN items
      BY <3>0, <3>1, Extend DEF Outputs
    <3>3. PICK l \in DOMAIN more : j = Len(items) + l /\ all[j] = more[l]
      BY <3>0, <3>2, Extend
    <3>4. k < l
      BY <2>1, <2>3, <3>0, <3>3 DEF OrderlySuspensions
    <3>5. k \in Nat /\ l \in Nat /\ Len(items) \in Nat
      OBVIOUS
    <3>6. QED
      BY <2>1, <3>3, <3>4, <3>5
  <2>4. QED
    BY <2>2, <2>3
<1>3. QED
  BY <1>1, <1>2

(* Responses that ask for calls are old ones.                               *)
LEMMA QuietResponse ==
    ASSUME NEW items \in Seq(TurnItem), NEW more \in Seq(TurnItem), Quiet(items, more),
           NEW r \in DOMAIN (items \o more), (items \o more)[r].kind = "response",
           (items \o more)[r].calls # <<>>
    PROVE  r \in DOMAIN items /\ (items \o more)[r] = items[r]
<1>1. ASSUME r \notin DOMAIN items PROVE FALSE
  <2>1. PICK j \in DOMAIN more : (items \o more)[r] = more[j]
    BY <1>1, Extend
  <2>2. QED
    BY <2>1 DEF Quiet
<1>2. QED
  BY <1>1, Extend

LEMMA OrderlyBatches ==
    ASSUME NEW items \in Seq(TurnItem), NEW more \in Seq(TurnItem), Quiet(items, more),
           OrderlyMarkers(items, more),
           BatchesDistinct(items), OneUnderWay(items), EarlierAnswered(items)
    PROVE  /\ BatchesDistinct(items \o more) /\ OneUnderWay(items \o more)
           /\ EarlierAnswered(items \o more)
<1> DEFINE all == items \o more
<1>0. \A r \in DOMAIN all : \A k \in DOMAIN all[r].calls :
          all[r].kind = "response" => r \in DOMAIN items /\ all[r] = items[r]
  <2> SUFFICES ASSUME NEW r \in DOMAIN all, NEW k \in DOMAIN all[r].calls,
                      all[r].kind = "response"
               PROVE  r \in DOMAIN items /\ all[r] = items[r]
    OBVIOUS
  <2>1. all[r].calls # <<>>
    OBVIOUS
  <2>2. QED
    BY <2>1, QuietResponse
<1>1. BatchesDistinct(all)
  BY <1>0 DEF BatchesDistinct
<1>2. OneUnderWay(all)
  <2> SUFFICES ASSUME NEW r \in DOMAIN all, all[r].kind = "response",
                      NEW k \in DOMAIN all[r].calls, NEW l \in DOMAIN all[r].calls,
                      k < l, Open(all, all[r].calls[k]), Open(all, all[r].calls[l]),
                      Markers(all, all[r].calls[l]) # {}
               PROVE  FALSE
    BY DEF OneUnderWay
  <2>1. r \in DOMAIN items /\ all[r] = items[r]
    BY <1>0
  <2>2. Open(items, items[r].calls[k]) /\ Open(items, items[r].calls[l])
    BY <2>1, OutputsGrow
  <2>3. Markers(items, items[r].calls[l]) = {}
    BY <2>1, <2>2 DEF OneUnderWay
  <2>4. PICK j \in DOMAIN more : more[j].kind = "started" /\ more[j].call = items[r].calls[l]
    BY <2>1, <2>3, MarkersFrom
  <2>5. FirstOpen(items, items[r].calls[l])
    BY <2>3, <2>4 DEF OrderlyMarkers
  <2>6. QED
    BY <2>1, <2>2, <2>5 DEF FirstOpen
<1>3. EarlierAnswered(all)
  <2> SUFFICES ASSUME NEW r \in DOMAIN all, NEW s \in DOMAIN all,
                      all[r].kind = "response", all[s].kind = "response", r < s,
                      all[r].turn = all[s].turn, all[s].calls # <<>>,
                      NEW k \in DOMAIN all[r].calls
               PROVE  ~Open(all, all[r].calls[k])
    BY DEF EarlierAnswered
  <2>1. /\ r \in DOMAIN items /\ all[r] = items[r]
        /\ s \in DOMAIN items /\ all[s] = items[s]
    BY <1>0, QuietResponse
  <2>2. ~Open(items, items[r].calls[k])
    BY <2>1 DEF EarlierAnswered
  <2>3. QED
    BY <2>1, <2>2, OutputsGrow
<1>4. QED
  BY <1>1, <1>2, <1>3

LEMMA OrderlyKeeps ==
    ASSUME NEW items \in Seq(TurnItem), NEW more \in Seq(TurnItem),
           Orderly(items, more), Ledger(items)
    PROVE  Ledger(items \o more)
  BY OrderlyRequested, OrderlyOnce, OrderlySkipped, OrderlySuspended, OrderlyBatches
     DEF Orderly, Ledger

-----------------------------------------------------------------------------
(* Turns and their pending suspensions.                                     *)

(* What is pending after a commit, and is not new, was pending before it;   *)
(* and nothing appended to its turn clears it.                              *)
LEMMA PendingShrinks ==
    ASSUME NEW items \in Seq(TurnItem), NEW more \in Seq(TurnItem),
           NEW i \in PendingSuspension(items \o more), i \in DOMAIN items
    PROVE  /\ i \in PendingSuspension(items) /\ (items \o more)[i] = items[i]
           /\ \A j \in DOMAIN more :
                  more[j].turn = items[i].turn =>
                      /\ ~(more[j].kind = "user" /\ more[j].reply = items[i].sid)
                      /\ ~(more[j].kind = "output" /\ more[j].call = items[i].call)
<1> DEFINE all == items \o more
<1>1. \A j \in DOMAIN items : all[j] = items[j] /\ j \in DOMAIN all
  BY Extend
<1>2. /\ all[i].kind = "suspension"
      /\ \A j \in DOMAIN all : ReadBefore(all, i, j) => ~Clears(all, j, i)
  BY DEF PendingSuspension
<1>3. ASSUME NEW j \in DOMAIN items, ReadBefore(items, i, j), Clears(items, j, i)
      PROVE  FALSE
  <2>1. ReadBefore(all, i, j) /\ Clears(all, j, i)
    BY <1>1, <1>3 DEF ReadBefore, Clears
  <2>2. QED
    BY <1>1, <1>2, <2>1
<1>4. ASSUME NEW j \in DOMAIN more, more[j].turn = items[i].turn,
             \/ more[j].kind = "user" /\ more[j].reply = items[i].sid
             \/ more[j].kind = "output" /\ more[j].call = items[i].call
      PROVE  FALSE
  <2> DEFINE n == Len(items) + j
  <2>1. n \in DOMAIN all /\ all[n] = more[j] /\ i < n
    BY Extend
  <2> HIDE DEF n
  <2>2. ReadBefore(all, i, n) /\ Clears(all, n, i)
    BY <1>1, <1>4, <2>1 DEF ReadBefore, Clears
  <2>3. QED
    BY <1>2, <2>1, <2>2
<1>5. i \in PendingSuspension(items)
  BY <1>1, <1>2, <1>3 DEF PendingSuspension
<1>6. QED
  BY <1>1, <1>4, <1>5

(* The reading order is total, and a later suspension clears an earlier one.*)
LEMMA PendingOne ==
    ASSUME NEW items \in Seq(TurnItem),
           NEW i \in PendingSuspension(items), NEW j \in PendingSuspension(items)
    PROVE  i = j
<1>1. /\ i \in DOMAIN items /\ j \in DOMAIN items
      /\ items[i].kind = "suspension" /\ items[j].kind = "suspension"
  BY DEF PendingSuspension
<1>2. Clears(items, i, j) /\ Clears(items, j, i)
  BY <1>1 DEF Clears
<1>3. ~ReadBefore(items, i, j) /\ ~ReadBefore(items, j, i)
  BY <1>1, <1>2 DEF PendingSuspension
<1>4. items[i].turn \in Nat /\ items[j].turn \in Nat /\ i \in Nat /\ j \in Nat
  BY <1>1, ItemFields
<1>5. QED
  BY <1>3, <1>4 DEF ReadBefore

(* ClosedTurnsFrozen, for one step.                                         *)
FrozenStep ==
    \A t \in DOMAIN status :
        status[t] \in Closed =>
            /\ status'[t] = status[t]
            /\ \A i \in (Len(log) + 1)..Len(log') : log'[i].turn # t

(* A commit of `more` to turn t, which was not closed.                      *)
ToTurn(t, more) ==
    /\ log' = log \o more
    /\ \A j \in DOMAIN more : more[j].turn = t
    /\ DOMAIN status \subseteq DOMAIN status' /\ t \in DOMAIN status'
    /\ \A u \in DOMAIN status' : u # t => u \in DOMAIN status /\ status'[u] = status[u]
    /\ t \in DOMAIN status => status[t] \notin Closed
    /\ status'[t] \in {"completed", "failed"} =>
           \A c \in CallsOf(log', t) : ~Open(log', c)
    /\ \A i \in PendingSuspension(log') : log'[i].turn = t => status'[t] = "suspended"

LEMMA TurnCommit ==
    ASSUME LInv, NEW t, NEW more \in Seq(TurnItem), ToTurn(t, more)
    PROVE  /\ ItemsInTurns(log', status') /\ ClosedTurnsAnswered' /\ PendingIsSuspended'
           /\ FrozenStep
<1> USE DEF ToTurn
<1>1. log \in Seq(TurnItem) /\ ItemsInTurns(log, status)
  BY DEF LInv, IInv, TypeOK
<1>2. /\ \A i \in DOMAIN log : i \in DOMAIN log' /\ log'[i] = log[i]
      /\ \A i \in DOMAIN log' : i \notin DOMAIN log => log'[i].turn = t
  BY <1>1, Extend
<1>3. ItemsInTurns(log', status')
  BY <1>1, <1>2 DEF ItemsInTurns
<1>4. ASSUME NEW u \in DOMAIN status', status'[u] \in {"completed", "failed"},
             NEW c \in CallsOf(log', u)
      PROVE  Outputs(log', c) # {}
  <2>1. CASE u = t
    BY <1>4, <2>1 DEF Open
  <2>2. CASE u # t
    <3>1. CallResponses(log', u) = CallResponses(log, u)
      BY <1>2, <2>2 DEF CallResponses
    <3>2. \A i \in CallResponses(log, u) : log'[i] = log[i]
      BY <1>2 DEF CallResponses
    <3>3. CallsOf(log', u) = CallsOf(log, u)
      BY <3>1, <3>2, SameCalls, Zenon
    <3>4. Outputs(log, c) # {}
      BY <1>4, <2>2, <3>3 DEF LInv, ClosedTurnsAnswered
    <3>5. QED
      BY <1>1, <3>4, OutputsGrow
  <2>3. QED
    BY <2>1, <2>2
<1>5. ASSUME NEW i \in PendingSuspension(log')
      PROVE  status'[log'[i].turn] = "suspended"
  <2>1. CASE log'[i].turn = t
    BY <2>1
  <2>2. CASE log'[i].turn # t
    <3>1. i \in DOMAIN log
      BY <1>2, <2>2 DEF PendingSuspension
    <3>2. i \in PendingSuspension(log) /\ log'[i] = log[i]
      BY <1>1, <3>1, PendingShrinks
    <3>3. status[log[i].turn] = "suspended"
      BY <3>2 DEF LInv, PendingIsSuspended
    <3>4. log[i].turn \in DOMAIN status'
      BY <1>1, <3>1 DEF ItemsInTurns
    <3>5. QED
      BY <2>2, <3>2, <3>3, <3>4
  <2>3. QED
    BY <2>1, <2>2
<1>6. FrozenStep
  <2> SUFFICES ASSUME NEW u \in DOMAIN status, status[u] \in Closed
               PROVE  /\ status'[u] = status[u]
                      /\ \A i \in (Len(log) + 1)..Len(log') : log'[i].turn # u
    BY DEF FrozenStep
  <2>1. u # t /\ status'[u] = status[u]
    OBVIOUS
  <2>2. ASSUME NEW i \in (Len(log) + 1)..Len(log') PROVE log'[i].turn = t
    <3>1. /\ DOMAIN log = 1..Len(log) /\ Len(log) \in Nat
          /\ log' \in Seq(TurnItem) /\ DOMAIN log' = 1..Len(log') /\ Len(log') \in Nat
      BY <1>1, Extend
    <3>2. i \in DOMAIN log' /\ i \notin DOMAIN log
      BY <3>1
    <3>3. QED
      BY <1>2, <3>2
  <2>3. QED
    BY <2>1, <2>2
<1>7. QED
  BY <1>3, <1>4, <1>5, <1>6 DEF ClosedTurnsAnswered, PendingIsSuspended

-----------------------------------------------------------------------------
(* Classes of steps.                                                        *)

(* After a commit only its author's copy is current.                        *)
LEMMA LedgerCommit ==
    ASSUME LInv, IInv', NEW a \in Agents, NEW s, Goto(a, s),
           NEW more \in Seq(TurnItem), Persist(a, more), runs' = runs,
           Ledger(log'), ItemsInTurns(log', status'),
           ClosedTurnsAnswered', PendingIsSuspended',
           s.base = 0 \/ (s.base = rev + 1 /\ Concludes(s, log', status')),
           AtCall(s) => Markers(log', Head(s.queue)) # {}
    PROVE  LInv'
<1>1. /\ agent \in [Agents -> AgentState] /\ rev \in Nat /\ log \in Seq(TurnItem)
      /\ rev' = rev + 1 /\ log' = log \o more
  BY DEF LInv, IInv, TypeOK, Persist
<1>2. agent'[a] = s /\ \A b \in Agents \ {a} : agent'[b] = agent[b]
  BY <1>1 DEF Goto
<1>3. Conclusions'
  <2>1. ASSUME NEW b \in Agents, b # a PROVE agent'[b].base # rev'
    <3>1. agent[b].base \in Nat /\ agent[b].base <= rev
      BY <1>1 DEF LInv, IInv, Copies, AgentState
    <3>2. QED
      BY <1>1, <1>2, <2>1, <3>1
  <2>2. s.base = rev' => Concludes(s, log', status')
    BY <1>1
  <2>3. QED
    BY <1>2, <2>1, <2>2 DEF Conclusions
<1>4. StartsMarked'
  <2>1. \A c : Markers(log, c) # {} => Markers(log', c) # {}
    BY <1>1, MarkersGrow
  <2>2. ASSUME NEW b \in Agents, agent'[b].pc \in {"exec", "running"}
        PROVE  Markers(log', Head(agent'[b].queue)) # {}
    <3>1. CASE b = a
      BY <1>2, <2>2, <3>1 DEF AtCall
    <3>2. CASE b # a
      BY <1>2, <2>1, <2>2, <3>2 DEF LInv, StartsMarked, Current
    <3>3. QED
      BY <3>1, <3>2
  <2>3. \A c \in Calls : runs'[c] > 0 => Markers(log', c) # {}
    BY <2>1 DEF LInv, StartsMarked
  <2>4. QED
    BY <2>2, <2>3 DEF StartsMarked, Current
<1>5. QED
  BY <1>3, <1>4 DEF LInv

(* Nothing durable changes.                                                 *)
LEMMA LedgerStill ==
    ASSUME LInv, IInv', NEW a \in Agents, NEW s, Goto(a, s),
           UNCHANGED <<rev, status, log>>,
           s.base = rev => Concludes(s, log, status),
           AtCall(s) => Markers(log, Head(s.queue)) # {},
           \A c \in Calls : runs'[c] > 0 => Markers(log, c) # {}
    PROVE  LInv' /\ FrozenStep
<1>1. agent \in [Agents -> AgentState] /\ rev \in Nat /\ log \in Seq(TurnItem)
  BY DEF LInv, IInv, TypeOK
<1>2. agent'[a] = s /\ \A b \in Agents \ {a} : agent'[b] = agent[b]
  BY <1>1 DEF Goto
<1>3. Conclusions'
  BY <1>2 DEF LInv, Conclusions
<1>4. StartsMarked'
  <2>1. ASSUME NEW b \in Agents, agent'[b].pc \in {"exec", "running"}
        PROVE  Markers(log', Head(agent'[b].queue)) # {}
    <3>1. CASE b = a
      BY <1>2, <2>1, <3>1 DEF AtCall
    <3>2. CASE b # a
      BY <1>2, <2>1, <3>2 DEF LInv, StartsMarked, Current
    <3>3. QED
      BY <3>1, <3>2
  <2>2. QED
    BY <2>1 DEF StartsMarked, Current
<1>5. ClosedTurnsAnswered' /\ PendingIsSuspended'
  BY DEF LInv, ClosedTurnsAnswered, PendingIsSuspended
<1>6. FrozenStep
  <2>1. (Len(log) + 1)..Len(log') = {}
    BY <1>1
  <2>2. QED
    BY <2>1 DEF FrozenStep
<1>7. QED
  BY <1>3, <1>4, <1>5, <1>6 DEF LInv

(* An orderly commit: agent a appends `more` and goes on as s.              *)
OrderlyStep(a, s, more) ==
    /\ Goto(a, s) /\ Persist(a, more) /\ Orderly(log, more) /\ runs' = runs
    /\ s.base = 0 \/ (s.base = rev + 1 /\ Concludes(s, log', status'))
    /\ AtCall(s) => Markers(log', Head(s.queue)) # {}

(* It is to turn t, which is open and gets status x.                        *)
ToOpenTurn(t, x, more) ==
    /\ status[t] \notin Closed /\ status' = [status EXCEPT ![t] = x]
    /\ \A j \in DOMAIN more : more[j].turn = t
    /\ x \in {"completed", "failed"} => \A c \in CallsOf(log, t) : ~Open(log', c)
    /\ \A i \in PendingSuspension(log') : log'[i].turn = t => x = "suspended"

LEMMA OrderlyCommit ==
    ASSUME LInv, IInv', NEW a \in Agents, NEW s, NEW more \in Seq(TurnItem),
           OrderlyStep(a, s, more),
           NEW t \in DOMAIN status, NEW x \in TurnStatus, ToOpenTurn(t, x, more)
    PROVE  LInv' /\ FrozenStep
<1> USE DEF OrderlyStep, ToOpenTurn
<1>1. log \in Seq(TurnItem) /\ log' = log \o more /\ Ledger(log) /\ Quiet(log, more)
  BY DEF LInv, IInv, TypeOK, Persist, Orderly
<1>2. Ledger(log')
  BY <1>1, OrderlyKeeps
<1>3. /\ DOMAIN status' = DOMAIN status /\ status'[t] = x
      /\ \A u \in DOMAIN status : u # t => status'[u] = status[u]
  OBVIOUS
<1>4. CallsOf(log', t) = CallsOf(log, t)
  BY <1>1, QuietKeepsCalls
<1>5. /\ status'[t] \in {"completed", "failed"} =>
             \A c \in CallsOf(log', t) : ~Open(log', c)
      /\ \A i \in PendingSuspension(log') : log'[i].turn = t => status'[t] = "suspended"
  BY <1>3, <1>4
<1>6. /\ DOMAIN status \subseteq DOMAIN status' /\ t \in DOMAIN status'
      /\ \A u \in DOMAIN status' : u # t => u \in DOMAIN status /\ status'[u] = status[u]
  BY <1>3
<1>7. ToTurn(t, more)
  BY <1>1, <1>5, <1>6 DEF ToTurn
<1>8. QED
  BY <1>2, <1>7, TurnCommit, LedgerCommit

-----------------------------------------------------------------------------
(* What recovery takes up: the open calls of the turn, in order.            *)

(* `at` lists the positions `pending` of a batch in order.                  *)
Lists(at, q, pending, calls) ==
    /\ calls \in Seq(Calls) /\ pending \subseteq DOMAIN calls
    /\ q \in [1..Cardinality(pending) -> Calls]
    /\ at \in [DOMAIN q -> pending]
    /\ \A k, l \in DOMAIN q : k < l => at[k] < at[l]

LEMMA OrderedList ==
    ASSUME NEW calls, NEW pending, NEW q, NEW at, Lists(at, q, pending, calls)
    PROVE  /\ \E n \in Nat : DOMAIN q = 1..n
           /\ \A k, l \in DOMAIN q : at[k] = at[l] => k = l
           /\ \A m \in pending : \E k \in DOMAIN q : at[k] = m
<1> USE DEF Lists
<1>1. DOMAIN calls = 1..Len(calls) /\ Len(calls) \in Nat
  OBVIOUS
<1>2. IsFiniteSet(pending)
  <2>1. IsFiniteSet(1..Len(calls))
    BY <1>1, FS_Interval
  <2>2. QED
    BY <1>1, <2>1, FS_Subset
<1>3. PICK n \in Nat : n = Cardinality(pending)
  BY <1>2, FS_CardinalityType
<1>4. DOMAIN q = 1..n
  BY <1>3
<1>5. \A k \in DOMAIN q : k \in Nat /\ at[k] \in Nat
  BY <1>1, <1>4
<1>6. ASSUME NEW k \in DOMAIN q, NEW l \in DOMAIN q, at[k] = at[l] PROVE k = l
  <2>1. ~(at[k] < at[l]) /\ ~(at[l] < at[k]) /\ k \in Nat /\ l \in Nat
    BY <1>5, <1>6
  <2>2. ~(k < l) /\ ~(l < k)
    BY <2>1
  <2>3. QED
    BY <2>1, <2>2
<1>7. at \in Injection(DOMAIN q, pending)
  BY <1>6 DEF Injection, IsInjective
<1>8. Cardinality(DOMAIN q) = Cardinality(pending)
  <2>1. Cardinality(1..n) = n
    BY <1>3, FS_Interval
  <2>2. QED
    BY <1>3, <1>4, <2>1
<1>9. at \in Surjection(DOMAIN q, pending)
  BY <1>2, <1>7, <1>8, FS_Injection
<1>10. QED
  BY <1>4, <1>6, <1>9 DEF Surjection

LEMMA OneLast ==
    ASSUME NEW items \in Seq(TurnItem), NEW t,
           NEW r \in LastCallResponse(items, t), NEW s \in LastCallResponse(items, t)
    PROVE  r = s
<1>1. r \in Nat /\ s \in Nat
  BY DEF LastCallResponse, CallResponses
<1>2. r <= s /\ s <= r
  BY DEF LastCallResponse
<1>3. QED
  BY <1>1, <1>2

(* Only the last batch of a turn can have open calls.                       *)
LEMMA OpenInLast ==
    ASSUME NEW items \in Seq(TurnItem), EarlierAnswered(items), NEW t,
           NEW r \in LastCallResponse(items, t), NEW c \in CallsOf(items, t), Open(items, c)
    PROVE  \E m \in DOMAIN items[r].calls : items[r].calls[m] = c
<1>1. PICK s \in CallResponses(items, t) :
          \E m \in DOMAIN items[s].calls : items[s].calls[m] = c
  BY CallsOfTurn
<1>2. /\ r \in CallResponses(items, t) /\ s <= r /\ r \in Nat /\ s \in Nat
      /\ r \in DOMAIN items /\ s \in DOMAIN items
  BY DEF LastCallResponse, CallResponses
<1>3. ~(s < r)
  BY <1>1, <1>2 DEF EarlierAnswered, CallResponses
<1>4. s = r
  BY <1>2, <1>3
<1>5. QED
  BY <1>1, <1>4

(* No output since the response is no output at all.                        *)
LEMMA NoneSince ==
    ASSUME NEW items \in Seq(TurnItem), OutputsRequested(items), RequestedOnce(items),
           NEW t, NEW r \in CallResponses(items, t), NEW c \in Calls, Requests(items, r, c),
           ~AnsweredSince(items, t, r, c)
    PROVE  Open(items, c)
<1> SUFFICES ASSUME NEW j \in Outputs(items, c) PROVE FALSE
  BY DEF Open
<1>1. j \in DOMAIN items /\ items[j].kind = "output" /\ items[j].call = c
  BY DEF Outputs
<1>2. PICK s \in DOMAIN items : s < j /\ items[s].turn = items[j].turn /\ Requests(items, s, c)
  BY <1>1 DEF OutputsRequested
<1>3. r \in DOMAIN items /\ items[r].turn = t
  BY DEF CallResponses
<1>4. s = r
  BY <1>2, <1>3 DEF RequestedOnce
<1>5. QED
  BY <1>1, <1>2, <1>3, <1>4 DEF AnsweredSince

LEMMA PendingQueue ==
    ASSUME NEW items \in Seq(TurnItem), Ledger(items), RequestedOnce(items),
           NEW t, NEW s, s.queue \in PendingLists(items, t), s.turn = t
    PROVE  QueueOpen(s, items) /\ QueueComplete(s, items)
<1> DEFINE q == s.queue
<1>1. CASE CallResponses(items, t) = {}
  <2>1. q = <<>> /\ CallsOf(items, t) = {} /\ LastCallResponse(items, t) = {}
    BY <1>1 DEF PendingLists, CallsOf, LastCallResponse
  <2>2. QED
    BY <2>1 DEF QueueOpen, QueueComplete
<1>2. ASSUME NEW r \in LastCallResponse(items, t), q \in PendingAfter(items, t, r)
      PROVE  QueueOpen(s, items) /\ QueueComplete(s, items)
  <2> DEFINE calls   == items[r].calls
             pending == {n \in DOMAIN calls : ~AnsweredSince(items, t, r, calls[n])}
  <2>1. /\ r \in DOMAIN items /\ r \in CallResponses(items, t)
        /\ items[r].kind = "response" /\ calls \in Seq(Calls)
    BY ItemFields DEF LastCallResponse, CallResponses
  <2>2. q \in [1..Cardinality(pending) -> Calls]
    BY <1>2 DEF PendingAfter
  <2>3. PICK at \in [DOMAIN q -> pending] :
            /\ \A k, l \in DOMAIN q : k < l => at[k] < at[l]
            /\ \A k \in DOMAIN q : q[k] = calls[at[k]]
    BY <1>2 DEF PendingAfter
  <2>4. /\ \E n \in Nat : DOMAIN q = 1..n
        /\ \A k, l \in DOMAIN q : at[k] = at[l] => k = l
        /\ \A m \in pending : \E k \in DOMAIN q : at[k] = m
    <3>1. pending \in SUBSET DOMAIN calls /\ calls \in Seq(Calls)
      BY <2>1
    <3>2. Lists(at, q, pending, calls)
      BY <2>2, <2>3, <3>1 DEF Lists
    <3> HIDE DEF pending, calls, q
    <3>3. QED
      BY <3>2, OrderedList
  <2>5. \A m, n \in DOMAIN calls : calls[m] = calls[n] => m = n
    BY <2>1 DEF Ledger, BatchesDistinct
  <2>6. \A k \in DOMAIN q : /\ at[k] \in DOMAIN calls /\ q[k] \in Calls
                            /\ Requests(items, r, q[k])
                            /\ ~AnsweredSince(items, t, r, q[k])
    <3>1. \A k \in DOMAIN q : at[k] \in pending /\ q[k] \in Calls
      BY <2>2, <2>3
    <3>2. QED
      BY <2>1, <2>3, <3>1 DEF Requests
  <2>7. \A k \in DOMAIN q : Open(items, q[k])
    BY <2>1, <2>6, NoneSince DEF Ledger
  <2>8. \A k, l \in DOMAIN q : q[k] = q[l] => k = l
    BY <2>3, <2>4, <2>5, <2>6
  <2>9. ASSUME NEW c \in CallsOf(items, t), Open(items, c)
        PROVE  \E k \in DOMAIN q : q[k] = c
    <3>1. PICK m \in DOMAIN calls : calls[m] = c
      BY <2>9, OpenInLast DEF Ledger
    <3>2. ~AnsweredSince(items, t, r, c)
      BY <2>9 DEF Open, Outputs, AnsweredSince
    <3>3. m \in pending
      BY <3>1, <3>2
    <3>4. PICK k \in DOMAIN q : at[k] = m
      BY <2>4, <3>3
    <3>5. QED
      BY <2>3, <3>1, <3>4
  <2>10. ASSUME NEW k \in DOMAIN q, k > 1 PROVE Markers(items, q[k]) = {}
    <3>1. 1 \in DOMAIN q /\ 1 < k
      <4>1. PICK n \in Nat : DOMAIN q = 1..n
        BY <2>4
      <4>2. QED
        BY <2>10, <4>1
    <3>2. at[1] < at[k]
      BY <2>3, <2>10, <3>1
    <3>3. /\ at[1] \in DOMAIN calls /\ at[k] \in DOMAIN calls
          /\ Open(items, calls[at[1]]) /\ Open(items, calls[at[k]])
      BY <2>3, <2>6, <2>7, <2>10, <3>1
    <3>4. Markers(items, calls[at[k]]) = {}
      BY <2>1, <3>2, <3>3 DEF Ledger, OneUnderWay
    <3>5. QED
      BY <2>3, <2>10, <3>4
  <2>11. ASSUME NEW r2 \in LastCallResponse(items, t), NEW k \in DOMAIN q, NEW l \in DOMAIN q,
                NEW m \in DOMAIN items[r2].calls, NEW n \in DOMAIN items[r2].calls,
                k < l, q[k] = items[r2].calls[m], q[l] = items[r2].calls[n]
         PROVE  m < n
    <3>1. r2 = r
      BY OneLast
    <3>2. m = at[k] /\ n = at[l]
      BY <2>3, <2>5, <2>6, <2>11, <3>1
    <3>3. QED
      BY <2>3, <2>11, <3>2
  <2>12. QED
    BY <2>6, <2>7, <2>8, <2>9, <2>10, <2>11 DEF QueueOpen, QueueComplete
<1>3. QED
  BY <1>1, <1>2 DEF PendingLists

-----------------------------------------------------------------------------
(* Steps that change nothing durable.                                       *)

Unconcerned == {"idle", "acquire", "load", "openTurn"}

LEMMA NothingConcluded ==
    ASSUME NEW s, s.pc \in Unconcerned, s.queue = <<>>, NEW items, NEW st
    PROVE  Concludes(s, items, st) /\ ~AtCall(s)
  BY DEF Unconcerned, Concludes, TurnKnown, QueueOpen, QueueComplete, SuspensionKnown,
         Working, Settling, AtCall

LEMMA IdleConcludes ==
    /\ Idle.base = 0 /\ ~AtCall(Idle)
    /\ \A items, st : Concludes(Idle, items, st)
<1>1. Idle.pc \in Unconcerned /\ Idle.queue = <<>> /\ Idle.base = 0
  BY DEF Idle, Unconcerned
<1>2. QED
  BY <1>1, NothingConcluded

(* The conclusions do not depend on the abort signal, the operation or the  *)
(* counters.                                                                *)
LEMMA SameConclusions ==
    ASSUME NEW s, NEW next, NEW items, NEW st, Concludes(s, items, st),
           next.pc = s.pc \/ (s.pc = "exec" /\ next.pc = "running"),
           next.queue = s.queue, next.turn = s.turn, next.mode = s.mode,
           next.result = s.result, next.sid = s.sid
    PROVE  Concludes(next, items, st)
<1>1. /\ Working(next) <=> Working(s)
      /\ Settling(next) <=> Settling(s)
      /\ next.pc = "finish" <=> s.pc = "finish"
      /\ next.pc = "reply" <=> s.pc = "reply"
  BY DEF Working, Settling, AtCall
<1>2. QED
  BY <1>1 DEF Concludes, TurnKnown, QueueOpen, QueueComplete, SuspensionKnown

LEMMA RunsKept ==
    ASSUME LInv, runs' = runs
    PROVE  \A c \in Calls : runs'[c] > 0 => Markers(log, c) # {}
  BY DEF LInv, StartsMarked

LEMMA ReturnStill ==
    ASSUME LInv, IInv', NEW a \in Agents, NEW kind, NEW sid, Return(a, kind, sid),
           UNCHANGED <<rev, status, log, runs>>
    PROVE  LInv' /\ FrozenStep
<1>1. Goto(a, Idle)
  BY DEF Return
<1>2. QED
  BY <1>1, IdleConcludes, RunsKept, LedgerStill

LEMMA CallerStill ==
    ASSUME LInv, IInv', NEW a \in Agents, Caller(a) \/ Drop(a)
    PROVE  LInv' /\ FrozenStep
<1>1. ASSUME NEW s, s.pc = "acquire", s.queue = <<>>, Begin(a, s)
      PROVE  LInv' /\ FrozenStep
  <2>1. /\ \A items, st : Concludes(s, items, st)
        /\ ~AtCall(s)
    BY <1>1, NothingConcluded DEF Unconcerned
  <2>2. Goto(a, s) /\ UNCHANGED <<rev, status, log, runs>>
    BY <1>1 DEF Begin
  <2>3. QED
    BY <2>1, <2>2, RunsKept, LedgerStill
<1>2. CASE RunTurn(a)
  BY <1>1, <1>2 DEF RunTurn, Idle
<1>3. CASE RecoverTurn(a)
  BY <1>1, <1>3 DEF RecoverTurn, Idle
<1>4. CASE ResumeSuspendedTurn(a)
  BY <1>1, <1>4 DEF ResumeSuspendedTurn, Idle
<1>5. CASE Drop(a)
  BY <1>5, ReturnStill DEF Drop
<1>6. CASE Abort(a)
  <2> DEFINE s == [agent[a] EXCEPT !.abort = TRUE]
  <2>1. agent[a] \in AgentState
    BY DEF LInv, IInv, TypeOK
  <2>2. Goto(a, s) /\ UNCHANGED <<rev, status, log, runs>>
    BY <1>6 DEF Abort, Goto
  <2>3. /\ s.pc = agent[a].pc /\ s.queue = agent[a].queue /\ s.turn = agent[a].turn
        /\ s.mode = agent[a].mode /\ s.base = agent[a].base
        /\ s.result = agent[a].result /\ s.sid = agent[a].sid
    BY <2>1 DEF AgentState
  <2> HIDE DEF s
  <2>4. s.base = rev => Concludes(s, log, status)
    BY <2>3, SameConclusions DEF LInv, Conclusions
  <2>5. AtCall(s) => Markers(log, Head(s.queue)) # {}
    BY <2>3 DEF AtCall, LInv, StartsMarked, Current
  <2>6. QED
    BY <2>2, <2>4, <2>5, RunsKept, LedgerStill
<1>7. QED
  BY <1>2, <1>3, <1>4, <1>5, <1>6 DEF Caller

(* An agent with an empty queue goes on to ask the model.                   *)
LEMMA ModelConcludes ==
    ASSUME NEW s, s.pc \in {"model", "asking"}, s.queue = <<>>, NEW items, NEW st,
           s.turn \in DOMAIN st, st[s.turn] = "running",
           \A c \in CallsOf(items, s.turn) : ~Open(items, c)
    PROVE  Concludes(s, items, st) /\ ~AtCall(s)
  BY DEF Concludes, TurnKnown, QueueOpen, QueueComplete, SuspensionKnown,
         Working, Settling, AtCall

LEMMA MoveStill ==
    ASSUME LInv, IInv', NEW a \in Agents,
           \/ Acquire(a) \/ LoadForRun(a) \/ BuildRequest(a) \/ RecoveryDone(a)
           \/ BatchDone(a)
           \/ Refuse(a) \/ Conflict(a) \/ SuspendAgain(a)
    PROVE  LInv' /\ FrozenStep
<1>0. agent[a] \in AgentState /\ WellFormed(agent[a])
  BY DEF LInv, IInv, TypeOK, WellFormed
<1>1. ASSUME NEW s, s.pc \in Unconcerned, s.queue = <<>>, Goto(a, s),
             UNCHANGED <<rev, status, log, runs>>
      PROVE  LInv' /\ FrozenStep
  BY <1>1, NothingConcluded, RunsKept, LedgerStill
<1>2. CASE Acquire(a)
  <2> DEFINE s == [agent[a] EXCEPT !.pc = "load"]
  <2>1. s.pc \in Unconcerned /\ s.queue = <<>>
    BY <1>0, <1>2 DEF Acquire, WellFormed, AgentState, Unconcerned
  <2>2. Goto(a, s) /\ UNCHANGED <<rev, status, log, runs>>
    BY <1>2 DEF Acquire, Goto
  <2>3. QED
    BY <1>1, <2>1, <2>2
<1>3. CASE LoadForRun(a)
  <2> DEFINE s == [agent[a] EXCEPT !.pc = "openTurn", !.base = rev]
  <2>1. s.pc \in Unconcerned /\ s.queue = <<>>
    BY <1>0, <1>3 DEF LoadForRun, Loading, WellFormed, AgentState, Unconcerned
  <2>2. Goto(a, s) /\ UNCHANGED <<rev, status, log, runs>>
    BY <1>3 DEF LoadForRun
  <2>3. QED
    BY <1>1, <2>1, <2>2
<1>4. ASSUME NEW s, s.pc \in {"model", "asking"}, s.queue = <<>>, s.turn = agent[a].turn,
             s.base = agent[a].base, Goto(a, s), UNCHANGED <<rev, status, log, runs>>,
             agent[a].queue = <<>>, agent[a].pc \in {"recover", "calls", "model"}
      PROVE  LInv' /\ FrozenStep
  <2>1. ASSUME s.base = rev PROVE Concludes(s, log, status)
    <3>1. Concludes(agent[a], log, status) /\ Working(agent[a])
      BY <1>4, <2>1 DEF LInv, Conclusions, Working
    <3>2. s.turn \in DOMAIN status /\ status[s.turn] = "running"
      BY <1>4, <3>1 DEF Concludes, TurnKnown
    <3>3. \A c \in CallsOf(log, s.turn) : ~Open(log, c)
      BY <1>4, <3>1 DEF Concludes, QueueComplete
    <3>4. QED
      BY <1>4, <3>2, <3>3, ModelConcludes
  <2>2. ~AtCall(s)
    BY <1>4 DEF AtCall
  <2>3. QED
    BY <1>4, <2>1, <2>2, RunsKept, LedgerStill
<1>5. CASE RecoveryDone(a)
  <2> DEFINE s == [agent[a] EXCEPT !.pc = "model", !.mode = "none"]
  <2>1. /\ s.pc = "model" /\ s.queue = <<>> /\ s.turn = agent[a].turn
        /\ s.base = agent[a].base
    BY <1>0, <1>5 DEF RecoveryDone, AgentState
  <2>2. Goto(a, s) /\ UNCHANGED <<rev, status, log, runs>>
    BY <1>5 DEF RecoveryDone
  <2>3. agent[a].queue = <<>> /\ agent[a].pc = "recover"
    BY <1>5 DEF RecoveryDone
  <2> HIDE DEF s
  <2>4. QED
    BY <1>4, <2>1, <2>2, <2>3
<1>6. CASE BatchDone(a)
  <2> DEFINE s == [agent[a] EXCEPT !.pc = "model", !.mode = "none", !.iter = @ + 1]
  <2>1. /\ s.pc = "model" /\ s.queue = <<>> /\ s.turn = agent[a].turn
        /\ s.base = agent[a].base
    BY <1>0, <1>6 DEF BatchDone, AgentState
  <2>2. Goto(a, s) /\ UNCHANGED <<rev, status, log, runs>>
    BY <1>6 DEF BatchDone
  <2>3. agent[a].queue = <<>> /\ agent[a].pc = "calls"
    BY <1>6 DEF BatchDone
  <2> HIDE DEF s
  <2>4. QED
    BY <1>4, <2>1, <2>2, <2>3
<1>7. CASE Refuse(a) \/ Conflict(a) \/ SuspendAgain(a)
  BY <1>7, ReturnStill DEF Refuse, Conflict, SuspendAgain
<1>8. CASE BuildRequest(a)
  <2> DEFINE s == [agent[a] EXCEPT !.pc = "asking"]
  <2>1. agent[a].queue = <<>> /\ agent[a].pc = "model"
    BY <1>0, <1>8 DEF BuildRequest, WellFormed
  <2>2. /\ s.pc = "asking" /\ s.queue = <<>> /\ s.turn = agent[a].turn
        /\ s.base = agent[a].base
    BY <1>0, <2>1 DEF AgentState
  <2>3. Goto(a, s) /\ UNCHANGED <<rev, status, log, runs>>
    BY <1>8 DEF BuildRequest, Goto
  <2> HIDE DEF s
  <2>4. QED
    BY <1>4, <2>1, <2>2, <2>3
<1>9. QED
  BY <1>2, <1>3, <1>5, <1>6, <1>7, <1>8

(* The body of a function whose marker is committed.                        *)
LEMMA EnterStill ==
    ASSUME LInv, IInv', NEW a \in Agents, EnterFunction(a)
    PROVE  LInv' /\ FrozenStep
<1> DEFINE s == [agent[a] EXCEPT !.pc = "running"]
<1>1. agent[a] \in AgentState /\ runs \in [Calls -> Nat]
  BY DEF LInv, IInv, TypeOK
<1>2. Goto(a, s) /\ UNCHANGED <<rev, status, log>> /\ agent[a].pc = "exec"
  BY DEF EnterFunction, Goto
<1>3. /\ s.pc = "running" /\ s.queue = agent[a].queue /\ s.turn = agent[a].turn
      /\ s.mode = agent[a].mode /\ s.base = agent[a].base
      /\ s.result = agent[a].result /\ s.sid = agent[a].sid
  BY <1>1 DEF AgentState
<1> HIDE DEF s
<1>4. s.base = rev => Concludes(s, log, status)
  BY <1>2, <1>3, SameConclusions DEF LInv, Conclusions
<1>5. Markers(log, Current(a)) # {}
  BY <1>2 DEF LInv, StartsMarked
<1>6. AtCall(s) => Markers(log, Head(s.queue)) # {}
  BY <1>3, <1>5 DEF Current
<1>7. \A c \in Calls : runs'[c] > 0 => Markers(log, c) # {}
  BY <1>1, <1>5 DEF EnterFunction, LInv, StartsMarked
<1>8. QED
  BY <1>2, <1>4, <1>6, <1>7, LedgerStill

(* Recovery of the last running turn, when no suspension is pending.        *)
LEMMA LoadForRecoverStill ==
    ASSUME LInv, IInv', NEW a \in Agents, LoadForRecover(a)
    PROVE  LInv' /\ FrozenStep
<1>0. agent[a] \in AgentState /\ log \in Seq(TurnItem) /\ RequestedOnce(log)
  BY DEF LInv, IInv, TypeOK
<1>1. PICK t \in ActiveTurn(status) : \E q \in PendingLists(log, t) :
          Goto(a, [agent[a] EXCEPT !.pc = "recover", !.base = rev, !.turn = t,
                                   !.mode = "recover", !.queue = q])
  BY DEF LoadForRecover
<1>2. PICK q \in PendingLists(log, t) :
          Goto(a, [agent[a] EXCEPT !.pc = "recover", !.base = rev, !.turn = t,
                                   !.mode = "recover", !.queue = q])
  BY <1>1
<1> DEFINE s == [agent[a] EXCEPT !.pc = "recover", !.base = rev, !.turn = t,
                                 !.mode = "recover", !.queue = q]
<1>3. Goto(a, s)
  BY <1>2
<1>4. s.pc = "recover" /\ s.turn = t /\ s.mode = "recover" /\ s.queue = q
  BY <1>0 DEF AgentState
<1> HIDE DEF s
<1>5. QueueOpen(s, log) /\ QueueComplete(s, log)
  BY <1>0, <1>4, PendingQueue DEF LInv
<1>6. TurnKnown(s, status) /\ SuspensionKnown(s, log) /\ ~AtCall(s)
  BY <1>4 DEF TurnKnown, SuspensionKnown, Working, Settling, AtCall, ActiveTurn, RunningTurns
<1>7. UNCHANGED <<rev, status, log, runs>>
  BY DEF LoadForRecover
<1>8. QED
  BY <1>3, <1>5, <1>6, <1>7, RunsKept, LedgerStill DEF Concludes

(* The suspension a caller answers is the only pending one, its turn is     *)
(* suspended, and when it was made before execution its call has no output. *)
LEMMA LoadForResumeStill ==
    ASSUME LInv, IInv', NEW a \in Agents, LoadForResume(a)
    PROVE  LInv' /\ FrozenStep
<1>0. /\ agent[a] \in AgentState /\ WellFormed(agent[a])
      /\ log \in Seq(TurnItem) /\ RequestedOnce(log) /\ MarkersRequested(log)
      /\ Ledger(log) /\ ItemsInTurns(log, status)
  BY DEF LInv, IInv, TypeOK, WellFormed
<1>1. PICK i \in PendingSuspension(log) :
          /\ Accepts(a, i)
          /\ Goto(a, [agent[a] EXCEPT
                 !.pc = IF agent[a].answer = "userInput" THEN "reply"
                                                         ELSE agent[a].answer,
                 !.base = rev, !.turn = log[i].turn, !.queue = <<log[i].call>>])
  BY DEF LoadForResume
<1> DEFINE pc == IF agent[a].answer = "userInput" THEN "reply" ELSE agent[a].answer
           s  == [agent[a] EXCEPT !.pc = pc, !.base = rev, !.turn = log[i].turn,
                                  !.queue = <<log[i].call>>]
           c  == log[i].call
<1>2. Goto(a, s)
  BY <1>1
<1>3. /\ pc \in {"reply", "deny", "approve"}
      /\ pc # "reply" => log[i].deferred
      /\ agent[a].sid = log[i].sid
  BY <1>1 DEF Accepts
<1> HIDE DEF pc
<1>4. /\ s.pc = pc /\ s.turn = log[i].turn /\ s.queue = <<c>> /\ s.sid = log[i].sid
  BY <1>0, <1>3 DEF AgentState
<1> HIDE DEF s
<1>5. i \in DOMAIN log /\ log[i].kind = "suspension" /\ c \in Calls
  BY <1>0, ItemFields DEF PendingSuspension
<1>6. log[i].turn \in DOMAIN status /\ status[log[i].turn] = "suspended"
  BY <1>0, <1>5 DEF ItemsInTurns, LInv, PendingIsSuspended
<1>7. ASSUME log[i].deferred PROVE Open(log, c)
  <2> SUFFICES ASSUME NEW j \in Outputs(log, c) PROVE FALSE
    BY DEF Open
  <2>1. j \in DOMAIN log /\ log[j].kind = "output" /\ log[j].call = c /\ i < j
    BY <1>0, <1>5, <1>7 DEF Outputs, Ledger, SuspensionsSound
  <2>2. PICK r \in DOMAIN log :
            r < j /\ log[r].turn = log[j].turn /\ Requests(log, r, c)
    BY <1>0, <2>1 DEF Ledger, OutputsRequested
  <2>3. PICK q \in DOMAIN log :
            q < i /\ log[q].turn = log[i].turn /\ Requests(log, q, c)
    BY <1>0, <1>5 DEF MarkersRequested
  <2>4. r = q
    BY <1>0, <1>5, <2>2, <2>3 DEF RequestedOnce
  <2>5. ReadBefore(log, i, j) /\ Clears(log, j, i)
    BY <2>1, <2>2, <2>3, <2>4 DEF ReadBefore, Clears
  <2>6. QED
    BY <2>1, <2>5 DEF PendingSuspension
<1>8. Concludes(s, log, status) /\ ~AtCall(s)
  <2>1. TurnKnown(s, status)
    BY <1>3, <1>4, <1>6 DEF TurnKnown, Working, AtCall
  <2>2. QueueOpen(s, log)
    BY <1>3, <1>4, <1>7 DEF QueueOpen
  <2>3. QueueComplete(s, log)
    BY <1>3, <1>4 DEF QueueComplete, Working, AtCall
  <2>4. SuspensionKnown(s, log)
    <3>1. \A j \in PendingSuspension(log) : j = i
      BY <1>0, PendingOne
    <3>2. Head(s.queue) = c
      BY <1>4
    <3>3. Markers(log, c) # {}
      BY <1>0, <1>5 DEF Ledger, SuspensionsSound
    <3>4. QED
      BY <1>4, <3>1, <3>2, <3>3 DEF SuspensionKnown
  <2>5. QED
    BY <1>3, <1>4, <2>1, <2>2, <2>3, <2>4 DEF Concludes, AtCall
<1>9. UNCHANGED <<rev, status, log, runs>>
  BY DEF LoadForResume
<1>10. QED
  BY <1>2, <1>8, <1>9, RunsKept, LedgerStill

-----------------------------------------------------------------------------
(* Orderly items.                                                           *)

Silent(item) ==
    \/ item.kind \in {"user", "turnFailed", "turnAborted"}
    \/ item.kind = "response" /\ item.calls = <<>>

LEMMA SilentItems ==
    ASSUME NEW t, NEW r
    PROVE  /\ Silent(UserInput(t, r)) /\ UserInput(t, r).turn = t
           /\ Silent(TurnFailed(t)) /\ TurnFailed(t).turn = t
           /\ Silent(TurnAborted(t)) /\ TurnAborted(t).turn = t
           /\ Silent(ModelResponse(t, <<>>)) /\ ModelResponse(t, <<>>).turn = t
  BY DEF Silent, UserInput, TurnFailed, TurnAborted, ModelResponse

LEMMA SilentOrderly ==
    ASSUME NEW items, NEW more, \A j \in DOMAIN more : Silent(more[j])
    PROVE  Orderly(items, more)
<1>1. Quiet(items, more)
  BY PlainQuiet DEF Silent, Plain
<1>2. QED
  BY <1>1 DEF Orderly, OrderlyOutputs, OrderlyMarkers, OrderlySuspensions, Silent

LEMMA OneSilent ==
    ASSUME NEW items, NEW item, Silent(item)
    PROVE  Orderly(items, <<item>>)
<1>1. \A j \in DOMAIN <<item>> : Silent(<<item>>[j])
  OBVIOUS
<1>2. QED
  BY <1>1, SilentOrderly, Zenon

(* Outputs for calls of a current agent's queue, with items that neither    *)
(* mark nor ask for calls.                                                  *)
QueueAnswers(a, more) ==
    /\ \A j \in DOMAIN more :
           \/ Silent(more[j])
           \/ /\ more[j].kind = "output" /\ more[j].turn = agent[a].turn
              /\ \E k \in DOMAIN agent[a].queue :
                     /\ more[j].call = agent[a].queue[k]
                     /\ more[j].result = "skipped" => Markers(log, agent[a].queue[k]) = {}
    /\ \A i, j \in DOMAIN more :
           more[i].kind = "output" /\ more[j].kind = "output"
               /\ more[i].call = more[j].call => i = j

LEMMA QueueAnswersOrderly ==
    ASSUME LInv, NEW a \in Agents, agent[a].base = rev, agent[a].pc # "reply",
           NEW more, QueueAnswers(a, more)
    PROVE  Orderly(log, more)
<1>1. Knows(agent[a], log) /\ Concludes(agent[a], log, status)
  BY DEF LInv, IInv, Copies, Conclusions
<1>2. \A k \in DOMAIN agent[a].queue : /\ RequestedIn(log, agent[a].turn, agent[a].queue[k])
                                       /\ Open(log, agent[a].queue[k])
  BY <1>1 DEF Knows, QueueRequested, Concludes, QueueOpen
<1>3. Quiet(log, more)
  BY PlainQuiet DEF QueueAnswers, Silent, Plain
<1>4. OrderlyOutputs(log, more)
  BY <1>2 DEF QueueAnswers, OrderlyOutputs, Silent
<1>5. OrderlyMarkers(log, more) /\ OrderlySuspensions(log, more)
  BY DEF QueueAnswers, OrderlyMarkers, OrderlySuspensions, Silent
<1>6. QED
  BY <1>3, <1>4, <1>5 DEF Orderly

LEMMA HeadIndex ==
    ASSUME NEW q \in Seq(Calls), q # <<>>
    PROVE  /\ 1 \in DOMAIN q /\ q[1] = Head(q) /\ Head(q) \in Calls
           /\ \A k \in DOMAIN q : k \in Nat /\ k >= 1
  OBVIOUS

LEMMA OneOutput ==
    ASSUME LInv, NEW a \in Agents, agent[a].base = rev, agent[a].pc # "reply",
           agent[a].queue # <<>>, NEW result, result # "skipped"
    PROVE  Orderly(log, <<ToolOutput(agent[a].turn, Current(a), result)>>)
<1> DEFINE item == ToolOutput(agent[a].turn, Current(a), result)
<1>1. agent[a].queue \in Seq(Calls)
  BY DEF LInv, IInv, TypeOK, AgentState
<1>2. 1 \in DOMAIN agent[a].queue /\ agent[a].queue[1] = Current(a)
  BY <1>1, HeadIndex DEF Current
<1>3. /\ item.kind = "output" /\ item.turn = agent[a].turn
      /\ item.call = Current(a) /\ item.result = result
  BY DEF ToolOutput
<1> HIDE DEF item
<1>4. QueueAnswers(a, <<item>>)
  BY <1>2, <1>3 DEF QueueAnswers
<1>5. QED
  BY <1>4, QueueAnswersOrderly DEF item

(* The first call of a working agent's queue is the first open one of its   *)
(* batch.                                                                   *)
LEMMA HeadFirst ==
    ASSUME LInv, NEW a \in Agents, agent[a].base = rev, Working(agent[a]),
           agent[a].queue # <<>>
    PROVE  FirstOpen(log, Current(a))
<1> DEFINE q == agent[a].queue
           c == Current(a)
           t == agent[a].turn
<1>1. /\ q \in Seq(Calls) /\ log \in Seq(TurnItem)
      /\ RequestedOnce(log) /\ BatchesDistinct(log)
  BY DEF LInv, IInv, TypeOK, AgentState, Ledger
<1>2. QueueComplete(agent[a], log)
  BY DEF LInv, Conclusions, Concludes
<1>3. 1 \in DOMAIN q /\ q[1] = c /\ c \in Calls /\ \A k \in DOMAIN q : k \in Nat /\ k >= 1
  BY <1>1, HeadIndex DEF Current
<1>4. PICK last \in LastCallResponse(log, t) : Requests(log, last, c)
  BY <1>2, <1>3 DEF QueueComplete
<1>5. last \in DOMAIN log /\ last \in CallResponses(log, t)
  BY DEF LastCallResponse, CallResponses
<1> SUFFICES ASSUME NEW r \in DOMAIN log, log[r].kind = "response",
                    NEW k \in DOMAIN log[r].calls, NEW l \in DOMAIN log[r].calls,
                    k < l, log[r].calls[l] = c, Open(log, log[r].calls[k])
             PROVE  FALSE
  BY DEF FirstOpen
<1>6. r = last
  <2>1. Requests(log, r, c)
    BY DEF Requests
  <2>2. QED
    BY <1>1, <1>3, <1>4, <1>5, <2>1 DEF RequestedOnce
<1>7. log[r].calls[k] \in CallsOf(log, t)
  BY <1>5, <1>6, CallsOfTurn
<1>8. PICK n \in DOMAIN q : q[n] = log[r].calls[k]
  BY <1>2, <1>7 DEF QueueComplete
<1>9. log[r].calls \in Seq(Calls)
  BY <1>1, ItemFields
<1>10. k \in Nat /\ l \in Nat
  BY <1>9
<1>11. CASE n = 1
  <2>1. k = l
    BY <1>1, <1>3, <1>8, <1>11 DEF BatchesDistinct
  <2>2. QED
    BY <1>10, <2>1
<1>12. CASE n # 1
  <2>1. 1 < n
    BY <1>3, <1>8, <1>12
  <2>2. l < k
    BY <1>2, <1>3, <1>4, <1>6, <1>8, <2>1 DEF QueueComplete
  <2>3. QED
    BY <1>10, <2>2
<1>13. QED
  BY <1>11, <1>12

LEMMA OneMarker ==
    ASSUME LInv, NEW a \in Agents, agent[a].base = rev, agent[a].pc # "reply",
           agent[a].queue # <<>>, Working(agent[a]) \/ Markers(log, Current(a)) # {}
    PROVE  Orderly(log, <<CallStarted(agent[a].turn, Current(a))>>)
<1> DEFINE item == CallStarted(agent[a].turn, Current(a))
<1>1. agent[a].queue \in Seq(Calls)
  BY DEF LInv, IInv, TypeOK, AgentState
<1>2. 1 \in DOMAIN agent[a].queue /\ agent[a].queue[1] = Current(a)
  BY <1>1, HeadIndex DEF Current
<1>3. item.kind = "started" /\ item.turn = agent[a].turn /\ item.call = Current(a)
  BY DEF CallStarted
<1> HIDE DEF item
<1>4. Quiet(log, <<item>>)
  BY <1>3, CurrentRequested DEF Quiet, LInv
<1>5. Open(log, Current(a))
  BY <1>2 DEF LInv, Conclusions, Concludes, QueueOpen
<1>6. OrderlyMarkers(log, <<item>>)
  BY <1>3, <1>5, HeadFirst DEF OrderlyMarkers
<1>7. OrderlyOutputs(log, <<item>>) /\ OrderlySuspensions(log, <<item>>)
  BY <1>3 DEF OrderlyOutputs, OrderlySuspensions
<1>8. QED
  BY <1>4, <1>6, <1>7 DEF item, Orderly

-----------------------------------------------------------------------------
(* Commits of working and of settling agents.                               *)

LEMMA WorkingTurn ==
    ASSUME LInv, NEW a \in Agents, agent[a].base = rev
    PROVE  /\ Working(agent[a]) =>
                  agent[a].turn \in DOMAIN status /\ status[agent[a].turn] = "running"
           /\ Settling(agent[a]) =>
                  agent[a].turn \in DOMAIN status /\ status[agent[a].turn] = "suspended"
  BY DEF LInv, Conclusions, Concludes, TurnKnown

LEMMA SameStatus ==
    ASSUME LInv, NEW t \in DOMAIN status
    PROVE  status = [status EXCEPT ![t] = status[t]]
<1>1. status \in [1..Len(status) -> TurnStatus]
  BY DEF LInv, IInv, TypeOK
<1>2. QED
  BY <1>1

(* A working agent leaves its turn with status x.                           *)
ToItsTurn(a, x, more) ==
    /\ \A j \in DOMAIN more : more[j].turn = agent[a].turn
    /\ \/ SetStatus(agent[a].turn, x)
       \/ x = "running" /\ status' = status
    /\ x \in {"completed", "failed"} =>
           \A c \in CallsOf(log, agent[a].turn) : ~Open(log', c)
    /\ x = "suspended" \/ \A j \in DOMAIN more : more[j].kind # "suspension"

LEMMA WorkingCommit ==
    ASSUME LInv, IInv', NEW a \in Agents, Working(agent[a]),
           NEW s, NEW more \in Seq(TurnItem), OrderlyStep(a, s, more),
           NEW x \in TurnStatus, ToItsTurn(a, x, more)
    PROVE  LInv' /\ FrozenStep
<1> DEFINE t == agent[a].turn
<1>1. log \in Seq(TurnItem) /\ log' = log \o more /\ agent[a].base = rev
  BY DEF LInv, IInv, TypeOK, OrderlyStep, Persist
<1>2. t \in DOMAIN status /\ status[t] = "running" /\ status[t] \notin Closed
  BY <1>1, WorkingTurn DEF Closed
<1>3. status' = [status EXCEPT ![t] = x]
  BY <1>2, SameStatus DEF SetStatus, ToItsTurn
<1>4. ASSUME NEW i \in PendingSuspension(log'), log'[i].turn = t PROVE x = "suspended"
  <2>1. CASE i \in DOMAIN log
    <3>1. i \in PendingSuspension(log) /\ log'[i] = log[i]
      BY <1>1, <2>1, PendingShrinks
    <3>2. status[t] = "suspended"
      BY <1>4, <3>1 DEF LInv, PendingIsSuspended
    <3>3. QED
      BY <1>2, <3>2
  <2>2. CASE i \notin DOMAIN log
    <3>1. i \in DOMAIN log' /\ log'[i].kind = "suspension"
      BY DEF PendingSuspension
    <3>2. PICK j \in DOMAIN more : log'[i] = more[j]
      BY <1>1, <2>2, <3>1, Extend
    <3>3. QED
      BY <3>1, <3>2 DEF ToItsTurn
  <2>3. QED
    BY <2>1, <2>2
<1>5. ToOpenTurn(t, x, more)
  BY <1>2, <1>3, <1>4 DEF ToOpenTurn, ToItsTurn
<1>6. QED
  BY <1>2, <1>5, OrderlyCommit

(* What an agent appends to settle its suspension.                          *)
Settles(a, item) ==
    /\ item.turn = agent[a].turn
    /\ \/ item.kind = "user" /\ item.reply = agent[a].sid /\ agent[a].pc = "reply"
       \/ item.kind = "output" /\ item.call = Current(a)

SettlesItsTurn(a, x, more) ==
    /\ x \notin {"completed", "failed"}
    /\ \A j \in DOMAIN more : more[j].turn = agent[a].turn /\ more[j].kind # "suspension"
    /\ \/ SetStatus(agent[a].turn, x) /\ \E j \in DOMAIN more : Settles(a, more[j])
       \/ x = "suspended" /\ status' = status

LEMMA SettlingCommit ==
    ASSUME LInv, IInv', NEW a \in Agents, Settling(agent[a]),
           NEW s, NEW more \in Seq(TurnItem), OrderlyStep(a, s, more),
           NEW x \in TurnStatus, SettlesItsTurn(a, x, more)
    PROVE  LInv' /\ FrozenStep
<1> DEFINE t == agent[a].turn
<1>1. log \in Seq(TurnItem) /\ log' = log \o more /\ agent[a].base = rev
  BY DEF LInv, IInv, TypeOK, OrderlyStep, Persist
<1>2. t \in DOMAIN status /\ status[t] = "suspended" /\ status[t] \notin Closed
  BY <1>1, WorkingTurn DEF Closed
<1>3. status' = [status EXCEPT ![t] = x]
  BY <1>2, SameStatus DEF SetStatus, SettlesItsTurn
<1>4. ASSUME NEW i \in PendingSuspension(log') PROVE x = "suspended"
  <2>1. i \in DOMAIN log
    <3>1. i \in DOMAIN log' /\ log'[i].kind = "suspension"
      BY DEF PendingSuspension
    <3>2. ASSUME i \notin DOMAIN log PROVE FALSE
      <4>1. PICK j \in DOMAIN more : log'[i] = more[j]
        BY <1>1, <3>1, <3>2, Extend
      <4>2. QED
        BY <3>1, <4>1 DEF SettlesItsTurn
    <3>3. QED
      BY <3>2
  <2>2. /\ i \in PendingSuspension(log)
        /\ \A j \in DOMAIN more :
               more[j].turn = log[i].turn =>
                   /\ ~(more[j].kind = "user" /\ more[j].reply = log[i].sid)
                   /\ ~(more[j].kind = "output" /\ more[j].call = log[i].call)
    BY <1>1, <2>1, PendingShrinks
  <2>3. /\ log[i].turn = t /\ log[i].call = Current(a)
        /\ agent[a].pc = "reply" => log[i].sid = agent[a].sid
    BY <1>1, <2>2 DEF LInv, Conclusions, Concludes, SuspensionKnown, Current
  <2>4. ~\E j \in DOMAIN more : Settles(a, more[j])
    BY <2>2, <2>3 DEF Settles
  <2>5. QED
    BY <2>4 DEF SettlesItsTurn
<1>5. ToOpenTurn(t, x, more)
  BY <1>2, <1>3, <1>4 DEF ToOpenTurn, SettlesItsTurn
<1>6. QED
  BY <1>2, <1>5, OrderlyCommit

(* The step of a commit after which agent a goes on, or ends.               *)
LEMMA GoesOn ==
    ASSUME NEW a \in Agents, NEW more \in Seq(TurnItem), Orderly(log, more),
           NEW next \in AgentState, CommitAndGoto(a, more, next), runs' = runs,
           Concludes(next, log', status'),
           AtCall(next) => Markers(log', Head(next.queue)) # {}
    PROVE  OrderlyStep(a, [next EXCEPT !.base = rev + 1], more)
<1> DEFINE s == [next EXCEPT !.base = rev + 1]
<1>1. Persist(a, more) /\ Goto(a, s)
  BY DEF CommitAndGoto
<1>2. /\ s.base = rev + 1 /\ s.pc = next.pc /\ s.queue = next.queue /\ s.turn = next.turn
      /\ s.mode = next.mode /\ s.result = next.result /\ s.sid = next.sid
  BY DEF AgentState
<1> HIDE DEF s
<1>3. Concludes(s, log', status')
  BY <1>2, SameConclusions
<1>4. AtCall(s) <=> AtCall(next)
  BY <1>2 DEF AtCall
<1>5. OrderlyStep(a, s, more)
  BY <1>1, <1>2, <1>3, <1>4 DEF OrderlyStep
<1>6. QED
  BY <1>5 DEF s

LEMMA Ends ==
    ASSUME NEW a \in Agents, NEW more \in Seq(TurnItem), Orderly(log, more),
           NEW kind, CloseTurn(a, more, kind)
    PROVE  OrderlyStep(a, Idle, more) /\ SetStatus(agent[a].turn, kind)
  BY IdleConcludes DEF CloseTurn, Return, OrderlyStep

(* What the turn is reported as is what it is.                              *)
LEMMA FinishConcludes ==
    ASSUME NEW s, s.pc = "finish", s.queue = <<>>, NEW items, NEW st,
           s.turn \in DOMAIN st, s.result \in DOMAIN StatusOf, st[s.turn] = StatusOf[s.result]
    PROVE  Concludes(s, items, st) /\ ~AtCall(s)
  BY DEF Concludes, TurnKnown, QueueOpen, QueueComplete, SuspensionKnown,
         Working, Settling, AtCall

(* When all calls in its queue are answered, all calls of its turn are.     *)
LEMMA AllAnswered ==
    ASSUME LInv, NEW a \in Agents, agent[a].base = rev, Working(agent[a]),
           NEW more \in Seq(TurnItem),
           \A k \in DOMAIN agent[a].queue : ~Open(log \o more, agent[a].queue[k])
    PROVE  \A c \in CallsOf(log, agent[a].turn) : ~Open(log \o more, c)
<1>1. log \in Seq(TurnItem) /\ QueueComplete(agent[a], log)
  BY DEF LInv, IInv, TypeOK, Conclusions, Concludes
<1> SUFFICES ASSUME NEW c \in CallsOf(log, agent[a].turn), Open(log \o more, c) PROVE FALSE
  OBVIOUS
<1>2. Open(log, c)
  BY <1>1, OutputsGrow
<1>3. QED
  BY <1>1, <1>2 DEF QueueComplete

(* agent's queue is kept from position 1 + d on.                            *)
KeepsQueue(s, next, d) ==
    /\ Working(s) /\ Working(next) /\ next.turn = s.turn
    /\ 1 \in DOMAIN s.queue
    /\ \A k \in DOMAIN next.queue : /\ k \in Nat /\ k >= 1 /\ k + d \in DOMAIN s.queue
                                    /\ next.queue[k] = s.queue[k + d]
    /\ \A k \in DOMAIN s.queue :
           k \in Nat /\ k >= 1 /\ (k <= d \/ (k - d \in Nat /\ k - d \in DOMAIN next.queue))

(* What is appended meanwhile: the output of the call left behind, or a     *)
(* start marker of the first one.                                           *)
OnlyHead(s, more, d) ==
    \A j \in DOMAIN more :
        /\ more[j].kind = "output"  => d = 1 /\ more[j].call = s.queue[1]
        /\ more[j].kind = "started" => d = 0 /\ more[j].call = s.queue[1]

LEMMA QueueKept ==
    ASSUME NEW items \in Seq(TurnItem), NEW more \in Seq(TurnItem), Quiet(items, more),
           NEW s, NEW next, NEW st, NEW new, Concludes(s, items, st),
           NEW d \in {0, 1}, KeepsQueue(s, next, d), OnlyHead(s, more, d),
           d = 1 => ~Open(items \o more, s.queue[1]),
           next.turn \in DOMAIN new, new[next.turn] = "running"
    PROVE  Concludes(next, items \o more, new)
<1> DEFINE all == items \o more
<1>1. /\ Working(s) /\ Working(next) /\ next.turn = s.turn /\ 1 \in DOMAIN s.queue
      /\ \A k \in DOMAIN next.queue : /\ k \in Nat /\ k >= 1 /\ k + d \in DOMAIN s.queue
                                      /\ next.queue[k] = s.queue[k + d]
      /\ \A k \in DOMAIN s.queue :
             k \in Nat /\ k >= 1 /\ (k <= d \/ (k - d \in Nat /\ k - d \in DOMAIN next.queue))
  BY DEF KeepsQueue
<1>2. /\ ~Settling(next) /\ next.pc \notin {"finish", "approve"} /\ s.pc # "reply"
  BY <1>1 DEF Working, Settling, AtCall
<1>3. QueueOpen(s, items) /\ QueueComplete(s, items)
  BY DEF Concludes
<1>4. \A k, l \in DOMAIN s.queue : s.queue[k] = s.queue[l] => k = l
  BY <1>2, <1>3 DEF QueueOpen
<1>5. TurnKnown(next, new) /\ SuspensionKnown(next, all)
  BY <1>2 DEF TurnKnown, SuspensionKnown
<1>6. QueueOpen(next, all)
  <2> SUFFICES ASSUME NEW k \in DOMAIN next.queue
               PROVE  /\ Open(all, next.queue[k])
                      /\ \A l \in DOMAIN next.queue : next.queue[k] = next.queue[l] => k = l
    BY DEF QueueOpen
  <2>1. k + d \in DOMAIN s.queue /\ next.queue[k] = s.queue[k + d]
    BY <1>1
  <2>2. \A j \in DOMAIN more : more[j].kind = "output" => more[j].call # next.queue[k]
    <3>1. ASSUME d = 1 PROVE k + d # 1
      BY <1>1, <3>1
    <3>2. ASSUME d = 1 PROVE s.queue[k + d] # s.queue[1]
      BY <1>1, <1>4, <2>1, <3>1, <3>2
    <3>3. QED
      BY <2>1, <3>2 DEF OnlyHead
  <2>3. Open(items, next.queue[k])
    BY <1>2, <1>3, <2>1 DEF QueueOpen
  <2>4. Open(all, next.queue[k])
    BY <2>2, <2>3, OutputsGrow DEF Open
  <2>5. ASSUME NEW l \in DOMAIN next.queue, next.queue[k] = next.queue[l] PROVE k = l
    <3>1. l + d \in DOMAIN s.queue /\ s.queue[k + d] = s.queue[l + d]
      BY <1>1, <2>1, <2>5
    <3>2. k + d = l + d
      BY <1>4, <2>1, <3>1
    <3>3. QED
      BY <1>1, <3>2
  <2>6. QED
    BY <2>4, <2>5
<1>7. QueueComplete(next, all)
  <2>1. /\ CallsOf(all, next.turn) = CallsOf(items, s.turn)
        /\ LastCallResponse(all, next.turn) = LastCallResponse(items, s.turn)
    BY <1>1, QuietKeepsCalls, QuietKeepsLast
  <2>2. ASSUME NEW c \in CallsOf(items, s.turn), Open(all, c)
        PROVE  \E k \in DOMAIN next.queue : next.queue[k] = c
    <3>1. Open(items, c)
      BY <2>2, OutputsGrow
    <3>2. PICK k \in DOMAIN s.queue : s.queue[k] = c
      BY <1>1, <1>3, <2>2, <3>1 DEF QueueComplete
    <3>3. ASSUME k <= d PROVE FALSE
      <4>1. k >= 1
        BY <1>1, <3>2
      <4>2. k = 1 /\ d = 1
        BY <1>1, <3>3, <4>1
      <4>3. QED
        BY <2>2, <3>2, <4>2
    <3>4. k - d \in DOMAIN next.queue /\ k - d + d = k
      BY <1>1, <3>3
    <3>5. next.queue[k - d] = s.queue[k]
      BY <1>1, <3>4
    <3>6. QED
      BY <3>2, <3>4, <3>5
  <2>3. ASSUME NEW k \in DOMAIN next.queue
        PROVE  /\ \E r \in LastCallResponse(items, s.turn) : Requests(all, r, next.queue[k])
               /\ k > 1 => Markers(all, next.queue[k]) = {}
    <3>1. k + d \in DOMAIN s.queue /\ next.queue[k] = s.queue[k + d]
      BY <1>1
    <3>2. PICK r \in LastCallResponse(items, s.turn) : Requests(items, r, s.queue[k + d])
      BY <1>1, <1>3, <3>1 DEF QueueComplete
    <3>3. r \in DOMAIN items
      BY DEF LastCallResponse, CallResponses
    <3>4. Requests(all, r, next.queue[k])
      BY <3>1, <3>2, <3>3, RequestsKept
    <3>5. ASSUME k > 1, Markers(all, next.queue[k]) # {} PROVE FALSE
      <4>1. k + d > 1 /\ k + d # 1
        BY <1>1, <3>5
      <4>2. Markers(items, next.queue[k]) = {}
        BY <1>1, <1>3, <3>1, <4>1 DEF QueueComplete
      <4>3. PICK j \in DOMAIN more : more[j].kind = "started" /\ more[j].call = next.queue[k]
        BY <3>5, <4>2, MarkersFrom
      <4>4. s.queue[k + d] = s.queue[1]
        BY <3>1, <4>3 DEF OnlyHead
      <4>5. QED
        BY <1>1, <1>4, <3>1, <4>1, <4>4
    <3>6. QED
      BY <3>2, <3>4, <3>5
  <2>4. ASSUME NEW r \in LastCallResponse(items, s.turn),
               NEW k \in DOMAIN next.queue, NEW l \in DOMAIN next.queue,
               NEW m \in DOMAIN all[r].calls, NEW n \in DOMAIN all[r].calls,
               k < l, next.queue[k] = all[r].calls[m], next.queue[l] = all[r].calls[n]
        PROVE  m < n
    <3>1. all[r] = items[r]
      BY Extend DEF LastCallResponse, CallResponses
    <3>2. /\ k + d \in DOMAIN s.queue /\ l + d \in DOMAIN s.queue /\ k + d < l + d
          /\ s.queue[k + d] = items[r].calls[m] /\ s.queue[l + d] = items[r].calls[n]
      BY <1>1, <2>4, <3>1
    <3>3. QED
      BY <1>1, <1>3, <3>1, <3>2 DEF QueueComplete
  <2>5. QED
    BY <2>1, <2>2, <2>3, <2>4 DEF QueueComplete
<1>8. QED
  BY <1>5, <1>6, <1>7 DEF Concludes

(* The two ways a working agent's turn gets its new status: with the end of *)
(* the operation, or with one commit left to make.                          *)
TurnItems(a, x, more) ==
    /\ Orderly(log, more)
    /\ \A j \in DOMAIN more : more[j].turn = agent[a].turn
    /\ x = "suspended" \/ \A j \in DOMAIN more : more[j].kind # "suspension"
    /\ x \in {"completed", "failed"} =>
           \A k \in DOMAIN agent[a].queue : ~Open(log \o more, agent[a].queue[k])

LEMMA ItsTurn ==
    ASSUME LInv, NEW a \in Agents, Working(agent[a]), NEW more \in Seq(TurnItem),
           Persist(a, more), NEW x, SetStatus(agent[a].turn, x), TurnItems(a, x, more)
    PROVE  ToItsTurn(a, x, more)
<1>1. agent[a].base = rev /\ log' = log \o more
  BY DEF Persist
<1>2. x \in {"completed", "failed"} => \A c \in CallsOf(log, agent[a].turn) : ~Open(log', c)
  BY <1>1, AllAnswered DEF TurnItems
<1>3. QED
  BY <1>2 DEF ToItsTurn, TurnItems

LEMMA WorkingCloses ==
    ASSUME LInv, IInv', NEW a \in Agents, Working(agent[a]),
           NEW more \in Seq(TurnItem), NEW x \in TurnStatus,
           TurnItems(a, x, more), CloseTurn(a, more, x)
    PROVE  LInv' /\ FrozenStep
<1>1. OrderlyStep(a, Idle, more) /\ SetStatus(agent[a].turn, x)
  BY Ends DEF TurnItems
<1>2. ToItsTurn(a, x, more)
  BY <1>1, ItsTurn DEF CloseTurn
<1>3. QED
  BY <1>1, <1>2, WorkingCommit

LEMMA WorkingFinishes ==
    ASSUME LInv, IInv', NEW a \in Agents, Working(agent[a]),
           NEW more \in Seq(TurnItem), NEW x \in TurnStatus, TurnItems(a, x, more),
           NEW next \in AgentState, next.pc = "finish", next.queue = <<>>,
           next.turn = agent[a].turn,
           next.result \in DOMAIN StatusOf, x = StatusOf[next.result],
           CommitAndGoto(a, more, next), SetStatus(agent[a].turn, x), runs' = runs
    PROVE  LInv' /\ FrozenStep
<1> DEFINE s == [next EXCEPT !.base = rev + 1]
<1>1. Persist(a, more) /\ agent[a].base = rev /\ status \in Seq(TurnStatus)
  BY DEF CommitAndGoto, Persist, LInv, IInv, TypeOK
<1>2. agent[a].turn \in DOMAIN status
  BY <1>1, WorkingTurn
<1>3. next.turn \in DOMAIN status' /\ status'[next.turn] = x
  BY <1>1, <1>2 DEF SetStatus
<1>4. Concludes(next, log', status') /\ ~AtCall(next)
  BY <1>3, FinishConcludes
<1>5. OrderlyStep(a, s, more)
  BY <1>4, GoesOn DEF TurnItems
<1>6. ToItsTurn(a, x, more)
  BY <1>1, ItsTurn
<1> HIDE DEF s
<1>7. QED
  BY <1>5, <1>6, WorkingCommit

LEMMA SilentTurnItems ==
    ASSUME NEW a \in Agents, agent[a].queue = <<>>, NEW x, NEW item, Silent(item),
           item.turn = agent[a].turn
    PROVE  TurnItems(a, x, <<item>>)
<1>1. Orderly(log, <<item>>)
  BY OneSilent
<1>2. QED
  BY <1>1 DEF TurnItems, Silent

LEMMA ModelEndsLedger ==
    ASSUME LInv, IInv', NEW a \in Agents,
           \/ IterationsExhausted(a) \/ AbortModel(a) \/ ModelFails(a) \/ ModelAnswers(a)
    PROVE  LInv' /\ FrozenStep
<1>0. Shape(a)
  BY Typed DEF LInv, IInv
<1>1. /\ agent[a].pc \in {"model", "asking"} /\ agent[a].queue = <<>>
      /\ Working(agent[a])
  BY <1>0 DEF IterationsExhausted, AbortModel, ModelFails, ModelAnswers, Asking, Shape,
              WellFormed, Working
<1>2. CASE IterationsExhausted(a) \/ ModelFails(a)
  <2> DEFINE more == <<TurnFailed(agent[a].turn)>>
  <2>1. more \in Seq(TurnItem) /\ "failed" \in TurnStatus
    BY <1>0, Appended DEF Shape, TurnStatus, Closed
  <2>2. TurnItems(a, "failed", more)
    BY <1>1, SilentItems, SilentTurnItems
  <2>3. CloseTurn(a, more, "failed")
    BY <1>2 DEF IterationsExhausted, ModelFails
  <2> HIDE DEF more
  <2>4. QED
    BY <1>1, <2>1, <2>2, <2>3, WorkingCloses
<1>3. CASE AbortModel(a)
  <2> DEFINE more == <<TurnAborted(agent[a].turn)>>
  <2>1. more \in Seq(TurnItem) /\ "aborted" \in TurnStatus
    BY <1>0, Appended DEF Shape, TurnStatus, Closed
  <2>2. TurnItems(a, "aborted", more)
    BY <1>1, SilentItems, SilentTurnItems
  <2>3. CloseTurn(a, more, "aborted")
    BY <1>3 DEF AbortModel
  <2> HIDE DEF more
  <2>4. QED
    BY <1>1, <2>1, <2>2, <2>3, WorkingCloses
<1>4. CASE ModelAnswers(a)
  <2> DEFINE more == <<ModelResponse(agent[a].turn, <<>>)>>
             next == [agent[a] EXCEPT !.pc = "finish", !.result = "message"]
  <2>1. more \in Seq(TurnItem) /\ "completed" \in TurnStatus
    BY <1>0, Appended DEF Shape, TurnStatus, Closed
  <2>2. TurnItems(a, "completed", more)
    BY <1>1, SilentItems, SilentTurnItems
  <2>3. /\ next \in AgentState /\ next.pc = "finish" /\ next.queue = <<>>
        /\ next.turn = agent[a].turn /\ next.result = "message"
    BY <1>0, <1>1 DEF Shape, AgentState, PC, Outcomes
  <2>4. /\ CommitAndGoto(a, more, next) /\ SetStatus(agent[a].turn, "completed")
        /\ runs' = runs
    BY <1>4 DEF ModelAnswers
  <2>5. "message" \in DOMAIN StatusOf /\ StatusOf["message"] = "completed"
    BY DEF StatusOf
  <2> HIDE DEF more, next
  <2>6. QED
    BY <1>1, <2>1, <2>2, <2>3, <2>4, <2>5, WorkingFinishes
<1>5. QED
  BY <1>2, <1>3, <1>4

(* Outputs for a whole queue.                                               *)
LEMMA QueueOutputs ==
    ASSUME NEW t, NEW q \in Seq(Calls), NEW result
    PROVE  /\ DOMAIN OutputsFor(t, q, result) = DOMAIN q
           /\ \A k \in DOMAIN q : /\ OutputsFor(t, q, result)[k].kind = "output"
                                  /\ OutputsFor(t, q, result)[k].turn = t
                                  /\ OutputsFor(t, q, result)[k].call = q[k]
                                  /\ OutputsFor(t, q, result)[k].result = result
  BY DEF OutputsFor, ToolOutput

LEMMA LimitLedger ==
    ASSUME LInv, IInv', NEW a \in Agents, LimitReached(a)
    PROVE  LInv' /\ FrozenStep
<1>0. Shape(a)
  BY Typed DEF LInv, IInv
<1> DEFINE t    == agent[a].turn
           q    == agent[a].queue
           next == [agent[a] EXCEPT !.pc = "finish", !.result = "failed", !.queue = <<>>]
           outs == OutputsFor(t, q, "skipped")
           item == TurnFailed(t)
           more == Append(outs, item)
<1>1. /\ next \in AgentState /\ next.pc = "finish" /\ next.queue = <<>>
      /\ next.turn = t /\ next.result = "failed"
  BY <1>0 DEF Shape, AgentState, PC, Outcomes
<1>2. /\ outs \in Seq(TurnItem) /\ item \in TurnItem /\ q \in Seq(Calls)
  BY <1>0, OutputsForType, EndTypes DEF Shape, ToolResult
<1>3. /\ DOMAIN outs = DOMAIN q
      /\ \A k \in DOMAIN q : /\ outs[k].kind = "output" /\ outs[k].turn = t
                             /\ outs[k].call = q[k] /\ outs[k].result = "skipped"
  BY <1>2, QueueOutputs
<1>4. item.turn = t /\ Silent(item) /\ item.kind = "turnFailed"
  BY SilentItems DEF TurnFailed
<1>5. /\ CommitAndGoto(a, more, next) /\ SetStatus(t, "failed") /\ runs' = runs
      /\ agent[a].pc = "calls" /\ agent[a].base = rev
  BY DEF LimitReached, CommitAndGoto, Persist
<1> HIDE DEF next, outs, item
<1>6. /\ more \in Seq(TurnItem)
      /\ \A j \in DOMAIN more : \/ more[j] = item
                                \/ j \in DOMAIN q /\ more[j] = outs[j]
      /\ \A k \in DOMAIN q : k \in DOMAIN more /\ more[k] = outs[k]
  BY <1>2, <1>3
<1> HIDE DEF more
<1>7. /\ \A k, l \in DOMAIN q : q[k] = q[l] => k = l
      /\ \A k \in DOMAIN q : Markers(log, q[k]) = {}
  <2>1. QueueOpen(agent[a], log)
    BY <1>5 DEF LInv, Conclusions, Concludes
  <2>2. agent[a].mode = "live"
    BY <1>0, <1>5 DEF Shape, WellFormed
  <2>3. LiveQueue(agent[a], log)
    BY <1>5 DEF LInv, IInv, Copies, Knows
  <2>4. QED
    BY <1>5, <2>1, <2>2, <2>3 DEF QueueOpen, LiveQueue
<1>8. QueueAnswers(a, more)
  <2>1. ASSUME NEW i \in DOMAIN more, NEW j \in DOMAIN more, more[i].kind = "output",
               more[j].kind = "output", more[i].call = more[j].call
        PROVE  i = j
    BY <1>3, <1>4, <1>6, <1>7, <2>1
  <2>2. ASSUME NEW j \in DOMAIN more, ~Silent(more[j])
        PROVE  /\ more[j].kind = "output" /\ more[j].turn = agent[a].turn
               /\ \E k \in DOMAIN agent[a].queue :
                      /\ more[j].call = agent[a].queue[k]
                      /\ more[j].result = "skipped" => Markers(log, agent[a].queue[k]) = {}
    <3>1. j \in DOMAIN q /\ more[j] = outs[j]
      BY <1>4, <1>6, <2>2
    <3>2. QED
      BY <1>3, <1>7, <3>1
  <2>3. QED
    BY <2>1, <2>2 DEF QueueAnswers
<1>9. Working(agent[a]) /\ Orderly(log, more)
  BY <1>5, <1>6, <1>8, QueueAnswersOrderly DEF Working
<1>10. TurnItems(a, "failed", more)
  <2>1. \A j \in DOMAIN more : more[j].turn = t /\ more[j].kind # "suspension"
    BY <1>3, <1>4, <1>6
  <2>2. ASSUME NEW k \in DOMAIN q PROVE ~Open(log \o more, q[k])
    <3>1. k \in DOMAIN more /\ more[k].kind = "output" /\ more[k].call = q[k]
      BY <1>3, <1>6
    <3>2. QED
      BY <1>0, <1>6, <3>1, OutputAppended DEF Shape
  <2>3. QED
    BY <1>9, <2>1, <2>2 DEF TurnItems
<1>11. /\ "failed" \in TurnStatus /\ "failed" \in DOMAIN StatusOf
       /\ StatusOf["failed"] = "failed"
  BY DEF TurnStatus, Closed, StatusOf
<1>12. QED
  BY <1>1, <1>5, <1>6, <1>9, <1>10, <1>11, WorkingFinishes

-----------------------------------------------------------------------------
(* A call that ends its turn, or suspends it.                               *)

LEMMA AbortLedger ==
    ASSUME LInv, IInv', NEW a \in Agents, AbortCall(a)
    PROVE  LInv' /\ FrozenStep
<1>0. Shape(a)
  BY Typed DEF LInv, IInv
<1> DEFINE t    == agent[a].turn
           q    == agent[a].queue
           next == [agent[a] EXCEPT !.pc = "finish", !.result = "aborted", !.queue = <<>>]
           outs == OutputsFor(t, q, "aborted")
           item == TurnAborted(t)
           more == <<item>> \o outs
<1>1. /\ next \in AgentState /\ next.pc = "finish" /\ next.queue = <<>>
      /\ next.turn = t /\ next.result = "aborted"
  BY <1>0 DEF Shape, AgentState, PC, Outcomes
<1>2. /\ outs \in Seq(TurnItem) /\ item \in TurnItem /\ q \in Seq(Calls)
      /\ <<item>> \in Seq(TurnItem)
  BY <1>0, OutputsForType, EndTypes, Appended DEF Shape, ToolResult
<1>3. /\ DOMAIN outs = DOMAIN q
      /\ \A k \in DOMAIN q : /\ outs[k].kind = "output" /\ outs[k].turn = t
                             /\ outs[k].call = q[k] /\ outs[k].result = "aborted"
  BY <1>2, QueueOutputs
<1>4. item.turn = t /\ Silent(item) /\ item.kind = "turnAborted"
  BY SilentItems DEF TurnAborted
<1>5. /\ agent[a].pc \in {"exec", "running"} /\ agent[a].base = rev
      /\ agent[a].mode \in {"live", "recover", "approve"} /\ q # <<>>
      /\ IF agent[a].mode = "recover"
         THEN CommitAndGoto(a, more, next) /\ SetStatus(t, "aborted") /\ runs' = runs
         ELSE CloseTurn(a, more, "aborted")
  BY <1>0 DEF AbortCall, CommitAndGoto, CloseTurn, Persist, Shape, WellFormed, AgentState
<1> HIDE DEF next, outs, item
<1>6. /\ more \in Seq(TurnItem)
      /\ \A j \in DOMAIN more : \/ more[j] = item
                                \/ \E k \in DOMAIN q : j = k + 1 /\ more[j] = outs[k]
      /\ \A k \in DOMAIN q : k + 1 \in DOMAIN more /\ more[k + 1] = outs[k]
  <2> DEFINE n == Len(outs)
  <2>1. n \in Nat /\ DOMAIN outs = 1..n
    BY <1>2
  <2>2. /\ more \in Seq(TurnItem) /\ DOMAIN more = 1..(n + 1) /\ more[1] = item
        /\ \A k \in 1..n : more[k + 1] = outs[k]
    BY <1>2
  <2> HIDE DEF more, n
  <2>3. ASSUME NEW j \in DOMAIN more, j # 1
        PROVE  \E k \in DOMAIN q : j = k + 1 /\ more[j] = outs[k]
    <3>1. j - 1 \in DOMAIN q /\ j = (j - 1) + 1
      BY <1>3, <2>1, <2>2, <2>3
    <3>2. QED
      BY <1>3, <2>1, <2>2, <3>1
  <2>4. \A k \in DOMAIN q : k + 1 \in DOMAIN more /\ more[k + 1] = outs[k]
    BY <1>3, <2>1, <2>2
  <2>5. QED
    BY <2>2, <2>3, <2>4
<1> HIDE DEF more
<1>7. \A k, l \in DOMAIN q : q[k] = q[l] => k = l
  BY <1>5 DEF LInv, Conclusions, Concludes, QueueOpen
<1>8. QueueAnswers(a, more)
  <2>1. ASSUME NEW i \in DOMAIN more, NEW j \in DOMAIN more, more[i].kind = "output",
               more[j].kind = "output", more[i].call = more[j].call
        PROVE  i = j
    <3>1. PICK k \in DOMAIN q : i = k + 1 /\ more[i] = outs[k]
      BY <1>4, <1>6, <2>1
    <3>2. PICK l \in DOMAIN q : j = l + 1 /\ more[j] = outs[l]
      BY <1>4, <1>6, <2>1
    <3>3. QED
      BY <1>3, <1>7, <2>1, <3>1, <3>2
  <2>2. ASSUME NEW j \in DOMAIN more, ~Silent(more[j])
        PROVE  /\ more[j].kind = "output" /\ more[j].turn = agent[a].turn
               /\ \E k \in DOMAIN agent[a].queue :
                      /\ more[j].call = agent[a].queue[k]
                      /\ more[j].result = "skipped" => Markers(log, agent[a].queue[k]) = {}
    BY <1>3, <1>4, <1>6, <2>2
  <2>3. QED
    BY <2>1, <2>2 DEF QueueAnswers
<1>9. Orderly(log, more) /\ \A j \in DOMAIN more : more[j].turn = t /\ more[j].kind # "suspension"
  <2>1. Orderly(log, more)
    BY <1>5, <1>6, <1>8, QueueAnswersOrderly
  <2>2. QED
    BY <1>3, <1>4, <1>6, <2>1
<1>10. /\ "aborted" \in TurnStatus /\ "aborted" \in DOMAIN StatusOf
       /\ StatusOf["aborted"] = "aborted"
  BY DEF TurnStatus, Closed, StatusOf
<1>11. CASE agent[a].mode \in {"live", "recover"}
  <2>1. Working(agent[a])
    BY <1>5, <1>11 DEF Working, AtCall
  <2>2. TurnItems(a, "aborted", more)
    BY <1>9 DEF TurnItems
  <2>3. QED
    BY <1>1, <1>5, <1>6, <1>10, <2>1, <2>2, WorkingFinishes, WorkingCloses
<1>12. CASE agent[a].mode = "approve"
  <2>1. Settling(agent[a]) /\ CloseTurn(a, more, "aborted")
    BY <1>5, <1>12 DEF Settling, AtCall
  <2>2. 1 \in DOMAIN q /\ q[1] = Current(a)
    BY <1>2, <1>5, HeadIndex DEF Current
  <2>3. \E j \in DOMAIN more : Settles(a, more[j])
    <3>1. 1 + 1 \in DOMAIN more /\ Settles(a, more[1 + 1])
      BY <1>3, <1>6, <2>2 DEF Settles
    <3>2. QED
      BY <3>1
  <2>4. OrderlyStep(a, Idle, more) /\ SetStatus(t, "aborted")
    BY <1>6, <1>9, <2>1, Ends
  <2>5. SettlesItsTurn(a, "aborted", more)
    BY <1>9, <2>3, <2>4 DEF SettlesItsTurn
  <2>6. QED
    BY <1>6, <1>10, <2>1, <2>4, <2>5, SettlingCommit
<1>13. QED
  BY <1>5, <1>11, <1>12

LEMMA SuspendLedger ==
    ASSUME LInv, IInv', NEW a \in Agents,
           \/ SuspendRecovery(a)
           \/ \E deferred \in BOOLEAN : SuspendCall(a, FALSE, deferred)
           \/ SuspendCall(a, TRUE, FALSE)
    PROVE  LInv' /\ FrozenStep
<1>0. Shape(a)
  BY Typed DEF LInv, IInv
<1> DEFINE t    == agent[a].turn
           q    == agent[a].queue
           next == [agent[a] EXCEPT !.pc = "finish", !.result = "suspended",
                                    !.newSid = rev + 1, !.queue = <<>>]
           susp(d) == Suspension(t, rev + 1, Current(a), d)
<1>1. /\ next \in AgentState /\ next.pc = "finish" /\ next.queue = <<>>
      /\ next.turn = t /\ next.result = "suspended"
  BY <1>0 DEF Shape, AgentState, PC, Outcomes
<1>2. /\ "suspended" \in TurnStatus /\ "suspended" \in DOMAIN StatusOf
      /\ StatusOf["suspended"] = "suspended"
  BY DEF TurnStatus, StatusOf
<1>3. /\ agent[a].base = rev /\ q # <<>> /\ q \in Seq(Calls) /\ Working(agent[a])
      /\ agent[a].pc # "reply"
  BY <1>0 DEF SuspendRecovery, SuspendCall, CommitAndGoto, Persist, Shape, WellFormed,
              AgentState, Working, AtCall
<1>4. /\ 1 \in DOMAIN q /\ q[1] = Current(a) /\ Current(a) \in Calls
      /\ \A k \in DOMAIN q : k \in Nat /\ k >= 1
  BY <1>3, HeadIndex DEF Current
<1>5. Concludes(agent[a], log, status) /\ QueueOpen(agent[a], log) /\ QueueComplete(agent[a], log)
  BY <1>3 DEF LInv, Conclusions, Concludes
<1>6. /\ \A k, l \in DOMAIN q : q[k] = q[l] => k = l
      /\ \A k \in DOMAIN q : Open(log, q[k]) /\ RequestedIn(log, t, q[k])
      /\ \A k \in DOMAIN q : k > 1 => Markers(log, q[k]) = {}
  <2>1. \A k \in DOMAIN q : RequestedIn(log, t, q[k])
    BY <1>3 DEF LInv, IInv, Copies, Knows, QueueRequested
  <2>2. QED
    BY <1>3, <1>5, <2>1 DEF QueueOpen, QueueComplete
<1>7. \A d \in BOOLEAN :
          /\ susp(d) \in TurnItem /\ susp(d).kind = "suspension" /\ susp(d).turn = t
          /\ susp(d).call = Current(a) /\ susp(d).deferred = d
  BY <1>0, <1>4, ItemTypes DEF Shape, Suspension
<1>8. ASSUME NEW more \in Seq(TurnItem), Orderly(log, more),
             \A j \in DOMAIN more : more[j].turn = t,
             CommitAndGoto(a, more, next), SetStatus(t, "suspended"), runs' = runs
      PROVE  LInv' /\ FrozenStep
  <2>1. TurnItems(a, "suspended", more)
    BY <1>8 DEF TurnItems
  <2> HIDE DEF next
  <2>2. QED
    BY <1>1, <1>2, <1>3, <1>8, <2>1, WorkingFinishes
<1>9. CASE SuspendRecovery(a)
  <2> DEFINE item == susp(TRUE)
  <2>1. /\ item \in TurnItem /\ item.kind = "suspension" /\ item.turn = t
        /\ item.call = Current(a)
    BY <1>7
  <2>2. CommitAndGoto(a, <<item>>, next) /\ SetStatus(t, "suspended") /\ runs' = runs
    BY <1>9 DEF SuspendRecovery
  <2> HIDE DEF item, next
  <2>3. Markers(log, Current(a)) # {}
    BY <1>9 DEF SuspendRecovery, NeedsReconciliation, StartedInTurn, Markers
  <2>4. Quiet(log, <<item>>)
    BY <1>4, <1>6, <2>1 DEF Quiet
  <2>5. /\ OrderlyOutputs(log, <<item>>) /\ OrderlyMarkers(log, <<item>>)
        /\ OrderlySuspensions(log, <<item>>)
    BY <1>4, <1>6, <2>1, <2>3 DEF OrderlyOutputs, OrderlyMarkers, OrderlySuspensions
  <2>6. Orderly(log, <<item>>)
    BY <2>4, <2>5 DEF Orderly
  <2>7. <<item>> \in Seq(TurnItem) /\ \A j \in DOMAIN <<item>> : <<item>>[j].turn = t
    BY <2>1
  <2>8. QED
    BY <1>8, <2>2, <2>6, <2>7
<1>10. ASSUME NEW executed \in BOOLEAN, NEW deferred \in BOOLEAN, ~(executed /\ deferred),
              SuspendCall(a, executed, deferred)
       PROVE  LInv' /\ FrozenStep
  <2> DEFINE item   == susp(deferred)
             answer == ToolOutput(t, Current(a), "success")
             output == IF executed /\ agent[a].mode = "live" THEN <<answer>> ELSE <<>>
             rest   == OutputsFor(t, Tail(q), "skipped")
             more   == output \o <<item>> \o rest
             o      == Len(output)
  <2>1. /\ item \in TurnItem /\ item.kind = "suspension" /\ item.turn = t
        /\ item.call = Current(a) /\ item.deferred = deferred
    BY <1>7
  <2>2. /\ answer \in TurnItem /\ answer.kind = "output" /\ answer.turn = t
        /\ answer.call = Current(a) /\ answer.result # "skipped"
    BY <1>0, <1>4, ItemTypes DEF Shape, ToolResult, ToolOutput
  <2>3. CommitAndGoto(a, more, next) /\ SetStatus(t, "suspended") /\ runs' = runs
    BY <1>10 DEF SuspendCall
  <2>4. /\ output \in Seq(TurnItem) /\ o \in Nat
        /\ \A j \in DOMAIN output : j = 1 /\ output[j] = answer
        /\ deferred => output = <<>>
    <3> HIDE DEF answer
    <3>1. <<answer>> \in Seq(TurnItem) /\ <<>> \in Seq(TurnItem)
      BY <2>2
    <3>2. QED
      BY <1>10, <3>1
  <2>5. /\ rest \in Seq(TurnItem) /\ DOMAIN rest = DOMAIN Tail(q)
        /\ \A k \in DOMAIN Tail(q) :
               /\ k \in Nat /\ k >= 1 /\ k + 1 \in DOMAIN q
               /\ rest[k].kind = "output" /\ rest[k].turn = t
               /\ rest[k].call = q[k + 1] /\ rest[k].result = "skipped"
    <3>1. Tail(q) \in Seq(Calls)
      BY <1>3
    <3>2. rest \in Seq(TurnItem)
      BY <1>0, <3>1, OutputsForType DEF Shape, ToolResult
    <3>3. /\ DOMAIN rest = DOMAIN Tail(q)
          /\ \A k \in DOMAIN Tail(q) :
                 /\ rest[k].kind = "output" /\ rest[k].turn = t
                 /\ rest[k].call = Tail(q)[k] /\ rest[k].result = "skipped"
      <4> DEFINE later == Tail(q)
      <4> HIDE DEF later
      <4>1. later \in Seq(Calls)
        BY <3>1 DEF later
      <4>2. /\ DOMAIN OutputsFor(t, later, "skipped") = DOMAIN later
            /\ \A k \in DOMAIN later :
                   /\ OutputsFor(t, later, "skipped")[k].kind = "output"
                   /\ OutputsFor(t, later, "skipped")[k].turn = t
                   /\ OutputsFor(t, later, "skipped")[k].call = later[k]
                   /\ OutputsFor(t, later, "skipped")[k].result = "skipped"
        BY <4>1, QueueOutputs
      <4>3. QED
        BY <4>2, Zenon DEF later
    <3>4. \A k \in DOMAIN Tail(q) : /\ k \in Nat /\ k >= 1 /\ k + 1 \in DOMAIN q
                                     /\ Tail(q)[k] = q[k + 1]
      BY <1>3, TailIndices
    <3> HIDE DEF rest, q
    <3>5. QED
      BY <3>2, <3>3, <3>4
  <2> HIDE DEF item, answer, output, rest, next
  <2>6. more \in Seq(TurnItem)
    BY <2>1, <2>4, <2>5
  <2>7. \A j \in DOMAIN more :
            \/ j \in DOMAIN output /\ j = 1 /\ more[j] = answer
            \/ j = o + 1 /\ more[j] = item
            \/ \E k \in DOMAIN rest : j = o + 1 + k /\ more[j] = rest[k]
    <3>1. /\ DOMAIN output = 1..o /\ o \in Nat /\ Len(rest) \in Nat
          /\ DOMAIN rest = 1..Len(rest)
          /\ DOMAIN more = 1..(o + 1 + Len(rest))
      BY <2>1, <2>4, <2>5
    <3>2. /\ \A j \in DOMAIN output : more[j] = output[j]
          /\ more[o + 1] = item
          /\ \A k \in DOMAIN rest : more[o + 1 + k] = rest[k]
      BY <2>1, <2>4, <2>5
    <3> HIDE DEF more, o
    <3> SUFFICES ASSUME NEW j \in DOMAIN more, j \notin DOMAIN output, j # o + 1
                 PROVE  \E k \in DOMAIN rest : j = o + 1 + k /\ more[j] = rest[k]
      BY <2>4, <3>2
    <3>3. j - o - 1 \in DOMAIN rest /\ j = o + 1 + (j - o - 1)
      BY <3>1
    <3>4. QED
      BY <3>2, <3>3
  <2> HIDE DEF more, o
  <2>8. \A j \in DOMAIN more : more[j].turn = t /\ more[j].kind \in {"output", "suspension"}
    BY <2>1, <2>2, <2>5, <2>7
  <2>9. ASSUME NEW j \in DOMAIN more, more[j].kind = "output"
        PROVE  \/ j \in DOMAIN output /\ j = 1 /\ more[j] = answer /\ more[j].call = q[1]
               \/ \E k \in DOMAIN rest :
                      /\ j = o + 1 + k /\ k + 1 \in DOMAIN q
                      /\ more[j].call = q[k + 1] /\ more[j].result = "skipped"
    BY <1>4, <2>1, <2>2, <2>5, <2>7, <2>9
  <2>10. OrderlyOutputs(log, more)
    <3>1. ASSUME NEW j \in DOMAIN more, more[j].kind = "output"
          PROVE  /\ RequestedIn(log, more[j].turn, more[j].call)
                 /\ Open(log, more[j].call)
                 /\ more[j].result = "skipped" => Markers(log, more[j].call) = {}
      <4>1. CASE more[j] = answer
        BY <1>4, <1>6, <2>2, <4>1
      <4>2. ASSUME NEW k \in DOMAIN rest, k + 1 \in DOMAIN q, more[j].call = q[k + 1]
            PROVE  /\ RequestedIn(log, more[j].turn, more[j].call)
                   /\ Open(log, more[j].call)
                   /\ more[j].result = "skipped" => Markers(log, more[j].call) = {}
        <5>1. k + 1 > 1
          BY <2>5, <4>2
        <5>2. QED
          BY <1>6, <2>8, <4>2, <5>1
      <4>3. QED
        BY <2>9, <3>1, <4>1, <4>2
    <3>2. ASSUME NEW i \in DOMAIN more, NEW j \in DOMAIN more, more[i].kind = "output",
                 more[j].kind = "output", more[i].call = more[j].call
          PROVE  i = j
      <4>1. ASSUME NEW m \in DOMAIN more, NEW n \in DOMAIN more, more[m].call = more[n].call,
                   more[m].call = q[1],
                   NEW k \in DOMAIN rest, k + 1 \in DOMAIN q, more[n].call = q[k + 1]
            PROVE  FALSE
        <5>1. q[k + 1] = q[1]
          BY <4>1
        <5>2. k + 1 = 1
          BY <1>4, <1>6, <4>1, <5>1
        <5>3. k \in Nat /\ k >= 1
          BY <2>5
        <5>4. QED
          BY <5>2, <5>3
      <4>2. ASSUME NEW k \in DOMAIN rest, NEW l \in DOMAIN rest,
                   i = o + 1 + k, k + 1 \in DOMAIN q, more[i].call = q[k + 1],
                   j = o + 1 + l, l + 1 \in DOMAIN q, more[j].call = q[l + 1]
            PROVE  i = j
        <5>1. k + 1 = l + 1
          BY <1>6, <3>2, <4>2
        <5>2. k \in Nat /\ l \in Nat
          BY <2>5
        <5>3. QED
          BY <4>2, <5>1, <5>2
      <4>3. QED
        BY <2>9, <3>2, <4>1, <4>2
    <3>3. QED
      BY <3>1, <3>2 DEF OrderlyOutputs
  <2>11. OrderlySuspensions(log, more)
    <3>1. Markers(log, Current(a)) # {}
      BY <1>10 DEF SuspendCall, LInv, StartsMarked
    <3>2. ASSUME deferred, NEW i \in DOMAIN more, more[i].kind = "output"
          PROVE  more[i].call # Current(a)
      <4>1. DOMAIN output = {}
        BY <2>4, <3>2
      <4>2. PICK k \in DOMAIN rest : k + 1 \in DOMAIN q /\ more[i].call = q[k + 1]
        BY <2>9, <3>2, <4>1
      <4>3. k + 1 # 1
        BY <2>5, <4>2
      <4>4. QED
        BY <1>4, <1>6, <4>2, <4>3
    <3>3. \A j \in DOMAIN more : more[j].kind = "suspension" => more[j] = item
      BY <2>2, <2>5, <2>7
    <3>4. Open(log, Current(a))
      BY <1>4, <1>6
    <3>5. QED
      BY <2>1, <3>1, <3>2, <3>3, <3>4 DEF OrderlySuspensions
  <2>12. OrderlyMarkers(log, more) /\ Quiet(log, more)
    <3>1. \A j \in DOMAIN more : more[j].kind = "suspension" => more[j].call = Current(a)
      BY <2>1, <2>2, <2>5, <2>7
    <3>2. QED
      BY <1>4, <1>6, <2>8, <3>1 DEF OrderlyMarkers, Quiet
  <2>13. Orderly(log, more)
    BY <2>10, <2>11, <2>12 DEF Orderly
  <2>14. QED
    BY <1>8, <2>3, <2>6, <2>8, <2>13
<1>11. QED
  BY <1>9, <1>10

-----------------------------------------------------------------------------
(* Calls that are begun or answered.                                        *)

(* The marker is committed and the call is next.                            *)
LEMMA BeginLedger ==
    ASSUME LInv, IInv', NEW a \in Agents, RetryCall(a) \/ StartCall(a)
    PROVE  LInv' /\ FrozenStep
<1>0. Shape(a)
  BY Typed DEF LInv, IInv
<1> DEFINE t    == agent[a].turn
           q    == agent[a].queue
           next == [agent[a] EXCEPT !.pc = "exec"]
           item == CallStarted(t, Current(a))
           more == <<item>>
           s    == [next EXCEPT !.base = rev + 1]
<1>1. /\ agent[a].pc \in {"recover", "calls"} /\ agent[a].mode \in {"live", "recover"}
      /\ q # <<>> /\ q \in Seq(Calls)
      /\ CommitAndGoto(a, more, next) /\ UNCHANGED <<status, runs>>
  BY <1>0 DEF RetryCall, StartCall, Shape, WellFormed
<1>2. /\ next \in AgentState /\ next.pc = "exec" /\ next.queue = q
      /\ next.turn = t /\ next.mode = agent[a].mode
  BY <1>0 DEF Shape, AgentState, PC
<1>3. /\ agent[a].base = rev /\ log' = log \o more /\ Working(agent[a])
      /\ log \in Seq(TurnItem)
  BY <1>0, <1>1 DEF CommitAndGoto, Persist, Working, Shape
<1>4. /\ 1 \in DOMAIN q /\ q[1] = Current(a) /\ Current(a) \in Calls
      /\ \A k \in DOMAIN q : k \in Nat /\ k >= 1 /\ k + 0 = k /\ k - 0 = k
  BY <1>1, HeadIndex DEF Current
<1>5. more \in Seq(TurnItem)
  BY <1>0, <1>4, Appended DEF Shape
<1>6. Orderly(log, more)
  BY <1>1, <1>3, OneMarker
<1>7. item.kind = "started" /\ item.call = Current(a) /\ item.turn = t
  BY DEF CallStarted
<1> HIDE DEF item, next
<1>8. KeepsQueue(agent[a], next, 0) /\ OnlyHead(agent[a], more, 0)
  <2>1. Working(next)
    BY <1>1, <1>2 DEF Working, AtCall
  <2>2. KeepsQueue(agent[a], next, 0)
    BY <1>2, <1>3, <1>4, <2>1 DEF KeepsQueue
  <2>3. OnlyHead(agent[a], more, 0)
    BY <1>4, <1>7 DEF OnlyHead
  <2>4. QED
    BY <2>2, <2>3
<1>9. Concludes(next, log', status')
  <2>1. t \in DOMAIN status' /\ status'[t] = "running"
    BY <1>1, <1>3, WorkingTurn
  <2>2. Concludes(agent[a], log, status)
    BY <1>3 DEF LInv, Conclusions
  <2>3. Quiet(log, more)
    BY <1>6 DEF Orderly
  <2> HIDE DEF more
  <2>4. Concludes(next, log \o more, status')
    BY <1>2, <1>3, <1>5, <1>8, <2>1, <2>2, <2>3, QueueKept
  <2>5. QED
    BY <1>3, <2>4
<1>10. Markers(log', Head(next.queue)) # {}
  <2>1. Head(next.queue) = Current(a)
    BY <1>2 DEF Current
  <2>2. /\ 1 \in DOMAIN more /\ more[1] = item
    OBVIOUS
  <2> HIDE DEF more
  <2>3. /\ Len(log) + 1 \in DOMAIN log' /\ log'[Len(log) + 1] = item
    BY <1>3, <1>5, <2>2, Extend
  <2>4. QED
    BY <1>7, <2>1, <2>3 DEF Markers
<1> HIDE DEF more
<1>11. OrderlyStep(a, s, more)
  BY <1>1, <1>2, <1>5, <1>6, <1>9, <1>10, GoesOn
<1>12. "running" \in TurnStatus
  BY DEF TurnStatus
<1>13. ToItsTurn(a, "running", more)
  BY <1>1, <1>7 DEF ToItsTurn, more
<1> HIDE DEF s
<1>14. QED
  BY <1>3, <1>5, <1>11, <1>12, <1>13, WorkingCommit

(* The call is answered and the queue moves on.                             *)
LEMMA AdvanceLedger ==
    ASSUME LInv, IInv', NEW a \in Agents,
           \/ HookRejects(a)
           \/ /\ agent[a].mode # "approve"
              /\ \E result \in {"success", "error"} : AnswerCall(a, result)
    PROVE  LInv' /\ FrozenStep
<1>0. Shape(a)
  BY Typed DEF LInv, IInv
<1>1. /\ agent[a].queue # <<>> /\ agent[a].mode \in {"live", "recover"}
      /\ agent[a].mode = "live" => agent[a].admit > 0
      /\ Working(agent[a]) /\ agent[a].pc # "reply"
  BY <1>0 DEF HookRejects, AnswerCall, Shape, WellFormed, AgentState, Working, AtCall
<1>2. PICK result \in {"success", "error"} :
          /\ CommitAndGoto(a, <<ToolOutput(agent[a].turn, Current(a), result)>>, Advanced(a))
          /\ UNCHANGED <<status, runs>>
  BY DEF HookRejects, AnswerCall
<1> DEFINE t    == agent[a].turn
           q    == agent[a].queue
           next == Advanced(a)
           item == ToolOutput(t, Current(a), result)
           more == <<item>>
           s    == [next EXCEPT !.base = rev + 1]
<1>3. next \in AgentState
  BY <1>1, AdvancedType DEF LInv, IInv
<1>4. /\ next.pc \in {"recover", "calls"} /\ next.turn = t /\ next.queue = Tail(q)
  BY <1>0 DEF Advanced, Shape, AgentState
<1>5. CommitAndGoto(a, more, next) /\ UNCHANGED <<status, runs>>
  BY <1>2
<1>6. agent[a].base = rev /\ log' = log \o more /\ log \in Seq(TurnItem) /\ q \in Seq(Calls)
  BY <1>0, <1>5 DEF CommitAndGoto, Persist, Shape
<1>7. /\ 1 \in DOMAIN q /\ q[1] = Current(a) /\ Current(a) \in Calls
      /\ \A k \in DOMAIN q : k \in Nat /\ k >= 1
  BY <1>1, <1>6, HeadIndex DEF Current
<1>8. more \in Seq(TurnItem)
  BY <1>0, <1>7, Appended DEF Shape, ToolResult
<1>9. Orderly(log, more)
  BY <1>1, <1>6, OneOutput
<1>10. item.kind = "output" /\ item.call = Current(a) /\ item.turn = t
  BY DEF ToolOutput
<1> HIDE DEF item, next
<1>11. ~Open(log \o more, q[1])
  <2>1. 1 \in DOMAIN more /\ more[1] = item
    OBVIOUS
  <2> HIDE DEF more
  <2>2. QED
    BY <1>6, <1>7, <1>8, <1>10, <2>1, OutputAppended
<1>12. KeepsQueue(agent[a], next, 1) /\ OnlyHead(agent[a], more, 1)
  <2>1. Working(next)
    BY <1>4 DEF Working
  <2>2. \A k \in DOMAIN next.queue : /\ k \in Nat /\ k >= 1 /\ k + 1 \in DOMAIN q
                                     /\ next.queue[k] = q[k + 1]
    BY <1>1, <1>4, <1>6, TailIndices
  <2>3. \A k \in DOMAIN q : k <= 1 \/ (k - 1 \in Nat /\ k - 1 \in DOMAIN next.queue)
    BY <1>1, <1>4, <1>6
  <2>4. KeepsQueue(agent[a], next, 1)
    BY <1>1, <1>4, <1>7, <2>1, <2>2, <2>3 DEF KeepsQueue
  <2>5. OnlyHead(agent[a], more, 1)
    BY <1>7, <1>10 DEF OnlyHead
  <2>6. QED
    BY <2>4, <2>5
<1>13. Concludes(next, log', status')
  <2>1. t \in DOMAIN status' /\ status'[t] = "running"
    BY <1>1, <1>5, <1>6, WorkingTurn
  <2>2. Concludes(agent[a], log, status)
    BY <1>6 DEF LInv, Conclusions
  <2>3. Quiet(log, more)
    BY <1>9 DEF Orderly
  <2> HIDE DEF more
  <2>4. Concludes(next, log \o more, status')
    BY <1>4, <1>6, <1>8, <1>11, <1>12, <2>1, <2>2, <2>3, QueueKept
  <2>5. QED
    BY <1>6, <2>4
<1>14. ~AtCall(next) /\ "running" \in TurnStatus
  BY <1>4 DEF AtCall, TurnStatus
<1>15. ToItsTurn(a, "running", more)
  BY <1>5, <1>10 DEF ToItsTurn
<1> HIDE DEF more
<1>16. OrderlyStep(a, s, more)
  BY <1>3, <1>5, <1>8, <1>9, <1>13, <1>14, GoesOn
<1> HIDE DEF s
<1>17. QED
  BY <1>1, <1>8, <1>14, <1>15, <1>16, WorkingCommit

-----------------------------------------------------------------------------
(* resume_suspended_turn.                                                   *)

(* The suspension is settled and its turn runs again.                       *)
LEMMA SettleLedger ==
    ASSUME LInv, IInv', NEW a \in Agents,
           \/ ReplyToSuspension(a) \/ DenySuspended(a)
           \/ /\ agent[a].mode = "approve"
              /\ \E result \in {"success", "error"} : AnswerCall(a, result)
    PROVE  LInv' /\ FrozenStep
<1>0. Shape(a)
  BY Typed DEF LInv, IInv
<1> DEFINE next == Continued(a)
           s    == [next EXCEPT !.base = rev + 1]
<1>1. next \in AgentState /\ next.pc = "load" /\ next.queue = <<>>
  BY <1>0 DEF Continued, Shape, AgentState, PC
<1>2. ASSUME NEW item, <<item>> \in Seq(TurnItem), Orderly(log, <<item>>),
             item.kind # "suspension", Settles(a, item), Settling(agent[a]),
             CommitAndGoto(a, <<item>>, next), SetStatus(agent[a].turn, "running"),
             runs' = runs
      PROVE  LInv' /\ FrozenStep
  <2> DEFINE more == <<item>>
  <2>1. /\ \A j \in DOMAIN more : more[j].turn = agent[a].turn /\ more[j].kind # "suspension"
        /\ \E j \in DOMAIN more : Settles(a, more[j])
    <3>1. /\ \A j \in DOMAIN more : j = 1
          /\ 1 \in DOMAIN more /\ more[1] = item
      OBVIOUS
    <3>2. item.turn = agent[a].turn
      BY <1>2 DEF Settles
    <3> HIDE DEF more
    <3>3. QED
      BY <1>2, <3>1, <3>2
  <2>2. more \in Seq(TurnItem) /\ Orderly(log, more) /\ CommitAndGoto(a, more, next)
    BY <1>2
  <2>3. Concludes(next, log', status') /\ ~AtCall(next)
    BY <1>1, NothingConcluded DEF Unconcerned
  <2> HIDE DEF more, next
  <2>4. OrderlyStep(a, s, more)
    BY <1>1, <1>2, <2>2, <2>3, GoesOn
  <2>5. SettlesItsTurn(a, "running", more) /\ "running" \in TurnStatus
    BY <1>2, <2>1 DEF SettlesItsTurn, TurnStatus
  <2> HIDE DEF s
  <2>6. QED
    BY <1>2, <2>2, <2>4, <2>5, SettlingCommit
<1>3. CASE ReplyToSuspension(a)
  <2> DEFINE item == UserInput(agent[a].turn, agent[a].sid)
  <2>1. <<item>> \in Seq(TurnItem)
    BY <1>0, Appended DEF Shape
  <2>2. Orderly(log, <<item>>)
    BY SilentItems, OneSilent
  <2>3. agent[a].pc = "reply"
    BY <1>3 DEF ReplyToSuspension
  <2>4. item.kind # "suspension" /\ Settles(a, item) /\ Settling(agent[a])
    BY <2>3 DEF UserInput, Settles, Settling
  <2>5. /\ CommitAndGoto(a, <<item>>, next) /\ SetStatus(agent[a].turn, "running")
        /\ runs' = runs
    BY <1>3 DEF ReplyToSuspension
  <2> HIDE DEF item, next
  <2>6. QED
    BY <1>2, <2>1, <2>2, <2>4, <2>5
<1>4. ASSUME NEW result \in ToolResult, result # "skipped", agent[a].queue # <<>>,
             Settling(agent[a]), agent[a].pc # "reply",
             CommitAndGoto(a, <<ToolOutput(agent[a].turn, Current(a), result)>>, next),
             SetStatus(agent[a].turn, "running"), runs' = runs
      PROVE  LInv' /\ FrozenStep
  <2> DEFINE item == ToolOutput(agent[a].turn, Current(a), result)
  <2>1. agent[a].base = rev /\ Current(a) \in Calls
    BY <1>0, <1>4 DEF CommitAndGoto, Persist, Shape
  <2>2. <<item>> \in Seq(TurnItem)
    BY <1>0, <2>1, Appended DEF Shape
  <2>3. Orderly(log, <<item>>)
    BY <1>4, <2>1, OneOutput
  <2>4. item.kind # "suspension" /\ Settles(a, item)
    BY DEF ToolOutput, Settles
  <2> HIDE DEF next
  <2>5. CommitAndGoto(a, <<item>>, next)
    BY <1>4
  <2> HIDE DEF item
  <2>6. QED
    BY <1>2, <1>4, <2>2, <2>3, <2>4, <2>5
<1>5. CASE DenySuspended(a)
  <2>1. agent[a].pc = "deny" /\ agent[a].queue # <<>> /\ "denied" \in ToolResult
    BY <1>0, <1>5 DEF DenySuspended, Shape, WellFormed, ToolResult
  <2>2. Settling(agent[a])
    BY <2>1 DEF Settling
  <2>3. QED
    BY <1>4, <1>5, <2>1, <2>2 DEF DenySuspended
<1>6. ASSUME NEW result \in {"success", "error"}, agent[a].mode = "approve",
             AnswerCall(a, result)
      PROVE  LInv' /\ FrozenStep
  <2>1. /\ agent[a].pc \in {"exec", "running"} /\ agent[a].queue # <<>>
        /\ result \in ToolResult
    BY <1>0, <1>6 DEF AnswerCall, Shape, WellFormed, ToolResult
  <2>2. Settling(agent[a])
    BY <1>6, <2>1 DEF Settling, AtCall
  <2>3. QED
    BY <1>4, <1>6, <2>1, <2>2 DEF AnswerCall
<1>7. QED
  BY <1>3, <1>5, <1>6

LEMMA ApproveLedger ==
    ASSUME LInv, IInv', NEW a \in Agents, ApproveSuspended(a)
    PROVE  LInv' /\ FrozenStep
<1>0. Shape(a)
  BY Typed DEF LInv, IInv
<1> DEFINE t    == agent[a].turn
           q    == agent[a].queue
           next == [agent[a] EXCEPT !.pc = "exec", !.mode = "approve"]
           item == CallStarted(t, Current(a))
           more == <<item>>
           s    == [next EXCEPT !.base = rev + 1]
<1>1. /\ agent[a].pc = "approve" /\ q # <<>> /\ q \in Seq(Calls) /\ Current(a) \in Calls
      /\ CommitAndGoto(a, more, next) /\ UNCHANGED <<status, runs>>
  BY <1>0 DEF ApproveSuspended, Shape, WellFormed
<1>2. /\ next \in AgentState /\ next.pc = "exec" /\ next.queue = q
      /\ next.turn = t /\ next.mode = "approve" /\ next.sid = agent[a].sid
  BY <1>0 DEF Shape, AgentState, PC
<1>3. /\ agent[a].base = rev /\ log' = log \o more /\ Settling(agent[a])
      /\ log \in Seq(TurnItem) /\ Concludes(agent[a], log, status)
  BY <1>0, <1>1 DEF CommitAndGoto, Persist, Settling, Shape, LInv, Conclusions
<1>4. more \in Seq(TurnItem)
  BY <1>0, <1>1, Appended DEF Shape
<1>5. Markers(log, Current(a)) # {}
  BY <1>1, <1>3 DEF Concludes, SuspensionKnown, Current
<1>6. Orderly(log, more)
  BY <1>1, <1>3, <1>5, OneMarker
<1>7. item.kind = "started" /\ item.call = Current(a) /\ item.turn = t
  BY DEF CallStarted
<1> HIDE DEF item, next
<1>8. \A j \in DOMAIN more : more[j] = item
  OBVIOUS
<1> HIDE DEF more
<1>9. Concludes(next, log', status')
  <2>1. Settling(next) /\ ~Working(next)
    BY <1>2 DEF Settling, Working, AtCall
  <2>2. TurnKnown(next, status')
    <3>1. t \in DOMAIN status /\ status[t] = "suspended"
      BY <1>3, WorkingTurn
    <3>2. QED
      BY <1>1, <1>2, <2>1, <3>1 DEF TurnKnown
  <2>3. QueueOpen(next, log')
    <3>1. QueueOpen(agent[a], log)
      BY <1>3 DEF Concludes
    <3>2. \A c : Outputs(log', c) = Outputs(log, c)
      BY <1>3, <1>4, <1>7, <1>8, OutputsGrow
    <3>3. QED
      BY <1>1, <1>2, <3>1, <3>2 DEF QueueOpen, Open
  <2>4. QueueComplete(next, log')
    BY <2>1 DEF QueueComplete
  <2>5. SuspensionKnown(next, log')
    <3>1. ASSUME NEW i \in PendingSuspension(log')
          PROVE  log'[i].turn = t /\ log'[i].call = Current(a)
      <4>1. i \in DOMAIN log' /\ log'[i].kind = "suspension"
        BY DEF PendingSuspension
      <4>2. i \in DOMAIN log
        BY <1>3, <1>4, <1>7, <1>8, <4>1, Extend
      <4>3. i \in PendingSuspension(log) /\ log'[i] = log[i]
        BY <1>3, <1>4, <3>1, <4>2, PendingShrinks
      <4>4. QED
        BY <1>3, <4>3 DEF Concludes, SuspensionKnown, Current
    <3>2. Head(next.queue) = Current(a)
      BY <1>2 DEF Current
    <3>3. QED
      BY <1>2, <3>1, <3>2 DEF SuspensionKnown
  <2>6. QED
    BY <2>2, <2>3, <2>4, <2>5 DEF Concludes
<1>10. Markers(log', Head(next.queue)) # {}
  BY <1>2, <1>3, <1>4, <1>5, MarkersGrow DEF Current
<1>11. OrderlyStep(a, s, more)
  BY <1>1, <1>2, <1>4, <1>6, <1>9, <1>10, GoesOn
<1>12. SettlesItsTurn(a, "suspended", more) /\ "suspended" \in TurnStatus
  BY <1>1, <1>7, <1>8 DEF SettlesItsTurn, TurnStatus
<1> HIDE DEF s
<1>13. QED
  BY <1>3, <1>4, <1>11, <1>12, SettlingCommit

-----------------------------------------------------------------------------
(* A new turn, a new batch, the last commit.                                *)

LEMMA OpenLedger ==
    ASSUME LInv, IInv', NEW a \in Agents, OpenTurn(a)
    PROVE  LInv' /\ FrozenStep
<1>0. Shape(a)
  BY Typed DEF LInv, IInv
<1> DEFINE t    == Len(status) + 1
           next == [agent[a] EXCEPT !.pc = "model", !.turn = t]
           item == UserInput(t, 0)
           more == <<item>>
           s    == [next EXCEPT !.base = rev + 1]
<1>1. /\ agent[a].queue = <<>> /\ CommitAndGoto(a, more, next) /\ runs' = runs
      /\ status' = Append(status, "running")
  BY <1>0 DEF OpenTurn, Shape, WellFormed
<1>2. next \in AgentState /\ next.pc = "model" /\ next.queue = <<>> /\ next.turn = t
  BY <1>0, <1>1 DEF Shape, AgentState, PC
<1>3. more \in Seq(TurnItem)
  BY <1>0, Appended DEF Shape
<1>4. Silent(item) /\ item.turn = t /\ item.kind = "user"
  BY SilentItems DEF UserInput
<1>5. Orderly(log, more)
  BY <1>4, OneSilent
<1>6. /\ log \in Seq(TurnItem) /\ log' = log \o more /\ Ledger(log)
      /\ ItemsInTurns(log, status) /\ Persist(a, more)
  BY <1>0, <1>1 DEF CommitAndGoto, Persist, Shape, LInv
<1> HIDE DEF next, item
<1>7. \A j \in DOMAIN more : more[j] = item
  OBVIOUS
<1>8. /\ t \notin DOMAIN status /\ t \in DOMAIN status' /\ status'[t] = "running"
      /\ DOMAIN status \subseteq DOMAIN status'
      /\ \A u \in DOMAIN status' : u # t => u \in DOMAIN status /\ status'[u] = status[u]
  BY <1>0, <1>1 DEF Shape
<1> HIDE DEF more, t
<1>9. CallsOf(log', t) = {}
  <2>1. CallResponses(log, t) = {}
    BY <1>6, <1>8 DEF CallResponses, ItemsInTurns
  <2>2. CallsOf(log, t) = {}
    BY <2>1, CallsOfTurn
  <2>3. QED
    BY <1>3, <1>5, <1>6, <2>2, QuietKeepsCalls DEF Orderly
<1>10. ASSUME NEW i \in PendingSuspension(log') PROVE log'[i].turn # t
  <2>1. i \in DOMAIN log' /\ log'[i].kind = "suspension"
    BY DEF PendingSuspension
  <2>2. i \in DOMAIN log /\ log'[i] = log[i]
    BY <1>3, <1>4, <1>6, <1>7, <2>1, Extend
  <2>3. QED
    BY <1>6, <1>8, <2>2 DEF ItemsInTurns
<1>11. ToTurn(t, more)
  BY <1>4, <1>6, <1>7, <1>8, <1>9, <1>10 DEF ToTurn
<1>12. Concludes(next, log', status') /\ ~AtCall(next)
  BY <1>2, <1>8, <1>9, ModelConcludes
<1>13. OrderlyStep(a, s, more)
  BY <1>1, <1>2, <1>3, <1>5, <1>12, GoesOn
<1>14. Ledger(log')
  BY <1>3, <1>5, <1>6, OrderlyKeeps
<1> HIDE DEF s
<1>15. QED
  BY <1>1, <1>3, <1>11, <1>13, <1>14, TurnCommit, LedgerCommit DEF OrderlyStep

LEMMA FinishLedger ==
    ASSUME LInv, IInv', NEW a \in Agents, FinishTurn(a)
    PROVE  LInv' /\ FrozenStep
<1>1. Goto(a, Idle) /\ Persist(a, <<>>) /\ UNCHANGED <<status, runs>>
  BY DEF FinishTurn, Return
<1>2. <<>> \in Seq(TurnItem) /\ log \in Seq(TurnItem) /\ log' = log
  BY <1>1 DEF Persist, LInv, IInv, TypeOK
<1>3. /\ Ledger(log') /\ ItemsInTurns(log', status')
      /\ ClosedTurnsAnswered' /\ PendingIsSuspended'
  BY <1>1, <1>2 DEF LInv, ClosedTurnsAnswered, PendingIsSuspended
<1>4. FrozenStep
  <2>1. (Len(log) + 1)..Len(log') = {}
    BY <1>2
  <2>2. QED
    BY <1>1, <2>1 DEF FrozenStep
<1>5. QED
  BY <1>1, <1>2, <1>3, <1>4, IdleConcludes, LedgerCommit

(* The calls of a new batch are new to the log.                             *)
Fresh(items, batch) ==
    /\ batch \in Seq(Calls) /\ batch # <<>>
    /\ \A k, l \in DOMAIN batch : batch[k] = batch[l] => k = l
    /\ \A k \in DOMAIN batch : \A r \in DOMAIN items : ~Requests(items, r, batch[k])

(* The response that asks for it is the last of its turn.                   *)
LEMMA BatchLast ==
    ASSUME NEW items \in Seq(TurnItem), NEW t, NEW item \in TurnItem,
           item.kind = "response", item.turn = t, item.calls # <<>>
    PROVE  /\ LastCallResponse(items \o <<item>>, t) = {Len(items) + 1}
           /\ \A c : c \in CallsOf(items \o <<item>>, t) <=>
                  \/ c \in CallsOf(items, t)
                  \/ \E k \in DOMAIN item.calls : item.calls[k] = c
<1> DEFINE all == items \o <<item>>
           new == Len(items) + 1
<1>1. /\ new \in DOMAIN all /\ all[new] = item
      /\ \A i \in DOMAIN all : i # new => i \in DOMAIN items
      /\ \A i \in DOMAIN items : i \in DOMAIN all /\ all[i] = items[i] /\ i < new
  OBVIOUS
<1> HIDE DEF all, new
<1>2. CallResponses(all, t) = CallResponses(items, t) \cup {new}
  BY <1>1 DEF CallResponses
<1>3. \A i \in CallResponses(items, t) : i < new /\ all[i] = items[i] /\ i \in DOMAIN items
  BY <1>1 DEF CallResponses
<1>4. new \in Nat /\ \A i \in DOMAIN items : i \in Nat
  BY DEF new
<1>5. LastCallResponse(all, t) = {new}
  <2>1. /\ new \in CallResponses(all, t)
        /\ \A i \in CallResponses(all, t) : i <= new /\ (new <= i => i = new)
    BY <1>2, <1>3, <1>4
  <2>2. \A r : r \in LastCallResponse(all, t) <=> r = new
    BY <2>1 DEF LastCallResponse
  <2>3. QED
    BY <2>2
<1>6. ASSUME NEW c
      PROVE  c \in CallsOf(all, t) <=>
                 \/ c \in CallsOf(items, t)
                 \/ \E k \in DOMAIN item.calls : item.calls[k] = c
  <2>1. c \in CallsOf(all, t) <=>
            \E r \in CallResponses(all, t) : \E k \in DOMAIN all[r].calls : all[r].calls[k] = c
    BY CallsOfTurn
  <2>2. c \in CallsOf(items, t) <=>
            \E r \in CallResponses(items, t) :
                \E k \in DOMAIN items[r].calls : items[r].calls[k] = c
    BY CallsOfTurn
  <2>3. QED
    BY <1>1, <1>2, <1>3, <2>1, <2>2
<1>7. QED
  BY <1>5, <1>6 DEF all, new

LEMMA BatchKeeps ==
    ASSUME NEW items \in Seq(TurnItem), Ledger(items), MarkersRequested(items),
           NEW item \in TurnItem, item.kind = "response", Fresh(items, item.calls),
           \A c \in CallsOf(items, item.turn) : ~Open(items, c)
    PROVE  /\ Ledger(items \o <<item>>)
           /\ \A c : /\ Outputs(items \o <<item>>, c) = Outputs(items, c)
                     /\ Markers(items \o <<item>>, c) = Markers(items, c)
           /\ \A k \in DOMAIN item.calls : /\ Open(items, item.calls[k])
                                           /\ Markers(items, item.calls[k]) = {}
<1> DEFINE all   == items \o <<item>>
           new   == Len(items) + 1
           batch == item.calls
<1>1. /\ new \in DOMAIN all /\ all[new] = item
      /\ \A i \in DOMAIN all : i # new => i \in DOMAIN items
      /\ \A i \in DOMAIN items : i \in DOMAIN all /\ all[i] = items[i] /\ i < new /\ i \in Nat
      /\ new \in Nat
  OBVIOUS
<1> HIDE DEF all, new
<1>2. \A i \in DOMAIN all : all[i].kind # "response" => i \in DOMAIN items /\ all[i] = items[i]
  BY <1>1
<1>3. \A c : Outputs(all, c) = Outputs(items, c) /\ Markers(all, c) = Markers(items, c)
  BY <1>1, <1>2 DEF Outputs, Markers
<1>4. ASSUME NEW k \in DOMAIN batch
      PROVE  Open(items, batch[k]) /\ Markers(items, batch[k]) = {}
  <2>1. \A r \in DOMAIN items : ~Requests(items, r, batch[k])
    BY DEF Fresh
  <2>2. Open(items, batch[k])
    BY <2>1 DEF Ledger, OutputsRequested, Open, Outputs
  <2>3. Markers(items, batch[k]) = {}
    BY <2>1 DEF MarkersRequested, Markers
  <2>4. QED
    BY <2>2, <2>3
<1>5. \A r \in DOMAIN items : \A c : Requests(all, r, c) <=> Requests(items, r, c)
  BY <1>1 DEF Requests
<1>6. OutputsRequested(all)
  <2> SUFFICES ASSUME NEW i \in DOMAIN all, all[i].kind = "output"
               PROVE  \E r \in DOMAIN all :
                          r < i /\ all[r].turn = all[i].turn /\ Requests(all, r, all[i].call)
    BY DEF OutputsRequested
  <2>1. i \in DOMAIN items /\ all[i] = items[i]
    BY <1>2
  <2>2. PICK r \in DOMAIN items :
            r < i /\ items[r].turn = items[i].turn /\ Requests(items, r, items[i].call)
    BY <2>1 DEF Ledger, OutputsRequested
  <2>3. QED
    BY <1>1, <1>5, <2>1, <2>2
<1>7. OutputsOnce(all) /\ SkippedUnmarked(all)
  BY <1>2, <1>3 DEF Ledger, OutputsOnce, SkippedUnmarked
<1>8. SuspensionsSound(all)
  BY <1>2, <1>3 DEF Ledger, SuspensionsSound
<1>9. BatchesDistinct(all) /\ OneUnderWay(all)
  <2>1. ASSUME NEW r \in DOMAIN all, all[r].kind = "response",
               NEW k \in DOMAIN all[r].calls, NEW l \in DOMAIN all[r].calls
        PROVE  /\ all[r].calls[k] = all[r].calls[l] => k = l
               /\ k < l /\ Open(all, all[r].calls[k]) /\ Open(all, all[r].calls[l]) =>
                      Markers(all, all[r].calls[l]) = {}
    <3>1. CASE r = new
      BY <1>1, <1>3, <1>4, <2>1, <3>1 DEF Fresh
    <3>2. CASE r # new
      BY <1>1, <1>3, <2>1, <3>2 DEF Ledger, BatchesDistinct, OneUnderWay, Open
    <3>3. QED
      BY <3>1, <3>2
  <2>2. QED
    BY <2>1 DEF BatchesDistinct, OneUnderWay
<1>10. EarlierAnswered(all)
  <2> SUFFICES ASSUME NEW r \in DOMAIN all, NEW s \in DOMAIN all,
                      all[r].kind = "response", all[s].kind = "response", r < s,
                      all[r].turn = all[s].turn, all[s].calls # <<>>,
                      NEW k \in DOMAIN all[r].calls
               PROVE  ~Open(all, all[r].calls[k])
    BY DEF EarlierAnswered
  <2>1. r \in DOMAIN items /\ all[r] = items[r]
    <3>1. r # new
      BY <1>1
    <3>2. QED
      BY <1>1, <3>1
  <2>2. CASE s = new
    <3>1. r \in CallResponses(items, item.turn)
      BY <1>1, <2>1, <2>2 DEF CallResponses
    <3>2. items[r].calls[k] \in CallsOf(items, item.turn)
      BY <2>1, <3>1, CallsOfTurn
    <3>3. QED
      BY <1>3, <2>1, <3>2 DEF Open
  <2>3. CASE s # new
    BY <1>1, <1>3, <2>1, <2>3 DEF Ledger, EarlierAnswered, Open
  <2>4. QED
    BY <2>2, <2>3
<1>11. Ledger(all)
  BY <1>6, <1>7, <1>8, <1>9, <1>10 DEF Ledger
<1>12. QED
  BY <1>3, <1>4, <1>11 DEF all

LEMMA BatchConcludes ==
    ASSUME NEW items \in Seq(TurnItem), Ledger(items), MarkersRequested(items),
           NEW item \in TurnItem, item.kind = "response", Fresh(items, item.calls),
           \A c \in CallsOf(items, item.turn) : ~Open(items, c),
           NEW s, s.pc = "calls", s.queue = item.calls, s.turn = item.turn,
           NEW st, s.turn \in DOMAIN st, st[s.turn] = "running"
    PROVE  Concludes(s, items \o <<item>>, st) /\ ~AtCall(s)
<1> DEFINE all == items \o <<item>>
           new == Len(items) + 1
           q   == item.calls
<1>1. /\ \A c : Outputs(all, c) = Outputs(items, c) /\ Markers(all, c) = Markers(items, c)
      /\ \A k \in DOMAIN q : Open(items, q[k]) /\ Markers(items, q[k]) = {}
  BY BatchKeeps
<1>2. /\ LastCallResponse(all, s.turn) = {new}
      /\ \A c : c \in CallsOf(all, s.turn) <=>
             \/ c \in CallsOf(items, s.turn)
             \/ \E k \in DOMAIN q : q[k] = c
  <2>1. q # <<>>
    BY DEF Fresh
  <2>2. QED
    BY <2>1, BatchLast
<1>3. all[new] = item
  OBVIOUS
<1> HIDE DEF all, new
<1>4. ~Settling(s) /\ s.pc \notin {"finish", "approve"} /\ ~AtCall(s)
  BY DEF Settling, AtCall
<1>5. TurnKnown(s, st) /\ SuspensionKnown(s, all)
  BY <1>4 DEF TurnKnown, SuspensionKnown
<1>6. QueueOpen(s, all)
  BY <1>1 DEF QueueOpen, Open, Fresh
<1>7. QueueComplete(s, all)
  <2>1. ASSUME NEW c \in CallsOf(all, s.turn), Open(all, c)
        PROVE  \E k \in DOMAIN s.queue : s.queue[k] = c
    BY <1>1, <1>2, <2>1 DEF Open
  <2>2. \A k \in DOMAIN s.queue : Requests(all, new, s.queue[k]) /\ Markers(all, s.queue[k]) = {}
    BY <1>1, <1>3 DEF Requests
  <2>3. \A k, m \in DOMAIN s.queue : s.queue[k] = all[new].calls[m] => k = m
    BY <1>3 DEF Fresh
  <2>4. QED
    BY <1>2, <1>3, <2>1, <2>2, <2>3 DEF QueueComplete
<1>8. QED
  BY <1>4, <1>5, <1>6, <1>7 DEF Concludes, all

LEMMA BatchLedger ==
    ASSUME LInv, IInv', NEW a \in Agents, NEW batch \in Batches, ModelCalls(a, batch)
    PROVE  LInv' /\ FrozenStep
<1>0. Shape(a) /\ log \in Seq(TurnItem)
  BY Typed DEF LInv, IInv, TypeOK
<1> DEFINE t     == agent[a].turn
           admit == Least(Len(batch), Remaining(a))
           next  == [agent[a] EXCEPT !.pc = "calls", !.mode = "live", !.queue = batch,
                                     !.admit = admit, !.count = @ + admit]
           s     == [next EXCEPT !.base = rev + 1]
           item  == ModelResponse(t, batch)
           more  == <<item>>
<1>1. batch \in Seq(Calls) /\ Len(batch) \in Nat
  BY BatchType
<1>2. Fresh(log, batch)
  <2>1. /\ \A k, l \in DOMAIN batch : batch[k] = batch[l] => k = l
        /\ \A k \in DOMAIN batch : batch[k] \in Calls \ Requested(log)
    BY DEF Batches
  <2>2. PICK n \in 1..Cardinality(Calls \ Requested(log)) :
            batch \in [1..n -> Calls \ Requested(log)]
    BY DEF Batches
  <2>3. batch # <<>>
    <3>1. 1 \in DOMAIN batch
      BY <2>2
    <3>2. QED
      BY <3>1
  <2>4. QED
    BY <1>1, <2>1, <2>3 DEF Fresh, Requested, Requests
<1>3. admit \in Nat /\ agent[a].count + admit \in Nat
  BY <1>0, <1>1, AdmitType DEF Shape
<1>4. /\ next \in AgentState /\ next.pc = "calls" /\ next.queue = batch /\ next.turn = t
      /\ next.mode = "live"
  <2> HIDE DEF admit
  <2>1. QED
    BY <1>0, <1>1, <1>3 DEF Shape, AgentState, PC
<1>5. /\ CommitAndGoto(a, more, next) /\ UNCHANGED <<status, runs>>
      /\ agent[a].pc = "asking" /\ agent[a].base = rev
  BY DEF ModelCalls, Asking, CommitAndGoto, Persist
<1>6. /\ item \in TurnItem /\ more \in Seq(TurnItem)
      /\ item.kind = "response" /\ item.turn = t /\ item.calls = batch
  BY <1>0, <1>1, Appended, EndTypes DEF Shape, ModelResponse
<1> HIDE DEF item, next
<1>7. Persist(a, more) /\ Goto(a, s) /\ log' = log \o more
  BY <1>5 DEF CommitAndGoto, Persist
<1>8. Working(agent[a]) /\ agent[a].queue = <<>>
  BY <1>0, <1>5 DEF Working, Shape, WellFormed
<1>9. t \in DOMAIN status /\ status[t] = "running" /\ status[t] \notin Closed
  BY <1>5, <1>8, WorkingTurn DEF Closed
<1>10. \A c \in CallsOf(log, t) : ~Open(log, c)
  BY <1>5, <1>8 DEF LInv, Conclusions, Concludes, QueueComplete
<1>11. /\ Ledger(log) /\ MarkersRequested(log)
       /\ Fresh(log, item.calls) /\ \A c \in CallsOf(log, item.turn) : ~Open(log, c)
  BY <1>2, <1>6, <1>10 DEF LInv, IInv
<1>12. Ledger(log')
  BY <1>0, <1>6, <1>7, <1>11, BatchKeeps
<1>13. next.turn \in DOMAIN status' /\ status'[next.turn] = "running"
  BY <1>4, <1>5, <1>9
<1>14. Concludes(next, log', status') /\ ~AtCall(next)
  BY <1>0, <1>4, <1>6, <1>7, <1>11, <1>13, BatchConcludes
<1>15. \A j \in DOMAIN more : more[j] = item
  OBVIOUS
<1> HIDE DEF more
<1>16. ASSUME NEW i \in PendingSuspension(log'), log'[i].turn = t PROVE FALSE
  <2>1. i \in DOMAIN log' /\ log'[i].kind = "suspension"
    BY DEF PendingSuspension
  <2>2. i \in DOMAIN log
    BY <1>0, <1>6, <1>7, <1>15, <2>1, Extend
  <2>3. i \in PendingSuspension(log) /\ log'[i] = log[i]
    BY <1>0, <1>6, <1>7, <2>2, PendingShrinks
  <2>4. status[t] = "suspended"
    BY <1>16, <2>3 DEF LInv, PendingIsSuspended
  <2>5. QED
    BY <1>9, <2>4
<1>17. ToTurn(t, more)
  BY <1>5, <1>6, <1>7, <1>9, <1>15, <1>16 DEF ToTurn
<1>18. /\ s.base = rev + 1 /\ s.pc = next.pc /\ s.queue = next.queue /\ s.turn = next.turn
       /\ s.mode = next.mode /\ s.result = next.result /\ s.sid = next.sid
  BY <1>4 DEF AgentState
<1> HIDE DEF s
<1>19. Concludes(s, log', status') /\ ~AtCall(s)
  BY <1>14, <1>18, SameConclusions DEF AtCall
<1>20. QED
  BY <1>5, <1>6, <1>7, <1>12, <1>17, <1>18, <1>19, TurnCommit, LedgerCommit

-----------------------------------------------------------------------------
(* LInv is inductive.                                                       *)

LEMMA LedgerInit == Init => LInv
<1> SUFFICES ASSUME Init PROVE LInv
  OBVIOUS
<1>1. IInv
  BY InductiveInit
<1>2. log = <<>> /\ status = <<>> /\ DOMAIN log = {} /\ DOMAIN status = {}
  BY DEF Init
<1>3. Ledger(log) /\ ItemsInTurns(log, status)
  BY <1>2 DEF Ledger, OutputsRequested, OutputsOnce, SkippedUnmarked, SuspensionsSound,
              BatchesDistinct, OneUnderWay, EarlierAnswered, ItemsInTurns
<1>4. ClosedTurnsAnswered /\ PendingIsSuspended
  BY <1>2 DEF ClosedTurnsAnswered, PendingIsSuspended, PendingSuspension
<1>5. \A a \in Agents : agent[a] = Idle
  BY DEF Init
<1>6. Conclusions
  BY <1>5, IdleConcludes DEF Conclusions
<1>7. StartsMarked
  BY <1>5 DEF StartsMarked, Init, Idle
<1>8. QED
  BY <1>1, <1>3, <1>4, <1>6, <1>7 DEF LInv

LEMMA LedgerNext == LInv /\ [Next]_vars => LInv' /\ FrozenStep
<1> SUFFICES ASSUME LInv, [Next]_vars PROVE LInv' /\ FrozenStep
  OBVIOUS
<1>0. IInv'
  BY InductiveNext DEF LInv
<1>1. CASE UNCHANGED vars
  <2>1. /\ rev' = rev /\ status' = status /\ log' = log /\ agent' = agent /\ runs' = runs
    BY <1>1 DEF vars
  <2>2. ClosedTurnsAnswered' /\ PendingIsSuspended' /\ StartsMarked' /\ Conclusions'
    BY <2>1 DEF LInv, ClosedTurnsAnswered, PendingIsSuspended, StartsMarked, Conclusions,
                Current
  <2>3. LInv'
    BY <1>0, <2>1, <2>2 DEF LInv
  <2>4. (Len(log) + 1)..Len(log') = {}
    BY <2>1 DEF LInv, IInv, TypeOK
  <2>5. FrozenStep
    BY <2>1, <2>4 DEF FrozenStep
  <2>6. QED
    BY <2>3, <2>5
<1>2. ASSUME NEW a \in Agents,
             \/ Caller(a) \/ Drop(a) \/ Acquire(a) \/ OwnStep(a)
             \/ FunctionReturns(a) \/ ModelReturns(a)
      PROVE  LInv' /\ FrozenStep
  <2> USE <1>0
  <2>1. CASE Caller(a) \/ Drop(a)
    BY <2>1, CallerStill
  <2>2. CASE Acquire(a)
    BY <2>2, MoveStill
  <2>3. CASE OwnStep(a)
    <3>1. CASE \/ LoadForRun(a) \/ BuildRequest(a) \/ RecoveryDone(a) \/ BatchDone(a)
               \/ Refuse(a) \/ RevisionConflict(a)
      BY <3>1, MoveStill DEF RevisionConflict
    <3>2. CASE LoadForRecover(a) \/ LoadForResume(a)
      BY <3>2, LoadForRecoverStill, LoadForResumeStill
    <3>3. CASE OpenTurn(a) \/ FinishTurn(a)
      BY <3>3, OpenLedger, FinishLedger
    <3>4. CASE IterationsExhausted(a) \/ AbortModel(a) \/ LimitReached(a) \/ AbortCall(a)
      BY <3>4, ModelEndsLedger, LimitLedger, AbortLedger
    <3>5. CASE ReplyToSuspension(a) \/ DenySuspended(a) \/ ApproveSuspended(a)
      BY <3>5, SettleLedger, ApproveLedger
    <3>6. CASE SuspendRecovery(a) \/ HookRejects(a)
      BY <3>6, SuspendLedger, AdvanceLedger
    <3>7. CASE RetryCall(a) \/ StartCall(a) \/ EnterFunction(a)
      BY <3>7, BeginLedger, EnterStill
    <3>8. QED
      BY <2>3, <3>1, <3>2, <3>3, <3>4, <3>5, <3>6, <3>7 DEF OwnStep
  <2>4. CASE FunctionReturns(a)
    <3>1. CASE \E result \in {"success", "error"} : AnswerCall(a, result)
      BY <3>1, SettleLedger, AdvanceLedger
    <3>2. CASE \/ \E deferred \in BOOLEAN : SuspendCall(a, FALSE, deferred)
               \/ SuspendCall(a, TRUE, FALSE)
      BY <3>2, SuspendLedger
    <3>3. CASE SuspendAgain(a) \/ LateFunctionReply(a)
      BY <3>3, MoveStill DEF LateFunctionReply
    <3>4. QED
      BY <2>4, <3>1, <3>2, <3>3 DEF FunctionReturns
  <2>5. CASE ModelReturns(a)
    BY <2>5, ModelEndsLedger, MoveStill, BatchLedger DEF ModelReturns, LateModelReply
  <2>6. QED
    BY <1>2, <2>1, <2>2, <2>3, <2>4, <2>5
<1>3. QED
  BY <1>1, <1>2 DEF Next

-----------------------------------------------------------------------------
(* What follows, whoever runs, recovers, resumes, aborts or is lost, with   *)
(* or without a lease in common.                                            *)

(* LInv holds in every reachable state.                                     *)
THEOREM LedgerInductive == Spec => []LInv
  BY LedgerInit, LedgerNext, PTL DEF Spec

(* A call gets one output, however many operations of however many agents   *)
(* deal with it (projection.rs:95-141).                                     *)
THEOREM AnsweredOnce == Spec => []AnsweredAtMostOnce
<1>1. LInv => AnsweredAtMostOnce
  <2> SUFFICES ASSUME LInv, NEW c \in Calls PROVE Cardinality(Outputs(log, c)) <= 1
    BY DEF AnsweredAtMostOnce
  <2>1. \A i, j \in Outputs(log, c) : i = j
    BY DEF LInv, Ledger, OutputsOnce, Outputs
  <2>2. CASE Outputs(log, c) = {}
    BY <2>2, FS_EmptySet
  <2>3. CASE Outputs(log, c) # {}
    <3>1. PICK i \in Outputs(log, c) : TRUE
      BY <2>3
    <3>2. Outputs(log, c) = {i}
      BY <2>1, <3>1
    <3>3. Cardinality({i}) = 1
      BY FS_Singleton
    <3>4. QED
      BY <3>2, <3>3
  <2>4. QED
    BY <2>2, <2>3
<1>2. QED
  BY <1>1, LedgerInductive, PTL

(* When a turn is completed or failed, every call its model asked for has   *)
(* an output, also where suspension, the call limit or a lost process cut a *)
(* batch short (agent_loop.rs:1232-1311, 1488-1548, 1639-1885).             *)
THEOREM ClosedAnswered == Spec => []ClosedTurnsAnswered
<1>1. LInv => ClosedTurnsAnswered
  BY DEF LInv
<1>2. QED
  BY <1>1, LedgerInductive, PTL

(* A call answered as "not executed" was never started, by this process or  *)
(* by one before it.                                                        *)
THEOREM SkippedNotRun == Spec => []SkippedNeverRan
<1>1. LInv => SkippedNeverRan
  <2> SUFFICES ASSUME LInv, NEW i \in DOMAIN log, log[i].kind = "output",
                      log[i].result = "skipped"
               PROVE  Markers(log, log[i].call) = {} /\ runs[log[i].call] = 0
    BY DEF SkippedNeverRan
  <2>1. Markers(log, log[i].call) = {}
    BY DEF LInv, Ledger, SkippedUnmarked
  <2>2. log[i].call \in Calls
    BY ItemFields DEF LInv, IInv, TypeOK
  <2>3. runs[log[i].call] \in Nat /\ ~(runs[log[i].call] > 0)
    BY <2>1, <2>2 DEF LInv, IInv, TypeOK, StartsMarked
  <2>4. QED
    BY <2>1, <2>3
<1>2. QED
  BY <1>1, LedgerInductive, PTL

(* A pending suspension belongs to a suspended turn: no turn that has gone  *)
(* on or ended keeps the thread refusing run_turn and recover_turn, or can  *)
(* be reopened by a resume (agent_loop.rs:549-568, 814-824).                *)
THEOREM PendingSuspended == Spec => []PendingIsSuspended
<1>1. LInv => PendingIsSuspended
  BY DEF LInv
<1>2. QED
  BY <1>1, LedgerInductive, PTL

(* A completed, failed or aborted turn never changes again: no recovery,    *)
(* resume or late agent adds to it or reopens it.                           *)
THEOREM ClosedFrozen == Spec => ClosedTurnsFrozen
<1>1. LInv /\ [Next]_vars =>
          [\A t \in DOMAIN status :
               status[t] \in Closed =>
                   /\ status'[t] = status[t]
                   /\ \A i \in (Len(log) + 1)..Len(log') : log'[i].turn # t]_<<status, log>>
  BY LedgerNext DEF FrozenStep
<1>2. QED
  BY <1>1, LedgerInductive, PTL DEF Spec, ClosedTurnsFrozen

-----------------------------------------------------------------------------
(* Agents that share a coordinator.                                         *)

LEMMA Alone ==
    ASSUME SharedLease, Exclusive, NEW a \in Agents, NEW b \in Agents,
           agent[a].pc \notin Entering, agent[b].pc \notin Entering
    PROVE  a = b
  BY DEF SharedLease, Exclusive

(* A step of the holder by which it goes on.                                *)
LEMMA HolderGoesOn ==
    ASSUME SharedLease, Exclusive, TypeOK, NEW a \in Agents, NEW s, Goto(a, s),
           agent[a].pc \notin Entering, UNCHANGED <<lease, outcome>>,
           s.pc \notin Entering \cup {"load"} => s.base = rev'
    PROVE  Exclusive'
<1>1. agent'[a] = s /\ \A b \in Agents \ {a} : agent'[b] = agent[b]
  BY DEF Goto, TypeOK
<1>2. \A b \in Agents \ {a} : agent[b].pc \in Entering
  BY Alone
<1>3. agent[a].pc # "idle"
  BY DEF Entering
<1>4. QED
  BY <1>1, <1>2, <1>3 DEF Exclusive

LEMMA HolderCommits ==
    ASSUME SharedLease, Exclusive, TypeOK, TypeOK', NEW a \in Agents,
           agent[a].pc \notin Entering, NEW more, NEW next, CommitAndGoto(a, more, next)
    PROVE  Exclusive'
<1> DEFINE s == [next EXCEPT !.base = rev + 1]
<1>1. Goto(a, s) /\ UNCHANGED <<lease, outcome>> /\ rev' = rev + 1
  BY DEF CommitAndGoto, Persist
<1>2. s \in AgentState
  BY <1>1 DEF Goto, TypeOK
<1>3. "base" \in DOMAIN s
  BY <1>2 DEF AgentState
<1>4. s.base = rev + 1
  BY <1>3
<1>5. QED
  BY <1>1, <1>4, HolderGoesOn

(* The end of an operation, of the holder's or of one that never got in.    *)
LEMMA ReturnExclusive ==
    ASSUME SharedLease, Exclusive, TypeOK, NEW a \in Agents,
           NEW kind, NEW sid, Return(a, kind, sid),
           rev' = rev \/ agent[a].pc \notin Entering
    PROVE  Exclusive'
<1>1. /\ agent'[a] = Idle /\ \A b \in Agents \ {a} : agent'[b] = agent[b]
      /\ \A b \in Agents \ {a} : outcome'[b] = outcome[b]
      /\ lease' = [lease EXCEPT ![CoordinatorOf[a]] = IF @ = a THEN NoAgent ELSE @]
  BY DEF Return, Goto, TypeOK
<1>2. Idle.pc = "idle"
  BY DEF Idle
<1>3. ASSUME NEW b \in Agents \ {a}, agent[b].pc \notin Entering
      PROVE  lease'[CoordinatorOf[b]] = b
  <2>1. lease[CoordinatorOf[b]] = b /\ CoordinatorOf[b] \in Coordinators
    BY <1>3, CoordinatorsOk DEF Exclusive
  <2>2. QED
    BY <1>1, <1>3, <2>1 DEF TypeOK
<1>4. ASSUME NEW b \in Agents \ {a}, agent[b].pc \notin Entering \cup {"load"}
      PROVE  agent[b].base = rev'
  <2>1. agent[a].pc \in Entering
    BY <1>4, Alone
  <2>2. QED
    BY <1>4, <2>1 DEF Exclusive
<1>5. QED
  BY <1>1, <1>2, <1>3, <1>4 DEF Exclusive, Entering

LEMMA EntryExclusive ==
    ASSUME SharedLease, Exclusive, TypeOK, NEW a \in Agents, Caller(a) \/ Acquire(a)
    PROVE  Exclusive'
<1>0. agent[a] \in AgentState /\ agent \in [Agents -> AgentState]
  BY DEF TypeOK
<1>1. ASSUME NEW s, s.pc = "acquire", Begin(a, s) PROVE Exclusive'
  <2>1. /\ agent'[a] = s /\ \A b \in Agents \ {a} : agent'[b] = agent[b]
        /\ outcome'[a].kind = "none" /\ \A b \in Agents \ {a} : outcome'[b] = outcome[b]
        /\ UNCHANGED <<rev, lease>>
    BY <1>1 DEF Begin, Goto, TypeOK
  <2>2. QED
    BY <1>1, <2>1 DEF Exclusive, Entering
<1>2. CASE RunTurn(a)
  BY <1>1, <1>2 DEF RunTurn, Idle
<1>3. CASE RecoverTurn(a)
  BY <1>1, <1>3 DEF RecoverTurn, Idle
<1>4. CASE ResumeSuspendedTurn(a)
  BY <1>1, <1>4 DEF ResumeSuspendedTurn, Idle
<1>5. CASE Abort(a)
  <2>1. \A b \in Agents : agent'[b].pc = agent[b].pc /\ agent'[b].base = agent[b].base
    BY <1>0, <1>5 DEF Abort, AgentState
  <2>2. UNCHANGED <<rev, lease, outcome>>
    BY <1>5 DEF Abort
  <2>3. QED
    BY <2>1, <2>2 DEF Exclusive
<1>6. CASE Acquire(a)
  <2>1. /\ agent'[a].pc = "load" /\ \A b \in Agents \ {a} : agent'[b] = agent[b]
        /\ agent[a].pc = "acquire"
        /\ lease[CoordinatorOf[a]] = NoAgent
        /\ lease' = [lease EXCEPT ![CoordinatorOf[a]] = a] /\ UNCHANGED <<rev, outcome>>
    BY <1>0, <1>6 DEF Acquire, AgentState
  <2>2. lease'[CoordinatorOf[a]] = a
    BY <2>1, CoordinatorsOk DEF TypeOK
  <2>3. \A b \in Agents \ {a} : agent[b].pc \in Entering
    BY <2>1, AgentsFinite DEF Exclusive, SharedLease
  <2>4. QED
    BY <2>1, <2>2, <2>3 DEF Exclusive, Entering
<1>7. QED
  BY <1>2, <1>3, <1>4, <1>5, <1>6 DEF Caller

LEMMA ExclusiveInit == Init => Exclusive
  BY DEF Init, Idle, Exclusive, Entering

LEMMA ExclusiveNext ==
    ASSUME SharedLease, Exclusive, TypeOK, TypeOK', [Next]_vars
    PROVE  Exclusive'
<1>1. CASE UNCHANGED vars
  BY <1>1 DEF vars, Exclusive
<1>2. ASSUME NEW a \in Agents,
             \/ Caller(a) \/ Drop(a) \/ Acquire(a) \/ OwnStep(a)
             \/ FunctionReturns(a) \/ ModelReturns(a)
      PROVE  Exclusive'
  <2>0. Shape(a)
    BY Typed
  <2>1. CASE Caller(a) \/ Acquire(a)
    BY <2>1, EntryExclusive
  <2>2. CASE Drop(a) \/ Refuse(a) \/ Conflict(a) \/ SuspendAgain(a)
    BY <2>2, ReturnExclusive DEF Drop, Refuse, Conflict, SuspendAgain
  <2>3. ASSUME agent[a].pc \notin Entering, NEW more, NEW next, CommitAndGoto(a, more, next)
        PROVE  Exclusive'
    BY <2>3, HolderCommits
  <2>4. ASSUME agent[a].pc \notin Entering, NEW more, NEW kind, CloseTurn(a, more, kind)
        PROVE  Exclusive'
    BY <2>4, ReturnExclusive DEF CloseTurn
  <2>5. ASSUME agent[a].pc \notin Entering, NEW s, Goto(a, s),
               UNCHANGED <<rev, lease, outcome>>, s.base = rev
        PROVE  Exclusive'
    BY <2>5, HolderGoesOn
  <2>6. CASE LoadForRun(a) \/ LoadForRecover(a) \/ LoadForResume(a)
    <3>1. agent[a].pc \notin Entering /\ UNCHANGED <<rev, lease, outcome>>
      BY <2>6 DEF LoadForRun, LoadForRecover, LoadForResume, Loading, Entering
    <3>2. CASE LoadForRun(a)
      <4> DEFINE s == [agent[a] EXCEPT !.pc = "openTurn", !.base = rev]
      <4>1. Goto(a, s) /\ s.base = rev
        BY <2>0, <3>2 DEF LoadForRun, Shape, AgentState
      <4>2. QED
        BY <2>5, <3>1, <4>1
    <3>3. ASSUME NEW t, NEW q,
                 Goto(a, [agent[a] EXCEPT !.pc = "recover", !.base = rev, !.turn = t,
                                          !.mode = "recover", !.queue = q])
          PROVE  Exclusive'
      <4> DEFINE s == [agent[a] EXCEPT !.pc = "recover", !.base = rev, !.turn = t,
                                       !.mode = "recover", !.queue = q]
      <4>1. Goto(a, s) /\ s.base = rev
        BY <2>0, <3>3 DEF Shape, AgentState
      <4>2. QED
        BY <2>5, <3>1, <4>1
    <3>4. ASSUME NEW pc, NEW t, NEW q,
                 Goto(a, [agent[a] EXCEPT !.pc = pc, !.base = rev, !.turn = t, !.queue = q])
          PROVE  Exclusive'
      <4> DEFINE s == [agent[a] EXCEPT !.pc = pc, !.base = rev, !.turn = t, !.queue = q]
      <4>1. Goto(a, s) /\ s.base = rev
        BY <2>0, <3>4 DEF Shape, AgentState
      <4>2. QED
        BY <2>5, <3>1, <4>1
    <3>5. QED
      BY <2>6, <3>2, <3>3, <3>4 DEF LoadForRecover, LoadForResume
  <2>7. CASE RecoveryDone(a) \/ BatchDone(a) \/ EnterFunction(a) \/ BuildRequest(a)
    <3>1. /\ agent[a].pc \in {"recover", "calls", "exec", "model"}
          /\ UNCHANGED <<rev, lease, outcome>>
      BY <2>7 DEF RecoveryDone, BatchDone, EnterFunction, BuildRequest
    <3>2. agent[a].pc \notin Entering /\ agent[a].base = rev
      BY <3>1 DEF Exclusive, Entering
    <3>3. CASE RecoveryDone(a)
      <4> DEFINE s == [agent[a] EXCEPT !.pc = "model", !.mode = "none"]
      <4>1. Goto(a, s) /\ s.base = rev
        BY <2>0, <3>2, <3>3 DEF RecoveryDone, Shape, AgentState
      <4>2. QED
        BY <2>5, <3>1, <3>2, <4>1
    <3>4. CASE BatchDone(a)
      <4> DEFINE s == [agent[a] EXCEPT !.pc = "model", !.mode = "none", !.iter = @ + 1]
      <4>1. Goto(a, s) /\ s.base = rev
        BY <2>0, <3>2, <3>4 DEF BatchDone, Shape, AgentState
      <4>2. QED
        BY <2>5, <3>1, <3>2, <4>1
    <3>5. CASE EnterFunction(a)
      <4> DEFINE s == [agent[a] EXCEPT !.pc = "running"]
      <4>1. Goto(a, s) /\ s.base = rev
        BY <2>0, <3>2, <3>5 DEF EnterFunction, Goto, Shape, AgentState
      <4>2. QED
        BY <2>5, <3>1, <3>2, <4>1
    <3>6. CASE BuildRequest(a)
      <4> DEFINE s == [agent[a] EXCEPT !.pc = "asking"]
      <4>1. Goto(a, s) /\ s.base = rev
        BY <2>0, <3>2, <3>6 DEF BuildRequest, Goto, Shape, AgentState
      <4>2. QED
        BY <2>5, <3>1, <3>2, <4>1
    <3>7. QED
      BY <2>7, <3>3, <3>4, <3>5, <3>6
  <2>8. CASE \/ OpenTurn(a) \/ ReplyToSuspension(a) \/ DenySuspended(a)
             \/ ApproveSuspended(a) \/ SuspendRecovery(a) \/ RetryCall(a)
             \/ StartCall(a) \/ HookRejects(a) \/ LimitReached(a)
             \/ \E result \in {"success", "error"} : AnswerCall(a, result)
             \/ \E executed, deferred \in BOOLEAN : SuspendCall(a, executed, deferred)
             \/ ModelAnswers(a) \/ \E batch \in Batches : ModelCalls(a, batch)
    <3>1. agent[a].pc \notin Entering
      BY <2>8 DEF OpenTurn, ReplyToSuspension, DenySuspended, ApproveSuspended,
                  SuspendRecovery, RetryCall, StartCall, HookRejects, LimitReached,
                  AnswerCall, SuspendCall, ModelAnswers, ModelCalls, Asking, Entering
    <3>2. \E more, next : CommitAndGoto(a, more, next)
      BY <2>8 DEF OpenTurn, ReplyToSuspension, DenySuspended, ApproveSuspended,
                  SuspendRecovery, RetryCall, StartCall, HookRejects, LimitReached,
                  AnswerCall, SuspendCall, ModelAnswers, ModelCalls
    <3>3. QED
      BY <2>3, <3>1, <3>2
  <2>9. CASE IterationsExhausted(a) \/ AbortModel(a) \/ ModelFails(a) \/ AbortCall(a)
    <3>1. agent[a].pc \notin Entering
      BY <2>9 DEF IterationsExhausted, AbortModel, ModelFails, AbortCall, Asking, Entering
    <3>2. \/ \E more, kind : CloseTurn(a, more, kind)
          \/ \E more, next : CommitAndGoto(a, more, next)
      BY <2>9 DEF IterationsExhausted, AbortModel, ModelFails, AbortCall
    <3>3. QED
      BY <2>3, <2>4, <3>1, <3>2
  <2>10. CASE FinishTurn(a)
    BY <2>10, ReturnExclusive DEF FinishTurn, Entering
  <2>11. QED
    BY <1>2, <2>1, <2>2, <2>6, <2>7, <2>8, <2>9, <2>10
       DEF OwnStep, FunctionReturns, ModelReturns, RevisionConflict, LateFunctionReply,
           LateModelReply
<1>3. QED
  BY <1>1, <1>2 DEF Next

(* Agents that share a LocalSessionCoordinator: the holder of the lease     *)
(* alone is between load and return, its copy is current, and no agent has  *)
(* an outcome while it is busy.                                             *)
THEOREM HolderAlone ==
    ASSUME SharedLease
    PROVE  Spec => []Exclusive
<1>1. Exclusive /\ TypeOK /\ TypeOK' /\ [Next]_vars => Exclusive'
  BY ExclusiveNext
<1>2. QED
  BY <1>1, ExclusiveInit, TypeCorrect, PTL DEF Spec

(* What an operation tells its caller about the turn is what is stored when *)
(* it returns, if the agents share a coordinator: a second coordinator's    *)
(* agent can settle a turn between the commit of its status and the last    *)
(* commit, which then fails.                                                *)
THEOREM DurableOutcome ==
    ASSUME SharedLease
    PROVE  Spec => OutcomeIsDurable
<1> DEFINE Told == \A a \in Agents :
               agent[a].pc # "idle" /\ outcome'[a].kind \in DOMAIN StatusOf =>
                   status'[agent[a].turn] = StatusOf[outcome'[a].kind]
<1>1. ASSUME LInv, Exclusive, NEW b \in Agents,
             \/ Caller(b) \/ Drop(b) \/ Acquire(b) \/ OwnStep(b)
             \/ FunctionReturns(b) \/ ModelReturns(b)
      PROVE  Told
  <2>0. Shape(b) /\ TypeOK
    BY Typed, <1>1 DEF LInv, IInv
  <2>1. ASSUME outcome' = outcome PROVE Told
    BY <1>1, <2>1 DEF Exclusive, StatusOf
  <2>2. ASSUME NEW kind, NEW sid, Return(b, kind, sid),
               kind \in DOMAIN StatusOf => status'[agent[b].turn] = StatusOf[kind]
        PROVE  Told
    <3>1. outcome'[b].kind = kind /\ \A a \in Agents \ {b} : outcome'[a] = outcome[a]
      BY <2>0, <2>2 DEF Return, TypeOK
    <3>2. QED
      BY <1>1, <2>2, <3>1 DEF Exclusive, StatusOf
  <2>3. \/ Working(agent[b]) /\ agent[b].base = rev
        \/ Settling(agent[b]) /\ agent[b].base = rev
        => agent[b].turn \in DOMAIN status
    BY <1>1, WorkingTurn
  <2>4. ASSUME Working(agent[b]) \/ Settling(agent[b]), NEW more,
               NEW kind \in {"failed", "aborted"}, CloseTurn(b, more, kind)
        PROVE  Told
    <3>1. agent[b].base = rev /\ agent[b].turn \in DOMAIN status
      BY <2>3, <2>4 DEF CloseTurn, Persist
    <3>2. status'[agent[b].turn] = kind
      BY <2>0, <2>4, <3>1 DEF CloseTurn, SetStatus, TypeOK
    <3>3. StatusOf[kind] = kind
      BY DEF StatusOf
    <3>4. QED
      BY <2>2, <2>4, <3>2, <3>3 DEF CloseTurn
  <2>5. CASE Drop(b) \/ Refuse(b) \/ Conflict(b)
    BY <2>2, <2>5 DEF Drop, Refuse, Conflict, StatusOf
  <2>6. CASE RunTurn(b) \/ RecoverTurn(b) \/ ResumeSuspendedTurn(b)
    <3>1. outcome' = [outcome EXCEPT ![b] = [kind |-> "none", sid |-> 0]]
      BY <2>6 DEF RunTurn, RecoverTurn, ResumeSuspendedTurn, Begin
    <3>2. outcome'[b].kind = "none" /\ \A a \in Agents \ {b} : outcome'[a] = outcome[a]
      BY <2>0, <3>1 DEF TypeOK
    <3>3. QED
      BY <1>1, <3>2 DEF Exclusive, StatusOf
  <2>7. CASE \/ Abort(b) \/ Acquire(b)
             \/ LoadForRun(b) \/ LoadForRecover(b) \/ LoadForResume(b)
             \/ RecoveryDone(b) \/ BatchDone(b) \/ EnterFunction(b) \/ BuildRequest(b)
    BY <2>1, <2>7 DEF Abort, Acquire, LoadForRun, LoadForRecover, LoadForResume,
                      RecoveryDone, BatchDone, EnterFunction, BuildRequest
  <2>8. CASE \/ OpenTurn(b) \/ ReplyToSuspension(b) \/ DenySuspended(b)
             \/ ApproveSuspended(b) \/ SuspendRecovery(b) \/ RetryCall(b)
             \/ StartCall(b) \/ HookRejects(b) \/ LimitReached(b)
             \/ \E result \in {"success", "error"} : AnswerCall(b, result)
             \/ \E executed, deferred \in BOOLEAN : SuspendCall(b, executed, deferred)
             \/ ModelAnswers(b) \/ \E batch \in Batches : ModelCalls(b, batch)
    <3>1. \E more, next : CommitAndGoto(b, more, next)
      BY <2>8 DEF OpenTurn, ReplyToSuspension, DenySuspended, ApproveSuspended,
                  SuspendRecovery, RetryCall, StartCall, HookRejects, LimitReached,
                  AnswerCall, SuspendCall, ModelAnswers, ModelCalls
    <3>2. QED
      BY <2>1, <3>1 DEF CommitAndGoto
  <2>9. CASE IterationsExhausted(b) \/ AbortModel(b) \/ ModelFails(b)
    <3>1. Working(agent[b])
      BY <2>9 DEF IterationsExhausted, AbortModel, ModelFails, Asking, Working
    <3>2. QED
      BY <2>4, <2>9, <3>1 DEF IterationsExhausted, AbortModel, ModelFails
  <2>10. CASE AbortCall(b)
    <3>1. Working(agent[b]) \/ Settling(agent[b])
      BY <2>0, <2>10 DEF AbortCall, Working, Settling, AtCall, Shape, WellFormed, AgentState
    <3>2. \/ \E more : CloseTurn(b, more, "aborted")
          \/ \E more, next : CommitAndGoto(b, more, next)
      BY <2>10 DEF AbortCall
    <3>3. QED
      BY <2>1, <2>4, <3>1, <3>2 DEF CommitAndGoto
  <2>11. CASE FinishTurn(b)
    <3>1. /\ agent[b].pc = "finish" /\ agent[b].base = rev /\ status' = status
          /\ Return(b, agent[b].result, agent[b].newSid)
      BY <2>11 DEF FinishTurn, Persist
    <3>2. agent[b].result \in DOMAIN StatusOf =>
              status[agent[b].turn] = StatusOf[agent[b].result]
      BY <1>1, <3>1 DEF LInv, Conclusions, Concludes, TurnKnown
    <3>3. QED
      BY <2>2, <3>1, <3>2
  <2>12. CASE SuspendAgain(b)
    <3>1. /\ agent[b].pc = "running" /\ Settling(agent[b]) /\ status' = status
          /\ Return(b, "suspended", 0)
      BY <2>12 DEF SuspendAgain, Settling, AtCall
    <3>2. agent[b].base = rev
      BY <1>1, <3>1 DEF Exclusive, Entering
    <3>3. status[agent[b].turn] = "suspended"
      BY <1>1, <3>1, <3>2, WorkingTurn
    <3>4. QED
      BY <2>2, <3>1, <3>3 DEF StatusOf
  <2>13. QED
    BY <1>1, <2>5, <2>6, <2>7, <2>8, <2>9, <2>10, <2>11, <2>12
       DEF Caller, OwnStep, FunctionReturns, ModelReturns, RevisionConflict,
           LateFunctionReply, LateModelReply
<1>2. LInv /\ Exclusive /\ [Next]_vars => [Told]_vars
  BY <1>1 DEF Next
<1>3. QED
  BY <1>2, LedgerInductive, HolderAlone, PTL DEF Spec, OutcomeIsDurable

(* No function is entered for a call that already has an output, if the     *)
(* agents share a coordinator: an agent that was overtaken could still      *)
(* enter the function it stands at.                                         *)
THEOREM NoRunAnswered ==
    ASSUME SharedLease
    PROVE  Spec => NoRunAfterAnswer
<1>1. ASSUME LInv, Exclusive, NEW a \in Agents, EnterFunction(a), NEW c \in Calls,
             runs'[c] # runs[c]
      PROVE  Outputs(log, c) = {}
  <2>0. Shape(a)
    BY <1>1, Typed DEF LInv, IInv
  <2>1. agent[a].pc = "exec" /\ agent[a].queue # <<>> /\ c = Current(a)
    BY <1>1, <2>0 DEF EnterFunction, Shape, WellFormed
  <2>2. agent[a].base = rev
    BY <1>1, <2>1 DEF Exclusive, Entering
  <2>3. 1 \in DOMAIN agent[a].queue /\ agent[a].queue[1] = Current(a)
    BY <2>0, <2>1, HeadIndex DEF Shape, Current
  <2>4. QED
    BY <1>1, <2>1, <2>2, <2>3 DEF LInv, Conclusions, Concludes, QueueOpen, Open
<1>2. ASSUME NEW a \in Agents,
             \/ Caller(a) \/ Drop(a) \/ Acquire(a) \/ OwnStep(a)
             \/ FunctionReturns(a) \/ ModelReturns(a)
      PROVE  runs' = runs \/ EnterFunction(a)
  <2>1. CASE Caller(a) \/ Drop(a) \/ Acquire(a)
    BY <2>1 DEF Caller, RunTurn, RecoverTurn, ResumeSuspendedTurn, Abort, Begin, Drop, Acquire
  <2>2. CASE OwnStep(a)
    BY <2>2 DEF OwnStep, LoadForRun, OpenTurn, LoadForRecover, LoadForResume, Refuse,
                RevisionConflict, Conflict, ReplyToSuspension, DenySuspended,
                ApproveSuspended, SuspendRecovery, RetryCall, RecoveryDone,
                IterationsExhausted, AbortModel, CloseTurn, StartCall, HookRejects,
                LimitReached, BatchDone, AbortCall, FinishTurn, BuildRequest
  <2>3. CASE FunctionReturns(a)
    BY <2>3 DEF FunctionReturns, AnswerCall, SuspendCall, SuspendAgain,
                LateFunctionReply, Conflict
  <2>4. CASE ModelReturns(a)
    BY <2>4 DEF ModelReturns, ModelFails, ModelAnswers, ModelCalls, CloseTurn,
                LateModelReply, Conflict
  <2>5. QED
    BY <1>2, <2>1, <2>2, <2>3, <2>4
<1>3. LInv /\ Exclusive /\ [Next]_vars =>
          [\A c \in Calls : runs'[c] # runs[c] => Outputs(log, c) = {}]_vars
  BY <1>1, <1>2 DEF Next
<1>4. QED
  BY <1>3, LedgerInductive, HolderAlone, PTL DEF Spec, NoRunAfterAnswer

-----------------------------------------------------------------------------
(* The life of calls.  What is read off the log is unique, and what is      *)
(* appended changes it only for the calls it is about.                      *)

LEMMA TurnOfIs ==
    ASSUME NEW items, RequestedOnce(items), NEW c \in Calls
    PROVE  /\ \A r \in DOMAIN items : Requests(items, r, c) => TurnOf(items, c) = items[r].turn
           /\ (\A r \in DOMAIN items : ~Requests(items, r, c)) => TurnOf(items, c) = 0
<1> DEFINE asking == {r \in DOMAIN items : Requests(items, r, c)}
<1>1. ASSUME NEW r \in asking PROVE asking = {r}
  BY DEF RequestedOnce
<1>2. ASSUME NEW r \in asking PROVE TurnOf(items, c) = items[r].turn
  <2>1. asking = {r}
    BY <1>1
  <2>2. (CHOOSE x \in asking : TRUE) = r
    BY <2>1
  <2> QED BY <2>1, <2>2 DEF TurnOf
<1>3. asking = {} => TurnOf(items, c) = 0
  BY DEF TurnOf
<1> QED BY <1>2, <1>3

LEMMA AnswerToIs ==
    ASSUME NEW items, OutputsOnce(items), NEW c
    PROVE  /\ \A i \in Outputs(items, c) : AnswerTo(items, c) = items[i].result
           /\ Open(items, c) => AnswerTo(items, c) = "none"
<1>1. ASSUME NEW i \in Outputs(items, c) PROVE AnswerTo(items, c) = items[i].result
  <2>1. Outputs(items, c) = {i}
    BY DEF Outputs, OutputsOnce
  <2>2. (CHOOSE x \in Outputs(items, c) : TRUE) = i
    BY <2>1
  <2> QED BY <2>1, <2>2 DEF AnswerTo, Open
<1> QED BY <1>1 DEF AnswerTo

LEMMA ResultType ==
    ASSUME NEW item \in TurnItem, item.kind = "output"
    PROVE  item.result \in ToolResult
<1>1. item \in [kind : {"output"}, turn : Nat, call : Calls, result : ToolResult]
  BY DEF TurnItem
<1> QED BY <1>1

LEMMA AnswerOpen ==
    ASSUME NEW items \in Seq(TurnItem), OutputsOnce(items), NEW c
    PROVE  /\ AnswerTo(items, c) \in ToolResult \cup {"none"}
           /\ AnswerTo(items, c) = "none" <=> Open(items, c)
<1>1. ASSUME NEW i \in Outputs(items, c)
      PROVE  AnswerTo(items, c) \in ToolResult
  <2>1. items[i] \in TurnItem /\ items[i].kind = "output"
    BY DEF Outputs
  <2> QED BY <2>1, AnswerToIs, ResultType
<1>2. "none" \notin ToolResult
  BY DEF ToolResult
<1> QED BY <1>1, <1>2, AnswerToIs DEF Open

LEMMA TurnsGrow ==
    ASSUME NEW items \in Seq(TurnItem), NEW more \in Seq(TurnItem), NEW c \in Calls,
           RequestedOnce(items), RequestedOnce(items \o more),
           \A j \in DOMAIN more : ~Requests(more, j, c)
    PROVE  TurnOf(items \o more, c) = TurnOf(items, c)
<1> DEFINE all == items \o more
<1>1. ASSUME NEW r \in DOMAIN all, Requests(all, r, c)
      PROVE  r \in DOMAIN items /\ Requests(items, r, c) /\ all[r] = items[r]
  <2>1. ASSUME r \notin DOMAIN items PROVE FALSE
    <3>1. PICK j \in DOMAIN more : all[r] = more[j]
      BY <2>1, Extend
    <3> QED BY <1>1, <3>1 DEF Requests
  <2> QED BY <1>1, <2>1, Extend, RequestsKept
<1>2. CASE \E r \in DOMAIN all : Requests(all, r, c)
  BY <1>1, <1>2, TurnOfIs
<1>3. CASE \A r \in DOMAIN all : ~Requests(all, r, c)
  <2>1. \A r \in DOMAIN items : ~Requests(items, r, c)
    BY <1>3, Extend, RequestsKept
  <2> QED BY <1>3, <2>1, TurnOfIs
<1> QED BY <1>2, <1>3

LEMMA AnswersGrow ==
    ASSUME NEW items \in Seq(TurnItem), NEW more \in Seq(TurnItem), NEW c,
           OutputsOnce(items), OutputsOnce(items \o more),
           \/ ~Open(items, c)
           \/ \A j \in DOMAIN more : more[j].kind = "output" => more[j].call # c
    PROVE  AnswerTo(items \o more, c) = AnswerTo(items, c)
<1>1. CASE ~Open(items, c)
  <2>1. PICK i \in Outputs(items, c) : TRUE
    BY <1>1 DEF Open
  <2>2. i \in Outputs(items \o more, c) /\ (items \o more)[i] = items[i]
    BY <2>1, OutputsGrow, Extend DEF Outputs
  <2> QED BY <2>1, <2>2, AnswerToIs
<1>2. CASE Open(items, c) /\ Outputs(items \o more, c) = Outputs(items, c)
  BY <1>2, AnswerToIs DEF Open
<1> QED BY <1>1, <1>2, OutputsGrow
LEMMA StartedGrow ==
    ASSUME NEW items \in Seq(TurnItem), NEW more \in Seq(TurnItem),
           \A j \in DOMAIN more : more[j].kind # "started"
    PROVE  \A c : Markers(items \o more, c) = Markers(items, c)
  BY MarkersGrow

(* The turn of a call is a turn, and asked for it.                          *)
LEMMA AskedIn ==
    ASSUME LInv, NEW c \in Calls, NEW t \in DOMAIN status
    PROVE  TurnOf(log, c) = t <=> RequestedIn(log, t, c)
<1>1. RequestedOnce(log) /\ t # 0
  <2>1. status \in Seq(TurnStatus)
    BY DEF LInv, IInv, TypeOK
  <2> QED BY <2>1 DEF LInv, IInv
<1>2. CASE \A r \in DOMAIN log : ~Requests(log, r, c)
  BY <1>1, <1>2, TurnOfIs DEF RequestedIn
<1>3. CASE \E r \in DOMAIN log : Requests(log, r, c)
  <2>1. PICK r \in DOMAIN log : Requests(log, r, c)
    BY <1>3
  <2>2. TurnOf(log, c) = log[r].turn
    BY <1>1, <2>1, TurnOfIs
  <2>3. \A s \in DOMAIN log : Requests(log, s, c) => s = r
    BY <1>1, <2>1 DEF RequestedOnce
  <2> QED BY <2>1, <2>2, <2>3 DEF RequestedIn
<1> QED BY <1>2, <1>3

(* What an operation may append to its turn when it settles calls: no start *)
(* marker and no request, a success only of a function that was entered, a  *)
(* denial only while the turn is suspended.                                 *)
SettlingItems(t, more) ==
    \A j \in DOMAIN more :
        /\ more[j].turn = t
        /\ more[j].kind # "started"
        /\ more[j].kind = "response" => more[j].calls = <<>>
        /\ more[j].kind = "output" =>
               /\ more[j].result = "success" => runs[more[j].call] > 0
               /\ more[j].result = "denied" => status[t] = "suspended"

LEMMA SettleStep ==
    ASSUME LInv, LInv', NEW t \in DOMAIN status, status[t] \notin Closed,
           NEW to \in TurnStatus, status' = [status EXCEPT ![t] = to],
           NEW more \in Seq(TurnItem), log' = log \o more, SettlingItems(t, more),
           UNCHANGED <<runs, approvals>>
    PROVE  Life!Settle(t, to)
<1>0. /\ log \in Seq(TurnItem) /\ log' \in Seq(TurnItem)
      /\ RequestedOnce(log) /\ RequestedOnce(log')
      /\ OutputsOnce(log) /\ OutputsOnce(log')
      /\ status \in Seq(TurnStatus) /\ status' \in Seq(TurnStatus)
  BY DEF LInv, IInv, TypeOK, Ledger
<1>1. \A c \in Calls : TurnOf(log', c) = TurnOf(log, c)
  <2>1. \A j \in DOMAIN more : \A c : ~Requests(more, j, c)
    BY DEF SettlingItems, Requests
  <2> QED BY <1>0, <2>1, TurnsGrow
<1>2. \A c \in Calls : Markers(log', c) = Markers(log, c)
  BY <1>0, StartedGrow DEF SettlingItems
<1>3. ASSUME NEW c \in Calls, NEW j \in DOMAIN more, more[j].kind = "output", more[j].call = c
      PROVE  TurnOf(log, c) = t
  <2>1. PICK i \in DOMAIN log' : log'[i] = more[j]
    <3>1. Len(log) + j \in DOMAIN log' /\ log'[Len(log) + j] = more[j]
      BY <1>0, Extend
    <3> QED BY <3>1
  <2>2. PICK r \in DOMAIN log' : log'[r].turn = log'[i].turn /\ Requests(log', r, c)
    BY <1>3, <2>1 DEF LInv, Ledger, OutputsRequested
  <2>3. TurnOf(log', c) = t
    BY <1>0, <2>1, <2>2, TurnOfIs DEF SettlingItems
  <2> QED BY <1>1, <2>3
<1>4. ASSUME NEW c \in Calls, AnswerTo(log', c) # AnswerTo(log, c)
      PROVE  /\ TurnOf(log, c) = t /\ AnswerTo(log, c) = "none"
             /\ Life!MayBe(c, status[t], AnswerTo(log', c))
  <2>1. Open(log, c)
    BY <1>0, <1>4, AnswersGrow
  <2>2. AnswerTo(log, c) = "none"
    BY <2>1, <1>0, AnswerOpen
  <2>3. PICK i \in Outputs(log', c) : TRUE
    <3>1. ~Open(log', c)
      BY <1>0, <1>4, <2>2, AnswerOpen
    <3> QED BY <3>1 DEF Open
  <2>4. /\ AnswerTo(log', c) = log'[i].result
        /\ i \in DOMAIN log' /\ log'[i].kind = "output" /\ log'[i].call = c
    BY <1>0, <2>3, AnswerToIs DEF Outputs
  <2>5. i \notin DOMAIN log
    BY <1>0, <2>1, <2>4, Extend DEF Open, Outputs
  <2>6. PICK j \in DOMAIN more : log'[i] = more[j]
    BY <1>0, <2>4, <2>5, Extend
  <2>7. /\ more[j].kind = "output" /\ more[j].call = c
        /\ more[j].result = AnswerTo(log', c)
    BY <2>4, <2>6
  <2>8. TurnOf(log, c) = t
    BY <1>3, <2>7
  <2>9. AnswerTo(log', c) = "skipped" => Markers(log, c) = {}
    BY <1>2, <2>4 DEF LInv, Ledger, SkippedUnmarked
  <2> QED BY <2>2, <2>7, <2>8, <2>9 DEF SettlingItems, Life!MayBe
<1>5. [c \in Calls |-> AnswerTo(log', c)] \in [Calls -> ToolResult \cup {"none"}]
  BY <1>0, AnswerOpen
<1>6. ASSUME to \in {"completed", "failed"}, NEW c \in Calls, TurnOf(log, c) = t
      PROVE  AnswerTo(log', c) # "none"
  <2>1. t \in DOMAIN status' /\ status'[t] = to
    BY <1>0
  <2>2. TurnOf(log', c) = t
    BY <1>1, <1>6
  <2>3. PICK r \in DOMAIN log' : log'[r].turn = t /\ Requests(log', r, c)
    <3>1. t # 0
      BY <1>0
    <3> QED BY <1>0, <2>2, <3>1, TurnOfIs
  <2>4. c \in CallsOf(log', t)
    <3>1. PICK k \in DOMAIN log'[r].calls : log'[r].calls[k] = c
      BY <2>3 DEF Requests
    <3>2. r \in CallResponses(log', t)
      BY <2>3, <3>1 DEF CallResponses, Requests
    <3> QED BY <3>1, <3>2, CallsOfTurn
  <2>5. ~Open(log', c)
    BY <1>6, <2>1, <2>4 DEF LInv, ClosedTurnsAnswered, Open
  <2> QED BY <1>0, <2>5, AnswerOpen
<1>7. /\ [c \in Calls |-> TurnOf(log', c)] = [c \in Calls |-> TurnOf(log, c)]
      /\ {c \in Calls : Markers(log', c) # {}} = {c \in Calls : Markers(log, c) # {}}
  BY <1>1, <1>2
<1>8. Life!Closed = Closed /\ Life!ToolResult = ToolResult
  BY DEF Life!Closed, Closed, Life!ToolResult, ToolResult
<1> QED BY <1>4, <1>5, <1>6, <1>7, <1>8 DEF Life!Settle, Life!Waiting, Life!CallsIn

(* Items that settle, one by one and together.                              *)
LEMMA SettlingOne ==
    ASSUME NEW t, NEW item, item.turn = t, item.kind # "started",
           item.kind = "response" => item.calls = <<>>,
           item.kind = "output" /\ item.result = "success" => runs[item.call] > 0,
           item.kind = "output" /\ item.result = "denied" => status[t] = "suspended"
    PROVE  SettlingItems(t, <<item>>)
<1>1. \A j \in DOMAIN <<item>> : <<item>>[j] = item
  OBVIOUS
<1> QED BY <1>1 DEF SettlingItems

LEMMA SettlingMore ==
    ASSUME NEW t, NEW p \in Seq(TurnItem), NEW q \in Seq(TurnItem),
           SettlingItems(t, p), SettlingItems(t, q)
    PROVE  SettlingItems(t, p \o q) /\ p \o q \in Seq(TurnItem)
<1>1. ASSUME NEW j \in DOMAIN (p \o q)
      PROVE  \/ \E k \in DOMAIN p : (p \o q)[j] = p[k]
             \/ \E k \in DOMAIN q : (p \o q)[j] = q[k]
  <2>1. CASE j \in DOMAIN p
    BY <2>1, Extend
  <2>2. CASE j \notin DOMAIN p
    BY <2>2, Extend
  <2> QED BY <2>1, <2>2
<1>2. SettlingItems(t, p \o q)
  BY <1>1 DEF SettlingItems
<1>3. p \o q \in Seq(TurnItem)
  BY Extend
<1> QED BY <1>2, <1>3

LEMMA SettlingQueue ==
    ASSUME NEW t, NEW q \in Seq(Calls), NEW result, result \notin {"success", "denied"}
    PROVE  SettlingItems(t, OutputsFor(t, q, result))
<1> DEFINE outs == OutputsFor(t, q, result)
<1>1. ASSUME NEW k \in DOMAIN outs
      PROVE  outs[k].kind = "output" /\ outs[k].turn = t /\ outs[k].result = result
  BY QueueOutputs
<1> HIDE DEF outs
<1>2. SettlingItems(t, outs)
  BY <1>1 DEF SettlingItems
<1> QED BY <1>2 DEF outs

LEMMA SettlingEnds ==
    ASSUME NEW t, NEW r
    PROVE  /\ SettlingItems(t, <<TurnFailed(t)>>) /\ SettlingItems(t, <<TurnAborted(t)>>)
           /\ SettlingItems(t, <<UserInput(t, r)>>)
           /\ SettlingItems(t, <<ModelResponse(t, <<>>)>>)
           /\ \A s, c, d : SettlingItems(t, <<Suspension(t, s, c, d)>>)
<1>1. SettlingItems(t, <<TurnFailed(t)>>)
  BY SettlingOne DEF TurnFailed
<1>2. SettlingItems(t, <<TurnAborted(t)>>)
  BY SettlingOne DEF TurnAborted
<1>3. SettlingItems(t, <<UserInput(t, r)>>)
  BY SettlingOne DEF UserInput
<1>4. SettlingItems(t, <<ModelResponse(t, <<>>)>>)
  BY SettlingOne DEF ModelResponse
<1>5. ASSUME NEW s, NEW c, NEW d PROVE SettlingItems(t, <<Suspension(t, s, c, d)>>)
  BY SettlingOne DEF Suspension
<1> QED BY <1>1, <1>2, <1>3, <1>4, <1>5

LEMMA SettlingAnswer ==
    ASSUME NEW t, NEW c, NEW result, result = "success" => runs[c] > 0,
           result = "denied" => status[t] = "suspended"
    PROVE  SettlingItems(t, <<ToolOutput(t, c, result)>>)
<1>1. /\ ToolOutput(t, c, result).turn = t /\ ToolOutput(t, c, result).kind = "output"
      /\ ToolOutput(t, c, result).call = c /\ ToolOutput(t, c, result).result = result
  BY DEF ToolOutput
<1> QED BY <1>1, SettlingOne

(* An agent that settles calls of its turn, which it works on or which is   *)
(* suspended.                                                               *)
LEMMA AgentSettles ==
    ASSUME LInv, LInv', NEW a \in Agents, Working(agent[a]) \/ Settling(agent[a]),
           NEW more \in Seq(TurnItem), Persist(a, more),
           SettlingItems(agent[a].turn, more), NEW to \in TurnStatus,
           \/ SetStatus(agent[a].turn, to)
           \/ to = status[agent[a].turn] /\ UNCHANGED status,
           UNCHANGED <<runs, approvals>>
    PROVE  \E t \in DOMAIN status, x \in TurnStatus : Life!Settle(t, x)
<1>1. agent[a].base = rev /\ log' = log \o more
  BY DEF Persist
<1>2. agent[a].turn \in DOMAIN status /\ status[agent[a].turn] \notin Closed
  BY <1>1, WorkingTurn DEF Closed
<1>3. status' = [status EXCEPT ![agent[a].turn] = to]
  BY <1>2, SameStatus DEF SetStatus
<1>4. Life!Settle(agent[a].turn, to)
  BY <1>1, <1>2, <1>3, SettleStep
<1> QED BY <1>2, <1>4

LEMMA ModelEndsSettles ==
    ASSUME LInv, LInv', NEW a \in Agents,
           \/ IterationsExhausted(a) \/ AbortModel(a) \/ ModelFails(a) \/ ModelAnswers(a)
    PROVE  \E t \in DOMAIN status, x \in TurnStatus : Life!Settle(t, x)
<1> DEFINE t == agent[a].turn
<1>0. Shape(a)
  BY Typed DEF LInv, IInv
<1>1. Working(agent[a])
  BY DEF IterationsExhausted, AbortModel, ModelFails, ModelAnswers, Asking, Working
<1>2. /\ \A item \in {TurnFailed(t), TurnAborted(t), ModelResponse(t, <<>>)} :
             <<item>> \in Seq(TurnItem) /\ SettlingItems(t, <<item>>)
      /\ {"failed", "aborted", "completed"} \subseteq TurnStatus
  BY <1>0, Appended, SettlingEnds DEF Shape, TurnStatus, Closed
<1>3. PICK item \in {TurnFailed(t), TurnAborted(t), ModelResponse(t, <<>>)},
           to \in {"failed", "aborted", "completed"} :
          /\ Persist(a, <<item>>) /\ SetStatus(t, to) /\ UNCHANGED <<runs, approvals>>
  BY DEF IterationsExhausted, AbortModel, ModelFails, ModelAnswers, CloseTurn, CommitAndGoto
<1> QED BY <1>1, <1>2, <1>3, AgentSettles

LEMMA CallSettles ==
    ASSUME LifeInv, LInv', NEW a \in Agents,
           \/ HookRejects(a) \/ ReplyToSuspension(a) \/ DenySuspended(a)
           \/ \E result \in {"success", "error"} : AnswerCall(a, result)
    PROVE  \E t \in DOMAIN status, x \in TurnStatus : Life!Settle(t, x)
<1> DEFINE t == agent[a].turn
           c == Current(a)
<1>0. Shape(a) /\ LInv
  BY Typed DEF LifeInv, LInv, IInv
<1>1. {"running", "suspended"} \subseteq TurnStatus /\ {"success", "error", "denied"} \subseteq ToolResult
  BY DEF TurnStatus, ToolResult
<1>2. CASE ReplyToSuspension(a)
  <2>1. Settling(agent[a])
    BY <1>2 DEF ReplyToSuspension, Settling
  <2>2. /\ <<UserInput(t, agent[a].sid)>> \in Seq(TurnItem)
        /\ SettlingItems(t, <<UserInput(t, agent[a].sid)>>)
    BY <1>0, Appended, SettlingEnds DEF Shape
  <2>3. /\ Persist(a, <<UserInput(t, agent[a].sid)>>) /\ SetStatus(t, "running")
        /\ UNCHANGED <<runs, approvals>>
    BY <1>2 DEF ReplyToSuspension, CommitAndGoto
  <2> QED BY <1>0, <1>1, <2>1, <2>2, <2>3, AgentSettles
<1>3. ASSUME NEW result \in {"success", "error", "denied"}, agent[a].queue # <<>>,
             Working(agent[a]) \/ Settling(agent[a]),
             Persist(a, <<ToolOutput(t, c, result)>>),
             SetStatus(t, "running") \/ (Working(agent[a]) /\ status' = status),
             result = "success" => runs[c] > 0,
             result = "denied" => Settling(agent[a]),
             runs' = runs, approvals' = approvals
      PROVE  \E u \in DOMAIN status, x \in TurnStatus : Life!Settle(u, x)
  <2>1. agent[a].base = rev
    BY <1>3 DEF Persist
  <2>2. /\ Working(agent[a]) => status[t] = "running"
        /\ Settling(agent[a]) => status[t] = "suspended"
    BY <1>0, <2>1, WorkingTurn
  <2>3. <<ToolOutput(t, c, result)>> \in Seq(TurnItem)
    BY <1>0, <1>1, <1>3, Appended DEF Shape
  <2>4. SettlingItems(t, <<ToolOutput(t, c, result)>>)
    BY <1>3, <2>2, SettlingAnswer
  <2> QED BY <1>0, <1>1, <1>3, <2>2, <2>3, <2>4, AgentSettles
<1>4. CASE HookRejects(a)
  <2>1. Working(agent[a])
    BY <1>4 DEF HookRejects, Working
  <2>2. /\ Persist(a, <<ToolOutput(t, c, "error")>>) /\ agent[a].queue # <<>>
        /\ status' = status /\ runs' = runs /\ approvals' = approvals
    BY <1>4 DEF HookRejects, CommitAndGoto
  <2>3. "error" \in {"success", "error", "denied"} /\ "error" \notin {"success", "denied"}
    OBVIOUS
  <2> HIDE DEF t, c
  <2> QED BY <1>3, <2>1, <2>2, <2>3
<1>5. CASE DenySuspended(a)
  <2>1. Settling(agent[a]) /\ agent[a].queue # <<>>
    BY <1>0, <1>5 DEF DenySuspended, Settling, Shape, WellFormed
  <2>2. /\ Persist(a, <<ToolOutput(t, c, "denied")>>) /\ SetStatus(t, "running")
        /\ runs' = runs /\ approvals' = approvals
    BY <1>5 DEF DenySuspended, CommitAndGoto
  <2>3. "denied" \in {"success", "error", "denied"} /\ "denied" # "success"
    OBVIOUS
  <2> HIDE DEF t, c
  <2> QED BY <1>3, <2>1, <2>2, <2>3
<1>6. ASSUME NEW result \in {"success", "error"}, AnswerCall(a, result)
      PROVE  \E u \in DOMAIN status, x \in TurnStatus : Life!Settle(u, x)
  <2>1. /\ agent[a].pc \in {"exec", "running"} /\ agent[a].queue # <<>>
        /\ agent[a].mode \in {"live", "recover", "approve"}
    BY <1>0, <1>6 DEF AnswerCall, Shape, WellFormed, AgentState
  <2>2. IF agent[a].mode = "approve" THEN Settling(agent[a]) ELSE Working(agent[a])
    BY <2>1 DEF Settling, Working, AtCall
  <2>3. /\ Persist(a, <<ToolOutput(t, c, result)>>) /\ runs' = runs /\ approvals' = approvals
        /\ IF agent[a].mode = "approve" THEN SetStatus(t, "running") ELSE status' = status
    BY <1>6 DEF AnswerCall, CommitAndGoto
  <2>4. result = "success" => runs[c] > 0
    BY <1>6 DEF AnswerCall, LifeInv, RunningEntered
  <2>5. result \in {"success", "error", "denied"} /\ result # "denied"
    BY <1>6
  <2>6. /\ Working(agent[a]) \/ Settling(agent[a])
        /\ SetStatus(t, "running") \/ (Working(agent[a]) /\ status' = status)
    BY <2>2, <2>3
  <2> HIDE DEF t, c
  <2> QED BY <1>3, <2>1, <2>3, <2>4, <2>5, <2>6
<1> QED BY <1>2, <1>4, <1>5, <1>6

LEMMA QueueSettles ==
    ASSUME LifeInv, LInv', NEW a \in Agents,
           \/ LimitReached(a) \/ AbortCall(a) \/ SuspendRecovery(a)
           \/ \E deferred \in BOOLEAN : SuspendCall(a, FALSE, deferred)
           \/ SuspendCall(a, TRUE, FALSE)
    PROVE  \E t \in DOMAIN status, x \in TurnStatus : Life!Settle(t, x)
<1> DEFINE t == agent[a].turn
           q == agent[a].queue
           outs(result) == OutputsFor(t, q, result)
<1>0. Shape(a) /\ LInv
  BY Typed DEF LifeInv, LInv, IInv
<1>1. {"failed", "aborted", "suspended"} \subseteq TurnStatus
  BY DEF TurnStatus, Closed
<1>2. \A result \in {"skipped", "aborted"} :
          /\ outs(result) \in Seq(TurnItem) /\ SettlingItems(t, outs(result))
  BY <1>0, OutputsForType, SettlingQueue DEF Shape, ToolResult
<1>3. CASE LimitReached(a)
  <2> DEFINE item == TurnFailed(t)
             o == outs("skipped")
  <2>1. Working(agent[a])
    BY <1>3 DEF LimitReached, Working
  <2>2. /\ Persist(a, Append(o, item)) /\ SetStatus(t, "failed")
        /\ UNCHANGED <<runs, approvals>>
    BY <1>3 DEF LimitReached, CommitAndGoto
  <2>3. /\ item \in TurnItem /\ <<item>> \in Seq(TurnItem) /\ SettlingItems(t, <<item>>)
        /\ o \in Seq(TurnItem) /\ SettlingItems(t, o)
    BY <1>0, <1>2, EndTypes, Appended, SettlingEnds DEF Shape
  <2> HIDE DEF o, item
  <2>4. Append(o, item) = o \o <<item>> /\ o \o <<item>> \in Seq(TurnItem)
    BY <2>3
  <2>5. SettlingItems(t, o \o <<item>>)
    BY <2>3, SettlingMore
  <2> QED BY <1>0, <1>1, <2>1, <2>2, <2>4, <2>5, AgentSettles
<1>4. CASE AbortCall(a)
  <2> DEFINE item == TurnAborted(t)
             o == outs("aborted")
  <2>1. Working(agent[a]) \/ Settling(agent[a])
    BY <1>0, <1>4 DEF AbortCall, Working, Settling, AtCall, Shape, WellFormed, AgentState
  <2>2. /\ Persist(a, <<item>> \o o) /\ SetStatus(t, "aborted")
        /\ UNCHANGED <<runs, approvals>>
    BY <1>4 DEF AbortCall, CommitAndGoto, CloseTurn
  <2>3. /\ item \in TurnItem /\ <<item>> \in Seq(TurnItem) /\ SettlingItems(t, <<item>>)
        /\ o \in Seq(TurnItem) /\ SettlingItems(t, o)
    BY <1>0, <1>2, EndTypes, Appended, SettlingEnds DEF Shape
  <2> HIDE DEF o, item
  <2>4. SettlingItems(t, <<item>> \o o) /\ <<item>> \o o \in Seq(TurnItem)
    BY <2>3, SettlingMore
  <2> QED BY <1>0, <1>1, <2>1, <2>2, <2>4, AgentSettles
<1>5. CASE SuspendRecovery(a)
  <2>1. Working(agent[a]) /\ Current(a) \in Calls
    BY <1>0, <1>5 DEF SuspendRecovery, Working, Shape
  <2>2. /\ Persist(a, <<Suspension(t, rev + 1, Current(a), TRUE)>>)
        /\ SetStatus(t, "suspended") /\ UNCHANGED <<runs, approvals>>
    BY <1>5 DEF SuspendRecovery, CommitAndGoto
  <2>3. /\ <<Suspension(t, rev + 1, Current(a), TRUE)>> \in Seq(TurnItem)
        /\ SettlingItems(t, <<Suspension(t, rev + 1, Current(a), TRUE)>>)
    BY <1>0, <2>1, Appended, SettlingEnds DEF Shape
  <2> QED BY <1>0, <1>1, <2>1, <2>2, <2>3, AgentSettles
<1>6. ASSUME NEW executed \in BOOLEAN, NEW deferred \in BOOLEAN,
             SuspendCall(a, executed, deferred)
      PROVE  \E u \in DOMAIN status, x \in TurnStatus : Life!Settle(u, x)
  <2> DEFINE output == IF executed /\ agent[a].mode = "live"
                       THEN <<ToolOutput(t, Current(a), "success")>> ELSE <<>>
             susp   == <<Suspension(t, rev + 1, Current(a), deferred)>>
             rest   == OutputsFor(t, Tail(q), "skipped")
  <2>1. /\ Working(agent[a]) /\ q # <<>> /\ Current(a) \in Calls /\ Tail(q) \in Seq(Calls)
    BY <1>0, <1>6 DEF SuspendCall, Working, AtCall, Shape, WellFormed, AgentState
  <2>2. /\ Persist(a, output \o susp \o rest)
        /\ SetStatus(t, "suspended") /\ UNCHANGED <<runs, approvals>>
    BY <1>6 DEF SuspendCall, CommitAndGoto
  <2>3. output \in Seq(TurnItem) /\ SettlingItems(t, output)
    <3>1. /\ <<>> \in Seq(TurnItem) /\ "success" \in ToolResult
          /\ <<ToolOutput(t, Current(a), "success")>> \in Seq(TurnItem)
      BY <1>0, <2>1, Appended DEF Shape, ToolResult
    <3>2. SettlingItems(t, <<ToolOutput(t, Current(a), "success")>>)
      <4>1. runs[Current(a)] > 0
        BY <1>6 DEF SuspendCall, LifeInv, RunningEntered
      <4> QED BY <4>1, SettlingAnswer
    <3>3. SettlingItems(t, <<>>)
      BY DEF SettlingItems
    <3> QED BY <3>1, <3>2, <3>3
  <2>4. susp \in Seq(TurnItem) /\ SettlingItems(t, susp)
    BY <1>0, <2>1, Appended, SettlingEnds DEF Shape
  <2>5. rest \in Seq(TurnItem) /\ SettlingItems(t, rest)
    BY <1>0, <2>1, OutputsForType, SettlingQueue DEF Shape, ToolResult
  <2> HIDE DEF output, susp, rest
  <2>6. output \o susp \in Seq(TurnItem) /\ SettlingItems(t, output \o susp)
    BY <2>3, <2>4, SettlingMore
  <2>7. output \o susp \o rest \in Seq(TurnItem) /\ SettlingItems(t, output \o susp \o rest)
    BY <2>5, <2>6, SettlingMore
  <2> QED BY <1>0, <1>1, <2>1, <2>2, <2>7, AgentSettles
<1> QED BY <1>3, <1>4, <1>5, <1>6

(* The steps that settle nothing.                                           *)
LEMMA LifeGrows ==
    ASSUME LInv, LInv', NEW more \in Seq(TurnItem), log' = log \o more
    PROVE  /\ (\A j \in DOMAIN more : more[j].kind = "response" => more[j].calls = <<>>) =>
                  \A c \in Calls : TurnOf(log', c) = TurnOf(log, c)
           /\ (\A j \in DOMAIN more : more[j].kind # "output") =>
                  \A c \in Calls : AnswerTo(log', c) = AnswerTo(log, c)
           /\ (\A j \in DOMAIN more : more[j].kind # "started") =>
                  \A c \in Calls : Markers(log', c) = Markers(log, c)
<1>0. /\ log \in Seq(TurnItem) /\ log' \in Seq(TurnItem)
      /\ RequestedOnce(log) /\ RequestedOnce(log')
      /\ OutputsOnce(log) /\ OutputsOnce(log')
  BY DEF LInv, IInv, TypeOK, Ledger
<1>1. ASSUME \A j \in DOMAIN more : more[j].kind = "response" => more[j].calls = <<>>,
             NEW c \in Calls
      PROVE  TurnOf(log', c) = TurnOf(log, c)
  <2>1. \A j \in DOMAIN more : ~Requests(more, j, c)
    BY <1>1 DEF Requests
  <2> QED BY <1>0, <2>1, TurnsGrow
<1>2. ASSUME \A j \in DOMAIN more : more[j].kind # "output", NEW c \in Calls
      PROVE  AnswerTo(log', c) = AnswerTo(log, c)
  BY <1>0, <1>2, AnswersGrow
<1>3. ASSUME \A j \in DOMAIN more : more[j].kind # "started", NEW c \in Calls
      PROVE  Markers(log', c) = Markers(log, c)
  BY <1>0, <1>3, StartedGrow
<1> QED BY <1>1, <1>2, <1>3

LEMMA LifeStill ==
    ASSUME log' = log, status' = status, runs' = runs, approvals' = approvals
    PROVE  UNCHANGED Life!vars
  BY DEF Life!vars

LEMMA OpenLife ==
    ASSUME LInv, LInv', NEW a \in Agents, OpenTurn(a)
    PROVE  Life!OpenTurn
<1> DEFINE item == UserInput(Len(status) + 1, 0)
           more == <<item>>
<1>1. more \in Seq(TurnItem) /\ item.kind = "user"
  <2>1. Shape(a)
    BY Typed DEF LInv, IInv
  <2> QED BY <2>1, Appended DEF Shape, UserInput
<1>2. /\ log' = log \o more /\ status' = Append(status, "running")
      /\ runs' = runs /\ approvals' = approvals
  BY DEF OpenTurn, CommitAndGoto, Persist
<1> HIDE DEF item
<1>3. \A j \in DOMAIN more : more[j].kind = "user"
  BY <1>1
<1> HIDE DEF more
<1>4. \A c \in Calls : /\ TurnOf(log', c) = TurnOf(log, c)
                       /\ AnswerTo(log', c) = AnswerTo(log, c)
                       /\ Markers(log', c) = Markers(log, c)
  BY <1>1, <1>2, <1>3, LifeGrows
<1> QED BY <1>2, <1>4 DEF Life!OpenTurn

LEMMA BatchLife ==
    ASSUME LInv, LInv', NEW a \in Agents, NEW batch \in Batches, ModelCalls(a, batch)
    PROVE  \E t \in DOMAIN status, calls \in SUBSET {c \in Calls : TurnOf(log, c) = 0} :
               Life!Ask(t, calls)
<1>0. Shape(a) /\ log \in Seq(TurnItem) /\ log' \in Seq(TurnItem)
  BY Typed DEF LInv, IInv, TypeOK
<1> DEFINE t     == agent[a].turn
           item  == ModelResponse(t, batch)
           more  == <<item>>
           calls == {batch[k] : k \in DOMAIN batch}
<1>1. batch \in Seq(Calls) /\ \A k \in DOMAIN batch : batch[k] \in Calls \ Requested(log)
  BY BatchType DEF Batches
<1>2. /\ more \in Seq(TurnItem) /\ item.kind = "response" /\ item.turn = t
      /\ item.calls = batch
  BY <1>0, <1>1, Appended DEF Shape, ModelResponse
<1>3. /\ log' = log \o more /\ agent[a].base = rev /\ agent[a].pc = "asking"
      /\ agent[a].queue = <<>>
      /\ status' = status /\ runs' = runs /\ approvals' = approvals
  BY <1>0 DEF ModelCalls, Asking, CommitAndGoto, Persist, Shape, WellFormed
<1> HIDE DEF item
<1>4. 1 \in DOMAIN more /\ \A j \in DOMAIN more : more[j] = item
  OBVIOUS
<1> HIDE DEF more
<1>5. Working(agent[a])
  BY <1>3 DEF Working
<1>6. t \in DOMAIN status /\ status[t] = "running"
  BY <1>3, <1>5, WorkingTurn
<1>7. \A c \in CallsOf(log, t) : ~Open(log, c)
  BY <1>3, <1>5 DEF LInv, Conclusions, Concludes, QueueComplete
<1>8. Life!Waiting(t) = {}
  <2>1. ASSUME NEW c \in Calls, TurnOf(log, c) = t PROVE AnswerTo(log, c) # "none"
    <3>1. PICK r \in DOMAIN log : log[r].turn = t /\ Requests(log, r, c)
      BY <1>6, <2>1, AskedIn DEF RequestedIn
    <3>2. PICK k \in DOMAIN log[r].calls : log[r].calls[k] = c
      BY <3>1 DEF Requests
    <3>3. r \in CallResponses(log, t)
      BY <3>1, <3>2 DEF CallResponses, Requests
    <3>4. ~Open(log, c)
      BY <1>7, <3>2, <3>3, CallsOfTurn
    <3>5. OutputsOnce(log)
      BY DEF LInv, Ledger
    <3> QED BY <1>0, <3>4, <3>5, AnswerOpen
  <2> QED BY <2>1 DEF Life!Waiting, Life!CallsIn
<1>9. ASSUME NEW c \in calls PROVE c \in Calls /\ TurnOf(log, c) = 0
  <2>1. c \in Calls \ Requested(log)
    BY <1>1, <1>9
  <2>2. \A r \in DOMAIN log : ~Requests(log, r, c)
    BY <2>1 DEF Requested, Requests
  <2>3. RequestedOnce(log)
    BY DEF LInv, IInv
  <2> QED BY <2>1, <2>2, <2>3, TurnOfIs
<1>10. ASSUME NEW c \in Calls
       PROVE  TurnOf(log', c) = IF c \in calls THEN t ELSE TurnOf(log, c)
  <2>0. RequestedOnce(log) /\ RequestedOnce(log')
    BY DEF LInv, IInv
  <2>1. CASE c \in calls
    <3>1. /\ Len(log) + 1 \in DOMAIN log' /\ log'[Len(log) + 1] = item
      BY <1>0, <1>2, <1>3, <1>4, Extend
    <3>2. Requests(log', Len(log) + 1, c)
      BY <1>2, <2>1, <3>1 DEF Requests
    <3> QED BY <1>2, <2>0, <2>1, <3>1, <3>2, TurnOfIs
  <2>2. CASE c \notin calls
    <3>1. \A j \in DOMAIN more : ~Requests(more, j, c)
      BY <1>2, <1>4, <2>2 DEF Requests
    <3> QED BY <1>0, <1>2, <1>3, <2>0, <2>2, <3>1, TurnsGrow
  <2> QED BY <2>1, <2>2
<1>11. \A c \in Calls : AnswerTo(log', c) = AnswerTo(log, c) /\ Markers(log', c) = Markers(log, c)
  BY <1>2, <1>3, <1>4, LifeGrows
<1>12. Life!Ask(t, calls)
  <2> HIDE DEF calls, t
  <2> QED BY <1>3, <1>6, <1>8, <1>10, <1>11 DEF Life!Ask
<1> QED BY <1>6, <1>9, <1>12

LEMMA MarkerLife ==
    ASSUME LInv, LInv', NEW a \in Agents,
           StartCall(a) \/ RetryCall(a) \/ ApproveSuspended(a)
    PROVE  \E c \in Calls : Life!Start(c) \/ Life!Approve(c)
<1>0. Shape(a) /\ log \in Seq(TurnItem) /\ log' \in Seq(TurnItem)
  BY Typed DEF LInv, IInv, TypeOK
<1> DEFINE t    == agent[a].turn
           c    == Current(a)
           item == CallStarted(t, c)
           more == <<item>>
<1>1. /\ log' = log \o more /\ agent[a].base = rev /\ agent[a].queue # <<>>
      /\ status' = status /\ runs' = runs
  BY <1>0 DEF StartCall, RetryCall, ApproveSuspended, CommitAndGoto, Persist, Shape, WellFormed
<1>2. /\ c \in Calls /\ more \in Seq(TurnItem)
      /\ item.kind = "started" /\ item.call = c
  BY <1>0, <1>1, Appended DEF Shape, CallStarted
<1> HIDE DEF item
<1>3. 1 \in DOMAIN more /\ \A j \in DOMAIN more : more[j] = item
  OBVIOUS
<1> HIDE DEF more
<1>4. \A d \in Calls : TurnOf(log', d) = TurnOf(log, d) /\ AnswerTo(log', d) = AnswerTo(log, d)
  BY <1>1, <1>2, <1>3, LifeGrows
<1>5. ASSUME NEW d \in Calls
      PROVE  Markers(log', d) # {} <=> Markers(log, d) # {} \/ d = c
  <2>1. CASE d = c
    <3>1. Len(log) + 1 \in DOMAIN log' /\ log'[Len(log) + 1] = item
      BY <1>0, <1>1, <1>2, <1>3, Extend
    <3>2. Len(log) + 1 \in Markers(log', d)
      BY <1>2, <2>1, <3>1 DEF Markers
    <3> QED BY <2>1, <3>2
  <2>2. CASE d # c
    <3>1. \A j \in DOMAIN more : more[j].kind = "started" => more[j].call # d
      BY <1>2, <1>3, <2>2
    <3>2. Markers(log', d) = Markers(log, d)
      BY <1>0, <1>1, <1>2, <3>1, MarkersGrow
    <3> QED BY <2>2, <3>2
  <2> QED BY <2>1, <2>2
<1>6. {d \in Calls : Markers(log', d) # {}} = {d \in Calls : Markers(log, d) # {}} \cup {c}
  BY <1>2, <1>5
<1>7. TurnOf(log, c) = t /\ t \in DOMAIN status /\ AnswerTo(log, c) = "none"
  <2>1. Working(agent[a]) \/ Settling(agent[a])
    BY DEF StartCall, RetryCall, ApproveSuspended, Working, Settling
  <2>2. t \in DOMAIN status
    BY <1>1, <2>1, WorkingTurn
  <2>3. TurnOf(log, c) = t
    BY <1>1, <1>2, <2>2, CurrentRequested, AskedIn DEF LInv
  <2>4. Open(log, c)
    <3>1. QueueOpen(agent[a], log)
      BY <1>1 DEF LInv, Conclusions, Concludes
    <3>2. 1 \in DOMAIN agent[a].queue /\ agent[a].queue[1] = c
      BY <1>0, <1>1, HeadIndex DEF Shape, Current
    <3>3. agent[a].pc # "reply"
      BY DEF StartCall, RetryCall, ApproveSuspended
    <3> QED BY <3>1, <3>2, <3>3 DEF QueueOpen
  <2>5. AnswerTo(log, c) = "none"
    BY <1>0, <2>4, AnswerOpen DEF LInv, Ledger
  <2> QED BY <2>2, <2>3, <2>5
<1>8. CASE StartCall(a) \/ RetryCall(a)
  <2>1. Working(agent[a])
    BY <1>8 DEF StartCall, RetryCall, Working
  <2>2. status[t] = "running"
    BY <1>1, <2>1, WorkingTurn
  <2>3. c \in NonIdempotent => Markers(log, c) = {}
    BY <1>8, StartUnmarked, RetryUnmarked DEF LInv
  <2>4. approvals' = approvals
    BY <1>8 DEF StartCall, RetryCall
  <2>5. Life!Start(c)
    <3> HIDE DEF c, t
    <3> QED BY <1>1, <1>2, <1>4, <1>6, <1>7, <2>2, <2>3, <2>4 DEF Life!Start, Life!In
  <2> QED BY <1>2, <2>5
<1>9. CASE ApproveSuspended(a)
  <2>1. Settling(agent[a]) /\ agent[a].pc = "approve"
    BY <1>9 DEF ApproveSuspended, Settling
  <2>2. status[t] = "suspended"
    BY <1>1, <2>1, WorkingTurn
  <2>3. Markers(log, c) # {}
    BY <1>1, <2>1 DEF LInv, Conclusions, Concludes, SuspensionKnown, Current
  <2>4. approvals' = [approvals EXCEPT ![c] = @ + 1]
    BY <1>9 DEF ApproveSuspended
  <2>5. Life!Approve(c)
    <3>1. {d \in Calls : Markers(log', d) # {}} = {d \in Calls : Markers(log, d) # {}}
      BY <1>2, <1>6, <2>3
    <3> HIDE DEF c, t
    <3> QED BY <1>1, <1>2, <1>4, <1>7, <2>2, <2>3, <2>4, <3>1 DEF Life!Approve, Life!In
  <2> QED BY <1>2, <2>5
<1> QED BY <1>8, <1>9

LEMMA EnterLife ==
    ASSUME LInv, NEW a \in Agents, EnterFunction(a)
    PROVE  \E c \in Calls : Life!Enter(c)
<1> DEFINE c == Current(a)
<1>1. c \in Calls
  <2>1. Shape(a)
    BY Typed DEF LInv, IInv
  <2> QED BY <2>1 DEF EnterFunction, Shape, WellFormed
<1>2. Markers(log, c) # {}
  BY DEF EnterFunction, LInv, StartsMarked
<1>3. ASSUME c \in NonIdempotent PROVE runs[c] <= approvals[c]
  <2>1. runs[c] + Cardinality(Permits(c)) <= approvals[c] + 1
    BY <1>2, <1>3 DEF LInv, IInv, Accounting
  <2>2. a \in Permits(c)
    BY DEF EnterFunction, Permits
  <2>3. Cardinality(Permits(c)) # 0 /\ Cardinality(Permits(c)) \in Nat
    BY <2>2, PermitsFinite, FS_EmptySet
  <2>4. runs[c] \in Nat /\ approvals[c] \in Nat
    BY <1>1 DEF LInv, IInv, TypeOK
  <2> QED BY <2>1, <2>3, <2>4
<1>4. /\ runs' = [runs EXCEPT ![c] = @ + 1]
      /\ status' = status /\ log' = log /\ approvals' = approvals
  BY DEF EnterFunction
<1>5. Life!Enter(c)
  <2> HIDE DEF c
  <2> QED BY <1>1, <1>2, <1>3, <1>4 DEF Life!Enter
<1> QED BY <1>1, <1>5

-----------------------------------------------------------------------------
(* A function that runs was entered: only EnterFunction leads there.        *)

LEMMA StaysOut ==
    ASSUME LifeInv, NEW a \in Agents, \A b \in Agents \ {a} : agent'[b] = agent[b],
           agent'[a].pc # "running", runs' = runs
    PROVE  RunningEntered'
<1>1. \A b \in Agents : agent'[b].pc = "running" => agent'[b] = agent[b]
  OBVIOUS
<1> QED BY <1>1 DEF LifeInv, RunningEntered, Current

LEMMA NotRunning ==
    ASSUME LifeInv, NEW a \in Agents, NEW s, Goto(a, s), s.pc # "running", runs' = runs
    PROVE  RunningEntered'
<1>1. agent'[a] = s /\ \A b \in Agents \ {a} : agent'[b] = agent[b]
  BY DEF Goto, LifeInv, LInv, IInv, TypeOK
<1> QED BY <1>1, StaysOut

LEMMA ReturnNotRunning ==
    ASSUME LifeInv, NEW a \in Agents, NEW kind, NEW sid, Return(a, kind, sid), runs' = runs
    PROVE  RunningEntered'
  BY NotRunning DEF Return, Idle

LEMMA CommitNotRunning ==
    ASSUME LifeInv, NEW a \in Agents, NEW more, NEW next, "pc" \in DOMAIN next,
           CommitAndGoto(a, more, next), next.pc # "running", runs' = runs
    PROVE  RunningEntered'
<1>1. [next EXCEPT !.base = rev + 1].pc = next.pc
  OBVIOUS
<1>2. Goto(a, [next EXCEPT !.base = rev + 1])
  BY DEF CommitAndGoto
<1> QED BY <1>1, <1>2, NotRunning

LEMMA MovesNotRunning ==
    ASSUME LifeInv, NEW a \in Agents,
           \/ LoadForRun(a) \/ LoadForRecover(a) \/ LoadForResume(a)
           \/ RecoveryDone(a) \/ BatchDone(a) \/ BuildRequest(a) \/ Acquire(a)
           \/ RunTurn(a) \/ RecoverTurn(a) \/ ResumeSuspendedTurn(a)
    PROVE  RunningEntered'
<1>0. agent \in [Agents -> AgentState] /\ agent[a] \in AgentState
  BY DEF LifeInv, LInv, IInv, TypeOK
<1>1. runs' = runs
  BY DEF LoadForRun, LoadForRecover, LoadForResume, RecoveryDone, BatchDone,
         BuildRequest, Acquire, RunTurn, RecoverTurn, ResumeSuspendedTurn, Begin
<1>2. CASE RunTurn(a) \/ RecoverTurn(a)
  <2>1. (\A b \in Agents \ {a} : agent'[b] = agent[b]) /\ agent'[a].pc # "running"
    BY <1>0, <1>2 DEF RunTurn, RecoverTurn, Begin, Idle, Goto
  <2> QED BY <1>1, <2>1, StaysOut
<1>3. CASE ResumeSuspendedTurn(a)
  <2>1. PICK i \in DOMAIN log, answer \in Answers :
            Begin(a, [Idle EXCEPT !.pc = "acquire", !.op = "resume",
                                  !.sid = log[i].sid, !.answer = answer])
    BY <1>3 DEF ResumeSuspendedTurn
  <2>2. (\A b \in Agents \ {a} : agent'[b] = agent[b]) /\ agent'[a].pc # "running"
    BY <1>0, <2>1 DEF Begin, Idle, Goto
  <2> QED BY <1>1, <2>2, StaysOut
<1>4. CASE LoadForRun(a) \/ RecoveryDone(a) \/ BatchDone(a) \/ BuildRequest(a)
  <2>1. (\A b \in Agents \ {a} : agent'[b] = agent[b]) /\ agent'[a].pc # "running"
    BY <1>0, <1>4 DEF LoadForRun, RecoveryDone, BatchDone, BuildRequest, Goto, AgentState
  <2> QED BY <1>1, <2>1, StaysOut
<1>5. CASE LoadForRecover(a)
  <2>1. (\A b \in Agents \ {a} : agent'[b] = agent[b]) /\ agent'[a].pc # "running"
    BY <1>0, <1>5 DEF LoadForRecover, Goto, AgentState
  <2> QED BY <1>1, <2>1, StaysOut
<1>6. CASE LoadForResume(a)
  <2>1. PICK i \in PendingSuspension(log) :
            Goto(a, [agent[a] EXCEPT
                  !.pc = IF agent[a].answer = "userInput" THEN "reply"
                                                          ELSE agent[a].answer,
                  !.base = rev, !.turn = log[i].turn, !.queue = <<log[i].call>>])
    BY <1>6 DEF LoadForResume
  <2>2. agent[a].answer # "running"
    BY <1>0 DEF AgentState, Answers
  <2>3. (\A b \in Agents \ {a} : agent'[b] = agent[b]) /\ agent'[a].pc # "running"
    BY <1>0, <2>1, <2>2 DEF Goto, AgentState
  <2> QED BY <1>1, <2>3, StaysOut
<1>7. CASE Acquire(a)
  <2>1. (\A b \in Agents \ {a} : agent'[b] = agent[b]) /\ agent'[a].pc # "running"
    BY <1>0, <1>7 DEF Acquire, Goto, AgentState
  <2> QED BY <1>1, <2>1, StaysOut
<1> QED BY <1>2, <1>3, <1>4, <1>5, <1>6, <1>7

LEMMA CommitsNotRunning ==
    ASSUME LifeInv, NEW a \in Agents,
           \/ OpenTurn(a) \/ ReplyToSuspension(a) \/ DenySuspended(a) \/ ApproveSuspended(a)
           \/ SuspendRecovery(a) \/ RetryCall(a) \/ StartCall(a) \/ HookRejects(a)
           \/ LimitReached(a) \/ ModelAnswers(a)
           \/ \E batch \in Batches : ModelCalls(a, batch)
           \/ \E result \in {"success", "error"} : AnswerCall(a, result)
           \/ \E deferred \in BOOLEAN : SuspendCall(a, FALSE, deferred)
           \/ SuspendCall(a, TRUE, FALSE)
    PROVE  RunningEntered'
<1> DEFINE Commits == \E more, next : /\ "pc" \in DOMAIN next /\ next.pc # "running"
                                     /\ CommitAndGoto(a, more, next)
<1>0. agent[a] \in AgentState
  BY DEF LifeInv, LInv, IInv, TypeOK
<1>1. runs' = runs
  BY DEF OpenTurn, ReplyToSuspension, DenySuspended, ApproveSuspended, SuspendRecovery,
         RetryCall, StartCall, HookRejects, LimitReached, ModelAnswers, ModelCalls,
         AnswerCall, SuspendCall
<1>2. ASSUME Commits PROVE RunningEntered'
  BY <1>1, <1>2, CommitNotRunning
<1>3. CASE OpenTurn(a)
  BY <1>0, <1>2, <1>3 DEF OpenTurn, AgentState
<1>4. CASE ReplyToSuspension(a) \/ DenySuspended(a)
  BY <1>0, <1>2, <1>4 DEF ReplyToSuspension, DenySuspended, Continued, AgentState
<1>5. CASE ApproveSuspended(a) \/ RetryCall(a) \/ StartCall(a)
  BY <1>0, <1>2, <1>5 DEF ApproveSuspended, RetryCall, StartCall, AgentState
<1>6. CASE SuspendRecovery(a)
  BY <1>0, <1>2, <1>6 DEF SuspendRecovery, AgentState
<1>7. CASE LimitReached(a) \/ ModelAnswers(a)
  BY <1>0, <1>2, <1>7 DEF LimitReached, ModelAnswers, AgentState
<1>8. CASE HookRejects(a)
  BY <1>0, <1>2, <1>8 DEF HookRejects, Advanced, AgentState
<1>9. CASE \E batch \in Batches : ModelCalls(a, batch)
  BY <1>0, <1>2, <1>9 DEF ModelCalls, AgentState
<1>10. ASSUME NEW result, AnswerCall(a, result) PROVE RunningEntered'
  BY <1>0, <1>2, <1>10 DEF AnswerCall, Advanced, Continued, AgentState
<1>11. ASSUME NEW executed, NEW deferred, SuspendCall(a, executed, deferred)
       PROVE  RunningEntered'
  BY <1>0, <1>2, <1>11 DEF SuspendCall, AgentState
<1> QED BY <1>3, <1>4, <1>5, <1>6, <1>7, <1>8, <1>9, <1>10, <1>11

LEMMA EnterRunning ==
    ASSUME LifeInv, NEW a \in Agents, EnterFunction(a)
    PROVE  RunningEntered'
<1>1. /\ agent \in [Agents -> AgentState] /\ agent[a] \in AgentState /\ runs \in [Calls -> Nat]
      /\ Current(a) \in Calls
  <2>1. Shape(a)
    BY Typed DEF LifeInv, LInv, IInv
  <2> QED BY <2>1 DEF EnterFunction, Shape, WellFormed, LifeInv, LInv, IInv, TypeOK
<1>2. \A b \in Agents : agent'[b].queue = agent[b].queue
  BY <1>1 DEF EnterFunction, AgentState
<1>3. \A c \in Calls : runs'[c] = IF c = Current(a) THEN runs[c] + 1 ELSE runs[c]
  BY <1>1 DEF EnterFunction
<1>4. \A b \in Agents \ {a} : agent'[b].pc = agent[b].pc
  BY <1>1 DEF EnterFunction
<1>5. ASSUME NEW b \in Agents, agent'[b].pc = "running"
      PROVE  runs'[Head(agent'[b].queue)] > 0
  <2>1. Head(agent'[b].queue) = Current(b)
    BY <1>2 DEF Current
  <2>2. CASE Current(b) = Current(a)
    BY <1>1, <1>3, <2>1, <2>2
  <2>3. CASE Current(b) # Current(a)
    <3>1. b # a /\ agent[b].pc = "running"
      BY <1>4, <1>5, <2>3
    <3>2. Current(b) \in Calls /\ runs[Current(b)] > 0
      <4>1. Shape(b)
        BY Typed DEF LifeInv, LInv, IInv
      <4> QED BY <3>1, <4>1 DEF Shape, WellFormed, LifeInv, RunningEntered
    <3> QED BY <1>3, <2>1, <2>3, <3>2
  <2> QED BY <2>2, <2>3
<1> QED BY <1>5 DEF RunningEntered, Current

LEMMA AbortRunning ==
    ASSUME LifeInv, NEW a \in Agents, Abort(a)
    PROVE  RunningEntered'
<1>1. agent \in [Agents -> AgentState] /\ agent[a] \in AgentState
  BY DEF LifeInv, LInv, IInv, TypeOK
<1>2. \A b \in Agents : agent'[b].queue = agent[b].queue /\ agent'[b].pc = agent[b].pc
  BY <1>1 DEF Abort, AgentState
<1>3. runs' = runs
  BY DEF Abort
<1> QED BY <1>2, <1>3 DEF LifeInv, RunningEntered, Current

LEMMA ReturnsNotRunning ==
    ASSUME LifeInv, NEW a \in Agents,
           \/ Drop(a) \/ Refuse(a) \/ Conflict(a) \/ SuspendAgain(a) \/ FinishTurn(a)
           \/ IterationsExhausted(a) \/ AbortModel(a) \/ ModelFails(a) \/ AbortCall(a)
    PROVE  RunningEntered'
<1>1. runs' = runs
  BY DEF Drop, Refuse, Conflict, SuspendAgain, FinishTurn, IterationsExhausted, AbortModel,
         ModelFails, AbortCall, CloseTurn
<1>2. ASSUME Goto(a, Idle) PROVE RunningEntered'
  <2>1. Idle.pc # "running"
    BY DEF Idle
  <2> QED BY <1>1, <1>2, <2>1, NotRunning
<1>3. CASE ~AbortCall(a)
  <2>1. Goto(a, Idle)
    BY <1>3 DEF Drop, Refuse, Conflict, SuspendAgain, FinishTurn, IterationsExhausted,
                AbortModel, ModelFails, CloseTurn, Return
  <2> QED BY <1>2, <2>1
<1>4. CASE AbortCall(a) /\ agent[a].mode # "recover"
  BY <1>2, <1>4 DEF AbortCall, CloseTurn, Return
<1>5. CASE AbortCall(a) /\ agent[a].mode = "recover"
  <2> DEFINE next == [agent[a] EXCEPT !.pc = "finish", !.result = "aborted", !.queue = <<>>]
             more == <<TurnAborted(agent[a].turn)>>
                         \o OutputsFor(agent[a].turn, agent[a].queue, "aborted")
  <2>1. "pc" \in DOMAIN next /\ next.pc # "running"
    BY DEF LifeInv, LInv, IInv, TypeOK, AgentState
  <2>2. CommitAndGoto(a, more, next)
    BY <1>5 DEF AbortCall
  <2> HIDE DEF next, more
  <2> QED BY <1>1, <2>1, <2>2, CommitNotRunning
<1> QED BY <1>3, <1>4, <1>5

-----------------------------------------------------------------------------
(* The refinement: the initial state, and every step.                       *)

LEMMA LifeInit == Init => LifeInv /\ Life!Init
<1> SUFFICES ASSUME Init PROVE LifeInv /\ Life!Init
  OBVIOUS
<1>1. log = <<>> /\ DOMAIN log = {} /\ status = <<>>
  BY DEF Init
<1>2. RunningEntered
  BY DEF Init, RunningEntered, Idle
<1>3. \A c \in Calls : TurnOf(log, c) = 0 /\ AnswerTo(log, c) = "none" /\ Markers(log, c) = {}
  BY <1>1 DEF TurnOf, AnswerTo, Open, Outputs, Markers
<1>4. Life!Init
  BY <1>1, <1>3 DEF Init, Life!Init
<1> QED BY <1>2, <1>4, LedgerInit DEF LifeInv

LEMMA LifeSteps ==
    ASSUME LifeInv, LInv', NEW a \in Agents,
           \/ Caller(a) \/ Drop(a) \/ Acquire(a) \/ OwnStep(a)
           \/ FunctionReturns(a) \/ ModelReturns(a)
    PROVE  Life!Next \/ UNCHANGED Life!vars
<1>0. LInv
  BY DEF LifeInv
<1>1. ASSUME NEW t \in DOMAIN status, NEW x \in TurnStatus, Life!Settle(t, x) PROVE Life!Next
  <2>1. Life!TurnStatus = TurnStatus
    BY DEF Life!TurnStatus, TurnStatus, Life!Closed, Closed
  <2> QED BY <1>1, <2>1 DEF Life!Next
<1>2. ASSUME log' = log, status' = status, runs' = runs, approvals' = approvals
      PROVE  UNCHANGED Life!vars
  BY <1>2, LifeStill
<1>3. CASE Caller(a) \/ Drop(a) \/ Acquire(a)
  BY <1>2, <1>3 DEF Caller, RunTurn, RecoverTurn, ResumeSuspendedTurn, Begin, Abort, Drop, Acquire
<1>4. ASSUME \/ Conflict(a) \/ SuspendAgain(a)
             \/ LoadForRun(a) \/ LoadForRecover(a) \/ LoadForResume(a)
             \/ Refuse(a) \/ RecoveryDone(a) \/ BatchDone(a) \/ BuildRequest(a)
             \/ FinishTurn(a)
      PROVE  UNCHANGED Life!vars
  <2>1. CASE FinishTurn(a)
    <3>1. log' = log \o <<>> /\ log \in Seq(TurnItem)
      BY <1>0, <2>1 DEF FinishTurn, Persist, LInv, IInv, TypeOK
    <3>2. log' = log
      BY <3>1
    <3> QED BY <1>2, <2>1, <3>2 DEF FinishTurn
  <2> QED BY <1>2, <1>4, <2>1
          DEF Conflict, SuspendAgain, LoadForRun, LoadForRecover, LoadForResume, Refuse,
              RecoveryDone, BatchDone, BuildRequest
<1>5. CASE OwnStep(a)
  <2>1. CASE \/ LoadForRun(a) \/ LoadForRecover(a) \/ LoadForResume(a)
             \/ Refuse(a) \/ RecoveryDone(a) \/ BatchDone(a) \/ BuildRequest(a)
             \/ FinishTurn(a)
             \/ RevisionConflict(a)
    BY <1>4, <2>1 DEF RevisionConflict
  <2>2. CASE OpenTurn(a)
    BY <1>0, <2>2, OpenLife DEF Life!Next
  <2>3. CASE \/ ReplyToSuspension(a) \/ DenySuspended(a) \/ HookRejects(a)
             \/ SuspendRecovery(a) \/ LimitReached(a) \/ AbortCall(a)
             \/ IterationsExhausted(a) \/ AbortModel(a)
    BY <1>0, <1>1, <2>3, CallSettles, QueueSettles, ModelEndsSettles
  <2>4. CASE StartCall(a) \/ RetryCall(a) \/ ApproveSuspended(a)
    BY <1>0, <2>4, MarkerLife DEF Life!Next
  <2>5. CASE EnterFunction(a)
    BY <1>0, <2>5, EnterLife DEF Life!Next
  <2> QED BY <1>5, <2>1, <2>2, <2>3, <2>4, <2>5 DEF OwnStep
<1>6. CASE FunctionReturns(a)
  <2>1. CASE SuspendAgain(a) \/ LateFunctionReply(a)
    BY <1>4, <2>1 DEF LateFunctionReply
  <2>2. CASE \/ \E result \in {"success", "error"} : AnswerCall(a, result)
             \/ \E deferred \in BOOLEAN : SuspendCall(a, FALSE, deferred)
             \/ SuspendCall(a, TRUE, FALSE)
    BY <1>1, <2>2, CallSettles, QueueSettles
  <2> QED BY <1>6, <2>1, <2>2 DEF FunctionReturns
<1>7. CASE ModelReturns(a)
  <2>1. CASE LateModelReply(a)
    BY <1>4, <2>1 DEF LateModelReply
  <2>2. CASE ModelFails(a) \/ ModelAnswers(a)
    BY <1>0, <1>1, <2>2, ModelEndsSettles
  <2>3. ASSUME NEW batch \in Batches, ModelCalls(a, batch) PROVE Life!Next
    <3>1. PICK t \in DOMAIN status, calls \in SUBSET {c \in Calls : TurnOf(log, c) = 0} :
              Life!Ask(t, calls)
      BY <1>0, <2>3, BatchLife
    <3>2. calls \in SUBSET {c \in Calls : [d \in Calls |-> TurnOf(log, d)][c] = 0}
      OBVIOUS
    <3> QED BY <3>1, <3>2 DEF Life!Next
  <2> QED BY <1>7, <2>1, <2>2, <2>3 DEF ModelReturns
<1> QED BY <1>3, <1>5, <1>6, <1>7

LEMMA RunningKept ==
    ASSUME LifeInv, NEW a \in Agents,
           \/ Caller(a) \/ Drop(a) \/ Acquire(a) \/ OwnStep(a)
           \/ FunctionReturns(a) \/ ModelReturns(a)
    PROVE  RunningEntered'
  BY AbortRunning, MovesNotRunning, ReturnsNotRunning, CommitsNotRunning, EnterRunning
     DEF Caller, OwnStep, FunctionReturns, ModelReturns, RevisionConflict,
         LateFunctionReply, LateModelReply

LEMMA LifeNext == LifeInv /\ [Next]_vars => LifeInv' /\ [Life!Next]_(Life!vars)
<1> SUFFICES ASSUME LifeInv, [Next]_vars PROVE LifeInv' /\ [Life!Next]_(Life!vars)
  OBVIOUS
<1>1. LInv'
  BY LedgerNext DEF LifeInv
<1>2. CASE UNCHANGED vars
  <2>1. /\ log' = log /\ status' = status /\ runs' = runs /\ approvals' = approvals
        /\ agent' = agent
    BY <1>2 DEF vars
  <2>2. RunningEntered'
    BY <2>1 DEF LifeInv, RunningEntered, Current
  <2> QED BY <1>1, <2>1, <2>2, LifeStill DEF LifeInv
<1>3. CASE Next
  <2>1. PICK a \in Agents : \/ Caller(a) \/ Drop(a) \/ Acquire(a) \/ OwnStep(a)
                            \/ FunctionReturns(a) \/ ModelReturns(a)
    BY <1>3 DEF Next
  <2>2. Life!Next \/ UNCHANGED Life!vars
    BY <1>1, <2>1, LifeSteps
  <2>3. RunningEntered'
    BY <2>1, RunningKept
  <2> QED BY <1>1, <2>2, <2>3 DEF LifeInv
<1> QED BY <1>2, <1>3

(* Whatever agents do, with or without a common lease, and wherever they    *)
(* are lost, the thread shows each call going through the steps of          *)
(* CallLedger, and no others.                                               *)
THEOREM CallsGoByTheLedger == Spec => ImplementsCallLedger
<1>1. Spec => Life!Init /\ [][Life!Next]_(Life!vars)
  BY LifeInit, LifeNext, PTL DEF Spec
<1> QED BY <1>1 DEF ImplementsCallLedger, Life!Spec
=============================================================================
