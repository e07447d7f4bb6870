----------------------------- MODULE RequestInv -----------------------------
(***************************************************************************)
(* The inductive invariants behind the properties of ModelRequest.  Nothing *)
(* is lost because of what a cached summary is about, and because no window *)
(* the thread has had since it was made would send more messages than were  *)
(* sent then.  An answer is faithful because, while it is streamed, what    *)
(* was collected is what the events sent so far tell, in its place.         *)
(***************************************************************************)
EXTENDS ModelRequest

Phases == {"idle", "ready", "compacting", "saving", "sending",
           "streaming", "answered", "failed", "tools"}

-----------------------------------------------------------------------------
(* The conversation.                                                        *)

MessageType  == [kind : Kinds, size : Nat, calls : Nat]
Conversation == Seq(MessageType)

(* Outputs follow their call.                                               *)
Rooted(ms) ==
    \A i \in DOMAIN ms : ms[i].kind = "tool" =>
        \E j \in 1..(i - 1) : /\ ms[j].kind = "call"
                              /\ \A k \in (j + 1)..i : ms[k].kind = "tool"

(* The last message is a call, or an output: the next may be an output.     *)
Calling(ms) == ms # <<>> /\ ms[Len(ms)].kind \in {"call", "tool"}

Talking ==
    /\ thread \in [life : Nat, revision : Nat, messages : Conversation]
    /\ open \in BOOLEAN /\ deleted \in BOOLEAN
    /\ Rooted(messages)
    /\ phase # "idle" \/ open => messages # <<>>
    /\ phase = "tools" => Calling(messages)

-----------------------------------------------------------------------------
(* The context.  What is selected is the newest block, or less, or as much  *)
(* as leaves the summary its share, and no block before would have fitted.  *)

Selects(c, ms, s) ==
    /\ s.from \in Starts(ms)
    /\ s.size \in Nat /\ s.size <= Budget(c)
    /\ s.from # Newest(ms) => /\ s.size = Estimate(ms, Onward(ms, s.from))
                              /\ s.size <= HistoryBudget(c)
    /\ \A i \in Starts(ms) : i < s.from => Estimate(ms, Onward(ms, i)) > HistoryBudget(c)

Selecting ==
    /\ SystemSize < config.max
    /\ Selects(config, messages, built)
    /\ built.start \in 0..(built.from - 1)
    /\ phase \in {"compacting", "saving"} => built.from > 1
    /\ IF phase = "compacting"
       THEN built.status = "none" /\ config.compacts
       ELSE /\ built.status = "built"
            /\ built.summary.size \in Nat /\ built.summary.covered \in Nat
            /\ SystemSize + built.summary.size + built.size <= config.max

IsContext(b) ==
    b = [status |-> b.status, from |-> b.from, newest |-> b.newest, size |-> b.size,
         start |-> b.start, cached |-> b.cached, summary |-> b.summary]

Resting ==
    /\ built.status # "built"
    /\ built.from \in 1..(Len(messages) + 1) /\ built.start = 0
    /\ built.status = "refused" => built.from = Newest(messages)

(* A summary is about all that it covers, which is not the newest block;    *)
(* the window it was made for, and the present one if it may be used, have  *)
(* no room for any of the blocks it covers.                                 *)
Covers(summary) ==
    /\ summary.about = Ids(1, summary.covered)
    /\ summary.covered \in 1..Len(messages) /\ summary.covered < Newest(messages)
    /\ \E old \in setting.configs :
           /\ old.id = summary.by
           /\ \A i \in Starts(messages) : i <= summary.covered =>
                  Estimate(messages, Onward(messages, i)) > HistoryBudget(old)
           /\ config.version = summary.version => HistoryBudget(config) <= HistoryBudget(old)

Summarizing ==
    /\ cache.size \in Nat /\ cache.covered \in Nat
    /\ exceptions = {} =>
           /\ cache # NoCache => Covers(cache)
           /\ deleted => cache = NoCache
           /\ phase = "compacting" => built.cached.about = Ids(1, built.start)
           /\ /\ built.status = "built" /\ built.from > 1
              /\ config.compacts \/ phase = "saving"
              =>
                  /\ built.summary.about = Ids(1, built.from - 1)
                  /\ built.summary.by = config.id
                  /\ built.summary.covered = built.from - 1

ContextInv ==
    /\ setting \in Settings /\ config \in setting.configs /\ phase \in Phases
    /\ Talking
    /\ IsContext(built)
    /\ IF phase \in {"idle", "ready", "tools"} THEN Resting ELSE Selecting
    /\ Summarizing

-----------------------------------------------------------------------------
(* The stream.  While an answer is streamed, what was collected of it is    *)
(* what the events sent so far tell, in its place.                          *)

Texts == {i \in DOMAIN answer : answer[i] = "text"}
Calls == {i \in DOMAIN answer : answer[i] = "call"}
First == IF style.added THEN 1 ELSE 0       \* how many events precede the deltas

Begun(i) == wire[i] > 0

InTurn == \A i, j \in DOMAIN answer : j < i /\ Begun(i) => Begun(j) \/ IsSent(j)

Collected ==
    /\ added = Empty /\ done = Empty
    /\ partial = [i \in {c \in Calls : Begun(c)} |-> [k \in 1..wire[i] |-> <<i, k>>]]
    /\ \A t \in Texts : shown = [k \in 1..wire[t] |-> <<t, k>>]
    /\ Texts = {} => shown = <<>>

(* Whether an item's place is the one it has in the answer: it is not, if   *)
(* the item that is done is taken for another than the one that was added.  *)
(* Then none of those that were added is ever done.                         *)
Taken  == DOMAIN added \cup DOMAIN done
Placed == style.indexed \/ style.ids \/ ~style.added

InPlace ==
    /\ DOMAIN added = {i \in DOMAIN answer : style.added /\ Begun(i)}
    /\ DOMAIN done \subseteq {i \in DOMAIN answer : Begun(i)}
    /\ \A i \in DOMAIN added : added[i] = i
    /\ \A i \in DOMAIN done : done[i] = i
    /\ \A i \in DOMAIN answer : style.done # {} /\ IsSent(i) => i \in DOMAIN done
    /\ DOMAIN done # {} => style.added \/ style.done # {}

Displaced ==
    /\ IsFiniteSet(Taken) /\ Taken = 1..Cardinality(Taken)
    /\ DOMAIN added \cap DOMAIN done = {}
    /\ \A i \in DOMAIN answer : Begun(i) => DOMAIN added # {}
    /\ DOMAIN done # {} => DOMAIN added # {}

(* The fragments of the texts for which deltas were sent.                   *)
Told == {f \in Texts \X (1..Fragments) : style.deltas /\ First + f[2] <= wire[f[1]]}

Decoded ==
    /\ partial = Empty
    /\ ToSet(shown) = Told
    /\ added = [x \in DOMAIN added |-> added[x]]
    /\ done = [x \in DOMAIN done |-> done[x]]
    /\ IF Placed THEN InPlace ELSE Displaced

Conversing ==
    /\ provider \in setting.providers
    /\ wire \in [DOMAIN answer -> Nat]
    /\ \A i \in DOMAIN answer : wire[i] <= Len(Script(i))
    /\ shown \in Seq(Nat \X Nat)
    /\ InTurn
    /\ IF IsChat THEN Collected ELSE Decoded

Silent == /\ provider = NoProvider /\ added = Empty /\ done = Empty /\ partial = Empty
          /\ shown = <<>>

StreamInv ==
    /\ setting \in Settings /\ phase \in Phases
    /\ requests \in 0..(setting.retries + 1)
    /\ phase \in {"idle", "ready", "compacting", "saving", "tools"} => Silent /\ requests = 0
    /\ phase = "sending" => Silent /\ requests <= setting.retries
    /\ phase = "streaming" => Conversing
    /\ phase = "answered" => Len(result.calls) \in Nat
    /\ AnswerIsFaithful
    /\ ShownOnce

RequestInv == StreamInv /\ ContextInv
=============================================================================
