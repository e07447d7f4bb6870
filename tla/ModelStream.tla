----------------------------- MODULE ModelStream -----------------------------
(***************************************************************************)
(* One call of a model over HTTP: send_with_retries, and the decoding of   *)
(* the event stream by ChatCompletionsClient or ResponsesClient.  The      *)
(* provider's answer is a sequence of items, texts and function calls, of  *)
(* Fragments pieces each.  Providers differ in the events they send for an *)
(* item and in what these carry: a style says so.                          *)
(***************************************************************************)
EXTENDS Integers, Sequences, SequencesExt, Functions

CONSTANT Settings       \* what a behaviour is about, see ModelRequest

VARIABLES
    setting,            \* the member of Settings this behaviour has
    phase,              \* where the agent is
    requests,           \* requests sent in this call: retry_index
    provider,           \* the style and the answer of the open stream
    wire,               \* for each item, how many of its events were sent
    added,              \* added_items: from output index to item
    done,               \* done_items
    partial,            \* tool_calls: the argument fragments of each index
    shown,              \* assistant deltas passed on to the caller
    result              \* what the client returned

decoderVars == <<added, done, partial>>
streamVars  == <<requests, provider, wire, decoderVars, shown, result>>

Fragments == 2
ItemKinds == {"text", "call"}

(* The output of response.completed: there is none, it is an empty list, or *)
(* it is the answer once more.                                              *)
Outputs == {"absent", "empty", "whole"}

Styles ==
    [api : {"chat", "responses"}, indexed : BOOLEAN, ids : BOOLEAN, output : Outputs,
     added : BOOLEAN, deltas : BOOLEAN, arguments : BOOLEAN, done : {{}, ItemKinds}]

(* What the clients rely on.  A chat stream is deltas, of one text and of   *)
(* calls.  In a Responses stream an item that ends with an event of its own *)
(* has an index, was added before, or is that event alone: otherwise the    *)
(* place of the item among the others cannot be told.                       *)
Conforms(s, items) ==
    IF s.api = "chat"
    THEN /\ s.deltas /\ ~s.added /\ ~s.arguments /\ s.done = {}
         /\ \A i, j \in DOMAIN items : items[i] = "text" /\ items[j] = "text" => i = j
    ELSE s.done # {} => s.indexed \/ s.added \/ ~(s.deltas \/ s.arguments)

ASSUME ProvidersAssumption ==
    \A s \in Settings : \A p \in s.providers :
        p.style \in Styles /\ p.answer \in Seq(ItemKinds) /\ Conforms(p.style, p.answer)

Empty     == <<>>
NoResult  == [text |-> <<>>, calls |-> <<>>]
NoProvider == [style |-> [api |-> "none"], answer |-> <<>>]

StreamInit ==
    /\ requests = 0 /\ provider = NoProvider /\ wire = Empty
    /\ added = Empty /\ done = Empty /\ partial = Empty
    /\ shown = <<>> /\ result = NoResult

style  == provider.style
answer == provider.answer
IsChat == style.api = "chat"

Contents(i) == [n \in 1..Fragments |-> <<i, n>>]

(* The items of a decoder's map, by their indexes.                          *)
InOrder(items) ==
    [n \in 1..Cardinality(DOMAIN items) |->
        items[CHOOSE x \in DOMAIN items :
                  Cardinality({y \in DOMAIN items : y < x}) = n - 1]]

(* A slot of such a map is filled, or filled anew.                          *)
Put(items, x, item) ==
    [y \in DOMAIN items \cup {x} |-> IF y = x THEN item ELSE items[y]]

(* completed_response: the texts and calls of output items, in their order. *)
Said(items) ==
    [text  |-> FlattenSeq([n \in DOMAIN items |->
                   IF answer[items[n]] = "text" THEN Contents(items[n]) ELSE <<>>]),
     calls |-> InOrder([n \in {m \in DOMAIN items : answer[items[m]] = "call"} |-> items[n]])]

Whole == Said([i \in DOMAIN answer |-> i])

-----------------------------------------------------------------------------
(* The provider.                                                           *)

If(condition, event) == IF condition THEN <<event>> ELSE <<>>

(* The events of an item, in their order.                                  *)
Script(i) ==
    If(style.added, "added")
        \o (IF style.deltas THEN [n \in 1..Fragments |-> "delta"] ELSE <<>>)
        \o If(style.arguments /\ answer[i] = "call", "arguments")
        \o If(answer[i] \in style.done, "done")

IsSent(i) == wire[i] = Len(Script(i))

(* Events of several items interleave when they say whose they are; items  *)
(* begin in their order.                                                   *)
NextEvent(i, event) ==
    /\ phase = "streaming"
    /\ ~IsSent(i)
    /\ Script(i)[wire[i] + 1] = event
    /\ \A j \in 1..(i - 1) :
           IF IsChat \/ style.indexed \/ style.ids
           THEN wire[j] > 0 \/ IsSent(j)
           ELSE IsSent(j)
    /\ wire' = [wire EXCEPT ![i] = @ + 1]
    /\ UNCHANGED <<setting, requests, provider, result>>

-----------------------------------------------------------------------------
(* send_with_retries.                                                      *)

Opens ==
    /\ phase = "sending"
    /\ provider' \in setting.providers
    /\ wire' = [i \in DOMAIN provider'.answer |-> 0]
    /\ phase' = "streaming"
    /\ requests' = requests + 1
    /\ UNCHANGED <<setting, decoderVars, shown, result>>

(* A connection error, a timeout, or one of the statuses that are retried.  *)
FailsForNow ==
    /\ phase = "sending"
    /\ requests' = requests + 1
    /\ phase' = IF requests = setting.retries THEN "failed" ELSE "sending"
    /\ UNCHANGED <<setting, provider, wire, decoderVars, shown, result>>

(* Any other status or error, or an error while the body is read.           *)
FailsForGood ==
    /\ phase = "sending"
    /\ requests' = requests + 1
    /\ phase' = "failed"
    /\ UNCHANGED <<setting, provider, wire, decoderVars, shown, result>>

-----------------------------------------------------------------------------
(* Deltas.  A text delta is passed on; ChatCompletionsClient collects the   *)
(* fragments of calls by index, ResponsesClient only notes the progress.    *)

TextDelta(i) ==
    /\ NextEvent(i, "delta")
    /\ answer[i] = "text"
    /\ shown' = Append(shown, Contents(i)[wire[i] + 1 - Len(If(style.added, "added"))])
    /\ UNCHANGED <<phase, decoderVars>>

CallDelta(i) ==
    /\ NextEvent(i, "delta")
    /\ answer[i] = "call"
    /\ IF IsChat
       THEN partial' = Put(partial, i,
                Append(IF i \in DOMAIN partial THEN partial[i] ELSE <<>>,
                       Contents(i)[wire[i] + 1]))
       ELSE UNCHANGED partial
    /\ UNCHANGED <<phase, added, done, shown>>

-----------------------------------------------------------------------------
(* ResponseDecoder: the index of an item is what the event says, that of   *)
(* the item with its id, or the next free one.                              *)

Holds(items, i) == {x \in DOMAIN items : style.ids /\ items[x] = i}

(* Where the event does not say.                                            *)
ItemIndexById(i) ==
    IF Holds(added, i) \cup Holds(done, i) # {}
    THEN CHOOSE x \in Holds(added, i) \cup Holds(done, i) : TRUE
    ELSE Max(DOMAIN added \cup DOMAIN done \cup {0}) + 1

ItemIndex(i) == IF style.indexed THEN i ELSE ItemIndexById(i)

(* check_item_identity: two items with different ids, types, calls.         *)
Conflict(a, b) ==
    a # b /\ (style.ids \/ answer[a] # answer[b] \/ answer[a] = "call")

ItemAdded(i) ==
    /\ NextEvent(i, "added")
    /\ added' = Put(added, ItemIndex(i), i)
    /\ UNCHANGED <<phase, done, partial, shown>>

ItemDone(i) ==
    /\ NextEvent(i, "done")
    /\ LET x == ItemIndex(i)
       IN  IF x \in DOMAIN added /\ Conflict(added[x], i)
           THEN phase' = "failed" /\ UNCHANGED done
           ELSE done' = Put(done, x, i) /\ UNCHANGED phase
    /\ UNCHANGED <<added, partial, shown>>

(* arguments.done completes the call that was added at its index, for       *)
(* providers that send no output_item.done; without one it has no effect.   *)
ArgumentsDone(i) ==
    /\ NextEvent(i, "arguments")
    /\ LET at == IF style.indexed THEN {i} \cap DOMAIN added ELSE Holds(added, i)
       IN  done' = [x \in DOMAIN done \cup at |-> IF x \in at THEN added[x] ELSE done[x]]
    /\ UNCHANGED <<phase, added, partial, shown>>

-----------------------------------------------------------------------------
(* The end of the stream.                                                   *)

(* Mutant: items that were added and not finished are left out.             *)
FinishedAnyway == TRUE

AllFinished == DOMAIN added \subseteq DOMAIN done

(* response.completed: the finished items are the answer, and every item    *)
(* that was added has to be among them.  Where none was finished the answer *)
(* is what the event carries as its output, be it an empty list after items *)
(* that were added and deltas that were shown.                              *)
Completed ==
    /\ phase = "streaming" /\ ~IsChat
    /\ \A i \in DOMAIN answer : IsSent(i)
    /\ IF done # Empty
       THEN IF AllFinished
            THEN phase' = "answered" /\ result' = Said(InOrder(done))
            ELSE phase' = "failed" /\ UNCHANGED result
       ELSE IF style.output = "absent"
            THEN phase' = "failed" /\ UNCHANGED result
            ELSE /\ phase' = "answered"
                 /\ result' = IF style.output = "whole" THEN Whole ELSE NoResult
    /\ UNCHANGED <<setting, requests, provider, wire, decoderVars, shown>>

(* The arguments of a call are JSON, which no beginning of them is.         *)
Parses(x) == partial[x] = Contents(x)

(* The connection is closed, at the end or before.  ChatCompletionsClient   *)
(* takes what it has if the arguments of every call parse, [DONE] or not.   *)
Closed ==
    /\ phase = "streaming"
    /\ IF IsChat /\ \A x \in DOMAIN partial : Parses(x)
       THEN /\ phase' = "answered"
            /\ result' = [text |-> shown, calls |-> InOrder([x \in DOMAIN partial |-> x])]
       ELSE phase' = "failed" /\ UNCHANGED result
    /\ UNCHANGED <<setting, requests, provider, wire, decoderVars, shown>>

(* Mutant: a stream that broke is requested again.                          *)
BrokenResends ==
    /\ phase = "streaming"
    /\ phase' = IF requests <= setting.retries THEN "sending" ELSE "failed"
    /\ UNCHANGED <<setting, requests, provider, wire, decoderVars, shown, result>>

(* An error of the transport or of the provider, response.failed or         *)
(* incomplete, an event that does not parse, the Responses idle timeout.     *)
Broken ==
    /\ phase = "streaming"
    /\ phase' = "failed"
    /\ UNCHANGED <<setting, requests, provider, wire, decoderVars, shown, result>>

Streams ==
    \/ Opens \/ FailsForNow \/ FailsForGood
    \/ \E i \in DOMAIN wire : \/ TextDelta(i) \/ CallDelta(i)
                              \/ ItemAdded(i) \/ ItemDone(i) \/ ArgumentsDone(i)
    \/ Completed \/ Closed \/ Broken
=============================================================================
