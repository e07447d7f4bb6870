---------------------------- MODULE ModelRequest ----------------------------
(***************************************************************************)
(* One iteration of the turn loop after another on one thread: the context *)
(* is built from the stored conversation and the cached summary, sent, the *)
(* answer is read and committed, and its calls are answered.  Meanwhile a  *)
(* client may delete the thread, the process may die and be started again  *)
(* with another configuration, and compactor and provider may fail.        *)
(***************************************************************************)
EXTENDS ContextWindow, ModelStream

(* The numbers are unsigned, and a configuration is known by its id.        *)
ASSUME SettingsAssumption ==
    \A s \in Settings :
        /\ s.messages \in Nat /\ s.retries \in Nat
        /\ s.sizes \subseteq Nat /\ s.summaries \subseteq Nat
        /\ \A c \in s.configs : c.max \in Nat /\ c.summary \in Nat /\ c.compacts \in BOOLEAN
        /\ \A c, d \in s.configs : c.id = d.id => c = d

VARIABLES
    thread,             \* [life, revision, messages]: the agent's copy, and
                        \* the stored one unless it was deleted meanwhile
    deleted,
    open,               \* the last turn is running
    cache,              \* the stored context cache
    config,             \* of the context builder of this process
    built,              \* the context that was built, or why it was not
    exceptions          \* what happened that a summary may be wrong after

contextVars == <<thread, deleted, open, cache, config, built, exceptions>>
vars == <<setting, phase, streamVars, contextVars>>

NotBuilt == [status |-> "none", from |-> 1, newest |-> "whole", size |-> 0,
             start |-> 0, cached |-> NoCache, summary |-> NoCache]

Fresh(life) == [life |-> life, revision |-> 0, messages |-> <<>>]

messages      == thread.messages
Ids(from, to) == {<<thread.life, i>> : i \in from..to}

Message(kind, size, calls) == [kind |-> kind, size |-> size, calls |-> calls]

With(more, commits) ==
    [thread EXCEPT !.messages = @ \o more, !.revision = @ + commits]

(* pending_function_calls: how many calls of the last message that has any  *)
(* are without an output, unless the conversation has gone on.              *)
Unanswered ==
    LET calling == {i \in DOMAIN messages : messages[i].kind = "call"}
        after   == {i \in DOMAIN messages : \A j \in calling : j < i}
    IN  IF calling = {} \/ \E i \in after : messages[i].kind # "tool"
        THEN 0
        ELSE messages[Max(calling)].calls - Cardinality(after)

Init ==
    /\ setting \in Settings
    /\ config \in setting.configs
    /\ phase = "idle"
    /\ StreamInit
    /\ thread = Fresh(1)
    /\ deleted = FALSE
    /\ open = FALSE
    /\ cache = NoCache
    /\ built = NotBuilt
    /\ exceptions = {}

-----------------------------------------------------------------------------
(* How an operation goes on or comes to its end.  A commit finds out that   *)
(* the thread was deleted, whoever returns without one leaves it so.        *)

Gone ==
    /\ thread' = Fresh(thread.life + 1)
    /\ open' = FALSE

Resets ==
    /\ requests' = 0 /\ provider' = NoProvider /\ wire' = Empty
    /\ added' = Empty /\ done' = Empty /\ partial' = Empty
    /\ shown' = <<>> /\ result' = NoResult

(* The operation ends without a commit: through `?`, or with its process.   *)
Leaves(context) ==
    /\ phase' = "idle"
    /\ IF deleted THEN Gone ELSE UNCHANGED <<thread, open>>
    /\ deleted' = FALSE
    /\ built' = IF deleted THEN NotBuilt ELSE context
    /\ Resets
    /\ UNCHANGED <<setting, cache, config, exceptions>>

(* The operation commits a thread and goes on; it ends if that is refused.  *)
Commits(committed, next) ==
    /\ IF deleted
       THEN Gone /\ phase' = "idle"
       ELSE /\ thread' = committed
            /\ phase' = next
            /\ open' = (next # "idle")
    /\ deleted' = FALSE
    /\ built' = NotBuilt
    /\ Resets
    /\ UNCHANGED <<setting, cache, config, exceptions>>

Marked == [thread EXCEPT !.revision = @ + 1]    \* only the turn's status changes

-----------------------------------------------------------------------------
(* What starts an operation.                                                *)

UserSays ==
    /\ phase = "idle"
    /\ Len(messages) < setting.messages
    /\ \E size \in setting.sizes : Commits(With(<<Message("user", size, 0)>>, 1), "ready")

Recovers ==
    /\ phase = "idle" /\ open
    /\ phase' = IF Unanswered > 0 THEN "tools" ELSE "ready"
    /\ built' = NotBuilt
    /\ UNCHANGED <<setting, streamVars, thread, deleted, open, cache, config, exceptions>>

-----------------------------------------------------------------------------
(* model_request_from_projection.                                           *)

(* The limit of iterations, here a limit to the conversation's length.      *)
Iterated ==
    Len(messages) >= setting.messages /\ messages[Len(messages)].kind = "tool"

(* The checks of a summary, and the cache that is saved with it.            *)
Summarized(context, size, about) ==
    IF SummaryAccepted(config, context.size, size)
    THEN /\ built' = [context EXCEPT
                !.status = "built",
                !.summary = [revision |-> thread.revision, version |-> config.version,
                             covered |-> context.from - 1, size |-> size,
                             about |-> about, by |-> config.id]]
         /\ phase' = "saving"
         /\ UNCHANGED <<setting, streamVars, thread, deleted, open, cache, config, exceptions>>
    ELSE Leaves([NotBuilt EXCEPT
                !.status = IF size > SummaryBudget(config) THEN "violated" ELSE "refused",
                !.from = context.from])

Builds ==
    /\ phase = "ready"
    /\ ~Iterated
    /\ IF Refuses(config, messages)
       THEN Leaves([NotBuilt EXCEPT !.status = "refused", !.from = Newest(messages)])
       ELSE LET s       == Selection(config, messages)
                omitted == s.from - 1
                context == [NotBuilt EXCEPT
                               !.from = s.from, !.newest = s.newest, !.size = s.size]
            IN  IF omitted > 0 /\ CacheIsCurrent(cache, thread.revision, config, omitted)
                THEN Summarized(context, cache.size, cache.about)
                ELSE /\ IF omitted > 0 /\ config.compacts
                        THEN /\ phase' = "compacting"
                             /\ built' = [context EXCEPT
                                    !.start  = Start(cache, config, omitted),
                                    !.cached = IF Continues(cache, config, omitted)
                                               THEN cache ELSE NoCache]
                        ELSE /\ phase' = "sending"
                             /\ built' = [context EXCEPT !.status = "built"]
                     /\ UNCHANGED <<setting, streamVars, thread, deleted, open,
                                    cache, config, exceptions>>

(* The compactor answers: with a summary of any size, of what it was given. *)
Compacted ==
    /\ phase = "compacting"
    /\ \E size \in setting.summaries :
           Summarized([built EXCEPT !.start = 0, !.cached = NoCache], size,
                      built.cached.about \cup Ids(built.start + 1, built.from - 1))

CompactorFails == phase = "compacting" /\ Leaves(NotBuilt)

(* save_context_cache does not ask whether there still is such a thread.    *)
SavesCache ==
    /\ phase = "saving"
    /\ cache' = built.summary
    /\ phase' = "sending"
    /\ exceptions' = exceptions \cup IF deleted THEN {"haunted"} ELSE {}
    /\ UNCHANGED <<setting, streamVars, thread, deleted, open, config, built>>

-----------------------------------------------------------------------------
(* What becomes of the model's response.                                    *)

Answered ==
    /\ phase = "answered"
    /\ IF result.calls # <<>>
       THEN Commits(With(<<Message("call", 1, Len(result.calls))>>, 1), "tools")
       ELSE IF result.text # <<>>
            THEN Commits(With(<<Message("assistant", 1, 0)>>, 1), "idle")
            ELSE Commits(Marked, "idle")

Failed  == phase = "failed" /\ Commits(Marked, "idle")

(* An abort drops the request or the call; open calls get aborted outputs.  *)
Aborted ==
    /\ phase \in {"sending", "streaming", "tools"}
    /\ Commits(With([n \in 1..(IF phase = "tools" THEN Unanswered ELSE 0) |->
                        Message("tool", 1, 0)], 1), "idle")

(* A call is marked as started and gets its output.  After the last one the *)
(* next iteration begins.                                                   *)
ToolAnswers ==
    /\ phase = "tools"
    /\ \E size \in setting.sizes :
           Commits(With(<<Message("tool", size, 0)>>, 2),
                   IF Unanswered > 1 THEN "tools" ELSE "ready")

(* max_model_iterations: the turn fails instead.                            *)
OutOfIterations ==
    /\ phase = "ready"
    /\ Iterated
    /\ Commits(Marked, "idle")

-----------------------------------------------------------------------------
(* What else happens.                                                       *)

Crash == phase # "idle" /\ Leaves(NotBuilt)

(* A client deletes the thread, whatever runs on it.                        *)
Delete ==
    /\ ~deleted /\ thread.life = 1 /\ thread.revision > 0
    /\ cache' = NoCache
    /\ IF phase = "idle"
       THEN Gone /\ built' = NotBuilt /\ UNCHANGED deleted
       ELSE deleted' = TRUE /\ UNCHANGED <<thread, open, built>>
    /\ UNCHANGED <<setting, phase, streamVars, config, exceptions>>

(* The process is started again with another window.                        *)
Wider(new, old) == \/ Budget(new) > Budget(old)
                   \/ HistoryBudget(new) > HistoryBudget(old)

Reconfigures ==
    /\ phase = "idle"
    /\ config' \in setting.configs \ {config}
    /\ exceptions' = exceptions \cup
           IF \E old \in setting.configs : /\ old.id = cache.by
                                           /\ config'.version = cache.version
                                           /\ Wider(config', old)
           THEN {"widened"} ELSE {}
    /\ built' = NotBuilt
    /\ UNCHANGED <<setting, phase, streamVars, thread, deleted, open, cache>>

Next ==
    \/ UserSays \/ Recovers
    \/ Builds \/ Compacted \/ CompactorFails \/ SavesCache
    \/ Streams /\ UNCHANGED contextVars
    \/ Answered \/ Failed \/ Aborted \/ ToolAnswers \/ OutOfIterations
    \/ Crash \/ Delete \/ Reconfigures

Spec == Init /\ [][Next]_vars

-----------------------------------------------------------------------------
(* Properties.                                                              *)

(* The context that is built makes sense: budgets do not underflow, and the *)
(* slice of omitted messages the compactor is given exists.                 *)
TypeOK ==
    /\ phase \in {"idle", "ready", "compacting", "saving", "sending",
                  "streaming", "answered", "failed", "tools"}
    /\ open \in BOOLEAN /\ deleted \in BOOLEAN
    /\ \A i \in DOMAIN messages : /\ messages[i].kind \in Kinds
                                  /\ messages[i].size \in Nat
    /\ config \in setting.configs
    /\ built.status = "built" => HistoryBudget(config) \in Nat
    /\ built.start <= built.from - 1
    /\ built.from \in 1..(Len(messages) + 1)

(* What is sent fits into the window; and a build is refused for the window *)
(* only when the newest block leaves no room for the summary: with older    *)
(* blocks the summary's share was kept free.                                *)
WindowIsKept ==
    /\ built.status = "built" =>
           SystemSize + built.summary.size + built.size <= config.max
    /\ built.status = "refused" => built.from = Newest(messages)

(* What is sent is the whole conversation: the messages that are omitted are *)
(* those the summary is about, also when it was made step by step and kept   *)
(* over crashes and other windows, and no output is sent without its call.   *)
(* There are two exceptions: a summary saved for a thread that was deleted   *)
(* is found by the next one of its id, and a window that became wider under  *)
(* the same policy version makes the builder start a summary from nothing.   *)
NothingIsLost ==
    built.status = "built" =>
        /\ \A i \in built.from..Len(messages) :
               messages[i].kind = "tool" =>
                   \E j \in built.from..(i - 1) : messages[j].kind = "call"
        /\ (built.from > 1 /\ config.compacts /\ exceptions = {}) =>
               built.summary.about = Ids(1, built.from - 1)

(* No item was finished and the completion says that there is none: the      *)
(* client believes it, though items were added or texts shown before.        *)
TakenAtItsWord == ~IsChat /\ done = Empty /\ style.output = "empty"

(* A response that is returned as a success is what the provider answered:   *)
(* every text and every call, in their order, with whichever of the events   *)
(* of its style it sends them.  There are two exceptions.  A chat stream may *)
(* end early: what there is then is a beginning of the answer, and never     *)
(* part of a call.  And a Responses stream that finishes no item and ends    *)
(* with an empty output is an empty answer, never a part of one.             *)
AnswerIsFaithful ==
    phase = "answered" =>
        IF IsChat /\ \E i \in DOMAIN answer : ~IsSent(i)
        THEN /\ IsPrefix(result.text, Whole.text)
             /\ IsPrefix(result.calls, Whole.calls)
        ELSE result = IF TakenAtItsWord THEN NoResult ELSE Whole

(* A request is sent again only before its stream was opened, and at most    *)
(* max_retries times: no text is shown twice, and a response that is not     *)
(* taken at its word has the text that was shown before it.                  *)
ShownOnce ==
    /\ requests <= setting.retries + 1
    /\ IsInjective(shown)
    /\ (phase = "answered" /\ shown # <<>> /\ ~TakenAtItsWord) =>
           ToSet(shown) = ToSet(result.text)
=============================================================================
