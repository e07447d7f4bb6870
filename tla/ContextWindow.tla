---------------------------- MODULE ContextWindow ----------------------------
(***************************************************************************)
(* What CompactingContextBuilder::build computes around its await on the   *)
(* compactor: which blocks of a conversation are sent as they are, which   *)
(* are omitted and summarized, what of a cached summary is used again.  A  *)
(* message has a kind and a size; the estimate of several is the sum.      *)
(***************************************************************************)
EXTENDS Integers, Sequences, FiniteSetsExt

CONSTANTS
    SystemSize,         \* estimate of the system prompt
    MarkerSize,         \* estimate of the truncation marker
    ElidedSize          \* estimate of a tool output that was elided

ASSUME SizesAssumption == {SystemSize, MarkerSize, ElidedSize} \subseteq Nat

Kinds    == {"user", "assistant", "call", "tool"}
Policies == {"elide", "drop", "fail"}       \* OversizedGroupPolicy

(* What the messages with these numbers cost.                              *)
Estimate(messages, numbers) ==
    MapThenSumSet(LAMBDA i : messages[i].size, numbers)

Onward(messages, i) == i..Len(messages)

-----------------------------------------------------------------------------
(* tool_call_blocks: a message that calls tools and the outputs right after *)
(* it are one block, every other message is one.                           *)

StartsBlock(messages, i) ==
    ~\E j \in 1..(i - 1) : /\ messages[j].kind = "call"
                           /\ \A k \in (j + 1)..i : messages[k].kind = "tool"

Starts(messages) == {i \in DOMAIN messages : StartsBlock(messages, i)}
Newest(messages) == Max(Starts(messages))

-----------------------------------------------------------------------------
(* The budgets.                                                            *)

Budget(config) == config.max - SystemSize

SummaryBudget(config) ==
    IF config.compacts THEN Min({config.summary, Budget(config)}) ELSE 0

(* Mutant: nothing is kept free for the summary.                           *)
HistoryUnreserved(config) == Budget(config)

HistoryBudget(config) == Budget(config) - SummaryBudget(config)

-----------------------------------------------------------------------------
(* The selection.  The newest block may take the whole budget; with older  *)
(* ones it has to leave the summary's share free.                          *)

Fits(config, messages, i) ==
    Estimate(messages, Onward(messages, i)) <=
        IF i = Newest(messages) THEN Budget(config) ELSE HistoryBudget(config)

Elided(messages) ==
    [i \in DOMAIN messages |->
        IF messages[i].kind = "tool" THEN [messages[i] EXCEPT !.size = ElidedSize]
                                     ELSE messages[i]]

(* fit_oversized_group: what stands for a newest block that does not fit.  *)
Reduced(config, messages) ==
    LET n      == Newest(messages)
        elided == Estimate(Elided(messages), Onward(messages, n))
    IN  IF config.policy = "elide" /\ elided <= Budget(config)
        THEN [from |-> n, newest |-> "elided", size |-> elided]
        ELSE IF MarkerSize <= Budget(config)
        THEN [from |-> n, newest |-> "marker", size |-> MarkerSize]
        ELSE [from |-> n, newest |-> "nothing", size |-> 0]

(* What is selected: the messages up to `from` are omitted.                *)
Selection(config, messages) ==
    LET fitting == {i \in Starts(messages) : Fits(config, messages, i)}
    IN  IF fitting = {}
        THEN Reduced(config, messages)
        ELSE [from   |-> Min(fitting),
              newest |-> "whole",
              size   |-> Estimate(messages, Onward(messages, Min(fitting)))]

(* A build that is refused before anything is selected: the prompt fills   *)
(* the window, or the newest block does not fit and policy is to fail.     *)
Refuses(config, messages) ==
    \/ SystemSize >= config.max
    \/ /\ config.policy = "fail"
       /\ ~Fits(config, messages, Newest(messages))

-----------------------------------------------------------------------------
(* The cached summary: ThreadContextCache.  `about` says which messages it  *)
(* really is about, `by` under which configuration it was made.             *)

NoCache == [revision |-> 0, version |-> 0, covered |-> 0, size |-> 0,
            about |-> {}, by |-> 0]

(* Mutant: only the revision and the version are compared.                  *)
CurrentAnyLength(cached, revision, config, omitted) ==
    /\ cached # NoCache
    /\ cached.revision = revision
    /\ cached.version = config.version

CacheIsCurrent(cached, revision, config, omitted) ==
    /\ cached # NoCache
    /\ cached.revision = revision
    /\ cached.version = config.version
    /\ cached.covered = omitted

SameVersion(cached, config) == cached # NoCache /\ cached.version = config.version

(* Whether the compactor is given the cached summary to continue.           *)
Continues(cached, config, omitted) ==
    SameVersion(cached, config) /\ cached.covered <= omitted

(* Mutant: the slice may start behind the end of what is omitted.           *)
StartUnbounded(cached, config, omitted) ==
    IF SameVersion(cached, config) THEN cached.covered ELSE 0

(* How many of the omitted messages the compactor is not given.             *)
Start(cached, config, omitted) ==
    IF SameVersion(cached, config) THEN Min({cached.covered, omitted}) ELSE 0

(* The checks a summary has to pass.                                        *)
SummaryAccepted(config, selected, size) ==
    /\ size <= SummaryBudget(config)
    /\ selected + size <= Budget(config)
=============================================================================
