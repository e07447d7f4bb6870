--------------------------- MODULE ThreadRegister ---------------------------
(***************************************************************************)
(* What the ThreadStore trait (canary-agent-runtime, store.rs) promises for *)
(* one thread id: a versioned register.  A client loads the thread, and its *)
(* compare_and_commit replaces the thread, in one step, if the revision the *)
(* client's copy carries is still the stored one.                           *)
(*                                                                         *)
(* A thread's content is the set of the commits it is made of.  A thread    *)
(* that is not stored has revision 0 and no content: load answers           *)
(* ThreadNotFound, and its callers go on with Thread::new, which is that.   *)
(***************************************************************************)
EXTENDS Naturals, TLAPS

CONSTANTS
    Clients,    \* whoever calls the store
    Commits     \* names of the changes they commit

VARIABLES
    thread,     \* the stored thread: revision and content
    life,       \* history: how often it has been deleted
    copy        \* each client's Thread, with the life it was taken in

registerVars == <<thread, life, copy>>

Absent == [rev |-> 0, body |-> {}]
Fresh  == [rev |-> 0, body |-> {}, life |-> life]

ThreadType == [rev : Nat, body : SUBSET Commits]
CopyType   == [rev : Nat, body : SUBSET Commits, life : Nat]

CopyOf(t, n) == [rev |-> t.rev, body |-> t.body, life |-> n]
Successor(old, x) == [rev |-> old.rev + 1, body |-> old.body \cup {x}]

RegisterInit ==
    /\ thread = Absent
    /\ life = 0
    /\ copy = [c \in Clients |-> Fresh]

Load(c) ==
    /\ copy' = [copy EXCEPT ![c] = CopyOf(thread, life)]
    /\ UNCHANGED <<thread, life>>

Commit(c, x) ==
    /\ copy[c].rev = thread.rev
    /\ thread' = Successor(copy[c], x)
    /\ copy' = [copy EXCEPT ![c] = CopyOf(thread', life)]
    /\ UNCHANGED life

Delete ==
    /\ thread.rev > 0
    /\ thread' = Absent
    /\ life' = life + 1
    /\ UNCHANGED copy

(* A dropped call or a crash loses copies.                                  *)
Forget(lost) ==
    /\ copy' = [c \in Clients |-> IF c \in lost THEN Fresh ELSE copy[c]]
    /\ UNCHANGED <<thread, life>>

RegisterNext ==
    \/ \E c \in Clients : Load(c) \/ \E x \in Commits : Commit(c, x)
    \/ Delete
    \/ \E lost \in SUBSET Clients : Forget(lost)

RegisterSpec == RegisterInit /\ [][RegisterNext]_registerVars
-----------------------------------------------------------------------------
(* A copy taken before the last deletion whose revision the thread has      *)
(* reached again: the compare cannot tell it from a current one.            *)
Revenant(c) == copy[c].life # life /\ copy[c].rev = thread.rev

(* No update is lost: what the thread is made of stays, until the thread is *)
(* deleted or a copy of a deleted one passes the compare (store.rs:24-30).  *)
KeepsCommits ==
    [][\/ thread.body \subseteq thread'.body
       \/ life' # life
       \/ \E c \in Clients, x \in Commits :
              Revenant(c) /\ thread' = Successor(copy[c], x)]_registerVars
-----------------------------------------------------------------------------
(* A copy of the thread's present life is not ahead of it, and with the     *)
(* same revision has the same content.                                      *)
CopiesCurrent ==
    /\ thread \in ThreadType /\ life \in Nat /\ copy \in [Clients -> CopyType]
    /\ thread.rev = 0 => thread.body = {}
    /\ \A c \in Clients :
           /\ copy[c].life <= life
           /\ copy[c].life = life =>
                  /\ copy[c].rev <= thread.rev
                  /\ copy[c].rev = thread.rev => copy[c].body = thread.body

LEMMA CopiesInit == RegisterInit => CopiesCurrent
  BY DEF RegisterInit, CopiesCurrent, Absent, Fresh, ThreadType, CopyType

LEMMA CopiesStep == CopiesCurrent /\ [RegisterNext]_registerVars => CopiesCurrent'
<1> SUFFICES ASSUME CopiesCurrent, [RegisterNext]_registerVars PROVE CopiesCurrent'
  OBVIOUS
<1>1. ASSUME NEW c \in Clients, Load(c) PROVE CopiesCurrent'
  BY <1>1 DEF CopiesCurrent, Load, CopyOf, ThreadType, CopyType
<1>2. ASSUME NEW c \in Clients, NEW x \in Commits, Commit(c, x) PROVE CopiesCurrent'
  <2>1. thread' \in ThreadType /\ thread'.rev = copy[c].rev + 1
    BY <1>2 DEF CopiesCurrent, Commit, Successor, ThreadType, CopyType
  <2>2. thread'.rev = thread.rev + 1 /\ thread'.rev > thread.rev
    BY <1>2, <2>1 DEF CopiesCurrent, Commit, ThreadType
  <2>3. copy' = [copy EXCEPT ![c] = CopyOf(thread', life)] /\ life' = life
    BY <1>2 DEF Commit
  <2>4. CopyOf(thread', life) \in CopyType
    BY <2>1 DEF CopiesCurrent, CopyOf, ThreadType, CopyType
  <2>5. copy' \in [Clients -> CopyType]
    BY <2>3, <2>4 DEF CopiesCurrent
  <2>6. ASSUME NEW d \in Clients
        PROVE  /\ copy'[d].life <= life'
               /\ copy'[d].life = life' =>
                      /\ copy'[d].rev <= thread'.rev
                      /\ copy'[d].rev = thread'.rev => copy'[d].body = thread'.body
    <3>1. CASE d = c
      BY <3>1, <2>1, <2>3 DEF CopiesCurrent, CopyOf, ThreadType
    <3>2. CASE d # c
      BY <3>2, <2>1, <2>2, <2>3 DEF CopiesCurrent, ThreadType, CopyType
    <3> QED BY <3>1, <3>2
  <2> QED BY <2>1, <2>2, <2>3, <2>5, <2>6 DEF CopiesCurrent, ThreadType
<1>3. CASE Delete
  BY <1>3 DEF CopiesCurrent, Delete, Absent, ThreadType, CopyType
<1>4. ASSUME NEW lost \in SUBSET Clients, Forget(lost) PROVE CopiesCurrent'
  BY <1>4 DEF CopiesCurrent, Forget, Fresh, ThreadType, CopyType
<1>5. CASE UNCHANGED registerVars
  BY <1>5 DEF CopiesCurrent, registerVars
<1> QED BY <1>1, <1>2, <1>3, <1>4, <1>5 DEF RegisterNext

(* A commit by a copy of the present life keeps the thread's content; by    *)
(* another one it is a revenant's.                                          *)
LEMMA StepKeeps ==
    CopiesCurrent /\ [RegisterNext]_registerVars =>
        \/ thread.body \subseteq thread'.body
        \/ life' # life
        \/ \E c \in Clients, x \in Commits :
               Revenant(c) /\ thread' = Successor(copy[c], x)
<1> SUFFICES ASSUME CopiesCurrent, [RegisterNext]_registerVars
             PROVE  \/ thread.body \subseteq thread'.body
                    \/ life' # life
                    \/ \E c \in Clients, x \in Commits :
                           Revenant(c) /\ thread' = Successor(copy[c], x)
  OBVIOUS
<1>1. ASSUME NEW c \in Clients, NEW x \in Commits, Commit(c, x)
      PROVE  \/ thread.body \subseteq thread'.body
             \/ Revenant(c) /\ thread' = Successor(copy[c], x)
  <2>1. CASE copy[c].life = life
    <3>1. copy[c].body = thread.body
      BY <1>1, <2>1 DEF CopiesCurrent, Commit
    <3>2. thread'.body = copy[c].body \cup {x}
      BY <1>1 DEF Commit, Successor
    <3> QED BY <3>1, <3>2
  <2>2. CASE copy[c].life # life
    BY <1>1, <2>2 DEF Commit, Revenant
  <2> QED BY <2>1, <2>2
<1>2. CASE Delete
  BY <1>2 DEF Delete, CopiesCurrent
<1>3. CASE (\E c \in Clients : Load(c)) \/ (\E lost \in SUBSET Clients : Forget(lost))
  BY <1>3 DEF Load, Forget
<1>4. CASE UNCHANGED registerVars
  BY <1>4 DEF registerVars
<1> QED BY <1>1, <1>2, <1>3, <1>4 DEF RegisterNext

(* Whatever implements the register keeps its commits (store.rs:24-30).     *)
THEOREM CommitsKept == RegisterSpec => KeepsCommits
<1>1. RegisterSpec => []CopiesCurrent
  BY CopiesInit, CopiesStep, PTL DEF RegisterSpec
<1>2. CopiesCurrent /\ [RegisterNext]_registerVars =>
        [\/ thread.body \subseteq thread'.body
         \/ life' # life
         \/ \E c \in Clients, x \in Commits :
                Revenant(c) /\ thread' = Successor(copy[c], x)]_registerVars
  BY StepKeeps
<1> QED BY <1>1, <1>2, PTL DEF RegisterSpec, KeepsCommits
=============================================================================
