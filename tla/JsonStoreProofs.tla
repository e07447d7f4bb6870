--------------------------- MODULE JsonStoreProofs ---------------------------
(***************************************************************************)
(* JsonFileThreadStore implements the versioned register, for any clients   *)
(* and commits, whatever crashes and however calls interleave, as long as   *)
(* no caller gives up while the thread file is being renamed or removed.    *)
(***************************************************************************)
EXTENDS JsonStore, TLAPS

(* The inductive invariant: the lock protocol, and nothing that is under    *)
(* way without a caller touches the thread file.                            *)
CallersStay == DroppedAt \cap {"rename", "removeThread"} = {}
CacheLands  == \A e \in landing : e.file = "cache"
NoneAtZero  == thread.rev = 0 => thread.body = {}
IInv == Consistent /\ CacheLands /\ NoneAtZero

USE DEF Waits, Holds, At, Goto

LEMMA Initially == Init => IInv
<1> SUFFICES ASSUME Init PROVE IInv
  OBVIOUS
<1>1. thread \in Stored!ThreadType
  BY DEF Init, Absent, Stored!Absent, Stored!ThreadType, NoneAtZero
<1>2. copy \in [Clients -> Stored!CopyType]
  BY DEF Init, Stored!CopyType
<1>3. TypeOK
  BY <1>1, <1>2 DEF Init, TypeOK
<1>4. Locked
  BY ClientsOk DEF Init, Locked
<1> QED BY <1>3, <1>4 DEF Init, IInv, Consistent, CacheLands, NoneAtZero, Absent, Stored!Absent

(* A client's draft is a thread, one revision after its copy.               *)
LEMMA Drafts ==
    ASSUME TypeOK, NEW c \in Clients, change[c] # NoChange
    PROVE  /\ Draft(c) \in Stored!ThreadType
           /\ Draft(c).rev = copy[c].rev + 1
           /\ Stored!CopyOf(Draft(c), life) \in Stored!CopyType
  BY DEF TypeOK, Draft, Stored!Successor, Stored!CopyOf, Stored!ThreadType, Stored!CopyType

-----------------------------------------------------------------------------
(* Steps of one client up to the lock.                                      *)

LEMMA LoadKeeps == ASSUME IInv, NEW c \in Clients, Load(c) PROVE IInv'
<1>1. Stored!CopyOf(thread, life) \in Stored!CopyType
  BY DEF IInv, Consistent, TypeOK, Stored!CopyOf, Stored!ThreadType, Stored!CopyType
<1>2. TypeOK'
  BY <1>1 DEF IInv, Consistent, TypeOK, Load
<1>3. Locked'
  BY DEF IInv, Consistent, TypeOK, Locked, Load, Draft
<1> QED BY <1>2, <1>3 DEF IInv, Consistent, CacheLands, NoneAtZero, Load

LEMMA CallKeeps == ASSUME IInv, NEW c \in Clients, Call(c) PROVE IInv'
<1>1. CASE CallCommit(c)
  BY <1>1, CommitsOk DEF IInv, Consistent, TypeOK, Locked, CacheLands, NoneAtZero, CallCommit, Draft
<1>2. CASE CallDelete(c)
  BY <1>2 DEF IInv, Consistent, TypeOK, Locked, CacheLands, NoneAtZero, CallDelete, Draft
<1>3. CASE CallSave(c)
  BY <1>3 DEF IInv, Consistent, TypeOK, Locked, CacheLands, NoneAtZero, CallSave, Draft
<1> QED BY <1>1, <1>2, <1>3 DEF Call

LEMMA LockKeeps == ASSUME IInv, NEW c \in Clients, Lock(c) PROVE IInv'
<1>1. pc[c] \in Waits /\ Entry(pc[c]) \in {"compare", "removeCache", "saveCache"}
  BY DEF Lock, Entry
<1>2. pc[c] = "commitWait" <=> Entry(pc[c]) = "compare"
  BY <1>1 DEF Entry
<1>3. TypeOK'
  BY <1>1 DEF IInv, Consistent, TypeOK, Lock
<1>4. Locked'
  BY <1>1, <1>2, ClientsOk DEF IInv, Consistent, TypeOK, Locked, Lock, Draft
<1> QED BY <1>3, <1>4 DEF IInv, Consistent, CacheLands, NoneAtZero, Lock

-----------------------------------------------------------------------------
(* Steps of the client that holds the lock: no other is in a critical       *)
(* section.                                                                 *)

LEMMA Alone ==
    ASSUME IInv, NEW c \in Clients, pc[c] \in Holds
    PROVE  writeLock = c /\ \A d \in Clients \ {c} : pc[d] \notin Holds
  BY DEF IInv, Consistent, Locked

LEMMA ReturnKeeps ==
    ASSUME IInv, NEW c \in Clients, pc[c] \in Holds, Return(c),
           thread' \in Stored!ThreadType, NoneAtZero', cached' \in BOOLEAN,
           copy' \in [Clients -> Stored!CopyType],
           landing' = landing, used' = used, life' \in Nat, drops' = drops
    PROVE  IInv'
<1>1. TypeOK'
  BY DEF IInv, Consistent, TypeOK, Return
<1>2. ASSUME NEW d \in Clients, d # c
      PROVE  pc'[d] = pc[d] /\ change'[d] = change[d] /\ pc'[d] \notin Holds
  BY <1>2, Alone DEF IInv, Consistent, TypeOK, Return
<1>3. Locked'
  BY <1>2, ClientsOk DEF IInv, Consistent, TypeOK, Locked, Return, NoClient
<1> QED BY <1>1, <1>3 DEF IInv, Consistent, CacheLands, NoneAtZero

LEMMA ProceedKeeps == ASSUME IInv, NEW c \in Clients, Proceed(c) PROVE IInv'
<1>1. CASE Compare(c)
  BY <1>1 DEF IInv, Consistent, TypeOK, Locked, CacheLands, NoneAtZero, Compare, Draft
<1>2. CASE Conflict(c)
  BY <1>2, ReturnKeeps DEF Conflict, IInv, Consistent, TypeOK, NoneAtZero
<1>3. CASE WriteTemporary(c)
  BY <1>3 DEF IInv, Consistent, TypeOK, Locked, CacheLands, NoneAtZero, WriteTemporary, Draft
<1>4. CASE Rename(c)
  <2>1. change[c] # NoChange
    BY <1>4 DEF IInv, Consistent, Locked, Rename
  <2>2. TypeOK'
    BY <1>4, <2>1, Drafts DEF IInv, Consistent, TypeOK, Rename
  <2>3. Draft(c)' = Draft(c)
    BY <1>4 DEF Rename, Draft
  <2>4. Locked'
    BY <1>4, <2>1, <2>3, Alone DEF IInv, Consistent, TypeOK, Locked, Rename
  <2>5. thread'.rev # 0
    BY <1>4, <2>1, Drafts DEF IInv, Consistent, TypeOK, Rename, Stored!CopyType
  <2> QED BY <1>4, <2>2, <2>4, <2>5 DEF IInv, Consistent, CacheLands, NoneAtZero, Rename
<1>5. CASE Committed(c)
  <2>1. Stored!CopyOf(Draft(c), life) \in Stored!CopyType
    BY <1>5, Drafts DEF IInv, Consistent, Locked, Committed
  <2> QED BY <1>5, <2>1, ReturnKeeps DEF Committed, IInv, Consistent, TypeOK, NoneAtZero
<1>6. CASE RemoveCache(c)
  BY <1>6 DEF IInv, Consistent, TypeOK, Locked, CacheLands, NoneAtZero, RemoveCache, Draft
<1>7. CASE RemoveThread(c)
  <2>1. thread' \in Stored!ThreadType /\ life' \in Nat /\ NoneAtZero'
    BY <1>7 DEF RemoveThread, NoneAtZero, Absent, Stored!Absent, Stored!ThreadType, IInv, Consistent, TypeOK
  <2> QED BY <1>7, <2>1, ReturnKeeps DEF RemoveThread, IInv, Consistent, TypeOK
<1>8. CASE SaveCache(c)
  BY <1>8, ReturnKeeps DEF SaveCache, IInv, Consistent, TypeOK, NoneAtZero
<1> QED BY <1>1, <1>2, <1>3, <1>4, <1>5, <1>6, <1>7, <1>8 DEF Proceed

-----------------------------------------------------------------------------
(* Dropped callers and crashes.                                             *)

LEMMA FreshCopies ==
    ASSUME TypeOK PROVE Stored!Fresh \in Stored!CopyType
  BY DEF TypeOK, Stored!Fresh, Stored!CopyType

LEMMA DropKeeps == ASSUME CallersStay, IInv, NEW c \in Clients, Drop(c) PROVE IInv'
<1>1. Underway(c) \subseteq {e \in Effects : e.file = "cache"}
  <2>1. pc[c] # "rename" /\ pc[c] # "removeThread"
    BY DEF Drop, CallersStay, Durable
  <2>2. Underway(c) \subseteq {[file |-> "cache", value |-> FALSE],
                              [file |-> "cache", value |-> TRUE]}
    BY <2>1 DEF Underway
  <2>3. [file |-> "cache", value |-> FALSE] \in [file : {"cache"}, value : BOOLEAN]
        /\ [file |-> "cache", value |-> TRUE] \in [file : {"cache"}, value : BOOLEAN]
    BY Zenon
  <2> QED BY <2>2, <2>3 DEF Effects
<1>2. TypeOK'
  BY <1>1, FreshCopies DEF IInv, Consistent, TypeOK, Drop
<1>3. CacheLands'
  BY <1>1 DEF IInv, CacheLands, NoneAtZero, Drop
<1>4. Locked'
  BY ClientsOk DEF IInv, Consistent, TypeOK, Locked, Drop, Draft, NoClient
<1> QED BY <1>2, <1>3, <1>4 DEF IInv, Consistent, NoneAtZero, Drop

LEMMA LandKeeps == ASSUME IInv, NEW e \in landing, Land(e) PROVE IInv'
<1>1. e.file = "cache" /\ e \in Effects
  BY DEF IInv, Consistent, TypeOK, CacheLands, NoneAtZero
<1>2. e.value \in BOOLEAN
  BY <1>1 DEF Effects
<1>3. UNCHANGED <<thread, life, writeLock, pc, copy, change, used, drops>>
      /\ cached' = e.value /\ landing' \subseteq landing
  BY <1>1 DEF Land
<1> QED BY <1>2, <1>3 DEF IInv, Consistent, TypeOK, Locked, CacheLands, NoneAtZero, Draft

LEMMA CrashKeeps == ASSUME IInv, Crash PROVE IInv'
  BY FreshCopies, ClientsOk
     DEF IInv, Consistent, TypeOK, Locked, CacheLands, NoneAtZero, Crash, NoClient

LEMMA StepKeeps == ASSUME CallersStay, IInv, [Next]_vars PROVE IInv'
<1>1. CASE UNCHANGED vars
  BY <1>1 DEF vars, IInv, Consistent, TypeOK, Locked, CacheLands, NoneAtZero, Draft
<1> QED BY <1>1, LoadKeeps, CallKeeps, LockKeeps, ProceedKeeps, DropKeeps, LandKeeps, CrashKeeps
        DEF Next

(* The lock protocol holds: a commit is renamed into place while what it    *)
(* was compared with is still stored (store.rs:125-145).                    *)
THEOREM LockProtocol == ASSUME CallersStay PROVE Spec => []Consistent
<1>1. IInv /\ [Next]_vars => IInv'
  BY StepKeeps
<1>2. IInv => Consistent
  BY DEF IInv
<1> QED BY Initially, <1>1, <1>2, PTL DEF Spec

-----------------------------------------------------------------------------
(* A deletion removes the cache first.  Under the lock nobody saves one in  *)
(* between, and what lands without its caller only removes one, if no       *)
(* caller gives up while a cache is being saved.                            *)
SavesStay == "saveCache" \notin DroppedAt

CacheInv ==
    /\ \A e \in landing : e.value = FALSE
    /\ \A c \in Clients : At(c, "removeThread") => ~cached

LEMMA CacheInvStep == ASSUME CallersStay, SavesStay, IInv, CacheInv, [Next]_vars PROVE CacheInv'
<1>1. ASSUME NEW c \in Clients, Load(c) \/ Call(c) \/ Lock(c)
      PROVE  CacheInv'
  <2>1. landing' = landing /\ cached' = cached
    BY <1>1 DEF Load, Call, CallCommit, CallDelete, CallSave, Lock
  <2>2. \A d \in Clients : pc'[d] = "removeThread" => pc[d] = "removeThread"
    BY <1>1 DEF Load, Call, CallCommit, CallDelete, CallSave, Lock, Entry, IInv, Consistent, TypeOK
  <2> QED BY <2>1, <2>2 DEF CacheInv
<1>2. ASSUME NEW c \in Clients, Proceed(c)
      PROVE  CacheInv'
  <2>1. landing' = landing
    BY <1>2 DEF Proceed, Compare, Conflict, WriteTemporary, Rename, Committed, RemoveCache,
                RemoveThread, SaveCache, Return
  <2>2. pc[c] \in Holds
    BY <1>2 DEF Proceed, Compare, Conflict, WriteTemporary, Rename, Committed, RemoveCache,
                RemoveThread, SaveCache, Return
  <2>3. \A d \in Clients \ {c} : pc'[d] = pc[d] /\ pc[d] # "removeThread"
    BY <1>2, <2>2, Alone DEF Proceed, Compare, Conflict, WriteTemporary, Rename, Committed,
                RemoveCache, RemoveThread, SaveCache, Return, IInv, Consistent, TypeOK
  <2>4. pc'[c] = "removeThread" => cached' = FALSE
    BY <1>2 DEF Proceed, Compare, Conflict, WriteTemporary, Rename, Committed, RemoveCache,
                RemoveThread, SaveCache, Return, IInv, Consistent, TypeOK
  <2> QED BY <2>1, <2>3, <2>4 DEF CacheInv
<1>3. ASSUME NEW c \in Clients, Drop(c)
      PROVE  CacheInv'
  <2>1. pc[c] \notin {"rename", "removeThread", "saveCache"}
    BY <1>3 DEF Drop, Durable, CallersStay, SavesStay
  <2>2. \A e \in Underway(c) : e.value = FALSE
    BY <2>1 DEF Underway
  <2>3. \A d \in Clients : pc'[d] = "removeThread" => pc[d] = "removeThread"
    BY <1>3 DEF Drop, IInv, Consistent, TypeOK
  <2> QED BY <1>3, <2>2, <2>3 DEF CacheInv, Drop
<1>4. ASSUME NEW e \in landing, Land(e)
      PROVE  CacheInv'
  BY <1>4 DEF CacheInv, Land, IInv, CacheLands
<1>5. CASE Crash
  BY <1>5 DEF CacheInv, Crash
<1>6. CASE UNCHANGED vars
  BY <1>6 DEF CacheInv, vars
<1> QED BY <1>1, <1>2, <1>3, <1>4, <1>5, <1>6 DEF Next

(* An interrupted deletion may leave a thread without its cache, and never  *)
(* the cache of a thread that is gone (store.rs:176-178).                   *)
THEOREM CacheRemovedFirst == ASSUME CallersStay, SavesStay PROVE Spec => CacheGoesFirst
<1>1. Init => CacheInv
  BY DEF Init, CacheInv
<1>2. IInv /\ CacheInv /\ [Next]_vars =>
          [thread # Absent /\ thread' = Absent => ~cached]_<<thread, cached>>
  <2> SUFFICES ASSUME IInv, CacheInv, [Next]_vars, thread # Absent, thread' = Absent
      PROVE  ~cached
    OBVIOUS
  <2>1. ASSUME NEW c \in Clients, Load(c) \/ Call(c) \/ Lock(c) \/ Drop(c)
        PROVE  FALSE
    BY <2>1 DEF Load, Call, CallCommit, CallDelete, CallSave, Lock, Drop
  <2>2. ASSUME NEW c \in Clients, Proceed(c)
        PROVE  ~cached
    <3>1. CASE Rename(c)
      <4>1. Draft(c).rev = copy[c].rev + 1 /\ copy[c].rev \in Nat
        BY <3>1, Drafts DEF Rename, IInv, Consistent, Locked, TypeOK, Stored!CopyType
      <4> QED BY <3>1, <4>1 DEF Rename, Absent, Stored!Absent
    <3>2. CASE RemoveThread(c)
      BY <3>2 DEF RemoveThread, CacheInv
    <3> QED BY <2>2, <3>1, <3>2 DEF Proceed, Compare, Conflict, WriteTemporary, Committed,
                                    RemoveCache, SaveCache
  <2>3. ASSUME NEW e \in landing, Land(e)
        PROVE  FALSE
    BY <2>3 DEF Land, IInv, CacheLands
  <2> QED BY <2>1, <2>2, <2>3 DEF Next, Crash, vars
<1>3. IInv /\ [Next]_vars => IInv'
  BY StepKeeps
<1>4. IInv /\ CacheInv /\ [Next]_vars => CacheInv'
  BY CacheInvStep
<1> QED BY Initially, <1>1, <1>2, <1>3, <1>4, PTL DEF Spec, CacheGoesFirst

-----------------------------------------------------------------------------
(* The refinement.  A commit takes effect with its rename, a deletion with  *)
(* the removal of the thread file; every other step of a call is a stutter. *)

Copies == [c \in Clients |-> CopyWhenDone(c)]

LEMMA SameCopies ==
    ASSUME NEW c \in Clients, pc[c] # "renamed", pc'[c] # "renamed",
           copy' = copy, life' = life,
           \A d \in Clients \ {c} : pc'[d] = pc[d] /\ change'[d] = change[d]
    PROVE  Copies' = Copies
<1>1. ASSUME NEW d \in Clients PROVE CopyWhenDone(d)' = CopyWhenDone(d)
  BY DEF CopyWhenDone, Draft
<1> QED BY <1>1 DEF Copies

LEMMA OneStep ==
    ASSUME CallersStay, IInv, [Next]_vars
    PROVE  [Register!RegisterNext]_<<thread, life, Copies>>
<1>1. ASSUME NEW c \in Clients, Load(c) PROVE Register!Load(c)
  BY <1>1 DEF Load, Register!Load, CopyWhenDone, Draft, Register!CopyOf, Stored!CopyOf,
              IInv, Consistent, TypeOK
<1>2. ASSUME NEW c \in Clients,
             Call(c) \/ Lock(c) \/ Compare(c) \/ Conflict(c) \/ WriteTemporary(c)
                \/ RemoveCache(c) \/ SaveCache(c)
      PROVE  UNCHANGED <<thread, life, Copies>>
  <2>1. pc[c] # "renamed" /\ pc'[c] # "renamed" /\ UNCHANGED <<thread, life, copy>>
    BY <1>2 DEF Call, CallCommit, CallDelete, CallSave, Lock, Entry, Compare, Conflict,
                WriteTemporary, RemoveCache, SaveCache, Return, IInv, Consistent, TypeOK
  <2>2. \A d \in Clients \ {c} : pc'[d] = pc[d] /\ change'[d] = change[d]
    BY <1>2 DEF Call, CallCommit, CallDelete, CallSave, Lock, Compare, Conflict,
                WriteTemporary, RemoveCache, SaveCache, Return, IInv, Consistent, TypeOK
  <2> QED BY <2>1, <2>2, SameCopies
<1>3. ASSUME NEW c \in Clients, Rename(c) PROVE Register!Commit(c, change[c])
  <2>1. CopyWhenDone(c) = copy[c] /\ copy[c].rev = thread.rev /\ thread' = Draft(c)
    BY <1>3 DEF Rename, CopyWhenDone, IInv, Consistent, Locked
  <2>2. Draft(c)' = Draft(c)
    BY <1>3 DEF Rename, Draft
  <2>3. CopyWhenDone(c)' = Stored!CopyOf(thread', life)
    BY <1>3, <2>1, <2>2 DEF Rename, CopyWhenDone, IInv, Consistent, TypeOK
  <2>4. ASSUME NEW d \in Clients, d # c PROVE CopyWhenDone(d)' = CopyWhenDone(d)
    BY <1>3, <2>4 DEF Rename, CopyWhenDone, Draft, IInv, Consistent, TypeOK
  <2>5. Copies' = [Copies EXCEPT ![c] = Stored!CopyOf(thread', life)]
    BY <2>3, <2>4 DEF Copies
  <2> QED BY <1>3, <2>1, <2>5
          DEF Register!Commit, Register!CopyOf, Register!Successor, Stored!CopyOf,
              Stored!Successor, Copies, Draft, Rename
<1>4. ASSUME NEW c \in Clients, Committed(c) PROVE UNCHANGED <<thread, life, Copies>>
  <2>1. CopyWhenDone(c)' = CopyWhenDone(c)
    BY <1>4 DEF Committed, CopyWhenDone, Return, IInv, Consistent, TypeOK
  <2>2. ASSUME NEW d \in Clients, d # c PROVE CopyWhenDone(d)' = CopyWhenDone(d)
    BY <1>4, <2>2 DEF Committed, CopyWhenDone, Draft, Return, IInv, Consistent, TypeOK
  <2> QED BY <1>4, <2>1, <2>2 DEF Committed, Copies
<1>5. ASSUME NEW c \in Clients, RemoveThread(c)
      PROVE  Register!Delete \/ UNCHANGED <<thread, life, Copies>>
  <2>1. ASSUME NEW d \in Clients PROVE CopyWhenDone(d)' = CopyWhenDone(d)
    BY <1>5, <2>1, Alone DEF RemoveThread, CopyWhenDone, Return, IInv, Consistent, TypeOK
  <2>2. Copies' = Copies
    BY <2>1 DEF Copies
  <2>3. CASE thread = Absent
    BY <1>5, <2>2, <2>3 DEF RemoveThread
  <2>4. CASE thread # Absent
    BY <1>5, <2>2, <2>4 DEF RemoveThread, Register!Delete, Register!Absent, Absent,
                            Stored!Absent, IInv, NoneAtZero, Consistent, TypeOK,
                            Stored!ThreadType, Copies
  <2> QED BY <2>3, <2>4
<1>6. ASSUME NEW c \in Clients, Drop(c) PROVE Register!Forget({c})
  <2>1. CopyWhenDone(c)' = Stored!Fresh
    BY <1>6 DEF Drop, CopyWhenDone, IInv, Consistent, TypeOK
  <2>2. ASSUME NEW d \in Clients, d # c PROVE CopyWhenDone(d)' = CopyWhenDone(d)
    BY <1>6, <2>2 DEF Drop, CopyWhenDone, Draft, IInv, Consistent, TypeOK
  <2> QED BY <1>6, <2>1, <2>2 DEF Register!Forget, Register!Fresh, Stored!Fresh, Drop
<1>7. ASSUME NEW e \in landing, Land(e) PROVE UNCHANGED <<thread, life, Copies>>
  BY <1>7 DEF Land, IInv, CacheLands, Copies, CopyWhenDone, Draft
<1>8. CASE Crash
  <2>1. ASSUME NEW d \in Clients PROVE CopyWhenDone(d)' = Stored!Fresh
    BY <1>8, <2>1 DEF Crash, CopyWhenDone
  <2>2. Register!Forget(Clients)
    BY <1>8, <2>1 DEF Register!Forget, Register!Fresh, Stored!Fresh, Crash
  <2> QED BY <2>2 DEF Register!RegisterNext
<1>9. CASE UNCHANGED vars
  BY <1>9 DEF vars, Copies, CopyWhenDone, Draft
<1>10. ASSUME NEW c \in Clients, Rename(c) PROVE Register!RegisterNext
  <2>1. change[c] \in Commits
    BY <1>10 DEF Rename, IInv, Consistent, TypeOK, Locked
  <2> QED BY <1>3, <1>10, <2>1 DEF Register!RegisterNext
<1> QED BY <1>1, <1>2, <1>4, <1>5, <1>6, <1>7, <1>8, <1>9, <1>10
        DEF Next, Proceed, Register!RegisterNext

(* The store implements the versioned register (store.rs:101-194).          *)
THEOREM StoreImplementsRegister == ASSUME CallersStay PROVE Spec => Implements
<1>1. Init => Register!RegisterInit
  BY DEF Init, Register!RegisterInit, Register!Fresh, Register!Absent, CopyWhenDone, Absent,
         Stored!Absent
<1>2. IInv /\ [Next]_vars => IInv'
  BY StepKeeps
<1>3. IInv /\ [Next]_vars => [Register!RegisterNext]_Register!registerVars
  BY OneStep DEF Register!registerVars, Copies
<1> QED BY Initially, <1>1, <1>2, <1>3, PTL DEF Spec, Implements, Register!RegisterSpec

(* And so it keeps its commits.                                             *)
COROLLARY StoreKeepsCommits == ASSUME CallersStay PROVE Spec => KeepsCommits
BY StoreImplementsRegister, Register!CommitsKept, PTL DEF Implements, KeepsCommits
=============================================================================
