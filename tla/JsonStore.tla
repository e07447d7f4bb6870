------------------------------ MODULE JsonStore ------------------------------
(***************************************************************************)
(* canary-agent-store-json: JsonFileThreadStore, for one thread id.         *)
(*                                                                         *)
(* Every write holds the store's write lock and is made of several awaits   *)
(* on file operations.  A file is written to a temporary of its own and     *)
(* renamed into place, so a reader sees an old file or a new one.  tokio    *)
(* runs a file operation on a thread of its blocking pool: a caller that    *)
(* drops the future lets go of the write lock, but cannot recall a rename   *)
(* or removal that is under way.                                            *)
(***************************************************************************)
EXTENDS Naturals, FiniteSets

CONSTANTS
    Clients,        \* tasks that call the store
    Commits,        \* the commits they ask for
    DroppedAt,      \* file operations whose callers may give up meanwhile
    MaxDeletes,     \* bound: threads removed
    MaxDrops        \* bound: futures dropped

NoClient == "no client"

NoChange == "no change"

ASSUME ClientsOk == NoClient \notin Clients
ASSUME CommitsOk == NoChange \notin Commits

VARIABLES
    thread,     \* threads/<id>.json
    cached,     \* is there a context-cache/<id>.json?
    writeLock,  \* holder of write_lock
    pc,         \* the await each client's call stands at
    copy,       \* each client's Thread
    change,     \* the commit a client asks for
    landing,    \* file operations whose caller is gone
    used,       \* history: commits asked for
    life,       \* history: how often the thread has been deleted
    drops       \* use of the bound

vars == <<thread, cached, writeLock, pc, copy, change, landing, used, life, drops>>

Waits == {"commitWait", "deleteWait", "saveWait"}
Holds == {"compare", "write", "rename", "renamed",      \* commit_thread
          "removeCache", "removeThread",                \* delete
          "saveCache"}                                  \* save_context_cache
Durable == {"rename", "removeThread", "removeCache", "saveCache"}

Stored == INSTANCE ThreadRegister
Absent == Stored!Absent

(* What a client's rename puts in place.                                    *)
Draft(c) == Stored!Successor(copy[c], change[c])

(* File operations that go on without their caller.                         *)
Effects == [file : {"thread"}, value : Stored!ThreadType]
           \cup [file : {"cache"}, value : BOOLEAN]

(* TypeOK: the shapes of the store's and the calls' state.                  *)
TypeOK ==
    /\ thread \in Stored!ThreadType
    /\ cached \in BOOLEAN
    /\ writeLock \in Clients \cup {NoClient}
    /\ pc \in [Clients -> {"idle"} \cup Waits \cup Holds]
    /\ copy \in [Clients -> Stored!CopyType]
    /\ change \in [Clients -> Commits \cup {NoChange}]
    /\ landing \subseteq Effects
    /\ used \subseteq Commits
    /\ life \in Nat /\ drops \in Nat

Init ==
    /\ thread = Absent /\ cached = FALSE
    /\ writeLock = NoClient
    /\ pc = [c \in Clients |-> "idle"]
    /\ copy = [c \in Clients |-> [rev |-> 0, body |-> {}, life |-> 0]]
    /\ change = [c \in Clients |-> NoChange]
    /\ landing = {} /\ used = {} /\ life = 0 /\ drops = 0

-----------------------------------------------------------------------------
At(c, place) == pc[c] = place
Goto(c, place) == pc' = [pc EXCEPT ![c] = place]

(* The call returns, and its lock guard is dropped.                         *)
Return(c) ==
    /\ Goto(c, "idle")
    /\ change' = [change EXCEPT ![c] = NoChange]
    /\ writeLock' = NoClient

-----------------------------------------------------------------------------
(* load: no lock, one read.                                                 *)
Load(c) ==
    /\ At(c, "idle")
    /\ copy' = [copy EXCEPT ![c] = Stored!CopyOf(thread, life)]
    /\ UNCHANGED <<thread, cached, writeLock, pc, change, landing, used, life, drops>>

(* A call of compare_and_commit, delete or save_context_cache comes as far  *)
(* as the write lock.                                                       *)
CallCommit(c) ==
    /\ At(c, "idle")
    /\ \E x \in Commits \ used :
           /\ change' = [change EXCEPT ![c] = x]
           /\ used' = used \cup {x}
    /\ Goto(c, "commitWait")
    /\ UNCHANGED <<thread, cached, writeLock, copy, landing, life, drops>>

CallDelete(c) ==
    /\ At(c, "idle") /\ life < MaxDeletes
    /\ Goto(c, "deleteWait")
    /\ UNCHANGED <<thread, cached, writeLock, copy, change, landing, used, life, drops>>

CallSave(c) ==
    /\ At(c, "idle") /\ copy[c].rev > 0
    /\ Goto(c, "saveWait")
    /\ UNCHANGED <<thread, cached, writeLock, copy, change, landing, used, life, drops>>

(* Mutant: delete leaves the cache.                                         *)
EntryForgettingCache(wait) ==
    [commitWait |-> "compare", deleteWait |-> "removeThread", saveWait |-> "saveCache"][wait]

Entry(wait) ==
    [commitWait |-> "compare", deleteWait |-> "removeCache", saveWait |-> "saveCache"][wait]

(* Mutant: the lock does not exclude.                                       *)
LockUnguarded(c) ==
    /\ pc[c] \in Waits
    /\ writeLock' = c
    /\ Goto(c, Entry(pc[c]))
    /\ UNCHANGED <<thread, cached, copy, change, landing, used, life, drops>>

Lock(c) ==
    /\ pc[c] \in Waits /\ writeLock = NoClient
    /\ writeLock' = c
    /\ Goto(c, Entry(pc[c]))
    /\ UNCHANGED <<thread, cached, copy, change, landing, used, life, drops>>

-----------------------------------------------------------------------------
(* commit_thread, with the lock.                                            *)

(* Mutants: any copy that is not ahead passes; a conflict keeps the lock.   *)
CompareLoosely(c) ==
    /\ At(c, "compare")
    /\ thread.rev >= copy[c].rev
    /\ Goto(c, "write")
    /\ UNCHANGED <<thread, cached, writeLock, copy, change, landing, used, life, drops>>
ConflictKeepingLock(c) ==
    /\ At(c, "compare")
    /\ thread.rev # copy[c].rev
    /\ Goto(c, "idle")
    /\ UNCHANGED <<thread, cached, writeLock, copy, change, landing, used, life, drops>>

Compare(c) ==
    /\ At(c, "compare")
    /\ thread.rev = copy[c].rev
    /\ Goto(c, "write")
    /\ UNCHANGED <<thread, cached, writeLock, copy, change, landing, used, life, drops>>

(* RevisionConflict.                                                        *)
Conflict(c) ==
    /\ At(c, "compare")
    /\ thread.rev # copy[c].rev
    /\ Return(c)
    /\ UNCHANGED <<thread, cached, copy, landing, used, life, drops>>

(* write_thread: the temporary is written, then renamed.                    *)
WriteTemporary(c) ==
    /\ At(c, "write")
    /\ Goto(c, "rename")
    /\ UNCHANGED <<thread, cached, writeLock, copy, change, landing, used, life, drops>>

Rename(c) ==
    /\ At(c, "rename")
    /\ thread' = Draft(c)
    /\ Goto(c, "renamed")
    /\ UNCHANGED <<cached, writeLock, copy, change, landing, used, life, drops>>

Committed(c) ==
    /\ At(c, "renamed")
    /\ copy' = [copy EXCEPT ![c] = Stored!CopyOf(Draft(c), life)]
    /\ Return(c)
    /\ UNCHANGED <<thread, cached, landing, used, life, drops>>

-----------------------------------------------------------------------------
(* delete and save_context_cache, with the lock.                            *)

RemoveCache(c) ==
    /\ At(c, "removeCache")
    /\ cached' = FALSE
    /\ Goto(c, "removeThread")
    /\ UNCHANGED <<thread, writeLock, copy, change, landing, used, life, drops>>

(* A thread file that is not there makes the call ThreadNotFound.           *)
RemoveThread(c) ==
    /\ At(c, "removeThread")
    /\ thread' = Absent
    /\ life' = IF thread = Absent THEN life ELSE life + 1
    /\ Return(c)
    /\ UNCHANGED <<cached, copy, landing, used, drops>>

SaveCache(c) ==
    /\ At(c, "saveCache")
    /\ cached' = TRUE
    /\ Return(c)
    /\ UNCHANGED <<thread, copy, landing, used, life, drops>>

-----------------------------------------------------------------------------
(* Futures dropped, and crashes.  What is under way goes on; reads and      *)
(* writes of temporaries change nothing a later call could see.             *)

Underway(c) ==
    IF At(c, "rename") THEN {[file |-> "thread", value |-> Draft(c)]}
    ELSE IF At(c, "removeThread") THEN {[file |-> "thread", value |-> Absent]}
    ELSE IF At(c, "removeCache") THEN {[file |-> "cache", value |-> FALSE]}
    ELSE IF At(c, "saveCache") THEN {[file |-> "cache", value |-> TRUE]}
    ELSE {}

Drop(c) ==
    /\ ~At(c, "idle") /\ drops < MaxDrops
    /\ pc[c] \in Durable => pc[c] \in DroppedAt
    /\ landing' = landing \cup Underway(c)
    /\ drops' = drops + 1
    /\ Goto(c, "idle")
    /\ change' = [change EXCEPT ![c] = NoChange]
    /\ writeLock' = IF writeLock = c THEN NoClient ELSE writeLock
    /\ copy' = [copy EXCEPT ![c] = Stored!Fresh]
    /\ UNCHANGED <<thread, cached, used, life>>

(* A file operation whose caller is gone takes effect.                      *)
Land(e) ==
    /\ e \in landing
    /\ landing' = landing \ {e}
    /\ IF e.file = "cache"
       THEN cached' = e.value /\ UNCHANGED <<thread, life>>
       ELSE /\ thread' = e.value
            /\ life' = IF e.value = Absent /\ thread # Absent THEN life + 1 ELSE life
            /\ UNCHANGED cached
    /\ UNCHANGED <<writeLock, pc, copy, change, used, drops>>

(* The process dies between two file operations and the store is opened     *)
(* again; the operating system has let go of .store.lock.                   *)
Crash ==
    /\ writeLock' = NoClient
    /\ pc' = [c \in Clients |-> "idle"]
    /\ change' = [c \in Clients |-> NoChange]
    /\ copy' = [c \in Clients |-> Stored!Fresh]
    /\ landing' = {}
    /\ UNCHANGED <<thread, cached, used, life, drops>>

-----------------------------------------------------------------------------
(* What a call does by itself once it has the lock.                         *)
Proceed(c) ==
    \/ Compare(c) \/ Conflict(c) \/ WriteTemporary(c) \/ Rename(c) \/ Committed(c)
    \/ RemoveCache(c) \/ RemoveThread(c) \/ SaveCache(c)

Call(c) == CallCommit(c) \/ CallDelete(c) \/ CallSave(c)

Next ==
    \/ \E c \in Clients : Load(c) \/ Call(c) \/ Lock(c) \/ Proceed(c) \/ Drop(c)
    \/ \E e \in landing : Land(e)
    \/ Crash

Spec == Init /\ [][Next]_vars

(* File operations end, and tokio's mutex is fair.                          *)
FairSpec == Spec /\ \A c \in Clients : WF_vars(Proceed(c)) /\ SF_vars(Lock(c))
-----------------------------------------------------------------------------
(* Properties.                                                              *)

(* The lock protocol: who is in a critical section holds the lock, and what *)
(* a commit was compared with is still stored when it is renamed into       *)
(* place.                                                                   *)
Locked ==
    \A c \in Clients :
        /\ pc[c] \in Holds <=> writeLock = c
        /\ pc[c] \in {"write", "rename"} => thread.rev = copy[c].rev
        /\ At(c, "renamed") => thread = Draft(c)
        /\ change[c] # NoChange <=>
               pc[c] \in {"commitWait", "compare", "write", "rename", "renamed"}

Consistent == TypeOK /\ Locked

(* The register's copies: a commit that is in place but has not returned    *)
(* yet is already its client's copy.                                        *)
CopyWhenDone(c) == IF At(c, "renamed") THEN Stored!CopyOf(Draft(c), life) ELSE copy[c]

Register == INSTANCE ThreadRegister WITH copy <- [c \in Clients |-> CopyWhenDone(c)]

(* The store is a versioned register: its calls, several file operations    *)
(* each, take effect in one step, with crashes between any two of them and  *)
(* callers that give up, but not while the thread file is being replaced or *)
(* removed.                                                                 *)
Implements == Register!RegisterSpec

(* And so keeps every commit (store.rs:125-145).                            *)
KeepsCommits == Register!KeepsCommits

(* "Commits `thread` only when its embedded revision still matches storage" *)
(* (canary-agent-runtime/src/store.rs:25): each thread put in place is the  *)
(* successor of the one it replaces.                                        *)
ReplacesItsOwnRevision ==
    [][thread' # thread /\ thread' # Absent => thread'.rev = thread.rev + 1]_thread

(* "an interrupted delete can leave a live thread without a cache, but      *)
(* never a deleted thread with stale cache data" (store.rs:176-178).        *)
CacheGoesFirst ==
    [][thread # Absent /\ thread' = Absent => ~cached]_<<thread, cached>>

(* Every call returns.                                                      *)
CallsReturn == \A c \in Clients : ~At(c, "idle") ~> At(c, "idle")
=============================================================================
