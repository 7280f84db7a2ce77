------------------------------- MODULE Stores -------------------------------
(***************************************************************************)
(* The zone store (internal/groups) and the guest store (internal/guests)  *)
(* with their files: an operation takes the store's mutex, changes the     *)
(* records in memory, and saves them all by writing a temporary file and   *)
(* renaming it over the target.  Any system call may fail, the process may *)
(* be killed between any two, and the machine may lose power.              *)
(*                                                                         *)
(* A file is its table and whether the contents were synced.  older[s]     *)
(* holds the files that the directory entry on the disk may still name.    *)
(* The temporary file's name, mode and removal are left out: nothing reads *)
(* it but the rename.                                                      *)
(***************************************************************************)
EXTENDS StoreData, Naturals

CONSTANTS
  Callers,     \* handlers that call a store
  Nobody,
  Corrupt,     \* a file that does not parse
  Requested,   \* bounds of the model: the requests made,
  MaxCalls,    \* how many of them,
  MaxCrashes

ASSUME StoresAssumption ==
  /\ Nobody \notin Callers
  /\ Corrupt \notin Table
  /\ Requested \subseteq Request /\ Requested # {}
  /\ MaxCalls \in Nat /\ MaxCrashes \in Nat

VARIABLES
  mem,      \* mem[s]: Store.items
  lock,     \* lock[s]: who holds Store.mu
  file,     \* file[s]: what the path names
  older,    \* older[s]: what it may name after a loss of power
  op,       \* op[c]: the call c is in
  answer,   \* answer[c]: how its last call was answered
  up,       \* the process runs
  calls, crashes

vars == <<mem, lock, file, older, op, answer, up, calls, crashes>>

File == [table : Table \cup {Corrupt}, synced : BOOLEAN]

\* pc: the system call that is next; "called" before the mutex is taken.
Op == [pc : {"idle", "called", "create", "write", "sync", "rename", "dirsync"},
       req : Requested \cup {None},
       old : Table,            \* the records to roll back to
       synced : BOOLEAN]       \* the temporary file has been synced

NoOp == [pc |-> "idle", req |-> None, old |-> Empty, synced |-> FALSE]

\* Types of the stores' state.
StoresTypeOK ==
  /\ mem \in [StoreNames -> Table]
  /\ lock \in [StoreNames -> Callers \cup {Nobody}]
  /\ file \in [StoreNames -> File]
  /\ older \in [StoreNames -> SUBSET File]
  /\ op \in [Callers -> Op]
  /\ answer \in [Callers -> {"none", "ok", "error"}]
  /\ up \in BOOLEAN
  /\ calls \in 0..MaxCalls
  /\ crashes \in 0..MaxCrashes

\* load: a missing file is an empty table.
Missing == [table |-> Empty, synced |-> TRUE]

Init ==
  /\ mem = [s \in StoreNames |-> Empty]
  /\ lock = [s \in StoreNames |-> Nobody]
  /\ file = [s \in StoreNames |-> Missing]
  /\ older = [s \in StoreNames |-> {}]
  /\ op = [c \in Callers |-> NoOp]
  /\ answer = [c \in Callers |-> "none"]
  /\ up = TRUE
  /\ calls = 0
  /\ crashes = 0

st(c) == storeOf(op[c].req)

-----------------------------------------------------------------------------
(* A call of Create, Update, Delete or SetDisabled                         *)

Call(c) ==
  /\ up /\ op[c].pc = "idle"
  /\ calls < MaxCalls /\ calls' = calls + 1
  /\ \E q \in Requested : op' = [op EXCEPT ![c].pc = "called", ![c].req = q]
  /\ answer' = [answer EXCEPT ![c] = "none"]
  /\ UNCHANGED <<mem, lock, file, older, up, crashes>>

Return(c, a) ==
  /\ op' = [op EXCEPT ![c] = NoOp]
  /\ answer' = [answer EXCEPT ![c] = a]
  /\ UNCHANGED <<file, up, calls, crashes>>

\* Normalize, the guest's length checks and the hashing come before the mutex.
\* (A random source that fails, under the mutex, changes no more.)
Invalid(c) ==
  /\ op[c].pc = "called"
  /\ Return(c, "error")
  /\ UNCHANGED <<mem, lock, older>>

\* Under the mutex: there is no such record, or the key is taken.  (A create also
\* ends here when the model's few IDs are used up.)
Refuse(c) ==
  /\ op[c].pc = "called" /\ lock[st(c)] = Nobody
  /\ Results(mem[st(c)], op[c].req) = {}
  /\ Return(c, "error")
  /\ UNCHANGED <<mem, lock, older>>

\* Fault: the name is checked before the mutex is taken.
Change_Unlocked(c) ==
  /\ op[c].pc = "called"
  /\ \E t \in Results(mem[st(c)], op[c].req) : mem' = [mem EXCEPT ![st(c)] = t]
  /\ lock' = [lock EXCEPT ![st(c)] = c]
  /\ op' = [op EXCEPT ![c].pc = "create", ![c].old = mem[st(c)]]
  /\ UNCHANGED <<file, older, answer, up, calls, crashes>>

\* Under the mutex: the records are changed in memory, then persisted.
Change(c) ==
  /\ op[c].pc = "called" /\ lock[st(c)] = Nobody
  /\ \E t \in Results(mem[st(c)], op[c].req) : mem' = [mem EXCEPT ![st(c)] = t]
  /\ lock' = [lock EXCEPT ![st(c)] = c]
  /\ op' = [op EXCEPT ![c].pc = "create", ![c].old = mem[st(c)]]
  /\ UNCHANGED <<file, older, answer, up, calls, crashes>>

-----------------------------------------------------------------------------
(* persistLocked                                                           *)

\* MkdirAll, CreateTemp, Chmod; Write; Sync, Close.
WriteTemp(c) ==
  /\ \/ op[c].pc = "create" /\ op' = [op EXCEPT ![c].pc = "write"]
     \/ op[c].pc = "write" /\ op' = [op EXCEPT ![c].pc = "sync"]
     \/ op[c].pc = "sync" /\ op' = [op EXCEPT ![c].pc = "rename", ![c].synced = TRUE]
  /\ UNCHANGED <<mem, lock, file, older, answer, up, calls, crashes>>

\* Fault: the temporary file is renamed without having been synced.
Rename_Unsynced(c) ==
  /\ op[c].pc = "sync"
  /\ file' = [file EXCEPT ![st(c)] = [table |-> mem[st(c)], synced |-> op[c].synced]]
  /\ older' = [older EXCEPT ![st(c)] = older[st(c)] \cup {file[st(c)]}]
  /\ op' = [op EXCEPT ![c].pc = "dirsync"]
  /\ UNCHANGED <<mem, lock, answer, up, calls, crashes>>

\* The new table replaces the old one in one step.
Rename(c) ==
  /\ op[c].pc = "rename"
  /\ file' = [file EXCEPT ![st(c)] = [table |-> mem[st(c)], synced |-> op[c].synced]]
  /\ older' = [older EXCEPT ![st(c)] = older[st(c)] \cup {file[st(c)]}]
  /\ op' = [op EXCEPT ![c].pc = "dirsync"]
  /\ UNCHANGED <<mem, lock, answer, up, calls, crashes>>

\* Fault: the change stays in memory when the save has failed.
RollBack_None(c) == mem

\* The records as they were before the change.
RollBack(c) == [mem EXCEPT ![st(c)] = op[c].old]

\* One of the system calls fails: the memory is rolled back, the caller gets
\* the error.
SaveFails(c) ==
  /\ op[c].pc \in {"create", "write", "sync", "rename"}
  /\ mem' = RollBack(c)
  /\ lock' = [lock EXCEPT ![st(c)] = Nobody]
  /\ Return(c, "error")
  /\ UNCHANGED older

\* The directory is synced, or that fails and is ignored.
DirSync(c) ==
  /\ op[c].pc = "dirsync"
  /\ older' \in {older, [older EXCEPT ![st(c)] = {}]}
  /\ lock' = [lock EXCEPT ![st(c)] = Nobody]
  /\ Return(c, "ok")
  /\ UNCHANGED mem

-----------------------------------------------------------------------------
(* The process and the machine                                             *)

\* The process is killed or, with power, the machine goes down: then the path
\* may name an older file again, and contents that were not synced are lost.
Crash(power) ==
  /\ up /\ crashes < MaxCrashes
  /\ up' = FALSE /\ crashes' = crashes + 1
  /\ op' = [c \in Callers |-> NoOp]
  /\ answer' = [c \in Callers |-> IF op[c].pc = "idle" THEN answer[c] ELSE "none"]
  /\ lock' = [s \in StoreNames |-> Nobody]
  /\ IF power
     THEN /\ \E f \in [StoreNames -> UNION {older[s] : s \in StoreNames}
                                       \cup {file[s] : s \in StoreNames}] :
               /\ \A s \in StoreNames : f[s] \in older[s] \cup {file[s]}
               /\ file' = [s \in StoreNames |->
                             IF f[s].synced THEN f[s] ELSE [table |-> Corrupt, synced |-> TRUE]]
          /\ older' = [s \in StoreNames |-> {}]
     ELSE UNCHANGED <<file, older>>
  /\ UNCHANGED <<mem, calls>>

\* New: load reads both files; one that does not parse stops the start-up.
Restart ==
  /\ ~up
  /\ \A s \in StoreNames : file[s].table # Corrupt
  /\ up' = TRUE
  /\ mem' = [s \in StoreNames |-> file[s].table]
  /\ UNCHANGED <<lock, file, older, op, answer, calls, crashes>>

Next ==
  \/ \E c \in Callers :
       \/ Call(c) \/ Invalid(c) \/ Refuse(c) \/ Change(c)
       \/ WriteTemp(c) \/ Rename(c) \/ SaveFails(c) \/ DirSync(c)
  \/ \E power \in BOOLEAN : Crash(power)
  \/ Restart

Spec == Init /\ [][Next]_vars

-----------------------------------------------------------------------------
(* Properties                                                              *)

\* The comment on Create: "memory and disk never diverge".  Whenever the mutex
\* is free, what List and Get answer is what a restart would load.
MemoryMatchesFile ==
  up => \A s \in StoreNames : lock[s] = Nobody => mem[s] = file[s].table

\* The files can be loaded whenever the process or the machine stops.
NeverCorrupt == \A s \in StoreNames : file[s].table # Corrupt

\* No two zones have one name and no two guests one label, in memory and in
\* what a restart would load, whatever was rolled back.
UniqueKeys ==
  \A s \in StoreNames : \A t \in {mem[s], file[s].table} \cap Table : \A i, j \in Ids :
    t[i] # None /\ t[j] # None /\ t[i].key = t[j].key => i = j

\* The stores as one sees them from outside: the rename is the moment an
\* operation takes effect.
Atomic == INSTANCE AtomicStores WITH
  table <- [s \in StoreNames |-> file[s].table],
  back <- [s \in StoreNames |-> {f.table : f \in older[s]}],
  req <- [c \in Callers |-> op[c].req],
  call <- [c \in Callers |-> IF op[c].pc = "idle" THEN "idle"
                             ELSE IF op[c].pc = "dirsync" THEN "taken" ELSE "called"],
  answer <- answer

\* Every operation of the two stores is atomic: it takes effect at one moment
\* between its call and its answer or, with an error, never.
AtomicSpec == Atomic!AbsSpec
=============================================================================
