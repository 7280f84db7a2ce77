---------------------------- MODULE Stores_proofs ----------------------------
(***************************************************************************)
(* Proofs about the two stores, for any number of callers, records,        *)
(* requests and crashes: the memory and the files agree, no file is ever   *)
(* corrupt, the keys stay unique, and every operation is atomic (module    *)
(* Stores implements module AtomicStores).                                 *)
(***************************************************************************)
EXTENDS Stores, TLAPS

-----------------------------------------------------------------------------
(* The inductive invariant                                                 *)

\* c holds the mutex of its store: before the rename, or after it.
Saving(c) == op[c].pc \in {"create", "write", "sync", "rename"}
Holding(c) == Saving(c) \/ op[c].pc = "dirsync"

\* A caller without a call has none of its data.
IdleInv == \A c \in Callers :
  IF op[c].pc = "idle" THEN op[c] = NoOp ELSE op[c].req \in Requested

\* The mutex is held by exactly the caller that is in the critical section.
LockInv ==
  /\ \A c \in Callers : Holding(c) => lock[st(c)] = c
  /\ \A s \in StoreNames : lock[s] # Nobody => Holding(lock[s]) /\ st(lock[s]) = s
  /\ ~up => \A c \in Callers : op[c].pc = "idle"

UniqueIn(t) == \A i, j \in Ids : t[i] # None /\ t[j] # None /\ t[i].key = t[j].key => i = j

\* Whatever a path names, or may name again, is complete and on the disk.
FileInv ==
  \A s \in StoreNames : \A f \in older[s] \cup {file[s]} :
    f.synced /\ f.table \in Table /\ UniqueIn(f.table)

\* How the memory and the file are related at each point of a save.
SaveInv ==
  /\ \A s \in StoreNames : up /\ lock[s] = Nobody => mem[s] = file[s].table
  /\ \A c \in Callers : Saving(c) =>
       /\ op[c].old = file[st(c)].table
       /\ mem[st(c)] \in Results(file[st(c)].table, op[c].req)
  /\ \A c \in Callers : op[c].pc = "dirsync" => mem[st(c)] = file[st(c)].table
  /\ \A c \in Callers : op[c].pc = "rename" => op[c].synced
  /\ \A s \in StoreNames : UniqueIn(mem[s])

StoresInv == StoresTypeOK /\ IdleInv /\ LockInv /\ FileInv /\ SaveInv

-----------------------------------------------------------------------------
(* What the operations make of a table                                     *)

LEMMA EmptyTable == Empty \in Table /\ UniqueIn(Empty)
  BY DEF Empty, Table, UniqueIn

LEMMA StoreOfRequest ==
  ASSUME NEW q \in Request PROVE storeOf(q) \in StoreNames
  BY DEF storeOf, StoreNames

\* Storing an item whose key nobody else has.
LEMMA PutItem ==
  ASSUME NEW t \in Table, UniqueIn(t), NEW i \in Ids, NEW it \in Item,
         ~nameTaken(t, it.key, i)
  PROVE  LET u == [t EXCEPT ![i] = it] IN u \in Table /\ UniqueIn(u)
<1> DEFINE u == [t EXCEPT ![i] = it]
<1>1. u \in Table
  BY DEF Table
<1>2. ASSUME NEW j \in Ids, NEW k \in Ids, u[j] # None, u[k] # None, u[j].key = u[k].key
      PROVE  j = k
  BY <1>2 DEF Table, UniqueIn, nameTaken
<1> QED
  BY <1>1, <1>2 DEF UniqueIn

LEMMA RemoveItem ==
  ASSUME NEW t \in Table, UniqueIn(t), NEW i \in Ids
  PROVE  LET u == [t EXCEPT ![i] = None] IN u \in Table /\ UniqueIn(u)
  BY DEF Table, UniqueIn

LEMMA ResultsGood ==
  ASSUME NEW t \in Table, UniqueIn(t), NEW q \in Request, NEW u \in Results(t, q)
  PROVE  u \in Table /\ UniqueIn(u)
<1>1. CASE q.kind = "createZone"
  <2>1. q \in ZoneRequest
    BY <1>1 DEF Request, GuestRequest
  <2>2. PICK i \in Ids : /\ ~nameTaken(t, q.key, i)
                         /\ u = [t EXCEPT ![i] = [key |-> q.key, data |-> q.data]]
    BY <1>1 DEF Results, createZone, freshID
  <2>3. [key |-> q.key, data |-> q.data] \in Item
    BY <2>1 DEF ZoneRequest, Item
  <2> QED
    BY <2>2, <2>3, PutItem
<1>2. CASE q.kind = "updateZone"
  <2>1. q \in ZoneRequest
    BY <1>2 DEF Request, GuestRequest
  <2>2. /\ q.id \in Ids
        /\ ~nameTaken(t, q.key, q.id)
        /\ u = [t EXCEPT ![q.id] = [key |-> q.key, data |-> q.data]]
    BY <1>2, <2>1 DEF Results, updateZone, ZoneRequest
  <2>3. [key |-> q.key, data |-> q.data] \in Item
    BY <2>1 DEF ZoneRequest, Item
  <2> QED
    BY <2>2, <2>3, PutItem
<1>3. CASE q.kind \in {"deleteZone", "deleteGuest"}
  <2>1. q.id \in Ids /\ u = [t EXCEPT ![q.id] = None]
    BY <1>3 DEF Results, deleteZone, deleteGuest, Request, ZoneRequest, GuestRequest
  <2> QED
    BY <2>1, RemoveItem
<1>4. CASE q.kind = "createGuest"
  <2>1. q \in GuestRequest
    BY <1>4 DEF Request, ZoneRequest
  <2>2. PICK i \in Ids : /\ ~labelTaken(t, q.key)
                         /\ u = [t EXCEPT ![i] = [key |-> q.key, data |-> "enabled"]]
    BY <1>4 DEF Results, createGuest, freshID
  <2>3. ~nameTaken(t, q.key, i)
    BY <2>2 DEF labelTaken, nameTaken
  <2>4. [key |-> q.key, data |-> "enabled"] \in Item
    BY <2>1 DEF GuestRequest, Item, Status
  <2> QED
    BY <2>2, <2>3, <2>4, PutItem
<1>5. CASE q.kind = "setDisabled"
  <2>1. q \in GuestRequest
    BY <1>5 DEF Request, ZoneRequest
  <2>2. q.id \in Ids /\ t[q.id] # None /\ u = [t EXCEPT ![q.id].data = q.data]
    BY <1>5, <2>1 DEF Results, setDisabled, GuestRequest
  <2> DEFINE it == [t[q.id] EXCEPT !.data = q.data]
  <2>3. t[q.id] \in Item
    BY <2>2 DEF Table
  <2>4. it \in Item /\ it.key = t[q.id].key
    BY <2>1, <2>3 DEF Item, GuestRequest
  <2>5. u = [t EXCEPT ![q.id] = it]
    BY <2>2
  <2>6. ~nameTaken(t, it.key, q.id)
    BY <2>2, <2>4 DEF nameTaken, UniqueIn
  <2>7. ASSUME NEW x \in Item, ~nameTaken(t, x.key, q.id)
        PROVE  [t EXCEPT ![q.id] = x] \in Table /\ UniqueIn([t EXCEPT ![q.id] = x])
    BY <2>2, <2>7, PutItem
  <2> QED
    BY <2>4, <2>5, <2>6, <2>7
<1> QED
  BY <1>1, <1>2, <1>3, <1>4, <1>5 DEF Request, ZoneRequest, GuestRequest

-----------------------------------------------------------------------------
(* The invariant is inductive                                              *)

LEMMA StoresInitInv == Init => StoresInv
<1> SUFFICES ASSUME Init PROVE StoresInv
  OBVIOUS
<1> USE EmptyTable, StoreDataAssumption, StoresAssumption
<1>1. StoresTypeOK
  BY DEF Init, StoresTypeOK, Missing, File, Op, NoOp
<1>2. IdleInv /\ LockInv
  BY DEF Init, IdleInv, LockInv, Holding, Saving, NoOp
<1>3. FileInv
  BY DEF Init, FileInv, Missing
<1>4. SaveInv
  BY DEF Init, SaveInv, Saving, NoOp, Missing
<1> QED
  BY <1>1, <1>2, <1>3, <1>4 DEF StoresInv

LEMMA StoreOfCall ==
  ASSUME StoresInv, NEW c \in Callers, op[c].pc # "idle"
  PROVE  op[c].req \in Request /\ st(c) \in StoreNames
  BY StoresAssumption, StoreOfRequest DEF StoresInv, IdleInv, st

LEMMA CallInv == ASSUME StoresInv, NEW c \in Callers, Call(c) PROVE StoresInv'
<1> USE DEF StoresInv, Call
<1>1. PICK q \in Requested : op' = [op EXCEPT ![c].pc = "called", ![c].req = q]
  OBVIOUS
<1>2. /\ op'[c].pc = "called" /\ op'[c].req = q /\ \A d \in Callers \ {c} : op'[d] = op[d]
      /\ op' \in [Callers -> Op]
  <2> DEFINE o == [op[c] EXCEPT !.pc = "called", !.req = q]
  <2>1. o \in Op /\ o.pc = "called" /\ o.req = q
    BY DEF StoresTypeOK, Op
  <2>2. op' = [op EXCEPT ![c] = o]
    BY <1>1 DEF StoresTypeOK
  <2> HIDE DEF o
  <2> QED
    BY <2>1, <2>2 DEF StoresTypeOK
<1>3. StoresTypeOK'
  BY <1>2, StoresAssumption DEF StoresTypeOK
<1>4. IdleInv'
  BY <1>2 DEF IdleInv
<1>5. LockInv'
  BY <1>2, StoresAssumption DEF LockInv, Holding, Saving, st, StoresTypeOK
<1>6. FileInv'
  BY DEF FileInv
<1>7. SaveInv'
  BY <1>2 DEF SaveInv, Saving, st
<1> QED
  BY <1>3, <1>4, <1>5, <1>6, <1>7

LEMMA ReturnOp ==
  ASSUME StoresInv, NEW c \in Callers, NEW a \in {"ok", "error"}, Return(c, a)
  PROVE  /\ op'[c] = NoOp /\ \A d \in Callers \ {c} : op'[d] = op[d]
         /\ op' \in [Callers -> Op] /\ answer' \in [Callers -> {"none", "ok", "error"}]
         /\ file' = file /\ up' = up /\ calls' = calls /\ crashes' = crashes
         /\ IdleInv'
  BY EmptyTable DEF StoresInv, Return, StoresTypeOK, NoOp, Op, IdleInv

\* Invalid and Refuse: an error without the mutex.
LEMMA RefusedInv ==
  ASSUME StoresInv, NEW c \in Callers, op[c].pc = "called", Return(c, "error"),
         UNCHANGED <<mem, lock, older>>
  PROVE  StoresInv'
<1> USE ReturnOp DEF StoresInv
<1>1. StoresTypeOK'
  BY DEF StoresTypeOK
<1>2. LockInv'
  BY StoresAssumption DEF LockInv, Holding, Saving, st, NoOp, StoresTypeOK
<1>3. FileInv'
  BY DEF FileInv
<1>4. SaveInv'
  BY DEF SaveInv, Saving, st, NoOp
<1> QED
  BY <1>1, <1>2, <1>3, <1>4

LEMMA ChangeInv == ASSUME StoresInv, NEW c \in Callers, Change(c) PROVE StoresInv'
<1> USE DEF StoresInv, Change
<1> DEFINE s == st(c)
<1>0. s \in StoreNames /\ op[c].req \in Request
  BY StoreOfCall
<1>1. PICK t \in Results(mem[s], op[c].req) : mem' = [mem EXCEPT ![s] = t]
  OBVIOUS
<1>2. mem[s] \in Table /\ UniqueIn(mem[s]) /\ up /\ mem[s] = file[s].table
  BY <1>0 DEF StoresTypeOK, SaveInv, LockInv
<1>3. t \in Table /\ UniqueIn(t)
  BY <1>0, <1>1, <1>2, ResultsGood
<1>4. /\ op'[c].pc = "create" /\ op'[c].req = op[c].req /\ op'[c].old = mem[s]
      /\ \A d \in Callers \ {c} : op'[d] = op[d]
      /\ op' \in [Callers -> Op]
  <2> DEFINE o == [op[c] EXCEPT !.pc = "create", !.old = mem[s]]
  <2>1. o \in Op /\ o.pc = "create" /\ o.req = op[c].req /\ o.old = mem[s]
    BY <1>2 DEF StoresTypeOK, Op
  <2>2. op' = [op EXCEPT ![c] = o]
    BY DEF StoresTypeOK
  <2> HIDE DEF o
  <2> QED
    BY <2>1, <2>2 DEF StoresTypeOK
<1>5. \A d \in Callers : Holding(d) => st(d) # s
  <2>1. lock[s] = Nobody
    OBVIOUS
  <2> QED
    BY <2>1, StoresAssumption DEF LockInv
<1>6. StoresTypeOK'
  BY <1>0, <1>1, <1>3, <1>4 DEF StoresTypeOK
<1>7. IdleInv'
  BY <1>4 DEF IdleInv
<1>8. LockInv'
  BY <1>0, <1>4, <1>5, StoresAssumption DEF LockInv, Holding, Saving, st, StoresTypeOK
<1>9. FileInv'
  BY DEF FileInv
<1>10. SaveInv'
  BY <1>0, <1>1, <1>2, <1>3, <1>4, <1>5, StoresAssumption
  DEF SaveInv, Holding, Saving, st, StoresTypeOK
<1> QED
  BY <1>6, <1>7, <1>8, <1>9, <1>10

LEMMA WriteTempInv == ASSUME StoresInv, NEW c \in Callers, WriteTemp(c) PROVE StoresInv'
<1> USE DEF StoresInv
<1>1. /\ Saving(c) /\ op'[c].pc \in {"write", "sync", "rename"}
      /\ op'[c].req = op[c].req /\ op'[c].old = op[c].old
      /\ op'[c].pc = "rename" => op'[c].synced
      /\ \A d \in Callers \ {c} : op'[d] = op[d]
      /\ op' \in [Callers -> Op]
  BY DEF WriteTemp, StoresTypeOK, Op, Saving
<1>2. UNCHANGED <<mem, lock, file, older, answer, up, calls, crashes>>
  BY DEF WriteTemp
<1>3. StoresTypeOK' /\ FileInv'
  BY <1>1, <1>2 DEF StoresTypeOK, FileInv
<1>4. IdleInv'
  BY <1>1 DEF IdleInv, Saving
<1>5. LockInv'
  BY <1>1, <1>2 DEF LockInv, Holding, Saving, st, StoresTypeOK
<1>6. SaveInv'
  BY <1>1, <1>2 DEF SaveInv, Saving, st
<1> QED
  BY <1>3, <1>4, <1>5, <1>6

\* Two callers in the critical section are in different stores.
LEMMA Exclusive ==
  ASSUME StoresInv, NEW c \in Callers, Holding(c), NEW d \in Callers \ {c}, Holding(d)
  PROVE  st(d) # st(c)
  BY DEF StoresInv, LockInv

LEMMA RenameInv == ASSUME StoresInv, NEW c \in Callers, Rename(c) PROVE StoresInv'
<1> USE DEF StoresInv
<1> DEFINE s == st(c)
<1> DEFINE f == [table |-> mem[s], synced |-> op[c].synced]
<1>0. s \in StoreNames /\ op[c].req \in Request /\ Holding(c)
  BY StoreOfCall DEF Rename, Holding, Saving
<1>1. f \in File /\ f.table = mem[s] /\ f.synced /\ UniqueIn(mem[s]) /\ mem[s] \in Table
  BY <1>0 DEF StoresTypeOK, File, Op, Rename, SaveInv
<1>2. /\ op'[c].pc = "dirsync" /\ op'[c].req = op[c].req
      /\ \A d \in Callers \ {c} : op'[d] = op[d]
      /\ op' \in [Callers -> Op]
  BY DEF Rename, StoresTypeOK, Op
<1>3. /\ file' = [file EXCEPT ![s] = f] /\ older' = [older EXCEPT ![s] = older[s] \cup {file[s]}]
      /\ UNCHANGED <<mem, lock, answer, up, calls, crashes>>
  BY DEF Rename
<1> HIDE DEF f
<1>4. StoresTypeOK'
  BY <1>0, <1>1, <1>2, <1>3 DEF StoresTypeOK
<1>5. IdleInv'
  BY <1>2 DEF IdleInv, Rename
<1>6. LockInv'
  BY <1>0, <1>2, <1>3 DEF LockInv, Holding, Saving, st, StoresTypeOK
<1>7. FileInv'
  BY <1>0, <1>1, <1>3 DEF FileInv, StoresTypeOK
<1>8. SaveInv'
  <2>1. lock[s] # Nobody
    BY <1>0, StoresAssumption DEF LockInv
  <2>2. \A d \in Callers \ {c} : Holding(d) => st(d) # s
    BY <1>0, Exclusive
  <2> QED
    BY <1>0, <1>1, <1>2, <1>3, <2>1, <2>2 DEF SaveInv, Holding, Saving, st, StoresTypeOK
<1> QED
  BY <1>4, <1>5, <1>6, <1>7, <1>8

\* SaveFails and DirSync: the mutex is released with the memory as the file is.
LEMMA ReleasedInv ==
  ASSUME StoresInv, NEW c \in Callers, Holding(c), NEW a \in {"ok", "error"}, Return(c, a),
         lock' = [lock EXCEPT ![st(c)] = Nobody],
         mem' = [mem EXCEPT ![st(c)] = file[st(c)].table],
         older' \in {older, [older EXCEPT ![st(c)] = {}]}
  PROVE  StoresInv'
<1> USE ReturnOp DEF StoresInv
<1> DEFINE s == st(c)
<1>0. s \in StoreNames
  BY StoreOfCall DEF Holding, Saving
<1>1. file[s].table \in Table /\ UniqueIn(file[s].table)
  BY <1>0 DEF FileInv
<1>2. \A d \in Callers \ {c} : Holding(d) => st(d) # s
  BY Exclusive
<1>3. StoresTypeOK'
  BY <1>0, <1>1 DEF StoresTypeOK
<1>4. LockInv'
  BY <1>0, <1>2, StoresAssumption DEF LockInv, Holding, Saving, st, NoOp, StoresTypeOK
<1>5. FileInv'
  BY <1>0 DEF FileInv, StoresTypeOK
<1>6. SaveInv'
  BY <1>0, <1>1, <1>2 DEF SaveInv, Holding, Saving, st, NoOp, StoresTypeOK
<1> QED
  BY <1>3, <1>4, <1>5, <1>6

LEMMA SaveFailsInv == ASSUME StoresInv, NEW c \in Callers, SaveFails(c) PROVE StoresInv'
<1>1. Saving(c) /\ op[c].old = file[st(c)].table
  BY DEF SaveFails, Saving, StoresInv, SaveInv
<1> QED
  BY <1>1, ReleasedInv DEF SaveFails, RollBack, Holding

LEMMA DirSyncInv == ASSUME StoresInv, NEW c \in Callers, DirSync(c) PROVE StoresInv'
<1>1. st(c) \in StoreNames /\ mem[st(c)] = file[st(c)].table
  BY StoreOfCall DEF DirSync, StoresInv, SaveInv
<1>2. mem' = [mem EXCEPT ![st(c)] = file[st(c)].table]
  BY <1>1 DEF DirSync, StoresInv, StoresTypeOK
<1> QED
  BY <1>2, ReleasedInv DEF DirSync, Holding

\* After a loss of power each path names a file it named before.
LEMMA PowerLoss ==
  ASSUME StoresInv, Crash(TRUE)
  PROVE  /\ file' \in [StoreNames -> File]
         /\ \A s \in StoreNames : file'[s] \in older[s] \cup {file[s]}
         /\ older' = [s \in StoreNames |-> {}]
<1>1. PICK f \in [StoreNames -> UNION {older[s] : s \in StoreNames}
                                   \cup {file[s] : s \in StoreNames}] :
        /\ \A s \in StoreNames : f[s] \in older[s] \cup {file[s]}
        /\ file' = [s \in StoreNames |->
                      IF f[s].synced THEN f[s] ELSE [table |-> Corrupt, synced |-> TRUE]]
  BY DEF Crash
<1>2. \A s \in StoreNames : f[s].synced
  BY <1>1 DEF StoresInv, FileInv
<1>3. \A s \in StoreNames : file'[s] = f[s]
  BY <1>1, <1>2
<1>4. \A s \in StoreNames : f[s] \in File
  BY <1>1 DEF StoresInv, StoresTypeOK
<1> QED
  BY <1>1, <1>2, <1>3, <1>4 DEF Crash

LEMMA CrashInv == ASSUME StoresInv, NEW power \in BOOLEAN, Crash(power) PROVE StoresInv'
<1> USE DEF StoresInv
<1>1. /\ \A c \in Callers : op'[c] = NoOp
      /\ op' \in [Callers -> Op]
      /\ lock' = [s \in StoreNames |-> Nobody]
      /\ ~up' /\ up' \in BOOLEAN /\ mem' = mem
      /\ answer' \in [Callers -> {"none", "ok", "error"}]
      /\ calls' \in 0..MaxCalls /\ crashes' \in 0..MaxCrashes
  <2>1. NoOp \in Op
    BY EmptyTable DEF NoOp, Op
  <2>2. op' = [c \in Callers |-> NoOp]
    BY DEF Crash
  <2>3. answer' \in [Callers -> {"none", "ok", "error"}]
    BY DEF Crash, StoresTypeOK
  <2>4. calls' \in 0..MaxCalls /\ crashes' \in 0..MaxCrashes
    BY StoresAssumption DEF Crash, StoresTypeOK
  <2> QED
    BY <2>1, <2>2, <2>3, <2>4 DEF Crash
<1>2. /\ file' \in [StoreNames -> File] /\ older' \in [StoreNames -> SUBSET File]
      /\ \A s \in StoreNames : older'[s] \cup {file'[s]} \subseteq older[s] \cup {file[s]}
  <2>1. CASE power
    BY <2>1, PowerLoss
  <2>2. CASE ~power
    BY <2>2 DEF Crash, StoresTypeOK
  <2> QED
    BY <2>1, <2>2
<1>3. StoresTypeOK'
  BY <1>1, <1>2 DEF StoresTypeOK
<1>4. IdleInv' /\ LockInv'
  BY <1>1 DEF IdleInv, LockInv, Holding, Saving, NoOp
<1>5. FileInv'
  BY <1>2 DEF FileInv
<1>6. SaveInv'
  BY <1>1 DEF SaveInv, Saving, NoOp
<1> QED
  BY <1>3, <1>4, <1>5, <1>6

LEMMA RestartInv == ASSUME StoresInv, Restart PROVE StoresInv'
<1> USE DEF StoresInv, Restart
<1>1. \A s \in StoreNames : mem'[s] = file[s].table /\ mem'[s] \in Table /\ UniqueIn(mem'[s])
  BY DEF FileInv
<1>2. StoresTypeOK'
  BY <1>1 DEF StoresTypeOK
<1>3. IdleInv' /\ FileInv'
  BY DEF IdleInv, FileInv
<1>4. LockInv'
  BY DEF LockInv, Holding, Saving, st
<1>5. SaveInv'
  <2>1. \A c \in Callers : op'[c].pc = "idle"
    BY DEF LockInv
  <2> QED
    BY <1>1, <2>1 DEF SaveInv, Saving
<1> QED
  BY <1>2, <1>3, <1>4, <1>5

LEMMA StoresNextInv == StoresInv /\ [Next]_vars => StoresInv'
<1> SUFFICES ASSUME StoresInv, [Next]_vars PROVE StoresInv'
  OBVIOUS
<1>1. ASSUME NEW c \in Callers, Call(c) PROVE StoresInv'
  BY <1>1, CallInv
<1>2. ASSUME NEW c \in Callers, Invalid(c) \/ Refuse(c) PROVE StoresInv'
  BY <1>2, RefusedInv DEF Invalid, Refuse
<1>3. ASSUME NEW c \in Callers, Change(c) PROVE StoresInv'
  BY <1>3, ChangeInv
<1>4. ASSUME NEW c \in Callers, WriteTemp(c) PROVE StoresInv'
  BY <1>4, WriteTempInv
<1>5. ASSUME NEW c \in Callers, Rename(c) PROVE StoresInv'
  BY <1>5, RenameInv
<1>6. ASSUME NEW c \in Callers, SaveFails(c) PROVE StoresInv'
  BY <1>6, SaveFailsInv
<1>7. ASSUME NEW c \in Callers, DirSync(c) PROVE StoresInv'
  BY <1>7, DirSyncInv
<1>8. ASSUME NEW power \in BOOLEAN, Crash(power) PROVE StoresInv'
  BY <1>8, CrashInv
<1>9. CASE Restart
  BY <1>9, RestartInv
<1>10. CASE UNCHANGED vars
  BY <1>10 DEF vars, StoresInv, StoresTypeOK, IdleInv, LockInv, FileInv, SaveInv, Holding, Saving, st
<1> QED
  BY <1>1, <1>2, <1>3, <1>4, <1>5, <1>6, <1>7, <1>8, <1>9, <1>10 DEF Next

-----------------------------------------------------------------------------
(* The theorems                                                            *)

LEMMA StoresInvariant == Spec => []StoresInv
  BY StoresInitInv, StoresNextInv, PTL DEF Spec

\* The state of the stores, of their files and of the calls keeps its types.
THEOREM StoresTypeCorrect == Spec => []StoresTypeOK
<1>1. StoresInv => StoresTypeOK
  BY DEF StoresInv
<1> QED
  BY <1>1, StoresInvariant, PTL

\* Whichever saves fail and whenever the process dies, the records in memory are
\* those of the file as soon as the mutex is free.
THEOREM MemoryAgreesWithFile == Spec => []MemoryMatchesFile
<1>1. StoresInv => MemoryMatchesFile
  BY DEF StoresInv, SaveInv, MemoryMatchesFile
<1> QED
  BY <1>1, StoresInvariant, PTL

\* A file can always be loaded, also after a loss of power.
THEOREM FilesStayWhole == Spec => []NeverCorrupt
<1>1. StoresInv => NeverCorrupt
  BY StoresAssumption DEF StoresInv, FileInv, NeverCorrupt
<1> QED
  BY <1>1, StoresInvariant, PTL

\* Names and labels stay unique in memory and on the disk.
THEOREM KeysStayUnique == Spec => []UniqueKeys
<1>1. StoresInv => UniqueKeys
  BY DEF StoresInv, FileInv, SaveInv, UniqueKeys, UniqueIn
<1> QED
  BY <1>1, StoresInvariant, PTL

-----------------------------------------------------------------------------
(* The stores implement AtomicStores                                       *)

LEMMA SameOperations ==
  /\ Atomic!Request = Request
  /\ Atomic!Empty = Empty
  /\ \A t, q : Atomic!Results(t, q) = Results(t, q)
<1>1. Atomic!Request = Request
  BY DEF Atomic!Request, Request, Atomic!ZoneRequest, ZoneRequest, Atomic!GuestRequest, GuestRequest,
         Atomic!Status, Status
<1>2. Atomic!Empty = Empty
  BY DEF Atomic!Empty, Empty
<1>3. ASSUME NEW t, NEW q PROVE Atomic!Results(t, q) = Results(t, q)
  BY DEF Atomic!Results, Results, Atomic!createZone, createZone, Atomic!updateZone, updateZone,
         Atomic!deleteZone, deleteZone, Atomic!createGuest, createGuest, Atomic!setDisabled,
         setDisabled, Atomic!deleteGuest, deleteGuest, Atomic!nameTaken, nameTaken,
         Atomic!labelTaken, labelTaken, Atomic!freshID, freshID
<1> QED
  BY <1>1, <1>2, <1>3

\* The mapping: a call that has left its critical section's rename behind is taken.
Tables == [s \in StoreNames |-> file[s].table]
Backs == [s \in StoreNames |-> {f.table : f \in older[s]}]
Asked == [c \in Callers |-> op[c].req]
Stages == [c \in Callers |-> IF op[c].pc = "idle" THEN "idle"
                             ELSE IF op[c].pc = "dirsync" THEN "taken" ELSE "called"]

LEMMA AtomicInit == Init => Atomic!AbsInit
  BY SameOperations DEF Init, Atomic!AbsInit, Atomic!StoreNames, StoreNames, Missing, NoOp

LEMMA AtomicCall == ASSUME StoresInv, NEW c \in Callers, Call(c) PROVE Atomic!AbsCall(c)
<1>1. PICK q \in Requested : op' = [op EXCEPT ![c].pc = "called", ![c].req = q]
  BY DEF Call
<1>2. op'[c].pc = "called" /\ op'[c].req = q /\ \A d \in Callers \ {c} : op'[d] = op[d]
  BY <1>1 DEF StoresInv, StoresTypeOK, Op
<1>3. q \in Atomic!Request
  BY SameOperations, StoresAssumption
<1> QED
  BY <1>2, <1>3 DEF Call, Atomic!AbsCall

LEMMA AtomicError ==
  ASSUME StoresInv, NEW c \in Callers, op[c].pc # "idle", op[c].pc # "dirsync",
         Return(c, "error"), older' = older
  PROVE  Atomic!AbsError(c)
  BY ReturnOp DEF Return, NoOp, Atomic!AbsError

LEMMA AtomicRename == ASSUME StoresInv, NEW c \in Callers, Rename(c) PROVE Atomic!AbsTake(c)
<1> DEFINE s == st(c)
<1>0. s \in StoreNames /\ s = Atomic!storeOf(op[c].req)
  BY StoreOfCall DEF Rename, st, storeOf, Atomic!storeOf
<1>1. mem[s] \in Atomic!Results(file[s].table, op[c].req)
  BY SameOperations DEF StoresInv, SaveInv, Rename, Saving
<1>2. /\ op'[c].pc = "dirsync" /\ op'[c].req = op[c].req
      /\ \A d \in Callers \ {c} : op'[d] = op[d]
  BY DEF Rename, StoresInv, StoresTypeOK, Op
<1>3. Tables[s] = file[s].table /\ Tables' = [Tables EXCEPT ![s] = mem[s]]
  BY <1>0 DEF Rename, StoresInv, StoresTypeOK, Tables
<1>4. Backs' = [Backs EXCEPT ![s] = Backs[s] \cup {Tables[s]}]
  <2>1. older'[s] = older[s] \cup {file[s]} /\ \A x \in StoreNames \ {s} : older'[x] = older[x]
    BY <1>0 DEF Rename, StoresInv, StoresTypeOK
  <2>2. {f.table : f \in older[s] \cup {file[s]}} = {f.table : f \in older[s]} \cup {file[s].table}
    OBVIOUS
  <2> QED
    BY <1>0, <1>3, <2>1, <2>2 DEF Backs
<1>5. Asked[c] = op[c].req /\ Asked' = Asked
  BY <1>2 DEF Asked
<1>6. Stages[c] = "called" /\ Stages' = [Stages EXCEPT ![c] = "taken"]
  BY <1>2 DEF Stages, Rename
<1>7. answer' = answer
  BY DEF Rename
<1>8. /\ Stages[c] = "called"
      /\ \E t \in Atomic!Results(Tables[Atomic!storeOf(Asked[c])], Asked[c]) :
           Tables' = [Tables EXCEPT ![Atomic!storeOf(Asked[c])] = t]
      /\ Backs' = [Backs EXCEPT ![Atomic!storeOf(Asked[c])]
                     = Backs[Atomic!storeOf(Asked[c])] \cup {Tables[Atomic!storeOf(Asked[c])]}]
  BY <1>0, <1>1, <1>3, <1>4, <1>5, <1>6
<1> QED
  BY <1>5, <1>6, <1>7, <1>8 DEF Atomic!AbsTake, Tables, Backs, Asked, Stages

LEMMA AtomicDirSync == ASSUME StoresInv, NEW c \in Callers, DirSync(c) PROVE Atomic!AbsOk(c)
<1> DEFINE s == st(c)
<1>0. s \in StoreNames /\ s = Atomic!storeOf(op[c].req)
  BY StoreOfCall DEF DirSync, st, storeOf, Atomic!storeOf
<1>1. /\ op'[c].pc = "idle" /\ op'[c].req = None
      /\ \A d \in Callers \ {c} : op'[d] = op[d]
      /\ file' = file
  BY ReturnOp DEF DirSync, NoOp
<1>2. Backs' \in {Backs, [Backs EXCEPT ![s] = {}]}
  <2>1. CASE older' = older
    BY <2>1 DEF Backs
  <2>2. CASE older' = [older EXCEPT ![s] = {}]
    BY <2>2, <1>0 DEF StoresInv, StoresTypeOK, Backs
  <2> QED
    BY <2>1, <2>2 DEF DirSync
<1>3. Asked[c] = op[c].req /\ Asked' = [Asked EXCEPT ![c] = None]
  BY <1>1 DEF Asked
<1>4. Stages[c] = "taken" /\ Stages' = [Stages EXCEPT ![c] = "idle"]
  BY <1>1 DEF Stages, DirSync
<1>5. Tables' = Tables
  BY <1>1 DEF Tables
<1>6. answer' = [answer EXCEPT ![c] = "ok"]
  BY DEF DirSync, Return
<1>7. Backs' \in {Backs, [Backs EXCEPT ![Atomic!storeOf(Asked[c])] = {}]}
  BY <1>0, <1>2, <1>3
<1> QED
  BY <1>3, <1>4, <1>5, <1>6, <1>7 DEF Atomic!AbsOk, Tables, Backs, Asked, Stages

LEMMA AtomicCrash == ASSUME StoresInv, NEW power \in BOOLEAN, Crash(power) PROVE Atomic!AbsCrash
<1>1. /\ Stages' = [c \in Callers |-> "idle"] /\ Asked' = [c \in Callers |-> None]
      /\ answer' = [c \in Callers |-> IF Stages[c] = "idle" THEN answer[c] ELSE "none"]
  BY DEF Crash, NoOp, Stages, Asked
<1>2. CASE power
  <2>1. \A s \in StoreNames : Tables'[s] \in {Tables[s]} \cup Backs[s]
    BY <1>2, PowerLoss DEF Tables, Backs
  <2>2. Tables' = [s \in StoreNames |-> Tables'[s]]
    BY DEF Tables
  <2>3. Backs' = [s \in StoreNames |-> {}]
    BY <1>2, PowerLoss DEF Backs
  <2> QED
    BY <1>1, <2>1, <2>2, <2>3 DEF Atomic!AbsCrash, Atomic!StoreNames, StoreNames, Tables, Backs, Asked, Stages
<1>3. CASE ~power
  <2>1. Tables' = Tables /\ Backs' = Backs
    BY <1>3 DEF Crash, Tables, Backs
  <2> QED
    BY <1>1, <2>1 DEF Atomic!AbsCrash, Tables, Backs, Asked, Stages
<1> QED
  BY <1>2, <1>3

\* Everything before the rename, and the restart, changes nothing that is seen.
LEMMA AtomicStutter ==
  ASSUME StoresInv,
         \/ \E c \in Callers : Change(c) \/ WriteTemp(c)
         \/ Restart \/ UNCHANGED vars
  PROVE  UNCHANGED Atomic!absVars
<1>1. Asked' = Asked /\ Stages' = Stages
  <2>1. CASE Restart \/ UNCHANGED vars
    BY <2>1 DEF Restart, vars, Asked, Stages
  <2>2. ASSUME NEW c \in Callers, Change(c) \/ WriteTemp(c) PROVE Asked' = Asked /\ Stages' = Stages
    <3>1. /\ op[c].pc \notin {"idle", "dirsync"} /\ op'[c].pc \notin {"idle", "dirsync"}
          /\ op'[c].req = op[c].req
          /\ \A d \in Callers \ {c} : op'[d] = op[d]
      BY <2>2 DEF Change, WriteTemp, StoresInv, StoresTypeOK, Op
    <3> QED
      BY <3>1 DEF Asked, Stages
  <2> QED
    BY <2>1, <2>2
<1>2. Tables' = Tables /\ Backs' = Backs /\ answer' = answer
  BY DEF Change, WriteTemp, Restart, vars, Tables, Backs
<1> QED
  BY <1>1, <1>2 DEF Atomic!absVars, Tables, Backs, Asked, Stages

\* The two stores, with their mutexes, temporary files, roll-backs and restarts,
\* implement stores whose operations take effect in one step.
THEOREM StoresAreAtomic == Spec => AtomicSpec
<1>1. StoresInv /\ [Next]_vars => [Atomic!AbsNext]_(Atomic!absVars)
  <2> SUFFICES ASSUME StoresInv, [Next]_vars PROVE [Atomic!AbsNext]_(Atomic!absVars)
    OBVIOUS
  <2>1. ASSUME NEW c \in Callers, Call(c) PROVE Atomic!AbsNext
    BY <2>1, AtomicCall DEF Atomic!AbsNext
  <2>2. ASSUME NEW c \in Callers, Invalid(c) \/ Refuse(c) \/ SaveFails(c) PROVE Atomic!AbsNext
    BY <2>2, AtomicError DEF Invalid, Refuse, SaveFails, Atomic!AbsNext
  <2>3. ASSUME NEW c \in Callers, Rename(c) PROVE Atomic!AbsNext
    BY <2>3, AtomicRename DEF Atomic!AbsNext
  <2>4. ASSUME NEW c \in Callers, DirSync(c) PROVE Atomic!AbsNext
    BY <2>4, AtomicDirSync DEF Atomic!AbsNext
  <2>5. ASSUME NEW power \in BOOLEAN, Crash(power) PROVE Atomic!AbsNext
    BY <2>5, AtomicCrash DEF Atomic!AbsNext
  <2>6. ASSUME (\E c \in Callers : Change(c) \/ WriteTemp(c)) \/ Restart \/ UNCHANGED vars
        PROVE  UNCHANGED Atomic!absVars
    BY <2>6, AtomicStutter
  <2> QED
    BY <2>1, <2>2, <2>3, <2>4, <2>5, <2>6 DEF Next
<1> QED
  BY <1>1, AtomicInit, StoresInvariant, PTL DEF Spec, AtomicSpec, Atomic!AbsSpec
=============================================================================
