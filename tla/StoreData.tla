------------------------------ MODULE StoreData ------------------------------
(***************************************************************************)
(* What the zone store (internal/groups) and the guest store               *)
(* (internal/guests) keep, and what their operations make of it.           *)
(*                                                                         *)
(* A table is what one of the files holds.  A record is its key (the name  *)
(* of a zone, the label of a guest: trimmed, and folded as the uniqueness  *)
(* check folds it) and its data: the members of a zone, or the status of   *)
(* a guest.                                                                *)
(***************************************************************************)

CONSTANTS
  Ids,      \* record IDs, drawn at random
  Keys,     \* names and labels
  Members,  \* member lists of a zone
  None      \* no record

Status == {"enabled", "disabled"}
StoreNames == {"zones", "guests"}
Item == [key : Keys, data : Members \cup Status]
Table == [Ids -> Item \cup {None}]

ASSUME StoreDataAssumption == None \notin Item

Empty == [i \in Ids |-> None]

\* The requests that reach a store.
ZoneRequest == [kind : {"createZone", "updateZone", "deleteZone"}, id : Ids, key : Keys, data : Members]
GuestRequest == [kind : {"createGuest", "setDisabled", "deleteGuest"}, id : Ids, key : Keys, data : Status]
Request == ZoneRequest \cup GuestRequest

storeOf(q) ==
  IF q.kind \in {"createZone", "updateZone", "deleteZone"} THEN "zones" ELSE "guests"

\* Another record than i has the key.
nameTaken(t, key, i) == \E j \in Ids \ {i} : t[j] # None /\ t[j].key = key
labelTaken(t, key) == \E j \in Ids : t[j] # None /\ t[j].key = key

\* A fresh ID is one that the table does not use.
freshID(t) == {i \in Ids : t[i] = None}

-----------------------------------------------------------------------------
(* The tables an operation may turn t into; none, when it is refused with  *)
(* 404 or 422.                                                             *)

\* Fault: the members are not stored.
createZone_NoMembers(t, q) ==
  {[t EXCEPT ![i] = [key |-> q.key, data |-> None]] :
     i \in {j \in freshID(t) : ~nameTaken(t, q.key, j)}}

createZone(t, q) ==
  {[t EXCEPT ![i] = [key |-> q.key, data |-> q.data]] :
     i \in {j \in freshID(t) : ~nameTaken(t, q.key, j)}}

\* Fault: a zone may be renamed to a name that is taken.
updateZone_AnyName(t, q) ==
  {[t EXCEPT ![i] = [key |-> q.key, data |-> q.data]] : i \in {j \in {q.id} : t[j] # None}}

updateZone(t, q) ==
  {[t EXCEPT ![i] = [key |-> q.key, data |-> q.data]] :
     i \in {j \in {q.id} : t[j] # None /\ ~nameTaken(t, q.key, j)}}

deleteZone(t, q) == {[t EXCEPT ![i] = None] : i \in {j \in {q.id} : t[j] # None}}

\* A new guest is enabled.
createGuest(t, q) ==
  {[t EXCEPT ![i] = [key |-> q.key, data |-> "enabled"]] :
     i \in {j \in freshID(t) : ~labelTaken(t, q.key)}}

setDisabled(t, q) ==
  {[t EXCEPT ![i].data = q.data] : i \in {j \in {q.id} : t[j] # None}}

deleteGuest(t, q) == {[t EXCEPT ![i] = None] : i \in {j \in {q.id} : t[j] # None}}

Results(t, q) ==
  CASE q.kind = "createZone" -> createZone(t, q)
    [] q.kind = "updateZone" -> updateZone(t, q)
    [] q.kind = "deleteZone" -> deleteZone(t, q)
    [] q.kind = "createGuest" -> createGuest(t, q)
    [] q.kind = "setDisabled" -> setDisabled(t, q)
    [] q.kind = "deleteGuest" -> deleteGuest(t, q)
=============================================================================
