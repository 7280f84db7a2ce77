------------------------------ MODULE MCStores ------------------------------
(* Stores for TLC.                                                         *)
EXTENDS Stores, TLC

\* One member list will do for a new zone, another one for an edited zone.
MCRequested ==
  {q \in ZoneRequest :
     /\ q.kind = "deleteZone" => q.key = "a" /\ q.data = "m1"
     /\ q.kind = "updateZone" => q.data = "m2"
     /\ q.kind = "createZone" => q.data = "m1" /\ q.id = "i1"}
  \cup
  {q \in GuestRequest :
     /\ q.kind # "createGuest" => q.key = "a"
     /\ q.kind # "setDisabled" => q.data = "enabled"
     /\ q.kind = "createGuest" => q.id = "i1"}
=============================================================================
