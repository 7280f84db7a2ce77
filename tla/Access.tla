------------------------------- MODULE Access -------------------------------
(***************************************************************************)
(* Who may see and change what: the sessions, middleware and handlers of   *)
(* internal/api over the zone store, the guest store and the published     *)
(* zone views, with the snapshot filter of internal/authz and the zone     *)
(* rule of Poller.SetExitNode.                                             *)
(*                                                                         *)
(* Every handler runs in its own goroutine and reads or changes one store  *)
(* at a time; each such access is one step (module Stores shows that an    *)
(* operation of a store is atomic).  IDs are random and never used twice.  *)
(*                                                                         *)
(* Requests that fail the Host or CSRF check, an administrator's reads,    *)
(* and a guest's tries of administrator routes change nothing and are left *)
(* out; so are the bodies of the answers, except for the nodes a guest     *)
(* gets to see and the exit nodes the view of a router refers to.          *)
(***************************************************************************)
EXTENDS Naturals

CONSTANTS
  Zones, Guests,   \* IDs
  Zone,            \* the zones an administrator may define: records of cons
                   \* (Consumers) and allow (AllowedExitNodes)
  Routers, Exits,
  Browsers,        \* browsers used by guests
  Requests,        \* goroutines
  Clear,           \* the empty target: no exit node, a Keep or a probe
  None,            \* never created, or no value
  Deleted,
  MaxRestarts      \* bound of the model

Guest == [zone : Zones, status : {"enabled", "disabled", "deleted"}]

ASSUME AccessAssumption ==
  /\ Zone \subseteq [cons : SUBSET Routers, allow : SUBSET Exits]
  /\ None \notin Zone /\ Deleted \notin Zone /\ None # Deleted
  /\ None \notin Guests \cup Zones \cup Guest
  /\ Clear \notin Exits /\ Routers # {}
  /\ MaxRestarts \in Nat

Targets == Exits \cup {Clear}

\* One request: where its handler is, what it asks for, what it has read.
Request ==
  [pc : {"idle", "compare", "guest", "zone", "authorize", "act",
         "check", "store", "refresh", "done"},
   kind : {"none", "login", "nodes", "router", "write",
           "createZone", "updateZone", "deleteZone",
           "createGuest", "setDisabled", "deleteGuest"},
   by : Browsers \cup {None},          \* None: an administrator
   gid : Guests \cup {None},           \* the guest in the session or the request
   zid : Zones \cup {None},            \* Subject.ZoneID, or the zone in the request
   val : Zone \cup {None},             \* the new zone
   flag : {"enabled", "disabled"},     \* the new status, or the one Authenticate copied
   router : Routers, target : Targets,
   out : {"none", "ok", "denied"},
   nodes : SUBSET (Routers \cup Exits), \* what the answer shows, and the exit
   refs : SUBSET Exits]                 \* nodes it gives for a router

VARIABLES
  zones,     \* zones[z]: the zone store
  guests,    \* guests[g]: the guest store
  view,      \* view[z]: Snapshot.Groups
  viewed,    \* the groups were rendered since the start
  cookie,    \* cookie[b]: the guest of the valid session b's browser has
  req,       \* req[p]
  live,      \* history: the guest of request p was valid at some time since
             \* the request began
  past,      \* history: what its zone was since then
  restarts

storeVars == <<zones, guests>>
vars == <<zones, guests, view, viewed, cookie, req, live, past, restarts>>

NoRequest ==
  [pc |-> "idle", kind |-> "none", by |-> None, gid |-> None, zid |-> None, val |-> None,
   flag |-> "enabled", router |-> CHOOSE r \in Routers : TRUE, target |-> Clear,
   out |-> "none", nodes |-> {}, refs |-> {}]

\* Types of the stores, the sessions and the requests.
AccessTypeOK ==
  /\ zones \in [Zones -> Zone \cup {None, Deleted}]
  /\ guests \in [Guests -> Guest \cup {None}]
  /\ view \in [Zones -> Zone \cup {None}]
  /\ viewed \in BOOLEAN
  /\ cookie \in [Browsers -> Guests \cup {None}]
  /\ req \in [Requests -> Request]
  /\ live \in [Requests -> BOOLEAN]
  /\ past \in [Requests -> SUBSET Zone]
  /\ restarts \in 0..MaxRestarts

Init ==
  /\ zones = [z \in Zones |-> None]
  /\ guests = [g \in Guests |-> None]
  /\ view = [z \in Zones |-> None]
  /\ viewed = FALSE
  /\ cookie = [b \in Browsers |-> None]
  /\ req = [p \in Requests |-> NoRequest]
  /\ live = [p \in Requests |-> FALSE]
  /\ past = [p \in Requests |-> {}]
  /\ restarts = 0

-----------------------------------------------------------------------------
(* The stores and the rules                                                *)

Exists(z) == zones[z] \in Zone
Known(g) == guests[g] # None /\ guests[g].status # "deleted"
Enabled(g) == guests[g] # None /\ guests[g].status = "enabled"

\* Fault: the rule is looked up in the published view.
authorizeRouterWrite_Published(z, r, t) ==
  /\ view[z] \in Zone
  /\ r \in view[z].cons
  /\ t # Clear => t \in view[z].allow

\* authorizeRouterWrite, in the zone that is read now.
authorizeRouterWrite(z, r, t) ==
  /\ Exists(z)
  /\ r \in zones[z].cons
  /\ t # Clear => t \in zones[z].allow

routerInZone(z, r) == Exists(z) /\ r \in zones[z].cons

\* allowedExitNodeSet: the union of the lists of the router's zones; a router in
\* no zone is unrestricted.
allowedExitNodeSet(r) ==
  LET of == {z \in Zones : routerInZone(z, r)}
  IN IF of = {} THEN Exits ELSE UNION {zones[z].allow : z \in of}

\* Fault: the view keeps what once was.
buildGroupViews_All == [z \in Zones |-> zones[z]]

\* buildGroupViews: the existing zones.
buildGroupViews == [z \in Zones |-> IF Exists(z) THEN zones[z] ELSE None]

\* Fault: an unknown zone is not filtered.
FilterSnapshotToZone_Open(z) ==
  IF view[z] = None THEN Routers \cup Exits ELSE view[z].cons \cup view[z].allow

\* FilterSnapshotToZone: the nodes of the one zone; nothing, if it is unknown.
FilterSnapshotToZone(z) ==
  IF view[z] = None THEN {} ELSE view[z].cons \cup view[z].allow

\* A handler of a zone has changed the store and not yet called RefreshGroups.
Unrendered == \E p \in Requests : req[p].pc = "refresh"

-----------------------------------------------------------------------------
(* Requests                                                                *)

Step(p, r) == req' = [req EXCEPT ![p] = r]
Go(p, pc) == Step(p, [req[p] EXCEPT !.pc = pc])
Answer(p, out) == Step(p, [req[p] EXCEPT !.pc = "done", !.out = out])

Begin(p, r) ==
  /\ req[p].pc = "idle"
  /\ Step(p, r)
  /\ UNCHANGED <<storeVars, view, viewed, cookie, restarts>>

\* The answer is sent.
Finish(p) ==
  /\ req[p].pc = "done"
  /\ Step(p, NoRequest)
  /\ UNCHANGED <<storeVars, view, viewed, cookie, restarts>>

\* handleLogin, guest path: Authenticate copies the record under the lock.
Login(p) ==
  \E b \in Browsers, g \in Guests :
    /\ Known(g)
    /\ Begin(p, [NoRequest EXCEPT !.pc = "compare", !.kind = "login", !.by = b, !.gid = g,
                                  !.flag = guests[g].status])

\* ... and after the slow compare looks at the copy; newSessionValue signs the ID.
Compare(p) ==
  /\ req[p].pc = "compare"
  /\ \/ /\ Answer(p, "denied")                     \* wrong password
        /\ UNCHANGED cookie
     \/ /\ req[p].flag = "disabled"
        /\ Answer(p, "denied")
        /\ UNCHANGED cookie
     \/ /\ req[p].flag = "enabled"
        /\ Answer(p, "ok")
        /\ cookie' = [cookie EXCEPT ![req[p].by] = req[p].gid]
  /\ UNCHANGED <<storeVars, view, viewed, restarts>>

\* handleLogout, or the session expires: parseSession finds none.
EndSession(b) ==
  /\ cookie[b] # None
  /\ cookie' = [cookie EXCEPT ![b] = None]
  /\ UNCHANGED <<storeVars, view, viewed, req, restarts>>

\* A guest asks for the nodes or a router, or for a change of a router
\* (handleSetExitNode; handleKeep and handleProbe have no target).
GuestAsks(p) ==
  \E b \in Browsers, k \in {"nodes", "router", "write"}, r \in Routers, t \in Targets :
    /\ cookie[b] # None
    /\ k = "nodes" => r = NoRequest.router
    /\ k # "write" => t = Clear
    /\ Begin(p, [NoRequest EXCEPT !.pc = "guest", !.kind = k, !.by = b, !.gid = cookie[b],
                                  !.router = r, !.target = t])

\* resolveSubject: the guest must still exist and be enabled.
resolveGuest(p) ==
  /\ req[p].pc = "guest"
  /\ IF Enabled(req[p].gid)
     THEN Step(p, [req[p] EXCEPT !.pc = "zone", !.zid = guests[req[p].gid].zone])
     ELSE Answer(p, "denied")
  /\ UNCHANGED <<storeVars, view, viewed, cookie, restarts>>

\* resolveSubject: its zone must exist.
resolveZone(p) ==
  /\ req[p].pc = "zone"
  /\ IF Exists(req[p].zid)
     THEN Go(p, IF req[p].kind = "nodes" THEN "act" ELSE "authorize")
     ELSE Answer(p, "denied")
  /\ UNCHANGED <<storeVars, view, viewed, cookie, restarts>>

\* authorizeRouterWrite (403), or routerInZone in handleRouter (404).
authorize(p) ==
  /\ req[p].pc = "authorize"
  /\ IF IF req[p].kind = "write"
        THEN authorizeRouterWrite(req[p].zid, req[p].router, req[p].target)
        ELSE routerInZone(req[p].zid, req[p].router)
     THEN Go(p, "act")
     ELSE Answer(p, "denied")
  /\ UNCHANGED <<storeVars, view, viewed, cookie, restarts>>

\* The controller is called: SetExitNode checks the target against the router's
\* zones (Keep and Probe have none) and starts to change the router, or refuses
\* for a reason of its own (an unknown router, an exit node that is offline).
control(p) ==
  /\ req[p].pc = "act" /\ req[p].kind = "write"
  /\ \/ Answer(p, "denied")
     \/ /\ req[p].target \in allowedExitNodeSet(req[p].router) \cup {Clear}
        /\ Answer(p, "ok")
  /\ UNCHANGED <<storeVars, view, viewed, cookie, restarts>>

\* The CurrentExitNode and the Desired of a router's view: what the device has
\* selected (a poll publishes whatever it finds there) and what a SetExitNode,
\* anybody's, has asked for.  No zone restricts the first.
exitRefs(current, desired) == {current, desired} \ {Clear}

\* handleNodes and handleRouter load the snapshot and answer from it; a router may
\* be missing from it (404).  routerViewDTO copies the references as they are.
show(p) ==
  /\ req[p].pc = "act" /\ req[p].kind # "write"
  /\ \/ /\ req[p].kind = "nodes"
        /\ Step(p, [req[p] EXCEPT !.pc = "done", !.out = "ok",
                                  !.nodes = FilterSnapshotToZone(req[p].zid)])
     \/ /\ req[p].kind = "router"
        /\ \E current, desired \in Targets :
             Step(p, [req[p] EXCEPT !.pc = "done", !.out = "ok", !.nodes = {req[p].router},
                                    !.refs = exitRefs(current, desired)])
     \/ req[p].kind = "router" /\ Answer(p, "denied")
  /\ UNCHANGED <<storeVars, view, viewed, cookie, restarts>>

-----------------------------------------------------------------------------
(* The administrator's handlers.  The store may refuse (validation, an     *)
(* unknown ID, a failing save): then nothing has changed.                  *)

AdminAsks(p) ==
  \/ \E v \in Zone : Begin(p, [NoRequest EXCEPT !.pc = "store", !.kind = "createZone", !.val = v])
  \/ \E z \in Zones, v \in Zone :
       /\ zones[z] # None
       /\ Begin(p, [NoRequest EXCEPT !.pc = "store", !.kind = "updateZone", !.zid = z, !.val = v])
  \/ \E z \in Zones :
       /\ zones[z] # None
       /\ \E k \in {"deleteZone", "createGuest"} :
            Begin(p, [NoRequest EXCEPT !.pc = "check", !.kind = k, !.zid = z])
  \/ \E g \in Guests :
       /\ guests[g] # None
       /\ \/ \E f \in {"enabled", "disabled"} :
               Begin(p, [NoRequest EXCEPT !.pc = "store", !.kind = "setDisabled", !.gid = g, !.flag = f])
          \/ Begin(p, [NoRequest EXCEPT !.pc = "store", !.kind = "deleteGuest", !.gid = g])

\* handleDeleteGroup: no guest may be assigned to the zone (409).
checkDeleteGroup(p) == \A g \in Guests : Known(g) => guests[g].zone # req[p].zid

\* handleCreateGuest: the zone must exist (422).
checkCreateGuest(p) == Exists(req[p].zid)

Check(p) ==
  /\ req[p].pc = "check"
  /\ IF \/ req[p].kind = "deleteZone" /\ checkDeleteGroup(p)
        \/ req[p].kind = "createGuest" /\ checkCreateGuest(p)
     THEN Go(p, "store") ELSE Answer(p, "denied")
  /\ UNCHANGED <<storeVars, view, viewed, cookie, restarts>>

\* The error of a store is the answer; nothing is rendered.
StoreRefuses(p) ==
  /\ req[p].pc = "store"
  /\ Answer(p, "denied")
  /\ UNCHANGED <<storeVars, view, viewed, cookie, restarts>>

Doing(p, kind) == req[p].pc = "store" /\ req[p].kind = kind

\* Fault: the change is answered without being rendered.
ZoneChanged_NoRefresh(p) ==
  /\ Answer(p, "ok")
  /\ UNCHANGED <<guests, view, viewed, cookie, restarts>>

\* A zone handler goes on to RefreshGroups.
ZoneChanged(p) ==
  /\ Go(p, "refresh")
  /\ UNCHANGED <<guests, view, viewed, cookie, restarts>>

handleCreateGroup(p) ==
  /\ Doing(p, "createZone")
  /\ \E z \in Zones : zones[z] = None /\ zones' = [zones EXCEPT ![z] = req[p].val]
  /\ ZoneChanged(p)

handleUpdateGroup(p) ==
  /\ Doing(p, "updateZone") /\ Exists(req[p].zid)
  /\ zones' = [zones EXCEPT ![req[p].zid] = req[p].val]
  /\ ZoneChanged(p)

handleDeleteGroup(p) ==
  /\ Doing(p, "deleteZone") /\ Exists(req[p].zid)
  /\ zones' = [zones EXCEPT ![req[p].zid] = Deleted]
  /\ ZoneChanged(p)

GuestChanged(p, g, r) ==
  /\ guests' = [guests EXCEPT ![g] = r]
  /\ Answer(p, "ok")
  /\ UNCHANGED <<zones, view, viewed, cookie, restarts>>

handleCreateGuest(p) ==
  /\ Doing(p, "createGuest")
  /\ \E g \in Guests :
       guests[g] = None /\ GuestChanged(p, g, [zone |-> req[p].zid, status |-> "enabled"])

handleSetGuestDisabled(p) ==
  /\ Doing(p, "setDisabled") /\ Known(req[p].gid)
  /\ GuestChanged(p, req[p].gid, [guests[req[p].gid] EXCEPT !.status = req[p].flag])

handleDeleteGuest(p) ==
  /\ Doing(p, "deleteGuest") /\ Known(req[p].gid)
  /\ GuestChanged(p, req[p].gid, [guests[req[p].gid] EXCEPT !.status = "deleted"])

\* RefreshGroups reads the live store under Poller.mu.
RefreshGroups(p) ==
  /\ req[p].pc = "refresh"
  /\ view' = buildGroupViews /\ viewed' = TRUE
  /\ Answer(p, "ok")
  /\ UNCHANGED <<storeVars, cookie, restarts>>

\* refreshOnce renders the groups under Poller.mu, from the live store.  What
\* SetExitNode, Keep and Probe publish carries the groups over (withRouter).
Poll ==
  /\ view' = buildGroupViews /\ viewed' = TRUE
  /\ UNCHANGED <<storeVars, cookie, req, restarts>>

\* A new process: the stores are loaded, the snapshot is empty, and the new
\* session secret makes every session invalid.
Restart ==
  /\ restarts < MaxRestarts /\ restarts' = restarts + 1
  /\ view' = [z \in Zones |-> None] /\ viewed' = FALSE
  /\ cookie' = [b \in Browsers |-> None]
  /\ req' = [p \in Requests |-> NoRequest]
  /\ UNCHANGED storeVars

-----------------------------------------------------------------------------
\* The zone of guest g (a deleted guest had one too), if it exists.
ZoneOf(g) == IF Exists(guests[g].zone) THEN {zones[guests[g].zone]} ELSE {}

\* What has been published of it and is still to be replaced.
Outdated(g) ==
  IF Unrendered /\ view[guests[g].zone] \in Zone THEN {view[guests[g].zone]} ELSE {}

\* Request p is made with a guest's session.
Asks(p) == req[p].pc # "idle" /\ req[p].kind \in {"nodes", "router", "write"}

\* The histories follow every such request from its beginning.  Only the list of
\* nodes comes from the published view of the zone; authorizeRouterWrite and
\* routerInZone read the store.
Observe ==
  /\ live' = [p \in Requests |-> Asks(p)' /\ (live[p] \/ Enabled(req[p].gid)')]
  /\ past' = [p \in Requests |->
       IF Asks(p)'
       THEN ZoneOf(req[p].gid)' \cup
            (CASE Asks(p) -> past[p]
               [] ~Asks(p) /\ req'[p].kind = "nodes" -> Outdated(req'[p].gid)
               [] OTHER -> {})
       ELSE {}]

Handler(p) ==
  \/ Login(p) \/ Compare(p) \/ GuestAsks(p) \/ AdminAsks(p) \/ Finish(p)
  \/ resolveGuest(p) \/ resolveZone(p) \/ authorize(p) \/ control(p) \/ show(p)
  \/ Check(p) \/ StoreRefuses(p) \/ RefreshGroups(p)
  \/ handleCreateGroup(p) \/ handleUpdateGroup(p) \/ handleDeleteGroup(p)
  \/ handleCreateGuest(p) \/ handleSetGuestDisabled(p) \/ handleDeleteGuest(p)

Next ==
  /\ \/ \E p \in Requests : Handler(p)
     \/ \E b \in Browsers : EndSession(b)
     \/ Poll
     \/ Restart
  /\ Observe

Spec == Init /\ [][Next]_vars

-----------------------------------------------------------------------------
(* Properties                                                              *)

\* A guest changes a router only if it was not disabled or deleted all through
\* the request (a login that raced the disabling included), and only a router
\* and an exit node that its own zone, as the store had it at one time during the
\* request, listed together: neither the union of the zones of the router that
\* the poller checks nor a zone that has been replaced is enough.
GuestActsInZone ==
  \A p \in Requests :
    req[p].kind = "write" /\ req[p].out = "ok" =>
      /\ live[p]
      /\ \E v \in past[p] : /\ req[p].router \in v.cons
                            /\ req[p].target # Clear => req[p].target \in v.allow

\* A guest is shown only nodes that its zone had during the request, unless an
\* edit of the zone was still to be published when the request came in; a
\* disabled or deleted guest, or one whose zone is gone, is shown nothing.
\* handleRouter names exit nodes of other zones one way only, as the current or
\* desired exit node of a router that the guest's zone had in the store during the
\* request: these references are not filtered, although
\* docs/design/guest-mode.md:25-26 has "everything else on the fleet" filtered out.
GuestSeesZone ==
  \A p \in Requests :
    /\ req[p].nodes # {} =>
         /\ live[p]
         /\ req[p].nodes \subseteq UNION {v.cons \cup v.allow : v \in past[p]}
    /\ req[p].refs # {} =>
         \E r \in Routers : req[p].nodes = {r} /\ \E v \in past[p] : r \in v.cons

\* Every edit of a zone is published by the time it is answered, whichever
\* polls and other edits run at the same time.
ZonesPublished == viewed /\ ~Unrendered => view = buildGroupViews

\* "a guest must be bound to a real zone"; deleting a zone "guards against
\* orphaning a guest".
NoOrphan == \A g \in Guests : Known(g) => Exists(guests[g].zone)
=============================================================================
