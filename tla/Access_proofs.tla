---------------------------- MODULE Access_proofs ----------------------------
(***************************************************************************)
(* Proofs about access, for any number of zones, guests, browsers and      *)
(* concurrent requests: a guest acts and sees only within its zone, and    *)
(* every edit of a zone is published when it is answered.                  *)
(***************************************************************************)
EXTENDS Access, TLAPS

GuestKinds == {"nodes", "router", "write"}

\* Request p is a guest's; it has passed resolveSubject; it has been authorized.
Guestly(p) == req[p].kind \in GuestKinds
Resolved(p) == Guestly(p) /\ (req[p].pc \in {"zone", "authorize", "act"} \/ req[p].out = "ok")
Authorized(p) == Guestly(p) /\ (req[p].pc = "act" \/ req[p].out = "ok")

HomeOf(g) == guests[g].zone

\* The zone value v permits what p asks for.
Permits(v, p) ==
  /\ req[p].kind # "nodes" => req[p].router \in v.cons
  /\ req[p].kind = "write" /\ req[p].target # Clear => req[p].target \in v.allow

\* An administrator's request names an ID of the right store.
Addressed(r) ==
  /\ r.kind = "createGuest" => r.zid \in Zones
  /\ r.kind \in {"setDisabled", "deleteGuest"} => r.gid \in Guests

\* What holds of request p from its beginning to its answer: the guest is known,
\* each check that was passed held in a value the store had for its zone at some
\* time since (for a list of nodes, or that was published and not yet replaced).
RequestInv(p) ==
  /\ Addressed(req[p])
  /\ req[p].pc = "idle" => req[p] = NoRequest
  /\ req[p].pc = "compare" => req[p].gid \in Guests /\ guests[req[p].gid] # None
  /\ ~Guestly(p) => req[p].nodes = {} /\ req[p].refs = {} /\ req[p].pc \notin {"guest", "zone", "authorize", "act"}
  /\ Guestly(p) =>
       /\ req[p].pc \in {"guest", "zone", "authorize", "act", "done"}
       /\ req[p].gid \in Guests /\ guests[req[p].gid] # None
       /\ req[p].kind = "nodes" /\ view[HomeOf(req[p].gid)] # None =>
            view[HomeOf(req[p].gid)] \in past[p]
       /\ req[p].out # "ok" => req[p].nodes = {} /\ req[p].refs = {}
       /\ req[p].pc # "done" => req[p].out = "none"
  /\ Resolved(p) => live[p]
  /\ Resolved(p) /\ req[p].pc # "done" => req[p].zid = HomeOf(req[p].gid)
  /\ Authorized(p) /\ req[p].kind # "nodes" => \E v \in past[p] : Permits(v, p)
  /\ req[p].nodes \subseteq UNION {v.cons \cup v.allow : v \in past[p]}
  /\ req[p].refs # {} =>
       Authorized(p) /\ req[p].kind = "router" /\ req[p].nodes = {req[p].router}

\* Sessions are of guests that were created; nothing is published before the
\* first rendering.
SessionInv == \A b \in Browsers : cookie[b] # None => guests[cookie[b]] # None
ViewInv == ~viewed => view = [z \in Zones |-> None]

AccessInv ==
  /\ AccessTypeOK
  /\ SessionInv /\ ViewInv /\ ZonesPublished
  /\ \A p \in Requests : RequestInv(p)

-----------------------------------------------------------------------------
(* Facts about requests                                                    *)

LEMMA NoRequestIsIdle ==
  /\ NoRequest \in Request
  /\ NoRequest.pc = "idle" /\ NoRequest.kind = "none" /\ NoRequest.nodes = {} /\ NoRequest.refs = {}
  /\ NoRequest.out = "none" /\ Addressed(NoRequest)
<1>1. (CHOOSE r \in Routers : TRUE) \in Routers
  BY AccessAssumption
<1> QED
  BY <1>1 DEF NoRequest, Request, Targets, Addressed

\* A handler goes on, or answers: the rest of the request stays.
Moved(x, pc) == [x EXCEPT !.pc = pc]
Answered(x, out) == [x EXCEPT !.pc = "done", !.out = out]
SameRequest(x, y) ==
  x.kind = y.kind /\ x.gid = y.gid /\ x.zid = y.zid /\ x.router = y.router /\ x.target = y.target
    /\ x.nodes = y.nodes /\ x.refs = y.refs

LEMMA MovedRequest ==
  ASSUME NEW x \in Request,
         NEW pc \in {"zone", "authorize", "act", "store", "refresh"}
  PROVE  /\ Moved(x, pc) \in Request /\ Moved(x, pc).pc = pc /\ Moved(x, pc).out = x.out
         /\ SameRequest(Moved(x, pc), x)
  BY DEF Moved, Request, SameRequest

LEMMA AnsweredRequest ==
  ASSUME NEW x \in Request, NEW out \in {"ok", "denied"}
  PROVE  /\ Answered(x, out) \in Request /\ Answered(x, out).pc = "done" /\ Answered(x, out).out = out
         /\ SameRequest(Answered(x, out), x)
<1> DEFINE y == [x EXCEPT !.pc = "done", !.out = out]
<1>1. y \in Request
  <2> DEFINE w == [x EXCEPT !.pc = "done"]
  <2>1. w \in Request
    BY DEF Request
  <2>2. [w EXCEPT !.out = out] \in Request
    <3> HIDE DEF w
    <3> QED
      BY <2>1 DEF Request
  <2> QED
    BY <2>2
<1>2. y.pc = "done" /\ y.out = out
  BY DEF Request
<1>3. SameRequest(y, x)
  BY DEF Request, SameRequest
<1> QED
  BY <1>1, <1>2, <1>3 DEF Answered

LEMMA AccessInitInv == Init => AccessInv
<1> SUFFICES ASSUME Init PROVE AccessInv
  OBVIOUS
<1>1. AccessTypeOK
  <2>1. req \in [Requests -> Request]
    BY NoRequestIsIdle DEF Init
  <2>2. live \in [Requests -> BOOLEAN] /\ past \in [Requests -> SUBSET Zone]
    BY DEF Init
  <2>3. restarts \in 0..MaxRestarts
    BY AccessAssumption DEF Init
  <2>4. /\ zones \in [Zones -> Zone \cup {None, Deleted}] /\ guests \in [Guests -> Guest \cup {None}]
        /\ view \in [Zones -> Zone \cup {None}] /\ cookie \in [Browsers -> Guests \cup {None}]
    BY DEF Init
  <2>5. viewed \in BOOLEAN
    BY DEF Init
  <2> QED
    BY <2>1, <2>2, <2>3, <2>4, <2>5 DEF AccessTypeOK
<1>2. SessionInv /\ ViewInv /\ ZonesPublished
  BY DEF Init, SessionInv, ViewInv, ZonesPublished
<1>3. \A p \in Requests : RequestInv(p)
  BY NoRequestIsIdle DEF Init, RequestInv, Guestly, Resolved, Authorized, GuestKinds
<1> QED
  BY <1>1, <1>2, <1>3 DEF AccessInv

\* What every step does to the stores and the view: guests are never forgotten
\* and never change their zone, and the view is kept, emptied or rendered.
Step0 ==
  /\ zones' \in [Zones -> Zone \cup {None, Deleted}]
  /\ guests' \in [Guests -> Guest \cup {None}]
  /\ \A g \in Guests : guests[g] # None => guests'[g] # None /\ guests'[g].zone = guests[g].zone
  /\ \/ view' = view
     \/ view' = buildGroupViews /\ zones' = zones

\* The histories of a guest's request grow, and have its zone's present value.
LEMMA Histories ==
  ASSUME AccessInv, Step0, Observe, NEW p \in Requests, req'[p] \in Request,
         Guestly(p)', req'[p].pc # "idle", req'[p].gid \in Guests, guests'[req'[p].gid] # None,
         \/ req[p].kind = "none" /\ UNCHANGED <<zones, guests, view>>
         \/ Guestly(p) /\ req'[p].gid = req[p].gid /\ req'[p].kind = req[p].kind
  PROVE  LET z == HomeOf(req[p].gid)'
         IN /\ z \in Zones
            /\ Guestly(p) => past[p] \subseteq past'[p] /\ (live[p] => live'[p])
            /\ Enabled(req[p].gid)' => live'[p]
            /\ zones'[z] \in Zone => zones'[z] \in past'[p]
            /\ req'[p].kind = "nodes" /\ view'[z] # None => view'[z] \in past'[p]
<1> DEFINE g == req'[p].gid
           z == guests'[g].zone
<1>1. z \in Zones
  BY DEF Step0, Guest
<1>2. Asks(p)'
  BY DEF Asks, Guestly, GuestKinds
<1>3. /\ live'[p] = (Asks(p)' /\ (live[p] \/ Enabled(req[p].gid)'))
      /\ Asks(p) => past'[p] = ZoneOf(req[p].gid)' \cup past[p]
      /\ ~Asks(p) /\ req'[p].kind = "nodes" =>
           past'[p] = ZoneOf(req[p].gid)' \cup Outdated(g)
      /\ ZoneOf(req[p].gid)' \subseteq past'[p]
  BY <1>2 DEF Observe
<1>4. Guestly(p) => Asks(p)
  BY NoRequestIsIdle DEF AccessInv, RequestInv, Asks, Guestly, GuestKinds
<1>5. zones'[z] \in Zone => zones'[z] \in past'[p]
  BY <1>3 DEF ZoneOf, Exists
<1>6. ASSUME req'[p].kind = "nodes", view'[z] # None PROVE view'[z] \in past'[p]
  <2>1. CASE view' = buildGroupViews /\ zones' = zones
    BY <1>1, <1>5, <1>6, <2>1 DEF buildGroupViews, Exists
  <2>2. CASE view' = view /\ Guestly(p)
    <3>1. guests[g] # None /\ guests[g].zone = z /\ g = req[p].gid /\ req[p].kind = "nodes"
      BY <1>6, <2>2 DEF AccessInv, RequestInv, Step0, Guestly, GuestKinds
    <3> QED
      BY <1>3, <1>4, <1>6, <2>2, <3>1 DEF AccessInv, RequestInv, HomeOf
  \* A new request: the published value is the zone's, or about to be replaced.
  <2>3. CASE req[p].kind = "none" /\ UNCHANGED <<zones, guests, view>>
    <3>1. ~Asks(p) /\ viewed
      BY <1>1, <1>6, <2>3 DEF AccessInv, ViewInv, Asks
    <3>2. CASE Unrendered
      BY <1>1, <1>3, <1>6, <2>3, <3>1, <3>2 DEF Outdated, AccessInv, AccessTypeOK
    <3>3. CASE ~Unrendered
      BY <1>1, <1>5, <1>6, <2>3, <3>1, <3>3 DEF AccessInv, ZonesPublished, buildGroupViews, Exists
    <3> QED
      BY <3>2, <3>3
  <2> QED
    BY <2>1, <2>2, <2>3 DEF Step0
<1>7. (live[p] \/ Enabled(req[p].gid)') => live'[p]
  BY <1>2, <1>3
<1>8. Guestly(p) => past[p] \subseteq past'[p]
  BY <1>3, <1>4
<1>9. z = HomeOf(req[p].gid)'
  BY DEF HomeOf
<1> HIDE DEF z
<1> QED
  BY <1>1, <1>5, <1>6, <1>7, <1>8, <1>9

\* A request that a step leaves alone.
LEMMA OtherRequest ==
  ASSUME AccessInv, Step0, Observe, NEW p \in Requests, req'[p] = req[p]
  PROVE  RequestInv(p)'
<1>1. RequestInv(p) /\ req[p] \in Request
  BY DEF AccessInv, AccessTypeOK
<1>2. CASE Guestly(p)
  <2> DEFINE z == HomeOf(req[p].gid)'
  <2>1. /\ req[p].pc # "idle" /\ req[p].gid \in Guests /\ guests[req[p].gid] # None
        /\ guests'[req[p].gid] # None /\ z = HomeOf(req[p].gid)
    BY <1>1, <1>2, NoRequestIsIdle DEF RequestInv, Guestly, GuestKinds, Step0, HomeOf
  <2>2. /\ past[p] \subseteq past'[p] /\ (live[p] => live'[p])
        /\ req[p].kind = "nodes" /\ view'[z] # None => view'[z] \in past'[p]
    BY <1>1, <1>2, <2>1, Histories DEF Guestly
  <2> HIDE DEF z
  <2>3. UNION {v.cons \cup v.allow : v \in past[p]} \subseteq UNION {v.cons \cup v.allow : v \in past'[p]}
    BY <2>2
  <2>4. /\ Guestly(p)' = Guestly(p) /\ Resolved(p)' = Resolved(p) /\ Authorized(p)' = Authorized(p)
        /\ \A v : Permits(v, p)' = Permits(v, p)
    BY DEF Guestly, Resolved, Authorized, Permits
  <2> QED
    BY <1>1, <1>2, <2>1, <2>2, <2>3, <2>4 DEF RequestInv, z
<1>3. CASE ~Guestly(p)
  BY <1>1, <1>3 DEF RequestInv, Guestly, Resolved, Authorized, Step0
<1> QED
  BY <1>2, <1>3

LEMMA HistoryTypes ==
  ASSUME AccessInv, Observe
  PROVE  live' \in [Requests -> BOOLEAN] /\ past' \in [Requests -> SUBSET Zone]
<1>1. \A g : ZoneOf(g)' \subseteq Zone /\ Outdated(g) \subseteq Zone
  BY DEF ZoneOf, Exists, Outdated
<1>2. \A p \in Requests : past[p] \subseteq Zone
  BY DEF AccessInv, AccessTypeOK
<1> QED
  BY <1>1, <1>2 DEF Observe

\* A request of an administrator, a login, or none.
LEMMA PlainRequest ==
  ASSUME NEW p \in Requests, req'[p].kind \notin GuestKinds, req'[p].nodes = {} /\ req'[p].refs = {},
         req'[p].pc \notin {"guest", "zone", "authorize", "act"}, Addressed(req'[p]),
         req'[p].pc # "idle" \/ req'[p] = NoRequest,
         req'[p].pc = "compare" => req'[p].gid \in Guests /\ guests'[req'[p].gid] # None
  PROVE  RequestInv(p)'
  BY DEF RequestInv, Guestly, Resolved, Authorized

LEMMA PlainNow ==
  ASSUME AccessInv, NEW p \in Requests,
         req[p].pc \in {"idle", "compare", "check", "store", "refresh"}
  PROVE  /\ req[p] \in Request /\ req[p].kind \notin GuestKinds /\ req[p].nodes = {} /\ req[p].refs = {}
         /\ Addressed(req[p])
  BY NoRequestIsIdle DEF AccessInv, AccessTypeOK, RequestInv, Guestly, GuestKinds

\* A handler's step that leaves the stores and the view alone.
LEMMA QuietInv ==
  ASSUME AccessInv, Observe, NEW p \in Requests, NEW r \in Request, Step(p, r),
         UNCHANGED <<storeVars, view, viewed, restarts>>,
         cookie' \in [Browsers -> Guests \cup {None}], SessionInv',
         req[p].pc # "refresh", r.pc # "refresh", RequestInv(p)'
  PROVE  AccessInv'
<1> USE DEF AccessInv, Step, storeVars
<1>1. req' \in [Requests -> Request] /\ req'[p] = r /\ \A q \in Requests \ {p} : req'[q] = req[q]
  BY DEF AccessTypeOK
<1>2. AccessTypeOK'
  BY <1>1, HistoryTypes DEF AccessTypeOK
<1>3. ViewInv'
  BY DEF ViewInv
<1>4. ZonesPublished'
  <2>1. Unrendered' = Unrendered
    BY <1>1 DEF Unrendered
  <2> QED
    BY <2>1 DEF ZonesPublished, buildGroupViews, Exists
<1>5. Step0
  BY DEF Step0, AccessTypeOK
<1>6. \A q \in Requests : RequestInv(q)'
  BY <1>1, <1>5, OtherRequest
<1> QED
  BY <1>2, <1>3, <1>4, <1>6

\* One that does not touch the sessions either.
LEMMA QuietRequestInv ==
  ASSUME AccessInv, Observe, NEW p \in Requests, NEW r \in Request, Step(p, r),
         UNCHANGED <<storeVars, view, viewed, cookie, restarts>>,
         req[p].pc # "refresh", r.pc # "refresh", RequestInv(p)'
  PROVE  AccessInv'
<1>1. cookie' \in [Browsers -> Guests \cup {None}] /\ SessionInv'
  BY DEF AccessInv, AccessTypeOK, SessionInv, storeVars
<1> QED
  BY <1>1, QuietInv

LEMMA PlainStep ==
  ASSUME AccessInv, Observe, NEW p \in Requests, NEW r \in Request, Step(p, r),
         UNCHANGED <<storeVars, view, viewed, cookie, restarts>>,
         req[p].pc # "refresh", r.pc \in {"idle", "check", "store", "done"},
         r.kind \notin GuestKinds, r.nodes = {} /\ r.refs = {}, r.pc # "idle" \/ r = NoRequest, Addressed(r)
  PROVE  AccessInv'
<1>1. req'[p] = r
  BY DEF AccessInv, AccessTypeOK, Step
<1>2. RequestInv(p)'
  BY <1>1, PlainRequest
<1> QED
  BY <1>2, QuietRequestInv

-----------------------------------------------------------------------------
(* Logins, sessions and the administrator's requests                       *)

LEMMA LoginInv == ASSUME AccessInv, Observe, NEW p \in Requests, Login(p) PROVE AccessInv'
<1>1. PICK b \in Browsers, g \in Guests :
        /\ Known(g)
        /\ Begin(p, [NoRequest EXCEPT !.pc = "compare", !.kind = "login", !.by = b, !.gid = g,
                                      !.flag = guests[g].status])
  BY DEF Login
<1> DEFINE r == [NoRequest EXCEPT !.pc = "compare", !.kind = "login", !.by = b, !.gid = g,
                                  !.flag = guests[g].status]
<1>2. guests[g] # None /\ guests[g].status \in {"enabled", "disabled"}
  BY <1>1 DEF Known, AccessInv, AccessTypeOK, Guest
<1>3. r \in Request /\ r.pc = "compare" /\ r.kind = "login" /\ r.gid = g /\ r.nodes = {} /\ r.refs = {}
  BY <1>2, NoRequestIsIdle DEF Request
<1>4. Step(p, r) /\ req[p].pc = "idle" /\ UNCHANGED <<storeVars, view, viewed, cookie, restarts>>
  BY <1>1 DEF Begin
<1> HIDE DEF r
<1>5. req'[p] = r /\ guests' = guests
  BY <1>4 DEF AccessInv, AccessTypeOK, Step, storeVars
<1>6. RequestInv(p)'
  BY <1>2, <1>3, <1>5, PlainRequest DEF GuestKinds, Addressed
<1> QED
  BY <1>3, <1>4, <1>6, QuietRequestInv

LEMMA CompareInv == ASSUME AccessInv, Observe, NEW p \in Requests, Compare(p) PROVE AccessInv'
<1>1. PICK out \in {"ok", "denied"} :
        /\ Answer(p, out)
        /\ \/ UNCHANGED cookie
           \/ cookie' = [cookie EXCEPT ![req[p].by] = req[p].gid]
  BY DEF Compare
<1> DEFINE r == Answered(req[p], out)
<1>2. /\ req[p] \in Request /\ req[p].kind \notin GuestKinds /\ req[p].nodes = {} /\ req[p].refs = {}
      /\ Addressed(req[p]) /\ req[p].pc = "compare"
  BY PlainNow DEF Compare
<1>3. r \in Request /\ r.pc = "done" /\ SameRequest(r, req[p])
  BY <1>2, AnsweredRequest
<1>4. Step(p, r) /\ UNCHANGED <<storeVars, view, viewed, restarts>>
  BY <1>1 DEF Compare, Answer, Answered
<1> HIDE DEF r
<1>5. req'[p] = r /\ guests' = guests
  BY <1>4 DEF AccessInv, AccessTypeOK, Step, storeVars
<1>6. RequestInv(p)'
  BY <1>2, <1>3, <1>5, PlainRequest DEF SameRequest, Addressed
<1>7. req[p].gid \in Guests /\ guests[req[p].gid] # None
  BY <1>2 DEF AccessInv, RequestInv
<1>8. cookie' \in [Browsers -> Guests \cup {None}] /\ SessionInv'
  BY <1>1, <1>5, <1>7 DEF AccessInv, AccessTypeOK, SessionInv
<1> QED
  BY <1>2, <1>3, <1>4, <1>6, <1>8, QuietInv

LEMMA FinishInv == ASSUME AccessInv, Observe, NEW p \in Requests, Finish(p) PROVE AccessInv'
  BY PlainStep, NoRequestIsIdle DEF Finish, GuestKinds

\* A request that only the administrator makes.
AdminRequest(r) ==
  r \in Request /\ r.pc \in {"store", "check"} /\ r.kind \notin GuestKinds /\ r.nodes = {} /\ r.refs = {} /\ Addressed(r)

LEMMA AdminAsksInv == ASSUME AccessInv, Observe, NEW p \in Requests, AdminAsks(p) PROVE AccessInv'
<1>1. ASSUME NEW r, Begin(p, r), AdminRequest(r) PROVE AccessInv'
  BY <1>1, PlainStep DEF Begin, AdminRequest
<1>2. ASSUME NEW v \in Zone
      PROVE  AdminRequest([NoRequest EXCEPT !.pc = "store", !.kind = "createZone", !.val = v])
  BY NoRequestIsIdle DEF AdminRequest, Request, GuestKinds, Addressed
<1>3. ASSUME NEW z \in Zones, NEW v \in Zone
      PROVE  AdminRequest([NoRequest EXCEPT !.pc = "store", !.kind = "updateZone", !.zid = z, !.val = v])
  BY NoRequestIsIdle DEF AdminRequest, Request, GuestKinds, Addressed
<1>4. ASSUME NEW z \in Zones, NEW k \in {"deleteZone", "createGuest"}
      PROVE  AdminRequest([NoRequest EXCEPT !.pc = "check", !.kind = k, !.zid = z])
  BY NoRequestIsIdle DEF AdminRequest, Request, GuestKinds, Addressed
<1>5. ASSUME NEW g \in Guests, NEW f \in {"enabled", "disabled"}
      PROVE  AdminRequest([NoRequest EXCEPT !.pc = "store", !.kind = "setDisabled", !.gid = g, !.flag = f])
  BY NoRequestIsIdle DEF AdminRequest, Request, GuestKinds, Addressed
<1>6. ASSUME NEW g \in Guests
      PROVE  AdminRequest([NoRequest EXCEPT !.pc = "store", !.kind = "deleteGuest", !.gid = g])
  BY NoRequestIsIdle DEF AdminRequest, Request, GuestKinds, Addressed
<1> QED
  BY <1>1, <1>2, <1>3, <1>4, <1>5, <1>6 DEF AdminAsks

\* Check and StoreRefuses: on to the store, or the answer.
LEMMA CheckInv ==
  ASSUME AccessInv, Observe, NEW p \in Requests, Check(p) \/ StoreRefuses(p) PROVE AccessInv'
<1>1. /\ req[p] \in Request /\ req[p].kind \notin GuestKinds /\ req[p].nodes = {} /\ req[p].refs = {}
      /\ Addressed(req[p]) /\ req[p].pc # "refresh"
  BY PlainNow DEF Check, StoreRefuses
<1>2. /\ Step(p, Moved(req[p], "store")) \/ Step(p, Answered(req[p], "denied"))
      /\ UNCHANGED <<storeVars, view, viewed, cookie, restarts>>
  BY DEF Check, StoreRefuses, Go, Answer, Moved, Answered
<1>3. CASE Step(p, Moved(req[p], "store"))
  BY <1>1, <1>2, <1>3, MovedRequest, PlainStep DEF SameRequest, Addressed
<1>4. CASE Step(p, Answered(req[p], "denied"))
  BY <1>1, <1>2, <1>4, AnsweredRequest, PlainStep DEF SameRequest, Addressed
<1> QED
  BY <1>2, <1>3, <1>4

LEMMA EndSessionInv == ASSUME AccessInv, Observe, NEW b \in Browsers, EndSession(b) PROVE AccessInv'
<1> USE DEF AccessInv, EndSession, storeVars
<1>1. AccessTypeOK'
  BY HistoryTypes DEF AccessTypeOK
<1>2. SessionInv' /\ ViewInv' /\ ZonesPublished'
  BY DEF SessionInv, ViewInv, ZonesPublished, Unrendered, buildGroupViews, Exists, AccessTypeOK
<1>3. Step0
  BY DEF Step0, AccessTypeOK
<1> QED
  BY <1>1, <1>2, <1>3, OtherRequest

-----------------------------------------------------------------------------
(* A guest's requests                                                      *)

\* A step of guest request p that leaves everything else alone: what it has to
\* show, given what the histories then contain.
LEMMA GuestStep ==
  ASSUME AccessInv, Observe, NEW p \in Requests, NEW r \in Request, Step(p, r),
         UNCHANGED <<storeVars, view, viewed, cookie, restarts>>,
         Guestly(p), r.kind = req[p].kind, r.gid = req[p].gid,
         r.router = req[p].router, r.target = req[p].target,
         r.pc \in {"zone", "authorize", "act", "done"},
         r.pc # "done" => r.out = "none",
         r.out # "ok" => r.nodes = {} /\ r.refs = {},
         r.pc \in {"zone", "authorize", "act"} \/ r.out = "ok" => live[p] \/ Enabled(r.gid),
         r.pc \in {"zone", "authorize", "act"} => r.zid = HomeOf(r.gid),
         r.kind # "nodes" /\ (r.pc = "act" \/ r.out = "ok") =>
           \/ \E v \in past[p] : Permits(v, p)
           \/ zones[HomeOf(r.gid)] \in Zone /\ Permits(zones[HomeOf(r.gid)], p),
         \/ r.nodes \subseteq UNION {v.cons \cup v.allow : v \in past[p]}
         \/ r.kind = "nodes" /\ view[HomeOf(r.gid)] \in Zone
              /\ r.nodes \subseteq view[HomeOf(r.gid)].cons \cup view[HomeOf(r.gid)].allow,
         r.refs # {} => r.kind = "router" /\ r.nodes = {r.router}
  PROVE  AccessInv'
<1> DEFINE z == HomeOf(r.gid)
<1>1. req'[p] = r /\ zones' = zones /\ guests' = guests /\ view' = view
  BY DEF AccessInv, AccessTypeOK, Step, storeVars
<1>2. RequestInv(p) /\ r.gid \in Guests /\ guests[r.gid] # None /\ req[p].pc # "refresh"
  BY DEF AccessInv, RequestInv
<1>3. Step0
  BY <1>1 DEF Step0, AccessInv, AccessTypeOK
<1>4. /\ Guestly(p)' /\ HomeOf(req[p].gid)' = z /\ (Enabled(req[p].gid)' <=> Enabled(r.gid))
      /\ \A v : Permits(v, p)' <=> Permits(v, p)
  BY <1>1 DEF Guestly, HomeOf, Enabled, Permits
<1>5. /\ z \in Zones /\ past[p] \subseteq past'[p] /\ (live[p] \/ Enabled(r.gid) => live'[p])
      /\ zones[z] \in Zone => zones[z] \in past'[p]
      /\ r.kind = "nodes" /\ view[z] # None => view[z] \in past'[p]
  BY <1>1, <1>2, <1>3, <1>4, Histories
<1>6. r.nodes \subseteq UNION {v.cons \cup v.allow : v \in past'[p]}
  <2>1. CASE r.nodes \subseteq UNION {v.cons \cup v.allow : v \in past[p]}
    BY <1>5, <2>1
  <2>2. CASE /\ r.kind = "nodes" /\ view[z] \in Zone
             /\ r.nodes \subseteq view[z].cons \cup view[z].allow
    BY <1>5, <2>2, AccessAssumption
  <2> QED
    BY <2>1, <2>2
<1>7. r.kind # "nodes" /\ (r.pc = "act" \/ r.out = "ok") => \E v \in past'[p] : Permits(v, p)'
  BY <1>4, <1>5
<1> HIDE DEF z
<1>8. RequestInv(p)'
  <2>1. /\ req'[p].pc \in {"guest", "zone", "authorize", "act", "done"}
        /\ req'[p].gid \in Guests /\ guests'[req'[p].gid] # None
        /\ req'[p].out # "ok" => req'[p].nodes = {} /\ req'[p].refs = {}
        /\ req'[p].pc # "done" => req'[p].out = "none"
    BY <1>1, <1>2
  <2>2. req'[p].kind = "nodes" /\ view'[HomeOf(req[p].gid)'] # None =>
          view'[HomeOf(req[p].gid)'] \in past'[p]
    BY <1>1, <1>4, <1>5
  <2>3. Resolved(p)' => live'[p]
    BY <1>1, <1>5 DEF Resolved
  <2>4. Resolved(p)' /\ req'[p].pc # "done" => req'[p].zid = HomeOf(req[p].gid)'
    BY <1>1, <1>4, <2>1 DEF Resolved, z
  <2>5. Authorized(p)' /\ req'[p].kind # "nodes" => \E v \in past'[p] : Permits(v, p)'
    BY <1>1, <1>7 DEF Authorized
  <2>6. req'[p].nodes \subseteq UNION {v.cons \cup v.allow : v \in past'[p]}
    BY <1>1, <1>6
  <2>7. Addressed(req'[p])
    BY <1>4 DEF Guestly, GuestKinds, Addressed
  <2>8. req'[p].refs # {} =>
          Authorized(p)' /\ req'[p].kind = "router" /\ req'[p].nodes = {req'[p].router}
    BY <1>1, <1>4 DEF Authorized
  <2> QED
    BY <1>4, <2>1, <2>2, <2>3, <2>4, <2>5, <2>6, <2>7, <2>8 DEF RequestInv
<1> QED
  BY <1>2, <1>8, QuietRequestInv

\* What is known of a guest's request when one of its steps begins.
LEMMA GuestNow ==
  ASSUME AccessInv, NEW p \in Requests,
         req[p].pc \in {"guest", "zone", "authorize", "act"}
  PROVE  /\ req[p] \in Request /\ RequestInv(p) /\ Guestly(p)
         /\ req[p].out = "none" /\ req[p].nodes = {} /\ req[p].refs = {}
  BY DEF AccessInv, AccessTypeOK, RequestInv

LEMMA GuestAsksInv == ASSUME AccessInv, Observe, NEW p \in Requests, GuestAsks(p) PROVE AccessInv'
<1>1. PICK b \in Browsers, k \in GuestKinds, x \in Routers, t \in Targets :
        /\ cookie[b] # None
        /\ Begin(p, [NoRequest EXCEPT !.pc = "guest", !.kind = k, !.by = b, !.gid = cookie[b],
                                      !.router = x, !.target = t])
  BY DEF GuestAsks, GuestKinds
<1> DEFINE r == [NoRequest EXCEPT !.pc = "guest", !.kind = k, !.by = b, !.gid = cookie[b],
                                  !.router = x, !.target = t]
<1>2. cookie[b] \in Guests /\ guests[cookie[b]] # None
  BY <1>1 DEF AccessInv, AccessTypeOK, SessionInv
<1>3. /\ r \in Request /\ r.pc = "guest" /\ r.kind = k /\ r.gid = cookie[b] /\ r.out = "none"
      /\ r.nodes = {} /\ r.refs = {}
  BY <1>2, NoRequestIsIdle DEF Request, GuestKinds
<1>4. Step(p, r) /\ req[p].pc = "idle" /\ UNCHANGED <<storeVars, view, viewed, cookie, restarts>>
  BY <1>1 DEF Begin
<1> HIDE DEF r
<1>5. req'[p] = r /\ zones' = zones /\ guests' = guests /\ view' = view
  BY <1>4 DEF AccessInv, AccessTypeOK, Step, storeVars
<1>6. Step0
  BY <1>5 DEF Step0, AccessInv, AccessTypeOK
<1>7. req[p].kind = "none"
  BY <1>4, NoRequestIsIdle DEF AccessInv, RequestInv
<1>8. Guestly(p)' /\ ~Resolved(p)' /\ ~Authorized(p)' /\ Addressed(req'[p])
  BY <1>3, <1>5 DEF Guestly, Resolved, Authorized, GuestKinds, Addressed
<1>9. req'[p].kind = "nodes" /\ view'[HomeOf(req[p].gid)'] # None =>
        view'[HomeOf(req[p].gid)'] \in past'[p]
  BY <1>2, <1>3, <1>5, <1>6, <1>7, <1>8, Histories
<1>10. RequestInv(p)'
  BY <1>2, <1>3, <1>5, <1>8, <1>9 DEF RequestInv
<1> QED
  BY <1>3, <1>4, <1>10, QuietRequestInv

\* The answer "denied" ends a guest's request.
LEMMA DeniedInv ==
  ASSUME AccessInv, Observe, NEW p \in Requests,
         req[p].pc \in {"guest", "zone", "authorize", "act"}, Answer(p, "denied"),
         UNCHANGED <<storeVars, view, viewed, cookie, restarts>>
  PROVE  AccessInv'
<1> DEFINE r == Answered(req[p], "denied")
<1>1. req[p] \in Request /\ RequestInv(p) /\ Guestly(p) /\ req[p].nodes = {} /\ req[p].refs = {}
  BY GuestNow
<1>2. r \in Request /\ r.pc = "done" /\ r.out = "denied" /\ SameRequest(r, req[p])
  BY <1>1, AnsweredRequest
<1>3. Step(p, r)
  BY DEF Answer, Answered
<1> HIDE DEF r
<1> QED
  BY <1>1, <1>2, <1>3, GuestStep DEF SameRequest

LEMMA resolveGuestInv ==
  ASSUME AccessInv, Observe, NEW p \in Requests, resolveGuest(p) PROVE AccessInv'
<1>1. CASE ~Enabled(req[p].gid)
  BY <1>1, DeniedInv DEF resolveGuest
<1>2. CASE Enabled(req[p].gid)
  <2> DEFINE r == [req[p] EXCEPT !.pc = "zone", !.zid = guests[req[p].gid].zone]
  <2>1. /\ req[p] \in Request /\ RequestInv(p) /\ Guestly(p)
        /\ req[p].out = "none" /\ req[p].nodes = {} /\ req[p].refs = {}
    BY GuestNow DEF resolveGuest
  <2>2. guests[req[p].gid].zone \in Zones
    BY <1>2, <2>1 DEF RequestInv, AccessInv, AccessTypeOK, Guest
  <2>3. /\ r \in Request /\ r.pc = "zone" /\ r.zid = HomeOf(req[p].gid) /\ r.kind = req[p].kind
        /\ r.gid = req[p].gid /\ r.router = req[p].router /\ r.target = req[p].target
        /\ r.nodes = {} /\ r.refs = {} /\ r.out = "none"
    BY <2>1, <2>2 DEF Request, HomeOf
  <2>4. Step(p, r) /\ UNCHANGED <<storeVars, view, viewed, cookie, restarts>>
    BY <1>2 DEF resolveGuest
  <2> HIDE DEF r
  <2> QED
    BY <1>2, <2>1, <2>3, <2>4, GuestStep
<1> QED
  BY <1>1, <1>2

LEMMA resolveZoneInv ==
  ASSUME AccessInv, Observe, NEW p \in Requests, resolveZone(p) PROVE AccessInv'
<1>1. CASE ~Exists(req[p].zid)
  BY <1>1, DeniedInv DEF resolveZone
<1>2. CASE Exists(req[p].zid)
  <2> DEFINE pc == IF req[p].kind = "nodes" THEN "act" ELSE "authorize"
             r == Moved(req[p], pc)
  <2>1. /\ req[p] \in Request /\ RequestInv(p) /\ Guestly(p)
        /\ req[p].out = "none" /\ req[p].nodes = {} /\ req[p].refs = {} /\ req[p].pc = "zone"
    BY GuestNow DEF resolveZone
  <2>2. live[p] /\ req[p].zid = HomeOf(req[p].gid)
    BY <2>1 DEF RequestInv, Resolved
  <2>3. r \in Request /\ r.pc = pc /\ r.out = req[p].out /\ SameRequest(r, req[p])
    BY <2>1, MovedRequest
  <2>4. Step(p, r) /\ UNCHANGED <<storeVars, view, viewed, cookie, restarts>>
    BY <1>2 DEF resolveZone, Go, Moved
  <2> HIDE DEF r
  <2> QED
    BY <2>1, <2>2, <2>3, <2>4, GuestStep DEF SameRequest
<1> QED
  BY <1>1, <1>2

LEMMA authorizeInv ==
  ASSUME AccessInv, Observe, NEW p \in Requests, authorize(p) PROVE AccessInv'
<1>1. CASE Answer(p, "denied")
  BY <1>1, DeniedInv DEF authorize
<1>2. CASE ~Answer(p, "denied")
  <2> DEFINE r == Moved(req[p], "act")
  <2>1. /\ req[p] \in Request /\ RequestInv(p) /\ Guestly(p)
        /\ req[p].out = "none" /\ req[p].nodes = {} /\ req[p].refs = {} /\ req[p].pc = "authorize"
    BY GuestNow DEF authorize
  <2>2. live[p] /\ req[p].zid = HomeOf(req[p].gid)
    BY <2>1 DEF RequestInv, Resolved
  <2>3. r \in Request /\ r.pc = "act" /\ r.out = req[p].out /\ SameRequest(r, req[p])
    BY <2>1, MovedRequest
  <2>4. Step(p, r) /\ UNCHANGED <<storeVars, view, viewed, cookie, restarts>>
    BY <1>2 DEF authorize, Go, Moved
  <2>5. zones[HomeOf(req[p].gid)] \in Zone /\ Permits(zones[HomeOf(req[p].gid)], p)
    BY <1>2, <2>2 DEF authorize, authorizeRouterWrite, routerInZone, Exists, Permits
  <2> HIDE DEF r
  <2> QED
    BY <2>1, <2>2, <2>3, <2>4, <2>5, GuestStep DEF SameRequest
<1> QED
  BY <1>1, <1>2

LEMMA controlInv ==
  ASSUME AccessInv, Observe, NEW p \in Requests, control(p) PROVE AccessInv'
<1>1. CASE Answer(p, "denied")
  BY <1>1, DeniedInv DEF control
<1>2. CASE Answer(p, "ok")
  <2> DEFINE r == Answered(req[p], "ok")
  <2>1. /\ req[p] \in Request /\ RequestInv(p) /\ Guestly(p) /\ req[p].nodes = {} /\ req[p].refs = {}
        /\ req[p].pc = "act" /\ req[p].kind = "write"
    BY GuestNow DEF control
  <2>2. live[p] /\ \E v \in past[p] : Permits(v, p)
    BY <2>1 DEF RequestInv, Resolved, Authorized
  <2>3. r \in Request /\ r.pc = "done" /\ r.out = "ok" /\ SameRequest(r, req[p])
    BY <2>1, AnsweredRequest
  <2>4. Step(p, r) /\ UNCHANGED <<storeVars, view, viewed, cookie, restarts>>
    BY <1>2 DEF control, Answer, Answered
  <2> HIDE DEF r
  <2> QED
    BY <2>1, <2>2, <2>3, <2>4, GuestStep DEF SameRequest
<1> QED
  BY <1>1, <1>2 DEF control

LEMMA showInv ==
  ASSUME AccessInv, Observe, NEW p \in Requests, show(p) PROVE AccessInv'
<1> DEFINE z == HomeOf(req[p].gid)
           R(n, e) == [req[p] EXCEPT !.pc = "done", !.out = "ok", !.nodes = n, !.refs = e]
<1>1. /\ req[p] \in Request /\ RequestInv(p) /\ Guestly(p)
      /\ req[p].pc = "act" /\ req[p].kind \in {"nodes", "router"}
      /\ req[p].refs = {}
  BY GuestNow DEF show, Guestly, GuestKinds
<1>2. /\ live[p] /\ req[p].zid = z
      /\ req[p].kind # "nodes" => \E v \in past[p] : Permits(v, p)
  BY <1>1 DEF RequestInv, Resolved, Authorized
<1>3. z \in Zones /\ view[z] \in Zone \cup {None} /\ req[p].router \in Routers
  BY <1>1 DEF RequestInv, AccessInv, AccessTypeOK, Guest, HomeOf, Request
<1>4. \A v \in Zone : v.cons \subseteq Routers /\ v.allow \subseteq Exits
  BY AccessAssumption
<1>5. UNCHANGED <<storeVars, view, viewed, cookie, restarts>>
  BY DEF show
<1>6. ASSUME NEW n \in SUBSET (Routers \cup Exits), NEW e \in SUBSET Exits
      PROVE  /\ R(n, e) \in Request
             /\ R(n, e).pc = "done" /\ R(n, e).out = "ok" /\ R(n, e).nodes = n
             /\ R(n, e).refs = e /\ R(n, e).kind = req[p].kind /\ R(n, e).gid = req[p].gid
             /\ R(n, e).router = req[p].router /\ R(n, e).target = req[p].target
  <2> DEFINE a == Answered(req[p], "ok")
             b == [a EXCEPT !.nodes = n]
  <2>1. a \in Request
    BY <1>1, AnsweredRequest
  <2>2. b \in Request
    <3> HIDE DEF a
    <3> QED
      BY <2>1 DEF Request
  <2>3. [b EXCEPT !.refs = e] \in Request
    <3> HIDE DEF b
    <3> QED
      BY <2>2 DEF Request
  <2> QED
    BY <1>1, <2>3 DEF Answered, Request
<1>7. CASE Answer(p, "denied")
  BY <1>1, <1>5, <1>7, DeniedInv
<1>8. CASE /\ req[p].kind = "nodes"
           /\ Step(p, [req[p] EXCEPT !.pc = "done", !.out = "ok",
                                     !.nodes = FilterSnapshotToZone(req[p].zid)])
  <2> DEFINE n == FilterSnapshotToZone(req[p].zid)
             r == R(n, {})
  <2>1. /\ n \subseteq Routers \cup Exits
        /\ \/ n \subseteq UNION {v.cons \cup v.allow : v \in past[p]}
           \/ view[z] \in Zone /\ n \subseteq view[z].cons \cup view[z].allow
    BY <1>2, <1>3, <1>4 DEF FilterSnapshotToZone
  <2>2. r = [req[p] EXCEPT !.pc = "done", !.out = "ok", !.nodes = n]
    BY <1>1 DEF Request
  <2>3. Step(p, r)
    BY <1>8, <2>2
  <2>4. /\ r \in Request /\ r.pc = "done" /\ r.out = "ok" /\ r.nodes = n /\ r.refs = {}
        /\ r.kind = req[p].kind /\ r.gid = req[p].gid
        /\ r.router = req[p].router /\ r.target = req[p].target
    <3> HIDE DEF R, n
    <3>1. n \in SUBSET (Routers \cup Exits) /\ {} \in SUBSET Exits
      BY <2>1
    <3> QED
      BY <1>6, <3>1
  <2> HIDE DEF r, n
  <2> QED
    BY <1>1, <1>2, <1>5, <1>8, <2>1, <2>3, <2>4, GuestStep
<1>9. CASE /\ req[p].kind = "router"
           /\ \E current, desired \in Targets :
                Step(p, [req[p] EXCEPT !.pc = "done", !.out = "ok", !.nodes = {req[p].router},
                                       !.refs = exitRefs(current, desired)])
  <2>1. PICK current, desired \in Targets : Step(p, R({req[p].router}, exitRefs(current, desired)))
    BY <1>9
  <2> DEFINE n == {req[p].router}
             e == exitRefs(current, desired)
             r == R(n, e)
  <2>2. n \subseteq Routers \cup Exits /\ e \subseteq Exits
    BY <1>3 DEF exitRefs, Targets
  <2>3. n \subseteq UNION {v.cons \cup v.allow : v \in past[p]}
    BY <1>2, <1>9 DEF Permits
  <2>4. Step(p, r)
    BY <2>1
  <2>5. /\ r \in Request /\ r.pc = "done" /\ r.out = "ok" /\ r.nodes = n /\ r.refs = e
        /\ r.kind = req[p].kind /\ r.gid = req[p].gid
        /\ r.router = req[p].router /\ r.target = req[p].target
    <3> HIDE DEF R, n, e
    <3>1. n \in SUBSET (Routers \cup Exits) /\ e \in SUBSET Exits
      BY <2>2
    <3> QED
      BY <1>6, <3>1
  <2>6. r.nodes = {r.router}
    BY <2>5
  <2> HIDE DEF r, n, e
  <2> QED
    BY <1>1, <1>2, <1>5, <1>9, <2>3, <2>4, <2>5, <2>6, GuestStep
<1> QED
  BY <1>7, <1>8, <1>9 DEF show

-----------------------------------------------------------------------------
(* Changes of the stores, and what is published                            *)

\* A step of an administrator's request that changes a store or the view.
LEMMA AdminStep ==
  ASSUME AccessInv, Observe, Step0, NEW p \in Requests, NEW r \in Request, Step(p, r),
         UNCHANGED <<cookie, restarts>>,
         view' \in [Zones -> Zone \cup {None}], viewed' \in BOOLEAN, ViewInv', ZonesPublished',
         r.kind \notin GuestKinds, r.nodes = {} /\ r.refs = {}, r.pc \in {"refresh", "done"}, Addressed(r)
  PROVE  AccessInv'
<1> USE DEF AccessInv
<1>1. req' \in [Requests -> Request] /\ req'[p] = r /\ \A q \in Requests \ {p} : req'[q] = req[q]
  BY DEF AccessTypeOK, Step
<1>2. AccessTypeOK'
  BY <1>1, HistoryTypes DEF AccessTypeOK, Step0
<1>3. SessionInv'
  BY DEF SessionInv, Step0, AccessTypeOK
<1>4. RequestInv(p)'
  BY <1>1, PlainRequest
<1>5. \A q \in Requests : RequestInv(q)'
  BY <1>1, <1>4, OtherRequest
<1> QED
  BY <1>2, <1>3, <1>5

\* A changed zone is unpublished until its handler has rendered the groups.
LEMMA ZoneChangedInv ==
  ASSUME AccessInv, Observe, NEW p \in Requests, req[p].pc = "store", ZoneChanged(p),
         zones' \in [Zones -> Zone \cup {None, Deleted}]
  PROVE  AccessInv'
<1> DEFINE r == Moved(req[p], "refresh")
<1>1. /\ req[p] \in Request /\ req[p].kind \notin GuestKinds /\ req[p].nodes = {} /\ req[p].refs = {}
      /\ Addressed(req[p])
  BY PlainNow
<1>2. r \in Request /\ r.pc = "refresh" /\ SameRequest(r, req[p])
  BY <1>1, MovedRequest
<1>3. Step(p, r) /\ UNCHANGED <<guests, view, viewed, cookie, restarts>>
  BY DEF ZoneChanged, Go, Moved
<1> HIDE DEF r
<1>4. Unrendered'
  BY <1>2, <1>3 DEF Unrendered, Step, AccessInv, AccessTypeOK
<1>5. Step0 /\ ViewInv' /\ ZonesPublished'
  BY <1>3, <1>4 DEF Step0, ViewInv, ZonesPublished, AccessInv, AccessTypeOK
<1>6. view' \in [Zones -> Zone \cup {None}] /\ viewed' \in BOOLEAN
  BY <1>3 DEF AccessInv, AccessTypeOK
<1> QED
  BY <1>1, <1>2, <1>3, <1>5, <1>6, AdminStep DEF SameRequest, Addressed

\* The zone handlers keep the type of the store.
LEMMA ZoneHandlersInv ==
  ASSUME AccessInv, Observe, NEW p \in Requests,
         handleCreateGroup(p) \/ handleUpdateGroup(p) \/ handleDeleteGroup(p)
  PROVE  AccessInv'
<1>1. req[p] \in Request /\ zones \in [Zones -> Zone \cup {None, Deleted}]
  BY DEF AccessInv, AccessTypeOK
<1>2. CASE handleDeleteGroup(p)
  BY <1>1, <1>2, ZoneChangedInv DEF handleDeleteGroup, Doing
<1>3. CASE handleCreateGroup(p) \/ handleUpdateGroup(p)
  <2>1. req[p].val \in Zone \cup {None}
    BY <1>1 DEF Request
  <2>2. PICK z : zones' = [zones EXCEPT ![z] = req[p].val]
    BY <1>3 DEF handleCreateGroup, handleUpdateGroup
  <2>3. zones' \in [Zones -> Zone \cup {None, Deleted}]
    BY <1>1, <2>1, <2>2
  <2> QED
    BY <1>3, <2>3, ZoneChangedInv DEF handleCreateGroup, handleUpdateGroup, Doing
<1> QED
  BY <1>2, <1>3

\* The guest handlers neither forget a guest nor move it to another zone.
LEMMA GuestChangedInv ==
  ASSUME AccessInv, Observe, NEW p \in Requests, req[p].pc = "store", NEW g \in Guests, NEW x \in Guest,
         guests[g] = None \/ x.zone = guests[g].zone, GuestChanged(p, g, x)
  PROVE  AccessInv'
<1> DEFINE r == Answered(req[p], "ok")
<1>1. /\ req[p] \in Request /\ req[p].kind \notin GuestKinds /\ req[p].nodes = {} /\ req[p].refs = {}
      /\ Addressed(req[p])
  BY PlainNow
<1>2. r \in Request /\ r.pc = "done" /\ SameRequest(r, req[p])
  BY <1>1, AnsweredRequest
<1>3. /\ Step(p, r) /\ guests' = [guests EXCEPT ![g] = x]
      /\ UNCHANGED <<zones, view, viewed, cookie, restarts>>
  BY DEF GuestChanged, Answer, Answered
<1> HIDE DEF r
<1>4. Unrendered' = Unrendered
  BY <1>2, <1>3 DEF Unrendered, Step, AccessInv, AccessTypeOK
<1>5. x # None
  BY AccessAssumption
<1>6. Step0
  BY <1>3, <1>5 DEF Step0, AccessInv, AccessTypeOK
<1>7. ViewInv' /\ ZonesPublished'
  BY <1>3, <1>4 DEF ViewInv, ZonesPublished, AccessInv, buildGroupViews, Exists
<1>8. view' \in [Zones -> Zone \cup {None}] /\ viewed' \in BOOLEAN
  BY <1>3 DEF AccessInv, AccessTypeOK
<1> QED
  BY <1>1, <1>2, <1>3, <1>6, <1>7, <1>8, AdminStep DEF SameRequest, Addressed

LEMMA GuestHandlersInv ==
  ASSUME AccessInv, Observe, NEW p \in Requests,
         handleCreateGuest(p) \/ handleSetGuestDisabled(p) \/ handleDeleteGuest(p)
  PROVE  AccessInv'
<1>1. /\ req[p] \in Request /\ guests \in [Guests -> Guest \cup {None}] /\ req[p].pc = "store"
      /\ Addressed(req[p])
  BY DEF AccessInv, AccessTypeOK, RequestInv, handleCreateGuest, handleSetGuestDisabled,
         handleDeleteGuest, Doing
<1>2. CASE handleSetGuestDisabled(p) \/ handleDeleteGuest(p)
  <2> DEFINE g == req[p].gid
  <2>1. PICK st \in {"enabled", "disabled", "deleted"} :
          GuestChanged(p, g, [guests[g] EXCEPT !.status = st])
    BY <1>1, <1>2 DEF handleSetGuestDisabled, handleDeleteGuest, Request
  <2> DEFINE x == [guests[g] EXCEPT !.status = st]
  <2>2. g \in Guests /\ guests[g] # None
    BY <1>1, <1>2 DEF handleSetGuestDisabled, handleDeleteGuest, Doing, Addressed, Known
  <2>3. x \in Guest /\ x.zone = guests[g].zone
    BY <1>1, <2>2 DEF Guest
  <2> HIDE DEF x, g
  <2> QED
    BY <1>1, <2>1, <2>2, <2>3, GuestChangedInv DEF x
<1>3. CASE handleCreateGuest(p)
  <2> DEFINE x == [zone |-> req[p].zid, status |-> "enabled"]
  <2>1. PICK g \in Guests : guests[g] = None /\ GuestChanged(p, g, x)
    BY <1>3 DEF handleCreateGuest
  <2>2. x \in Guest
    BY <1>1, <1>3 DEF handleCreateGuest, Doing, Addressed, Guest
  <2> HIDE DEF x
  <2> QED
    BY <1>1, <2>1, <2>2, GuestChangedInv
<1> QED
  BY <1>2, <1>3

\* What is rendered has the type of a view.
LEMMA RenderedType ==
  ASSUME AccessInv PROVE buildGroupViews \in [Zones -> Zone \cup {None}]
  BY DEF AccessInv, AccessTypeOK, buildGroupViews, Exists

LEMMA RefreshGroupsInv ==
  ASSUME AccessInv, Observe, NEW p \in Requests, RefreshGroups(p) PROVE AccessInv'
<1> DEFINE r == Answered(req[p], "ok")
<1>1. /\ req[p] \in Request /\ req[p].kind \notin GuestKinds /\ req[p].nodes = {} /\ req[p].refs = {}
      /\ Addressed(req[p])
  BY PlainNow DEF RefreshGroups
<1>2. r \in Request /\ r.pc = "done" /\ SameRequest(r, req[p])
  BY <1>1, AnsweredRequest
<1>3. /\ Step(p, r) /\ view' = buildGroupViews /\ viewed' = TRUE
      /\ UNCHANGED <<zones, guests, cookie, restarts>>
  BY DEF RefreshGroups, Answer, Answered, storeVars
<1> HIDE DEF r
<1>4. Step0
  BY <1>3 DEF Step0, AccessInv, AccessTypeOK
<1>5. ViewInv' /\ ZonesPublished'
  BY <1>3 DEF ViewInv, ZonesPublished, buildGroupViews, Exists
<1>6. view' \in [Zones -> Zone \cup {None}] /\ viewed' \in BOOLEAN
  BY <1>3, RenderedType
<1> QED
  BY <1>1, <1>2, <1>3, <1>4, <1>5, <1>6, AdminStep DEF SameRequest, Addressed

LEMMA PollInv == ASSUME AccessInv, Observe, Poll PROVE AccessInv'
<1> USE DEF AccessInv, Poll, storeVars
<1>1. AccessTypeOK'
  BY HistoryTypes, RenderedType DEF AccessTypeOK
<1>2. SessionInv' /\ ViewInv'
  BY DEF SessionInv, ViewInv
<1>3. ZonesPublished'
  BY DEF ZonesPublished, buildGroupViews, Exists
<1>4. Step0
  BY DEF Step0, AccessTypeOK
<1> QED
  BY <1>1, <1>2, <1>3, <1>4, OtherRequest

LEMMA RestartInv == ASSUME AccessInv, Observe, Restart PROVE AccessInv'
<1> USE DEF AccessInv, Restart, storeVars
<1>1. req' \in [Requests -> Request] /\ \A p \in Requests : req'[p] = NoRequest
  BY NoRequestIsIdle
<1>2. restarts' \in 0..MaxRestarts
  BY AccessAssumption DEF AccessTypeOK
<1>3. /\ view' \in [Zones -> Zone \cup {None}] /\ viewed' \in BOOLEAN
      /\ cookie' \in [Browsers -> Guests \cup {None}]
  OBVIOUS
<1>4. AccessTypeOK'
  BY <1>1, <1>2, <1>3, HistoryTypes DEF AccessTypeOK
<1>5. SessionInv' /\ ViewInv' /\ ZonesPublished'
  BY DEF SessionInv, ViewInv, ZonesPublished
<1>6. \A p \in Requests : RequestInv(p)'
  BY <1>1, PlainRequest, NoRequestIsIdle DEF GuestKinds
<1> QED
  BY <1>4, <1>5, <1>6

LEMMA AccessStutter == ASSUME AccessInv, UNCHANGED vars PROVE AccessInv'
<1> USE DEF AccessInv, vars
<1>1. AccessTypeOK' /\ SessionInv' /\ ViewInv' /\ ZonesPublished'
  BY DEF AccessTypeOK, SessionInv, ViewInv, ZonesPublished, Unrendered, buildGroupViews, Exists
<1>2. \A p \in Requests : RequestInv(p)'
  BY DEF RequestInv, Guestly, Resolved, Authorized, Permits, HomeOf
<1> QED
  BY <1>1, <1>2

LEMMA AccessNextInv == ASSUME AccessInv, [Next]_vars PROVE AccessInv'
<1>1. ASSUME NEW p \in Requests, Handler(p), Observe PROVE AccessInv'
  BY <1>1, LoginInv, CompareInv, GuestAsksInv, AdminAsksInv, FinishInv, resolveGuestInv,
     resolveZoneInv, authorizeInv, controlInv, showInv, CheckInv, RefreshGroupsInv,
     ZoneHandlersInv, GuestHandlersInv
     DEF Handler
<1> QED
  BY <1>1, EndSessionInv, PollInv, RestartInv, AccessStutter DEF Next

LEMMA AccessInvariant == Spec => []AccessInv
  BY AccessInitInv, AccessNextInv, PTL DEF Spec

-----------------------------------------------------------------------------
\* Stores, sessions, requests and histories keep their types.
THEOREM AccessTypeCorrect == Spec => []AccessTypeOK
<1>1. AccessInv => AccessTypeOK
  BY DEF AccessInv
<1> QED
  BY <1>1, AccessInvariant, PTL

\* Whatever an administrator does meanwhile, a guest's write that is carried out
\* (handleSetExitNode, handleKeep, handleProbe behind resolveSubject and
\* authorizeRouterWrite) was made by a guest that was enabled, on a router and
\* for an exit node that its zone, as the store had it at one time during the
\* request, listed together.
THEOREM GuestsActInZone == Spec => []GuestActsInZone
<1>1. AccessInv => GuestActsInZone
  BY DEF AccessInv, RequestInv, GuestActsInZone, Resolved, Authorized, Guestly, GuestKinds, Permits
<1> QED
  BY <1>1, AccessInvariant, PTL

\* The nodes that handleNodes and handleRouter show a guest are of its own zone, as
\* it was during the request or, in a list of nodes, was published when the
\* request came in.  The exit nodes that routerViewDTO refers to need not be of
\* the zone, but the router they are given for is.
THEOREM GuestsSeeZone == Spec => []GuestSeesZone
<1>1. ASSUME AccessInv PROVE GuestSeesZone
  <2> SUFFICES ASSUME NEW p \in Requests
               PROVE  /\ req[p].nodes # {} =>
                           /\ live[p]
                           /\ req[p].nodes \subseteq UNION {v.cons \cup v.allow : v \in past[p]}
                      /\ req[p].refs # {} =>
                           \E r \in Routers :
                             req[p].nodes = {r} /\ \E v \in past[p] : r \in v.cons
    BY DEF GuestSeesZone
  <2>1. RequestInv(p) /\ req[p] \in Request
    BY <1>1 DEF AccessInv, AccessTypeOK
  <2>2. req[p].nodes # {} => live[p]
    BY <2>1 DEF RequestInv, Resolved, Guestly, GuestKinds
  <2>3. ASSUME req[p].refs # {}
        PROVE  \E r \in Routers : req[p].nodes = {r} /\ \E v \in past[p] : r \in v.cons
    <3>1. req[p].nodes = {req[p].router} /\ \E v \in past[p] : req[p].router \in v.cons
      BY <2>1, <2>3 DEF RequestInv, Permits
    <3> QED
      BY <2>1, <3>1 DEF Request
  <2> QED
    BY <2>1, <2>2, <2>3 DEF RequestInv
<1> QED
  BY <1>1, AccessInvariant, PTL

\* An answered edit of a zone is in the published snapshot: RefreshGroups and
\* refreshOnce render the live store, so no concurrent poll brings back an old one.
THEOREM ZonesArePublished == Spec => []ZonesPublished
<1>1. AccessInv => ZonesPublished
  BY DEF AccessInv
<1> QED
  BY <1>1, AccessInvariant, PTL
=============================================================================
