------------------------------- MODULE Poller -------------------------------
(***************************************************************************)
(* internal/poller/poller.go over the router client: the published         *)
(* snapshot and its four writers, SetExitNode, Keep, Probe and the poll.   *)
(*                                                                         *)
(* Everything done under Poller.mu in one go is one action; what runs      *)
(* outside it (the inventory, every SSH command, the lock-free read of the *)
(* snapshot) is a step of its own.  Each request runs in its own           *)
(* goroutine, the poll in one of its own (singleflight).                   *)
(*                                                                         *)
(* Left out: statistics, error texts, the egress result (advisory), the    *)
(* zone views.  Broadcast is the hub's business.                           *)
(***************************************************************************)
EXTENDS RouterClient

CONSTANTS
  Ops,          \* HTTP requests, one goroutine each
  PollLoop,     \* the poller's own goroutine
  Mode,         \* where the router list comes from, see Addrs
  RequireKeep,  \* -require-keep
  EgressCheck,  \* -egress-check
  Allowed,      \* Allowed[r]: exit nodes the zones of r allow (all, if none)
  Netmaps,      \* inventories the tailnet can show
  Requests,     \* bounds of the model: kinds of request made,
  Targets,      \* selections asked for,
  MaxFaults,    \* commands that fail,
  MaxRestarts   \* restarts of tsctl

Never == -1                       \* the zero time.Time
Times == Nat \cup {Never}
Reach == {"online", "offline", "absent"}
Nodes == Routers \cup Exits
States == {"gone", "ok", "pending", "unconfirmed", "unreachable",
           "awaiting-keep", "unprobed"}

ASSUME PollerAssumption ==
  /\ Procs = Ops \cup {PollLoop} /\ PollLoop \notin Ops
  /\ Mode \in {"explicit", "tagged", "fallback"}
  /\ RequireKeep \in BOOLEAN /\ EgressCheck \in BOOLEAN
  /\ Allowed \in [Routers -> SUBSET Exits]
  /\ Netmaps \subseteq [Nodes -> Reach] /\ Netmaps # {}
  /\ Requests \subseteq {"set", "keep", "probe"} /\ Targets \subseteq Selections
  /\ MaxRestarts \in Nat /\ MaxFaults \in Nat

\* store.RouterView; state "gone" is a router the snapshot does not list.
View ==
  [state : States, node : Reach, reach : BOOLEAN,
   cur : Selections,              \* CurrentExitNode, nil = Direct
   des : Selections,              \* Desired, nil = Direct
   since : Times,                 \* DesiredSince
   revertAt : Times]

Gone == [state |-> "gone", node |-> "absent", reach |-> FALSE, cur |-> Direct,
         des |-> Direct, since |-> Never, revertAt |-> Never]

Snapshot == [nodes : [Nodes -> Reach], view : [Routers -> View]]

NoSnapshot == [nodes |-> [n \in Nodes |-> "absent"],
               view |-> [r \in Routers |-> Gone]]

Entry == [marker : Procs, revertAt : Nat, seq : Nat]
NoEntry == [marker |-> Nobody, revertAt |-> Never, seq |-> 0]

Result == [err : Errors, seen : Selections, online : BOOLEAN, marker : Procs \cup {Nobody}]
NoResult == [err |-> "none", seen |-> Direct, online |-> FALSE, marker |-> Nobody]

Op ==
  [pc : {"idle", "intent", "apply", "reread", "egress", "disarm",
         "keeping", "probing", "resolving", "done"},
   router : Routers \cup {Nobody},
   target : Selections, prev : Selections,
   seq : Nat,                     \* mySeq
   gen : Nat,                     \* genAt of a probe
   armAt : Times,
   res : Result,                  \* what ApplyExitNode returned; for a Keep that
                                  \* succeeded, the marker it wrote
   superseded : BOOLEAN]          \* step 3 found a newer set

NoOp == [pc |-> "idle", router |-> Nobody, target |-> Direct, prev |-> Direct,
         seq |-> 0, gen |-> 0, armAt |-> Never, res |-> NoResult,
         superseded |-> FALSE]

Poll ==
  [pc : {"idle", "inventory", "dial"},
   prev : Snapshot,
   nodes : [Nodes -> Reach],
   gen : [Routers -> Nat],        \* genAt
   todo : SUBSET Routers,         \* routers still to dial
   view : [Routers -> View]]      \* the views built so far

NoPoll == [pc |-> "idle", prev |-> NoSnapshot, nodes |-> NoSnapshot.nodes,
           gen |-> [r \in Routers |-> 0], todo |-> {}, view |-> NoSnapshot.view]

VARIABLES
  netmap,      \* the tailnet's inventory
  snap,        \* the published snapshot
  setSeq, setGen, pendingKeep,
  op,          \* op[o]: the request in goroutine o
  poll,        \* refreshOnce
  faults, restarts,
  released     \* history: markers handed to a disarm, found expired, or
               \* forgotten in a restart

pollerVars == <<netmap, snap, setSeq, setGen, pendingKeep, op, poll, faults, restarts, released>>
vars == <<clientVars, pollerVars>>

\* Types: in particular a pendingKeep entry has a marker, that of some set, and a
\* deadline (keepEntry), or there is none.
PollerTypeOK ==
  /\ TypeOK
  /\ netmap \in Netmaps
  /\ snap \in Snapshot
  /\ setSeq \in [Routers -> Nat]
  /\ setGen \in [Routers -> Nat]
  /\ pendingKeep \in [Routers -> Entry \cup {NoEntry}]
  /\ op \in [Ops -> Op]
  /\ poll \in Poll
  /\ faults \in 0..MaxFaults
  /\ restarts \in 0..MaxRestarts
  /\ released \subseteq Procs

Init ==
  /\ ClientInit
  /\ netmap \in Netmaps
  /\ snap = NoSnapshot
  /\ setSeq = [r \in Routers |-> 0]
  /\ setGen = [r \in Routers |-> 0]
  /\ pendingKeep = [r \in Routers |-> NoEntry]
  /\ op = [o \in Ops |-> NoOp]
  /\ poll = NoPoll
  /\ faults = 0
  /\ restarts = 0
  /\ released = {}

-----------------------------------------------------------------------------
(* Helpers                                                                 *)

router(o) == op[o].router
HasEntry(r) == pendingKeep[r] # NoEntry

\* findRouterViewByStableID: a router that is not in the netmap has no id.
Known(r) == snap.view[r].state # "gone" /\ snap.view[r].node # "absent"

\* withRouter, for a router the snapshot lists.
withRouter(r, v) == [snap EXCEPT !.view[r] = v]
Listed(r) == snap.view[r].state # "gone"

\* Make o's next call of the client.
Calls(o, c) ==
  /\ call' = [call EXCEPT ![o] = c]
  /\ UNCHANGED <<clock, sel, timers, written, fired, lock>>

\* A request that has been answered: only its outcome is remembered.
Over(o) == [NoOp EXCEPT !.pc = "done", !.router = op[o].router,
                        !.res.err = op[o].res.err, !.superseded = op[o].superseded]

BumpGen(r) == [setGen EXCEPT ![r] = @ + 1]

\* State derived from a fresh read.
reconcileState(v) ==
  IF v.des # Direct /\ v.cur # v.des /\ (v.since = Never \/ clock - v.since < Window)
    THEN [v EXCEPT !.state = "unconfirmed"]
    ELSE [v EXCEPT !.state = "ok", !.des = Direct, !.since = Never]

\* Fault: an expired entry is dropped, the view keeps its gate.
Reverted_Stays(v) == v

\* A confirmed but unkept selection whose window is over: unknown again.
Reverted(v) ==
  IF v.state = "awaiting-keep"
    THEN [v EXCEPT !.state = "unprobed", !.revertAt = Never, !.cur = Direct,
                   !.des = Direct, !.since = Never, !.reach = FALSE]
    ELSE v

-----------------------------------------------------------------------------
(* SetExitNode                                                             *)

preflight(r, target) ==
  target # Direct =>
    /\ target # r
    /\ snap.nodes[target] = "online"
    /\ target \in Allowed[r]

SetExitNode(o, r, target) ==
  /\ op[o].pc = "idle"
  /\ Known(r) /\ preflight(r, target)
  /\ op' = [op EXCEPT ![o] = [NoOp EXCEPT !.pc = "intent", !.router = r,
                                          !.target = target,
                                          !.prev = snap.view[r].cur]]
  /\ UNCHANGED clientVars
  /\ UNCHANGED <<netmap, snap, setSeq, setGen, pendingKeep, poll, faults, restarts, released>>

autoKeep(target) == ~RequireKeep \/ target = Direct

\* Step 1, and the call of ApplyExitNode that follows it.
SetIntent(o) ==
  LET r == router(o)
      v == [snap.view[r] EXCEPT !.des = op[o].target, !.since = Never,
                                !.state = "pending"] IN
  /\ op[o].pc = "intent"
  /\ setSeq' = [setSeq EXCEPT ![r] = @ + 1]
  /\ setGen' = BumpGen(r)
  /\ IF Listed(r)
       THEN /\ snap' = withRouter(r, v)
            /\ op' = [op EXCEPT ![o].pc = "apply", ![o].seq = setSeq[r] + 1,
                                ![o].armAt = clock]
            /\ Calls(o, ApplyCall(o, r, op[o].target, op[o].prev,
                                  autoKeep(op[o].target)))
       ELSE /\ op' = [op EXCEPT ![o] = Over(o)]
            /\ UNCHANGED snap /\ UNCHANGED clientVars
  /\ UNCHANGED <<netmap, pendingKeep, poll, faults, restarts, released>>

ApplyResult(o) ==
  IF op[o].pc = "apply"
    THEN [err |-> call[o].err, seen |-> call[o].seen, online |-> call[o].online,
          marker |-> call[o].marker]
    ELSE op[o].res

\* The command to run after ApplyExitNode returned: the best-effort re-read of
\* a hard failure, or the egress probe of a confirmed set.
FollowUp(o) ==
  CASE call[o].err = "command" -> "reread"
    [] call[o].err = "none" /\ op[o].target # Direct /\ EgressCheck -> "egress"
    [] OTHER -> "none"

SetFollowUp(o) ==
  /\ op[o].pc = "apply" /\ Returned(o) /\ FollowUp(o) # "none"
  /\ op' = [op EXCEPT ![o].pc = FollowUp(o), ![o].res = ApplyResult(o)]
  /\ Calls(o, ReadCall(router(o)))
  /\ UNCHANGED <<netmap, snap, setSeq, setGen, pendingKeep, poll, faults, restarts, released>>

\* Fault: an unreachable router is left pending.
Settled_StillPending(o, v0) ==
  IF ApplyResult(o).err = "transport" /\ ~ApplyResult(o).online
    THEN v0
    ELSE [v0 EXCEPT !.state = "ok", !.cur = ApplyResult(o).seen]

\* Step 3: the view the result is reconciled into.
Settled(o, v0) ==
  LET res == ApplyResult(o)
      v == [v0 EXCEPT !.revertAt = Never]
      target == op[o].target IN
  CASE res.err = "none" ->
         [v EXCEPT !.reach = TRUE, !.cur = res.seen, !.des = Direct, !.since = Never,
                   !.state = IF autoKeep(target) THEN "ok" ELSE "awaiting-keep",
                   !.revertAt = IF autoKeep(target) THEN Never ELSE op[o].armAt + Window]
    [] res.err = "command" /\ call[o].err = "none" ->       \* re-read
         [v EXCEPT !.des = Direct, !.since = Never, !.reach = TRUE,
                   !.cur = call[o].seen, !.state = "ok"]
    [] res.err = "command" /\ call[o].err # "none" ->
         [v EXCEPT !.des = Direct, !.since = Never, !.reach = FALSE,
                   !.state = "unreachable"]
    [] res.err \in {"transport", "mismatch"} /\ res.online ->
         [v EXCEPT !.reach = TRUE, !.cur = res.seen, !.des = target,
                   !.since = op[o].armAt, !.state = "unconfirmed"]
    [] res.err \in {"transport", "mismatch"} /\ ~res.online ->
         [v EXCEPT !.reach = FALSE, !.des = target, !.since = op[o].armAt,
                   !.state = "unreachable"]

\* Fault: the entry is recorded whatever came of the set.
GateAfter_Always(o) ==
  [marker |-> ApplyResult(o).marker, revertAt |-> op[o].armAt + Window, seq |-> op[o].seq]

\* Fault: the window is counted from step 3.
GateAfter_FromNow(o) ==
  LET res == ApplyResult(o) IN
  CASE res.err = "none" /\ ~autoKeep(op[o].target) ->
         [marker |-> res.marker, revertAt |-> clock + Window, seq |-> op[o].seq]
    [] res.err = "none" /\ autoKeep(op[o].target) -> NoEntry
    [] OTHER -> pendingKeep[router(o)]

\* The gate after step 3 of a set that is published.
GateAfter(o) ==
  LET res == ApplyResult(o) IN
  CASE res.err = "none" /\ ~autoKeep(op[o].target) ->
         [marker |-> res.marker, revertAt |-> op[o].armAt + Window, seq |-> op[o].seq]
    [] res.err = "none" /\ autoKeep(op[o].target) -> NoEntry
    [] OTHER -> pendingKeep[router(o)]

\* Fault: only a set that is not published disarms its timer.
Disarm_OwnOnly(o, published) == IF published THEN Nobody ELSE ApplyResult(o).marker

\* Fault: the set's own marker is written, published or not.
Disarm_Own(o, published) == ApplyResult(o).marker

\* The marker to write so that its timer cannot undo the selection that won:
\* the gate this set replaces, or the set's own if it is not published.
Disarm(o, published) ==
  LET res == ApplyResult(o) IN
  CASE ~published -> res.marker
    [] published /\ res.err = "none" -> pendingKeep[router(o)].marker
    [] OTHER -> Nobody

\* Step 3.
SetSettle(o) ==
  LET r == router(o)
      superseded == setSeq[r] # op[o].seq
      published == Listed(r) /\ ~superseded
      m == Disarm(o, published) IN
  /\ \/ op[o].pc = "apply" /\ Returned(o) /\ FollowUp(o) = "none"
     \/ op[o].pc \in {"reread", "egress"} /\ Returned(o)
  /\ setGen' = BumpGen(r)
  /\ snap' = IF published THEN withRouter(r, Settled(o, snap.view[r])) ELSE snap
  /\ pendingKeep' = IF published THEN [pendingKeep EXCEPT ![r] = GateAfter(o)]
                                 ELSE pendingKeep
  /\ op' = [op EXCEPT ![o] = [NoOp EXCEPT !.pc = IF m = Nobody THEN "done" ELSE "disarm",
                                          !.router = r,
                                          !.res.err = ApplyResult(o).err,
                                          !.superseded = superseded]]
  /\ Calls(o, IF m = Nobody THEN NoCall ELSE KeepCall(r, m))
  /\ released' = released \cup ({m} \ {Nobody})
  /\ UNCHANGED <<netmap, setSeq, poll, faults, restarts>>

\* The disarm is best effort: a failure is only logged.
SetDisarmed(o) ==
  /\ op[o].pc = "disarm" /\ Returned(o)
  /\ op' = [op EXCEPT ![o] = Over(o)]
  /\ Calls(o, NoCall)
  /\ UNCHANGED <<netmap, snap, setSeq, setGen, pendingKeep, poll, faults, restarts, released>>

-----------------------------------------------------------------------------
(* Keep                                                                    *)

\* Keep looks the router up in the snapshot it loads without the lock, then
\* validates the entry under mu.  The step is the second part, and asks nothing of
\* the snapshot as it is by then: a router with an entry was listed when its set
\* began, and a request may have loaded the snapshot at that time.
\* The entry is there, within its window and of the newest set: write its
\* marker.  (The other refusals change nothing.)
Keep(o, r) ==
  LET e == pendingKeep[r] IN
  /\ op[o].pc = "idle" /\ HasEntry(r)
  /\ clock <= e.revertAt /\ e.seq = setSeq[r]
  /\ op' = [op EXCEPT ![o] = [NoOp EXCEPT !.pc = "keeping", !.router = r,
                                          !.seq = e.seq, !.res.marker = e.marker]]
  /\ Calls(o, KeepCall(r, e.marker))
  /\ UNCHANGED <<netmap, snap, setSeq, setGen, pendingKeep, poll, faults, restarts, released>>

\* The window is over: drop the entry and the view's gate, refuse.
KeepElapsed(o, r) ==
  /\ op[o].pc = "idle" /\ HasEntry(r)
  /\ clock > pendingKeep[r].revertAt
  /\ pendingKeep' = [pendingKeep EXCEPT ![r] = NoEntry]
  /\ released' = released \cup {pendingKeep[r].marker}
  /\ setGen' = BumpGen(r)
  /\ snap' = IF Listed(r) THEN withRouter(r, Reverted(snap.view[r])) ELSE snap
  /\ UNCHANGED clientVars
  /\ UNCHANGED <<netmap, setSeq, op, poll, faults, restarts>>

\* KeepExitNode failed: the entry stays for a retry.
KeepFailed(o) ==
  /\ op[o].pc = "keeping" /\ Returned(o) /\ call[o].err # "none"
  /\ op' = [op EXCEPT ![o] = Over(o)]
  /\ Calls(o, NoCall)
  /\ UNCHANGED <<netmap, snap, setSeq, setGen, pendingKeep, poll, faults, restarts, released>>

KeepSettle(o) ==
  LET r == router(o) IN
  /\ op[o].pc = "keeping" /\ Returned(o) /\ call[o].err = "none"
  /\ IF setSeq[r] # op[o].seq
       THEN /\ op' = [op EXCEPT ![o] = Over(o)]
            /\ UNCHANGED <<snap, setGen, pendingKeep>>
       ELSE /\ setGen' = BumpGen(r)
            /\ op' = [op EXCEPT ![o] = [Over(o) EXCEPT !.res.marker = op[o].res.marker]]
            /\ pendingKeep' = [pendingKeep EXCEPT ![r] = NoEntry]
            /\ snap' = IF Listed(r)
                         THEN withRouter(r, [snap.view[r] EXCEPT !.state = "ok",
                                                                 !.revertAt = Never])
                         ELSE snap
  /\ Calls(o, NoCall)
  /\ UNCHANGED <<netmap, setSeq, poll, faults, restarts, released>>

-----------------------------------------------------------------------------
(* Probe and resolveAfterProbe                                             *)

Probe(o, r) ==
  /\ op[o].pc = "idle" /\ Known(r) /\ snap.view[r].node = "online"
  /\ op' = [op EXCEPT ![o] = [NoOp EXCEPT !.pc = "probing", !.router = r]]
  /\ Calls(o, ReadCall(r))
  /\ UNCHANGED <<netmap, snap, setSeq, setGen, pendingKeep, poll, faults, restarts, released>>

\* The probe answered: read the selection, unless a gate owns the router.
ProbeResolve(o) ==
  LET r == router(o)
      resolve == call[o].err = "none" /\ ~HasEntry(r) IN
  /\ op[o].pc = "probing" /\ Returned(o)
  /\ op' = [op EXCEPT ![o] = IF resolve
                                THEN [@ EXCEPT !.pc = "resolving", !.gen = setGen[r]]
                                ELSE Over(o)]
  /\ Calls(o, IF resolve THEN ReadCall(r) ELSE NoCall)
  /\ UNCHANGED <<netmap, snap, setSeq, setGen, pendingKeep, poll, faults, restarts, released>>

ProbeSettle(o) ==
  LET r == router(o)
      publish == /\ call[o].err = "none" /\ ~HasEntry(r) /\ Listed(r)
                 /\ setGen[r] = op[o].gen
      read == [snap.view[r] EXCEPT !.reach = TRUE, !.cur = call[o].seen] IN
  /\ op[o].pc = "resolving" /\ Returned(o)
  /\ snap' = IF publish THEN withRouter(r, reconcileState(read)) ELSE snap
  /\ setGen' = IF publish THEN BumpGen(r) ELSE setGen
  /\ op' = [op EXCEPT ![o] = Over(o)]
  /\ Calls(o, NoCall)
  /\ UNCHANGED <<netmap, setSeq, pendingKeep, poll, faults, restarts, released>>

-----------------------------------------------------------------------------
(* refreshOnce                                                             *)

\* -routers, the tag:router nodes, or every other node that is no exit node.
Addrs(nodes) ==
  IF Mode = "explicit" THEN Routers ELSE {r \in Routers : nodes[r] # "absent"}

Dialed == Mode # "fallback"

\* What a built view carries over from the previous snapshot.
Carried(r, nodes, prev) ==
  [Gone EXCEPT !.node = nodes[r], !.cur = prev.view[r].cur,
               !.des = prev.view[r].des, !.since = prev.view[r].since]

Unreachable(v) == [v EXCEPT !.state = "unreachable"]

\* buildRouterView after the dial; c is the Status call that returned.
buildRouterView(v, c) ==
  IF c.err = "none"
    THEN reconcileState([v EXCEPT !.reach = TRUE, !.cur = c.seen])
    ELSE Unreachable(v)

buildListedRouterView(r, nodes, prev) ==
  LET v == Carried(r, nodes, prev)
      p == prev.view[r] IN
  CASE nodes[r] = "offline" -> Unreachable(v)
    [] nodes[r] # "offline" /\ p.state \in {"ok", "unconfirmed", "pending", "awaiting-keep"} ->
         [v EXCEPT !.state = p.state, !.reach = p.reach, !.revertAt = p.revertAt]
    [] OTHER -> [v EXCEPT !.state = "unprobed"]

\* Dial the next router, if there is one.
DialNext(todo) ==
  \/ todo = {} /\ Calls(PollLoop, NoCall)
  \/ \E r \in todo : Calls(PollLoop, ReadCall(r))

PollStart ==
  /\ poll.pc = "idle"
  /\ poll' = [NoPoll EXCEPT !.pc = "inventory", !.prev = snap]
  /\ UNCHANGED clientVars
  /\ UNCHANGED <<netmap, snap, setSeq, setGen, pendingKeep, op, faults, restarts, released>>

\* The inventory answers (or fails: the last good one is kept), the router
\* list is fixed and setGen captured.  Routers that are not dialed have
\* their view built here.
PollInventory ==
  /\ poll.pc = "inventory"
  /\ \E nodes \in {netmap, poll.prev.nodes} :
       LET addrs == Addrs(nodes)
           dial == IF Dialed THEN {r \in addrs : nodes[r] # "offline"} ELSE {}
           build(r) ==
             CASE r \notin addrs -> Gone
               [] r \in addrs /\ ~Dialed -> buildListedRouterView(r, nodes, poll.prev)
               [] r \in addrs /\ Dialed /\ nodes[r] = "offline" ->
                    Unreachable(Carried(r, nodes, poll.prev))
               [] OTHER -> Carried(r, nodes, poll.prev) IN
       /\ poll' = [poll EXCEPT !.pc = "dial", !.prev = NoSnapshot, !.nodes = nodes,
                               !.gen = setGen,
                               !.todo = dial,
                               !.view = [r \in Routers |-> build(r)]]
       /\ DialNext(dial)
  /\ UNCHANGED <<netmap, snap, setSeq, setGen, pendingKeep, op, faults, restarts, released>>

PollDialed ==
  LET r == call[PollLoop].router IN
  /\ poll.pc = "dial" /\ Returned(PollLoop)
  /\ poll' = [poll EXCEPT !.todo = @ \ {r},
                          !.view[r] = buildRouterView(@, call[PollLoop])]
  /\ DialNext(poll.todo \ {r})
  /\ UNCHANGED <<netmap, snap, setSeq, setGen, pendingKeep, op, faults, restarts, released>>

Expired(r) == HasEntry(r) /\ clock > pendingKeep[r].revertAt

\* Fault: a poll does not notice what happened during its dials.
Touched_Never(r) == FALSE

Touched(r) == setGen[r] # poll.gen[r]

\* Fault: a fresh read clears the gate.
Merged_NoOverlay(r) ==
  LET v == poll.view[r] IN
  IF v.state # "gone" /\ Touched(r) /\ Listed(r) THEN snap.view[r] ELSE v

\* The merge's choice for one router.
Merged(r) ==
  LET v == poll.view[r] IN
  CASE v.state = "gone" -> Gone
    [] v.state # "gone" /\ Touched(r) ->
         IF Listed(r) THEN snap.view[r] ELSE v
    [] v.state # "gone" /\ ~Touched(r) /\ Expired(r) -> Reverted(v)
    [] v.state # "gone" /\ ~Touched(r) /\ HasEntry(r) /\ ~Expired(r) /\ v.reach ->
         [v EXCEPT !.state = "awaiting-keep", !.revertAt = pendingKeep[r].revertAt]
    [] OTHER -> v

PollMerge ==
  LET dropped == {r \in Routers : poll.view[r].state # "gone" /\ ~Touched(r) /\ Expired(r)} IN
  /\ poll.pc = "dial" /\ poll.todo = {}
  /\ snap' = [nodes |-> poll.nodes, view |-> [r \in Routers |-> Merged(r)]]
  /\ pendingKeep' = [r \in Routers |-> IF r \in dropped THEN NoEntry ELSE pendingKeep[r]]
  /\ released' = released \cup {pendingKeep[r].marker : r \in dropped}
  /\ poll' = NoPoll
  /\ UNCHANGED clientVars
  /\ UNCHANGED <<netmap, setSeq, setGen, op, faults, restarts>>

-----------------------------------------------------------------------------
(* The environment                                                         *)

NetmapChanges ==
  /\ netmap' \in Netmaps \ {netmap}
  /\ UNCHANGED clientVars
  /\ UNCHANGED <<snap, setSeq, setGen, pendingKeep, op, poll, faults, restarts, released>>

\* tsctl stops and starts again: everything it holds in memory is lost, the
\* routers go on.
Restart ==
  /\ restarts < MaxRestarts
  /\ restarts' = restarts + 1
  /\ snap' = NoSnapshot
  /\ setSeq' = [r \in Routers |-> 0]
  /\ setGen' = [r \in Routers |-> 0]
  /\ pendingKeep' = [r \in Routers |-> NoEntry]
  /\ op' = [o \in Ops |-> IF op[o].pc = "idle" THEN NoOp
                          ELSE [NoOp EXCEPT !.pc = "done", !.router = op[o].router]]
  /\ poll' = NoPoll
  /\ lock' = [r \in Routers |-> Nobody]
  /\ call' = [p \in Procs |-> NoCall]
  /\ released' = released \cup {t.marker : t \in timers}
  /\ UNCHANGED <<clock, sel, timers, written, fired, netmap, faults>>

\* A step of the client or of a router.
ClientStep ==
  \/ RouterStep /\ UNCHANGED pollerVars
  \/ \E p \in Procs :
       \/ ProcStep(p) /\ UNCHANGED pollerVars
       \/ /\ faults < MaxFaults /\ Fault(p)
          /\ faults' = faults + 1
          /\ UNCHANGED <<netmap, snap, setSeq, setGen, pendingKeep, op, poll, restarts, released>>

-----------------------------------------------------------------------------

Request(o) ==
  \/ /\ "set" \in Requests
     /\ \E r \in Routers, target \in Targets : SetExitNode(o, r, target)
  \/ "keep" \in Requests /\ \E r \in Routers : Keep(o, r) \/ KeepElapsed(o, r)
  \/ "probe" \in Requests /\ \E r \in Routers : Probe(o, r)

OpStep(o) ==
  \/ SetIntent(o) \/ SetFollowUp(o) \/ SetSettle(o) \/ SetDisarmed(o)
  \/ KeepFailed(o) \/ KeepSettle(o)
  \/ ProbeResolve(o) \/ ProbeSettle(o)

PollStep ==
  \/ PollStart \/ PollInventory \/ PollDialed \/ PollMerge

Next ==
  \/ \E o \in Ops : Request(o) \/ OpStep(o)
  \/ PollStep
  \/ ClientStep
  \/ NetmapChanges
  \/ Restart

SafeSpec == Init /\ [][Next]_vars

-----------------------------------------------------------------------------
(* Properties                                                              *)

view(r) == snap.view[r]

Setting(o) == op[o].pc \in {"intent", "apply", "reread", "egress"}
InFlight(r) == \E o \in Ops : router(o) = r /\ op[o].pc \notin {"idle", "done"}

\* A router shown as pending has a change in flight: SetExitNode's reconcile,
\* a superseding set, a poll that carries state over or a router that comes
\* and goes never leave "pending" behind.
PendingHasOwner ==
  \A r \in Routers :
    view(r).state = "pending" =>
      \E o \in Ops : Setting(o) /\ router(o) = r /\ op[o].seq = setSeq[r]

\* A router shown as awaiting a Keep has a gate that stands, and the deadline it
\* counts down to is that gate's: no poll, probe, older set or Keep takes the one
\* away and leaves the other.  Whether Keep accepts the gate is another matter,
\* see AwaitingIsKeepable.
AwaitingHasGate ==
  \A r \in Routers :
    view(r).state = "awaiting-keep" =>
      HasEntry(r) /\ view(r).revertAt = pendingKeep[r].revertAt

\* A router shown as awaiting a Keep can be kept until its deadline
\* (docs/design/keep-egress.md: "Keep within Ns" with "a **Keep** button", "Keep ->
\* POST /keep -> `ok`").  Keep asks for an entry of the newest set; a set that
\* failed has made itself the newest and left the older set's entry.
AwaitingIsKeepable ==
  \A r \in Routers :
    view(r).state = "awaiting-keep" /\ ~InFlight(r) =>
      HasEntry(r) /\ pendingKeep[r].seq = setSeq[r]

\* While the newest set of a router waits for its Keep, no poll, probe or older
\* set publishes the router as a success: a status read finds the target
\* selected, the setGen guard and the overlay keep it from showing as ok.
NoSuccessWhileGated ==
  \A r \in Routers :
    HasEntry(r) /\ pendingKeep[r].seq = setSeq[r] => view(r).state # "ok"

\* A revert that is still asleep and will find no marker belongs to someone: a
\* set still on its way, a set that failed (its own dead-man's-switch), the
\* gate of the router, or a marker the poller let go of (a disarm it started,
\* an entry it found expired, a restart).  Nothing else may undo a selection.
NoLeakedTimer ==
  \A t \in timers :
    LET o == t.marker IN
    \/ o \in written \cup released
    \/ Setting(o)
    \/ op[o].res.err # "none"
    \/ pendingKeep[t.router].marker = o

\* A gate has its revert behind it: while the page counts down to revertAt, the
\* router will undo the selection at that time or later, unless it is kept.  The
\* entry is written by tsctl after up to five commands, the revert runs on the
\* router's clock: a deadline counted from the wrong moment, or an entry of a
\* set that armed nothing, would let the router revert while Keep is still
\* offered, or not at all.
GateIsLive ==
  \A r \in Routers :
    LET e == pendingKeep[r] IN
    HasEntry(r) =>
      \/ e.marker \in written
      \/ \E t \in timers : t.router = r /\ t.marker = e.marker /\ e.revertAt <= t.due
      \/ e.marker \in fired /\ e.revertAt <= clock

\* Only a Keep of its own router keeps what waits for a Keep.  SetExitNode writes
\* markers too, to disarm the timer of a gate it replaced or of a set that lost;
\* such a disarm may come late, after newer sets, and must never hit the gate
\* that stands by then.
OnlyKeepKeeps ==
  [][\A r \in Routers :
       HasEntry(r) /\ pendingKeep[r].marker \in written' \ written =>
         \E o \in Ops : /\ op[o].pc = "keeping" /\ router(o) = r
                        /\ op[o].res.marker = pendingKeep[r].marker]_vars

\* What the snapshot shows as ok is what the router has selected, once no
\* request is on its way to the router; unless one of tsctl's reverts has
\* fired there, or two sets overlapped (see the residual limitations in
\* docs/design/keep-egress.md).  In particular a poll or a probe that read the
\* router before a set never overwrites the set's result.
NoFalseConfirm ==
  \A r \in Routers :
    /\ view(r).state = "ok"
    /\ ~InFlight(r)
    /\ \A o \in Ops : router(o) = r => o \notin fired /\ ~op[o].superseded
    => view(r).cur = sel[r]

\* -require-keep: an exit node is shown as ok only once it is kept, so never
\* while a revert away from it is asleep and its marker unwritten
\* (docs/design/keep-egress.md: "success is only `ok` after Keep").
OkMeansKept ==
  \A r \in Routers :
    view(r).state = "ok" /\ view(r).cur # Direct =>
      \A t \in timers :
        t.router = r /\ t.prev # view(r).cur => t.marker \in written

\* A Keep that succeeded has cancelled the revert (the comment on Keep:
\* "cancelling the armed dead-man's-switch revert and reconciling the router to
\* RouterOK").
KeepCancelsRevert ==
  \A o \in Ops :
    op[o].pc = "done" /\ op[o].res.marker # Nobody => op[o].res.marker \notin fired
=============================================================================
