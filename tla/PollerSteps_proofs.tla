------------------------- MODULE PollerSteps_proofs -------------------------
(***************************************************************************)
(* What each step of the poller changes and what it leaves alone, and that *)
(* its types are an invariant: the lemmas that the proofs about the poller *)
(* rest on.                                                                *)
(***************************************************************************)
EXTENDS Poller, RouterClient_proofs

-----------------------------------------------------------------------------
(* The inductive invariant, in parts.                                      *)

\* SetExitNode of o is between its intent and step 3.
Sets(o) == op[o].pc \in {"apply", "reread", "egress"}

\* What ApplyExitNode may have answered o: a success was kept, or its marker
\* handed out.
Answer(o, err, marker) ==
  /\ marker \in {o, Nobody}
  /\ err # "none" => marker = Nobody
  /\ err = "none" => IF autoKeep(op[o].target) THEN o \in written ELSE marker = o

\* The client call that goes with each step of a request.
CallOf(o) ==
  LET c == call[o]
      pc == op[o].pc IN
  /\ pc \in {"idle", "intent", "done"} => c = NoCall
  /\ pc \notin {"idle", "done"} => op[o].router \in Routers
  /\ pc \notin {"idle", "intent", "done"} => c.at # "idle" /\ c.router = op[o].router
  /\ pc = "apply" => /\ c.kind = "apply" /\ c.auto = autoKeep(op[o].target)
                     /\ c.at = "done" => Answer(o, c.err, c.marker)
  /\ pc \in {"reread", "egress", "probing", "resolving"} => c.kind = "read"
  /\ pc \in {"disarm", "keeping"} => c.kind = "keep"
  /\ pc = "egress" => op[o].res.err = "none" /\ Answer(o, op[o].res.err, op[o].res.marker)
  /\ pc = "reread" => op[o].res.err = "command" /\ op[o].res.marker = Nobody
  /\ Sets(o) => op[o].armAt \in Nat
  /\ pc = "keeping" => /\ op[o].res.marker \in Procs
                       /\ c.at = "waiting" => c.marker = op[o].res.marker
                       /\ c.at = "done" /\ c.err = "none" => op[o].res.marker \in written

OpInv == \A o \in Ops : CallOf(o)

\* The poll dials one router at a time.
PollInv ==
  IF poll.pc = "dial" /\ poll.todo # {}
    THEN /\ call[PollLoop].kind = "read" /\ call[PollLoop].at # "idle"
         /\ call[PollLoop].router \in poll.todo
    ELSE call[PollLoop] = NoCall

Base == PollerTypeOK /\ CallInv /\ OpInv /\ PollInv

-----------------------------------------------------------------------------
(* Types of the values that the steps build                                *)

LEMMA ProcsFacts ==
  /\ Ops \subseteq Procs /\ PollLoop \in Procs /\ PollLoop \notin Ops
  /\ \A p \in Procs : p # PollLoop => p \in Ops
  /\ Nobody \notin Procs /\ Nobody \notin Routers
BY PollerAssumption, NobodyAssumption

LEMMA NoValueTypes ==
  /\ NoCall \in Call /\ NoResult \in Result /\ NoOp \in Op /\ Gone \in View
  /\ NoSnapshot \in Snapshot /\ NoPoll \in Poll
<1>1. NoCall \in Call
  BY DEF NoCall, Call, Selections, Commands, Errors
<1>2. NoResult \in Result
  BY DEF NoResult, Result, Selections, Errors
<1>3. NoOp \in Op
  BY <1>2 DEF NoOp, Op, Selections, Times, Never
<1>4. Gone \in View
  BY DEF Gone, View, Selections, Times, Never, States, Reach
<1>5. NoSnapshot \in Snapshot
  BY <1>4 DEF NoSnapshot, Snapshot, Reach
<1>6. NoPoll \in Poll
  BY <1>4, <1>5 DEF NoPoll, Poll, NoSnapshot, Reach, Snapshot
<1> QED BY <1>1, <1>2, <1>3, <1>4, <1>5, <1>6

LEMMA OverFacts ==
  ASSUME NEW o \in Ops, op \in [Ops -> Op]
  PROVE  /\ Over(o) \in Op /\ Over(o).pc = "done"
         /\ Over(o).router = op[o].router /\ Over(o).res.err = op[o].res.err
         /\ Over(o).superseded = op[o].superseded
<1>1. op[o] \in Op /\ op[o].res \in Result
  BY DEF Op
<1> QED BY <1>1 DEF Over, NoOp, NoResult, Op, Result, Selections, Times, Never

\* A view published for router r.
LEMMA WithRouter ==
  ASSUME snap \in Snapshot, NEW r \in Routers, NEW v \in View
  PROVE  /\ withRouter(r, v) \in Snapshot
         /\ withRouter(r, v).nodes = snap.nodes
         /\ withRouter(r, v).view[r] = v
         /\ \A q \in Routers : q # r => withRouter(r, v).view[q] = snap.view[q]
BY DEF withRouter, Snapshot

\* State after a fresh read.
LEMMA ReconcileFacts ==
  ASSUME NEW v \in View
  PROVE  /\ reconcileState(v) \in View
         /\ reconcileState(v).state \in {"ok", "unconfirmed"}
         /\ reconcileState(v).cur = v.cur /\ reconcileState(v).reach = v.reach
<1>1. Direct \in Selections /\ Never \in Times
  BY DEF Selections, Times
<1> QED BY <1>1 DEF reconcileState, View, States

LEMMA RevertedFacts ==
  ASSUME NEW v \in View
  PROVE  /\ Reverted(v) \in View
         /\ Reverted(v).state # "awaiting-keep"
         /\ v.state # "awaiting-keep" => Reverted(v) = v
         /\ v.state = "awaiting-keep" => Reverted(v).state = "unprobed"
         /\ v.state # "gone" => Reverted(v).state # "gone"
<1>1. Direct \in Selections /\ Never \in Times
  BY DEF Selections, Times
<1> QED BY <1>1 DEF Reverted, View, States

LEMMA ApplyResultType ==
  ASSUME NEW o \in Ops, op \in [Ops -> Op], call \in [Procs -> Call]
  PROVE  /\ ApplyResult(o) \in Result
         /\ op[o].pc = "apply" => /\ ApplyResult(o).err = call[o].err
                                  /\ ApplyResult(o).seen = call[o].seen
                                  /\ ApplyResult(o).marker = call[o].marker
         /\ op[o].pc # "apply" => ApplyResult(o) = op[o].res
<1>1. call[o] \in Call /\ op[o] \in Op
  BY ProcsFacts
<1> QED BY <1>1 DEF ApplyResult, Result, Op, Call

\* The result of a set, by what ApplyExitNode answered.
LEMMA SettledFacts ==
  ASSUME NEW o \in Ops, op \in [Ops -> Op], call \in [Procs -> Call], NEW v \in View,
         op[o].armAt \in Nat
  PROVE  /\ Settled(o, v) \in View
         /\ Settled(o, v).state \in {"ok", "awaiting-keep", "unconfirmed", "unreachable"}
         /\ Settled(o, v).state = "awaiting-keep" =>
              /\ ApplyResult(o).err = "none" /\ ~autoKeep(op[o].target)
              /\ Settled(o, v).revertAt = op[o].armAt + Window
         /\ ApplyResult(o).err = "none" =>
              /\ Settled(o, v).cur = ApplyResult(o).seen
              /\ Settled(o, v).state = IF autoKeep(op[o].target) THEN "ok" ELSE "awaiting-keep"
         /\ Settled(o, v).state = "ok" /\ ApplyResult(o).err # "none" =>
              /\ ApplyResult(o).err = "command" /\ call[o].err = "none"
              /\ Settled(o, v).cur = call[o].seen
<1> DEFINE res == ApplyResult(o)
<1>1. /\ res \in Result /\ res.err \in Errors /\ res.seen \in Selections
      /\ res.online \in BOOLEAN /\ call[o].seen \in Selections /\ op[o].target \in Selections
  BY ApplyResultType, ProcsFacts DEF Result, Call, Op
<1>2. /\ Direct \in Selections /\ Never \in Times /\ op[o].armAt \in Times
      /\ op[o].armAt + Window \in Times
  BY TimeAssumption DEF Selections, Times
<1>3. /\ "ok" \in States /\ "awaiting-keep" \in States /\ "unconfirmed" \in States
      /\ "unreachable" \in States
  BY DEF States
<1> HIDE DEF res
<1>4. CASE res.err = "none"
  BY <1>1, <1>2, <1>3, <1>4 DEF Settled, View, res
<1>5. CASE res.err = "command" /\ call[o].err = "none"
  BY <1>1, <1>2, <1>3, <1>5 DEF Settled, View, res
<1>6. CASE res.err = "command" /\ call[o].err # "none"
  BY <1>1, <1>2, <1>3, <1>6 DEF Settled, View, res
<1>7. CASE res.err \in {"transport", "mismatch"} /\ res.online
  BY <1>1, <1>2, <1>3, <1>7 DEF Settled, View, res
<1>8. CASE res.err \in {"transport", "mismatch"} /\ ~res.online
  BY <1>1, <1>2, <1>3, <1>8 DEF Settled, View, res
<1> QED BY <1>1, <1>4, <1>5, <1>6, <1>7, <1>8 DEF Errors, res

-----------------------------------------------------------------------------
(* What each step of a request does to the request and its call            *)

\* The frame of a step of request o.
Own(o) ==
  /\ op' \in [Ops -> Op] /\ \A q \in Ops : q # o => op'[q] = op[q]
  /\ call' \in [Procs -> Call] /\ \A p \in Procs : p # o => call'[p] = call[p]
  /\ UNCHANGED <<clock, sel, timers, written, fired, lock, netmap, poll, faults, restarts>>

\* A call that has just been made, or none.
Fresh(o, c) ==
  /\ c \in Call
  /\ \/ c = NoCall
     \/ /\ c.at = "waiting" /\ c.router \in Routers
        /\ c.kind = "apply" => c.marker = o
        /\ c.kind = "keep" => c.marker \in Procs

LEMMA ApplyCallType ==
  ASSUME NEW o \in Ops, NEW r \in Routers, NEW target \in Selections,
         NEW prev \in Selections, NEW auto \in BOOLEAN
  PROVE  /\ Fresh(o, ApplyCall(o, r, target, prev, auto))
         /\ ApplyCall(o, r, target, prev, auto).at = "waiting"
         /\ ApplyCall(o, r, target, prev, auto).kind = "apply"
         /\ ApplyCall(o, r, target, prev, auto).router = r
         /\ ApplyCall(o, r, target, prev, auto).auto = auto
BY ProcsFacts DEF Fresh, ApplyCall, NoCall, Call, Selections, Commands, Errors

LEMMA KeepCallType ==
  ASSUME NEW o \in Ops, NEW r \in Routers, NEW m \in Procs
  PROVE  /\ Fresh(o, KeepCall(r, m)) /\ KeepCall(r, m).at = "waiting"
         /\ KeepCall(r, m).kind = "keep" /\ KeepCall(r, m).router = r
         /\ KeepCall(r, m).marker = m
BY DEF Fresh, KeepCall, NoCall, Call, Selections, Commands, Errors

LEMMA ReadCallType ==
  ASSUME NEW o, NEW r \in Routers
  PROVE  /\ Fresh(o, ReadCall(r)) /\ ReadCall(r).at = "waiting"
         /\ ReadCall(r).kind = "read" /\ ReadCall(r).router = r
BY DEF Fresh, ReadCall, NoCall, Call, Selections, Commands, Errors

\* A request is replaced by d and its call by c.
LEMMA OwnStep ==
  ASSUME Base, NEW o \in Ops, NEW d \in Op, NEW c, Fresh(o, c),
         op' = [op EXCEPT ![o] = d], Calls(o, c),
         UNCHANGED <<netmap, poll, faults, restarts>>
  PROVE  Own(o) /\ op'[o] = d /\ call'[o] = c
<1>1. op \in [Ops -> Op] /\ call \in [Procs -> Call] /\ o \in Procs
  BY ProcsFacts DEF Base, PollerTypeOK, TypeOK
<1>2. call' = [call EXCEPT ![o] = c] /\ c \in Call
      /\ UNCHANGED <<clock, sel, timers, written, fired, lock>>
  BY DEF Calls, Fresh
<1> QED BY <1>1, <1>2 DEF Own

\* Only the request is replaced, outside of any call.
LEMMA OwnOpStep ==
  ASSUME Base, NEW o \in Ops, NEW d \in Op,
         op' = [op EXCEPT ![o] = d],
         UNCHANGED clientVars, UNCHANGED <<netmap, poll, faults, restarts>>
  PROVE  Own(o) /\ op'[o] = d /\ call'[o] = call[o]
BY DEF Own, Base, PollerTypeOK, TypeOK, clientVars, device

\* What is left of Base after such a step.
LEMMA OwnBase ==
  ASSUME Base, NEW o \in Ops, Own(o), Fresh(o, call'[o]), CallOf(o)',
         snap' \in Snapshot, setSeq' \in [Routers -> Nat], setGen' \in [Routers -> Nat],
         pendingKeep' \in [Routers -> Entry \cup {NoEntry}], released' \subseteq Procs
  PROVE  Base'
<1>1. PollerTypeOK'
  BY DEF Own, Base, PollerTypeOK, TypeOK
<1>2. CallInv'
  <2> SUFFICES ASSUME NEW p \in Procs
      PROVE  /\ call'[p].at # "idle" => call'[p].router \in Routers
             /\ call'[p].at \in Commands => call'[p].kind = "apply"
             /\ call'[p].at = "keep" => call'[p].auto
             /\ call'[p].kind = "apply" /\ call'[p].at # "done" => call'[p].marker = p
             /\ call'[p].kind = "keep" /\ call'[p].at = "waiting" => call'[p].marker \in Procs
    BY DEF CallInv, Running
  <2>1. CASE p # o
    BY <2>1 DEF Own, Base, CallInv, Running
  <2>2. CASE p = o
    BY <2>2 DEF Fresh, NoCall, Commands
  <2> QED BY <2>1, <2>2
<1>3. OpInv'
  <2> SUFFICES ASSUME NEW q \in Ops PROVE CallOf(q)'
    BY DEF OpInv
  <2>1. CASE q = o
    BY <2>1
  <2>2. CASE q # o
    <3>1. /\ op'[q] = op[q] /\ call'[q] = call[q] /\ written' = written
      BY <2>2, ProcsFacts DEF Own
    <3>2. CallOf(q)
      BY DEF Base, OpInv
    <3> QED BY <3>1, <3>2 DEF CallOf, Answer, Sets
  <2> QED BY <2>1, <2>2
<1>4. PollInv'
  BY ProcsFacts DEF Own, Base, PollInv
<1> QED BY <1>1, <1>2, <1>3, <1>4 DEF Base

LEMMA BaseTypes ==
  ASSUME Base
  PROVE  /\ op \in [Ops -> Op] /\ call \in [Procs -> Call] /\ snap \in Snapshot
         /\ \A r \in Routers : snap.view[r] \in View
         /\ setSeq \in [Routers -> Nat] /\ setGen \in [Routers -> Nat]
         /\ pendingKeep \in [Routers -> Entry \cup {NoEntry}] /\ released \subseteq Procs
         /\ clock \in Nat /\ \A o \in Ops : CallOf(o)
         /\ poll \in Poll /\ written \subseteq Procs /\ timers \subseteq Timer
         /\ sel \in [Routers -> Selections] /\ fired \subseteq Procs
         /\ \A r \in Routers : HasEntry(r) => pendingKeep[r] \in Entry
BY DEF Base, PollerTypeOK, TypeOK, Snapshot, OpInv, HasEntry

LEMMA SetExitNodeFacts ==
  ASSUME Base, NEW o \in Ops, NEW r \in Routers, NEW target \in Targets,
         SetExitNode(o, r, target)
  PROVE  /\ Own(o) /\ Base'
         /\ op[o].pc = "idle" /\ op'[o].pc = "intent" /\ op'[o].router = r
         /\ ~op'[o].superseded
         /\ Listed(r)
         /\ UNCHANGED <<snap, setSeq, setGen, pendingKeep, released>>
<1> USE BaseTypes
<1> DEFINE d == [NoOp EXCEPT !.pc = "intent", !.router = r, !.target = target,
                             !.prev = snap.view[r].cur]
<1>1. d \in Op /\ d.pc = "intent" /\ d.router = r /\ ~d.superseded
  <2>1. target \in Selections /\ snap.view[r].cur \in Selections
    BY PollerAssumption DEF View
  <2> QED BY <2>1, NoValueTypes DEF NoOp, Op
<1>2. op' = [op EXCEPT ![o] = d] /\ UNCHANGED clientVars
      /\ UNCHANGED <<netmap, poll, faults, restarts>>
  BY DEF SetExitNode
<1>3. /\ op[o].pc = "idle" /\ Listed(r)
      /\ UNCHANGED <<snap, setSeq, setGen, pendingKeep, released>>
  BY DEF SetExitNode, Known, Listed
<1> HIDE DEF d
<1>4. Own(o) /\ op'[o] = d /\ call'[o] = call[o]
  BY <1>1, <1>2, OwnOpStep
<1>5. call'[o] = NoCall /\ Fresh(o, call'[o])
  BY <1>3, <1>4, NoValueTypes DEF CallOf, Fresh
<1>6. CallOf(o)'
  BY <1>1, <1>4, <1>5 DEF CallOf, Sets
<1>7. Base'
  BY <1>3, <1>4, <1>5, <1>6, OwnBase
<1> QED BY <1>1, <1>3, <1>4, <1>7

LEMMA SetIntentFacts ==
  ASSUME Base, NEW o \in Ops, SetIntent(o)
  PROVE  /\ Own(o) /\ Base'
         /\ op[o].pc = "intent" /\ op[o].router \in Routers /\ op'[o].router = op[o].router
         /\ op'[o].superseded = op[o].superseded
         /\ setSeq' = [setSeq EXCEPT ![op[o].router] = @ + 1]
         /\ setGen' = [setGen EXCEPT ![op[o].router] = @ + 1]
         /\ UNCHANGED <<pendingKeep, released>>
         /\ \/ /\ Listed(op[o].router) /\ op'[o].pc = "apply"
               /\ op'[o].seq = setSeq[op[o].router] + 1 /\ call'[o].at = "waiting"
               /\ snap' \in Snapshot /\ snap'.nodes = snap.nodes
               /\ snap'.view[op[o].router].state = "pending"
               /\ \A q \in Routers : q # op[o].router => snap'.view[q] = snap.view[q]
            \/ ~Listed(op[o].router) /\ op'[o].pc = "done" /\ snap' = snap
<1> USE BaseTypes
<1> DEFINE r == op[o].router
<1>0. op[o].pc = "intent"
  BY DEF SetIntent
<1>1. r \in Routers /\ call[o] = NoCall /\ op[o] \in Op /\ o \in Procs
  BY <1>0, ProcsFacts DEF CallOf
<1>2. /\ setSeq' = [setSeq EXCEPT ![r] = @ + 1]
      /\ setGen' = [setGen EXCEPT ![r] = @ + 1]
      /\ UNCHANGED <<netmap, pendingKeep, poll, faults, restarts, released>>
  BY DEF SetIntent, BumpGen, router
<1>3. setSeq' \in [Routers -> Nat] /\ setGen' \in [Routers -> Nat] /\ setSeq[r] + 1 \in Nat
  BY <1>1, <1>2
<1>4. CASE Listed(r)
  <2> DEFINE v == [snap.view[r] EXCEPT !.des = op[o].target, !.since = Never,
                                       !.state = "pending"]
             d == [op[o] EXCEPT !.pc = "apply", !.seq = setSeq[r] + 1, !.armAt = clock]
             c == ApplyCall(o, r, op[o].target, op[o].prev, autoKeep(op[o].target))
  <2>1. snap' = withRouter(r, v) /\ op' = [op EXCEPT ![o] = d] /\ Calls(o, c)
    BY <1>4 DEF SetIntent, router
  <2>2. v \in View /\ v.state = "pending"
    <3>1. /\ snap.view[r] \in View /\ op[o].target \in Selections /\ Never \in Times
          /\ "pending" \in States
      BY <1>1 DEF Op, States, Times
    <3> QED BY <3>1 DEF View
  <2>3. /\ d \in Op /\ d.pc = "apply" /\ d.router = r /\ d.target = op[o].target
        /\ d.seq = setSeq[r] + 1 /\ d.armAt = clock /\ d.superseded = op[o].superseded
    BY <1>1, <1>3 DEF Op, Times
  <2>4. autoKeep(op[o].target) \in BOOLEAN /\ op[o].target \in Selections /\ op[o].prev \in Selections
    BY <1>1, PollerAssumption DEF autoKeep, Op
  <2>5. /\ Fresh(o, c) /\ c.at = "waiting" /\ c.kind = "apply" /\ c.router = r
        /\ c.auto = autoKeep(op[o].target)
    BY <1>1, <2>4, ApplyCallType
  <2> HIDE DEF v, d, c
  <2>6. Own(o) /\ op'[o] = d /\ call'[o] = c
    BY <1>2, <2>1, <2>3, <2>5, OwnStep
  <2>7. /\ snap' \in Snapshot /\ snap'.nodes = snap.nodes /\ snap'.view[r].state = "pending"
        /\ \A q \in Routers : q # r => snap'.view[q] = snap.view[q]
    BY <1>1, <2>1, <2>2, WithRouter
  <2>8. CallOf(o)'
    BY <1>1, <2>3, <2>5, <2>6 DEF CallOf, Sets
  <2>9. Base'
    BY <1>2, <1>3, <2>5, <2>6, <2>7, <2>8, OwnBase
  <2> QED BY <1>0, <1>1, <1>2, <1>4, <2>3, <2>5, <2>6, <2>7, <2>9
<1>5. CASE ~Listed(r)
  <2>1. op' = [op EXCEPT ![o] = Over(o)] /\ UNCHANGED snap /\ UNCHANGED clientVars
    BY <1>5 DEF SetIntent, router
  <2>2. Own(o) /\ op'[o] = Over(o) /\ call'[o] = call[o]
    BY <1>2, <2>1, OwnOpStep, OverFacts
  <2>3. CallOf(o)' /\ Fresh(o, call'[o])
    BY <1>1, <2>2, OverFacts, NoValueTypes DEF CallOf, Sets, Fresh
  <2>4. Base'
    BY <1>2, <1>3, <2>1, <2>2, <2>3, OwnBase
  <2> QED BY <1>0, <1>1, <1>2, <1>5, <2>1, <2>2, <2>4, OverFacts
<1> QED BY <1>4, <1>5

\* What ApplyExitNode answered a set that is about to be settled.
LEMMA AnswerFacts ==
  ASSUME Base, NEW o \in Ops, Sets(o), Returned(o)
  PROVE  /\ Answer(o, ApplyResult(o).err, ApplyResult(o).marker)
         /\ ApplyResult(o).err \in Errors
         /\ op[o].pc = "reread" => ApplyResult(o).err = "command"
         /\ op[o].pc = "egress" => ApplyResult(o).err = "none"
<1> USE BaseTypes
<1>1. /\ CallOf(o) /\ ApplyResult(o) \in Result
      /\ op[o].pc = "apply" => /\ ApplyResult(o).err = call[o].err
                               /\ ApplyResult(o).marker = call[o].marker
      /\ op[o].pc # "apply" => ApplyResult(o) = op[o].res
  BY ApplyResultType
<1>2. ApplyResult(o).err \in Errors
  BY <1>1 DEF Result
<1>3. CASE op[o].pc = "apply"
  BY <1>1, <1>2, <1>3 DEF CallOf, Returned
<1>4. CASE op[o].pc = "egress"
  BY <1>1, <1>2, <1>4 DEF CallOf
<1>5. CASE op[o].pc = "reread"
  BY <1>1, <1>2, <1>5 DEF CallOf, Answer
<1> QED BY <1>3, <1>4, <1>5 DEF Sets

LEMMA SetFollowUpFacts ==
  ASSUME Base, NEW o \in Ops, SetFollowUp(o)
  PROVE  /\ Own(o) /\ Base'
         /\ op[o].pc = "apply" /\ Returned(o) /\ op'[o].pc \in {"reread", "egress"}
         /\ op'[o].pc = "egress" => call[o].err = "none"
         /\ op'[o].router = op[o].router /\ op'[o].seq = op[o].seq
         /\ op'[o].res.seen = call[o].seen /\ op'[o].superseded = op[o].superseded
         /\ call'[o].at = "waiting"
         /\ UNCHANGED <<snap, setSeq, setGen, pendingKeep, released>>
<1> USE BaseTypes
<1> DEFINE d == [op[o] EXCEPT !.pc = FollowUp(o), !.res = ApplyResult(o)]
           r == op[o].router
<1>1. /\ op[o].pc = "apply" /\ Returned(o) /\ FollowUp(o) # "none"
      /\ op' = [op EXCEPT ![o] = d] /\ Calls(o, ReadCall(r))
      /\ UNCHANGED <<netmap, snap, setSeq, setGen, pendingKeep, poll, faults, restarts, released>>
  BY DEF SetFollowUp, router
<1>2. /\ FollowUp(o) \in {"reread", "egress"}
      /\ FollowUp(o) = "reread" => call[o].err = "command"
      /\ FollowUp(o) = "egress" => call[o].err = "none"
  BY <1>1 DEF FollowUp
<1>3. Sets(o) /\ CallOf(o) /\ r \in Routers /\ op[o].armAt \in Nat /\ o \in Procs
  BY <1>1, ProcsFacts DEF CallOf, Sets
<1>4. Answer(o, ApplyResult(o).err, ApplyResult(o).marker)
  BY <1>1, <1>3, AnswerFacts
<1>5. /\ ApplyResult(o) \in Result /\ ApplyResult(o).err = call[o].err
      /\ ApplyResult(o).seen = call[o].seen
  BY <1>1, ApplyResultType
<1>6. /\ d \in Op /\ d.pc = FollowUp(o) /\ d.router = r /\ d.target = op[o].target
      /\ d.seq = op[o].seq /\ d.armAt = op[o].armAt /\ d.res = ApplyResult(o)
      /\ d.superseded = op[o].superseded
  BY <1>2, <1>5 DEF Op
<1>7. /\ Fresh(o, ReadCall(r)) /\ ReadCall(r).at = "waiting" /\ ReadCall(r).kind = "read"
      /\ ReadCall(r).router = r
  BY <1>3, ReadCallType
<1> HIDE DEF d
<1>8. Own(o) /\ op'[o] = d /\ call'[o] = ReadCall(r)
  BY <1>1, <1>6, <1>7, OwnStep
<1>9. CallOf(o)'
  <2>2. /\ op'[o].target = op[o].target /\ written' = written /\ op'[o].res = ApplyResult(o)
        /\ op'[o].pc = FollowUp(o) /\ op'[o].router = r /\ op'[o].armAt \in Nat
    BY <1>3, <1>6, <1>8 DEF Own
  <2>3. call'[o].at = "waiting" /\ call'[o].kind = "read" /\ call'[o].router = r
    BY <1>7, <1>8
  <2> QED BY <1>2, <1>3, <1>4, <1>5, <2>2, <2>3 DEF CallOf, Sets, Answer
<1>10. Base'
  BY <1>1, <1>7, <1>8, <1>9, OwnBase
<1> QED BY <1>1, <1>2, <1>5, <1>6, <1>7, <1>8, <1>10

\* Step 3.  published: the result is reconciled into the snapshot.
Published(o) == Listed(op[o].router) /\ ~(setSeq[op[o].router] # op[o].seq)

LEMMA SetSettleFacts ==
  ASSUME Base, NEW o \in Ops, SetSettle(o)
  PROVE  /\ Own(o) /\ Base'
         /\ Sets(o) /\ Returned(o) /\ op[o].router \in Routers
         /\ op'[o].pc \in {"done", "disarm"} /\ op'[o].router = op[o].router
         /\ op'[o].res.err = ApplyResult(o).err
         /\ op'[o].superseded = (setSeq[op[o].router] # op[o].seq)
         /\ ApplyResult(o).err = "command" => op[o].pc = "reread"
         /\ setSeq' = setSeq /\ setGen' = [setGen EXCEPT ![op[o].router] = @ + 1]
         /\ IF Published(o)
              THEN /\ snap' \in Snapshot /\ snap'.nodes = snap.nodes
                   /\ snap'.view[op[o].router] = Settled(o, snap.view[op[o].router])
                   /\ \A q \in Routers : q # op[o].router => snap'.view[q] = snap.view[q]
                   /\ pendingKeep' = [pendingKeep EXCEPT ![op[o].router] = GateAfter(o)]
              ELSE snap' = snap /\ pendingKeep' = pendingKeep
         /\ released' = released \cup ({Disarm(o, Published(o))} \ {Nobody})
<1> USE BaseTypes
<1> DEFINE r == op[o].router
           m == Disarm(o, Published(o))
           d == [NoOp EXCEPT !.pc = IF m = Nobody THEN "done" ELSE "disarm",
                             !.router = r, !.res.err = ApplyResult(o).err,
                             !.superseded = setSeq[r] # op[o].seq]
           c == IF m = Nobody THEN NoCall ELSE KeepCall(r, m)
<1>1. /\ Sets(o) /\ Returned(o)
      /\ ApplyResult(o).err = "command" => op[o].pc = "reread"
  <2>1. CASE op[o].pc = "apply" /\ Returned(o) /\ FollowUp(o) = "none"
    <3>1. ApplyResult(o).err # "command"
      BY <2>1, ApplyResultType DEF FollowUp
    <3> QED BY <2>1, <3>1 DEF Sets
  <2>2. CASE op[o].pc \in {"reread", "egress"} /\ Returned(o)
    <3>1. Sets(o) /\ Returned(o)
      BY <2>2 DEF Sets
    <3> QED BY <2>2, <3>1, AnswerFacts
  <2> QED BY <2>1, <2>2 DEF SetSettle
<1>2. /\ CallOf(o) /\ r \in Routers /\ op[o].armAt \in Nat /\ o \in Procs
      /\ Answer(o, ApplyResult(o).err, ApplyResult(o).marker) /\ ApplyResult(o).err \in Errors
  BY <1>1, ProcsFacts, AnswerFacts DEF CallOf, Sets
<1>3. /\ setGen' = [setGen EXCEPT ![r] = @ + 1]
      /\ snap' = IF Published(o) THEN withRouter(r, Settled(o, snap.view[r])) ELSE snap
      /\ pendingKeep' = IF Published(o) THEN [pendingKeep EXCEPT ![r] = GateAfter(o)]
                                        ELSE pendingKeep
      /\ op' = [op EXCEPT ![o] = d] /\ Calls(o, c)
      /\ released' = released \cup ({m} \ {Nobody})
      /\ UNCHANGED <<netmap, setSeq, poll, faults, restarts>>
  BY Zenon DEF SetSettle, Published, router, BumpGen
<1>4. m \in Procs \cup {Nobody}
  <2>1. pendingKeep[r].marker \in Procs \cup {Nobody}
    BY <1>2 DEF Entry, NoEntry
  <2> QED BY <1>2, <2>1 DEF Disarm, Answer, router
<1>5. GateAfter(o) \in Entry \cup {NoEntry}
  <2>1. op[o].armAt + Window \in Nat /\ op[o].seq \in Nat /\ pendingKeep[r] \in Entry \cup {NoEntry}
    BY <1>2, TimeAssumption DEF Op
  <2>2. CASE ApplyResult(o).err = "none" /\ ~autoKeep(op[o].target)
    <3>1. /\ GateAfter(o) = [marker |-> ApplyResult(o).marker,
                             revertAt |-> op[o].armAt + Window, seq |-> op[o].seq]
          /\ ApplyResult(o).marker \in Procs
      BY <1>2, <2>2 DEF GateAfter, Answer
    <3> QED BY <2>1, <3>1 DEF Entry
  <2>3. CASE ~(ApplyResult(o).err = "none" /\ ~autoKeep(op[o].target))
    BY <2>1, <2>3 DEF GateAfter, router
  <2> QED BY <2>2, <2>3
<1>6. /\ d \in Op /\ d.pc \in {"done", "disarm"} /\ d.router = r
      /\ d.res.err = ApplyResult(o).err /\ d.superseded = (setSeq[r] # op[o].seq)
      /\ d.pc = IF m = Nobody THEN "done" ELSE "disarm"
  BY <1>2, NoValueTypes DEF NoOp, NoResult, Op, Result
<1>7. /\ Fresh(o, c)
      /\ m = Nobody => c = NoCall
      /\ m # Nobody => c.at = "waiting" /\ c.kind = "keep" /\ c.router = r
  <2> HIDE DEF m
  <2>1. Direct \in Selections /\ Fresh(o, NoCall)
    BY NoValueTypes DEF Selections, Fresh
  <2>2. ASSUME m # Nobody
        PROVE  /\ Fresh(o, KeepCall(r, m)) /\ KeepCall(r, m).at = "waiting"
               /\ KeepCall(r, m).kind = "keep" /\ KeepCall(r, m).router = r
    BY <1>2, <1>4, <2>2, KeepCallType
  <2> QED BY <2>1, <2>2
<1>8. /\ Settled(o, snap.view[r]) \in View
  BY <1>2, SettledFacts
<1> HIDE DEF d, c, m
<1>9. Own(o) /\ op'[o] = d /\ call'[o] = c
  BY <1>3, <1>6, <1>7, OwnStep
<1>10. CallOf(o)'
  BY <1>2, <1>6, <1>7, <1>9 DEF CallOf, Sets
<1>11. snap' \in Snapshot
  BY <1>2, <1>3, <1>8, WithRouter
<1>12. /\ setSeq' \in [Routers -> Nat] /\ setGen' \in [Routers -> Nat]
       /\ released' \subseteq Procs
  BY <1>2, <1>3, <1>4
<1>13. pendingKeep' \in [Routers -> Entry \cup {NoEntry}]
  BY <1>2, <1>3, <1>5
<1>14. Base'
  BY <1>7, <1>9, <1>10, <1>11, <1>12, <1>13, OwnBase
<1>15. CASE Published(o)
  <2>1. /\ snap'.nodes = snap.nodes /\ snap'.view[r] = Settled(o, snap.view[r])
        /\ \A q \in Routers : q # r => snap'.view[q] = snap.view[q]
    BY <1>2, <1>3, <1>8, <1>15, WithRouter
  <2> QED BY <1>1, <1>2, <1>3, <1>6, <1>9, <1>11, <1>14, <1>15, <2>1 DEF m
<1>16. CASE ~Published(o)
  BY <1>1, <1>2, <1>3, <1>6, <1>9, <1>14, <1>16 DEF m
<1> QED BY <1>15, <1>16

\* Request o is answered.
Ends(o) ==
  /\ Own(o) /\ op'[o].pc = "done" /\ op'[o].router = op[o].router
  /\ op'[o].res.err = op[o].res.err /\ op'[o].superseded = op[o].superseded

LEMMA OverStep ==
  ASSUME Base, NEW o \in Ops, op' = [op EXCEPT ![o] = Over(o)], Calls(o, NoCall),
         UNCHANGED <<netmap, poll, faults, restarts>>
  PROVE  Ends(o) /\ CallOf(o)' /\ Fresh(o, call'[o])
<1>1. Fresh(o, NoCall)
  BY NoValueTypes DEF Fresh
<1>2. Over(o) \in Op
  BY BaseTypes, OverFacts
<1>3. Own(o) /\ op'[o] = Over(o) /\ call'[o] = NoCall
  BY <1>1, <1>2, OwnStep
<1>4. Ends(o)
  BY <1>3, BaseTypes, OverFacts DEF Ends
<1> QED BY <1>1, <1>3, <1>4 DEF CallOf, Sets, Ends

LEMMA OverQuietly ==
  ASSUME Base, NEW o \in Ops, op' = [op EXCEPT ![o] = Over(o)], Calls(o, NoCall),
         UNCHANGED <<netmap, poll, faults, restarts>>,
         UNCHANGED <<snap, setSeq, setGen, pendingKeep, released>>
  PROVE  Ends(o) /\ Base'
<1>1. Ends(o) /\ CallOf(o)' /\ Fresh(o, call'[o]) /\ Own(o)
  BY OverStep DEF Ends
<1> QED BY <1>1, BaseTypes, OwnBase

LEMMA SetDisarmedFacts ==
  ASSUME Base, NEW o \in Ops, SetDisarmed(o)
  PROVE  /\ Ends(o) /\ Base' /\ op[o].pc = "disarm"
         /\ UNCHANGED <<snap, setSeq, setGen, pendingKeep, released>>
BY OverQuietly DEF SetDisarmed

LEMMA KeepFacts ==
  ASSUME Base, NEW o \in Ops, NEW r \in Routers, Keep(o, r)
  PROVE  /\ Own(o) /\ Base'
         /\ op[o].pc = "idle" /\ op'[o].pc = "keeping" /\ op'[o].router = r
         /\ HasEntry(r) /\ pendingKeep[r].seq = setSeq[r]
         /\ op'[o].seq = pendingKeep[r].seq /\ op'[o].res.marker = pendingKeep[r].marker
         /\ UNCHANGED <<snap, setSeq, setGen, pendingKeep, released>>
<1> USE BaseTypes
<1> DEFINE e == pendingKeep[r]
           d == [NoOp EXCEPT !.pc = "keeping", !.router = r, !.seq = e.seq,
                             !.res.marker = e.marker]
<1>1. /\ op[o].pc = "idle" /\ HasEntry(r) /\ e.seq = setSeq[r]
      /\ op' = [op EXCEPT ![o] = d] /\ Calls(o, KeepCall(r, e.marker))
      /\ UNCHANGED <<netmap, snap, setSeq, setGen, pendingKeep, poll, faults, restarts, released>>
  BY DEF Keep
<1>2. e.marker \in Procs /\ e.seq \in Nat
  <2>1. e \in Entry
    BY <1>1
  <2> QED BY <2>1 DEF Entry
<1> HIDE DEF e
<1>3. /\ d \in Op /\ d.pc = "keeping" /\ d.router = r /\ d.seq = e.seq
      /\ d.res.marker = e.marker
  BY <1>2, NoValueTypes DEF NoOp, NoResult, Op, Result
<1>4. /\ Fresh(o, KeepCall(r, e.marker)) /\ KeepCall(r, e.marker).at = "waiting"
      /\ KeepCall(r, e.marker).kind = "keep" /\ KeepCall(r, e.marker).router = r
      /\ KeepCall(r, e.marker).marker = e.marker
  BY <1>2, KeepCallType
<1> HIDE DEF d
<1>5. Own(o) /\ op'[o] = d /\ call'[o] = KeepCall(r, e.marker)
  BY <1>1, <1>3, <1>4, OwnStep
<1>6. CallOf(o)'
  BY <1>2, <1>3, <1>4, <1>5 DEF CallOf, Sets
<1>7. Base'
  BY <1>1, <1>4, <1>5, <1>6, OwnBase
<1> QED BY <1>1, <1>3, <1>5, <1>7 DEF e

LEMMA KeepElapsedFacts ==
  ASSUME Base, NEW o \in Ops, NEW r \in Routers, KeepElapsed(o, r)
  PROVE  /\ Own(o) /\ Base' /\ op' = op /\ call' = call
         /\ HasEntry(r)
         /\ setSeq' = setSeq /\ setGen' = [setGen EXCEPT ![r] = @ + 1]
         /\ pendingKeep' = [pendingKeep EXCEPT ![r] = NoEntry]
         /\ released' = released \cup {pendingKeep[r].marker}
         /\ snap' \in Snapshot /\ snap'.nodes = snap.nodes
         /\ snap'.view[r] = Reverted(snap.view[r])
         /\ \A q \in Routers : q # r => snap'.view[q] = snap.view[q]
<1> USE BaseTypes
<1>1. /\ op[o].pc = "idle" /\ HasEntry(r)
      /\ setGen' = [setGen EXCEPT ![r] = @ + 1]
      /\ pendingKeep' = [pendingKeep EXCEPT ![r] = NoEntry]
      /\ released' = released \cup {pendingKeep[r].marker}
      /\ snap' = IF Listed(r) THEN withRouter(r, Reverted(snap.view[r])) ELSE snap
      /\ UNCHANGED clientVars
      /\ UNCHANGED <<netmap, setSeq, op, poll, faults, restarts>>
  BY DEF KeepElapsed, BumpGen
<1>2. Reverted(snap.view[r]) \in View
  BY RevertedFacts
<1>3. /\ snap' \in Snapshot /\ snap'.nodes = snap.nodes
      /\ snap'.view[r] = Reverted(snap.view[r])
      /\ \A q \in Routers : q # r => snap'.view[q] = snap.view[q]
  <2>1. CASE Listed(r)
    BY <1>1, <1>2, <2>1, WithRouter
  <2>2. CASE ~Listed(r)
    BY <1>1, <2>2, RevertedFacts DEF Listed
  <2> QED BY <2>1, <2>2
<1>4. pendingKeep[r].marker \in Procs
  BY <1>1 DEF Entry
<1>5. /\ setGen' \in [Routers -> Nat] /\ released' \subseteq Procs
      /\ pendingKeep' \in [Routers -> Entry \cup {NoEntry}]
  BY <1>1, <1>4
<1>6. Own(o) /\ call' = call
  BY <1>1 DEF Own, clientVars, device
<1>7. CallOf(o)' /\ call'[o] = NoCall
  BY <1>1, <1>6 DEF CallOf, Answer, Sets, Own
<1>8. Fresh(o, call'[o])
  BY <1>7, NoValueTypes DEF Fresh
<1>9. Base'
  BY <1>1, <1>3, <1>5, <1>6, <1>7, <1>8, OwnBase
<1> QED BY <1>1, <1>3, <1>6, <1>9

LEMMA KeepFailedFacts ==
  ASSUME Base, NEW o \in Ops, KeepFailed(o)
  PROVE  /\ Ends(o) /\ Base' /\ op[o].pc = "keeping"
         /\ UNCHANGED <<snap, setSeq, setGen, pendingKeep, released>>
BY OverQuietly DEF KeepFailed

LEMMA KeepSettleFacts ==
  ASSUME Base, NEW o \in Ops, KeepSettle(o)
  PROVE  /\ Ends(o) /\ Base' /\ op[o].pc = "keeping" /\ op[o].router \in Routers
         /\ op[o].res.marker \in written
         /\ UNCHANGED <<setSeq, released>>
         /\ \/ /\ setSeq[op[o].router] # op[o].seq
               /\ UNCHANGED <<snap, setGen, pendingKeep>>
            \/ /\ setSeq[op[o].router] = op[o].seq
               /\ setGen' = [setGen EXCEPT ![op[o].router] = @ + 1]
               /\ pendingKeep' = [pendingKeep EXCEPT ![op[o].router] = NoEntry]
               /\ snap' \in Snapshot /\ snap'.nodes = snap.nodes
               /\ snap'.view[op[o].router].state
                    = IF Listed(op[o].router) THEN "ok" ELSE "gone"
               /\ \A q \in Routers : q # op[o].router => snap'.view[q] = snap.view[q]
<1> USE BaseTypes
<1> DEFINE r == op[o].router
           v == [snap.view[r] EXCEPT !.state = "ok", !.revertAt = Never]
<1>1. /\ op[o].pc = "keeping" /\ Returned(o) /\ call[o].err = "none" /\ Calls(o, NoCall)
      /\ UNCHANGED <<netmap, setSeq, poll, faults, restarts, released>>
  BY DEF KeepSettle
<1>2. r \in Routers /\ op[o].res.marker \in written /\ op[o] \in Op
  BY <1>1 DEF CallOf, Returned
<1>3. CASE setSeq[r] # op[o].seq
  <2>1. op' = [op EXCEPT ![o] = Over(o)] /\ UNCHANGED <<snap, setGen, pendingKeep>>
    BY <1>3 DEF KeepSettle, router
  <2>2. Ends(o) /\ Base'
    BY <1>1, <2>1, OverQuietly
  <2> QED BY <1>1, <1>2, <1>3, <2>1, <2>2
<1>4. CASE setSeq[r] = op[o].seq
  <2> DEFINE d == [Over(o) EXCEPT !.res.marker = op[o].res.marker]
  <2>1. /\ setGen' = [setGen EXCEPT ![r] = @ + 1]
        /\ op' = [op EXCEPT ![o] = d]
        /\ pendingKeep' = [pendingKeep EXCEPT ![r] = NoEntry]
        /\ snap' = IF Listed(r) THEN withRouter(r, v) ELSE snap
    BY <1>4 DEF KeepSettle, router, BumpGen
  <2>2. /\ d \in Op /\ d.pc = "done" /\ d.router = r /\ d.res.err = op[o].res.err
        /\ d.superseded = op[o].superseded
    <3>1. /\ Over(o) \in Op /\ Over(o).pc = "done" /\ Over(o).router = r
          /\ Over(o).res.err = op[o].res.err /\ Over(o).superseded = op[o].superseded
      BY OverFacts
    <3>2. op[o].res.marker \in Procs
      BY <1>2
    <3> QED BY <3>1, <3>2 DEF Op, Result
  <2>3. v \in View /\ v.state = "ok"
    <3>1. snap.view[r] \in View /\ "ok" \in States /\ Never \in Times
      BY <1>2 DEF States, Times
    <3> QED BY <3>1 DEF View
  <2> HIDE DEF d, v
  <2>4. /\ snap' \in Snapshot /\ snap'.nodes = snap.nodes
        /\ snap'.view[r].state = IF Listed(r) THEN "ok" ELSE "gone"
        /\ \A q \in Routers : q # r => snap'.view[q] = snap.view[q]
    BY <1>2, <2>1, <2>3, WithRouter DEF Listed
  <2>5. Fresh(o, NoCall)
    BY NoValueTypes DEF Fresh
  <2>6. Own(o) /\ op'[o] = d /\ call'[o] = NoCall
    BY <1>1, <2>1, <2>2, <2>5, OwnStep
  <2>7. CallOf(o)'
    BY <2>2, <2>6 DEF CallOf, Sets
  <2>8. /\ setGen' \in [Routers -> Nat]
        /\ pendingKeep' \in [Routers -> Entry \cup {NoEntry}]
    BY <1>2, <2>1
  <2>9. Base'
    BY <1>1, <2>4, <2>5, <2>6, <2>7, <2>8, OwnBase
  <2> QED BY <1>1, <1>2, <1>4, <2>1, <2>2, <2>4, <2>6, <2>9 DEF Ends
<1> QED BY <1>3, <1>4

LEMMA ProbeFacts ==
  ASSUME Base, NEW o \in Ops, NEW r \in Routers, Probe(o, r)
  PROVE  /\ Own(o) /\ Base' /\ Listed(r)
         /\ op[o].pc = "idle" /\ op'[o].pc = "probing" /\ op'[o].router = r
         /\ ~op'[o].superseded
         /\ UNCHANGED <<snap, setSeq, setGen, pendingKeep, released>>
<1> USE BaseTypes
<1> DEFINE d == [NoOp EXCEPT !.pc = "probing", !.router = r]
<1>1. /\ op[o].pc = "idle" /\ Listed(r) /\ op' = [op EXCEPT ![o] = d]
      /\ Calls(o, ReadCall(r))
      /\ UNCHANGED <<netmap, snap, setSeq, setGen, pendingKeep, poll, faults, restarts, released>>
  BY DEF Probe, Known, Listed
<1>2. d \in Op /\ d.pc = "probing" /\ d.router = r /\ ~d.superseded
  BY NoValueTypes DEF NoOp, Op
<1>3. /\ Fresh(o, ReadCall(r)) /\ ReadCall(r).at = "waiting"
      /\ ReadCall(r).kind = "read" /\ ReadCall(r).router = r
  BY ReadCallType
<1> HIDE DEF d
<1>4. Own(o) /\ op'[o] = d /\ call'[o] = ReadCall(r)
  BY <1>1, <1>2, <1>3, OwnStep
<1>5. CallOf(o)'
  BY <1>2, <1>3, <1>4 DEF CallOf, Sets
<1>6. Base'
  BY <1>1, <1>3, <1>4, <1>5, OwnBase
<1> QED BY <1>1, <1>2, <1>4, <1>6

LEMMA ProbeResolveFacts ==
  ASSUME Base, NEW o \in Ops, ProbeResolve(o)
  PROVE  /\ Own(o) /\ Base' /\ op[o].pc = "probing" /\ op[o].router \in Routers
         /\ op'[o].router = op[o].router /\ op'[o].superseded = op[o].superseded
         /\ \/ Ends(o)
            \/ /\ op'[o].pc = "resolving" /\ op'[o].gen = setGen[op[o].router]
               /\ call'[o].at = "waiting"
         /\ UNCHANGED <<snap, setSeq, setGen, pendingKeep, released>>
<1> USE BaseTypes
<1> DEFINE r == op[o].router
           d == [op[o] EXCEPT !.pc = "resolving", !.gen = setGen[r]]
           resolve == call[o].err = "none" /\ ~HasEntry(r)
<1>1. /\ op[o].pc = "probing"
      /\ UNCHANGED <<netmap, snap, setSeq, setGen, pendingKeep, poll, faults, restarts, released>>
  BY DEF ProbeResolve
<1>2. r \in Routers /\ op[o] \in Op
  BY <1>1 DEF CallOf
<1>3. CASE resolve
  <2>1. op' = [op EXCEPT ![o] = d] /\ Calls(o, ReadCall(r))
    BY <1>3 DEF ProbeResolve, router
  <2>2. d \in Op /\ d.pc = "resolving" /\ d.router = r /\ d.gen = setGen[r]
        /\ d.superseded = op[o].superseded
    BY <1>2 DEF Op
  <2>3. /\ Fresh(o, ReadCall(r)) /\ ReadCall(r).at = "waiting"
        /\ ReadCall(r).kind = "read" /\ ReadCall(r).router = r
    BY <1>2, ReadCallType
  <2> HIDE DEF d
  <2>4. Own(o) /\ op'[o] = d /\ call'[o] = ReadCall(r)
    BY <1>1, <2>1, <2>2, <2>3, OwnStep
  <2>5. CallOf(o)'
    BY <1>2, <2>2, <2>3, <2>4 DEF CallOf, Sets
  <2>6. Base'
    BY <1>1, <2>3, <2>4, <2>5, OwnBase
  <2> QED BY <1>1, <1>2, <2>2, <2>3, <2>4, <2>6
<1>4. CASE ~resolve
  <2>1. op' = [op EXCEPT ![o] = Over(o)] /\ Calls(o, NoCall)
    BY <1>4 DEF ProbeResolve, router
  <2>2. Ends(o) /\ Base'
    BY <1>1, <2>1, OverQuietly
  <2> QED BY <1>1, <1>2, <2>2 DEF Ends
<1> QED BY <1>3, <1>4

LEMMA ProbeSettleFacts ==
  ASSUME Base, NEW o \in Ops, ProbeSettle(o)
  PROVE  /\ Ends(o) /\ Base' /\ op[o].pc = "resolving" /\ op[o].router \in Routers
         /\ UNCHANGED <<setSeq, pendingKeep, released>>
         /\ \/ UNCHANGED <<snap, setGen>>
            \/ /\ Returned(o) /\ call[o].err = "none" /\ ~HasEntry(op[o].router)
               /\ Listed(op[o].router) /\ setGen[op[o].router] = op[o].gen
               /\ setGen' = [setGen EXCEPT ![op[o].router] = @ + 1]
               /\ snap' \in Snapshot /\ snap'.nodes = snap.nodes
               /\ snap'.view[op[o].router].state \in {"ok", "unconfirmed"}
               /\ snap'.view[op[o].router].cur = call[o].seen
               /\ \A q \in Routers : q # op[o].router => snap'.view[q] = snap.view[q]
<1> USE BaseTypes
<1> DEFINE r == op[o].router
           v == [snap.view[r] EXCEPT !.reach = TRUE, !.cur = call[o].seen]
           publish == /\ call[o].err = "none" /\ ~HasEntry(r) /\ Listed(r)
                      /\ setGen[r] = op[o].gen
<1>1. /\ op[o].pc = "resolving" /\ Returned(o) /\ Calls(o, NoCall)
      /\ op' = [op EXCEPT ![o] = Over(o)]
      /\ UNCHANGED <<netmap, setSeq, pendingKeep, poll, faults, restarts, released>>
  BY DEF ProbeSettle
<1>2. r \in Routers /\ call[o].seen \in Selections
  <2>1. call[o] \in Call
    BY ProcsFacts
  <2> QED BY <1>1, <2>1 DEF CallOf, Call
<1>3. Ends(o) /\ CallOf(o)' /\ Fresh(o, call'[o]) /\ Own(o)
  BY <1>1, OverStep DEF Ends
<1>4. CASE ~publish
  <2>1. UNCHANGED <<snap, setGen>>
    BY <1>4 DEF ProbeSettle, router
  <2> QED BY <1>1, <1>2, <1>3, <2>1, OwnBase
<1>5. CASE publish
  <2>1. snap' = withRouter(r, reconcileState(v)) /\ setGen' = [setGen EXCEPT ![r] = @ + 1]
    BY <1>5 DEF ProbeSettle, router, BumpGen
  <2>2. v \in View /\ v.cur = call[o].seen
    BY <1>2 DEF View
  <2> HIDE DEF v
  <2>3. /\ reconcileState(v) \in View /\ reconcileState(v).state \in {"ok", "unconfirmed"}
        /\ reconcileState(v).cur = call[o].seen
    BY <2>2, ReconcileFacts
  <2>4. /\ snap' \in Snapshot /\ snap'.nodes = snap.nodes
        /\ snap'.view[r] = reconcileState(v)
        /\ \A q \in Routers : q # r => snap'.view[q] = snap.view[q]
    BY <1>2, <2>1, <2>3, WithRouter
  <2>5. setGen' \in [Routers -> Nat]
    BY <1>2, <2>1
  <2>6. Base'
    BY <1>1, <1>3, <2>4, <2>5, OwnBase
  <2> QED BY <1>1, <1>2, <1>3, <1>5, <2>1, <2>3, <2>4, <2>6
<1> QED BY <1>4, <1>5

-----------------------------------------------------------------------------
(* What each step of the poll does                                         *)

\* The frame of a step of the poll.
OfPoll ==
  /\ call' \in [Procs -> Call] /\ \A p \in Procs : p # PollLoop => call'[p] = call[p]
  /\ UNCHANGED <<clock, sel, timers, written, fired, lock>>
  /\ UNCHANGED <<netmap, setSeq, setGen, op, faults, restarts>>

LEMMA PollBase ==
  ASSUME Base, OfPoll, poll' \in Poll, PollInv', Fresh(PollLoop, call'[PollLoop]),
         call'[PollLoop].kind # "apply",
         snap' \in Snapshot, pendingKeep' \in [Routers -> Entry \cup {NoEntry}],
         released' \subseteq Procs
  PROVE  Base'
<1>1. PollerTypeOK'
  BY DEF OfPoll, Base, PollerTypeOK, TypeOK
<1>2. CallInv'
  <2> SUFFICES ASSUME NEW p \in Procs
      PROVE  /\ call'[p].at # "idle" => call'[p].router \in Routers
             /\ call'[p].at \in Commands => call'[p].kind = "apply"
             /\ call'[p].at = "keep" => call'[p].auto
             /\ call'[p].kind = "apply" /\ call'[p].at # "done" => call'[p].marker = p
             /\ call'[p].kind = "keep" /\ call'[p].at = "waiting" => call'[p].marker \in Procs
    BY DEF CallInv, Running
  <2>1. CASE p # PollLoop
    BY <2>1 DEF OfPoll, Base, CallInv, Running
  <2>2. CASE p = PollLoop
    BY <2>2 DEF Fresh, NoCall, Commands
  <2> QED BY <2>1, <2>2
<1>3. OpInv'
  <2> SUFFICES ASSUME NEW q \in Ops PROVE CallOf(q)'
    BY DEF OpInv
  <2>1. /\ op'[q] = op[q] /\ call'[q] = call[q] /\ written' = written
    BY ProcsFacts DEF OfPoll
  <2>2. CallOf(q)
    BY DEF Base, OpInv
  <2> QED BY <2>1, <2>2 DEF CallOf, Answer, Sets
<1> QED BY <1>1, <1>2, <1>3 DEF Base

\* The poll dials the next router of todo.
LEMMA DialFacts ==
  ASSUME Base, NEW todo \in SUBSET Routers, DialNext(todo),
         UNCHANGED <<netmap, setSeq, setGen, op, faults, restarts>>,
         poll'.pc = "dial", poll'.todo = todo
  PROVE  /\ OfPoll /\ PollInv' /\ Fresh(PollLoop, call'[PollLoop])
         /\ call'[PollLoop].kind # "apply" /\ call'[PollLoop].at # "done"
<1>1. call \in [Procs -> Call] /\ PollLoop \in Procs
  BY ProcsFacts DEF Base, PollerTypeOK, TypeOK
<1>2. CASE todo = {} /\ Calls(PollLoop, NoCall)
  <2>1. Fresh(PollLoop, NoCall)
    BY NoValueTypes DEF Fresh
  <2>2. call' = [call EXCEPT ![PollLoop] = NoCall] /\ NoCall \in Call
        /\ UNCHANGED <<clock, sel, timers, written, fired, lock>>
    BY <1>2, NoValueTypes DEF Calls
  <2>3. OfPoll /\ call'[PollLoop] = NoCall
    BY <1>1, <2>2 DEF OfPoll
  <2> QED BY <1>2, <2>1, <2>3 DEF PollInv, NoCall
<1>3. ASSUME NEW r \in todo, Calls(PollLoop, ReadCall(r))
      PROVE  /\ OfPoll /\ PollInv' /\ Fresh(PollLoop, call'[PollLoop])
             /\ call'[PollLoop].kind # "apply" /\ call'[PollLoop].at # "done"
  <2>1. /\ Fresh(PollLoop, ReadCall(r)) /\ ReadCall(r).at = "waiting"
        /\ ReadCall(r).kind = "read" /\ ReadCall(r).router = r
    BY ReadCallType
  <2>2. call' = [call EXCEPT ![PollLoop] = ReadCall(r)] /\ ReadCall(r) \in Call
        /\ UNCHANGED <<clock, sel, timers, written, fired, lock>>
    BY <1>3, <2>1 DEF Calls, Fresh
  <2>3. OfPoll /\ call'[PollLoop] = ReadCall(r)
    BY <1>1, <2>2 DEF OfPoll
  <2> QED BY <2>1, <2>3 DEF PollInv
<1> QED BY <1>2, <1>3 DEF DialNext

LEMMA PollTypes ==
  ASSUME Base
  PROVE  /\ poll.prev \in Snapshot /\ poll.nodes \in [Nodes -> Reach]
         /\ poll.gen \in [Routers -> Nat] /\ poll.todo \in SUBSET Routers
         /\ poll.view \in [Routers -> View]
         /\ \A r \in Routers : poll.view[r] \in View /\ r \in Nodes
         /\ poll.prev.nodes \in [Nodes -> Reach]
         /\ \A r \in Routers : poll.prev.view[r] \in View
         /\ netmap \in [Nodes -> Reach]
<1>1. poll \in Poll /\ netmap \in Netmaps
  BY DEF Base, PollerTypeOK
<1> QED BY <1>1, PollerAssumption DEF Poll, Snapshot, Nodes

LEMMA PollStartFacts ==
  ASSUME Base, PollStart
  PROVE  /\ OfPoll /\ Base' /\ poll.pc = "idle" /\ poll'.pc = "inventory" /\ poll'.prev = snap
         /\ poll'.view = [r \in Routers |-> Gone]
         /\ UNCHANGED <<snap, pendingKeep, released>>
<1> USE BaseTypes
<1>1. /\ poll.pc = "idle" /\ poll' = [NoPoll EXCEPT !.pc = "inventory", !.prev = snap]
      /\ UNCHANGED clientVars
      /\ UNCHANGED <<netmap, snap, setSeq, setGen, pendingKeep, op, faults, restarts, released>>
  BY DEF PollStart
<1>2. poll' \in Poll
  BY <1>1, NoValueTypes DEF Poll
<1>3. /\ poll'.pc = "inventory" /\ poll'.prev = snap /\ poll'.view = [r \in Routers |-> Gone]
  BY <1>1 DEF NoPoll, NoSnapshot
<1>4. call[PollLoop] = NoCall
  BY <1>1 DEF Base, PollInv
<1>5. OfPoll /\ call' = call
  BY <1>1 DEF OfPoll, clientVars, device
<1>6. PollInv' /\ Fresh(PollLoop, call'[PollLoop]) /\ call'[PollLoop].kind # "apply"
  BY <1>3, <1>4, <1>5, NoValueTypes DEF PollInv, Fresh, NoCall
<1>7. Base'
  BY <1>1, <1>2, <1>5, <1>6, PollBase
<1> QED BY <1>1, <1>3, <1>5, <1>7

LEMMA CarriedFacts ==
  ASSUME NEW r \in Routers, NEW nodes \in [Nodes -> Reach], NEW prev \in Snapshot
  PROVE  /\ Carried(r, nodes, prev) \in View /\ Carried(r, nodes, prev).state = "gone"
         /\ Unreachable(Carried(r, nodes, prev)) \in View
         /\ Unreachable(Carried(r, nodes, prev)).state = "unreachable"
         /\ buildListedRouterView(r, nodes, prev) \in View
         /\ buildListedRouterView(r, nodes, prev).state # "gone"
<1> DEFINE v == Carried(r, nodes, prev)
           p == prev.view[r]
<1>1. p \in View /\ nodes[r] \in Reach
  BY DEF Snapshot, Nodes
<1>2. v \in View /\ v.state = "gone"
  BY <1>1, NoValueTypes DEF Carried, Gone, View
<1>3. /\ "unreachable" \in States /\ "unprobed" \in States
  BY DEF States
<1> HIDE DEF v
<1>4. Unreachable(v) \in View /\ Unreachable(v).state = "unreachable"
  BY <1>2, <1>3 DEF Unreachable, View
<1>5. buildListedRouterView(r, nodes, prev) \in View
      /\ buildListedRouterView(r, nodes, prev).state # "gone"
  <2>1. CASE nodes[r] = "offline"
    BY <1>4, <2>1 DEF buildListedRouterView, v
  <2>2. CASE nodes[r] # "offline" /\ p.state \in {"ok", "unconfirmed", "pending", "awaiting-keep"}
    <3>1. buildListedRouterView(r, nodes, prev)
            = [v EXCEPT !.state = p.state, !.reach = p.reach, !.revertAt = p.revertAt]
      BY <2>2 DEF buildListedRouterView, v
    <3> QED BY <1>1, <1>2, <2>2, <3>1 DEF View
  <2>3. CASE nodes[r] # "offline" /\ p.state \notin {"ok", "unconfirmed", "pending", "awaiting-keep"}
    <3>1. buildListedRouterView(r, nodes, prev) = [v EXCEPT !.state = "unprobed"]
      BY <2>3 DEF buildListedRouterView, v
    <3> QED BY <1>2, <1>3, <3>1 DEF View
  <2> QED BY <2>1, <2>2, <2>3
<1> QED BY <1>2, <1>4, <1>5 DEF v

LEMMA PollInventoryFacts ==
  ASSUME Base, PollInventory
  PROVE  /\ OfPoll /\ Base' /\ poll.pc = "inventory" /\ poll'.pc = "dial" /\ poll'.gen = setGen
         /\ poll'.nodes \in {netmap, poll.prev.nodes}
         /\ poll'.todo \subseteq Addrs(poll'.nodes)
         /\ \A r \in Routers :
              /\ r \notin Addrs(poll'.nodes) => poll'.view[r].state = "gone"
              /\ r \in Addrs(poll'.nodes) => r \in poll'.todo \/ poll'.view[r].state # "gone"
              /\ Dialed => poll'.view[r].state \in {"gone", "unreachable"}
         /\ call'[PollLoop].at # "done"
         /\ UNCHANGED <<snap, pendingKeep, released>>
<1> USE BaseTypes, PollTypes
<1> DEFINE addrs(nodes) == Addrs(nodes)
           dial(nodes) == IF Dialed THEN {r \in Addrs(nodes) : nodes[r] # "offline"} ELSE {}
           build(nodes, r) ==
             CASE r \notin Addrs(nodes) -> Gone
               [] r \in Addrs(nodes) /\ ~Dialed -> buildListedRouterView(r, nodes, poll.prev)
               [] r \in Addrs(nodes) /\ Dialed /\ nodes[r] = "offline" ->
                    Unreachable(Carried(r, nodes, poll.prev))
               [] OTHER -> Carried(r, nodes, poll.prev)
<1>1. PICK nodes \in {netmap, poll.prev.nodes} :
        /\ poll' = [poll EXCEPT !.pc = "dial", !.prev = NoSnapshot, !.nodes = nodes,
                                !.gen = setGen, !.todo = dial(nodes),
                                !.view = [r \in Routers |-> build(nodes, r)]]
        /\ DialNext(dial(nodes))
  BY Zenon DEF PollInventory
<1>2. /\ poll.pc = "inventory"
      /\ UNCHANGED <<netmap, snap, setSeq, setGen, pendingKeep, op, faults, restarts, released>>
  BY DEF PollInventory
<1>3. nodes \in [Nodes -> Reach] /\ Addrs(nodes) \subseteq Routers
  BY DEF Addrs
<1>4. dial(nodes) \in SUBSET Routers /\ dial(nodes) \subseteq Addrs(nodes)
  BY <1>3
<1>5. ASSUME NEW r \in Routers
      PROVE  /\ build(nodes, r) \in View
             /\ r \notin Addrs(nodes) => build(nodes, r).state = "gone"
             /\ r \in Addrs(nodes) => r \in dial(nodes) \/ build(nodes, r).state # "gone"
             /\ Dialed => build(nodes, r).state \in {"gone", "unreachable"}
  <2>1. /\ Carried(r, nodes, poll.prev) \in View /\ Carried(r, nodes, poll.prev).state = "gone"
        /\ Unreachable(Carried(r, nodes, poll.prev)) \in View
        /\ Unreachable(Carried(r, nodes, poll.prev)).state = "unreachable"
        /\ buildListedRouterView(r, nodes, poll.prev) \in View
        /\ buildListedRouterView(r, nodes, poll.prev).state # "gone"
    BY <1>3, CarriedFacts
  <2>2. Gone \in View /\ Gone.state = "gone"
    BY NoValueTypes DEF Gone
  <2>3. CASE r \notin Addrs(nodes)
    BY <2>2, <2>3
  <2>4. CASE r \in Addrs(nodes) /\ ~Dialed
    BY <2>1, <2>4
  <2>5. CASE r \in Addrs(nodes) /\ Dialed /\ nodes[r] = "offline"
    BY <2>1, <2>5
  <2>6. CASE r \in Addrs(nodes) /\ Dialed /\ nodes[r] # "offline"
    BY <2>1, <2>6
  <2> QED BY <2>3, <2>4, <2>5, <2>6
<1> HIDE DEF dial, build
<1>6. /\ poll'.pc = "dial" /\ poll'.gen = setGen /\ poll'.nodes = nodes
      /\ poll'.todo = dial(nodes) /\ poll'.view = [r \in Routers |-> build(nodes, r)]
      /\ poll' \in Poll
  <2>1. [r \in Routers |-> build(nodes, r)] \in [Routers -> View]
    BY <1>5
  <2> QED BY <1>1, <1>3, <1>4, <2>1, NoValueTypes DEF Poll
<1>7. /\ OfPoll /\ PollInv' /\ Fresh(PollLoop, call'[PollLoop])
      /\ call'[PollLoop].kind # "apply" /\ call'[PollLoop].at # "done"
  BY <1>1, <1>2, <1>4, <1>6, DialFacts
<1>8. Base'
  BY <1>2, <1>6, <1>7, PollBase
<1> QED BY <1>2, <1>4, <1>5, <1>6, <1>7, <1>8

LEMMA PollDialedFacts ==
  ASSUME Base, PollDialed
  PROVE  /\ OfPoll /\ Base' /\ poll.pc = "dial" /\ Returned(PollLoop)
         /\ call[PollLoop].router \in poll.todo
         /\ poll'.pc = "dial" /\ poll'.gen = poll.gen /\ poll'.nodes = poll.nodes
         /\ poll'.todo = poll.todo \ {call[PollLoop].router}
         /\ poll'.view[call[PollLoop].router].state \in {"ok", "unconfirmed", "unreachable"}
         /\ poll'.view[call[PollLoop].router].state = "ok" =>
              /\ call[PollLoop].err = "none"
              /\ poll'.view[call[PollLoop].router].reach
              /\ poll'.view[call[PollLoop].router].cur = call[PollLoop].seen
         /\ \A q \in Routers : q # call[PollLoop].router => poll'.view[q] = poll.view[q]
         /\ call'[PollLoop].at # "done"
         /\ UNCHANGED <<snap, pendingKeep, released>>
<1> USE BaseTypes, PollTypes
<1> DEFINE r == call[PollLoop].router
           v == poll.view[r]
           n == buildRouterView(v, call[PollLoop])
<1>1. /\ poll.pc = "dial" /\ Returned(PollLoop) /\ DialNext(poll.todo \ {r})
      /\ poll' = [poll EXCEPT !.todo = @ \ {r}, !.view[r] = n]
      /\ UNCHANGED <<netmap, snap, setSeq, setGen, pendingKeep, op, faults, restarts, released>>
  BY DEF PollDialed
<1>2. r \in poll.todo /\ r \in Routers
  BY <1>1 DEF Base, PollInv, Returned, NoCall
<1>3. v \in View /\ call[PollLoop].seen \in Selections
  <2>1. call[PollLoop] \in Call
    BY ProcsFacts
  <2> QED BY <1>2, <2>1 DEF Call
<1>4. /\ n \in View /\ n.state \in {"ok", "unconfirmed", "unreachable"}
      /\ n.state = "ok" => call[PollLoop].err = "none" /\ n.reach /\ n.cur = call[PollLoop].seen
  <2> DEFINE w == [v EXCEPT !.reach = TRUE, !.cur = call[PollLoop].seen]
  <2>1. w \in View /\ w.reach /\ w.cur = call[PollLoop].seen
    BY <1>3 DEF View
  <2>2. /\ Unreachable(v) \in View /\ Unreachable(v).state = "unreachable"
    BY <1>3 DEF Unreachable, View, States
  <2>3. n = IF call[PollLoop].err = "none" THEN reconcileState(w) ELSE Unreachable(v)
    BY DEF buildRouterView
  <2> HIDE DEF w, n
  <2>4. /\ reconcileState(w) \in View /\ reconcileState(w).state \in {"ok", "unconfirmed"}
        /\ reconcileState(w).cur = w.cur /\ reconcileState(w).reach = w.reach
    BY <2>1, ReconcileFacts
  <2> QED BY <2>1, <2>2, <2>3, <2>4
<1> HIDE DEF n
<1>5. /\ poll' \in Poll /\ poll'.pc = "dial" /\ poll'.gen = poll.gen /\ poll'.nodes = poll.nodes
      /\ poll'.todo = poll.todo \ {r} /\ poll'.view = [poll.view EXCEPT ![r] = n]
  BY <1>1, <1>2, <1>4 DEF Poll
<1>6. /\ poll'.view[r] = n /\ \A q \in Routers : q # r => poll'.view[q] = poll.view[q]
  BY <1>2, <1>5
<1>7. /\ OfPoll /\ PollInv' /\ Fresh(PollLoop, call'[PollLoop])
      /\ call'[PollLoop].kind # "apply" /\ call'[PollLoop].at # "done"
  BY <1>1, <1>5, DialFacts
<1>8. Base'
  BY <1>1, <1>5, <1>7, PollBase
<1> QED BY <1>1, <1>2, <1>4, <1>5, <1>6, <1>7, <1>8

\* The merge's choice for one router.
LEMMA MergedFacts ==
  ASSUME Base, NEW r \in Routers
  PROVE  /\ Merged(r) \in View
         /\ poll.view[r].state = "gone" => Merged(r) = Gone
         /\ poll.view[r].state # "gone" /\ Touched(r) =>
              Merged(r) = IF Listed(r) THEN snap.view[r] ELSE poll.view[r]
         /\ poll.view[r].state # "gone" /\ ~Touched(r) /\ Expired(r) =>
              Merged(r) = Reverted(poll.view[r])
         /\ poll.view[r].state # "gone" /\ ~Touched(r) /\ ~Expired(r) =>
              IF HasEntry(r) /\ poll.view[r].reach
                THEN /\ Merged(r).state = "awaiting-keep"
                     /\ Merged(r).revertAt = pendingKeep[r].revertAt
                ELSE Merged(r) = poll.view[r]
<1> USE BaseTypes, PollTypes
<1> DEFINE v == poll.view[r]
<1>1. v \in View /\ snap.view[r] \in View /\ Gone \in View
  BY NoValueTypes
<1> HIDE DEF v
<1>2. CASE v.state = "gone"
  BY <1>1, <1>2 DEF Merged, v
<1>3. CASE v.state # "gone" /\ Touched(r)
  BY <1>1, <1>3 DEF Merged, v
<1>4. CASE v.state # "gone" /\ ~Touched(r) /\ Expired(r)
  <2>1. Merged(r) = Reverted(v)
    BY <1>4 DEF Merged, v
  <2> QED BY <1>1, <1>4, <2>1, RevertedFacts DEF v
<1>5. CASE v.state # "gone" /\ ~Touched(r) /\ ~Expired(r) /\ HasEntry(r) /\ v.reach
  <2>1. Merged(r) = [v EXCEPT !.state = "awaiting-keep", !.revertAt = pendingKeep[r].revertAt]
    BY <1>5 DEF Merged, v
  <2>2. pendingKeep[r].revertAt \in Times /\ "awaiting-keep" \in States
    BY <1>5 DEF Entry, Times, States
  <2>3. /\ Merged(r) \in View /\ Merged(r).state = "awaiting-keep"
        /\ Merged(r).revertAt = pendingKeep[r].revertAt
    BY <1>1, <2>1, <2>2 DEF View
  <2> QED BY <1>5, <2>3 DEF v
<1>6. CASE v.state # "gone" /\ ~Touched(r) /\ ~Expired(r) /\ ~(HasEntry(r) /\ v.reach)
  <2>1. Merged(r) = v
    BY <1>6 DEF Merged, v
  <2> QED BY <1>1, <1>6, <2>1 DEF v
<1> QED BY <1>2, <1>3, <1>4, <1>5, <1>6

\* Routers whose gate the merge finds expired.
Dropped == {r \in Routers : poll.view[r].state # "gone" /\ ~Touched(r) /\ Expired(r)}

LEMMA PollMergeFacts ==
  ASSUME Base, PollMerge
  PROVE  /\ OfPoll /\ Base' /\ poll.pc = "dial" /\ poll.todo = {} /\ poll' = NoPoll
         /\ call' = call /\ call[PollLoop] = NoCall
         /\ snap'.nodes = poll.nodes /\ \A r \in Routers : snap'.view[r] = Merged(r)
         /\ \A r \in Routers : pendingKeep'[r] = IF r \in Dropped THEN NoEntry ELSE pendingKeep[r]
         /\ released' = released \cup {pendingKeep[r].marker : r \in Dropped}
<1> USE BaseTypes, PollTypes
<1>1. /\ poll.pc = "dial" /\ poll.todo = {} /\ poll' = NoPoll
      /\ snap' = [nodes |-> poll.nodes, view |-> [r \in Routers |-> Merged(r)]]
      /\ pendingKeep' = [r \in Routers |-> IF r \in Dropped THEN NoEntry ELSE pendingKeep[r]]
      /\ released' = released \cup {pendingKeep[r].marker : r \in Dropped}
      /\ UNCHANGED clientVars /\ UNCHANGED <<netmap, setSeq, setGen, op, faults, restarts>>
  BY DEF PollMerge, Dropped
<1>2. call[PollLoop] = NoCall
  BY <1>1 DEF Base, PollInv
<1>3. snap' \in Snapshot
  BY <1>1, MergedFacts DEF Snapshot
<1>4. pendingKeep' \in [Routers -> Entry \cup {NoEntry}]
  BY <1>1
<1>5. released' \subseteq Procs
  <2>1. \A r \in Dropped : pendingKeep[r].marker \in Procs
    BY DEF Dropped, Expired, Entry
  <2> QED BY <1>1, <2>1
<1>6. OfPoll /\ call' = call
  BY <1>1 DEF OfPoll, clientVars, device
<1>7. poll' \in Poll /\ poll'.pc = "idle"
  BY <1>1, NoValueTypes DEF NoPoll
<1>8. PollInv' /\ Fresh(PollLoop, call'[PollLoop]) /\ call'[PollLoop].kind # "apply"
  BY <1>2, <1>6, <1>7, NoValueTypes DEF PollInv, Fresh, NoCall
<1>9. Base'
  BY <1>3, <1>4, <1>5, <1>6, <1>7, <1>8, PollBase
<1> QED BY <1>1, <1>2, <1>6, <1>9

-----------------------------------------------------------------------------
(* What the client's steps, the tailnet and a restart do                   *)

\* A step of the client leaves the poller's own state alone.
Aside ==
  UNCHANGED <<netmap, snap, setSeq, setGen, pendingKeep, op, poll, restarts, released>>

LEMMA WorksBase ==
  ASSUME Base, NEW p \in Procs, Works(p), Aside, faults' \in 0..MaxFaults
  PROVE  /\ Base' /\ KeepsArguments(p)
         /\ OneCommand(p) \/ (GoesOn(p) /\ Touches(p)) \/ (Returns(p) /\ Touches(p))
         /\ UNCHANGED <<clock, fired>> /\ written \subseteq written'
<1>1. ClientInv
  BY DEF Base, ClientInv, PollerTypeOK
<1>2. /\ KeepsArguments(p)
      /\ OneCommand(p) \/ (GoesOn(p) /\ Touches(p)) \/ (Returns(p) /\ Touches(p))
      /\ UNCHANGED <<clock, fired>>
  BY <1>1, WorksFacts
<1>3. ClientInv'
  BY <1>1, WorksInv
<1>4. PollerTypeOK' /\ CallInv'
  BY <1>3 DEF Base, PollerTypeOK, ClientInv, Aside
<1>5. written \subseteq written'
  BY <1>2 DEF OneCommand, GoesOn, Returns
<1>6. OpInv'
  <2> SUFFICES ASSUME NEW q \in Ops PROVE CallOf(q)'
    BY DEF OpInv
  <2>1. CallOf(q) /\ op'[q] = op[q] /\ q \in Procs
    BY ProcsFacts DEF Base, OpInv, Aside
  <2>2. CASE q # p
    <3>1. call'[q] = call[q]
      BY <1>2, <2>1, <2>2 DEF KeepsArguments
    <3> QED BY <1>5, <2>1, <3>1 DEF CallOf, Answer, Sets
  <2>3. CASE q = p
    <3>0. call[p] \in Call
      BY DEF Base, PollerTypeOK, TypeOK
    <3>1. /\ call'[q].kind = call[q].kind /\ call'[q].router = call[q].router
          /\ call'[q].auto = call[q].auto /\ call[q].at # "idle" /\ call'[q].at # "idle"
      BY <1>2, <2>3 DEF KeepsArguments, OneCommand, GoesOn, Returns, Commands
    <3>2. op[q].pc \notin {"idle", "intent", "done"}
      BY <2>1, <3>1 DEF CallOf, NoCall
    <3>3. CASE OneCommand(p)
      BY <1>5, <2>1, <2>3, <3>1, <3>2, <3>3 DEF CallOf, Answer, Sets, OneCommand
    <3>4. CASE GoesOn(p)
      BY <1>5, <2>1, <2>3, <3>1, <3>2, <3>4 DEF CallOf, Answer, Sets, GoesOn, Commands
    <3>5. CASE Returns(p)
      BY <1>5, <2>1, <2>3, <3>1, <3>2, <3>5 DEF CallOf, Answer, Sets, Returns, Commands
    <3> QED BY <1>2, <3>3, <3>4, <3>5
  <2> QED BY <2>2, <2>3
<1>7. PollInv'
  <2>1. CASE p # PollLoop
    BY <1>2, <2>1, ProcsFacts DEF KeepsArguments, Base, PollInv, Aside
  <2>2. CASE p = PollLoop
    <3>1. call[p].at # "idle" /\ call'[p].at # "idle"
      BY <1>2 DEF OneCommand, GoesOn, Returns, Commands
    <3> QED BY <1>2, <2>2, <3>1 DEF KeepsArguments, Base, PollInv, Aside, NoCall
  <2> QED BY <2>1, <2>2
<1> QED BY <1>2, <1>4, <1>5, <1>6, <1>7 DEF Base

LEMMA RouterBase ==
  ASSUME Base, RouterStep, UNCHANGED pollerVars
  PROVE  /\ Base' /\ Aside
         /\ UNCHANGED <<written, lock, call>> /\ timers' \subseteq timers
         /\ \/ UNCHANGED <<sel, fired>>
            \/ \E t \in timers : /\ fired' = fired \cup {t.marker}
                                 /\ \A r \in Routers : r # t.router => sel'[r] = sel[r]
         /\ fired \subseteq fired'
<1>1. ClientInv
  BY DEF Base, ClientInv, PollerTypeOK
<1>2. ClientInv' /\ UNCHANGED <<written, call>>
  BY <1>1, RouterFacts
<1>3. Base'
  BY <1>2 DEF Base, PollerTypeOK, ClientInv, pollerVars, OpInv, CallOf, Answer, Sets, PollInv
<1> QED BY <1>1, <1>3, RouterFacts DEF pollerVars, Aside

LEMMA NetmapBase ==
  ASSUME Base, NetmapChanges
  PROVE  /\ Base' /\ UNCHANGED clientVars
         /\ UNCHANGED <<snap, setSeq, setGen, pendingKeep, op, poll, faults, restarts, released>>
BY DEF NetmapChanges, Base, PollerTypeOK, TypeOK, CallInv, Running, OpInv, CallOf, Answer,
       Sets, PollInv, clientVars, device

LEMMA RestartBase ==
  ASSUME Base, Restart
  PROVE  /\ Base'
         /\ \A o \in Ops : /\ op'[o].pc = IF op[o].pc = "idle" THEN "idle" ELSE "done"
                           /\ op[o].pc # "idle" => op'[o].router = op[o].router
                           /\ op[o].pc = "idle" => op'[o] = NoOp
                           /\ call'[o] = NoCall
         /\ \A r \in Routers : /\ setSeq'[r] = 0 /\ setGen'[r] = 0
                               /\ pendingKeep'[r] = NoEntry /\ snap'.view[r] = Gone
         /\ poll' = NoPoll /\ snap' = NoSnapshot
         /\ released' = released \cup {t.marker : t \in timers}
         /\ UNCHANGED <<clock, sel, timers, written, fired, netmap, faults>>
<1> USE BaseTypes
<1>1. /\ snap' = NoSnapshot /\ poll' = NoPoll /\ call' = [p \in Procs |-> NoCall]
      /\ lock' = [r \in Routers |-> Nobody]
      /\ setSeq' = [r \in Routers |-> 0] /\ setGen' = [r \in Routers |-> 0]
      /\ pendingKeep' = [r \in Routers |-> NoEntry]
      /\ released' = released \cup {t.marker : t \in timers}
      /\ restarts < MaxRestarts /\ restarts' = restarts + 1
      /\ UNCHANGED <<clock, sel, timers, written, fired, netmap, faults>>
  BY DEF Restart
<1> DEFINE d(o) == [NoOp EXCEPT !.pc = "done", !.router = op[o].router]
<1>2. op' = [o \in Ops |-> IF op[o].pc = "idle" THEN NoOp ELSE d(o)]
  BY DEF Restart
<1>3. \A o \in Ops : d(o) \in Op /\ d(o).pc = "done" /\ d(o).router = op[o].router
  <2> SUFFICES ASSUME NEW o \in Ops
      PROVE  d(o) \in Op /\ d(o).pc = "done" /\ d(o).router = op[o].router
    OBVIOUS
  <2>1. op[o].router \in Routers \cup {Nobody}
    BY DEF Op
  <2> QED BY <2>1, NoValueTypes DEF NoOp, Op
<1> HIDE DEF d
<1>4. NoOp \in Op /\ NoOp.pc = "idle"
  BY NoValueTypes DEF NoOp
<1>5. /\ op' \in [Ops -> Op]
      /\ \A o \in Ops : /\ op'[o].pc = IF op[o].pc = "idle" THEN "idle" ELSE "done"
                        /\ op[o].pc # "idle" => op'[o].router = op[o].router
                        /\ op[o].pc = "idle" => op'[o] = NoOp
  BY <1>2, <1>3, <1>4
<1>6. \A t \in timers : t.marker \in Procs
  BY DEF Timer
<1>7. PollerTypeOK'
  <2>1. restarts' \in 0..MaxRestarts
    BY <1>1, PollerAssumption DEF Base, PollerTypeOK
  <2>2. TypeOK'
    BY <1>1, NoValueTypes DEF Base, PollerTypeOK, TypeOK
  <2>3. released' \subseteq Procs
    BY <1>1, <1>6
  <2> QED BY <1>1, <1>5, <2>1, <2>2, <2>3, NoValueTypes DEF Base, PollerTypeOK
<1>8. CallInv'
  BY <1>1 DEF CallInv, Running, NoCall, Commands
<1>9. OpInv'
  <2> SUFFICES ASSUME NEW o \in Ops PROVE CallOf(o)'
    BY DEF OpInv
  <2>1. call'[o] = NoCall /\ op'[o].pc \in {"idle", "done"}
    BY <1>1, <1>5, ProcsFacts
  <2> QED BY <2>1 DEF CallOf, Sets
<1>10. PollInv'
  BY <1>1, ProcsFacts DEF PollInv, NoPoll
<1>11. \A r \in Routers : snap'.view[r] = Gone
  BY <1>1 DEF NoSnapshot
<1> QED BY <1>1, <1>5, <1>7, <1>8, <1>9, <1>10, <1>11, ProcsFacts DEF Base

-----------------------------------------------------------------------------
(* Type correctness                                                        *)

\* The kinds of step, as the proofs below split them.
LEMMA StepCases ==
  ASSUME Base, [Next]_vars
  PROVE  \/ \E o \in Ops, r \in Routers, target \in Targets : SetExitNode(o, r, target)
         \/ \E o \in Ops, r \in Routers : Keep(o, r) \/ KeepElapsed(o, r) \/ Probe(o, r)
         \/ \E o \in Ops : \/ SetIntent(o) \/ SetFollowUp(o) \/ SetSettle(o) \/ SetDisarmed(o)
                           \/ KeepFailed(o) \/ KeepSettle(o) \/ ProbeResolve(o) \/ ProbeSettle(o)
         \/ PollStart \/ PollInventory \/ PollDialed \/ PollMerge
         \/ \E p \in Procs : Works(p) /\ Aside /\ faults' \in 0..MaxFaults
         \/ RouterStep /\ UNCHANGED pollerVars
         \/ NetmapChanges \/ Restart
         \/ UNCHANGED vars
<1>1. faults \in 0..MaxFaults /\ MaxFaults \in Nat
  BY PollerAssumption DEF Base, PollerTypeOK
<1>2. CASE ClientStep
  <2>1. ASSUME NEW p \in Procs, ProcStep(p), UNCHANGED pollerVars
        PROVE  Works(p) /\ Aside /\ faults' \in 0..MaxFaults
    BY <1>1, <2>1 DEF Works, Aside, pollerVars
  <2>2. ASSUME NEW p \in Procs, faults < MaxFaults, Fault(p), faults' = faults + 1,
               UNCHANGED <<netmap, snap, setSeq, setGen, pendingKeep, op, poll, restarts,
                           released>>
        PROVE  Works(p) /\ Aside /\ faults' \in 0..MaxFaults
    BY <1>1, <2>2 DEF Works, Aside
  <2> QED BY <1>2, <2>1, <2>2 DEF ClientStep
<1> QED BY <1>2, Zenon DEF Next, Request, OpStep, PollStep

LEMMA InitBase ==
  ASSUME Init
  PROVE  Base
<1>1. /\ ClientInit /\ netmap \in Netmaps /\ snap = NoSnapshot /\ poll = NoPoll
      /\ setSeq = [r \in Routers |-> 0] /\ setGen = [r \in Routers |-> 0]
      /\ pendingKeep = [r \in Routers |-> NoEntry] /\ op = [o \in Ops |-> NoOp]
      /\ faults = 0 /\ restarts = 0 /\ released = {}
  BY DEF Init
<1>2. TypeOK /\ call = [p \in Procs |-> NoCall]
  BY <1>1, NoValueTypes, SelectionAssumption DEF ClientInit, TypeOK
<1>3. PollerTypeOK
  BY <1>1, <1>2, NoValueTypes, PollerAssumption DEF PollerTypeOK
<1>4. CallInv
  BY <1>2 DEF CallInv, Running, NoCall, Commands
<1>5. OpInv
  BY <1>1, <1>2, ProcsFacts DEF OpInv, CallOf, NoOp, Sets
<1>6. PollInv
  BY <1>1, <1>2, ProcsFacts DEF PollInv, NoPoll
<1> QED BY <1>3, <1>4, <1>5, <1>6 DEF Base

LEMMA NextBase ==
  ASSUME Base, [Next]_vars
  PROVE  Base'
<1>1. ASSUME NEW o \in Ops, NEW r \in Routers, NEW target \in Targets,
             SetExitNode(o, r, target)
      PROVE  Base'
  BY <1>1, SetExitNodeFacts
<1>2. ASSUME NEW o \in Ops, NEW r \in Routers,
             Keep(o, r) \/ KeepElapsed(o, r) \/ Probe(o, r)
      PROVE  Base'
  BY <1>2, KeepFacts, KeepElapsedFacts, ProbeFacts
<1>3. ASSUME NEW o \in Ops,
             \/ SetIntent(o) \/ SetFollowUp(o) \/ SetSettle(o) \/ SetDisarmed(o)
             \/ KeepFailed(o) \/ KeepSettle(o) \/ ProbeResolve(o) \/ ProbeSettle(o)
      PROVE  Base'
  BY <1>3, SetIntentFacts, SetFollowUpFacts, SetSettleFacts, SetDisarmedFacts,
     KeepFailedFacts, KeepSettleFacts, ProbeResolveFacts, ProbeSettleFacts
<1>4. CASE PollStart \/ PollInventory \/ PollDialed \/ PollMerge
  BY <1>4, PollStartFacts, PollInventoryFacts, PollDialedFacts, PollMergeFacts
<1>5. ASSUME NEW p \in Procs, Works(p) /\ Aside /\ faults' \in 0..MaxFaults
      PROVE  Base'
  BY <1>5, WorksBase
<1>6. CASE RouterStep /\ UNCHANGED pollerVars
  BY <1>6, RouterBase
<1>7. CASE NetmapChanges \/ Restart
  BY <1>7, NetmapBase, RestartBase
<1>8. CASE UNCHANGED vars
  BY <1>8 DEF vars, pollerVars, clientVars, device, Base, PollerTypeOK, TypeOK, CallInv,
              Running, OpInv, CallOf, Answer, Sets, PollInv
<1> QED BY <1>1, <1>2, <1>3, <1>4, <1>5, <1>6, <1>7, <1>8, StepCases

\* The types hold for every instance: in particular a pendingKeep entry always
\* has the marker of some ApplyExitNode (keepEntry in SetExitNode), so Keep never
\* writes the empty marker.  The types alone are not inductive: that marker is
\* what ApplyExitNode returned, which the client call and the request agree on
\* (OpInv).
THEOREM PollerTypeCorrect == SafeSpec => []PollerTypeOK
<1>1. Init => Base
  BY InitBase
<1>2. Base /\ [Next]_vars => Base'
  BY NextBase
<1>3. Base => PollerTypeOK
  BY DEF Base
<1> QED BY <1>1, <1>2, <1>3, PTL DEF SafeSpec
=============================================================================
