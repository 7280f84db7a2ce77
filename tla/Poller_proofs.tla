--------------------------- MODULE Poller_proofs ---------------------------
(***************************************************************************)
(* Proofs about the poller for any number of routers, exit nodes and       *)
(* concurrent requests, any number of faults and restarts, and any         *)
(* behaviour of the tailnet unless a theorem says otherwise.               *)
(***************************************************************************)
EXTENDS PollerSteps_proofs

-----------------------------------------------------------------------------
(* The reverts that are asleep                                             *)

\* A sleeping revert belongs to the set that armed it, on its router.
TimerInv ==
  \A t \in timers :
    /\ t.marker \in Ops
    /\ op[t.marker].pc \in {"apply", "reread", "egress", "disarm", "done"}
    /\ op[t.marker].router = t.router

LEMMA NextTimerInv ==
  ASSUME Base, TimerInv, [Next]_vars
  PROVE  TimerInv'
<1>1. ASSUME NEW o \in Ops, NEW r \in Routers, NEW target \in Targets,
             SetExitNode(o, r, target)
      PROVE  TimerInv'
  BY <1>1, SetExitNodeFacts DEF TimerInv, Own
<1>2. ASSUME NEW o \in Ops, NEW r \in Routers, Keep(o, r)
      PROVE  TimerInv'
  BY <1>2, KeepFacts DEF TimerInv, Own
<1>3. ASSUME NEW o \in Ops, NEW r \in Routers, KeepElapsed(o, r)
      PROVE  TimerInv'
  BY <1>3, KeepElapsedFacts DEF TimerInv, Own
<1>4. ASSUME NEW o \in Ops, NEW r \in Routers, Probe(o, r)
      PROVE  TimerInv'
  BY <1>4, ProbeFacts DEF TimerInv, Own
<1>5. ASSUME NEW o \in Ops, SetIntent(o)
      PROVE  TimerInv'
  BY <1>5, SetIntentFacts DEF TimerInv, Own
<1>6. ASSUME NEW o \in Ops, SetFollowUp(o)
      PROVE  TimerInv'
  BY <1>6, SetFollowUpFacts DEF TimerInv, Own
<1>7. ASSUME NEW o \in Ops, SetSettle(o)
      PROVE  TimerInv'
  BY <1>7, SetSettleFacts DEF TimerInv, Own
<1>8. ASSUME NEW o \in Ops, SetDisarmed(o) \/ KeepFailed(o) \/ KeepSettle(o) \/ ProbeSettle(o)
      PROVE  TimerInv'
  <2>1. Ends(o)
    BY <1>8, SetDisarmedFacts, KeepFailedFacts, KeepSettleFacts, ProbeSettleFacts
  <2> QED BY <2>1 DEF TimerInv, Own, Ends
<1>9. ASSUME NEW o \in Ops, ProbeResolve(o)
      PROVE  TimerInv'
  BY <1>9, ProbeResolveFacts DEF TimerInv, Own
<1>10. CASE PollStart \/ PollInventory \/ PollDialed \/ PollMerge
  <2>1. OfPoll
    BY <1>10, PollStartFacts, PollInventoryFacts, PollDialedFacts, PollMergeFacts
  <2> QED BY <2>1 DEF TimerInv, OfPoll
<1>11. ASSUME NEW p \in Procs, Works(p) /\ Aside /\ faults' \in 0..MaxFaults
       PROVE  TimerInv'
  <2>1. OneCommand(p) \/ (GoesOn(p) /\ Touches(p)) \/ (Returns(p) /\ Touches(p))
    BY <1>11, WorksBase
  <2>2. CASE timers' = timers
    BY <1>11, <2>2 DEF TimerInv, Aside
  <2>3. ASSUME NEW prev \in Selections, NEW due \in Nat, call[p].kind = "apply",
               timers' = timers \cup {[marker |-> p, router |-> call[p].router,
                                       prev |-> prev, due |-> due]}
        PROVE  TimerInv'
    <3>1. p \in Ops
      BY <2>3, ProcsFacts DEF Base, PollInv, NoCall
    <3>2. op[p].pc = "apply" /\ op[p].router = call[p].router
      <4>1. CallOf(p) /\ op[p] \in Op
        BY <3>1, BaseTypes
      <4> QED BY <2>3, <4>1 DEF CallOf, NoCall, Op
    <3> QED BY <1>11, <2>3, <3>1, <3>2 DEF TimerInv, Aside
  <2> QED BY <2>1, <2>2, <2>3 DEF OneCommand, GoesOn, Returns, Touches
<1>12. CASE RouterStep /\ UNCHANGED pollerVars
  BY <1>12, RouterBase DEF TimerInv, Aside
<1>13. CASE NetmapChanges
  BY <1>13, NetmapBase DEF TimerInv, clientVars, device
<1>14. CASE Restart
  BY <1>14, RestartBase DEF TimerInv
<1>15. CASE UNCHANGED vars
  BY <1>15 DEF TimerInv, vars, clientVars, device, pollerVars
<1> QED BY <1>1, <1>2, <1>3, <1>4, <1>5, <1>6, <1>7, <1>8, <1>9, <1>10, <1>11, <1>12,
           <1>13, <1>14, <1>15, StepCases

-----------------------------------------------------------------------------
(* The order of the sets on one router                                     *)

\* Two sets in flight on one router have different numbers, at most setSeq.
SetsInOrder ==
  /\ \A o \in Ops : Sets(o) => op[o].seq <= setSeq[op[o].router]
  /\ \A o, q \in Ops :
       Sets(o) /\ Sets(q) /\ op[o].router = op[q].router /\ o # q => op[o].seq # op[q].seq

\* A gate is that of a set that is over.
GatesInOrder ==
  \A r \in Routers :
    HasEntry(r) =>
      /\ pendingKeep[r].seq <= setSeq[r]
      /\ \A o \in Ops : Sets(o) /\ op[o].router = r => op[o].seq # pendingKeep[r].seq

\* So is the set that a Keep confirms; while it is the newest, the gate is its
\* own, or gone.
KeepsInOrder ==
  \A q \in Ops :
    op[q].pc = "keeping" =>
      /\ op[q].seq <= setSeq[op[q].router]
      /\ \A o \in Ops : Sets(o) /\ op[o].router = op[q].router => op[o].seq # op[q].seq
      /\ op[q].seq = setSeq[op[q].router] =>
           pendingKeep[op[q].router].marker \in {Nobody, op[q].res.marker}

SeqInv == SetsInOrder /\ GatesInOrder /\ KeepsInOrder

LEMMA SeqTypes ==
  ASSUME Base
  PROVE  /\ \A o \in Ops : op[o].seq \in Nat
         /\ \A o \in Ops : Sets(o) \/ op[o].pc = "keeping" => op[o].router \in Routers
         /\ \A r \in Routers : setSeq[r] \in Nat
         /\ \A r \in Routers : HasEntry(r) => pendingKeep[r].seq \in Nat
         /\ NoEntry.marker = Nobody
<1> USE BaseTypes
<1>1. \A o \in Ops : op[o] \in Op /\ op[o].seq \in Nat
  BY DEF Op
<1>2. \A r \in Routers : HasEntry(r) => pendingKeep[r].seq \in Nat
  BY DEF Entry
<1> QED BY <1>1, <1>2 DEF CallOf, Sets, NoEntry

\* A step that starts or ends something else keeps the order.
LEMMA SeqFrame ==
  ASSUME Base, SeqInv, setSeq' = setSeq,
         \A o \in Ops : Sets(o)' => Sets(o) /\ op'[o].router = op[o].router /\ op'[o].seq = op[o].seq,
         \A q \in Ops : op'[q].pc = "keeping" => op'[q] = op[q],
         \A r \in Routers : pendingKeep'[r] = pendingKeep[r] \/ pendingKeep'[r] = NoEntry
  PROVE  SeqInv'
<1> USE SeqTypes
<1>1. SetsInOrder'
  BY DEF SeqInv, SetsInOrder
<1>2. GatesInOrder'
  BY DEF SeqInv, GatesInOrder, HasEntry
<1>3. KeepsInOrder'
  BY DEF SeqInv, KeepsInOrder
<1> QED BY <1>1, <1>2, <1>3 DEF SeqInv

LEMMA KeepSeqInv ==
  ASSUME Base, SeqInv, NEW o \in Ops, NEW r \in Routers, Keep(o, r)
  PROVE  SeqInv'
<1> USE SeqTypes
<1>1. /\ Own(o) /\ op[o].pc = "idle" /\ op'[o].pc = "keeping" /\ op'[o].router = r
      /\ HasEntry(r) /\ pendingKeep[r].seq = setSeq[r]
      /\ op'[o].seq = pendingKeep[r].seq /\ op'[o].res.marker = pendingKeep[r].marker
      /\ UNCHANGED <<setSeq, pendingKeep>>
  BY KeepFacts
<1>2. \A q \in Ops : Sets(q)' => Sets(q) /\ op'[q] = op[q]
  BY <1>1 DEF Own, Sets
<1>3. SetsInOrder'
  BY <1>1, <1>2 DEF SeqInv, SetsInOrder
<1>4. GatesInOrder'
  BY <1>1, <1>2 DEF SeqInv, GatesInOrder, HasEntry
<1>5. KeepsInOrder'
  BY <1>1, <1>2 DEF SeqInv, KeepsInOrder, GatesInOrder, Own
<1> QED BY <1>3, <1>4, <1>5 DEF SeqInv

LEMMA SetIntentSeqInv ==
  ASSUME Base, SeqInv, NEW o \in Ops, SetIntent(o)
  PROVE  SeqInv'
<1> USE SeqTypes
<1> DEFINE r == op[o].router
<1>1. /\ Own(o) /\ op[o].pc = "intent" /\ op'[o].router = r /\ r \in Routers
      /\ setSeq' = [setSeq EXCEPT ![r] = @ + 1] /\ pendingKeep' = pendingKeep
      /\ op'[o].pc = "done" \/ (op'[o].pc = "apply" /\ op'[o].seq = setSeq[r] + 1)
  BY SetIntentFacts
<1>2. /\ setSeq'[r] = setSeq[r] + 1
      /\ \A q \in Routers : q # r => setSeq'[q] = setSeq[q]
      /\ \A q \in Routers : setSeq[q] <= setSeq'[q]
  BY <1>1, BaseTypes
<1>3. \A q \in Ops : (Sets(q)' \/ op'[q].pc = "keeping") /\ q # o => op'[q] = op[q]
  BY <1>1 DEF Own
<1>4. op'[o].pc # "keeping" /\ (Sets(o)' => op'[o].seq = setSeq'[r])
  BY <1>1, <1>2 DEF Sets
<1> HIDE DEF r
<1>5. SetsInOrder'
  BY <1>1, <1>2, <1>3, <1>4 DEF SeqInv, SetsInOrder, Sets
<1>6. GatesInOrder'
  BY <1>1, <1>2, <1>3, <1>4 DEF SeqInv, GatesInOrder, HasEntry, Sets
<1>7. KeepsInOrder'
  BY <1>1, <1>2, <1>3, <1>4 DEF SeqInv, KeepsInOrder, Sets
<1> QED BY <1>5, <1>6, <1>7 DEF SeqInv

\* The gate that a published set leaves.
LEMMA GateFacts ==
  ASSUME Base, NEW o \in Ops, Sets(o), Returned(o)
  PROVE  /\ ApplyResult(o).err # "none" => GateAfter(o) = pendingKeep[op[o].router]
         /\ ApplyResult(o).err = "none" /\ autoKeep(op[o].target) => GateAfter(o) = NoEntry
         /\ ApplyResult(o).err = "none" /\ ~autoKeep(op[o].target) =>
              /\ GateAfter(o).marker = o /\ GateAfter(o).seq = op[o].seq
              /\ GateAfter(o).revertAt = op[o].armAt + Window
              /\ GateAfter(o) # NoEntry
<1> USE AnswerFacts
<1>1. Nobody # o
  BY ProcsFacts
<1>2. CASE ApplyResult(o).err # "none"
  BY <1>2 DEF GateAfter, router
<1>3. CASE ApplyResult(o).err = "none" /\ autoKeep(op[o].target)
  BY <1>3 DEF GateAfter
<1>4. CASE ApplyResult(o).err = "none" /\ ~autoKeep(op[o].target)
  <2>1. ApplyResult(o).marker = o
    BY <1>4 DEF Answer
  <2>2. GateAfter(o) = [marker |-> o, revertAt |-> op[o].armAt + Window, seq |-> op[o].seq]
    BY <1>4, <2>1 DEF GateAfter
  <2> QED BY <1>1, <1>4, <2>2 DEF NoEntry
<1> QED BY <1>2, <1>3, <1>4

LEMMA SetSettleSeqInv ==
  ASSUME Base, SeqInv, NEW o \in Ops, SetSettle(o)
  PROVE  SeqInv'
<1> USE SeqTypes
<1> DEFINE r == op[o].router
<1>1. /\ Own(o) /\ Sets(o) /\ Returned(o) /\ op'[o].pc \in {"done", "disarm"}
      /\ setSeq' = setSeq /\ r \in Routers
      /\ \/ pendingKeep' = pendingKeep
         \/ /\ setSeq[r] = op[o].seq
            /\ pendingKeep' = [pendingKeep EXCEPT ![r] = GateAfter(o)]
  BY SetSettleFacts DEF Published
<1>2. \A q \in Ops : Sets(q)' \/ op'[q].pc = "keeping" => q # o /\ op'[q] = op[q]
  BY <1>1 DEF Own, Sets
<1>3. \/ \A q \in Routers : pendingKeep'[q] = pendingKeep[q] \/ pendingKeep'[q] = NoEntry
      \/ /\ setSeq[r] = op[o].seq /\ pendingKeep'[r].seq = op[o].seq
         /\ \A q \in Routers : q # r => pendingKeep'[q] = pendingKeep[q]
  BY <1>1, GateFacts, BaseTypes
<1> HIDE DEF r
<1>4. CASE \A q \in Routers : pendingKeep'[q] = pendingKeep[q] \/ pendingKeep'[q] = NoEntry
  <2>1. \A q \in Ops : Sets(q)' => Sets(q) /\ op'[q].router = op[q].router
                                           /\ op'[q].seq = op[q].seq
    BY <1>2 DEF Sets
  <2> QED BY <1>1, <1>2, <1>4, <2>1, SeqFrame
<1>5. CASE /\ setSeq[r] = op[o].seq /\ pendingKeep'[r].seq = op[o].seq
           /\ \A q \in Routers : q # r => pendingKeep'[q] = pendingKeep[q]
  <2>1. SetsInOrder'
    BY <1>1, <1>2 DEF SeqInv, SetsInOrder, Sets
  <2>2. GatesInOrder'
    BY <1>1, <1>2, <1>5 DEF SeqInv, GatesInOrder, SetsInOrder, HasEntry, Sets, r
  <2>3. KeepsInOrder'
    BY <1>1, <1>2, <1>5 DEF SeqInv, KeepsInOrder, Sets, r
  <2> QED BY <2>1, <2>2, <2>3 DEF SeqInv
<1> QED BY <1>3, <1>4, <1>5

LEMMA NextSeqInv ==
  ASSUME Base, SeqInv, [Next]_vars
  PROVE  SeqInv'
<1> DEFINE SetsKept == \A q \in Ops : Sets(q)' => /\ Sets(q) /\ op'[q].router = op[q].router
                                                 /\ op'[q].seq = op[q].seq
           KeepsKept == \A q \in Ops : op'[q].pc = "keeping" => op'[q] = op[q]
           GatesKept == \A r \in Routers : pendingKeep'[r] = pendingKeep[r]
                                           \/ pendingKeep'[r] = NoEntry
<1>0. setSeq' = setSeq /\ SetsKept /\ KeepsKept /\ GatesKept => SeqInv'
  BY SeqFrame
<1> USE BaseTypes
<1>1. ASSUME NEW o \in Ops, NEW r \in Routers, NEW target \in Targets,
             SetExitNode(o, r, target)
      PROVE  SeqInv'
  BY <1>0, <1>1, SetExitNodeFacts DEF Own, Sets
<1>2. ASSUME NEW o \in Ops, NEW r \in Routers, Keep(o, r)
      PROVE  SeqInv'
  BY <1>2, KeepSeqInv
<1>3. ASSUME NEW o \in Ops, NEW r \in Routers, KeepElapsed(o, r)
      PROVE  SeqInv'
  BY <1>0, <1>3, KeepElapsedFacts DEF Sets
<1>4. ASSUME NEW o \in Ops, NEW r \in Routers, Probe(o, r)
      PROVE  SeqInv'
  BY <1>0, <1>4, ProbeFacts DEF Own, Sets
<1>5. ASSUME NEW o \in Ops, SetIntent(o)
      PROVE  SeqInv'
  BY <1>5, SetIntentSeqInv
<1>6. ASSUME NEW o \in Ops, SetFollowUp(o)
      PROVE  SeqInv'
  BY <1>0, <1>6, SetFollowUpFacts DEF Own, Sets
<1>7. ASSUME NEW o \in Ops, SetSettle(o)
      PROVE  SeqInv'
  BY <1>7, SetSettleSeqInv
<1>8. ASSUME NEW o \in Ops, SetDisarmed(o) \/ KeepFailed(o) \/ KeepSettle(o) \/ ProbeSettle(o)
      PROVE  SeqInv'
  <2>1. Ends(o) /\ setSeq' = setSeq
    BY <1>8, SetDisarmedFacts, KeepFailedFacts, KeepSettleFacts, ProbeSettleFacts
  <2>2. GatesKept
    BY <1>8, SetDisarmedFacts, KeepFailedFacts, KeepSettleFacts, ProbeSettleFacts
  <2>3. SetsKept /\ KeepsKept
    BY <2>1 DEF Ends, Own, Sets
  <2> QED BY <1>0, <2>1, <2>2, <2>3
<1>9. ASSUME NEW o \in Ops, ProbeResolve(o)
      PROVE  SeqInv'
  BY <1>0, <1>9, ProbeResolveFacts DEF Own, Sets, Ends
<1>10. CASE PollStart \/ PollInventory \/ PollDialed \/ PollMerge
  <2>1. OfPoll /\ GatesKept
    BY <1>10, PollStartFacts, PollInventoryFacts, PollDialedFacts, PollMergeFacts
  <2> QED BY <1>0, <2>1 DEF OfPoll, Sets
<1>11. ASSUME NEW p \in Procs, Works(p) /\ Aside /\ faults' \in 0..MaxFaults
       PROVE  SeqInv'
  BY <1>0, <1>11 DEF Aside, Sets
<1>12. CASE RouterStep /\ UNCHANGED pollerVars
  BY <1>0, <1>12 DEF pollerVars, Sets
<1>13. CASE NetmapChanges
  BY <1>0, <1>13, NetmapBase DEF Sets
<1>14. CASE Restart
  BY <1>14, RestartBase DEF SeqInv, SetsInOrder, GatesInOrder, KeepsInOrder, Sets, HasEntry
<1>15. CASE UNCHANGED vars
  BY <1>0, <1>15 DEF vars, pollerVars, Sets
<1> QED BY <1>1, <1>2, <1>3, <1>4, <1>5, <1>6, <1>7, <1>8, <1>9, <1>10, <1>11, <1>12,
           <1>13, <1>14, <1>15, StepCases

-----------------------------------------------------------------------------
(* NoLeakedTimer                                                           *)

\* Why the sleeping revert t may still fire.
Accounted(t) ==
  \/ t.marker \in written \cup released
  \/ Setting(t.marker)
  \/ op[t.marker].res.err # "none"
  \/ pendingKeep[t.router].marker = t.marker

TimersInv == Base /\ TimerInv /\ SeqInv /\ NoLeakedTimer

LEMMA Leaks ==
  /\ NoLeakedTimer <=> \A t \in timers : Accounted(t)
  /\ NoLeakedTimer' <=> \A t \in timers' : Accounted(t)'
BY DEF NoLeakedTimer, Accounted

\* A step that lets no marker, set or gate go.
LEMMA AccountedFrame ==
  ASSUME TimersInv, timers' \subseteq timers, written \subseteq written',
         released \subseteq released',
         \A t \in timers : \/ op'[t.marker] = op[t.marker]
                           \/ /\ Setting(t.marker) => Setting(t.marker)'
                              /\ op'[t.marker].res.err = op[t.marker].res.err,
         \A r \in Routers : \/ pendingKeep'[r] = pendingKeep[r]
                            \/ pendingKeep[r].marker = Nobody
                            \/ pendingKeep[r].marker \in written' \cup released'
  PROVE  NoLeakedTimer'
<1> SUFFICES ASSUME NEW t \in timers PROVE Accounted(t)'
  BY Leaks
<1>1. Accounted(t) /\ t.marker \in Ops /\ t.router \in Routers /\ t.marker # Nobody
  BY Leaks, BaseTypes, ProcsFacts DEF TimersInv, TimerInv, Timer
<1> QED BY <1>1 DEF Accounted, Setting

LEMMA SetSettleTimers ==
  ASSUME TimersInv, NEW o \in Ops, SetSettle(o)
  PROVE  NoLeakedTimer'
<1> USE BaseTypes DEF TimersInv
<1> DEFINE r == op[o].router
           res == ApplyResult(o)
<1>1. /\ Own(o) /\ Sets(o) /\ Returned(o) /\ r \in Routers /\ op'[o].res.err = res.err
      /\ IF Published(o) THEN pendingKeep' = [pendingKeep EXCEPT ![r] = GateAfter(o)]
                         ELSE pendingKeep' = pendingKeep
      /\ released' = released \cup ({Disarm(o, Published(o))} \ {Nobody})
  BY SetSettleFacts
<1>2. /\ Answer(o, res.err, res.marker)
      /\ res.err # "none" => GateAfter(o) = pendingKeep[r]
      /\ res.err = "none" /\ ~autoKeep(op[o].target) => GateAfter(o).marker = o
  BY <1>1, AnswerFacts, GateFacts
<1>3. /\ ~Published(o) => Disarm(o, Published(o)) = res.marker
      /\ Published(o) /\ res.err = "none" => Disarm(o, Published(o)) = pendingKeep[r].marker
  BY DEF Disarm, router
<1> HIDE DEF r, res
<1> SUFFICES ASSUME NEW t \in timers PROVE Accounted(t)'
  BY <1>1, Leaks DEF Own
<1>4. /\ Accounted(t) /\ t.marker \in Ops /\ t.router \in Routers /\ t.marker # Nobody
      /\ op[t.marker].router = t.router /\ written' = written
  BY <1>1, Leaks, ProcsFacts DEF TimerInv, Timer, Own
<1>5. CASE t.marker = o
  <2>1. t.router = r
    BY <1>4, <1>5 DEF r
  <2>2. CASE res.err # "none"
    BY <1>1, <1>5, <2>2 DEF Accounted
  <2>3. CASE res.err = "none" /\ autoKeep(op[o].target)
    BY <1>2, <1>4, <1>5, <2>3 DEF Accounted, Answer
  <2>4. CASE res.err = "none" /\ ~autoKeep(op[o].target) /\ Published(o)
    BY <1>1, <1>2, <1>5, <2>1, <2>4 DEF Accounted
  <2>5. CASE res.err = "none" /\ ~autoKeep(op[o].target) /\ ~Published(o)
    BY <1>1, <1>2, <1>3, <1>4, <1>5, <2>5 DEF Accounted, Answer
  <2> QED BY <2>2, <2>3, <2>4, <2>5
<1>6. CASE t.marker # o
  <2>1. op'[t.marker] = op[t.marker]
    BY <1>1, <1>4, <1>6 DEF Own
  <2>2. pendingKeep'[t.router] = pendingKeep[t.router]
        \/ (t.router = r /\ Published(o) /\ res.err = "none")
    BY <1>1, <1>2, <1>4
  <2> QED BY <1>1, <1>3, <1>4, <2>1, <2>2 DEF Accounted, Setting
<1> QED BY <1>5, <1>6

LEMMA NextTimers ==
  ASSUME TimersInv, [Next]_vars
  PROVE  NoLeakedTimer'
<1> USE DEF TimersInv
<1> DEFINE OpKept(q) == \/ op'[q] = op[q]
                        \/ (Setting(q) => Setting(q)') /\ op'[q].res.err = op[q].res.err
           OpsKept == \A t \in timers : OpKept(t.marker)
           GatesKept == \A r \in Routers : \/ pendingKeep'[r] = pendingKeep[r]
                                           \/ pendingKeep[r].marker = Nobody
                                           \/ pendingKeep[r].marker \in written' \cup released'
<1>0. /\ timers' \subseteq timers /\ written \subseteq written' /\ released \subseteq released'
      /\ OpsKept /\ GatesKept
      => NoLeakedTimer'
  BY AccountedFrame
<1>1. ASSUME NEW o \in Ops, NEW r \in Routers, NEW target \in Targets,
             SetExitNode(o, r, target)
      PROVE  NoLeakedTimer'
  BY <1>0, <1>1, SetExitNodeFacts DEF Own, TimerInv
<1>2. ASSUME NEW o \in Ops, NEW r \in Routers, Keep(o, r)
      PROVE  NoLeakedTimer'
  BY <1>0, <1>2, KeepFacts DEF Own, TimerInv
<1>3. ASSUME NEW o \in Ops, NEW r \in Routers, KeepElapsed(o, r)
      PROVE  NoLeakedTimer'
  BY <1>0, <1>3, KeepElapsedFacts, BaseTypes DEF Own
<1>4. ASSUME NEW o \in Ops, NEW r \in Routers, Probe(o, r)
      PROVE  NoLeakedTimer'
  BY <1>0, <1>4, ProbeFacts DEF Own, TimerInv
<1>5. ASSUME NEW o \in Ops, SetIntent(o)
      PROVE  NoLeakedTimer'
  BY <1>0, <1>5, SetIntentFacts DEF Own, TimerInv
<1>6. ASSUME NEW o \in Ops, SetFollowUp(o)
      PROVE  NoLeakedTimer'
  <2>1. /\ Own(o) /\ op'[o].pc \in {"reread", "egress"}
        /\ UNCHANGED <<pendingKeep, released>>
    BY <1>6, SetFollowUpFacts
  <2>2. \A t \in timers : Accounted(t)'
    BY <2>1, Leaks DEF Own, Accounted, Setting, TimerInv
  <2> QED BY <2>1, <2>2, Leaks DEF Own
<1>7. ASSUME NEW o \in Ops, SetSettle(o)
      PROVE  NoLeakedTimer'
  BY <1>7, SetSettleTimers
<1>8. ASSUME NEW o \in Ops, SetDisarmed(o) \/ KeepFailed(o) \/ ProbeSettle(o)
      PROVE  NoLeakedTimer'
  <2>1. Ends(o) /\ UNCHANGED <<pendingKeep, released>> /\ ~Setting(o)
    BY <1>8, SetDisarmedFacts, KeepFailedFacts, ProbeSettleFacts DEF Setting
  <2> QED BY <1>0, <2>1 DEF Own, Ends, TimerInv
<1>9. ASSUME NEW o \in Ops, KeepSettle(o)
      PROVE  NoLeakedTimer'
  <2>1. /\ Ends(o) /\ op[o].pc = "keeping" /\ op[o].router \in Routers
        /\ op[o].res.marker \in written /\ released' = released
        /\ \/ pendingKeep' = pendingKeep
           \/ /\ setSeq[op[o].router] = op[o].seq
              /\ pendingKeep' = [pendingKeep EXCEPT ![op[o].router] = NoEntry]
    BY <1>9, KeepSettleFacts
  <2>2. GatesKept
    BY <2>1, BaseTypes DEF SeqInv, KeepsInOrder, Ends, Own
  <2>3. OpsKept
    BY <2>1 DEF Own, Ends, TimerInv
  <2> QED BY <1>0, <2>1, <2>2, <2>3 DEF Ends, Own
<1>10. ASSUME NEW o \in Ops, ProbeResolve(o)
      PROVE  NoLeakedTimer'
  BY <1>0, <1>10, ProbeResolveFacts DEF Own, TimerInv
<1>11. CASE PollStart \/ PollInventory \/ PollDialed
  BY <1>0, <1>11, PollStartFacts, PollInventoryFacts, PollDialedFacts DEF OfPoll
<1>12. CASE PollMerge
  BY <1>0, <1>12, PollMergeFacts DEF OfPoll
<1>13. ASSUME NEW p \in Procs, Works(p) /\ Aside /\ faults' \in 0..MaxFaults
       PROVE  NoLeakedTimer'
  <2>1. /\ OneCommand(p) \/ (GoesOn(p) /\ Touches(p)) \/ (Returns(p) /\ Touches(p))
        /\ written \subseteq written'
    BY <1>13, WorksBase
  <2>2. CASE timers' = timers
    BY <1>0, <1>13, <2>1, <2>2 DEF Aside
  <2>3. ASSUME NEW prev \in Selections, NEW due \in Nat, call[p].kind = "apply",
               timers' = timers \cup {[marker |-> p, router |-> call[p].router,
                                       prev |-> prev, due |-> due]}
        PROVE  NoLeakedTimer'
    <3>1. p \in Ops
      BY <2>3, ProcsFacts DEF Base, PollInv, NoCall
    <3>2. op[p].pc = "apply"
      <4>1. CallOf(p) /\ op[p] \in Op
        BY <3>1, BaseTypes
      <4> QED BY <2>3, <4>1 DEF CallOf, NoCall, Op
    <3>3. \A t \in timers' : Accounted(t)'
      BY <1>13, <2>1, <2>3, <3>2, Leaks DEF Accounted, Setting, Aside
    <3> QED BY <3>3, Leaks
  <2> QED BY <2>1, <2>2, <2>3 DEF OneCommand, GoesOn, Returns, Touches
<1>14. CASE RouterStep /\ UNCHANGED pollerVars
  BY <1>0, <1>14, RouterBase DEF Aside
<1>15. CASE NetmapChanges
  BY <1>0, <1>15, NetmapBase DEF clientVars, device
<1>16. CASE Restart
  <2>1. timers' = timers /\ released' = released \cup {t.marker : t \in timers}
    BY <1>16, RestartBase
  <2>2. \A t \in timers' : Accounted(t)'
    BY <2>1 DEF Accounted
  <2> QED BY <2>2, Leaks
<1>17. CASE UNCHANGED vars
  BY <1>0, <1>17 DEF vars, clientVars, device, pollerVars
<1> QED BY <1>1, <1>2, <1>3, <1>4, <1>5, <1>6, <1>7, <1>8, <1>9, <1>10, <1>11, <1>12,
           <1>13, <1>14, <1>15, <1>16, <1>17, StepCases

\* For every number of routers, requests, faults and restarts: a revert that is
\* asleep and will find no marker is one that SetExitNode, Keep, the merge or a
\* restart can account for.  The argument needs the order of the sets (SeqInv):
\* a Keep drops the gate it finds after its command, and only because the gate
\* of the newest set cannot have changed meanwhile is that the gate whose marker
\* it wrote.
THEOREM TimersAccountedFor == SafeSpec => []NoLeakedTimer
<1>1. Init => TimersInv
  <2> SUFFICES ASSUME Init PROVE TimersInv
    OBVIOUS
  <2>1. /\ Base /\ timers = {} /\ op = [o \in Ops |-> NoOp]
        /\ pendingKeep = [r \in Routers |-> NoEntry]
    BY InitBase DEF Init, ClientInit
  <2>2. SeqInv
    BY <2>1 DEF SeqInv, SetsInOrder, GatesInOrder, KeepsInOrder, Sets, NoOp, HasEntry
  <2> QED BY <2>1, <2>2 DEF TimersInv, TimerInv, NoLeakedTimer
<1>2. TimersInv /\ [Next]_vars => TimersInv'
  BY NextBase, NextTimerInv, NextSeqInv, NextTimers DEF TimersInv
<1>3. TimersInv => NoLeakedTimer
  BY DEF TimersInv
<1> QED BY <1>1, <1>2, <1>3, PTL DEF SafeSpec

-----------------------------------------------------------------------------
(* PendingHasOwner and AwaitingHasGate: every router is dialed             *)

\* A view that a dialing poll has built comes from its own read, never from an
\* older snapshot.
PollView ==
  \A r \in Routers : /\ poll.view[r].state \notin {"pending", "awaiting-keep"}
                     /\ poll.view[r].state = "ok" => poll.view[r].reach

LEMMA NextPollView ==
  ASSUME Mode # "fallback", Base, PollView, [Next]_vars
  PROVE  PollView'
<1> USE DEF Own
<1>0. Gone.state = "gone" /\ \A r \in Routers : NoPoll.view[r] = Gone
  BY DEF Gone, NoPoll, NoSnapshot
<1>1. ASSUME NEW o \in Ops, NEW r \in Routers, NEW target \in Targets,
             SetExitNode(o, r, target)
      PROVE  PollView'
  BY <1>1, SetExitNodeFacts DEF PollView
<1>2. ASSUME NEW o \in Ops, NEW r \in Routers,
             Keep(o, r) \/ KeepElapsed(o, r) \/ Probe(o, r)
      PROVE  PollView'
  BY <1>2, KeepFacts, KeepElapsedFacts, ProbeFacts DEF PollView
<1>3. ASSUME NEW o \in Ops,
             \/ SetIntent(o) \/ SetFollowUp(o) \/ SetSettle(o) \/ SetDisarmed(o)
             \/ KeepFailed(o) \/ KeepSettle(o) \/ ProbeResolve(o) \/ ProbeSettle(o)
      PROVE  PollView'
  <2>1. Own(o)
    BY <1>3, SetIntentFacts, SetFollowUpFacts, SetSettleFacts, SetDisarmedFacts,
       KeepFailedFacts, KeepSettleFacts, ProbeResolveFacts, ProbeSettleFacts DEF Ends
  <2> QED BY <2>1 DEF PollView
<1>4. CASE PollStart
  BY <1>0, <1>4, PollStartFacts DEF PollView
<1>5. CASE PollInventory
  BY <1>5, PollInventoryFacts DEF PollView, Dialed
<1>6. CASE PollDialed
  <2>1. call[PollLoop].router \in Routers
    BY <1>6, PollDialedFacts, PollTypes
  <2> QED BY <1>6, <2>1, PollDialedFacts DEF PollView
<1>7. CASE PollMerge
  BY <1>0, <1>7, PollMergeFacts DEF PollView
<1>8. ASSUME NEW p \in Procs, Works(p) /\ Aside /\ faults' \in 0..MaxFaults
      PROVE  PollView'
  BY <1>8 DEF PollView, Aside
<1>9. CASE RouterStep /\ UNCHANGED pollerVars
  BY <1>9 DEF PollView, pollerVars
<1>10. CASE NetmapChanges
  BY <1>10, NetmapBase DEF PollView
<1>11. CASE Restart
  BY <1>0, <1>11, RestartBase DEF PollView
<1>12. CASE UNCHANGED vars
  BY <1>12 DEF PollView, vars, pollerVars
<1> QED BY <1>1, <1>2, <1>3, <1>4, <1>5, <1>6, <1>7, <1>8, <1>9, <1>10, <1>11, <1>12,
           StepCases

\* What the state shown for router r promises.
Owned(r) ==
  view(r).state = "pending" =>
    \E o \in Ops : Setting(o) /\ op[o].router = r /\ op[o].seq = setSeq[r]
Gated(r) ==
  view(r).state = "awaiting-keep" =>
    HasEntry(r) /\ view(r).revertAt = pendingKeep[r].revertAt

Promises == \A r \in Routers : Owned(r) /\ Gated(r)

LEMMA PromisesAre ==
  Promises <=> PendingHasOwner /\ AwaitingHasGate
BY DEF Promises, Owned, Gated, PendingHasOwner, AwaitingHasGate, router

\* A router that the step does not concern.
LEMMA PromisesFrame ==
  ASSUME NEW r \in Routers, Owned(r), Gated(r), view(r)' = view(r), setSeq'[r] = setSeq[r],
         pendingKeep'[r] = pendingKeep[r],
         \A o \in Ops : Setting(o) /\ op[o].router = r =>
           Setting(o)' /\ op'[o].router = op[o].router /\ op'[o].seq = op[o].seq
  PROVE  Owned(r)' /\ Gated(r)'
BY DEF Owned, Gated, HasEntry

LEMMA SetIntentPromises ==
  ASSUME Base, Promises, NEW o \in Ops, SetIntent(o)
  PROVE  Promises'
<1> USE BaseTypes
<1> SUFFICES ASSUME NEW r \in Routers PROVE Owned(r)' /\ Gated(r)'
  BY DEF Promises
<1>1. /\ Own(o) /\ op[o].pc = "intent" /\ op[o].router \in Routers
      /\ op'[o].router = op[o].router
      /\ setSeq' = [setSeq EXCEPT ![op[o].router] = @ + 1]
      /\ UNCHANGED <<pendingKeep, released>>
      /\ \/ /\ Listed(op[o].router) /\ op'[o].pc = "apply"
            /\ op'[o].seq = setSeq[op[o].router] + 1
            /\ snap'.view[op[o].router].state = "pending"
            /\ \A q \in Routers : q # op[o].router => snap'.view[q] = snap.view[q]
         \/ ~Listed(op[o].router) /\ op'[o].pc = "done" /\ snap' = snap
  BY SetIntentFacts
<1>2. CASE r = op[o].router
  <2>1. snap'.view[r].state \in {"gone", "pending"}
    BY <1>1, <1>2 DEF Listed
  <2>2. snap'.view[r].state = "pending" => Setting(o)' /\ op'[o].seq = setSeq'[r]
    BY <1>1, <1>2 DEF Setting, Listed
  <2> QED BY <1>1, <1>2, <2>1, <2>2 DEF Owned, Gated, view
<1>3. CASE r # op[o].router
  <2>1. /\ view(r)' = view(r) /\ setSeq'[r] = setSeq[r] /\ pendingKeep'[r] = pendingKeep[r]
    BY <1>1, <1>3 DEF view
  <2>2. \A q \in Ops : Setting(q) /\ op[q].router = r => op'[q] = op[q]
    BY <1>1, <1>3 DEF Own
  <2> QED BY <2>1, <2>2, PromisesFrame DEF Setting, Promises
<1> QED BY <1>2, <1>3

LEMMA SetSettlePromises ==
  ASSUME Base, Promises, NEW o \in Ops, SetSettle(o)
  PROVE  Promises'
<1> USE BaseTypes
<1> SUFFICES ASSUME NEW r \in Routers PROVE Owned(r)' /\ Gated(r)'
  BY DEF Promises
<1>1. /\ Own(o) /\ Sets(o) /\ Returned(o) /\ op[o].router \in Routers
      /\ setSeq' = setSeq
      /\ IF Published(o)
           THEN /\ snap'.view[op[o].router] = Settled(o, snap.view[op[o].router])
                /\ \A q \in Routers : q # op[o].router => snap'.view[q] = snap.view[q]
                /\ pendingKeep' = [pendingKeep EXCEPT ![op[o].router] = GateAfter(o)]
           ELSE snap' = snap /\ pendingKeep' = pendingKeep
  BY SetSettleFacts
<1>2. CASE Published(o) /\ r = op[o].router
  <2>1. op[o].armAt \in Nat
    BY <1>1 DEF CallOf
  <2>2. /\ snap'.view[r].state \in {"ok", "awaiting-keep", "unconfirmed", "unreachable"}
        /\ snap'.view[r].state = "awaiting-keep" =>
             /\ ApplyResult(o).err = "none" /\ ~autoKeep(op[o].target)
             /\ snap'.view[r].revertAt = op[o].armAt + Window
    BY <1>1, <1>2, <2>1, SettledFacts
  <2>3. pendingKeep'[r] = GateAfter(o)
    BY <1>1, <1>2
  <2> QED BY <1>1, <2>2, <2>3, GateFacts DEF Owned, Gated, view, HasEntry
<1>3. CASE ~(Published(o) /\ r = op[o].router)
  <2>1. /\ view(r)' = view(r) /\ setSeq'[r] = setSeq[r] /\ pendingKeep'[r] = pendingKeep[r]
    BY <1>1, <1>3 DEF view
  <2>2. \A q \in Ops \ {o} : op'[q] = op[q]
    BY <1>1 DEF Own
  <2>3. op[o].router = r /\ op[o].seq = setSeq[r] => ~Listed(r)
    BY <1>1, <1>3 DEF Published
  <2> QED BY <2>1, <2>2, <2>3 DEF Owned, Gated, view, HasEntry, Listed, Promises, Setting
<1> QED BY <1>2, <1>3

LEMMA PollMergePromises ==
  ASSUME Base, PollView, Promises, PollMerge
  PROVE  Promises'
<1> USE BaseTypes, PollTypes
<1> SUFFICES ASSUME NEW r \in Routers PROVE Owned(r)' /\ Gated(r)'
  BY DEF Promises
<1>1. /\ OfPoll /\ snap'.view[r] = Merged(r)
      /\ pendingKeep'[r] = IF r \in Dropped THEN NoEntry ELSE pendingKeep[r]
  BY PollMergeFacts
<1>2. poll.view[r].state \notin {"pending", "awaiting-keep"} /\ Gone.state = "gone"
  BY DEF PollView, Gone
<1>3. CASE poll.view[r].state # "gone" /\ Touched(r) /\ Listed(r)
  <2>1. view(r)' = view(r) /\ pendingKeep'[r] = pendingKeep[r] /\ op' = op /\ setSeq' = setSeq
    BY <1>1, <1>3, MergedFacts DEF Dropped, OfPoll, view
  <2> QED BY <2>1, PromisesFrame DEF Setting, Promises
<1>4. CASE poll.view[r].state # "gone" /\ ~Touched(r) /\ ~Expired(r) /\ HasEntry(r)
           /\ poll.view[r].reach
  BY <1>1, <1>4, MergedFacts DEF Dropped, Owned, Gated, view, HasEntry
<1>5. CASE /\ ~(poll.view[r].state # "gone" /\ Touched(r) /\ Listed(r))
           /\ ~(poll.view[r].state # "gone" /\ ~Touched(r) /\ ~Expired(r) /\ HasEntry(r)
                /\ poll.view[r].reach)
  <2>1. Merged(r).state \notin {"pending", "awaiting-keep"}
    BY <1>2, <1>5, MergedFacts, RevertedFacts
  <2> QED BY <1>1, <2>1 DEF Owned, Gated, view
<1> QED BY <1>3, <1>4, <1>5

LEMMA NextPromises ==
  ASSUME Base, PollView, Promises, [Next]_vars
  PROVE  Promises'
<1> USE BaseTypes
<1> DEFINE Same(r) == /\ view(r)' = view(r) /\ setSeq'[r] = setSeq[r]
                      /\ pendingKeep'[r] = pendingKeep[r]
           SetsGoOn == \A q \in Ops : Setting(q) =>
                         Setting(q)' /\ op'[q].router = op[q].router /\ op'[q].seq = op[q].seq
           Neither(r) == snap'.view[r].state \notin {"pending", "awaiting-keep"}
<1>0. SetsGoOn /\ (\A r \in Routers : Same(r) \/ Neither(r)) => Promises'
  <2> SUFFICES ASSUME SetsGoOn, NEW r \in Routers, Same(r) \/ Neither(r)
      PROVE  Owned(r)' /\ Gated(r)'
    BY DEF Promises
  <2>1. CASE Same(r)
    BY <2>1, PromisesFrame DEF Promises
  <2>2. CASE Neither(r)
    BY <2>2 DEF Owned, Gated, view
  <2> QED BY <2>1, <2>2
<1>1. ASSUME NEW o \in Ops, NEW r \in Routers, NEW target \in Targets,
             SetExitNode(o, r, target)
      PROVE  Promises'
  BY <1>0, <1>1, SetExitNodeFacts DEF Own, Setting, view
<1>2. ASSUME NEW o \in Ops, NEW r \in Routers, Keep(o, r)
      PROVE  Promises'
  BY <1>0, <1>2, KeepFacts DEF Own, Setting, view
<1>3. ASSUME NEW o \in Ops, NEW r \in Routers, KeepElapsed(o, r)
      PROVE  Promises'
  <2>1. /\ op' = op /\ setSeq' = setSeq
        /\ \A q \in Routers : q # r => Same(q)
        /\ snap'.view[r] = Reverted(snap.view[r])
    BY <1>3, KeepElapsedFacts DEF view
  <2>2. /\ snap.view[r].state # "awaiting-keep" => snap'.view[r] = snap.view[r]
        /\ snap.view[r].state = "awaiting-keep" => snap'.view[r].state = "unprobed"
    BY <2>1, RevertedFacts
  <2>3. Owned(r)' /\ Gated(r)'
    BY <2>1, <2>2 DEF Owned, Gated, view, Setting, Promises
  <2>4. \A q \in Routers : q # r => Owned(q)' /\ Gated(q)'
    BY <2>1, PromisesFrame DEF Promises, Setting
  <2> QED BY <2>3, <2>4 DEF Promises
<1>4. ASSUME NEW o \in Ops, NEW r \in Routers, Probe(o, r)
      PROVE  Promises'
  BY <1>0, <1>4, ProbeFacts DEF Own, Setting, view
<1>5. ASSUME NEW o \in Ops, SetIntent(o)
      PROVE  Promises'
  BY <1>5, SetIntentPromises
<1>6. ASSUME NEW o \in Ops, SetFollowUp(o)
      PROVE  Promises'
  BY <1>0, <1>6, SetFollowUpFacts DEF Own, Setting, view
<1>7. ASSUME NEW o \in Ops, SetSettle(o)
      PROVE  Promises'
  BY <1>7, SetSettlePromises
<1>8. ASSUME NEW o \in Ops, SetDisarmed(o) \/ KeepFailed(o)
      PROVE  Promises'
  BY <1>0, <1>8, SetDisarmedFacts, KeepFailedFacts DEF Ends, Own, Setting, view
<1>9. ASSUME NEW o \in Ops, KeepSettle(o)
      PROVE  Promises'
  <2>1. SetsGoOn
    BY <1>9, KeepSettleFacts DEF Ends, Own, Setting
  <2>2. \A r \in Routers : Same(r) \/ Neither(r)
    BY <1>9, KeepSettleFacts DEF view
  <2> QED BY <1>0, <2>1, <2>2
<1>10. ASSUME NEW o \in Ops, ProbeResolve(o)
      PROVE  Promises'
  BY <1>0, <1>10, ProbeResolveFacts DEF Own, Setting, view
<1>11. ASSUME NEW o \in Ops, ProbeSettle(o)
      PROVE  Promises'
  <2>1. SetsGoOn
    BY <1>11, ProbeSettleFacts DEF Ends, Own, Setting
  <2>2. \A r \in Routers : Same(r) \/ Neither(r)
    BY <1>11, ProbeSettleFacts DEF view
  <2> QED BY <1>0, <2>1, <2>2
<1>12. CASE PollStart \/ PollInventory \/ PollDialed
  <2>1. OfPoll /\ UNCHANGED <<snap, pendingKeep>>
    BY <1>12, PollStartFacts, PollInventoryFacts, PollDialedFacts
  <2> QED BY <1>0, <2>1 DEF OfPoll, Setting, view
<1>13. CASE PollMerge
  BY <1>13, PollMergePromises
<1>14. ASSUME NEW p \in Procs, Works(p) /\ Aside /\ faults' \in 0..MaxFaults
       PROVE  Promises'
  BY <1>0, <1>14 DEF Aside, Setting, view
<1>15. CASE RouterStep /\ UNCHANGED pollerVars
  BY <1>0, <1>15 DEF pollerVars, Setting, view
<1>16. CASE NetmapChanges
  BY <1>0, <1>16, NetmapBase DEF Setting, view
<1>17. CASE Restart
  BY <1>17, RestartBase DEF Promises, Owned, Gated, view, Gone
<1>18. CASE UNCHANGED vars
  BY <1>0, <1>18 DEF vars, pollerVars, Setting, view
<1> QED BY <1>1, <1>2, <1>3, <1>4, <1>5, <1>6, <1>7, <1>8, <1>9, <1>10, <1>11, <1>12,
           <1>13, <1>14, <1>15, <1>16, <1>17, <1>18, StepCases

LabelsInv == Base /\ PollView /\ Promises

LEMMA LabelsInvariant ==
  ASSUME Mode # "fallback"
  PROVE  SafeSpec => []LabelsInv
<1>1. Init => LabelsInv
  <2> SUFFICES ASSUME Init PROVE LabelsInv
    OBVIOUS
  <2>1. Base /\ snap = NoSnapshot /\ poll = NoPoll
    BY InitBase DEF Init
  <2>2. \A r \in Routers : view(r).state = "gone" /\ poll.view[r].state = "gone"
    BY <2>1 DEF NoSnapshot, NoPoll, Gone, view
  <2> QED BY <2>1, <2>2 DEF LabelsInv, PollView, Promises, Owned, Gated
<1>2. LabelsInv /\ [Next]_vars => LabelsInv'
  BY NextBase, NextPollView, NextPromises DEF LabelsInv
<1> QED BY <1>1, <1>2, PTL DEF SafeSpec

\* Where the poller dials its routers (-routers or tag:router): a router shown
\* as pending always has a set in flight that will settle it.  The condition is
\* needed: in the fallback listing a poll republishes the state of an older
\* snapshot, "pending" included (buildListedRouterView, and run
\* poller_stale_prev for the same step seen by NoFalseConfirm).
THEOREM PendingIsOwned == Mode # "fallback" => (SafeSpec => []PendingHasOwner)
<1> SUFFICES ASSUME Mode # "fallback" PROVE SafeSpec => []PendingHasOwner
  OBVIOUS
<1>1. LabelsInv => PendingHasOwner
  BY PromisesAre DEF LabelsInv
<1> QED BY <1>1, LabelsInvariant, PTL

\* Under the same condition, a router shown as awaiting a Keep has a pendingKeep
\* entry, and the deadline that is shown is the entry's: the poll's overlay and
\* Keep's cleanup find what they look for.  Whether Keep accepts the entry also
\* depends on its seq, which AwaitingIsKeepable is about.
THEOREM AwaitingIsGated == Mode # "fallback" => (SafeSpec => []AwaitingHasGate)
<1> SUFFICES ASSUME Mode # "fallback" PROVE SafeSpec => []AwaitingHasGate
  OBVIOUS
<1>1. LabelsInv => AwaitingHasGate
  BY PromisesAre DEF LabelsInv
<1> QED BY <1>1, LabelsInvariant, PTL

-----------------------------------------------------------------------------
(* NoSuccessWhileGated: the routers never leave the list                   *)

\* The router list cannot lose a router it has shown: it is fixed (-routers), or
\* the tailnet never drops a tagged node.
SteadyRouters ==
  \/ Mode = "explicit"
  \/ Mode = "tagged" /\ \A n \in Netmaps, r \in Routers : n[r] # "absent"

\* The snapshot, the poll under way and the requests know the same routers.
SnapSteady == \A r \in Routers : Listed(r) => r \in Addrs(snap.nodes)
PrevSteady ==
  poll.pc = "inventory" => \A r \in Routers : Listed(r) => r \in Addrs(poll.prev.nodes)
DialSteady ==
  poll.pc = "dial" =>
    /\ poll.todo \subseteq Addrs(poll.nodes)
    /\ \A r \in Routers :
         /\ Listed(r) => r \in poll.todo \/ poll.view[r].state # "gone"
         /\ poll.view[r].state # "gone" => r \in Addrs(poll.nodes)
         /\ setGen[r] # poll.gen[r] => Listed(r)
OpsSteady == \A o \in Ops : op[o].pc \notin {"idle", "done"} => Listed(op[o].router)
EntriesSteady == \A r \in Routers : HasEntry(r) => Listed(r)

SteadyInv == SnapSteady /\ PrevSteady /\ DialSteady /\ OpsSteady /\ EntriesSteady

\* A step of a request, of the client or of the tailnet: it lists and drops no
\* router, and what it bumps or gates is a listed router.
LEMMA SteadyFrame ==
  ASSUME SteadyInv, snap'.nodes = snap.nodes, poll' = poll,
         \A r \in Routers : Listed(r)' <=> Listed(r),
         \A r \in Routers : setGen'[r] = setGen[r] \/ Listed(r),
         \A r \in Routers : HasEntry(r)' => HasEntry(r) \/ Listed(r),
         \A o \in Ops : op'[o].pc \notin {"idle", "done"} =>
           /\ op'[o].router \in Routers
           /\ Listed(op'[o].router)
  PROVE  SteadyInv'
<1>1. SnapSteady' /\ PrevSteady'
  BY DEF SteadyInv, SnapSteady, PrevSteady
<1>2. DialSteady'
  BY DEF SteadyInv, DialSteady
<1>3. OpsSteady'
  BY DEF OpsSteady
<1>4. EntriesSteady'
  BY DEF SteadyInv, EntriesSteady
<1> QED BY <1>1, <1>2, <1>3, <1>4 DEF SteadyInv

LEMMA NextSteady ==
  ASSUME SteadyRouters, Base, SteadyInv, [Next]_vars
  PROVE  SteadyInv'
<1> USE BaseTypes
<1> DEFINE Lists == /\ snap'.nodes = snap.nodes
                    /\ \A r \in Routers : Listed(r)' <=> Listed(r)
           Bumps == \A r \in Routers : setGen'[r] = setGen[r] \/ Listed(r)
           Gates == \A r \in Routers : HasEntry(r)' => HasEntry(r) \/ Listed(r)
           Asks == \A o \in Ops : op'[o].pc \notin {"idle", "done"} =>
                     op'[o].router \in Routers /\ Listed(op'[o].router)
<1>0. Lists /\ Bumps /\ Gates /\ Asks /\ poll' = poll => SteadyInv'
  BY SteadyFrame
<1>a. \A o \in Ops : op[o].pc \notin {"idle", "done"} =>
        op[o].router \in Routers /\ Listed(op[o].router)
  BY DEF SteadyInv, OpsSteady, CallOf
<1>1. ASSUME NEW o \in Ops, NEW r \in Routers, NEW target \in Targets,
             SetExitNode(o, r, target)
      PROVE  SteadyInv'
  BY <1>0, <1>a, <1>1, SetExitNodeFacts DEF Own, Listed, HasEntry
<1>2. ASSUME NEW o \in Ops, NEW r \in Routers, Keep(o, r) \/ Probe(o, r)
      PROVE  SteadyInv'
  <2>1. Listed(r)
    BY <1>2, KeepFacts, ProbeFacts DEF SteadyInv, EntriesSteady
  <2> QED BY <1>0, <1>a, <1>2, <2>1, KeepFacts, ProbeFacts DEF Own, Listed, HasEntry
<1>3. ASSUME NEW o \in Ops, NEW r \in Routers, KeepElapsed(o, r)
      PROVE  SteadyInv'
  <2>1. /\ Own(o) /\ op' = op /\ HasEntry(r) /\ snap'.nodes = snap.nodes
        /\ pendingKeep' = [pendingKeep EXCEPT ![r] = NoEntry]
        /\ setGen' = [setGen EXCEPT ![r] = @ + 1]
        /\ snap'.view[r] = Reverted(snap.view[r])
        /\ \A q \in Routers : q # r => snap'.view[q] = snap.view[q]
    BY <1>3, KeepElapsedFacts
  <2>2. Lists
    BY <2>1, RevertedFacts DEF Listed
  <2>3. Listed(r) /\ Gates
    BY <2>1 DEF SteadyInv, EntriesSteady, HasEntry
  <2> QED BY <1>0, <1>a, <2>1, <2>2, <2>3 DEF Own
<1>4. ASSUME NEW o \in Ops, SetIntent(o)
      PROVE  SteadyInv'
  <2>1. /\ Own(o) /\ op[o].pc = "intent" /\ op'[o].router = op[o].router
        /\ setGen' = [setGen EXCEPT ![op[o].router] = @ + 1] /\ pendingKeep' = pendingKeep
    BY <1>4, SetIntentFacts
  <2>2. op[o].router \in Routers /\ Listed(op[o].router)
    BY <1>a, <2>1
  <2>3. Lists
    BY <1>4, <2>2, SetIntentFacts DEF Listed
  <2> QED BY <1>0, <1>a, <2>1, <2>2, <2>3 DEF Own, HasEntry
<1>5. ASSUME NEW o \in Ops, SetFollowUp(o)
      PROVE  SteadyInv'
  BY <1>0, <1>a, <1>5, SetFollowUpFacts DEF Own, Listed, HasEntry
<1>6. ASSUME NEW o \in Ops, SetSettle(o)
      PROVE  SteadyInv'
  <2>1. /\ Own(o) /\ Sets(o) /\ op'[o].router = op[o].router /\ op[o].router \in Routers
        /\ setGen' = [setGen EXCEPT ![op[o].router] = @ + 1]
        /\ \/ snap' = snap
           \/ /\ snap'.nodes = snap.nodes
              /\ snap'.view[op[o].router] = Settled(o, snap.view[op[o].router])
              /\ \A q \in Routers : q # op[o].router => snap'.view[q] = snap.view[q]
    BY <1>6, SetSettleFacts
  <2>2. op[o].router \in Routers /\ Listed(op[o].router) /\ op[o].armAt \in Nat
    BY <1>a, <2>1 DEF Sets, CallOf
  <2>3. Settled(o, snap.view[op[o].router]).state # "gone"
    BY <2>2, SettledFacts
  <2>4. Lists
    BY <2>1, <2>2, <2>3 DEF Listed
  <2>5. Gates
    BY <1>6, <2>2, SetSettleFacts DEF HasEntry
  <2> QED BY <1>0, <1>a, <2>1, <2>2, <2>4, <2>5 DEF Own
<1>7. ASSUME NEW o \in Ops, SetDisarmed(o) \/ KeepFailed(o)
      PROVE  SteadyInv'
  BY <1>0, <1>a, <1>7, SetDisarmedFacts, KeepFailedFacts DEF Ends, Own, Listed, HasEntry
<1>8. ASSUME NEW o \in Ops, KeepSettle(o)
      PROVE  SteadyInv'
  <2>1. Ends(o) /\ op[o].router \in Routers /\ Listed(op[o].router)
    BY <1>a, <1>8, KeepSettleFacts
  <2>2. Lists /\ Bumps /\ Gates
    BY <1>8, <2>1, KeepSettleFacts DEF Listed, HasEntry
  <2> QED BY <1>0, <1>a, <2>1, <2>2 DEF Ends, Own
<1>9. ASSUME NEW o \in Ops, ProbeResolve(o)
      PROVE  SteadyInv'
  BY <1>0, <1>a, <1>9, ProbeResolveFacts DEF Own, Ends, Listed, HasEntry
<1>10. ASSUME NEW o \in Ops, ProbeSettle(o)
      PROVE  SteadyInv'
  <2>1. Ends(o) /\ op[o].router \in Routers /\ Listed(op[o].router)
    BY <1>a, <1>10, ProbeSettleFacts
  <2>2. Lists /\ Bumps /\ Gates
    BY <1>10, <2>1, ProbeSettleFacts DEF Listed, HasEntry
  <2> QED BY <1>0, <1>a, <2>1, <2>2 DEF Ends, Own
<1>11. CASE PollStart
  BY <1>11, PollStartFacts
     DEF OfPoll, SteadyInv, SnapSteady, PrevSteady, DialSteady, OpsSteady, EntriesSteady,
         Listed, HasEntry
<1>12. CASE PollInventory
  <2>1. /\ OfPoll /\ snap' = snap /\ poll.pc = "inventory" /\ poll'.pc = "dial"
        /\ pendingKeep' = pendingKeep /\ poll'.gen = setGen /\ poll'.nodes \in {netmap, poll.prev.nodes}
        /\ poll'.todo \subseteq Addrs(poll'.nodes)
        /\ \A r \in Routers :
             /\ r \notin Addrs(poll'.nodes) => poll'.view[r].state = "gone"
             /\ r \in Addrs(poll'.nodes) => r \in poll'.todo \/ poll'.view[r].state # "gone"
    BY <1>12, PollInventoryFacts
  <2>2. Addrs(netmap) = Routers
    BY DEF SteadyRouters, Addrs, Base, PollerTypeOK
  <2>3. \A r \in Routers : Listed(r) => r \in Addrs(poll'.nodes)
    BY <2>1, <2>2 DEF SteadyInv, PrevSteady
  <2>4. DialSteady'
    BY <2>1, <2>3 DEF DialSteady, Listed, OfPoll
  <2> QED BY <2>1, <2>4 DEF OfPoll, SteadyInv, SnapSteady, PrevSteady, OpsSteady, EntriesSteady,
                            Listed, HasEntry
<1>13. CASE PollDialed
  <2> DEFINE c == call[PollLoop].router
  <2>1. /\ OfPoll /\ snap' = snap /\ poll.pc = "dial" /\ poll'.pc = "dial"
        /\ pendingKeep' = pendingKeep /\ poll'.gen = poll.gen /\ poll'.nodes = poll.nodes /\ c \in poll.todo
        /\ poll'.todo = poll.todo \ {c} /\ poll'.view[c].state # "gone"
        /\ \A q \in Routers : q # c => poll'.view[q] = poll.view[q]
    BY <1>13, PollDialedFacts
  <2> HIDE DEF c
  <2>2. DialSteady'
    BY <2>1 DEF DialSteady, Listed, OfPoll, SteadyInv
  <2> QED BY <2>1, <2>2 DEF OfPoll, SteadyInv, SnapSteady, PrevSteady, OpsSteady, EntriesSteady,
                            Listed, HasEntry
<1>14. CASE PollMerge
  <2>1. /\ OfPoll /\ poll.pc = "dial" /\ poll.todo = {} /\ poll' = NoPoll
        /\ snap'.nodes = poll.nodes /\ \A r \in Routers : snap'.view[r] = Merged(r)
    BY <1>14, PollMergeFacts
  <2>2. \A r \in Routers : /\ poll.view[r].state = "gone" => Merged(r).state = "gone"
                           /\ poll.view[r].state # "gone" => Merged(r).state # "gone"
    <3> SUFFICES ASSUME NEW r \in Routers
        PROVE  /\ poll.view[r].state = "gone" => Merged(r).state = "gone"
               /\ poll.view[r].state # "gone" => Merged(r).state # "gone"
      OBVIOUS
    <3>1. poll.view[r] \in View /\ Gone.state = "gone"
      BY PollTypes DEF Gone
    <3> QED BY <3>1, MergedFacts, RevertedFacts DEF Listed
  <2>3. \A r \in Routers : Listed(r)' => r \in Addrs(snap'.nodes)
    BY <2>1, <2>2 DEF SteadyInv, DialSteady, Listed
  <2>4. \A r \in Routers : Listed(r) => Listed(r)'
    BY <2>1, <2>2 DEF SteadyInv, DialSteady, Listed
  <2>5. OpsSteady'
    BY <1>a, <2>1, <2>4 DEF OpsSteady, OfPoll
  <2>6. EntriesSteady'
    BY <1>14, <2>4, PollMergeFacts DEF SteadyInv, EntriesSteady, HasEntry
  <2> QED BY <2>1, <2>3, <2>5, <2>6 DEF SteadyInv, SnapSteady, PrevSteady, DialSteady, NoPoll, Addrs
<1>15. ASSUME NEW p \in Procs, Works(p) /\ Aside /\ faults' \in 0..MaxFaults
       PROVE  SteadyInv'
  BY <1>0, <1>a, <1>15 DEF Aside, Listed, HasEntry
<1>16. CASE RouterStep /\ UNCHANGED pollerVars
  BY <1>0, <1>a, <1>16 DEF pollerVars, Listed, HasEntry
<1>17. CASE NetmapChanges
  BY <1>0, <1>a, <1>17, NetmapBase DEF Listed, HasEntry
<1>18. CASE Restart
  BY <1>18, RestartBase DEF SteadyInv, SnapSteady, PrevSteady, DialSteady, OpsSteady,
                            EntriesSteady, Listed, HasEntry, Gone, NoPoll
<1>19. CASE UNCHANGED vars
  BY <1>0, <1>a, <1>19 DEF vars, pollerVars, Listed, HasEntry
<1> QED BY <1>1, <1>2, <1>3, <1>4, <1>5, <1>6, <1>7, <1>8, <1>9, <1>10, <1>11, <1>12,
           <1>13, <1>14, <1>15, <1>16, <1>17, <1>18, <1>19, StepCases

\* Router r is shown as ok only when the newest set does not wait for its Keep.
OkUngated(r) == HasEntry(r) /\ pendingKeep[r].seq = setSeq[r] => view(r).state # "ok"

GatedInv == Base /\ SeqInv /\ PollView /\ SteadyInv /\ NoSuccessWhileGated

LEMMA OkUngatedFrame ==
  ASSUME NEW r \in Routers, OkUngated(r), setSeq'[r] = setSeq[r],
         \/ pendingKeep'[r] = NoEntry
         \/ pendingKeep'[r] = pendingKeep[r] /\ view(r)'.state = view(r).state
  PROVE  OkUngated(r)'
BY DEF OkUngated, HasEntry

LEMMA NextGated ==
  ASSUME GatedInv, [Next]_vars
  PROVE  NoSuccessWhileGated'
<1> USE BaseTypes DEF GatedInv
<1> DEFINE Same(r) == /\ setSeq'[r] = setSeq[r]
                      /\ \/ pendingKeep'[r] = NoEntry
                         \/ /\ pendingKeep'[r] = pendingKeep[r]
                            /\ view(r)'.state = view(r).state
<1>0. (\A r \in Routers : Same(r)) => NoSuccessWhileGated'
  BY OkUngatedFrame DEF NoSuccessWhileGated, OkUngated
<1>1. ASSUME NEW o \in Ops, NEW r \in Routers, NEW target \in Targets,
             SetExitNode(o, r, target)
      PROVE  NoSuccessWhileGated'
  BY <1>0, <1>1, SetExitNodeFacts DEF view
<1>2. ASSUME NEW o \in Ops, NEW r \in Routers,
             Keep(o, r) \/ KeepElapsed(o, r) \/ Probe(o, r)
      PROVE  NoSuccessWhileGated'
  BY <1>0, <1>2, KeepFacts, KeepElapsedFacts, ProbeFacts DEF view
<1>3. ASSUME NEW o \in Ops, SetIntent(o)
      PROVE  NoSuccessWhileGated'
  <2>0. PICK r \in Routers : r = op[o].router
    BY <1>3, SetIntentFacts
  <2>1. /\ setSeq' = [setSeq EXCEPT ![r] = @ + 1]
        /\ pendingKeep' = pendingKeep
        /\ \A q \in Routers : q # r => snap'.view[q] = snap.view[q]
    BY <1>3, <2>0, SetIntentFacts
  <2>2. \A q \in Routers : q # r => OkUngated(q)'
    BY <2>1, OkUngatedFrame DEF view, NoSuccessWhileGated, OkUngated
  <2>3. OkUngated(r)'
    BY <2>1, SeqTypes DEF OkUngated, HasEntry, SeqInv, GatesInOrder
  <2> QED BY <2>2, <2>3 DEF NoSuccessWhileGated, OkUngated
<1>4. ASSUME NEW o \in Ops, SetFollowUp(o) \/ SetDisarmed(o) \/ KeepFailed(o) \/ ProbeResolve(o)
      PROVE  NoSuccessWhileGated'
  BY <1>0, <1>4, SetFollowUpFacts, SetDisarmedFacts, KeepFailedFacts, ProbeResolveFacts DEF view
<1>5. ASSUME NEW o \in Ops, SetSettle(o)
      PROVE  NoSuccessWhileGated'
  <2>0. PICK r \in Routers : r = op[o].router
    BY <1>5, SetSettleFacts
  <2>1. /\ Sets(o) /\ Returned(o) /\ setSeq' = setSeq
        /\ IF Published(o)
             THEN /\ snap'.view[r] = Settled(o, snap.view[r])
                  /\ \A q \in Routers : q # r => snap'.view[q] = snap.view[q]
                  /\ pendingKeep' = [pendingKeep EXCEPT ![r] = GateAfter(o)]
             ELSE snap' = snap /\ pendingKeep' = pendingKeep
    BY <1>5, <2>0, SetSettleFacts
  <2>2. CASE ~Published(o)
    BY <1>0, <2>1, <2>2 DEF view
  <2>3. CASE Published(o)
    <3>1. op[o].armAt \in Nat
      BY <2>1 DEF CallOf
    <3>2. ApplyResult(o).err = "none" /\ ~autoKeep(op[o].target) => snap'.view[r].state # "ok"
      BY <2>1, <2>3, <3>1, SettledFacts
    <3>3. pendingKeep'[r] = GateAfter(o) /\ setSeq[r] = op[o].seq
      BY <2>0, <2>1, <2>3 DEF Published
    <3>4. OkUngated(r)'
      BY <2>0, <2>1, <3>2, <3>3, GateFacts DEF OkUngated, HasEntry, view, SeqInv, GatesInOrder
    <3>5. \A q \in Routers : q # r => OkUngated(q)'
      BY <2>1, <2>3, OkUngatedFrame DEF view, NoSuccessWhileGated, OkUngated
    <3> QED BY <3>4, <3>5 DEF NoSuccessWhileGated, OkUngated
  <2> QED BY <2>2, <2>3
<1>6. ASSUME NEW o \in Ops, KeepSettle(o)
      PROVE  NoSuccessWhileGated'
  BY <1>0, <1>6, KeepSettleFacts DEF view
<1>7. ASSUME NEW o \in Ops, ProbeSettle(o)
      PROVE  NoSuccessWhileGated'
  BY <1>0, <1>7, ProbeSettleFacts DEF view, HasEntry
<1>8. CASE PollStart \/ PollInventory \/ PollDialed
  BY <1>0, <1>8, PollStartFacts, PollInventoryFacts, PollDialedFacts DEF view, OfPoll
<1>9. CASE PollMerge
  <2> SUFFICES ASSUME NEW r \in Routers PROVE OkUngated(r)'
    BY DEF NoSuccessWhileGated, OkUngated
  <2>1. /\ OfPoll /\ poll.pc = "dial" /\ snap'.view[r] = Merged(r)
        /\ pendingKeep'[r] = IF r \in Dropped THEN NoEntry ELSE pendingKeep[r]
    BY <1>9, PollMergeFacts
  <2>2. CASE poll.view[r].state # "gone" /\ Touched(r)
    <3>1. Listed(r)
      BY <2>1, <2>2 DEF SteadyInv, DialSteady, Touched
    <3> QED BY <2>1, <2>2, <3>1, MergedFacts, OkUngatedFrame
            DEF Dropped, OfPoll, view, NoSuccessWhileGated, OkUngated
  <2>3. CASE poll.view[r].state # "gone" /\ ~Touched(r) /\ Expired(r)
    BY <2>1, <2>3 DEF Dropped, OkUngated, HasEntry
  <2>4. CASE poll.view[r].state # "gone" /\ ~Touched(r) /\ ~Expired(r)
    <3>1. HasEntry(r) => Merged(r).state # "ok"
      BY <2>4, MergedFacts DEF PollView
    <3> QED BY <2>1, <2>4, <3>1 DEF Dropped, OkUngated, HasEntry, view
  <2>5. CASE poll.view[r].state = "gone"
    BY <2>1, <2>5, MergedFacts DEF OkUngated, view, Gone
  <2> QED BY <2>2, <2>3, <2>4, <2>5
<1>10. ASSUME NEW p \in Procs, Works(p) /\ Aside /\ faults' \in 0..MaxFaults
       PROVE  NoSuccessWhileGated'
  BY <1>0, <1>10 DEF Aside, view
<1>11. CASE RouterStep /\ UNCHANGED pollerVars
  BY <1>0, <1>11 DEF pollerVars, view
<1>12. CASE NetmapChanges
  BY <1>0, <1>12, NetmapBase DEF view
<1>13. CASE Restart
  BY <1>13, RestartBase DEF NoSuccessWhileGated, HasEntry
<1>14. CASE UNCHANGED vars
  BY <1>0, <1>14 DEF vars, pollerVars, view
<1> QED BY <1>1, <1>2, <1>3, <1>4, <1>5, <1>6, <1>7, <1>8, <1>9, <1>10, <1>11, <1>12,
           <1>13, <1>14, StepCases

LEMMA InitGated ==
  ASSUME Init
  PROVE  GatedInv
<1>1. /\ Base /\ snap = NoSnapshot /\ poll = NoPoll /\ op = [o \in Ops |-> NoOp]
      /\ pendingKeep = [r \in Routers |-> NoEntry]
  BY InitBase DEF Init
<1>2. \A r \in Routers : view(r).state = "gone" /\ poll.view[r].state = "gone" /\ ~HasEntry(r)
  BY <1>1 DEF NoSnapshot, NoPoll, Gone, view, HasEntry
<1>3. SeqInv
  BY <1>1, <1>2 DEF SeqInv, SetsInOrder, GatesInOrder, KeepsInOrder, Sets, NoOp
<1>4. SteadyInv
  BY <1>1, <1>2 DEF SteadyInv, SnapSteady, PrevSteady, DialSteady, OpsSteady, EntriesSteady,
                    NoPoll, NoOp, Listed, view
<1> QED BY <1>1, <1>2, <1>3, <1>4 DEF GatedInv, PollView, NoSuccessWhileGated

\* Where the router list cannot lose a router: while the newest set of a router
\* waits for its Keep, no poll, probe or older set shows the router as ok.  Both
\* conditions are needed.  A router that leaves the list and comes back has its
\* generation bumped while it is not listed, and the merge then publishes the
\* poll's stale read without the overlay; the fallback listing carries an "ok"
\* over from an older snapshot.
THEOREM GatedIsNoSuccess == SteadyRouters => (SafeSpec => []NoSuccessWhileGated)
<1> SUFFICES ASSUME SteadyRouters PROVE SafeSpec => []NoSuccessWhileGated
  OBVIOUS
<1>1. Init => GatedInv
  BY InitGated
<1>2. GatedInv /\ [Next]_vars => GatedInv'
  <2>1. Mode # "fallback"
    BY DEF SteadyRouters
  <2> QED BY <2>1, NextBase, NextSeqInv, NextPollView, NextSteady, NextGated DEF GatedInv
<1>3. GatedInv => NoSuccessWhileGated
  BY DEF GatedInv
<1> QED BY <1>1, <1>2, <1>3, PTL DEF SafeSpec

-----------------------------------------------------------------------------
(* NoFalseConfirm: every set is kept automatically (no -require-keep)      *)

\* There is then never a gate, and never a Keep.
NoGate == /\ \A r \in Routers : ~HasEntry(r)
          /\ \A o \in Ops : op[o].pc # "keeping"

\* Only a set that is over can have been superseded.
YoungInv ==
  \A o \in Ops : /\ op[o].pc = "idle" => op[o].router = Nobody
                 /\ op[o].pc \notin {"disarm", "done"} => ~op[o].superseded

\* No probe or poll remembers a generation that is still to come.
GenInv ==
  /\ \A o \in Ops : op[o].pc = "resolving" => op[o].gen <= setGen[op[o].router]
  /\ poll.pc = "dial" => \A r \in Routers : poll.gen[r] <= setGen[r]

QuietInv == NoGate /\ YoungInv /\ GenInv

\* The steps that are left.
LEMMA QuietCases ==
  ASSUME Base, NoGate, [Next]_vars
  PROVE  \/ \E o \in Ops, r \in Routers, target \in Targets : SetExitNode(o, r, target)
         \/ \E o \in Ops, r \in Routers : Probe(o, r)
         \/ \E o \in Ops : \/ SetIntent(o) \/ SetFollowUp(o) \/ SetSettle(o) \/ SetDisarmed(o)
                           \/ ProbeResolve(o) \/ ProbeSettle(o)
         \/ PollStart \/ PollInventory \/ PollDialed \/ PollMerge
         \/ \E p \in Procs : Works(p) /\ Aside /\ faults' \in 0..MaxFaults
         \/ RouterStep /\ UNCHANGED pollerVars
         \/ NetmapChanges \/ Restart
         \/ UNCHANGED vars
<1>1. \A o \in Ops, r \in Routers : ~Keep(o, r) /\ ~KeepElapsed(o, r)
  BY DEF NoGate, Keep, KeepElapsed
<1>2. \A o \in Ops : ~KeepFailed(o) /\ ~KeepSettle(o)
  BY DEF NoGate, KeepFailed, KeepSettle
<1> QED BY <1>1, <1>2, StepCases

LEMMA NextNoGate ==
  ASSUME ~RequireKeep, Base, NoGate, [Next]_vars
  PROVE  NoGate'
<1> USE BaseTypes
<1>1. ASSUME NEW o \in Ops, NEW r \in Routers, NEW target \in Targets,
             SetExitNode(o, r, target)
      PROVE  NoGate'
  BY <1>1, SetExitNodeFacts DEF Own, NoGate, HasEntry
<1>2. ASSUME NEW o \in Ops, NEW r \in Routers, Probe(o, r)
      PROVE  NoGate'
  BY <1>2, ProbeFacts DEF Own, NoGate, HasEntry
<1>3. ASSUME NEW o \in Ops,
             SetIntent(o) \/ SetFollowUp(o) \/ SetDisarmed(o) \/ ProbeResolve(o) \/ ProbeSettle(o)
      PROVE  NoGate'
  <2>1. Own(o) /\ pendingKeep' = pendingKeep /\ op'[o].pc # "keeping"
    BY <1>3, SetIntentFacts, SetFollowUpFacts, SetDisarmedFacts, ProbeResolveFacts,
       ProbeSettleFacts DEF Ends
  <2> QED BY <2>1 DEF Own, NoGate, HasEntry
<1>4. ASSUME NEW o \in Ops, SetSettle(o)
      PROVE  NoGate'
  <2>1. /\ Own(o) /\ op'[o].pc # "keeping" /\ Sets(o) /\ Returned(o) /\ op[o].router \in Routers
        /\ \/ pendingKeep' = pendingKeep
           \/ pendingKeep' = [pendingKeep EXCEPT ![op[o].router] = GateAfter(o)]
    BY <1>4, SetSettleFacts
  <2>2. GateAfter(o) = NoEntry
    <3>1. autoKeep(op[o].target)
      BY DEF autoKeep
    <3> QED BY <2>1, <3>1, GateFacts DEF NoGate, HasEntry
  <2> QED BY <2>1, <2>2 DEF Own, NoGate, HasEntry
<1>5. CASE PollStart \/ PollInventory \/ PollDialed \/ PollMerge
  <2>1. OfPoll /\ \A r \in Routers : pendingKeep'[r] \in {pendingKeep[r], NoEntry}
    BY <1>5, PollStartFacts, PollInventoryFacts, PollDialedFacts, PollMergeFacts
  <2> QED BY <2>1 DEF OfPoll, NoGate, HasEntry
<1>6. ASSUME NEW p \in Procs, Works(p) /\ Aside /\ faults' \in 0..MaxFaults
      PROVE  NoGate'
  BY <1>6 DEF Aside, NoGate, HasEntry
<1>7. CASE RouterStep /\ UNCHANGED pollerVars
  BY <1>7 DEF pollerVars, NoGate, HasEntry
<1>8. CASE NetmapChanges
  BY <1>8, NetmapBase DEF NoGate, HasEntry
<1>9. CASE Restart
  BY <1>9, RestartBase DEF NoGate, HasEntry
<1>10. CASE UNCHANGED vars
  BY <1>10 DEF vars, pollerVars, NoGate, HasEntry
<1> QED BY <1>1, <1>2, <1>3, <1>4, <1>5, <1>6, <1>7, <1>8, <1>9, <1>10, QuietCases

LEMMA NextYoungInv ==
  ASSUME Base, NoGate, YoungInv, [Next]_vars
  PROVE  YoungInv'
<1>1. ASSUME NEW o \in Ops, NEW r \in Routers, NEW target \in Targets,
             SetExitNode(o, r, target)
      PROVE  YoungInv'
  BY <1>1, SetExitNodeFacts DEF Own, YoungInv
<1>2. ASSUME NEW o \in Ops, NEW r \in Routers, Probe(o, r)
      PROVE  YoungInv'
  BY <1>2, ProbeFacts DEF Own, YoungInv
<1>3. ASSUME NEW o \in Ops, SetIntent(o) \/ SetFollowUp(o) \/ ProbeResolve(o)
      PROVE  YoungInv'
  <2>1. /\ Own(o) /\ op'[o].pc # "idle" /\ op'[o].superseded = op[o].superseded
        /\ op[o].pc \notin {"disarm", "done"}
    BY <1>3, SetIntentFacts, SetFollowUpFacts, ProbeResolveFacts DEF Ends
  <2> QED BY <2>1 DEF Own, YoungInv
<1>4. ASSUME NEW o \in Ops, SetSettle(o) \/ SetDisarmed(o) \/ ProbeSettle(o)
      PROVE  YoungInv'
  <2>1. Own(o) /\ op'[o].pc \in {"disarm", "done"}
    BY <1>4, SetSettleFacts, SetDisarmedFacts, ProbeSettleFacts DEF Ends
  <2> QED BY <2>1 DEF Own, YoungInv
<1>5. CASE PollStart \/ PollInventory \/ PollDialed \/ PollMerge
  <2>1. OfPoll
    BY <1>5, PollStartFacts, PollInventoryFacts, PollDialedFacts, PollMergeFacts
  <2> QED BY <2>1 DEF OfPoll, YoungInv
<1>6. ASSUME NEW p \in Procs, Works(p) /\ Aside /\ faults' \in 0..MaxFaults
      PROVE  YoungInv'
  BY <1>6 DEF Aside, YoungInv
<1>7. CASE RouterStep /\ UNCHANGED pollerVars
  BY <1>7 DEF pollerVars, YoungInv
<1>8. CASE NetmapChanges
  BY <1>8, NetmapBase DEF YoungInv
<1>9. CASE Restart
  BY <1>9, RestartBase DEF YoungInv, NoOp
<1>10. CASE UNCHANGED vars
  BY <1>10 DEF vars, pollerVars, YoungInv
<1> QED BY <1>1, <1>2, <1>3, <1>4, <1>5, <1>6, <1>7, <1>8, <1>9, <1>10, QuietCases

LEMMA NextGenInv ==
  ASSUME Base, NoGate, GenInv, [Next]_vars
  PROVE  GenInv'
<1> USE BaseTypes
<1> DEFINE GensGrow == \A r \in Routers : setGen[r] <= setGen'[r]
           Resolves == \A o \in Ops : op'[o].pc = "resolving" =>
                         \/ op'[o] = op[o]
                         \/ op'[o].router \in Routers /\ op'[o].gen = setGen[op'[o].router]
           Polls == poll'.pc = "dial" => \/ poll.pc = "dial" /\ poll'.gen = poll.gen
                                         \/ poll'.gen = setGen
<1>0. GensGrow /\ Resolves /\ Polls => GenInv'
  <2> SUFFICES ASSUME GensGrow, Resolves, Polls PROVE GenInv'
    OBVIOUS
  <2>1. \A o \in Ops : op[o].gen \in Nat /\ (op[o].pc = "resolving" => op[o].router \in Routers)
    BY DEF Op, CallOf
  <2>2. \A r \in Routers : setGen[r] \in Nat /\ setGen'[r] \in Nat /\ poll.gen[r] \in Nat
    BY PollTypes, NextBase DEF Base, PollerTypeOK
  <2>3. \A o \in Ops : op'[o].pc = "resolving" => op'[o].gen <= setGen'[op'[o].router]
    BY <2>1, <2>2 DEF GenInv
  <2>4. poll'.pc = "dial" => \A r \in Routers : poll'.gen[r] <= setGen'[r]
    BY <2>2 DEF GenInv
  <2> QED BY <2>3, <2>4 DEF GenInv
<1>1. ASSUME NEW o \in Ops, NEW r \in Routers, NEW target \in Targets,
             SetExitNode(o, r, target)
      PROVE  GenInv'
  BY <1>0, <1>1, SetExitNodeFacts DEF Own
<1>2. ASSUME NEW o \in Ops, NEW r \in Routers, Probe(o, r)
      PROVE  GenInv'
  BY <1>0, <1>2, ProbeFacts DEF Own
<1>3. ASSUME NEW o \in Ops, SetIntent(o) \/ SetSettle(o)
      PROVE  GenInv'
  <2>1. /\ Own(o) /\ op'[o].pc # "resolving" /\ op[o].router \in Routers
        /\ setGen' = [setGen EXCEPT ![op[o].router] = @ + 1]
    BY <1>3, SetIntentFacts, SetSettleFacts
  <2> QED BY <1>0, <2>1 DEF Own
<1>4. ASSUME NEW o \in Ops, SetFollowUp(o) \/ SetDisarmed(o)
      PROVE  GenInv'
  <2>1. Own(o) /\ op'[o].pc # "resolving" /\ setGen' = setGen
    BY <1>4, SetFollowUpFacts, SetDisarmedFacts DEF Ends
  <2> QED BY <1>0, <2>1 DEF Own
<1>5. ASSUME NEW o \in Ops, ProbeResolve(o)
      PROVE  GenInv'
  BY <1>0, <1>5, ProbeResolveFacts DEF Own, Ends
<1>6. ASSUME NEW o \in Ops, ProbeSettle(o)
      PROVE  GenInv'
  <2>1. Ends(o) /\ GensGrow
    BY <1>6, ProbeSettleFacts
  <2> QED BY <1>0, <2>1 DEF Own, Ends
<1>7. CASE PollStart \/ PollInventory \/ PollDialed \/ PollMerge
  <2>1. OfPoll /\ Polls
    BY <1>7, PollStartFacts, PollInventoryFacts, PollDialedFacts, PollMergeFacts DEF NoPoll
  <2> QED BY <1>0, <2>1 DEF OfPoll
<1>8. ASSUME NEW p \in Procs, Works(p) /\ Aside /\ faults' \in 0..MaxFaults
      PROVE  GenInv'
  BY <1>0, <1>8 DEF Aside
<1>9. CASE RouterStep /\ UNCHANGED pollerVars
  BY <1>0, <1>9 DEF pollerVars
<1>10. CASE NetmapChanges
  BY <1>0, <1>10, NetmapBase
<1>11. CASE Restart
  BY <1>11, RestartBase DEF GenInv, NoPoll
<1>12. CASE UNCHANGED vars
  BY <1>0, <1>12 DEF vars, pollerVars
<1> QED BY <1>1, <1>2, <1>3, <1>4, <1>5, <1>6, <1>7, <1>8, <1>9, <1>10, <1>11, <1>12,
           QuietCases

\* What excuses a view of router r that shows another selection: a revert fired
\* there or two sets overlapped; or a set other than x is at work there.
Spoiled(r) == \E o \in Ops : op[o].router = r /\ (o \in fired \/ op[o].superseded)
Beside(r, x) == \E q \in Ops : q # x /\ Sets(q) /\ op[q].router = r

\* Selection s, read from router r, still stands.
Confirmed(r, x, s) == s = sel[r] \/ Spoiled(r) \/ Beside(r, x)

\* A step after which whatever stood for r still stands.
Keeps(r, x) == \A s \in Selections : Confirmed(r, x, s) => Confirmed(r, x, s)'

LEMMA KeepsIf ==
  ASSUME NEW r, NEW x, sel'[r] = sel[r] \/ Spoiled(r)' \/ Beside(r, x)',
         Spoiled(r) => Spoiled(r)', Beside(r, x) => Spoiled(r)' \/ Beside(r, x)'
  PROVE  Keeps(r, x)
BY DEF Keeps, Confirmed

\* A step of a request that is no end of a set.
LEMMA OwnKeeps ==
  ASSUME Base, NEW o \in Ops, Own(o), Sets(o) => Sets(o)',
         op[o].router \in Routers =>
           op'[o].router = op[o].router /\ op'[o].superseded = op[o].superseded,
         NEW r \in Routers, NEW x
  PROVE  Keeps(r, x)
<1>1. sel' = sel /\ fired' = fired
  BY DEF Own
<1>2. Spoiled(r) => Spoiled(r)'
  BY <1>1 DEF Spoiled, Own
<1>3. Beside(r, x) => Beside(r, x)'
  BY DEF Beside, Own, Sets
<1> QED BY <1>1, <1>2, <1>3, KeepsIf

\* A step of the poll or of the tailnet.
LEMMA StillKeeps ==
  ASSUME UNCHANGED <<sel, fired, op>>, NEW r \in Routers, NEW x
  PROVE  Keeps(r, x)
BY DEF Keeps, Confirmed, Spoiled, Beside, Sets

\* The end of a set: the last thing it does to its router's readers is to bump
\* the generation; if a newer set has started it says so.
LEMMA SettleKeeps ==
  ASSUME Base, YoungInv, NEW o \in Ops, SetSettle(o), NEW r \in Routers, NEW x,
         op[o].router # r \/ op[o].seq # setSeq[r] \/ o = x
  PROVE  Keeps(r, x)
<1>1. /\ Own(o) /\ Sets(o) /\ op'[o].router = op[o].router
      /\ op'[o].superseded = (setSeq[op[o].router] # op[o].seq)
  BY SetSettleFacts
<1>2. sel' = sel /\ fired' = fired
  BY <1>1 DEF Own
<1>3. ~op[o].superseded
  BY <1>1 DEF YoungInv, Sets
<1>4. Spoiled(r) => Spoiled(r)'
  BY <1>1, <1>2, <1>3 DEF Spoiled, Own
<1>5. Beside(r, x) => Spoiled(r)' \/ Beside(r, x)'
  <2> SUFFICES ASSUME NEW q \in Ops, q # x, Sets(q), op[q].router = r
      PROVE  Spoiled(r)' \/ Beside(r, x)'
    BY DEF Beside
  <2>1. CASE q = o
    BY <1>1, <2>1 DEF Spoiled
  <2>2. CASE q # o
    BY <1>1, <2>2 DEF Beside, Own, Sets
  <2> QED BY <2>1, <2>2
<1> QED BY <1>2, <1>4, <1>5, KeepsIf

\* Inside ApplyExitNode: a set that changes the selection is itself the excuse.
LEMMA WorksKeeps ==
  ASSUME Base, NEW p \in Procs, Works(p) /\ Aside /\ faults' \in 0..MaxFaults,
         NEW r \in Routers, NEW x, p # x \/ call[p].kind # "apply"
  PROVE  Keeps(r, x)
<1>1. /\ OneCommand(p) \/ (GoesOn(p) /\ Touches(p)) \/ (Returns(p) /\ Touches(p))
      /\ fired' = fired /\ op' = op
  BY WorksBase DEF Aside
<1>2. (Spoiled(r) => Spoiled(r)') /\ (Beside(r, x) => Beside(r, x)')
  BY <1>1 DEF Spoiled, Beside, Sets
<1>3. CASE sel' = sel
  BY <1>2, <1>3, KeepsIf
<1>4. CASE call[p].kind = "apply" /\ sel' = [sel EXCEPT ![call[p].router] = call[p].target]
  <2>1. p \in Ops
    BY <1>4, ProcsFacts DEF Base, PollInv, NoCall
  <2>2. op[p].pc = "apply" /\ op[p].router = call[p].router
    <3>1. CallOf(p) /\ op[p] \in Op
      BY <2>1, BaseTypes
    <3> QED BY <1>4, <3>1 DEF CallOf, NoCall, Op
  <2>3. CASE call[p].router = r
    BY <1>1, <1>2, <1>4, <2>1, <2>2, <2>3, KeepsIf DEF Beside, Sets
  <2>4. CASE call[p].router # r
    BY <1>2, <1>4, <2>4, KeepsIf, BaseTypes
  <2> QED BY <2>3, <2>4
<1> QED BY <1>1, <1>3, <1>4 DEF OneCommand, GoesOn, Returns, Touches

\* A revert that fires is itself the excuse.
LEMMA RouterKeeps ==
  ASSUME Base, TimerInv, RouterStep /\ UNCHANGED pollerVars, NEW r \in Routers, NEW x
  PROVE  Keeps(r, x)
<1>1. /\ Aside /\ fired \subseteq fired'
      /\ \/ UNCHANGED <<sel, fired>>
         \/ \E t \in timers : /\ fired' = fired \cup {t.marker}
                              /\ \A q \in Routers : q # t.router => sel'[q] = sel[q]
  BY RouterBase
<1>2. (Spoiled(r) => Spoiled(r)') /\ (Beside(r, x) => Beside(r, x)')
  BY <1>1 DEF Spoiled, Beside, Sets, Aside
<1>3. CASE UNCHANGED <<sel, fired>>
  BY <1>2, <1>3, KeepsIf
<1>4. ASSUME NEW t \in timers, fired' = fired \cup {t.marker},
             \A q \in Routers : q # t.router => sel'[q] = sel[q]
      PROVE  Keeps(r, x)
  <2>1. t.marker \in Ops /\ op'[t.marker].router = t.router
    BY <1>1 DEF TimerInv, Aside
  <2>2. t.router = r => Spoiled(r)'
    BY <1>4, <2>1 DEF Spoiled
  <2> QED BY <1>2, <1>4, <2>2, KeepsIf
<1> QED BY <1>1, <1>3, <1>4

\* When is what stood for router r (to x, or to anyone) no longer sure to stand?
LEMMA StepKeeps ==
  ASSUME Base, TimerInv, NoGate, YoungInv, [Next]_vars, ~Restart, NEW r \in Routers, NEW x,
         \A o \in Ops \ {x} : SetSettle(o) => op[o].router # r \/ op[o].seq # setSeq[r],
         x \in Procs /\ Works(x) => call[x].kind # "apply"
  PROVE  Keeps(r, x)
<1>1. ASSUME NEW o \in Ops, NEW q \in Routers, NEW target \in Targets,
             SetExitNode(o, q, target)
      PROVE  Keeps(r, x)
  BY <1>1, SetExitNodeFacts, OwnKeeps, ProcsFacts DEF YoungInv, Sets
<1>2. ASSUME NEW o \in Ops, NEW q \in Routers, Probe(o, q)
      PROVE  Keeps(r, x)
  BY <1>2, ProbeFacts, OwnKeeps, ProcsFacts DEF YoungInv, Sets
<1>3. ASSUME NEW o \in Ops,
             SetIntent(o) \/ SetFollowUp(o) \/ SetDisarmed(o) \/ ProbeResolve(o) \/ ProbeSettle(o)
      PROVE  Keeps(r, x)
  <2>1. /\ Own(o) /\ op'[o].router = op[o].router /\ op'[o].superseded = op[o].superseded
        /\ Sets(o) => Sets(o)'
    BY <1>3, SetIntentFacts, SetFollowUpFacts, SetDisarmedFacts, ProbeResolveFacts,
       ProbeSettleFacts DEF Ends, Sets
  <2> QED BY <2>1, OwnKeeps
<1>4. ASSUME NEW o \in Ops, SetSettle(o)
      PROVE  Keeps(r, x)
  BY <1>4, SettleKeeps
<1>5. CASE PollStart \/ PollInventory \/ PollDialed \/ PollMerge
  <2>1. OfPoll
    BY <1>5, PollStartFacts, PollInventoryFacts, PollDialedFacts, PollMergeFacts
  <2> QED BY <2>1, StillKeeps DEF OfPoll
<1>6. ASSUME NEW p \in Procs, Works(p) /\ Aside /\ faults' \in 0..MaxFaults
      PROVE  Keeps(r, x)
  BY <1>6, WorksKeeps
<1>7. CASE RouterStep /\ UNCHANGED pollerVars
  BY <1>7, RouterKeeps
<1>8. CASE NetmapChanges
  BY <1>8, NetmapBase, StillKeeps DEF clientVars, device
<1>9. CASE UNCHANGED vars
  BY <1>9, StillKeeps DEF vars, pollerVars, clientVars, device
<1> QED BY <1>1, <1>2, <1>3, <1>4, <1>5, <1>6, <1>7, <1>8, <1>9, QuietCases

\* Selection s of router r is shown as ok; or a probe, the poll or the newest
\* set has read it and may still publish it.
Shown(r, s) == view(r).state = "ok" /\ view(r).cur = s
ProbeRead(o, r, s) ==
  /\ op[o].pc = "resolving" /\ op[o].router = r /\ op[o].gen = setGen[r]
  /\ Returned(o) /\ call[o].err = "none" /\ call[o].seen = s
DialRead(r, s) ==
  /\ poll.pc = "dial" /\ poll.gen[r] = setGen[r]
  /\ \/ poll.view[r].state = "ok" /\ poll.view[r].cur = s
     \/ /\ call[PollLoop].router = r
        /\ Returned(PollLoop) /\ call[PollLoop].err = "none" /\ call[PollLoop].seen = s
SetRead(o, r, s) ==
  /\ Sets(o) /\ op[o].router = r /\ op[o].seq = setSeq[r]
  /\ \/ /\ op[o].pc = "apply" /\ call[o].seen = s
        /\ call[o].at = "keep" \/ (Returned(o) /\ call[o].err = "none")
     \/ op[o].pc = "egress" /\ op[o].res.seen = s
     \/ op[o].pc = "reread" /\ Returned(o) /\ call[o].err = "none" /\ call[o].seen = s

\* All of them still stand.  A set may not count itself as the excuse: it is
\* over once its result is shown.
ReadsConfirmed ==
  \A r \in Routers, s \in Selections :
    /\ Shown(r, s) \/ DialRead(r, s) => Confirmed(r, Nobody, s)
    /\ \A o \in Ops : ProbeRead(o, r, s) => Confirmed(r, Nobody, s)
    /\ \A o \in Ops : SetRead(o, r, s) => Confirmed(r, o, s)

ConfirmInv == Base /\ TimerInv /\ SeqInv /\ SteadyInv /\ QuietInv /\ ReadsConfirmed

\* An ended set has bumped the generation of its router.
LEMMA GenSteps ==
  ASSUME Base, NoGate, [Next]_vars, ~Restart, NEW r \in Routers
  PROVE  /\ setGen'[r] = setGen[r] \/ setGen'[r] = setGen[r] + 1
         /\ setGen[r] \in Nat
         /\ \A o \in Ops : SetSettle(o) /\ op[o].router = r => setGen'[r] = setGen[r] + 1
<1> USE BaseTypes
<1>1. \A o \in Ops : SetSettle(o) => setGen' = [setGen EXCEPT ![op[o].router] = @ + 1]
  BY SetSettleFacts
<1>2. \A o \in Ops : SetIntent(o) => setGen' = [setGen EXCEPT ![op[o].router] = @ + 1]
  BY SetIntentFacts
<1>3. \A o \in Ops : ProbeSettle(o) =>
        setGen' = setGen \/ setGen' = [setGen EXCEPT ![op[o].router] = @ + 1]
  BY ProbeSettleFacts
<1>4. \A o \in Ops : SetFollowUp(o) \/ SetDisarmed(o) \/ ProbeResolve(o) => setGen' = setGen
  BY SetFollowUpFacts, SetDisarmedFacts, ProbeResolveFacts
<1>5. \A o \in Ops, q \in Routers :
        /\ Probe(o, q) => setGen' = setGen
        /\ \A target \in Targets : SetExitNode(o, q, target) => setGen' = setGen
  BY ProbeFacts, SetExitNodeFacts
<1>6. PollStart \/ PollInventory \/ PollDialed \/ PollMerge => setGen' = setGen
  BY PollStartFacts, PollInventoryFacts, PollDialedFacts, PollMergeFacts DEF OfPoll
<1>7. Aside \/ UNCHANGED pollerVars \/ NetmapChanges \/ UNCHANGED vars => setGen' = setGen
  BY NetmapBase DEF Aside, vars, pollerVars
<1>8. setGen'[r] = setGen[r] \/ setGen'[r] = setGen[r] + 1
  BY <1>1, <1>2, <1>3, <1>4, <1>5, <1>6, <1>7, QuietCases
<1> QED BY <1>1, <1>8

\* A probe's read: just made, or still standing.
LEMMA NextProbeRead ==
  ASSUME ConfirmInv, [Next]_vars, ~Restart, NEW o \in Ops, NEW r \in Routers,
         NEW s \in Selections, ProbeRead(o, r, s)'
  PROVE  Confirmed(r, Nobody, s)'
<1> USE BaseTypes DEF ConfirmInv, QuietInv
<1>1. op'[o].pc = "resolving" /\ op'[o].router = r /\ op'[o].gen = setGen'[r]
      /\ Returned(o)' /\ call'[o].err = "none" /\ call'[o].seen = s
  BY DEF ProbeRead
<1>2. /\ op'[o] = op[o]
      /\ call'[o] = call[o] \/ (Works(o) /\ Aside /\ faults' \in 0..MaxFaults)
  <2>1. ASSUME NEW q \in Ops, NEW t \in Routers, NEW target \in Targets,
               SetExitNode(q, t, target)
        PROVE  op'[o] = op[o] /\ call'[o] = call[o]
    BY <1>1, <2>1, SetExitNodeFacts, ProcsFacts DEF Own
  <2>2. ASSUME NEW q \in Ops, NEW t \in Routers, Probe(q, t)
        PROVE  op'[o] = op[o] /\ call'[o] = call[o]
    BY <1>1, <2>2, ProbeFacts, ProcsFacts DEF Own
  <2>3. ASSUME NEW q \in Ops,
               \/ SetIntent(q) \/ SetFollowUp(q) \/ SetSettle(q) \/ SetDisarmed(q)
               \/ ProbeResolve(q) \/ ProbeSettle(q)
        PROVE  op'[o] = op[o] /\ call'[o] = call[o]
    <3>1. Own(q) /\ (op'[q].pc = "resolving" => call'[q].at = "waiting")
      BY <2>3, SetIntentFacts, SetFollowUpFacts, SetSettleFacts, SetDisarmedFacts,
         ProbeResolveFacts, ProbeSettleFacts DEF Ends
    <3> QED BY <1>1, <3>1, ProcsFacts DEF Own, Returned
  <2>4. CASE PollStart \/ PollInventory \/ PollDialed \/ PollMerge
    BY <2>4, PollStartFacts, PollInventoryFacts, PollDialedFacts, PollMergeFacts, ProcsFacts
       DEF OfPoll
  <2>5. ASSUME NEW p \in Procs, Works(p) /\ Aside /\ faults' \in 0..MaxFaults
        PROVE  /\ op'[o] = op[o]
               /\ call'[o] = call[o] \/ (Works(o) /\ Aside /\ faults' \in 0..MaxFaults)
    BY <2>5, WorksBase, ProcsFacts DEF Aside, KeepsArguments
  <2>6. CASE RouterStep /\ UNCHANGED pollerVars
    BY <2>6, RouterBase DEF Aside
  <2>7. CASE NetmapChanges \/ UNCHANGED vars
    BY <2>7, NetmapBase DEF vars, pollerVars, clientVars
  <2> QED BY <2>1, <2>2, <2>3, <2>4, <2>5, <2>6, <2>7, QuietCases
<1>3. setGen'[r] = setGen[r] /\ op[o].gen = setGen[r]
  BY <1>1, <1>2, GenSteps DEF GenInv, Op
<1>4. Keeps(r, Nobody)
  BY <1>3, StepKeeps, GenSteps, ProcsFacts
<1>5. CASE call'[o] = call[o]
  <2>1. ProbeRead(o, r, s)
    BY <1>1, <1>2, <1>3, <1>5 DEF ProbeRead, Returned
  <2> QED BY <1>4, <2>1 DEF ReadsConfirmed, Keeps
<1>6. CASE Works(o) /\ Aside /\ faults' \in 0..MaxFaults
  <2>1. call[o].kind = "read" /\ call[o].router = r
    BY <1>1, <1>2 DEF CallOf
  <2>2. OneCommand(o)
    BY <1>6, <2>1, WorksBase, ProcsFacts DEF GoesOn, Returns
  <2> QED BY <1>1, <2>1, <2>2 DEF OneCommand, Confirmed
<1> QED BY <1>2, <1>5, <1>6

\* The poll's reads.
LEMMA NextDialRead ==
  ASSUME Mode # "fallback", ConfirmInv, [Next]_vars, ~Restart, NEW r \in Routers,
         NEW s \in Selections, DialRead(r, s)'
  PROVE  Confirmed(r, Nobody, s)'
<1> USE BaseTypes DEF ConfirmInv, QuietInv
<1>1. /\ poll'.pc = "dial" /\ poll'.gen[r] = setGen'[r]
      /\ \/ poll'.view[r].state = "ok" /\ poll'.view[r].cur = s
         \/ /\ call'[PollLoop].router = r
            /\ call'[PollLoop].at = "done" /\ call'[PollLoop].err = "none"
            /\ call'[PollLoop].seen = s
  BY DEF DialRead, Returned
<1>2. \/ UNCHANGED <<poll, call>>
      \/ poll' = poll /\ call'[PollLoop] = call[PollLoop]
      \/ PollDialed
      \/ poll' = poll /\ Works(PollLoop) /\ Aside /\ faults' \in 0..MaxFaults
  <2>1. ASSUME NEW q \in Ops, NEW t \in Routers, NEW target \in Targets,
               SetExitNode(q, t, target)
        PROVE  poll' = poll /\ call'[PollLoop] = call[PollLoop]
    BY <2>1, SetExitNodeFacts, ProcsFacts DEF Own
  <2>2. ASSUME NEW q \in Ops, NEW t \in Routers, Probe(q, t)
        PROVE  poll' = poll /\ call'[PollLoop] = call[PollLoop]
    BY <2>2, ProbeFacts, ProcsFacts DEF Own
  <2>3. ASSUME NEW q \in Ops,
               \/ SetIntent(q) \/ SetFollowUp(q) \/ SetSettle(q) \/ SetDisarmed(q)
               \/ ProbeResolve(q) \/ ProbeSettle(q)
        PROVE  poll' = poll /\ call'[PollLoop] = call[PollLoop]
    <3>1. Own(q)
      BY <2>3, SetIntentFacts, SetFollowUpFacts, SetSettleFacts, SetDisarmedFacts,
         ProbeResolveFacts, ProbeSettleFacts DEF Ends
    <3> QED BY <3>1, ProcsFacts DEF Own
  <2>4. ~PollStart /\ ~PollMerge
    BY <1>1, PollStartFacts, PollMergeFacts DEF NoPoll
  <2>5. ~PollInventory
    BY <1>1, PollInventoryFacts DEF Dialed
  <2>6. ASSUME NEW p \in Procs, Works(p) /\ Aside /\ faults' \in 0..MaxFaults
        PROVE  \/ poll' = poll /\ call'[PollLoop] = call[PollLoop]
               \/ poll' = poll /\ Works(PollLoop) /\ Aside /\ faults' \in 0..MaxFaults
    BY <2>6, WorksBase, ProcsFacts DEF Aside, KeepsArguments
  <2>7. CASE RouterStep /\ UNCHANGED pollerVars
    BY <2>7, RouterBase DEF Aside
  <2>8. CASE NetmapChanges \/ UNCHANGED vars
    BY <2>8, NetmapBase DEF vars, pollerVars, clientVars
  <2> QED BY <2>1, <2>2, <2>3, <2>4, <2>5, <2>6, <2>7, <2>8, QuietCases
<1>3. poll.pc = "dial" /\ poll'.gen = poll.gen
  BY <1>1, <1>2, PollDialedFacts
<1>4. setGen'[r] = setGen[r] /\ poll.gen[r] = setGen[r]
  BY <1>1, <1>3, GenSteps, PollTypes DEF GenInv
<1>5. Keeps(r, Nobody)
  BY <1>4, StepKeeps, GenSteps, ProcsFacts
<1>6. DialRead(r, s) => Confirmed(r, Nobody, s)'
  BY <1>5 DEF ReadsConfirmed, Keeps
<1>7. CASE poll' = poll /\ call'[PollLoop] = call[PollLoop]
  BY <1>1, <1>3, <1>4, <1>6, <1>7 DEF DialRead, Returned
<1>8. CASE PollDialed
  <2> DEFINE c == call[PollLoop].router
  <2>1. /\ Returned(PollLoop) /\ call'[PollLoop].at # "done" /\ c \in Routers
        /\ poll'.view[c].state = "ok" =>
             call[PollLoop].err = "none" /\ poll'.view[c].cur = call[PollLoop].seen
        /\ \A q \in Routers : q # c => poll'.view[q] = poll.view[q]
    BY <1>8, PollDialedFacts, PollTypes
  <2>2. CASE r = c
    BY <1>1, <1>3, <1>4, <1>6, <2>1, <2>2 DEF DialRead
  <2>3. CASE r # c
    BY <1>1, <1>3, <1>4, <1>6, <2>1, <2>3 DEF DialRead
  <2> QED BY <2>2, <2>3
<1>9. CASE poll' = poll /\ Works(PollLoop) /\ Aside /\ faults' \in 0..MaxFaults
  <2>1. /\ KeepsArguments(PollLoop)
        /\ OneCommand(PollLoop) \/ GoesOn(PollLoop) \/ Returns(PollLoop)
    BY <1>9, WorksBase, ProcsFacts
  <2>2. call[PollLoop].kind # "apply" /\ call[PollLoop].kind # "keep"
    BY DEF Base, PollInv, NoCall
  <2>3. OneCommand(PollLoop) /\ call[PollLoop].kind = "read"
    BY <2>1, <2>2 DEF GoesOn, Returns, OneCommand
  <2>4. CASE poll'.view[r].state = "ok" /\ poll'.view[r].cur = s
    BY <1>3, <1>4, <1>6, <1>9, <2>4 DEF DialRead
  <2>5. CASE /\ call'[PollLoop].router = r /\ call'[PollLoop].err = "none"
             /\ call'[PollLoop].seen = s
    BY <2>1, <2>3, <2>5 DEF OneCommand, KeepsArguments, Confirmed
  <2> QED BY <1>1, <2>4, <2>5
<1> QED BY <1>2, <1>7, <1>8, <1>9

\* The reads of the newest set: its confirm read, or the re-read after a failure.
LEMMA NextSetRead ==
  ASSUME ConfirmInv, [Next]_vars, ~Restart, NEW o \in Ops, NEW r \in Routers,
         NEW s \in Selections, SetRead(o, r, s)'
  PROVE  Confirmed(r, o, s)'
<1> USE BaseTypes DEF ConfirmInv, QuietInv
<1>1. /\ op'[o].pc \in {"apply", "reread", "egress"} /\ op'[o].router = r
      /\ op'[o].seq = setSeq'[r]
      /\ op'[o].pc = "apply" => /\ call'[o].seen = s
                                /\ call'[o].at = "keep" \/ (call'[o].at = "done" /\ call'[o].err = "none")
      /\ op'[o].pc = "egress" => op'[o].res.seen = s
      /\ op'[o].pc = "reread" => /\ call'[o].at = "done" /\ call'[o].err = "none"
                                 /\ call'[o].seen = s
  BY DEF SetRead, Returned, Sets
<1>2. \/ op'[o] = op[o] /\ call'[o] = call[o]
      \/ op'[o] = op[o] /\ Works(o) /\ Aside /\ faults' \in 0..MaxFaults
      \/ SetFollowUp(o)
  <2>1. ASSUME NEW q \in Ops, NEW t \in Routers, NEW target \in Targets,
               SetExitNode(q, t, target)
        PROVE  op'[o] = op[o] /\ call'[o] = call[o]
    BY <1>1, <2>1, SetExitNodeFacts, ProcsFacts DEF Own
  <2>2. ASSUME NEW q \in Ops, NEW t \in Routers, Probe(q, t)
        PROVE  op'[o] = op[o] /\ call'[o] = call[o]
    BY <1>1, <2>2, ProbeFacts, ProcsFacts DEF Own
  <2>3. ASSUME NEW q \in Ops,
               \/ SetIntent(q) \/ SetSettle(q) \/ SetDisarmed(q)
               \/ ProbeResolve(q) \/ ProbeSettle(q)
        PROVE  op'[o] = op[o] /\ call'[o] = call[o]
    <3>1. /\ Own(q) /\ op'[q].pc \notin {"reread", "egress"}
          /\ op'[q].pc = "apply" => call'[q].at = "waiting"
      BY <2>3, SetIntentFacts, SetSettleFacts, SetDisarmedFacts,
         ProbeResolveFacts, ProbeSettleFacts DEF Ends
    <3> QED BY <1>1, <3>1, ProcsFacts DEF Own
  <2>4. ASSUME NEW q \in Ops, SetFollowUp(q)
        PROVE  (op'[o] = op[o] /\ call'[o] = call[o]) \/ SetFollowUp(o)
    BY <2>4, SetFollowUpFacts, ProcsFacts DEF Own
  <2>5. CASE PollStart \/ PollInventory \/ PollDialed \/ PollMerge
    BY <2>5, PollStartFacts, PollInventoryFacts, PollDialedFacts, PollMergeFacts, ProcsFacts
       DEF OfPoll
  <2>6. ASSUME NEW p \in Procs, Works(p) /\ Aside /\ faults' \in 0..MaxFaults
        PROVE  \/ op'[o] = op[o] /\ call'[o] = call[o]
               \/ op'[o] = op[o] /\ Works(o) /\ Aside /\ faults' \in 0..MaxFaults
    BY <2>6, WorksBase, ProcsFacts DEF Aside, KeepsArguments
  <2>7. CASE RouterStep /\ UNCHANGED pollerVars
    BY <2>7, RouterBase DEF Aside
  <2>8. CASE NetmapChanges \/ UNCHANGED vars
    BY <2>8, NetmapBase DEF vars, pollerVars, clientVars
  <2> QED BY <2>1, <2>2, <2>3, <2>4, <2>5, <2>6, <2>7, <2>8, QuietCases
<1>3. Sets(o) /\ op[o].router = r /\ op'[o].seq = op[o].seq
  BY <1>1, <1>2, SetFollowUpFacts DEF Sets
<1>4. op[o].seq = setSeq[r]
  <2>1. op[o].seq <= setSeq[r] /\ op[o].seq \in Nat /\ setSeq[r] \in Nat
    BY <1>3, SeqTypes DEF SeqInv, SetsInOrder
  <2>2. setSeq'[r] = setSeq[r] \/ setSeq'[r] = setSeq[r] + 1
    <3>1. \A q \in Ops : SetIntent(q) => setSeq' = [setSeq EXCEPT ![op[q].router] = @ + 1]
      BY SetIntentFacts
    <3>2. \A q \in Ops : \/ SetFollowUp(q) \/ SetSettle(q) \/ SetDisarmed(q)
                         \/ ProbeResolve(q) \/ ProbeSettle(q)
                         => setSeq' = setSeq
      BY SetFollowUpFacts, SetSettleFacts, SetDisarmedFacts, ProbeResolveFacts, ProbeSettleFacts
    <3>3. \A q \in Ops, t \in Routers :
            /\ Probe(q, t) => setSeq' = setSeq
            /\ \A target \in Targets : SetExitNode(q, t, target) => setSeq' = setSeq
      BY ProbeFacts, SetExitNodeFacts
    <3>4. PollStart \/ PollInventory \/ PollDialed \/ PollMerge => setSeq' = setSeq
      BY PollStartFacts, PollInventoryFacts, PollDialedFacts, PollMergeFacts DEF OfPoll
    <3>5. Aside \/ UNCHANGED pollerVars \/ NetmapChanges \/ UNCHANGED vars => setSeq' = setSeq
      BY NetmapBase DEF Aside, vars, pollerVars
    <3> QED BY <3>1, <3>2, <3>3, <3>4, <3>5, QuietCases
  <2> QED BY <1>1, <1>3, <2>1, <2>2
<1>5. \A q \in Ops \ {o} : SetSettle(q) => op[q].router # r \/ op[q].seq # setSeq[r]
  BY <1>3, <1>4, SetSettleFacts DEF SeqInv, SetsInOrder
<1>6. ASSUME Works(o) => call[o].kind # "apply", SetRead(o, r, s)
      PROVE  Confirmed(r, o, s)'
  <2>1. Keeps(r, o)
    BY <1>5, <1>6, StepKeeps, ProcsFacts
  <2> QED BY <1>6, <2>1 DEF ReadsConfirmed, Keeps
<1>7. CASE SetFollowUp(o)
  <2>1. /\ op[o].pc = "apply" /\ Returned(o) /\ op'[o].pc \in {"reread", "egress"}
        /\ op'[o].pc = "egress" => call[o].err = "none"
        /\ op'[o].res.seen = call[o].seen /\ call'[o].at = "waiting"
    BY <1>7, SetFollowUpFacts
  <2>2. SetRead(o, r, s)
    BY <1>1, <1>3, <1>4, <2>1 DEF SetRead
  <2>3. ~Works(o)
    <3>1. Works(o) => OneCommand(o) \/ GoesOn(o) \/ Returns(o)
      BY WorksFacts, ProcsFacts DEF Base, ClientInv, PollerTypeOK
    <3> QED BY <2>1, <3>1 DEF Returned, OneCommand, GoesOn, Returns, Commands
  <2> QED BY <1>6, <2>2, <2>3
<1>8. CASE op'[o] = op[o] /\ Works(o) /\ Aside /\ faults' \in 0..MaxFaults
  <2>0. /\ KeepsArguments(o)
        /\ OneCommand(o) \/ (GoesOn(o) /\ Touches(o)) \/ (Returns(o) /\ Touches(o))
    BY <1>8, WorksBase, ProcsFacts
  <2>1. CASE op[o].pc = "apply"
    <3>1. call[o].kind = "apply" /\ call[o].router = r
      BY <1>3, <2>1 DEF CallOf
    <3>2. CASE GoesOn(o)
      BY <1>1, <1>8, <2>1, <3>1, <3>2 DEF GoesOn, Commands, Confirmed
    <3>3. CASE Returns(o)
      <4>1. /\ sel' = sel
            /\ s = sel[r] \/ (call[o].at = "keep" /\ call[o].seen = s)
        BY <1>1, <1>8, <2>1, <3>1, <3>3 DEF Returns
      <4>2. CASE s = sel[r]
        BY <4>1, <4>2 DEF Confirmed
      <4>3. CASE call[o].at = "keep" /\ call[o].seen = s
        <5>1. Confirmed(r, o, s)
          BY <1>3, <1>4, <2>1, <4>3 DEF SetRead, ReadsConfirmed
        <5>2. op' = op /\ fired' = fired
          BY <1>8, WorksBase, ProcsFacts DEF Aside
        <5> QED BY <4>1, <5>1, <5>2 DEF Confirmed, Spoiled, Beside, Sets
      <4> QED BY <4>1, <4>2, <4>3
    <3> QED BY <2>0, <3>1, <3>2, <3>3 DEF OneCommand
  <2>2. CASE op[o].pc # "apply"
    <3>1. call[o].kind = "read" /\ call[o].router = r
      BY <1>3, <2>2 DEF CallOf, Sets
    <3>2. OneCommand(o)
      BY <2>0, <3>1 DEF GoesOn, Returns
    <3>3. CASE op[o].pc = "egress"
      BY <1>1, <1>3, <1>4, <1>6, <1>8, <3>1, <3>3 DEF SetRead
    <3>4. CASE op[o].pc = "reread"
      BY <1>1, <1>8, <3>1, <3>2, <3>4 DEF OneCommand, Confirmed
    <3> QED BY <1>3, <2>2, <3>3, <3>4 DEF Sets
  <2> QED BY <2>1, <2>2
<1>9. CASE op'[o] = op[o] /\ call'[o] = call[o]
  <2>1. SetRead(o, r, s)
    BY <1>1, <1>3, <1>4, <1>9 DEF SetRead, Returned
  <2>2. ~Works(o)
    <3>1. Works(o) => OneCommand(o) \/ GoesOn(o) \/ Returns(o)
      BY WorksFacts, ProcsFacts DEF Base, ClientInv, PollerTypeOK
    <3> QED BY <1>9, <3>1 DEF OneCommand, GoesOn, Returns, Commands
  <2> QED BY <1>6, <2>1, <2>2
<1> QED BY <1>2, <1>7, <1>8, <1>9

\* The newest set publishes its own read.
LEMMA SettleShown ==
  ASSUME ConfirmInv, NEW o \in Ops, SetSettle(o), NEW r \in Routers,
         op[o].router = r, op[o].seq = setSeq[r], NEW s \in Selections, Shown(r, s)'
  PROVE  Confirmed(r, Nobody, s)'
<1> USE BaseTypes DEF ConfirmInv, QuietInv
<1>1. Sets(o) /\ Returned(o) /\ (ApplyResult(o).err = "command" => op[o].pc = "reread")
  BY SetSettleFacts
<1>2. Published(o) /\ op[o].armAt \in Nat
  BY <1>1 DEF Published, SteadyInv, OpsSteady, Sets, CallOf
<1>3. snap'.view[r] = Settled(o, snap.view[r])
  BY <1>2, SetSettleFacts
<1>4. Settled(o, snap.view[r]).state = "ok" /\ Settled(o, snap.view[r]).cur = s
  BY <1>3 DEF Shown, view
<1>5. \/ ApplyResult(o).err = "none" /\ ApplyResult(o).seen = s
      \/ /\ ApplyResult(o).err = "command" /\ call[o].err = "none" /\ call[o].seen = s
         /\ op[o].pc = "reread"
  BY <1>1, <1>2, <1>4, SettledFacts
<1>6. SetRead(o, r, s)
  <2>1. CASE op[o].pc = "apply"
    BY <1>1, <1>5, <2>1, ApplyResultType DEF SetRead
  <2>2. CASE op[o].pc = "egress"
    BY <1>1, <1>5, <2>2, ApplyResultType DEF SetRead
  <2>3. CASE op[o].pc = "reread"
    BY <1>1, <1>5, <2>3, AnswerFacts DEF SetRead
  <2> QED BY <1>1, <2>1, <2>2, <2>3 DEF Sets
<1>7. Confirmed(r, o, s)'
  BY <1>6, SettleKeeps DEF ReadsConfirmed, Keeps
<1> QED BY <1>7, ProcsFacts DEF Confirmed, Beside

\* Anything else shown was shown before, or read by a probe or the poll with no
\* set in between.
LEMMA NextShown ==
  ASSUME ConfirmInv, [Next]_vars, ~Restart, NEW r \in Routers, NEW s \in Selections,
         Shown(r, s)'
  PROVE  Confirmed(r, Nobody, s)'
<1> USE BaseTypes DEF ConfirmInv, QuietInv
<1>1. CASE \E o \in Ops : SetSettle(o) /\ op[o].router = r /\ op[o].seq = setSeq[r]
  BY <1>1, SettleShown
<1>2. CASE \A o \in Ops : SetSettle(o) => op[o].router # r \/ op[o].seq # setSeq[r]
  <2> DEFINE Same == snap'.view[r] = snap.view[r]
             Read == DialRead(r, s) \/ \E o \in Ops : ProbeRead(o, r, s)
  <2>0. Keeps(r, Nobody)
    BY <1>2, StepKeeps, ProcsFacts
  <2>1. Same \/ Read
    <3>1. ASSUME NEW o \in Ops, NEW q \in Routers, NEW target \in Targets,
                 SetExitNode(o, q, target)
          PROVE  Same
      BY <3>1, SetExitNodeFacts
    <3>2. ASSUME NEW o \in Ops, NEW q \in Routers, Probe(o, q)
          PROVE  Same
      BY <3>2, ProbeFacts
    <3>3. ASSUME NEW o \in Ops, SetIntent(o)
          PROVE  Same
      BY <3>3, SetIntentFacts DEF Shown, view
    <3>4. ASSUME NEW o \in Ops, SetFollowUp(o) \/ SetDisarmed(o) \/ ProbeResolve(o)
          PROVE  Same
      BY <3>4, SetFollowUpFacts, SetDisarmedFacts, ProbeResolveFacts
    <3>5. ASSUME NEW o \in Ops, SetSettle(o)
          PROVE  Same
      BY <1>2, <3>5, SetSettleFacts DEF Published
    <3>6. ASSUME NEW o \in Ops, ProbeSettle(o)
          PROVE  Same \/ Read
      BY <3>6, ProbeSettleFacts DEF Shown, view, ProbeRead
    <3>7. CASE PollStart \/ PollInventory \/ PollDialed
      BY <3>7, PollStartFacts, PollInventoryFacts, PollDialedFacts
    <3>8. CASE PollMerge
      <4>1. poll.pc = "dial" /\ snap'.view[r] = Merged(r) /\ Merged(r).state = "ok"
            /\ Merged(r).cur = s
        BY <3>8, PollMergeFacts DEF Shown, view
      <4>2. ~HasEntry(r) /\ ~Expired(r)
        BY DEF NoGate, Expired
      <4>3. poll.view[r].state # "gone"
        BY <4>1, MergedFacts DEF Gone
      <4>4. CASE Touched(r)
        <5>1. Listed(r)
          BY <4>1, <4>4 DEF SteadyInv, DialSteady, Touched
        <5> QED BY <4>1, <4>3, <4>4, <5>1, MergedFacts
      <4>5. CASE ~Touched(r)
        BY <4>1, <4>2, <4>3, <4>5, MergedFacts DEF DialRead, Touched
      <4> QED BY <4>4, <4>5
    <3>9. ASSUME NEW p \in Procs, Works(p) /\ Aside /\ faults' \in 0..MaxFaults
          PROVE  Same
      BY <3>9 DEF Aside
    <3>10. CASE RouterStep /\ UNCHANGED pollerVars
      BY <3>10 DEF pollerVars
    <3>11. CASE NetmapChanges \/ UNCHANGED vars
      BY <3>11, NetmapBase DEF vars, pollerVars
    <3> QED BY <3>1, <3>2, <3>3, <3>4, <3>5, <3>6, <3>7, <3>8, <3>9, <3>10, <3>11, QuietCases
  <2>2. Shown(r, s) \/ Read
    BY <2>1 DEF Shown, view
  <2>3. Confirmed(r, Nobody, s)
    BY <2>2 DEF ReadsConfirmed
  <2> QED BY <2>0, <2>3 DEF Keeps
<1> QED BY <1>1, <1>2

LEMMA NextReadsConfirmed ==
  ASSUME Mode # "fallback", ConfirmInv, [Next]_vars
  PROVE  ReadsConfirmed'
<1>1. CASE Restart
  <2> SUFFICES ASSUME NEW r \in Routers, NEW s \in Selections
      PROVE  /\ ~Shown(r, s)' /\ ~DialRead(r, s)'
             /\ \A o \in Ops : ~ProbeRead(o, r, s)' /\ ~SetRead(o, r, s)'
    BY DEF ReadsConfirmed
  <2>1. ~Shown(r, s)' /\ ~DialRead(r, s)'
    BY <1>1, RestartBase DEF ConfirmInv, Shown, DialRead, view, Gone, NoPoll
  <2>2. \A o \in Ops : ~ProbeRead(o, r, s)' /\ ~SetRead(o, r, s)'
    BY <1>1, RestartBase DEF ConfirmInv, ProbeRead, SetRead, Sets
  <2> QED BY <2>1, <2>2
<1>2. CASE ~Restart
  BY <1>2, NextShown, NextDialRead, NextProbeRead, NextSetRead DEF ReadsConfirmed
<1> QED BY <1>1, <1>2

LEMMA InitConfirm ==
  ASSUME Init
  PROVE  ConfirmInv
<1>1. /\ GatedInv /\ snap = NoSnapshot /\ poll = NoPoll /\ op = [o \in Ops |-> NoOp]
      /\ pendingKeep = [r \in Routers |-> NoEntry] /\ timers = {}
  BY InitGated DEF Init, ClientInit
<1>2. /\ \A r \in Routers : view(r).state = "gone" /\ ~HasEntry(r)
      /\ \A o \in Ops : op[o].pc = "idle" /\ op[o].router = Nobody /\ ~op[o].superseded
      /\ poll.pc = "idle"
  BY <1>1 DEF NoSnapshot, NoPoll, Gone, view, HasEntry, NoOp
<1>3. QuietInv
  BY <1>2 DEF QuietInv, NoGate, YoungInv, GenInv
<1>4. ReadsConfirmed
  BY <1>2 DEF ReadsConfirmed, Shown, DialRead, ProbeRead, SetRead, Sets
<1> QED BY <1>1, <1>3, <1>4 DEF GatedInv, ConfirmInv, TimerInv

\* Without -require-keep, and where the router list cannot lose a router: what
\* the snapshot shows as ok is what the router has selected, once nothing is on
\* its way there, unless a revert fired or two sets overlapped.  The invariant
\* says why the setGen guard is enough: every read that may still be published
\* was made after the last set that it could have missed.  Both conditions are
\* needed: under -require-keep a Keep publishes "ok" over whatever selection the
\* view carries, and a router that comes back is published from a stale read.
THEOREM OkIsTrue == SteadyRouters /\ ~RequireKeep => (SafeSpec => []NoFalseConfirm)
<1> SUFFICES ASSUME SteadyRouters, ~RequireKeep PROVE SafeSpec => []NoFalseConfirm
  OBVIOUS
<1>1. Init => ConfirmInv
  BY InitConfirm
<1>2. ConfirmInv /\ [Next]_vars => ConfirmInv'
  <2> SUFFICES ASSUME ConfirmInv, [Next]_vars PROVE ConfirmInv'
    OBVIOUS
  <2>1. Mode # "fallback"
    BY DEF SteadyRouters
  <2>2. Base' /\ TimerInv' /\ SeqInv' /\ SteadyInv'
    BY NextBase, NextTimerInv, NextSeqInv, NextSteady DEF ConfirmInv
  <2>3. QuietInv'
    BY NextNoGate, NextYoungInv, NextGenInv DEF ConfirmInv, QuietInv
  <2>4. ReadsConfirmed'
    BY <2>1, NextReadsConfirmed
  <2> QED BY <2>2, <2>3, <2>4 DEF ConfirmInv
<1>3. ConfirmInv => NoFalseConfirm
  <2> SUFFICES ASSUME ConfirmInv, NEW r \in Routers, view(r).state = "ok", ~InFlight(r),
                      \A o \in Ops : router(o) = r => o \notin fired /\ ~op[o].superseded
      PROVE  view(r).cur = sel[r]
    BY DEF NoFalseConfirm
  <2>1. view(r).cur \in Selections
    BY BaseTypes DEF ConfirmInv, view, View
  <2>2. Confirmed(r, Nobody, view(r).cur)
    BY <2>1 DEF ConfirmInv, ReadsConfirmed, Shown
  <2>3. ~Spoiled(r)
    BY DEF Spoiled, router
  <2>4. ~Beside(r, Nobody)
    BY DEF Beside, InFlight, Sets, router
  <2> QED BY <2>2, <2>3, <2>4 DEF Confirmed
<1> QED BY <1>1, <1>2, <1>3, PTL DEF SafeSpec
=============================================================================
