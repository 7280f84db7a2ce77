------------------------- MODULE PollerGates_proofs -------------------------
(***************************************************************************)
(* Proofs about the gates of -require-keep: the revert behind each one and *)
(* who may cancel it.  They hold for any number of routers, exit nodes and *)
(* concurrent requests, any number of faults and restarts, any tailnet,    *)
(* and whether or not the routers are dialed.                              *)
(***************************************************************************)
EXTENDS Poller_proofs

-----------------------------------------------------------------------------
(* Who may cancel the revert behind a gate                                 *)

\* The set with marker m is over, its router was r.
SetOver(m, r) ==
  m \in Ops /\ op[m].pc \in {"disarm", "done"} /\ op[m].router = r

\* A gate is that of a set that is over, and was never let go of.
GateMarkers ==
  \A r \in Routers :
    HasEntry(r) => SetOver(pendingKeep[r].marker, r) /\ pendingKeep[r].marker \notin released

\* A Keep on its way has the marker of a set of its router.
KeepMarkers ==
  \A o \in Ops : op[o].pc = "keeping" => SetOver(op[o].res.marker, op[o].router)

\* A disarm on its way has a marker that was let go of; so was no set's that
\* may still become a gate.
DisarmMarkers ==
  /\ \A o \in Ops :
       op[o].pc = "disarm" /\ call[o].at = "waiting" => call[o].marker \in released
  /\ \A o \in Ops : o \in released => op[o].pc \in {"disarm", "done"}

MarkersInv == GateMarkers /\ KeepMarkers /\ DisarmMarkers

\* A step that records no gate, starts no Keep and no disarm.
LEMMA MarkersFrame ==
  ASSUME Base, MarkersInv,
         \A o \in Ops : op[o].pc \in {"disarm", "done"} =>
                          op'[o].pc \in {"disarm", "done"} /\ op'[o].router = op[o].router,
         \A o \in Ops : op'[o].pc = "keeping" => op'[o] = op[o],
         \A o \in Ops : op'[o].pc = "disarm" /\ call'[o].at = "waiting" =>
                          op[o].pc = "disarm" /\ call'[o] = call[o],
         \A r \in Routers : pendingKeep'[r] = pendingKeep[r] \/ pendingKeep'[r] = NoEntry,
         released \subseteq released',
         \A m \in released' \ released :
           \E r \in Routers : HasEntry(r) /\ m = pendingKeep[r].marker /\ pendingKeep'[r] = NoEntry
  PROVE  MarkersInv'
<1>1. \A m \in released' \ released :
        /\ \A r \in Routers : HasEntry(r)' => pendingKeep'[r].marker # m
        /\ m \in Ops => op[m].pc \in {"disarm", "done"}
  BY DEF MarkersInv, GateMarkers, SetOver, HasEntry
<1>2. GateMarkers'
  BY <1>1 DEF MarkersInv, GateMarkers, SetOver, HasEntry
<1>3. KeepMarkers'
  BY DEF MarkersInv, KeepMarkers, SetOver
<1>4. DisarmMarkers'
  BY <1>1 DEF MarkersInv, DisarmMarkers
<1> QED BY <1>2, <1>3, <1>4 DEF MarkersInv

\* The disarm that step 3 starts.
LEMMA DisarmFacts ==
  ASSUME Base, NEW o \in Ops, SetSettle(o)
  PROVE  LET m == Disarm(o, Published(o)) IN
         /\ m # Nobody => call'[o].marker = m
         /\ ~Published(o) => m \in {o, Nobody}
         /\ Published(o) /\ ApplyResult(o).err = "none" => m = pendingKeep[op[o].router].marker
         /\ Published(o) /\ ApplyResult(o).err # "none" => m = Nobody
<1> DEFINE m == Disarm(o, Published(o))
<1>1. Sets(o) /\ Returned(o)
  BY SetSettleFacts
<1>2. ApplyResult(o).marker \in {o, Nobody}
  BY <1>1, AnswerFacts DEF Answer
<1>3. m # Nobody => call'[o] = KeepCall(op[o].router, m)
  BY BaseTypes, ProcsFacts DEF SetSettle, Published, Calls, router
<1>4. \A r : KeepCall(r, m).marker = m
  BY DEF KeepCall, NoCall
<1> QED BY <1>2, <1>3, <1>4 DEF Disarm, router

LEMMA SetSettleMarkers ==
  ASSUME Base, MarkersInv, NEW o \in Ops, SetSettle(o)
  PROVE  MarkersInv'
<1> DEFINE r == op[o].router
           m == Disarm(o, Published(o))
<1>1. /\ Own(o) /\ Sets(o) /\ Returned(o) /\ r \in Routers
      /\ op'[o].pc \in {"done", "disarm"} /\ op'[o].router = r
      /\ IF Published(o) THEN pendingKeep' = [pendingKeep EXCEPT ![r] = GateAfter(o)]
                         ELSE pendingKeep' = pendingKeep
      /\ released' = released \cup ({m} \ {Nobody})
  BY SetSettleFacts
<1>2. /\ m # Nobody => call'[o].marker = m
      /\ ~Published(o) => m \in {o, Nobody}
      /\ Published(o) /\ ApplyResult(o).err = "none" => m = pendingKeep[r].marker
      /\ Published(o) /\ ApplyResult(o).err # "none" => m = Nobody
  BY DisarmFacts
<1>3. op'[o].pc = "disarm" => m # Nobody
  BY <1>1, BaseTypes DEF SetSettle, Published, router
<1>4. op[o].pc \notin {"disarm", "done", "keeping"} /\ o \notin released /\ o # Nobody
  BY <1>1, ProcsFacts DEF Sets, MarkersInv, DisarmMarkers
<1>5. /\ NoEntry.marker = Nobody
      /\ \A q \in Routers : HasEntry(q) => pendingKeep[q].marker # Nobody
  BY BaseTypes, ProcsFacts DEF NoEntry, Entry
<1>6. \A q \in Routers :
        HasEntry(q)' => /\ pendingKeep'[q].marker \notin released'
                        /\ SetOver(pendingKeep[q].marker, q)'
  <2> SUFFICES ASSUME NEW q \in Routers, HasEntry(q)'
      PROVE  /\ pendingKeep'[q].marker \notin released'
             /\ SetOver(pendingKeep[q].marker, q)'
    OBVIOUS
  <2>0. pendingKeep \in [Routers -> Entry \cup {NoEntry}]
    BY BaseTypes
  <2>1. CASE ~Published(o)
    BY <1>1, <1>2, <1>4, <2>1 DEF MarkersInv, GateMarkers, SetOver, HasEntry, Own
  <2>2. CASE Published(o) /\ ApplyResult(o).err # "none"
    <3>1. GateAfter(o) = pendingKeep[r]
      BY <1>1, <2>2, GateFacts
    <3>2. pendingKeep'[q] = pendingKeep[q] /\ released' = released
      BY <1>1, <1>2, <2>0, <2>2, <3>1
    <3> QED BY <1>1, <1>4, <3>2
            DEF MarkersInv, GateMarkers, SetOver, HasEntry, Own
  <2>3. CASE Published(o) /\ ApplyResult(o).err = "none" /\ q # r
    <3>1. pendingKeep'[q] = pendingKeep[q]
      BY <1>1, <2>0, <2>3
    <3>2. pendingKeep[q].marker # m
      <4>1. HasEntry(q) /\ SetOver(pendingKeep[q].marker, q) /\ m = pendingKeep[r].marker
        BY <1>2, <2>3, <3>1 DEF MarkersInv, GateMarkers, HasEntry
      <4>2. CASE HasEntry(r)
        <5>1. SetOver(pendingKeep[r].marker, r)
          BY <1>1, <4>2 DEF MarkersInv, GateMarkers
        <5> QED BY <2>3, <4>1, <5>1 DEF SetOver
      <4>3. CASE ~HasEntry(r)
        BY <1>5, <4>1, <4>3 DEF HasEntry
      <4> QED BY <4>2, <4>3
    <3> QED BY <1>1, <1>4, <3>1, <3>2 DEF MarkersInv, GateMarkers, SetOver, HasEntry, Own
  <2>4. CASE Published(o) /\ ApplyResult(o).err = "none" /\ q = r
    <3>1. pendingKeep'[q] = GateAfter(o)
      BY <1>1, <2>0, <2>4
    <3>2. ~autoKeep(op[o].target)
      BY <1>1, <2>4, <3>1, GateFacts DEF HasEntry
    <3>3. pendingKeep'[q].marker = o
      BY <1>1, <2>4, <3>1, <3>2, GateFacts
    <3>4. m # o
      <4>1. HasEntry(r) => SetOver(pendingKeep[r].marker, r)
        BY <1>1 DEF MarkersInv, GateMarkers
      <4> QED BY <1>2, <1>4, <1>5, <2>4, <4>1 DEF SetOver, HasEntry
    <3> QED BY <1>1, <1>4, <2>4, <3>3, <3>4 DEF SetOver
  <2> QED BY <2>1, <2>2, <2>3, <2>4
<1>7. m \in Ops => m = o \/ op[m].pc \in {"disarm", "done"}
  BY <1>1, <1>2, <1>5, BaseTypes, ProcsFacts DEF MarkersInv, GateMarkers, SetOver, HasEntry
<1> HIDE DEF r, m
<1>8. GateMarkers'
  BY <1>6 DEF GateMarkers
<1>9. KeepMarkers'
  BY <1>1, <1>4 DEF MarkersInv, KeepMarkers, SetOver, Own
<1>10. DisarmMarkers'
  <2>1. \A q \in Ops : op'[q].pc = "disarm" /\ call'[q].at = "waiting"
                       => call'[q].marker \in released'
    BY <1>1, <1>2, <1>3, ProcsFacts DEF MarkersInv, DisarmMarkers, Own
  <2>2. \A q \in Ops : q \in released' => op'[q].pc \in {"disarm", "done"}
    BY <1>1, <1>7 DEF MarkersInv, DisarmMarkers, Own
  <2> QED BY <2>1, <2>2 DEF DisarmMarkers
<1> QED BY <1>8, <1>9, <1>10 DEF MarkersInv

LEMMA NextMarkers ==
  ASSUME Base, TimerInv, MarkersInv, [Next]_vars
  PROVE  MarkersInv'
<1> DEFINE Overs == \A o \in Ops : op[o].pc \in {"disarm", "done"} =>
                          op'[o].pc \in {"disarm", "done"} /\ op'[o].router = op[o].router
           Keeping == \A o \in Ops : op'[o].pc = "keeping" => op'[o] = op[o]
           Disarms == \A o \in Ops : op'[o].pc = "disarm" /\ call'[o].at = "waiting" =>
                                       op[o].pc = "disarm" /\ call'[o] = call[o]
           Gates == \A r \in Routers : pendingKeep'[r] = pendingKeep[r] \/ pendingKeep'[r] = NoEntry
           Dropping == \A m \in released' \ released :
                         \E r \in Routers : /\ HasEntry(r) /\ m = pendingKeep[r].marker
                                            /\ pendingKeep'[r] = NoEntry
<1>0. Overs /\ Keeping /\ Disarms /\ Gates /\ released \subseteq released' /\ Dropping
      => MarkersInv'
  BY MarkersFrame
<1>a. \A o \in Ops : Own(o) /\ op'[o].pc \notin {"keeping", "disarm"}
                     /\ (op[o].pc \in {"disarm", "done"} =>
                           op'[o].pc = "done" /\ op'[o].router = op[o].router)
                     => Overs /\ Keeping /\ Disarms
  BY ProcsFacts DEF Own
<1> HIDE DEF Overs, Keeping, Disarms
<1>1. ASSUME NEW o \in Ops, NEW r \in Routers, NEW target \in Targets,
             SetExitNode(o, r, target)
      PROVE  MarkersInv'
  BY <1>0, <1>a, <1>1, SetExitNodeFacts
<1>2. ASSUME NEW o \in Ops, NEW r \in Routers, Keep(o, r)
      PROVE  MarkersInv'
  <2>1. /\ Own(o) /\ op[o].pc = "idle" /\ op'[o].pc = "keeping" /\ op'[o].router = r
        /\ HasEntry(r) /\ op'[o].res.marker = pendingKeep[r].marker
        /\ UNCHANGED <<pendingKeep, released>>
    BY <1>2, KeepFacts
  <2>2. GateMarkers'
    BY <2>1 DEF MarkersInv, GateMarkers, SetOver, HasEntry, Own
  <2>3. KeepMarkers'
    BY <2>1 DEF MarkersInv, GateMarkers, KeepMarkers, SetOver, Own
  <2>4. DisarmMarkers'
    BY <2>1, ProcsFacts DEF MarkersInv, DisarmMarkers, Own
  <2> QED BY <2>2, <2>3, <2>4 DEF MarkersInv
<1>3. ASSUME NEW o \in Ops, NEW r \in Routers, KeepElapsed(o, r)
      PROVE  MarkersInv'
  <2>1. Overs /\ Keeping /\ Disarms
    BY <1>3, KeepElapsedFacts DEF Overs, Keeping, Disarms
  <2>2. Gates /\ Dropping /\ released \subseteq released'
    BY <1>3, KeepElapsedFacts, BaseTypes
  <2> QED BY <1>0, <2>1, <2>2
<1>4. ASSUME NEW o \in Ops, NEW r \in Routers, Probe(o, r)
      PROVE  MarkersInv'
  BY <1>0, <1>a, <1>4, ProbeFacts
<1>5. ASSUME NEW o \in Ops, SetIntent(o)
      PROVE  MarkersInv'
  BY <1>0, <1>a, <1>5, SetIntentFacts
<1>6. ASSUME NEW o \in Ops, SetFollowUp(o)
      PROVE  MarkersInv'
  BY <1>0, <1>a, <1>6, SetFollowUpFacts
<1>7. ASSUME NEW o \in Ops, SetSettle(o)
      PROVE  MarkersInv'
  BY <1>7, SetSettleMarkers
<1>8. ASSUME NEW o \in Ops, SetDisarmed(o) \/ KeepFailed(o) \/ KeepSettle(o) \/ ProbeSettle(o)
      PROVE  MarkersInv'
  <2>1. Ends(o) /\ released' = released /\ Gates
    BY <1>8, SetDisarmedFacts, KeepFailedFacts, KeepSettleFacts, ProbeSettleFacts, BaseTypes
  <2> QED BY <1>0, <1>a, <2>1 DEF Ends
<1>9. ASSUME NEW o \in Ops, ProbeResolve(o)
      PROVE  MarkersInv'
  BY <1>0, <1>a, <1>9, ProbeResolveFacts DEF Ends
<1>10. CASE PollStart \/ PollInventory \/ PollDialed
  <2>1. OfPoll /\ UNCHANGED <<pendingKeep, released>>
    BY <1>10, PollStartFacts, PollInventoryFacts, PollDialedFacts
  <2>2. Overs /\ Keeping /\ Disarms
    BY <2>1, ProcsFacts DEF OfPoll, Overs, Keeping, Disarms
  <2> QED BY <1>0, <2>1, <2>2
<1>11. CASE PollMerge
  <2>1. Overs /\ Keeping /\ Disarms
    BY <1>11, PollMergeFacts DEF OfPoll, Overs, Keeping, Disarms
  <2>2. Gates /\ Dropping /\ released \subseteq released'
    BY <1>11, PollMergeFacts DEF Dropped, Expired
  <2> QED BY <1>0, <2>1, <2>2
<1>12. ASSUME NEW p \in Procs, Works(p) /\ Aside /\ faults' \in 0..MaxFaults
       PROVE  MarkersInv'
  <2>1. /\ KeepsArguments(p) /\ UNCHANGED <<op, pendingKeep, released>>
        /\ OneCommand(p) \/ GoesOn(p) \/ Returns(p)
    BY <1>12, WorksBase DEF Aside
  <2>2. call'[p].at # "waiting"
    BY <2>1 DEF OneCommand, GoesOn, Returns, Commands
  <2>3. Overs /\ Keeping /\ Disarms
    BY <2>1, <2>2, ProcsFacts DEF Overs, Keeping, Disarms, KeepsArguments
  <2> QED BY <1>0, <2>1, <2>3
<1>13. CASE RouterStep /\ UNCHANGED pollerVars
  <2>1. UNCHANGED <<op, call, pendingKeep, released>>
    BY <1>13, RouterBase DEF Aside
  <2> QED BY <1>0, <2>1 DEF Overs, Keeping, Disarms
<1>14. CASE NetmapChanges
  <2>1. UNCHANGED <<op, call, pendingKeep, released>>
    BY <1>14, NetmapBase DEF clientVars
  <2> QED BY <1>0, <2>1 DEF Overs, Keeping, Disarms
<1>15. CASE Restart
  <2>1. /\ \A r \in Routers : ~HasEntry(r)'
        /\ \A o \in Ops : op'[o].pc = IF op[o].pc = "idle" THEN "idle" ELSE "done"
        /\ released' = released \cup {t.marker : t \in timers}
    BY <1>15, RestartBase DEF HasEntry
  <2>2. \A o \in Ops : o \in released' => op[o].pc # "idle"
    BY <2>1 DEF TimerInv, MarkersInv, DisarmMarkers
  <2> QED BY <2>1, <2>2 DEF MarkersInv, GateMarkers, KeepMarkers, DisarmMarkers
<1>16. CASE UNCHANGED vars
  <2>1. UNCHANGED <<op, call, pendingKeep, released>>
    BY <1>16 DEF vars, clientVars, pollerVars
  <2> QED BY <1>0, <2>1 DEF Overs, Keeping, Disarms
<1> QED BY <1>1, <1>2, <1>3, <1>4, <1>5, <1>6, <1>7, <1>8, <1>9, <1>10, <1>11, <1>12,
           <1>13, <1>14, <1>15, <1>16, StepCases

CancelInv == Base /\ TimerInv /\ MarkersInv

\* A Keep of router r with the marker of its gate is on its way.
KeptBy(r) == \E o \in Ops : /\ op[o].pc = "keeping" /\ router(o) = r
                            /\ op[o].res.marker = pendingKeep[r].marker

\* Which command can have written the marker of a gate.
LEMMA GateKept ==
  ASSUME CancelInv, [Next]_vars, NEW r \in Routers, HasEntry(r),
         pendingKeep[r].marker \in written' \ written
  PROVE  KeptBy(r)
<1> USE DEF CancelInv
<1> DEFINE m == pendingKeep[r].marker
<1>1. PICK p \in Procs : Works(p) /\ Aside /\ faults' \in 0..MaxFaults
  <2>1. ASSUME written' = written PROVE FALSE
    BY <2>1
  <2>2. ASSUME NEW o \in Ops, Own(o) PROVE FALSE
    BY <2>1, <2>2 DEF Own
  <2>3. ASSUME OfPoll PROVE FALSE
    BY <2>1, <2>3 DEF OfPoll
  <2>4. ASSUME NEW o \in Ops, NEW q \in Routers, NEW target \in Targets,
               SetExitNode(o, q, target)
        PROVE  FALSE
    BY <2>2, <2>4, SetExitNodeFacts
  <2>5. ASSUME NEW o \in Ops, NEW q \in Routers,
               Keep(o, q) \/ KeepElapsed(o, q) \/ Probe(o, q)
        PROVE  FALSE
    BY <2>2, <2>5, KeepFacts, KeepElapsedFacts, ProbeFacts
  <2>6. ASSUME NEW o \in Ops,
               \/ SetIntent(o) \/ SetFollowUp(o) \/ SetSettle(o) \/ SetDisarmed(o)
               \/ KeepFailed(o) \/ KeepSettle(o) \/ ProbeResolve(o) \/ ProbeSettle(o)
        PROVE  FALSE
    BY <2>2, <2>6, SetIntentFacts, SetFollowUpFacts, SetSettleFacts, SetDisarmedFacts,
       KeepFailedFacts, KeepSettleFacts, ProbeResolveFacts, ProbeSettleFacts DEF Ends
  <2>7. CASE PollStart \/ PollInventory \/ PollDialed \/ PollMerge
    BY <2>3, <2>7, PollStartFacts, PollInventoryFacts, PollDialedFacts, PollMergeFacts
  <2>8. CASE \/ RouterStep /\ UNCHANGED pollerVars
             \/ NetmapChanges \/ Restart \/ UNCHANGED vars
    BY <2>1, <2>8, RouterBase, NetmapBase, RestartBase DEF vars, clientVars, device
  <2> QED BY <2>4, <2>5, <2>6, <2>7, <2>8, StepCases
<1>2. OneCommand(p) \/ GoesOn(p) \/ Returns(p)
  BY <1>1, WorksBase
<1>3. SetOver(m, r) /\ m \notin released
  BY DEF MarkersInv, GateMarkers
<1>4. call[p].kind \in {"apply", "keep"} => p \in Ops /\ CallOf(p) /\ op[p] \in Op
  BY BaseTypes, ProcsFacts DEF Base, PollInv, NoCall
<1> HIDE DEF m
<1>5. CASE OneCommand(p)
  <2>1. call[p].kind = "keep" /\ call[p].marker = m /\ call[p].at = "waiting"
    BY <1>5 DEF OneCommand, m
  <2>2. p \in Ops /\ op[p].pc \in {"disarm", "keeping"}
    BY <1>4, <2>1 DEF CallOf, NoCall, Op
  <2>3. op[p].pc # "disarm"
    BY <1>3, <2>1, <2>2 DEF MarkersInv, DisarmMarkers
  <2>4. op[p].res.marker = m
    BY <1>4, <2>1, <2>2, <2>3 DEF CallOf
  <2>5. op[p].router = r
    BY <1>3, <2>2, <2>3, <2>4 DEF MarkersInv, KeepMarkers, SetOver
  <2> QED BY <2>2, <2>3, <2>4, <2>5 DEF KeptBy, router, m
<1>6. CASE GoesOn(p) \/ Returns(p)
  <2>1. call[p].kind = "apply" /\ m = p
    BY <1>6 DEF GoesOn, Returns, m
  <2>2. op[p].pc = "apply"
    BY <1>4, <2>1 DEF CallOf, NoCall, Op
  <2> QED BY <1>3, <2>1, <2>2 DEF SetOver
<1> QED BY <1>2, <1>5, <1>6

LEMMA InitCancel ==
  ASSUME Init
  PROVE  CancelInv
<1>1. /\ Base /\ timers = {} /\ op = [o \in Ops |-> NoOp] /\ released = {}
      /\ pendingKeep = [r \in Routers |-> NoEntry]
  BY InitBase DEF Init, ClientInit
<1>2. MarkersInv
  BY <1>1 DEF MarkersInv, GateMarkers, KeepMarkers, DisarmMarkers, HasEntry, NoOp
<1> QED BY <1>1, <1>2 DEF CancelInv, TimerInv

LEMMA NextCancel ==
  ASSUME CancelInv, [Next]_vars
  PROVE  CancelInv'
BY NextBase, NextTimerInv, NextMarkers DEF CancelInv

\* For every instance: no disarm that SetExitNode left behind, however late, and
\* no set's own automatic keep cancels the revert behind a gate that stands; only
\* a Keep of that router with that gate's marker does.  The guard in Keep and the
\* order in step 3 are enough because a marker is let go of (released) no later
\* than the gate it belongs to, and never recorded again (MarkersInv).
THEOREM OnlyKeepsKeep == SafeSpec => OnlyKeepKeeps
<1>1. Init => CancelInv
  BY InitCancel
<1>2. CancelInv /\ [Next]_vars => CancelInv'
  BY NextCancel
<1>3. CancelInv /\ [Next]_vars =>
        [\A r \in Routers :
           HasEntry(r) /\ pendingKeep[r].marker \in written' \ written =>
             \E o \in Ops : /\ op[o].pc = "keeping" /\ router(o) = r
                            /\ op[o].res.marker = pendingKeep[r].marker]_vars
  BY GateKept DEF KeptBy
<1> QED BY <1>1, <1>2, <1>3, PTL DEF SafeSpec, OnlyKeepKeeps

-----------------------------------------------------------------------------
(* The revert behind a gate                                                *)

\* The set with marker m on router r will be undone no earlier than `until`,
\* was undone after it, or is kept.
Covered(m, r, until) ==
  \/ m \in written
  \/ \E t \in timers : t.router = r /\ t.marker = m /\ until <= t.due
  \/ m \in fired /\ until <= clock

\* ApplyExitNode is past its arm command, or returned without an error.
PastArm(p) ==
  \/ call[p].at \in {"armed", "apply", "confirm", "keep"}
  \/ call[p].at = "done" /\ call[p].err = "none"

\* The deadline of a set that may become a gate is counted from before its arm
\* command, and once that has run the deadline is covered.
SetsCovered ==
  \A o \in Ops :
    Sets(o) =>
      /\ op[o].armAt <= clock
      /\ (op[o].pc = "apply" /\ PastArm(o)) \/ op[o].pc = "egress" =>
           Covered(o, op[o].router, op[o].armAt + Window)

GatesCovered ==
  \A r \in Routers :
    HasEntry(r) => Covered(pendingKeep[r].marker, r, pendingKeep[r].revertAt)

LiveInv == Base /\ SetsCovered /\ GatesCovered

LEMMA GatesLive == GatesCovered <=> GateIsLive
BY DEF GatesCovered, GateIsLive, Covered

\* Only the arm command gets a call past it, and it leaves its timer behind.
LEMMA ArmFacts ==
  ASSUME ClientInv, NEW p \in Procs, Works(p), call[p].kind = "apply", PastArm(p)'
  PROVE  \/ PastArm(p)
         \/ \E t \in timers' : t.router = call[p].router /\ t.marker = p /\ t.due = clock + Window
<1>0. p \in Procs /\ call \in [Procs -> Call] /\ call[p] \in Call
  BY DEF ClientInv, TypeOK
<1>1. CASE lockAddr(p)
  <2>1. call'[p].at = "arm"
    BY <1>0, <1>1 DEF lockAddr, Starts, FirstCommand
  <2> QED BY <2>1 DEF PastArm
<1>2. CASE armCmd(p)
  <2> DEFINE t == [marker |-> p, router |-> call[p].router, prev |-> call[p].prev,
                   due |-> clock + Window]
  <2>1. t \in timers'
    BY <1>2 DEF armCmd
  <2> QED BY <2>1
<1>3. CASE Armed(p) \/ applyCmd(p) \/ ConfirmedAndHeld(p) \/ ConfirmedAndKeeping(p)
           \/ NotConfirmed(p) \/ keepCmd(p) \/ applyCmdLost(p) \/ keepCmdLost(p)
  BY <1>3 DEF Armed, applyCmd, Select, ConfirmedAndHeld, ConfirmedAndKeeping, NotConfirmed,
              Confirming, keepCmd, applyCmdLost, keepCmdLost, WriteMarker, PastArm
<1>4. CASE CommandExits(p) \/ TransportFails(p)
  <2>1. PICK err \in {"command", "transport"}, online \in BOOLEAN :
          Return(p, call[p].seen, online, Nobody, err)
    BY <1>4 DEF CommandExits, TransportFails, ApplyFails, Finish
  <2>2. call'[p].at = "done" /\ call'[p].err = err
    BY <1>0, <2>1 DEF Return, Call
  <2> QED BY <2>1, <2>2 DEF PastArm
<1>5. CASE KeepExitNode(p) \/ KeepExitNodeLost(p) \/ Status(p) \/ OneCommandFails(p)
  BY <1>5 DEF KeepExitNode, KeepExitNodeLost, Status, OneCommandFails, HasLock
<1> QED BY <1>1, <1>2, <1>3, <1>4, <1>5 DEF Works, ProcStep, Fault

\* A revert that is asleep stays asleep until it is due, and what ran or was
\* written stays so.
LEMMA CoveredStays ==
  ASSUME Base, [Next]_vars, NEW m, NEW r, NEW until \in Nat, Covered(m, r, until)
  PROVE  Covered(m, r, until)'
<1>1. ASSUME timers \subseteq timers', written \subseteq written', fired \subseteq fired',
             clock' = clock
      PROVE  Covered(m, r, until)'
  BY <1>1 DEF Covered
<1>2. ASSUME NEW o \in Ops, Own(o) PROVE Covered(m, r, until)'
  BY <1>1, <1>2 DEF Own
<1>3. ASSUME OfPoll PROVE Covered(m, r, until)'
  BY <1>1, <1>3 DEF OfPoll
<1>4. ASSUME NEW o \in Ops, NEW q \in Routers, NEW target \in Targets,
             SetExitNode(o, q, target)
      PROVE  Covered(m, r, until)'
  BY <1>2, <1>4, SetExitNodeFacts
<1>5. ASSUME NEW o \in Ops, NEW q \in Routers,
             Keep(o, q) \/ KeepElapsed(o, q) \/ Probe(o, q)
      PROVE  Covered(m, r, until)'
  BY <1>2, <1>5, KeepFacts, KeepElapsedFacts, ProbeFacts
<1>6. ASSUME NEW o \in Ops,
             \/ SetIntent(o) \/ SetFollowUp(o) \/ SetSettle(o) \/ SetDisarmed(o)
             \/ KeepFailed(o) \/ KeepSettle(o) \/ ProbeResolve(o) \/ ProbeSettle(o)
      PROVE  Covered(m, r, until)'
  BY <1>2, <1>6, SetIntentFacts, SetFollowUpFacts, SetSettleFacts, SetDisarmedFacts,
     KeepFailedFacts, KeepSettleFacts, ProbeResolveFacts, ProbeSettleFacts DEF Ends
<1>7. CASE PollStart \/ PollInventory \/ PollDialed \/ PollMerge
  BY <1>3, <1>7, PollStartFacts, PollInventoryFacts, PollDialedFacts, PollMergeFacts
<1>8. ASSUME NEW p \in Procs, Works(p) /\ Aside /\ faults' \in 0..MaxFaults
      PROVE  Covered(m, r, until)'
  <2>1. /\ OneCommand(p) \/ Touches(p)
        /\ UNCHANGED <<clock, fired>> /\ written \subseteq written'
    BY <1>8, WorksBase
  <2>2. timers \subseteq timers'
    BY <2>1 DEF OneCommand, Touches
  <2> QED BY <1>1, <2>1, <2>2
<1>9. CASE RouterStep /\ UNCHANGED pollerVars
  <2>0. clock \in Nat /\ timers \subseteq Timer
    BY BaseTypes
  <2>1. CASE Tick
    BY <2>0, <2>1 DEF Tick, device, Covered
  <2>2. ASSUME NEW t \in timers, RevertWakes(t)
        PROVE  Covered(m, r, until)'
    <3>1. t.due \in Nat
      BY <2>0 DEF Timer
    <3>2. CASE m \in written \/ (m \in fired /\ until <= clock)
      BY <2>2, <3>2 DEF RevertWakes, Covered
    <3>3. ASSUME NEW u \in timers, u.router = r, u.marker = m, until <= u.due, u # t
          PROVE  Covered(m, r, until)'
      BY <2>2, <3>3 DEF RevertWakes, Covered
    <3>4. CASE t.router = r /\ t.marker = m /\ until <= t.due
      <4>1. until <= clock /\ clock' = clock
        BY <2>0, <2>2, <3>1, <3>4 DEF RevertWakes
      <4> QED BY <2>2, <3>4, <4>1 DEF RevertWakes, Covered
    <3> QED BY <3>2, <3>3, <3>4 DEF Covered
  <2> QED BY <1>9, <2>1, <2>2 DEF RouterStep
<1>10. CASE NetmapChanges \/ Restart \/ UNCHANGED vars
  BY <1>1, <1>10, NetmapBase, RestartBase DEF vars, clientVars, device
<1> QED BY <1>4, <1>5, <1>6, <1>7, <1>8, <1>9, <1>10, StepCases

\* When a request was armed, through its steps.
LEMMA ArmedAt ==
  ASSUME Base, NEW o \in Ops
  PROVE  /\ SetIntent(o) /\ op'[o].pc = "apply" => op'[o].armAt = clock
         /\ SetFollowUp(o) => op'[o].armAt = op[o].armAt
<1>1. op \in [Ops -> Op] /\ op[o] \in Op
  BY BaseTypes
<1>2. ASSUME SetIntent(o), op'[o].pc = "apply" PROVE op'[o].armAt = clock
  BY <1>1, <1>2, OverFacts DEF SetIntent, Op
<1>3. ASSUME SetFollowUp(o) PROVE op'[o].armAt = op[o].armAt
  BY <1>1, <1>3 DEF SetFollowUp, Op
<1> QED BY <1>2, <1>3

\* The deadlines are times.
LEMMA DeadlineTypes ==
  ASSUME Base
  PROVE  /\ \A o \in Ops : Sets(o) => op[o].armAt \in Nat /\ op[o].armAt + Window \in Nat
         /\ \A r \in Routers : HasEntry(r) => pendingKeep[r].revertAt \in Nat
         /\ clock \in Nat
<1>1. \A o \in Ops : Sets(o) => op[o].armAt \in Nat
  BY BaseTypes DEF CallOf
<1>2. \A r \in Routers : HasEntry(r) => pendingKeep[r].revertAt \in Nat
  BY BaseTypes DEF Entry
<1> QED BY <1>1, <1>2, BaseTypes, TimeAssumption

\* A set that is as far as it was stays covered.
LEMMA SetStays ==
  ASSUME LiveInv, [Next]_vars, NEW o \in Ops, Sets(o), op'[o] = op[o],
         clock <= clock' \/ clock' = clock, clock' \in Nat,
         op[o].pc = "apply" /\ PastArm(o)' => PastArm(o)
  PROVE  Sets(o)' => /\ op'[o].armAt <= clock'
                     /\ (op'[o].pc = "apply" /\ PastArm(o)') \/ op'[o].pc = "egress" =>
                          Covered(o, op[o].router, op[o].armAt + Window)'
<1>1. /\ op[o].armAt \in Nat /\ op[o].armAt + Window \in Nat /\ clock \in Nat
      /\ op[o].armAt <= clock
  BY DeadlineTypes DEF LiveInv, SetsCovered
<1>2. op[o].armAt <= clock'
  BY <1>1
<1>3. ASSUME (op[o].pc = "apply" /\ PastArm(o)') \/ op[o].pc = "egress"
      PROVE  Covered(o, op[o].router, op[o].armAt + Window)'
  <2>1. Covered(o, op[o].router, op[o].armAt + Window)
    BY <1>3 DEF LiveInv, SetsCovered
  <2> QED BY <1>1, <2>1, CoveredStays DEF LiveInv
<1> QED BY <1>2, <1>3

LEMMA NextSetsCovered ==
  ASSUME LiveInv, [Next]_vars
  PROVE  SetsCovered'
<1> USE DEF LiveInv
<1> DEFINE Good(o) ==
             Sets(o) => /\ op[o].armAt <= clock
                        /\ (op[o].pc = "apply" /\ PastArm(o)) \/ op[o].pc = "egress" =>
                             Covered(o, op[o].router, op[o].armAt + Window)
<1>0. (\A o \in Ops : Good(o)') => SetsCovered'
  BY DEF SetsCovered
<1>a. ASSUME NEW o \in Ops, op'[o] = op[o], clock <= clock' \/ clock' = clock, clock' \in Nat,
             op[o].pc = "apply" /\ PastArm(o)' => PastArm(o)
      PROVE  Good(o)'
  <2>1. CASE Sets(o)
    BY <1>a, <2>1, SetStays
  <2>2. CASE ~Sets(o)
    BY <1>a, <2>2 DEF Sets
  <2> QED BY <2>1, <2>2
<1> HIDE DEF Good
<1>b. ASSUME NEW o \in Ops, Own(o), Good(o)'
      PROVE  SetsCovered'
  <2>1. \A q \in Ops : q # o => /\ op'[q] = op[q] /\ call'[q] = call[q]
                                /\ clock' = clock /\ clock' \in Nat
    BY <1>b, BaseTypes, ProcsFacts DEF Own
  <2>2. \A q \in Ops : q # o => (PastArm(q)' => PastArm(q))
    BY <2>1 DEF PastArm
  <2> QED BY <1>0, <1>a, <1>b, <2>1, <2>2
<1>c. ASSUME NEW o \in Ops, Own(o), op'[o].pc \notin {"apply", "reread", "egress"}
      PROVE  SetsCovered'
  BY <1>b, <1>c DEF Good, Sets
<1>d. ASSUME op' = op, \A o \in Ops : call'[o] = call[o],
             clock <= clock' \/ clock' = clock, clock' \in Nat
      PROVE  SetsCovered'
  <2>1. \A o \in Ops : PastArm(o)' => PastArm(o)
    BY <1>d DEF PastArm
  <2> QED BY <1>0, <1>a, <1>d, <2>1
<1>1. ASSUME NEW o \in Ops, NEW r \in Routers, NEW target \in Targets,
             SetExitNode(o, r, target)
      PROVE  SetsCovered'
  BY <1>c, <1>1, SetExitNodeFacts
<1>2. ASSUME NEW o \in Ops, NEW r \in Routers, Keep(o, r) \/ Probe(o, r)
      PROVE  SetsCovered'
  BY <1>c, <1>2, KeepFacts, ProbeFacts
<1>3. ASSUME NEW o \in Ops, NEW r \in Routers, KeepElapsed(o, r)
      PROVE  SetsCovered'
  BY <1>d, <1>3, KeepElapsedFacts, BaseTypes DEF Own
<1>4. ASSUME NEW o \in Ops, SetIntent(o)
      PROVE  SetsCovered'
  <2>1. Own(o) /\ (op'[o].pc = "done" \/ (op'[o].pc = "apply" /\ call'[o].at = "waiting"))
    BY <1>4, SetIntentFacts
  <2>2. CASE op'[o].pc = "apply" /\ call'[o].at = "waiting"
    <3>1. op'[o].armAt = clock /\ clock' = clock /\ clock \in Nat
      BY <1>4, <2>1, <2>2, ArmedAt, BaseTypes DEF Own
    <3>2. ~PastArm(o)'
      BY <2>2 DEF PastArm
    <3>3. Good(o)'
      BY <2>2, <3>1, <3>2 DEF Good
    <3> QED BY <1>b, <2>1, <3>3
  <2> QED BY <1>c, <2>1, <2>2
<1>5. ASSUME NEW o \in Ops, SetFollowUp(o)
      PROVE  SetsCovered'
  <2>1. /\ Own(o) /\ op[o].pc = "apply" /\ Returned(o) /\ op'[o].pc \in {"reread", "egress"}
        /\ op'[o].pc = "egress" => call[o].err = "none"
        /\ op'[o].router = op[o].router /\ op'[o].armAt = op[o].armAt
    BY <1>5, SetFollowUpFacts, ArmedAt
  <2>2. op[o].armAt <= clock /\ clock' = clock /\ op[o].armAt + Window \in Nat
    BY <2>1, DeadlineTypes DEF Own, SetsCovered, Sets
  <2>3. ASSUME op'[o].pc = "egress"
        PROVE  Covered(o, op[o].router, op[o].armAt + Window)'
    <3>1. Covered(o, op[o].router, op[o].armAt + Window)
      BY <2>1, <2>3 DEF SetsCovered, Sets, PastArm, Returned
    <3> QED BY <2>1, <3>1 DEF Covered, Own
  <2>4. Good(o)'
    BY <2>1, <2>2, <2>3 DEF Good
  <2> QED BY <1>b, <2>1, <2>4
<1>6. ASSUME NEW o \in Ops, SetSettle(o)
      PROVE  SetsCovered'
  BY <1>c, <1>6, SetSettleFacts
<1>7. ASSUME NEW o \in Ops, SetDisarmed(o) \/ KeepFailed(o) \/ KeepSettle(o) \/ ProbeSettle(o)
      PROVE  SetsCovered'
  BY <1>c, <1>7, SetDisarmedFacts, KeepFailedFacts, KeepSettleFacts, ProbeSettleFacts DEF Ends
<1>8. ASSUME NEW o \in Ops, ProbeResolve(o)
      PROVE  SetsCovered'
  BY <1>c, <1>8, ProbeResolveFacts DEF Ends
<1>9. CASE PollStart \/ PollInventory \/ PollDialed \/ PollMerge
  <2>1. OfPoll
    BY <1>9, PollStartFacts, PollInventoryFacts, PollDialedFacts, PollMergeFacts
  <2> QED BY <1>d, <2>1, BaseTypes, ProcsFacts DEF OfPoll
<1>10. ASSUME NEW p \in Procs, Works(p) /\ Aside /\ faults' \in 0..MaxFaults
       PROVE  SetsCovered'
  <2>1. /\ KeepsArguments(p) /\ op' = op /\ clock' = clock /\ clock' \in Nat
    BY <1>10, WorksBase, BaseTypes DEF Aside
  <2>2. \A q \in Ops : q # p => (PastArm(q)' => PastArm(q))
    BY <2>1, ProcsFacts DEF KeepsArguments, PastArm
  <2>3. ASSUME p \in Ops PROVE Good(p)'
    <3>1. CASE op[p].pc = "apply" /\ PastArm(p)' /\ ~PastArm(p)
      <4>1. call[p].kind = "apply" /\ call[p].router = op[p].router
        BY <2>3, <3>1, BaseTypes DEF CallOf
      <4>2. \E t \in timers' : t.router = op[p].router /\ t.marker = p /\ t.due = clock + Window
        <5>1. ClientInv
          BY DEF Base, PollerTypeOK, ClientInv
        <5> QED BY <1>10, <3>1, <4>1, <5>1, ArmFacts
      <4>3. /\ op[p].armAt \in Nat /\ clock \in Nat /\ Window \in Nat
            /\ op[p].armAt <= clock
        BY <2>3, <3>1, DeadlineTypes, TimeAssumption DEF SetsCovered, Sets
      <4>4. \E t \in timers' : /\ t.router = op'[p].router /\ t.marker = p
                               /\ op'[p].armAt + Window <= t.due
        BY <2>1, <4>2, <4>3
      <4> QED BY <2>1, <4>3, <4>4 DEF Good, Covered
    <3>2. CASE ~(op[p].pc = "apply" /\ PastArm(p)' /\ ~PastArm(p))
      BY <1>a, <2>1, <2>3, <3>2
    <3> QED BY <3>1, <3>2
  <2> QED BY <1>0, <1>a, <2>1, <2>2, <2>3
<1>11. CASE RouterStep /\ UNCHANGED pollerVars
  <2>1. op' = op /\ call' = call /\ clock' \in Nat
    BY <1>11, RouterBase DEF Aside, Base, PollerTypeOK, TypeOK
  <2>2. clock <= clock' \/ clock' = clock
    BY <1>11, BaseTypes DEF RouterStep, Tick, RevertWakes
  <2> QED BY <1>d, <2>1, <2>2
<1>12. CASE NetmapChanges
  BY <1>d, <1>12, NetmapBase, BaseTypes DEF clientVars
<1>13. CASE Restart
  BY <1>13, RestartBase DEF SetsCovered, Sets
<1>14. CASE UNCHANGED vars
  BY <1>d, <1>14, BaseTypes DEF vars, clientVars, pollerVars
<1> QED BY <1>1, <1>2, <1>3, <1>4, <1>5, <1>6, <1>7, <1>8, <1>9, <1>10, <1>11, <1>12,
           <1>13, <1>14, StepCases

LEMMA NextGatesCovered ==
  ASSUME LiveInv, [Next]_vars
  PROVE  GatesCovered'
<1> USE DEF LiveInv
<1>0. ASSUME \A r \in Routers : pendingKeep'[r] = pendingKeep[r] \/ pendingKeep'[r] = NoEntry
      PROVE  GatesCovered'
  <2> SUFFICES ASSUME NEW r \in Routers, HasEntry(r)'
      PROVE  Covered(pendingKeep[r].marker, r, pendingKeep[r].revertAt)'
    BY DEF GatesCovered
  <2>1. pendingKeep'[r] = pendingKeep[r] /\ HasEntry(r)
    BY <1>0 DEF HasEntry
  <2>2. Covered(pendingKeep[r].marker, r, pendingKeep[r].revertAt)
        /\ pendingKeep[r].revertAt \in Nat
    BY <2>1, DeadlineTypes DEF GatesCovered
  <2>3. \A m : \A until \in Nat :
          Covered(m, r, until) =>
            \/ m \in written'
            \/ \E t \in timers' : t.router = r /\ t.marker = m /\ until <= t.due
            \/ m \in fired' /\ until <= clock'
    BY CoveredStays DEF Covered
  <2>4. LET m == pendingKeep[r].marker
            until == pendingKeep[r].revertAt IN
        \/ m \in written'
        \/ \E t \in timers' : t.router = r /\ t.marker = m /\ until <= t.due
        \/ m \in fired' /\ until <= clock'
    BY <2>2, <2>3
  <2> QED BY <2>1, <2>4 DEF Covered
<1>1. ASSUME NEW o \in Ops, SetSettle(o)
      PROVE  GatesCovered'
  <2> DEFINE r == op[o].router
  <2>1. /\ Own(o) /\ Sets(o) /\ Returned(o) /\ r \in Routers
        /\ ApplyResult(o).err = "command" => op[o].pc = "reread"
        /\ \/ pendingKeep' = pendingKeep
           \/ pendingKeep' = [pendingKeep EXCEPT ![r] = GateAfter(o)]
    BY <1>1, SetSettleFacts
  <2>2. pendingKeep \in [Routers -> Entry \cup {NoEntry}]
    BY BaseTypes
  <2>3. CASE ApplyResult(o).err = "none" /\ ~autoKeep(op[o].target)
             /\ pendingKeep' = [pendingKeep EXCEPT ![r] = GateAfter(o)]
    <3>1. /\ pendingKeep'[r].marker = o /\ pendingKeep'[r].revertAt = op[o].armAt + Window
          /\ \A q \in Routers : q # r => pendingKeep'[q] = pendingKeep[q]
      BY <2>1, <2>2, <2>3, GateFacts
    <3>2. (op[o].pc = "apply" /\ PastArm(o)) \/ op[o].pc = "egress"
      <4>1. op[o].pc # "reread"
        BY <2>1, <2>3, AnswerFacts
      <4>2. op[o].pc = "apply" => call[o].err = "none"
        BY <2>3, BaseTypes, ApplyResultType
      <4> QED BY <2>1, <4>1, <4>2 DEF Sets, Returned, PastArm
    <3>3. Covered(o, r, op[o].armAt + Window)
      BY <2>1, <3>2 DEF SetsCovered
    <3> SUFFICES ASSUME NEW q \in Routers, HasEntry(q)'
        PROVE  Covered(pendingKeep[q].marker, q, pendingKeep[q].revertAt)'
      BY DEF GatesCovered
    <3>4. CASE q = r
      BY <2>1, <3>1, <3>3, <3>4 DEF Covered, Own
    <3>5. CASE q # r
      <4>1. pendingKeep'[q] = pendingKeep[q] /\ HasEntry(q)
        BY <3>1, <3>5 DEF HasEntry
      <4> QED BY <2>1, <4>1 DEF GatesCovered, Covered, Own
    <3> QED BY <3>4, <3>5
  <2>4. CASE \/ pendingKeep' = pendingKeep
             \/ ApplyResult(o).err # "none" \/ autoKeep(op[o].target)
    BY <1>0, <2>1, <2>2, <2>4, GateFacts
  <2> QED BY <2>1, <2>3, <2>4
<1>2. ASSUME NEW o \in Ops, NEW r \in Routers, NEW target \in Targets,
             SetExitNode(o, r, target)
      PROVE  GatesCovered'
  BY <1>0, <1>2, SetExitNodeFacts
<1>3. ASSUME NEW o \in Ops, NEW r \in Routers, Keep(o, r) \/ KeepElapsed(o, r) \/ Probe(o, r)
      PROVE  GatesCovered'
  BY <1>0, <1>3, KeepFacts, KeepElapsedFacts, ProbeFacts, BaseTypes
<1>4. ASSUME NEW o \in Ops,
             \/ SetIntent(o) \/ SetFollowUp(o) \/ SetDisarmed(o)
             \/ KeepFailed(o) \/ KeepSettle(o) \/ ProbeResolve(o) \/ ProbeSettle(o)
      PROVE  GatesCovered'
  <2>1. \/ pendingKeep' = pendingKeep
        \/ pendingKeep' = [pendingKeep EXCEPT ![op[o].router] = NoEntry]
    BY <1>4, SetIntentFacts, SetFollowUpFacts, SetDisarmedFacts, KeepFailedFacts,
       KeepSettleFacts, ProbeResolveFacts, ProbeSettleFacts
  <2> QED BY <1>0, <2>1, BaseTypes
<1>5. CASE PollStart \/ PollInventory \/ PollDialed \/ PollMerge
  BY <1>0, <1>5, PollStartFacts, PollInventoryFacts, PollDialedFacts, PollMergeFacts
<1>6. CASE \/ \E p \in Procs : Works(p) /\ Aside /\ faults' \in 0..MaxFaults
           \/ RouterStep /\ UNCHANGED pollerVars
           \/ NetmapChanges \/ Restart \/ UNCHANGED vars
  BY <1>0, <1>6, NetmapBase, RestartBase DEF Aside, pollerVars, vars
<1> QED BY <1>1, <1>2, <1>3, <1>4, <1>5, <1>6, StepCases

\* For every instance, whatever commands fail and whenever tsctl restarts: the
\* deadline that pendingKeep holds and the page counts down to is never later
\* than the moment the router reverts, and there is a revert to cancel until
\* then.  The invariant has to begin at the arm command (SetsCovered): armAt is
\* taken before it, the revert is counted from its effect.
THEOREM GatesAreLive == SafeSpec => []GateIsLive
<1>1. Init => LiveInv
  <2> SUFFICES ASSUME Init PROVE LiveInv
    OBVIOUS
  <2>1. /\ Base /\ op = [o \in Ops |-> NoOp] /\ pendingKeep = [r \in Routers |-> NoEntry]
    BY InitBase DEF Init
  <2> QED BY <2>1 DEF LiveInv, SetsCovered, GatesCovered, Sets, NoOp, HasEntry
<1>2. LiveInv /\ [Next]_vars => LiveInv'
  BY NextBase, NextSetsCovered, NextGatesCovered DEF LiveInv
<1>3. LiveInv => GateIsLive
  BY GatesLive DEF LiveInv
<1> QED BY <1>1, <1>2, <1>3, PTL DEF SafeSpec
=============================================================================
