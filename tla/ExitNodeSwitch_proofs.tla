----------------------- MODULE ExitNodeSwitch_proofs -----------------------
(***************************************************************************)
(* Proofs about the dead-man's-switch for any number of routers, exit      *)
(* nodes and goroutines, any window, and commands of any length, lost, or  *)
(* late.                                                                   *)
(***************************************************************************)
EXTENDS ExitNodeSwitch, TLAPS

-----------------------------------------------------------------------------
(* The inductive invariant, in parts.                                      *)

\* What a call in progress looks like; the runner of a command has the lock.
CallInv ==
  \A p \in Procs :
    /\ call[p].at # "idle" => call[p].router \in Routers
    /\ Running(p) => call[p].kind = "apply" /\ lock[call[p].router] = p
    /\ call[p].kind = "apply" /\ call[p].at # "done" => call[p].marker = p
    /\ call[p].kind = "keep" /\ call[p].at = "waiting" => call[p].marker \in Procs

Base == TypeOK /\ CallInv

\* The types of what this module adds to the client.
HistoryOK ==
  /\ late \subseteq Effect
  /\ deadline \in [Procs -> Nat \cup {Unarmed}]
  /\ changed \subseteq Procs
  /\ undone \subseteq Procs

-----------------------------------------------------------------------------
(* Types                                                                   *)

LEMMA InitBase == Init => Base
BY NobodyAssumption, SelectionAssumption
   DEF Init, ClientInit, Base, TypeOK, CallInv, NoCall, Call, Selections,
       Commands, Errors, Running

\* A call that has just been made.
Fresh(p, c) ==
  /\ c \in Call
  /\ c.at = "waiting" /\ c.router \in Routers
  /\ c.kind = "apply" => c.marker = p
  /\ c.kind = "keep" => c.marker \in Procs

LEMMA CallTypes ==
  ASSUME NEW p \in Procs, NEW r \in Routers, NEW m \in Procs,
         NEW target \in Selections, NEW prev \in Selections, NEW auto \in BOOLEAN
  PROVE  /\ Fresh(p, ApplyCall(p, r, target, prev, auto))
         /\ Fresh(p, KeepCall(r, m))
         /\ Fresh(p, ReadCall(r))
BY DEF Fresh, ApplyCall, KeepCall, ReadCall, NoCall, Call, Selections, Commands, Errors

LEMMA EnterBase ==
  ASSUME Base, NEW p \in Procs, NEW c, Fresh(p, c), Enter(p, c)
  PROVE  Base'
BY DEF Fresh, Enter, Base, TypeOK, CallInv, Running, Commands, device

LEMMA CallersBase == Base /\ Callers => Base'
<1> SUFFICES ASSUME Base, Callers PROVE Base'
  OBVIOUS
<1>1. ASSUME NEW p \in Procs, NEW r \in Routers, NEW target \in Targets,
             NEW prev \in Prevs, NEW auto \in BOOLEAN,
             CallApply(p, r, target, prev, auto)
      PROVE  Base'
  BY <1>1, CallersAssumption, CallTypes, EnterBase DEF CallApply
<1>2. ASSUME NEW p \in Procs, NEW r \in Routers, CallStatus(p, r)
      PROVE  Base'
  <2>1. Fresh(p, ReadCall(r))
    BY CallTypes DEF Selections
  <2> QED BY <1>2, <2>1, EnterBase DEF CallStatus
<1>3. ASSUME NEW p \in Procs, NEW m \in Procs, CallKeep(p, m)
      PROVE  Base'
  <2>1. call[m].router \in Routers
    BY <1>3 DEF CallKeep, Returned, Base, CallInv
  <2>2. Fresh(p, KeepCall(call[m].router, m))
    BY <2>1, CallTypes DEF Selections
  <2> QED BY <1>3, <2>2, EnterBase DEF CallKeep
<1> QED
  BY <1>1, <1>2, <1>3 DEF Callers

\* Almost every step of a process returns or starts the next command.
LEMMA ReturnBase ==
  ASSUME Base, NEW p \in Procs, NEW seen \in Selections, NEW online \in BOOLEAN,
         NEW marker \in Procs \cup {Nobody}, NEW err \in Errors,
         call[p].at # "idle",
         Return(p, seen, online, marker, err)
  PROVE  /\ call' \in [Procs -> Call]
         /\ \A q \in Procs : q # p => call'[q] = call[q]
         /\ call'[p].at = "done" /\ call'[p].router \in Routers
         /\ call'[p].seen = seen /\ call'[p].marker = marker /\ call'[p].err = err
         /\ call'[p].kind = call[p].kind /\ call'[p].router = call[p].router
         /\ call'[p].target = call[p].target /\ call'[p].auto = call[p].auto
<1>1. call \in [Procs -> Call] /\ call[p].router \in Routers
  BY DEF Base, TypeOK, CallInv
<1> DEFINE d == [call[p] EXCEPT !.at = "done", !.seen = seen,
                               !.online = online, !.marker = marker, !.err = err]
<1>2. d \in Call
  BY <1>1 DEF Call
<1>3. call' = [call EXCEPT ![p] = d]
  BY DEF Return
<1>4. /\ d.at = "done" /\ d.router = call[p].router /\ d.seen = seen
      /\ d.marker = marker /\ d.err = err /\ d.kind = call[p].kind
      /\ d.target = call[p].target /\ d.auto = call[p].auto
  BY <1>1 DEF Call
<1> HIDE DEF d
<1> QED BY <1>1, <1>2, <1>3, <1>4

LEMMA StartsBase ==
  ASSUME Base, NEW p \in Procs, NEW cmd \in Commands, NEW seen \in Selections,
         call[p].at # "idle",
         Starts(p, cmd, seen)
  PROVE  /\ call' \in [Procs -> Call]
         /\ \A q \in Procs : q # p => call'[q] = call[q]
         /\ call'[p].at = cmd /\ call'[p].seen = seen
         /\ call'[p].router \in Routers
         /\ call'[p].router = call[p].router /\ call'[p].kind = call[p].kind
         /\ call'[p].marker = call[p].marker
         /\ call'[p].target = call[p].target /\ call'[p].auto = call[p].auto
<1>1. call \in [Procs -> Call] /\ call[p].router \in Routers /\ clock \in Nat
  BY DEF Base, TypeOK, CallInv
<1> DEFINE d == [call[p] EXCEPT !.at = cmd, !.seen = seen]
<1>2. d \in Call
  BY <1>1 DEF Call
<1>3. call' = [call EXCEPT ![p] = d]
  BY DEF Starts
<1>4. /\ d.at = cmd /\ d.router = call[p].router /\ d.seen = seen
      /\ d.marker = call[p].marker /\ d.kind = call[p].kind
      /\ d.target = call[p].target /\ d.auto = call[p].auto
  BY <1>1 DEF Call
<1> HIDE DEF d
<1> QED BY <1>1, <1>2, <1>3, <1>4

\* What remains of Base once the process's own call is known.
LEMMA OwnCallBase ==
  ASSUME Base, NEW p \in Procs,
         call' \in [Procs -> Call],
         \A q \in Procs : q # p => call'[q] = call[q],
         call'[p].at \in Commands \cup {"done"},
         call'[p].router \in Routers,
         call'[p].at # "done" => /\ call'[p].kind = "apply" /\ call'[p].marker = p
                                 /\ lock'[call'[p].router] = p,
         \A r \in Routers : lock[r] \notin {p, Nobody} => lock'[r] = lock[r]
  PROVE  CallInv'
<1> SUFFICES ASSUME NEW q \in Procs
             PROVE  /\ call'[q].at # "idle" => call'[q].router \in Routers
                    /\ Running(q)' => call'[q].kind = "apply" /\ lock'[call'[q].router] = q
                    /\ call'[q].kind = "apply" /\ call'[q].at # "done" => call'[q].marker = q
                    /\ call'[q].kind = "keep" /\ call'[q].at = "waiting"
                         => call'[q].marker \in Procs
  BY DEF CallInv
<1>1. CASE q = p
  BY <1>1 DEF Running, Commands
<1>2. CASE q # p
  BY <1>2, NobodyAssumption DEF Base, CallInv, Running, Commands
<1> QED BY <1>1, <1>2

LEMMA OneCommandBase ==
  ASSUME Base, NEW p \in Procs,
         KeepExitNode(p) \/ KeepExitNodeLost(p) \/ Status(p) \/ OneCommandFails(p)
  PROVE  Base'
<1>1. call[p].at = "waiting" /\ call[p].router \in Routers
  BY DEF KeepExitNode, KeepExitNodeLost, Status, OneCommandFails, HasLock, Base, CallInv
<1>2. \E seen \in Selections, err \in Errors : Return(p, seen, FALSE, Nobody, err)
  BY <1>1 DEF KeepExitNode, KeepExitNodeLost, Status, OneCommandFails, Errors, Selections,
              Base, TypeOK
<1>3. written' \subseteq Procs
  <2>0. written \subseteq Procs
    BY DEF Base, TypeOK
  <2>1. CASE KeepExitNode(p) \/ KeepExitNodeLost(p)
    <3>1. call[p].kind = "keep" /\ written' = written \cup {call[p].marker}
      BY <2>1 DEF KeepExitNode, KeepExitNodeLost, HasLock
    <3>2. call[p].marker \in Procs
      BY <1>1, <3>1 DEF Base, CallInv
    <3> QED BY <2>0, <3>1, <3>2
  <2>2. CASE Status(p) \/ OneCommandFails(p)
    BY <2>0, <2>2 DEF Status, OneCommandFails, device
  <2> QED BY <2>1, <2>2
<1>4. UNCHANGED <<clock, sel, timers, fired, lock>>
  BY DEF KeepExitNode, KeepExitNodeLost, Status, OneCommandFails, device
<1>5. /\ call' \in [Procs -> Call]
      /\ \A q \in Procs : q # p => call'[q] = call[q]
      /\ call'[p].at = "done" /\ call'[p].router \in Routers
  BY <1>1, <1>2, ReturnBase
<1>6. CallInv'
  BY <1>4, <1>5, OwnCallBase
<1> QED BY <1>3, <1>4, <1>5, <1>6 DEF Base, TypeOK

LEMMA lockAddrBase ==
  ASSUME Base, NEW p \in Procs, lockAddr(p)
  PROVE  Base'
<1>1. /\ call[p].at = "waiting" /\ call[p].kind = "apply" /\ lock[call[p].router] = Nobody
      /\ call[p].router \in Routers /\ call[p].marker = p /\ call[p].seen \in Selections
  BY DEF lockAddr, HasLock, Unlocked, Base, CallInv, TypeOK, Call
<1>2. /\ call' \in [Procs -> Call]
      /\ \A q \in Procs : q # p => call'[q] = call[q]
      /\ call'[p].at = "arm" /\ call'[p].router = call[p].router
      /\ call'[p].kind = "apply" /\ call'[p].marker = p
  BY <1>1, StartsBase DEF lockAddr, FirstCommand, Commands
<1>3. lock' = [lock EXCEPT ![call[p].router] = p] /\ UNCHANGED <<clock, sel, timers, written, fired>>
  BY DEF lockAddr, device
<1>4. lock \in [Routers -> Procs \cup {Nobody}]
  BY DEF Base, TypeOK
<1>5. CallInv'
  BY <1>1, <1>2, <1>3, <1>4, OwnCallBase DEF Commands
<1> QED BY <1>1, <1>2, <1>3, <1>4, <1>5 DEF Base, TypeOK

LEMMA armCmdBase ==
  ASSUME Base, NEW p \in Procs, armCmd(p)
  PROVE  Base'
<1>1. /\ call[p].at = "arm" /\ call[p].kind = "apply" /\ call[p].router \in Routers
      /\ lock[call[p].router] = p /\ call[p].marker = p /\ call[p] \in Call
  BY DEF armCmd, Base, CallInv, TypeOK, Running, Commands
<1>2. call' = [call EXCEPT ![p].at = "armed"] /\ UNCHANGED <<clock, sel, written, fired, lock>>
  BY DEF armCmd
<1>3. /\ call' \in [Procs -> Call]
      /\ \A q \in Procs : q # p => call'[q] = call[q]
      /\ call'[p].at = "armed" /\ call'[p].router = call[p].router
      /\ call'[p].kind = "apply" /\ call'[p].marker = p
  BY <1>1, <1>2 DEF Base, TypeOK, Call, Commands
<1>4. timers' \subseteq Timer
  <2>1. [marker |-> p, router |-> call[p].router, prev |-> call[p].prev,
         due |-> clock + Window] \in Timer
    BY <1>1, TimeAssumption DEF Timer, Call, Base, TypeOK
  <2> QED BY <2>1 DEF armCmd, Base, TypeOK
<1>5. CallInv'
  BY <1>1, <1>2, <1>3, OwnCallBase DEF Commands
<1> QED BY <1>2, <1>3, <1>4, <1>5 DEF Base, TypeOK

\* A process in the middle of ApplyExitNode starts its next command ...
LEMMA GoesOnBase ==
  ASSUME Base, NEW p \in Procs, Running(p),
         NEW cmd \in Commands, NEW seen \in Selections, NextCommand(p, cmd, seen),
         sel' \in [Routers -> Selections],
         UNCHANGED <<clock, timers, written, fired>>
  PROVE  Base'
<1>1. /\ call[p].at # "idle" /\ call[p].kind = "apply" /\ call[p].router \in Routers
      /\ lock[call[p].router] = p /\ call[p].marker = p
  BY DEF Base, CallInv, Running, Commands
<1>2. /\ call' \in [Procs -> Call]
      /\ \A q \in Procs : q # p => call'[q] = call[q]
      /\ call'[p].at = cmd /\ call'[p].router = call[p].router
      /\ call'[p].kind = "apply" /\ call'[p].marker = p
  BY <1>1, StartsBase DEF NextCommand
<1>3. CallInv'
  BY <1>1, <1>2, OwnCallBase DEF NextCommand
<1> QED BY <1>2, <1>3 DEF Base, TypeOK, NextCommand

\* ... or returns from it.
LEMMA FinishBase ==
  ASSUME Base, NEW p \in Procs, Running(p),
         NEW seen \in Selections, NEW online \in BOOLEAN,
         NEW marker \in Procs \cup {Nobody}, NEW err \in Errors,
         Finish(p, seen, online, marker, err),
         sel' \in [Routers -> Selections],
         written' \subseteq Procs,
         UNCHANGED <<clock, timers, fired>>
  PROVE  Base'
<1>1. /\ call[p].at # "idle" /\ call[p].router \in Routers /\ lock[call[p].router] = p
      /\ lock \in [Routers -> Procs \cup {Nobody}]
  BY DEF Base, CallInv, Running, Commands, TypeOK
<1>2. /\ call' \in [Procs -> Call]
      /\ \A q \in Procs : q # p => call'[q] = call[q]
      /\ call'[p].at = "done" /\ call'[p].router \in Routers
  BY <1>1, ReturnBase DEF Finish
<1>3. lock' = [lock EXCEPT ![call[p].router] = Nobody]
  BY DEF Finish
<1>4. CallInv'
  BY <1>1, <1>2, <1>3, OwnCallBase
<1> QED BY <1>1, <1>2, <1>3, <1>4 DEF Base, TypeOK

LEMMA RouterBase == Base /\ RouterStep => Base'
<1> SUFFICES ASSUME Base, RouterStep PROVE Base'
  OBVIOUS
<1>1. CASE Tick
  BY <1>1 DEF Tick, Base, TypeOK, CallInv, Running, device
<1>2. ASSUME NEW t \in timers, RevertWakes(t) PROVE Base'
  <2>1. /\ t.marker \in Procs /\ t.prev \in Selections
        /\ sel \in [Routers -> Selections] /\ fired \subseteq Procs /\ timers \subseteq Timer
    BY DEF Base, TypeOK, Timer
  <2>2. /\ sel' \in [Routers -> Selections] /\ fired' \subseteq Procs /\ timers' \subseteq Timer
    BY <1>2, <2>1 DEF RevertWakes
  <2> QED BY <1>2, <2>2 DEF RevertWakes, Base, TypeOK, CallInv, Running
<1> QED BY <1>1, <1>2 DEF RouterStep

\* The steps that return from ApplyExitNode.
Leaves(p) ==
  \/ applyCmdLost(p) \/ ConfirmedAndHeld(p) \/ NotConfirmed(p)
  \/ keepCmd(p) \/ keepCmdLost(p) \/ CommandExits(p) \/ TransportFails(p)

\* What such a step returns, and when it may have written the marker.
Outcome(p, seen, online, marker, err) ==
  /\ seen \in Selections /\ online \in BOOLEAN /\ marker \in {p, Nobody} /\ err \in Errors
  /\ Finish(p, seen, online, marker, err)
  /\ marker = p => call[p].at = "confirm" /\ seen = call[p].target
  /\ call[p].at = "keep" => seen = call[p].seen
  /\ \/ written' = written
     \/ call[p].at = "keep" /\ written' = written \cup {p}

LEMMA LeavesFacts ==
  ASSUME Base, NEW p \in Procs, Leaves(p)
  PROVE  /\ Running(p)
         /\ \E seen, online, marker, err : Outcome(p, seen, online, marker, err)
         /\ UNCHANGED <<clock, timers, fired>>
         /\ sel' \in [Routers -> Selections]
<1>1. /\ call[p] \in Call /\ sel \in [Routers -> Selections] /\ Direct \in Selections
  BY DEF Base, TypeOK, Selections
<1>2. Running(p)
  BY DEF Leaves, applyCmdLost, Select, ConfirmedAndHeld, NotConfirmed, Confirming, keepCmd,
         keepCmdLost, WriteMarker, CommandExits, TransportFails, Running, Commands
<1>3. /\ call[p].router \in Routers /\ call[p].target \in Selections
      /\ call[p].seen \in Selections /\ sel[call[p].router] \in Selections
      /\ call[p].marker = p /\ Nobody # p
  BY <1>1, <1>2, NobodyAssumption DEF Base, CallInv, Running, Commands, Call
<1>4. UNCHANGED <<clock, timers, fired>> /\ sel' \in [Routers -> Selections]
  BY <1>1, <1>3
     DEF Leaves, applyCmdLost, Select, ConfirmedAndHeld, NotConfirmed, Confirming, keepCmd,
         keepCmdLost, WriteMarker, CommandExits, TransportFails, ApplyFails, device
<1>5. CASE applyCmdLost(p)
  <2>1. Outcome(p, Direct, FALSE, Nobody, "transport")
    BY <1>1, <1>3, <1>5 DEF Outcome, applyCmdLost, Select, Errors
  <2> QED BY <1>2, <1>4, <2>1
<1>6. CASE ConfirmedAndHeld(p)
  <2>1. Outcome(p, sel[call[p].router], TRUE, p, "none")
    BY <1>1, <1>3, <1>6 DEF Outcome, ConfirmedAndHeld, Confirming, confirmed, Errors, device
  <2> QED BY <1>2, <1>4, <2>1
<1>7. CASE NotConfirmed(p)
  <2>1. PICK online \in BOOLEAN : Finish(p, sel[call[p].router], online, Nobody, "mismatch")
    BY <1>7 DEF NotConfirmed
  <2>2. Outcome(p, sel[call[p].router], online, Nobody, "mismatch")
    BY <1>1, <1>3, <1>7, <2>1 DEF Outcome, NotConfirmed, Confirming, Errors, device
  <2> QED BY <1>2, <1>4, <2>2
<1>8. CASE keepCmd(p)
  <2>1. Outcome(p, call[p].seen, TRUE, Nobody, "none")
    BY <1>1, <1>3, <1>8 DEF Outcome, keepCmd, WriteMarker, Errors
  <2> QED BY <1>2, <1>4, <2>1
<1>9. CASE keepCmdLost(p)
  <2>1. PICK online \in BOOLEAN : Finish(p, call[p].seen, online, Nobody, "transport")
    BY <1>9 DEF keepCmdLost
  <2>2. Outcome(p, call[p].seen, online, Nobody, "transport")
    BY <1>1, <1>3, <1>9, <2>1 DEF Outcome, keepCmdLost, WriteMarker, Errors
  <2> QED BY <1>2, <1>4, <2>2
<1>10. CASE CommandExits(p) \/ TransportFails(p)
  <2>1. PICK err \in {"command", "transport"} : ApplyFails(p, err)
    BY <1>10 DEF CommandExits, TransportFails
  <2>2. PICK online \in BOOLEAN : Finish(p, call[p].seen, online, Nobody, err)
    BY <2>1 DEF ApplyFails
  <2>3. Outcome(p, call[p].seen, online, Nobody, err)
    BY <1>1, <1>3, <2>1, <2>2 DEF Outcome, ApplyFails, Errors, device
  <2> QED BY <1>2, <1>4, <2>3
<1> QED BY <1>5, <1>6, <1>7, <1>8, <1>9, <1>10 DEF Leaves

LEMMA LeavesBase ==
  ASSUME Base, NEW p \in Procs, Leaves(p)
  PROVE  Base'
<1>1. PICK seen, online, marker, err : Outcome(p, seen, online, marker, err)
  BY LeavesFacts
<1>2. written' \subseteq Procs
  BY <1>1 DEF Outcome, Base, TypeOK
<1> QED BY <1>1, <1>2, LeavesFacts, FinishBase DEF Outcome

LEMMA WorksCases ==
  ASSUME NEW p \in Procs, Works(p)
  PROVE  \/ KeepExitNode(p) \/ KeepExitNodeLost(p) \/ Status(p) \/ OneCommandFails(p)
         \/ lockAddr(p) \/ armCmd(p)
         \/ Armed(p) \/ applyCmd(p) \/ ConfirmedAndKeeping(p)
         \/ Leaves(p)
BY DEF Works, ProcStep, Fault, Leaves

\* The command between arm and confirm that starts the next one.
GoesOn(p) == Armed(p) \/ applyCmd(p) \/ ConfirmedAndKeeping(p)

LEMMA GoesOnFacts ==
  ASSUME Base, NEW p \in Procs, GoesOn(p)
  PROVE  /\ Running(p)
         /\ \/ call[p].at = "armed" /\ NextCommand(p, "apply", call[p].seen)
            \/ call[p].at = "apply" /\ NextCommand(p, "confirm", call[p].seen)
            \/ /\ call[p].at = "confirm" /\ NextCommand(p, "keep", sel[call[p].router])
               /\ sel[call[p].router] = call[p].target
         /\ call[p].seen \in Selections /\ sel[call[p].router] \in Selections
         /\ UNCHANGED <<clock, timers, written, fired>>
         /\ sel' \in [Routers -> Selections]
<1>1. Running(p)
  BY DEF GoesOn, Armed, applyCmd, Select, ConfirmedAndKeeping, Confirming, Running, Commands
<1>2. /\ call[p] \in Call /\ call[p].router \in Routers /\ sel \in [Routers -> Selections]
  BY <1>1 DEF Base, CallInv, TypeOK, Running, Commands
<1>3. call[p].target \in Selections /\ call[p].seen \in Selections
  BY <1>2 DEF Call
<1> QED
  BY <1>1, <1>2, <1>3
     DEF GoesOn, Armed, applyCmd, Select, ConfirmedAndKeeping, Confirming, confirmed, device

LEMMA WorksBase ==
  ASSUME Base, NEW p \in Procs, Works(p)
  PROVE  Base'
<1>1. CASE GoesOn(p)
  <2>1. PICK cmd \in Commands, seen \in Selections : NextCommand(p, cmd, seen)
    BY <1>1, GoesOnFacts DEF Commands
  <2> QED BY <1>1, <2>1, GoesOnFacts, GoesOnBase
<1> QED BY <1>1, WorksCases, OneCommandBase, lockAddrBase, armCmdBase, LeavesBase DEF GoesOn

\* A command the client gave up on reaches the router.
LEMMA ReachesBase ==
  ASSUME Base, NEW e \in Effect, Reaches(e)
  PROVE  Base'
<1>1. /\ e.cmd \in {"arm", "apply", "keep"} /\ e.marker \in Procs /\ e.router \in Routers
      /\ e.sel \in Selections /\ clock + Window \in Nat
  BY TimeAssumption DEF Effect, Base, TypeOK
<1>2. UNCHANGED <<clock, fired, lock, call>>
  BY DEF Reaches
<1>3. timers' \subseteq Timer
  <2>1. [marker |-> e.marker, router |-> e.router, prev |-> e.sel,
         due |-> clock + Window] \in Timer
    BY <1>1 DEF Timer
  <2> QED BY <1>1, <2>1 DEF Reaches, Base, TypeOK
<1>4. sel' \in [Routers -> Selections] /\ written' \subseteq Procs
  BY <1>1 DEF Reaches, Base, TypeOK
<1> QED BY <1>2, <1>3, <1>4 DEF Base, TypeOK, CallInv, Running

\* What p leaves behind for the router when it gives up on a command.
LEMMA OnItsWayType ==
  ASSUME Base, NEW p \in Procs, TransportFails(p) \/ OneCommandFails(p)
  PROVE  OnItsWay(p) \subseteq Effect
<1>1. call[p] \in Call /\ call[p].router \in Routers
  BY DEF TransportFails, OneCommandFails, HasLock, Running, Commands, Base, TypeOK, CallInv
<1>2. call[p].at = "keep" \/ call[p].kind = "keep" => call[p].marker \in Procs
  BY DEF TransportFails, OneCommandFails, HasLock, Running, Commands, Base, CallInv
<1>3. call[p].prev \in Selections /\ call[p].target \in Selections /\ Direct \in Selections
  BY <1>1 DEF Call, Selections
<1> QED BY <1>1, <1>2, <1>3 DEF OnItsWay, Effect

LEMMA RecordsTypes ==
  ASSUME Base, HistoryOK, NEW p \in Procs, NEW arms, NEW applies, Records(p, arms, applies)
  PROVE  /\ deadline' \in [Procs -> Nat \cup {Unarmed}]
         /\ changed' \subseteq Procs /\ undone' \subseteq Procs
<1>1. clock + Window \in Nat
  BY TimeAssumption DEF Base, TypeOK
<1> QED BY <1>1 DEF HistoryOK, Records

LEMMA NextBase == Base /\ HistoryOK /\ [Next]_vars => Base' /\ HistoryOK'
<1> SUFFICES ASSUME Base, HistoryOK, [Next]_vars PROVE Base' /\ HistoryOK'
  OBVIOUS
<1>1. CASE UNCHANGED vars
  BY <1>1 DEF vars, clientVars, device, history, Base, TypeOK, CallInv, Running, HistoryOK
<1>2. CASE Callers
  <2>1. UNCHANGED <<late, history>>
    BY <1>2 DEF Callers, CallApply, CallStatus, CallKeep, Enter
  <2> QED BY <1>2, <2>1, CallersBase DEF HistoryOK, history
<1>3. ASSUME NEW p \in Procs, Works(p) PROVE Base' /\ HistoryOK'
  <2>1. Records(p, armCmd(p), Select(p))
    BY <1>3 DEF Works
  <2>2. late' \subseteq Effect
    BY <1>3, OnItsWayType DEF Works, HistoryOK
  <2>3. /\ deadline' \in [Procs -> Nat \cup {Unarmed}]
        /\ changed' \subseteq Procs /\ undone' \subseteq Procs
    BY <2>1, RecordsTypes
  <2> QED BY <1>3, <2>2, <2>3, WorksBase DEF HistoryOK
<1>4. ASSUME NEW e \in late, Late(e) PROVE Base' /\ HistoryOK'
  <2>1. e \in Effect /\ e.marker \in Procs
    BY DEF HistoryOK, Effect
  <2>2. Base'
    BY <1>4, <2>1, ReachesBase DEF Late
  <2>3. /\ deadline' \in [Procs -> Nat \cup {Unarmed}]
        /\ changed' \subseteq Procs /\ undone' \subseteq Procs
    BY <1>4, <2>1, RecordsTypes DEF Late
  <2> QED BY <1>4, <2>2, <2>3 DEF Late, HistoryOK
<1>5. CASE Waits
  BY <1>5, RouterBase DEF Waits, RouterStep, HistoryOK, history
<1>6. ASSUME NEW t \in timers, Wakes(t) PROVE Base' /\ HistoryOK'
  BY <1>6, RouterBase DEF Wakes, RouterStep, HistoryOK
<1> QED BY <1>1, <1>2, <1>3, <1>4, <1>5, <1>6 DEF Next

LEMMA BaseHolds == Spec => [](Base /\ HistoryOK)
<1>1. Init => HistoryOK
  BY DEF Init, HistoryOK
<1> QED BY <1>1, InitBase, NextBase, PTL DEF Spec

\* The state of the client and of the routers is well formed in every
\* reachable state: in particular KeepExitNode is never asked to write an empty
\* marker and a revert shell only ever exists for an operation of the client.
THEOREM TypeCorrect == Spec => []SwitchTypeOK
<1>1. Base /\ HistoryOK => SwitchTypeOK
  BY DEF Base, HistoryOK, SwitchTypeOK
<1> QED BY <1>1, BaseHolds, PTL

\* Commands to one router are serialized: two goroutines never have a command
\* of ApplyExitNode in flight on the same router (lockAddr).
THEOREM CommandsSerialized == Spec => []OneCommandPerRouter
<1>1. Base => OneCommandPerRouter
  BY DEF Base, CallInv, OneCommandPerRouter
<1> QED BY <1>1, BaseHolds, PTL

-----------------------------------------------------------------------------
(* The effect of each step on the calls, for the invariants below.         *)

\* Only the process that takes the step changes its call.
LEMMA OneCommandFacts ==
  ASSUME Base, NEW p \in Procs,
         KeepExitNode(p) \/ KeepExitNodeLost(p) \/ Status(p) \/ OneCommandFails(p)
  PROVE  /\ call[p].at = "waiting" /\ call[p].kind \in {"keep", "read"}
         /\ \A q \in Procs : q # p => call'[q] = call[q]
         /\ call'[p].at = "done" /\ call'[p].kind = call[p].kind
         /\ UNCHANGED <<clock, timers, fired>>
         /\ \/ written' = written
            \/ call[p].kind = "keep" /\ written' = written \cup {call[p].marker}
<1>1. call[p].at = "waiting" /\ call[p].kind \in {"keep", "read"}
  BY DEF KeepExitNode, KeepExitNodeLost, Status, OneCommandFails, HasLock
<1>2. \E seen \in Selections, err \in Errors : Return(p, seen, FALSE, Nobody, err)
  <2>1. call[p].router \in Routers /\ sel \in [Routers -> Selections]
    BY <1>1 DEF Base, CallInv, TypeOK
  <2> QED BY <2>1 DEF KeepExitNode, KeepExitNodeLost, Status, OneCommandFails, Errors, Selections
<1>3. /\ UNCHANGED <<clock, timers, fired>>
      /\ \/ written' = written
         \/ call[p].kind = "keep" /\ written' = written \cup {call[p].marker}
  BY DEF KeepExitNode, KeepExitNodeLost, Status, OneCommandFails, HasLock, device
<1> QED BY <1>1, <1>2, <1>3, ReturnBase

LEMMA lockAddrFacts ==
  ASSUME Base, NEW p \in Procs, lockAddr(p)
  PROVE  /\ call[p].at = "waiting" /\ call[p].kind = "apply"
         /\ \A q \in Procs : q # p => call'[q] = call[q]
         /\ call'[p].at = "arm" /\ call'[p].kind = "apply"
         /\ UNCHANGED <<clock, timers, written, fired>>
<1>1. /\ call[p].at = "waiting" /\ call[p].kind = "apply" /\ call[p].seen \in Selections
  BY DEF lockAddr, HasLock, Base, TypeOK, Call
<1> QED BY <1>1, StartsBase DEF lockAddr, FirstCommand, Commands, device

LEMMA armCmdFacts ==
  ASSUME Base, NEW p \in Procs, armCmd(p)
  PROVE  /\ call[p].at = "arm" /\ call[p].kind = "apply"
         /\ \A q \in Procs : q # p => call'[q] = call[q]
         /\ call'[p].at = "armed" /\ call'[p].kind = "apply"
         /\ \E t : t.marker = p /\ t.due = clock + Window /\ timers' = timers \cup {t}
         /\ UNCHANGED <<clock, written, fired>>
<1>1. call[p].at = "arm" /\ call[p].kind = "apply" /\ call \in [Procs -> Call]
  BY DEF armCmd, Base, CallInv, Running, Commands, TypeOK
<1>2. call' = [call EXCEPT ![p].at = "armed"]
  BY DEF armCmd
<1>3. /\ \A q \in Procs : q # p => call'[q] = call[q]
      /\ call'[p].at = "armed" /\ call'[p].kind = "apply"
  BY <1>1, <1>2 DEF Call
<1>4. \E t : t.marker = p /\ t.due = clock + Window /\ timers' = timers \cup {t}
  <2> DEFINE t == [marker |-> p, router |-> call[p].router, prev |-> call[p].prev,
                   due |-> clock + Window]
  <2>1. t.marker = p /\ t.due = clock + Window /\ timers' = timers \cup {t}
    BY DEF armCmd
  <2> QED BY <2>1
<1> QED BY <1>1, <1>3, <1>4 DEF armCmd

LEMMA GoesOnCalls ==
  ASSUME Base, NEW p \in Procs, GoesOn(p)
  PROVE  /\ call[p].kind = "apply" /\ call'[p].kind = "apply"
         /\ \A q \in Procs : q # p => call'[q] = call[q]
         /\ call'[p].target = call[p].target
         /\ \/ call[p].at = "armed" /\ call'[p].at = "apply"
            \/ call[p].at = "apply" /\ call'[p].at = "confirm"
            \/ /\ call[p].at = "confirm" /\ call'[p].at = "keep"
               /\ call'[p].seen = call[p].target
         /\ UNCHANGED <<clock, timers, written, fired>>
<1>1. Running(p) /\ call[p].kind = "apply" /\ call[p].at # "idle"
  BY GoesOnFacts DEF Base, CallInv, Running, Commands
<1> QED BY <1>1, GoesOnFacts, StartsBase DEF NextCommand, Commands

LEMMA LeavesCalls ==
  ASSUME Base, NEW p \in Procs, Leaves(p)
  PROVE  /\ Running(p) /\ call[p].kind = "apply"
         /\ call'[p].at = "done" /\ call'[p].kind = "apply"
         /\ \A q \in Procs : q # p => call'[q] = call[q]
         /\ call'[p].target = call[p].target
         /\ call'[p].marker = p => call'[p].seen = call'[p].target
         /\ call[p].at = "keep" => call'[p].seen = call[p].seen
         /\ \/ written' = written
            \/ call[p].at = "keep" /\ written' = written \cup {p}
         /\ UNCHANGED <<clock, timers, fired>>
<1>1. Running(p) /\ call[p].kind = "apply" /\ call[p].at # "idle" /\ Nobody # p
  BY LeavesFacts, NobodyAssumption DEF Base, CallInv, Running, Commands
<1>2. PICK seen, online, marker, err : Outcome(p, seen, online, marker, err)
  BY LeavesFacts
<1>3. /\ seen \in Selections /\ online \in BOOLEAN /\ marker \in Procs \cup {Nobody}
      /\ err \in Errors /\ Return(p, seen, online, marker, err)
  BY <1>2 DEF Outcome, Finish
<1>4. /\ call'[p].at = "done" /\ call'[p].kind = call[p].kind
      /\ \A q \in Procs : q # p => call'[q] = call[q]
      /\ call'[p].target = call[p].target /\ call'[p].auto = call[p].auto
      /\ call'[p].marker = marker /\ call'[p].seen = seen /\ call'[p].err = err
  BY <1>1, <1>3, ReturnBase
<1> QED BY <1>1, <1>2, <1>4, LeavesFacts DEF Outcome

LEMMA EnterFacts ==
  ASSUME Base, Callers
  PROVE  \E p \in Procs :
           /\ call[p].at = "idle" /\ call'[p].at = "waiting"
           /\ \A q \in Procs : q # p => call'[q] = call[q]
           /\ call'[p].kind = "keep" =>
                LET m == call'[p].marker IN
                /\ m \in Procs /\ call[m].at = "done"
                /\ call[m].kind = "apply" /\ call[m].marker = m
           /\ UNCHANGED <<clock, timers, written, fired>>
<1>1. call \in [Procs -> Call]
  BY DEF Base, TypeOK
<1>2. ASSUME NEW p \in Procs, NEW c, Enter(p, c)
      PROVE  /\ call[p].at = "idle" /\ c = call'[p]
             /\ \A q \in Procs : q # p => call'[q] = call[q]
             /\ UNCHANGED <<clock, timers, written, fired>>
  BY <1>1, <1>2 DEF Enter, device
<1>3. ASSUME NEW p \in Procs, NEW r \in Routers, NEW target \in Targets,
             NEW prev \in Prevs, NEW auto \in BOOLEAN
      PROVE  ApplyCall(p, r, target, prev, auto).at = "waiting"
             /\ ApplyCall(p, r, target, prev, auto).kind = "apply"
  BY DEF ApplyCall, NoCall
<1>4. ASSUME NEW r PROVE ReadCall(r).at = "waiting" /\ ReadCall(r).kind = "read"
  BY DEF ReadCall, NoCall
<1>5. ASSUME NEW r, NEW m PROVE KeepCall(r, m).at = "waiting" /\ KeepCall(r, m).marker = m
  BY DEF KeepCall, NoCall
<1>6. CASE \E p \in Procs, r \in Routers, target \in Targets, prev \in Prevs,
                auto \in BOOLEAN : CallApply(p, r, target, prev, auto)
  BY <1>2, <1>3, <1>6 DEF CallApply
<1>7. CASE \E p \in Procs, r \in Routers : CallStatus(p, r)
  BY <1>2, <1>4, <1>7 DEF CallStatus
<1>8. CASE \E p, m \in Procs : CallKeep(p, m)
  BY <1>2, <1>5, <1>8 DEF CallKeep, Returned
<1> QED BY <1>6, <1>7, <1>8 DEF Callers

-----------------------------------------------------------------------------
(* Every change is guarded.                                                *)

PastArm(p) == call[p].at \in {"armed", "apply", "confirm", "keep"}
HasDeadline(p) == deadline[p] # Unarmed

\* The revert of p that is due at its deadline sleeps.
Asleep(p) == \E t \in timers : t.marker = p /\ t.due = deadline[p]

\* A process that has armed its revert has a deadline.
ArmedFirst(p) == PastArm(p) => HasDeadline(p)

\* Until its deadline the revert sleeps, or its marker is written.
RevertAhead(p) == HasDeadline(p) => Asleep(p) \/ p \in written \/ clock >= deadline[p]

\* SwitchGuardsEveryChange, of one process.
Guarded(p) == p \in changed => Sleeping(p) \/ p \in written \/ p \in undone

\* An apply that is still on its way was sent after its revert was armed.
LateApplyArmed == \A e \in late : e.cmd = "apply" => HasDeadline(e.marker)

GuardInv ==
  /\ \A p \in Procs : ArmedFirst(p) /\ RevertAhead(p) /\ Guarded(p)
  /\ LateApplyArmed

LEMMA TimeTypes ==
  ASSUME Base, HistoryOK
  PROVE  /\ clock \in Nat /\ Window \in Nat /\ clock + Window \in Nat
         /\ clock + Window # Unarmed
         /\ \A p \in Procs : HasDeadline(p) => deadline[p] \in Nat
         /\ \A t \in timers : t.due \in Nat /\ t.marker \in Procs
         /\ \A e \in late : e.marker \in Procs /\ e.cmd \in {"arm", "apply", "keep"}
         /\ DOMAIN deadline = Procs
BY TimeAssumption DEF Base, HistoryOK, TypeOK, Timer, Effect, HasDeadline, Unarmed

\* A change made in time is guarded the moment it is made.
LEMMA InTimeGuarded ==
  ASSUME Base, HistoryOK, NEW p \in Procs, HasDeadline(p), RevertAhead(p), InTime(p)
  PROVE  Sleeping(p) \/ p \in written
BY TimeTypes DEF HasDeadline, RevertAhead, InTime, Asleep, Sleeping

\* The steps that arm nothing and forget nothing.
LEMMA GuardFrame ==
  ASSUME Base, HistoryOK, GuardInv,
         clock' = clock, timers \subseteq timers', written \subseteq written',
         UNCHANGED <<deadline, undone>>,
         \A q \in Procs : PastArm(q)' => PastArm(q),
         \A q \in Procs : q \in changed' => q \in changed \/ (HasDeadline(q) /\ InTime(q)),
         \A e \in late' : e \in late \/ (e.cmd = "apply" => HasDeadline(e.marker))
  PROVE  GuardInv'
<1>1. ASSUME NEW q \in Procs
      PROVE  ArmedFirst(q)' /\ RevertAhead(q)'
  BY DEF GuardInv, ArmedFirst, RevertAhead, HasDeadline, Asleep
<1>2. ASSUME NEW q \in Procs
      PROVE  Guarded(q)'
  <2>1. RevertAhead(q) /\ Guarded(q)
    BY DEF GuardInv
  <2>2. q \in changed' => Sleeping(q) \/ q \in written \/ q \in undone
    BY <2>1, InTimeGuarded DEF Guarded
  <2> QED BY <2>2 DEF Guarded, Sleeping
<1>3. LateApplyArmed'
  BY DEF GuardInv, LateApplyArmed, HasDeadline
<1> QED BY <1>1, <1>2, <1>3 DEF GuardInv

\* Arming, by the process itself or by a command that comes late.
LEMMA GuardArms ==
  ASSUME Base, HistoryOK, GuardInv, NEW m \in Procs, NEW t,
         t.marker = m, t.due = clock + Window, timers' = timers \cup {t},
         deadline' = [deadline EXCEPT ![m] = clock + Window],
         UNCHANGED <<clock, written, changed, undone>>,
         \A q \in Procs : q # m => (PastArm(q)' => PastArm(q)),
         late' \subseteq late
  PROVE  GuardInv'
<1>1. HasDeadline(m)' /\ Asleep(m)'
  BY TimeTypes DEF HasDeadline, Asleep
<1>2. ASSUME NEW q \in Procs
      PROVE  ArmedFirst(q)' /\ RevertAhead(q)' /\ Guarded(q)'
  <2>1. CASE q = m
    BY <1>1, <2>1 DEF ArmedFirst, RevertAhead, Guarded, Asleep, Sleeping
  <2>2. CASE q # m
    <3>1. deadline'[q] = deadline[q]
      BY <2>2, TimeTypes
    <3> QED BY <2>2, <3>1
               DEF GuardInv, ArmedFirst, RevertAhead, HasDeadline, Guarded, Asleep, Sleeping
  <2> QED BY <2>1, <2>2
<1>3. LateApplyArmed'
  <2>1. \A q \in Procs : HasDeadline(q) => HasDeadline(q)'
    BY TimeTypes DEF HasDeadline
  <2> QED BY <2>1, TimeTypes DEF GuardInv, LateApplyArmed
<1> QED BY <1>2, <1>3 DEF GuardInv

LEMMA WorksGuard ==
  ASSUME Base, HistoryOK, GuardInv, NEW p \in Procs, Works(p)
  PROVE  GuardInv'
<1>0. Records(p, armCmd(p), Select(p))
  BY DEF Works
<1>1. CASE armCmd(p)
  <2>1. PICK t : t.marker = p /\ t.due = clock + Window /\ timers' = timers \cup {t}
    BY <1>1, armCmdFacts
  <2>2. /\ call[p].at = "arm" /\ call'[p].at = "armed"
        /\ \A q \in Procs : q # p => call'[q] = call[q]
        /\ UNCHANGED <<clock, written>>
    BY <1>1, armCmdFacts
  <2>3. ~Select(p) /\ ~TransportFails(p) /\ ~OneCommandFails(p)
    BY <2>2, LeavesCalls DEF Select, OneCommandFails, HasLock, Leaves
  <2>4. /\ deadline' = [deadline EXCEPT ![p] = clock + Window]
        /\ UNCHANGED <<changed, undone>>
    BY <1>0, <1>1, <2>3 DEF Records
  <2>5. late' = late
    BY <2>3 DEF Works
  <2> QED BY <2>1, <2>2, <2>4, <2>5, GuardArms DEF PastArm
<1>2. CASE ~armCmd(p)
  <2>1. /\ clock' = clock /\ timers \subseteq timers' /\ written \subseteq written'
        /\ \A q \in Procs : PastArm(q)' => PastArm(q)
    BY <1>2, WorksCases, OneCommandFacts, lockAddrFacts, GoesOnCalls, LeavesCalls
       DEF GoesOn, PastArm
  <2>2. call[p].at = "apply" => HasDeadline(p)
    BY DEF GuardInv, ArmedFirst, PastArm
  <2>3. /\ UNCHANGED <<deadline, undone>>
        /\ \A q \in Procs : q \in changed' => q \in changed \/ (HasDeadline(q) /\ InTime(q))
    BY <1>0, <1>2, <2>2 DEF Records, Select
  <2>4. \A e \in late' : e \in late \/ (e.cmd = "apply" => HasDeadline(e.marker))
    <3>1. \A e \in OnItsWay(p) : e.cmd = "apply" => call[p].at = "apply" /\ e.marker = p
      BY DEF OnItsWay
    <3> QED BY <2>2, <3>1 DEF Works
  <2> QED BY <2>1, <2>3, <2>4, GuardFrame
<1> QED BY <1>1, <1>2

LEMMA LateGuard ==
  ASSUME Base, HistoryOK, GuardInv, NEW e \in late, Late(e)
  PROVE  GuardInv'
<1> DEFINE m == e.marker
<1>0. m \in Procs /\ e.cmd \in {"arm", "apply", "keep"}
  BY TimeTypes
<1>1. /\ Records(m, e.cmd = "arm", e.cmd = "apply") /\ late' \subseteq late
      /\ UNCHANGED <<clock, call>>
  BY DEF Late, Reaches
<1>2. CASE e.cmd = "arm"
  <2> DEFINE t == [marker |-> m, router |-> e.router, prev |-> e.sel, due |-> clock + Window]
  <2>1. /\ timers' = timers \cup {t} /\ written' = written
        /\ t.marker = m /\ t.due = clock + Window
    BY <1>2 DEF Late, Reaches
  <2>2. /\ deadline' = [deadline EXCEPT ![m] = clock + Window]
        /\ UNCHANGED <<changed, undone>>
    BY <1>1, <1>2 DEF Records
  <2> HIDE DEF t, m
  <2> QED BY <1>0, <1>1, <2>1, <2>2, GuardArms DEF PastArm
<1>3. CASE e.cmd # "arm"
  <2>1. timers \subseteq timers' /\ written \subseteq written'
    BY <1>0, <1>3 DEF Late, Reaches
  <2>2. UNCHANGED <<deadline, undone>>
    BY <1>1, <1>3 DEF Records
  <2>3. \A q \in Procs : q \in changed' => q \in changed \/ (HasDeadline(q) /\ InTime(q))
    BY <1>1, <1>3 DEF Records, GuardInv, LateApplyArmed
  <2> QED BY <1>1, <2>1, <2>2, <2>3, GuardFrame DEF PastArm
<1> QED BY <1>2, <1>3

LEMMA WaitsGuard ==
  ASSUME Base, HistoryOK, GuardInv, Waits
  PROVE  GuardInv'
<1>1. clock' = clock + 1 /\ UNCHANGED <<timers, written, call, late, deadline, changed, undone>>
  BY DEF Waits, Tick, device, history
<1>2. ASSUME NEW q \in Procs
      PROVE  ArmedFirst(q)' /\ RevertAhead(q)' /\ Guarded(q)'
  BY <1>1, TimeTypes DEF GuardInv, ArmedFirst, PastArm, RevertAhead, HasDeadline, Asleep,
                         Guarded, Sleeping
<1> QED BY <1>1, <1>2 DEF GuardInv, LateApplyArmed, HasDeadline

LEMMA WakesGuard ==
  ASSUME Base, HistoryOK, GuardInv, NEW t \in timers, Wakes(t)
  PROVE  GuardInv'
<1>1. /\ clock >= t.due /\ timers' = timers \ {t} /\ UNCHANGED <<clock, written, call>>
      /\ undone' = undone \cup (({t.marker} \cap changed) \ written)
      /\ UNCHANGED <<late, deadline, changed>>
  BY DEF Wakes, RevertWakes
<1>2. ASSUME NEW q \in Procs
      PROVE  ArmedFirst(q)'
  BY <1>1 DEF GuardInv, ArmedFirst, PastArm, HasDeadline
<1>3. ASSUME NEW q \in Procs
      PROVE  RevertAhead(q)'
  BY <1>1 DEF GuardInv, RevertAhead, HasDeadline, Asleep
<1>4. ASSUME NEW q \in Procs
      PROVE  Guarded(q)'
  BY <1>1 DEF GuardInv, Guarded, Sleeping
<1> QED BY <1>1, <1>2, <1>3, <1>4 DEF GuardInv, LateApplyArmed, HasDeadline

LEMMA GuardStep == Base /\ HistoryOK /\ GuardInv /\ [Next]_vars => GuardInv'
<1> SUFFICES ASSUME Base, HistoryOK, GuardInv, [Next]_vars PROVE GuardInv'
  OBVIOUS
<1>1. CASE UNCHANGED vars
  BY <1>1, GuardFrame DEF vars, clientVars, device, history, PastArm
<1>2. CASE Callers
  <2>1. UNCHANGED <<late, deadline, changed, undone>>
    BY <1>2 DEF Callers, CallApply, CallStatus, CallKeep, Enter, history
  <2>2. /\ UNCHANGED <<clock, timers, written>>
        /\ \A q \in Procs : PastArm(q)' => PastArm(q)
    BY <1>2, EnterFacts DEF PastArm
  <2> QED BY <2>1, <2>2, GuardFrame
<1> QED BY <1>1, <1>2, WorksGuard, LateGuard, WaitsGuard, WakesGuard DEF Next

\* Whatever command fails, never ends or comes late, and whoever else uses the
\* router: when the apply command of ApplyExitNode changed a router's exit node
\* before its revert was due, the revert is asleep on the router, or the change
\* was kept, or the revert ran after the change and undid it.  A change made
\* later than the window is not covered: its revert may have run before it.
THEOREM ChangesGuarded == Spec => []SwitchGuardsEveryChange
<1>1. Init => GuardInv
  BY DEF Init, ClientInit, NoCall, GuardInv, ArmedFirst, PastArm, RevertAhead, HasDeadline,
         Guarded, LateApplyArmed
<1>2. HistoryOK /\ GuardInv => SwitchGuardsEveryChange
  BY DEF HistoryOK, GuardInv, Guarded, SwitchGuardsEveryChange
<1> QED BY <1>1, <1>2, GuardStep, BaseHolds, PTL DEF Spec

-----------------------------------------------------------------------------
(* Only confirmed changes are kept.                                        *)

Confirmed(p) ==
  call[p].kind = "apply" /\ call[p].at = "done" /\ call[p].seen = call[p].target

KeptInv ==
  \A p \in Procs :
    /\ call[p].at = "keep" => call[p].seen = call[p].target
    /\ call[p].kind = "apply" /\ call[p].at = "done" /\ call[p].marker = p => Confirmed(p)
    /\ call[p].kind = "keep" /\ call[p].at = "waiting" => Confirmed(call[p].marker)
    /\ p \in written => Confirmed(p)

\* A marker that is still on its way is of a confirmed change, too.
LateKept == \A e \in late : e.cmd = "keep" => Confirmed(e.marker)

\* A call that has returned does not change.
LEMMA ConfirmedStays ==
  ASSUME Base, [Next]_vars, NEW p \in Procs, call[p].at = "done"
  PROVE  call'[p] = call[p]
<1>1. CASE \/ UNCHANGED vars \/ Waits
           \/ \E e \in late : Late(e)
           \/ \E t \in timers : Wakes(t)
  BY <1>1 DEF vars, clientVars, Waits, Tick, Wakes, RevertWakes, Late, Reaches
<1>2. CASE Callers
  BY <1>2, EnterFacts
<1>3. ASSUME NEW q \in Procs, Works(q) PROVE call'[p] = call[p]
  BY <1>3, WorksCases, OneCommandFacts, lockAddrFacts, armCmdFacts, GoesOnCalls, LeavesCalls
     DEF GoesOn, Running, Commands
<1> QED BY <1>1, <1>2, <1>3 DEF Next

LEMMA KeptStep ==
  ASSUME Base, HistoryOK, KeptInv, LateKept, [Next]_vars
  PROVE  KeptInv'
<1>1. \A m \in Procs : Confirmed(m) => call'[m] = call[m]
  BY ConfirmedStays DEF Confirmed
<1>2. \A m \in Procs : call[m].kind = "keep" /\ call[m].at = "waiting" => call[m].marker \in Procs
  BY DEF Base, CallInv
<1>3. CASE UNCHANGED vars \/ Waits \/ \E t \in timers : Wakes(t)
  BY <1>3 DEF vars, clientVars, Waits, Tick, Wakes, RevertWakes, device, KeptInv, Confirmed
<1>4. CASE Callers
  <2>1. PICK p \in Procs :
          /\ call[p].at = "idle" /\ call'[p].at = "waiting"
          /\ \A q \in Procs : q # p => call'[q] = call[q]
          /\ call'[p].kind = "keep" =>
               LET m == call'[p].marker IN
               /\ m \in Procs /\ call[m].at = "done"
               /\ call[m].kind = "apply" /\ call[m].marker = m
          /\ written' = written
    BY <1>4, EnterFacts
  <2> QED BY <1>1, <1>2, <2>1 DEF KeptInv, Confirmed
<1>5. ASSUME NEW p \in Procs, Works(p) PROVE KeptInv'
  <2>1. CASE KeepExitNode(p) \/ KeepExitNodeLost(p) \/ Status(p) \/ OneCommandFails(p)
    <3>1. \A q \in Procs : q \in written' => Confirmed(q)
      BY <2>1, OneCommandFacts DEF KeptInv
    <3> QED BY <1>1, <1>2, <2>1, <3>1, OneCommandFacts DEF KeptInv, Confirmed
  <2>2. CASE lockAddr(p)
    BY <1>1, <1>2, <2>2, lockAddrFacts DEF KeptInv, Confirmed
  <2>3. CASE armCmd(p)
    BY <1>1, <1>2, <2>3, armCmdFacts DEF KeptInv, Confirmed
  <2>4. CASE GoesOn(p)
    BY <1>1, <1>2, <2>4, GoesOnCalls DEF KeptInv, Confirmed
  <2>5. CASE Leaves(p)
    <3>1. call'[p].marker = p \/ p \in written' => call'[p].seen = call'[p].target
      BY <2>5, LeavesCalls DEF KeptInv, Confirmed, Running, Commands
    <3> QED BY <1>1, <1>2, <2>5, <3>1, LeavesCalls DEF KeptInv, Confirmed
  <2> QED BY <1>5, <2>1, <2>2, <2>3, <2>4, <2>5, WorksCases DEF GoesOn
<1>6. ASSUME NEW e \in late, Late(e) PROVE KeptInv'
  <2>1. call' = call
    BY <1>6 DEF Late, Reaches
  <2>2. e.cmd \in {"arm", "apply", "keep"}
    BY TimeTypes
  <2>3. written' = written \/ (e.cmd = "keep" /\ written' = written \cup {e.marker})
    BY <1>6, <2>2 DEF Late, Reaches
  <2> QED BY <2>1, <2>3 DEF KeptInv, LateKept, Confirmed
<1> QED BY <1>3, <1>4, <1>5, <1>6 DEF Next

LEMMA LateKeptStep ==
  ASSUME Base, HistoryOK, KeptInv, LateKept, [Next]_vars
  PROVE  LateKept'
<1>1. \A m \in Procs : Confirmed(m) => Confirmed(m)'
  BY ConfirmedStays DEF Confirmed
<1>2. late' \subseteq late => LateKept'
  BY <1>1, TimeTypes DEF LateKept
<1>3. ASSUME NEW p \in Procs, Works(p), TransportFails(p) \/ OneCommandFails(p)
      PROVE  LateKept'
  <2>1. \A e \in OnItsWay(p) : e.cmd = "keep" =>
          /\ e.marker = call[p].marker
          /\ call[p].at = "keep" \/ call[p].kind = "keep"
    BY DEF OnItsWay
  <2>2. ASSUME NEW m \in Procs, m = call[p].marker,
               call[p].at = "keep" \/ call[p].kind = "keep"
        PROVE  Confirmed(m)'
    <3>1. CASE TransportFails(p)
      <4>1. /\ call[p].kind = "apply" /\ call[p].at # "done" /\ call[p].marker = p
            /\ call'[p].kind = "apply" /\ call'[p].at = "done"
            /\ call'[p].target = call[p].target
            /\ call[p].at = "keep" => call'[p].seen = call[p].seen
        BY <3>1, LeavesCalls DEF Leaves, Running, Commands, Base, CallInv
      <4> QED BY <2>2, <4>1 DEF KeptInv, Confirmed
    <3>2. CASE OneCommandFails(p)
      <4>1. call[p].at = "waiting"
        BY <3>2 DEF OneCommandFails, HasLock
      <4>2. Confirmed(m)
        BY <2>2, <4>1 DEF KeptInv
      <4> QED BY <1>1, <4>2
    <3> QED BY <1>3, <3>1, <3>2
  <2>3. late' \subseteq late \cup OnItsWay(p)
    BY <1>3 DEF Works
  <2>4. \A e \in late : e.cmd = "keep" => Confirmed(e.marker)'
    BY <1>1, TimeTypes DEF LateKept
  <2>5. OnItsWay(p) \subseteq Effect
    BY <1>3, OnItsWayType
  <2>6. \A e \in OnItsWay(p) : e.cmd = "keep" => Confirmed(e.marker)'
    BY <2>1, <2>2, <2>5 DEF Effect
  <2> QED BY <2>3, <2>4, <2>6 DEF LateKept
<1>4. \/ late' \subseteq late
      \/ \E p \in Procs : Works(p) /\ (TransportFails(p) \/ OneCommandFails(p))
  BY DEF Next, vars, Callers, CallApply, CallStatus, CallKeep, Enter, Works, Late, Waits, Wakes
<1> QED BY <1>2, <1>3, <1>4

\* A change is made permanent only after the router was read back with the
\* target selected, whoever writes the marker and whenever.
THEOREM KeptChangesConfirmed == Spec => []KeptOnlyIfConfirmed
<1>1. Init => KeptInv
  BY DEF Init, ClientInit, NoCall, KeptInv
<1>2. Init => LateKept
  BY DEF Init, LateKept
<1>3. Base /\ KeptInv => KeptOnlyIfConfirmed
  BY DEF Base, TypeOK, KeptInv, Confirmed, KeptOnlyIfConfirmed
<1>4. Base /\ HistoryOK /\ KeptInv /\ LateKept /\ [Next]_vars => KeptInv' /\ LateKept'
  BY KeptStep, LateKeptStep
<1> QED BY <1>1, <1>2, <1>3, <1>4, BaseHolds, PTL DEF Spec
=============================================================================
