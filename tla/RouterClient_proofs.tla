------------------------ MODULE RouterClient_proofs ------------------------
(***************************************************************************)
(* What a step of the router client does, whoever called it: the lemmas    *)
(* that the proofs about the client's callers rest on.                     *)
(***************************************************************************)
EXTENDS RouterClient, TLAPS

\* What a call in progress looks like.
CallInv ==
  \A p \in Procs :
    /\ call[p].at # "idle" => call[p].router \in Routers
    /\ Running(p) => call[p].kind = "apply"
    /\ call[p].at = "keep" => call[p].auto
    /\ call[p].kind = "apply" /\ call[p].at # "done" => call[p].marker = p
    /\ call[p].kind = "keep" /\ call[p].at = "waiting" => call[p].marker \in Procs

ClientInv == TypeOK /\ CallInv

\* A step of process p inside the method it has called.
Works(p) == ProcStep(p) \/ Fault(p)

\* The call keeps its arguments; nobody else's call moves.
KeepsArguments(p) ==
  /\ call' \in [Procs -> Call]
  /\ \A q \in Procs : q # p => call'[q] = call[q]
  /\ call'[p].kind = call[p].kind /\ call'[p].router = call[p].router
  /\ call'[p].target = call[p].target /\ call'[p].auto = call[p].auto

\* One of the methods that run one command: it is over, a keep without an error
\* has written its marker, a read without an error has the selection.
OneCommand(p) ==
  /\ call[p].at = "waiting" /\ call[p].kind \in {"keep", "read"}
  /\ call'[p].at = "done"
  /\ call'[p].err = "none" /\ call[p].kind = "keep" => call[p].marker \in written'
  /\ call'[p].err = "none" /\ call[p].kind = "read" => call'[p].seen = sel[call[p].router]
  /\ written' = written \/ (call[p].kind = "keep" /\ written' = written \cup {call[p].marker})
  /\ UNCHANGED <<sel, timers>>

\* A step of ApplyExitNode: its next command ...
GoesOn(p) ==
  /\ call[p].kind = "apply" /\ call[p].at \in Commands \cup {"waiting"}
  /\ call'[p].at \in Commands \ {call[p].at} /\ call'[p].marker = call[p].marker
  /\ call'[p].at = "keep" => call[p].auto /\ call'[p].seen = sel'[call[p].router]
  /\ call[p].at # "keep"
  /\ written' = written

\* ... or its return: only a success has a marker to hand out, and only one
\* that is not kept automatically.
Returns(p) ==
  /\ call[p].kind = "apply" /\ call[p].at \in Commands
  /\ call'[p].at = "done"
  /\ call'[p].marker \in {p, Nobody}
  /\ call'[p].err # "none" => call'[p].marker = Nobody
  /\ call'[p].err = "none" => IF call[p].auto THEN p \in written' ELSE call'[p].marker = p
  /\ call'[p].err = "none" =>
       /\ sel' = sel
       /\ \/ call'[p].seen = sel[call[p].router]
          \/ call[p].at = "keep" /\ call'[p].seen = call[p].seen
  /\ written' = written \/ written' = written \cup {p}

\* What ApplyExitNode may do to the router meanwhile.
Touches(p) ==
  /\ \/ timers' = timers
     \/ \E prev \in Selections, due \in Nat :
          timers' = timers \cup {[marker |-> p, router |-> call[p].router,
                                  prev |-> prev, due |-> due]}
  /\ \/ sel' = sel
     \/ sel' = [sel EXCEPT ![call[p].router] = call[p].target]

-----------------------------------------------------------------------------

LEMMA ReturnFacts ==
  ASSUME ClientInv, NEW p \in Procs, NEW seen \in Selections, NEW online \in BOOLEAN,
         NEW marker \in Procs \cup {Nobody}, NEW err \in Errors,
         Return(p, seen, online, marker, err)
  PROVE  /\ KeepsArguments(p)
         /\ call'[p].at = "done" /\ call'[p].seen = seen
         /\ call'[p].marker = marker /\ call'[p].err = err
<1>1. call \in [Procs -> Call]
  BY DEF ClientInv, TypeOK
<1> DEFINE d == [call[p] EXCEPT !.at = "done", !.seen = seen,
                               !.online = online, !.marker = marker, !.err = err]
<1>2. d \in Call
  BY <1>1 DEF Call
<1>3. call' = [call EXCEPT ![p] = d]
  BY DEF Return
<1>4. /\ d.at = "done" /\ d.router = call[p].router /\ d.seen = seen
      /\ d.marker = marker /\ d.err = err /\ d.kind = call[p].kind
      /\ d.target = call[p].target /\ d.auto = call[p].auto
  BY <1>1 DEF Call
<1> HIDE DEF d
<1> QED BY <1>1, <1>2, <1>3, <1>4 DEF KeepsArguments

LEMMA StartsFacts ==
  ASSUME ClientInv, NEW p \in Procs, NEW cmd \in Commands, NEW seen \in Selections,
         Starts(p, cmd, seen)
  PROVE  /\ KeepsArguments(p)
         /\ call'[p].at = cmd /\ call'[p].seen = seen
         /\ call'[p].marker = call[p].marker
<1>1. call \in [Procs -> Call] /\ clock \in Nat
  BY DEF ClientInv, TypeOK
<1> DEFINE d == [call[p] EXCEPT !.at = cmd, !.seen = seen]
<1>2. d \in Call
  BY <1>1 DEF Call
<1>3. call' = [call EXCEPT ![p] = d]
  BY DEF Starts
<1>4. /\ d.at = cmd /\ d.router = call[p].router /\ d.seen = seen
      /\ d.marker = call[p].marker /\ d.kind = call[p].kind
      /\ d.target = call[p].target /\ d.auto = call[p].auto
  BY <1>1 DEF Call
<1> HIDE DEF d
<1> QED BY <1>1, <1>2, <1>3, <1>4 DEF KeepsArguments

\* The values a step handles have their types.
LEMMA OwnCall ==
  ASSUME ClientInv, NEW p \in Procs, call[p].at # "idle"
  PROVE  /\ call[p] \in Call /\ call[p].router \in Routers
         /\ call[p].target \in Selections /\ call[p].prev \in Selections
         /\ call[p].seen \in Selections /\ call[p].auto \in BOOLEAN
         /\ sel \in [Routers -> Selections] /\ sel[call[p].router] \in Selections
         /\ Direct \in Selections /\ clock \in Nat
         /\ lock \in [Routers -> Procs \cup {Nobody}]
         /\ Running(p) => call[p].kind = "apply"
         /\ call[p].at = "keep" => call[p].auto
         /\ call[p].kind = "apply" /\ call[p].at # "done" => call[p].marker = p
BY DEF ClientInv, TypeOK, CallInv, Call, Selections

LEMMA OneCommandFacts ==
  ASSUME ClientInv, NEW p \in Procs,
         KeepExitNode(p) \/ KeepExitNodeLost(p) \/ Status(p) \/ OneCommandFails(p)
  PROVE  KeepsArguments(p) /\ OneCommand(p) /\ UNCHANGED <<clock, fired, lock>>
<1>1. call[p].at = "waiting" /\ call[p].kind \in {"keep", "read"}
  BY DEF KeepExitNode, KeepExitNodeLost, Status, OneCommandFails, HasLock
<1>2. sel[call[p].router] \in Selections /\ Direct \in Selections
  BY <1>1, OwnCall
<1>3. UNCHANGED <<clock, fired, lock, sel, timers>>
  BY DEF KeepExitNode, KeepExitNodeLost, Status, OneCommandFails, device
<1>4. CASE KeepExitNode(p) \/ KeepExitNodeLost(p)
  <2>1. call[p].kind = "keep" /\ written' = written \cup {call[p].marker}
    BY <1>4 DEF KeepExitNode, KeepExitNodeLost, HasLock
  <2>2. \E err \in Errors : Return(p, Direct, FALSE, Nobody, err)
    BY <1>4 DEF KeepExitNode, KeepExitNodeLost, Errors
  <2>3. KeepsArguments(p) /\ call'[p].at = "done"
    BY <1>2, <2>2, ReturnFacts
  <2> QED BY <1>1, <1>3, <2>1, <2>3 DEF OneCommand
<1>5. CASE Status(p)
  <2>1. call[p].kind = "read" /\ written' = written
    BY <1>5 DEF Status, HasLock, device
  <2>2. \E seen \in Selections, err \in Errors :
          seen = sel[call[p].router] /\ Return(p, seen, FALSE, Nobody, err)
    BY <1>2, <1>5 DEF Status, Errors
  <2>3. KeepsArguments(p) /\ call'[p].at = "done" /\ call'[p].seen = sel[call[p].router]
    BY <2>2, ReturnFacts
  <2> QED BY <1>1, <1>3, <2>1, <2>3 DEF OneCommand
<1>6. CASE OneCommandFails(p)
  <2>1. written' = written
    BY <1>6 DEF OneCommandFails, device
  <2>2. Return(p, Direct, FALSE, Nobody, "transport") /\ "transport" \in Errors
    BY <1>6 DEF OneCommandFails, Errors
  <2>3. KeepsArguments(p) /\ call'[p].at = "done" /\ call'[p].err = "transport"
    BY <1>2, <2>2, ReturnFacts
  <2> QED BY <1>1, <1>3, <2>1, <2>3 DEF OneCommand
<1> QED BY <1>4, <1>5, <1>6

\* The steps that go on to the next command of ApplyExitNode.
LEMMA GoesOnFacts ==
  ASSUME ClientInv, NEW p \in Procs,
         lockAddr(p) \/ armCmd(p) \/ Armed(p) \/ applyCmd(p) \/ ConfirmedAndKeeping(p)
  PROVE  /\ KeepsArguments(p) /\ GoesOn(p) /\ Touches(p)
         /\ UNCHANGED <<clock, fired>>
         /\ lock' \in [Routers -> Procs \cup {Nobody}]
<1>1. call[p].at # "idle" /\ call[p].at # "keep" /\ call[p].at # "done"
  BY DEF lockAddr, HasLock, armCmd, Armed, applyCmd, Select, ConfirmedAndKeeping, Confirming
<1>2. /\ call[p] \in Call /\ call[p].router \in Routers /\ call[p].target \in Selections
      /\ call[p].prev \in Selections /\ call[p].seen \in Selections
      /\ sel[call[p].router] \in Selections /\ clock \in Nat
      /\ lock \in [Routers -> Procs \cup {Nobody}]
      /\ call[p].at \in Commands => call[p].kind = "apply"
  BY <1>1, OwnCall DEF Running
<1>3. CASE lockAddr(p)
  <2>1. /\ Starts(p, "arm", call[p].seen) /\ "arm" \in Commands
        /\ call[p].at = "waiting" /\ call[p].kind = "apply"
        /\ lock' = [lock EXCEPT ![call[p].router] = p]
        /\ UNCHANGED <<clock, sel, timers, written, fired>>
    BY <1>3 DEF lockAddr, HasLock, FirstCommand, Commands, device
  <2>2. KeepsArguments(p) /\ call'[p].at = "arm" /\ call'[p].marker = call[p].marker
    BY <1>2, <2>1, StartsFacts
  <2> QED BY <1>2, <2>1, <2>2 DEF GoesOn, Touches
<1>4. CASE armCmd(p)
  <2>1. /\ call[p].at = "arm" /\ "arm" \in Commands /\ "armed" \in Commands
        /\ call' = [call EXCEPT ![p].at = "armed"]
        /\ timers' = timers \cup {[marker |-> p, router |-> call[p].router,
                                   prev |-> call[p].prev, due |-> clock + Window]}
        /\ UNCHANGED <<clock, sel, written, fired, lock>>
    BY <1>4 DEF armCmd, Commands
  <2>2. clock + Window \in Nat
    BY <1>2, TimeAssumption
  <2>3. KeepsArguments(p) /\ call'[p].at = "armed" /\ call'[p].marker = call[p].marker
    BY <2>1 DEF KeepsArguments, ClientInv, TypeOK, Call
  <2>4. Touches(p)
    BY <1>2, <2>1, <2>2 DEF Touches
  <2> QED BY <1>2, <2>1, <2>3, <2>4 DEF GoesOn
<1>5. CASE Armed(p)
  <2>1. /\ Starts(p, "apply", call[p].seen) /\ "apply" \in Commands
        /\ call[p].at = "armed" /\ "armed" \in Commands
        /\ UNCHANGED <<clock, sel, timers, written, fired, lock>>
    BY <1>5 DEF Armed, NextCommand, Commands, device
  <2>2. KeepsArguments(p) /\ call'[p].at = "apply" /\ call'[p].marker = call[p].marker
    BY <1>2, <2>1, StartsFacts
  <2> QED BY <1>2, <2>1, <2>2 DEF GoesOn, Touches
<1>6. CASE applyCmd(p)
  <2>1. /\ Starts(p, "confirm", call[p].seen) /\ "confirm" \in Commands
        /\ call[p].at = "apply" /\ "apply" \in Commands
        /\ sel' = [sel EXCEPT ![call[p].router] = call[p].target]
        /\ UNCHANGED <<clock, timers, written, fired, lock>>
    BY <1>6 DEF applyCmd, Select, NextCommand, Commands
  <2>2. KeepsArguments(p) /\ call'[p].at = "confirm" /\ call'[p].marker = call[p].marker
    BY <1>2, <2>1, StartsFacts
  <2> QED BY <1>2, <2>1, <2>2 DEF GoesOn, Touches
<1>7. CASE ConfirmedAndKeeping(p)
  <2>1. /\ Starts(p, "keep", sel[call[p].router]) /\ "keep" \in Commands
        /\ call[p].at = "confirm" /\ "confirm" \in Commands /\ call[p].auto
        /\ UNCHANGED <<clock, sel, timers, written, fired, lock>>
    BY <1>7 DEF ConfirmedAndKeeping, Confirming, NextCommand, Commands, device
  <2>2. /\ KeepsArguments(p) /\ call'[p].at = "keep" /\ call'[p].marker = call[p].marker
        /\ call'[p].seen = sel[call[p].router]
    BY <1>2, <2>1, StartsFacts
  <2> QED BY <1>2, <2>1, <2>2 DEF GoesOn, Touches
<1> QED BY <1>3, <1>4, <1>5, <1>6, <1>7

LEMMA FinishFacts ==
  ASSUME ClientInv, NEW p \in Procs, Running(p), NEW seen \in Selections,
         NEW online \in BOOLEAN, NEW marker \in Procs \cup {Nobody}, NEW err \in Errors,
         Finish(p, seen, online, marker, err)
  PROVE  /\ KeepsArguments(p)
         /\ call'[p].at = "done" /\ call'[p].seen = seen
         /\ call'[p].marker = marker /\ call'[p].err = err
         /\ lock' \in [Routers -> Procs \cup {Nobody}]
<1>1. Return(p, seen, online, marker, err)
  BY DEF Finish
<1>2. lock \in [Routers -> Procs \cup {Nobody}]
  BY DEF ClientInv, TypeOK
<1>3. lock' \in [Routers -> Procs \cup {Nobody}]
  BY <1>2 DEF Finish
<1> QED BY <1>1, <1>3, ReturnFacts

\* The steps that return from ApplyExitNode.
LEMMA ReturnsFacts ==
  ASSUME ClientInv, NEW p \in Procs,
         \/ applyCmdLost(p) \/ ConfirmedAndHeld(p) \/ NotConfirmed(p)
         \/ keepCmd(p) \/ keepCmdLost(p) \/ CommandExits(p) \/ TransportFails(p)
  PROVE  /\ KeepsArguments(p) /\ Returns(p) /\ Touches(p)
         /\ UNCHANGED <<clock, fired>>
         /\ lock' \in [Routers -> Procs \cup {Nobody}]
<1>1. Running(p)
  BY DEF applyCmdLost, Select, ConfirmedAndHeld, NotConfirmed, Confirming, keepCmd,
         keepCmdLost, WriteMarker, CommandExits, TransportFails, Running, Commands
<1>2. /\ call[p].kind = "apply" /\ call[p].at \in Commands /\ call[p].marker = p
      /\ call[p].seen \in Selections /\ sel[call[p].router] \in Selections
      /\ Direct \in Selections /\ Nobody # p
      /\ call[p].auto \in BOOLEAN
  BY <1>1, OwnCall, NobodyAssumption DEF Running, Commands
<1> DEFINE LeavesWith(seen, marker, err) ==
             \E online \in BOOLEAN : Finish(p, seen, online, marker, err)
<1>3. ASSUME NEW seen \in Selections, NEW marker \in {p, Nobody}, NEW err \in Errors,
             LeavesWith(seen, marker, err)
      PROVE  /\ KeepsArguments(p) /\ call'[p].at = "done" /\ call'[p].seen = seen
             /\ call'[p].marker = marker /\ call'[p].err = err
             /\ lock' \in [Routers -> Procs \cup {Nobody}]
  BY <1>1, <1>3, FinishFacts
<1>4. "none" \in Errors /\ "transport" \in Errors /\ "mismatch" \in Errors
      /\ "command" \in Errors
  BY DEF Errors
<1>5. CASE applyCmdLost(p)
  <2>1. /\ LeavesWith(Direct, Nobody, "transport")
        /\ sel' = [sel EXCEPT ![call[p].router] = call[p].target]
        /\ UNCHANGED <<clock, timers, written, fired>>
    BY <1>5 DEF applyCmdLost, Select
  <2> HIDE DEF LeavesWith
  <2>2. /\ KeepsArguments(p) /\ call'[p].at = "done" /\ call'[p].marker = Nobody
        /\ call'[p].err = "transport" /\ lock' \in [Routers -> Procs \cup {Nobody}]
    BY <1>2, <1>3, <1>4, <2>1
  <2> QED BY <1>2, <2>1, <2>2 DEF Returns, Touches
<1>6. CASE ConfirmedAndHeld(p)
  <2>1. /\ \E seen \in Selections : /\ seen = sel[call[p].router]
                                    /\ LeavesWith(seen, p, "none")
        /\ ~call[p].auto
        /\ UNCHANGED <<clock, sel, timers, written, fired>>
    BY <1>2, <1>6 DEF ConfirmedAndHeld, Confirming, device
  <2> HIDE DEF LeavesWith
  <2>2. /\ KeepsArguments(p) /\ call'[p].at = "done" /\ call'[p].marker = p
        /\ call'[p].err = "none" /\ lock' \in [Routers -> Procs \cup {Nobody}]
        /\ call'[p].seen = sel[call[p].router]
    BY <1>3, <1>4, <2>1
  <2> QED BY <1>2, <2>1, <2>2 DEF Returns, Touches
<1>7. CASE NotConfirmed(p)
  <2>1. /\ \E seen \in Selections : LeavesWith(seen, Nobody, "mismatch")
        /\ UNCHANGED <<clock, sel, timers, written, fired>>
    BY <1>2, <1>7 DEF NotConfirmed, Confirming, device
  <2> HIDE DEF LeavesWith
  <2>2. /\ KeepsArguments(p) /\ call'[p].at = "done" /\ call'[p].marker = Nobody
        /\ call'[p].err = "mismatch" /\ lock' \in [Routers -> Procs \cup {Nobody}]
    BY <1>3, <1>4, <2>1
  <2> QED BY <1>2, <2>1, <2>2 DEF Returns, Touches
<1>8. CASE keepCmd(p) \/ keepCmdLost(p)
  <2>1. /\ \E err \in {"none", "transport"} : LeavesWith(call[p].seen, Nobody, err)
        /\ call[p].at = "keep" /\ written' = written \cup {p}
        /\ UNCHANGED <<clock, sel, timers, fired>>
        /\ call[p].auto
    BY <1>1, <1>2, <1>8, OwnCall DEF Running, Commands, keepCmd, keepCmdLost, WriteMarker
  <2> HIDE DEF LeavesWith
  <2>2. /\ KeepsArguments(p) /\ call'[p].at = "done" /\ call'[p].marker = Nobody
        /\ call'[p].err \in {"none", "transport"}
        /\ lock' \in [Routers -> Procs \cup {Nobody}]
        /\ call'[p].seen = call[p].seen
    BY <1>2, <1>3, <1>4, <2>1
  <2> QED BY <1>2, <2>1, <2>2 DEF Returns, Touches
<1>9. CASE CommandExits(p) \/ TransportFails(p)
  <2>1. /\ \E err \in {"command", "transport"} : LeavesWith(call[p].seen, Nobody, err)
        /\ UNCHANGED <<clock, sel, timers, written, fired>>
    BY <1>9 DEF CommandExits, TransportFails, ApplyFails, device
  <2> HIDE DEF LeavesWith
  <2>2. /\ KeepsArguments(p) /\ call'[p].at = "done" /\ call'[p].marker = Nobody
        /\ call'[p].err # "none" /\ lock' \in [Routers -> Procs \cup {Nobody}]
    BY <1>2, <1>3, <1>4, <2>1
  <2> QED BY <1>2, <2>1, <2>2 DEF Returns, Touches
<1> QED BY <1>5, <1>6, <1>7, <1>8, <1>9

\* Whatever step process p takes inside the client.
LEMMA WorksFacts ==
  ASSUME ClientInv, NEW p \in Procs, Works(p)
  PROVE  /\ KeepsArguments(p)
         /\ OneCommand(p) \/ (GoesOn(p) /\ Touches(p)) \/ (Returns(p) /\ Touches(p))
         /\ UNCHANGED <<clock, fired>>
         /\ lock' \in [Routers -> Procs \cup {Nobody}]
<1>0. lock \in [Routers -> Procs \cup {Nobody}]
  BY DEF ClientInv, TypeOK
<1>1. CASE KeepExitNode(p) \/ KeepExitNodeLost(p) \/ Status(p) \/ OneCommandFails(p)
  BY <1>0, <1>1, OneCommandFacts
<1>2. CASE lockAddr(p) \/ armCmd(p) \/ Armed(p) \/ applyCmd(p) \/ ConfirmedAndKeeping(p)
  BY <1>2, GoesOnFacts
<1>3. CASE \/ applyCmdLost(p) \/ ConfirmedAndHeld(p) \/ NotConfirmed(p)
           \/ keepCmd(p) \/ keepCmdLost(p) \/ CommandExits(p) \/ TransportFails(p)
  BY <1>3, ReturnsFacts
<1> QED BY <1>1, <1>2, <1>3 DEF Works, ProcStep, Fault

LEMMA WorksInv ==
  ASSUME ClientInv, NEW p \in Procs, Works(p)
  PROVE  ClientInv'
<1>1. /\ KeepsArguments(p)
      /\ OneCommand(p) \/ (GoesOn(p) /\ Touches(p)) \/ (Returns(p) /\ Touches(p))
      /\ UNCHANGED <<clock, fired>>
      /\ lock' \in [Routers -> Procs \cup {Nobody}]
  BY WorksFacts
<1>2. call[p].at # "idle"
  BY <1>1 DEF OneCommand, GoesOn, Returns, Commands
<1>3. /\ call[p].router \in Routers /\ call[p].target \in Selections
      /\ sel \in [Routers -> Selections]
  BY <1>2, OwnCall
<1>4. sel' \in [Routers -> Selections]
  BY <1>1, <1>3 DEF OneCommand, Touches
<1>5. timers' \subseteq Timer
  <2>1. timers \subseteq Timer
    BY DEF ClientInv, TypeOK
  <2>2. CASE timers' = timers
    BY <2>1, <2>2
  <2>3. ASSUME NEW prev \in Selections, NEW due \in Nat,
               timers' = timers \cup {[marker |-> p, router |-> call[p].router,
                                       prev |-> prev, due |-> due]}
        PROVE  timers' \subseteq Timer
    <3>1. [marker |-> p, router |-> call[p].router, prev |-> prev, due |-> due] \in Timer
      BY <1>3 DEF Timer
    <3> QED BY <2>1, <2>3, <3>1
  <2> QED BY <1>1, <2>2, <2>3 DEF OneCommand, Touches
<1>6. written' \subseteq Procs
  <2>1. written \subseteq Procs
    BY DEF ClientInv, TypeOK
  <2>2. OneCommand(p) /\ call[p].kind = "keep" => call[p].marker \in Procs
    BY DEF OneCommand, ClientInv, CallInv
  <2> QED BY <1>1, <2>1, <2>2 DEF OneCommand, GoesOn, Returns
<1>7. CallInv'
  <2> SUFFICES ASSUME NEW q \in Procs
      PROVE  /\ call'[q].at # "idle" => call'[q].router \in Routers
             /\ call'[q].at \in Commands => call'[q].kind = "apply"
             /\ call'[q].at = "keep" => call'[q].auto
             /\ call'[q].kind = "apply" /\ call'[q].at # "done" => call'[q].marker = q
             /\ call'[q].kind = "keep" /\ call'[q].at = "waiting" => call'[q].marker \in Procs
    BY DEF CallInv, Running
  <2>1. CASE q # p
    BY <1>1, <2>1 DEF KeepsArguments, ClientInv, CallInv, Running
  <2>2. CASE q = p
    BY <1>1, <1>2, <1>3, <2>2
       DEF KeepsArguments, OneCommand, GoesOn, Returns, ClientInv, CallInv, Running, Commands
  <2> QED BY <2>1, <2>2
<1> QED BY <1>1, <1>4, <1>5, <1>6, <1>7 DEF KeepsArguments, ClientInv, TypeOK

\* What happens on a router without the client: time passes or a revert wakes up.
LEMMA RouterFacts ==
  ASSUME ClientInv, RouterStep
  PROVE  /\ UNCHANGED <<written, lock, call>> /\ timers' \subseteq timers
         /\ \/ UNCHANGED <<sel, fired>>
            \/ \E t \in timers : /\ fired' = fired \cup {t.marker}
                                 /\ \A r \in Routers : r # t.router => sel'[r] = sel[r]
         /\ fired \subseteq fired'
         /\ ClientInv'
<1>1. CASE Tick
  BY <1>1 DEF Tick, ClientInv, TypeOK, CallInv, Running, device
<1>2. ASSUME NEW t \in timers, RevertWakes(t)
      PROVE  /\ UNCHANGED <<written, lock, call>> /\ timers' \subseteq timers
             /\ \/ UNCHANGED <<sel, fired>>
                \/ /\ fired' = fired \cup {t.marker}
                   /\ \A r \in Routers : r # t.router => sel'[r] = sel[r]
             /\ fired \subseteq fired'
             /\ ClientInv'
  <2>1. /\ t.marker \in Procs /\ t.prev \in Selections /\ t.router \in Routers
        /\ sel \in [Routers -> Selections] /\ fired \subseteq Procs /\ timers \subseteq Timer
    BY DEF ClientInv, TypeOK, Timer
  <2>2. /\ sel' \in [Routers -> Selections] /\ fired' \subseteq Procs /\ timers' \subseteq Timer
    BY <1>2, <2>1 DEF RevertWakes
  <2>3. ClientInv'
    BY <1>2, <2>2 DEF RevertWakes, ClientInv, TypeOK, CallInv, Running
  <2> QED BY <1>2, <2>1, <2>3 DEF RevertWakes
<1> QED BY <1>1, <1>2 DEF RouterStep
=============================================================================
