---------------------------- MODULE RouterClient ----------------------------
(***************************************************************************)
(* internal/router/router.go: the client that runs commands on a router    *)
(* over SSH, together with the router it runs them on.                     *)
(*                                                                         *)
(* A process is one goroutine.  It is in at most one client method at a    *)
(* time and runs ApplyExitNode at most once, so the process names the      *)
(* keep-marker that ApplyExitNode makes (newMarker gives every operation   *)
(* its own path).                                                          *)
(*                                                                         *)
(* A command answers, exits non-zero (CommandError, no effect on the       *)
(* router), or meets a transport error, before or after its effect.        *)
(* ApplyExitNode holds the router's lock over four commands and is         *)
(* modelled command by command.  The other methods hold it for one         *)
(* command: they wait for the lock and take their effect in one step, as   *)
(* the time they hold it is not distinguishable from waiting for it or     *)
(* from handling the result.                                               *)
(*                                                                         *)
(* The router is external to the repository: it is modelled from the       *)
(* shell commands armCmd, applyCmd, keepCmd and statusCmd send to it.      *)
(***************************************************************************)
EXTENDS Integers, FiniteSets

CONSTANTS
  Routers,      \* addresses the client can dial
  Exits,        \* exit nodes a router can select
  Direct,       \* no exit node selected
  StartSel,     \* selections a router may start with
  Procs,        \* goroutines that call the client
  Nobody,       \* no process, no router
  Window,       \* revertWindowSeconds
  MaxClock      \* bound of the model: the clock goes on only while it is
                \* below MaxClock or a revert has not been overdue

Selections == Exits \cup {Direct}

ASSUME NobodyAssumption == Nobody \notin Procs /\ Nobody \notin Routers
ASSUME SelectionAssumption == Direct \notin Exits /\ StartSel \subseteq Selections
ASSUME TimeAssumption == Window \in Nat /\ MaxClock \in Nat

VARIABLES
  clock,     \* time, on the router and on the client
  sel,       \* sel[r]: the exit node router r has selected
  timers,    \* the sleeping revert shells
  written,   \* markers present on their router
  fired,     \* markers whose revert ran `tailscale set --exit-node=prev`
  lock,      \* lock[r]: the process that holds router r's mutex
  call       \* call[p]: the client method process p is in

device == <<sel, timers, written, fired>>
clientVars == <<clock, device, lock, call>>

\* Commands of ApplyExitNode; "armed" is the arm command that has taken
\* effect and not yet answered (its timer counts from the effect).
Commands == {"arm", "armed", "apply", "confirm", "keep"}
Errors == {"none", "command", "transport", "mismatch"}

Timer == [marker : Procs, router : Routers, prev : Selections, due : Nat]

Call ==
  [kind   : {"none", "apply", "keep", "read"},
   at     : {"idle", "waiting", "done"} \cup Commands,
   router : Routers \cup {Nobody},
   target : Selections,
   prev   : Selections,
   auto   : BOOLEAN,                   \* autoKeep
   marker : Procs \cup {Nobody},       \* marker to write, or returned
   seen   : Selections,                \* rt.Current
   online : BOOLEAN,                   \* rt.Online
   err    : Errors]

NoCall ==
  [kind |-> "none", at |-> "idle", router |-> Nobody, target |-> Direct,
   prev |-> Direct, auto |-> FALSE, marker |-> Nobody,
   seen |-> Direct, online |-> FALSE, err |-> "none"]

Running(p) == call[p].at \in Commands
Returned(p) == call[p].at = "done"

TypeOK ==
  /\ clock \in Nat
  /\ sel \in [Routers -> Selections]
  /\ timers \subseteq Timer
  /\ written \subseteq Procs
  /\ fired \subseteq Procs
  /\ lock \in [Routers -> Procs \cup {Nobody}]
  /\ call \in [Procs -> Call]

ClientInit ==
  /\ clock = 0
  /\ sel \in [Routers -> StartSel]
  /\ timers = {}
  /\ written = {}
  /\ fired = {}
  /\ lock = [r \in Routers |-> Nobody]
  /\ call = [p \in Procs |-> NoCall]

-----------------------------------------------------------------------------
(* Entering a client method.  The argument checks of ApplyExitNode are     *)
(* pure and the addresses come from the netmap, so they pass.              *)

ApplyCall(p, r, target, prev, auto) ==
  [NoCall EXCEPT !.kind = "apply", !.at = "waiting", !.router = r,
                 !.target = target, !.prev = prev, !.auto = auto,
                 !.marker = p]

\* Fault: the marker is not handed on.
KeepCall_NoMarker(r, m) ==
  [NoCall EXCEPT !.kind = "keep", !.at = "waiting", !.router = r]

KeepCall(r, m) ==
  [NoCall EXCEPT !.kind = "keep", !.at = "waiting", !.router = r,
                 !.marker = m]

\* Status, Probe and EgressProbe: one command that changes nothing.
ReadCall(r) ==
  [NoCall EXCEPT !.kind = "read", !.at = "waiting", !.router = r]

\* Fault: commands to one router are not serialized.
Unlocked_Always(r) == TRUE


Unlocked(r) == lock[r] = Nobody

\* p may start its command: it has waited for the lock of its router.
HasLock(p, kind) ==
  /\ call[p].at = "waiting" /\ call[p].kind = kind
  /\ Unlocked(call[p].router)

\* Leave the method with these values.
Return(p, seen, online, marker, err) ==
  call' = [call EXCEPT ![p] = [@ EXCEPT !.at = "done", !.seen = seen,
                                        !.online = online, !.marker = marker,
                                        !.err = err]]

-----------------------------------------------------------------------------
(* The methods that run one command.                                       *)

KeepExitNode(p) ==
  /\ HasLock(p, "keep")
  /\ written' = written \cup {call[p].marker}
  /\ Return(p, Direct, FALSE, Nobody, "none")
  /\ UNCHANGED <<clock, sel, timers, fired, lock>>

KeepExitNodeLost(p) ==
  /\ HasLock(p, "keep")
  /\ written' = written \cup {call[p].marker}
  /\ Return(p, Direct, FALSE, Nobody, "transport")
  /\ UNCHANGED <<clock, sel, timers, fired, lock>>

Status(p) ==
  /\ HasLock(p, "read")
  /\ Return(p, sel[call[p].router], FALSE, Nobody, "none")
  /\ UNCHANGED <<clock, device, lock>>

\* Their callers do not tell a non-zero exit from a transport error.
OneCommandFails(p) ==
  /\ HasLock(p, "keep") \/ HasLock(p, "read")
  /\ Return(p, Direct, FALSE, Nobody, "transport")
  /\ UNCHANGED <<clock, device, lock>>

-----------------------------------------------------------------------------
(* ApplyExitNode                                                           *)

\* Fault: the change is applied before its revert is armed.
FirstCommand_Apply == "apply"

FirstCommand == "arm"

\* p's next command starts; seen is the runtime read so far.
Starts(p, cmd, seen) ==
  call' = [call EXCEPT ![p] = [@ EXCEPT !.at = cmd, !.seen = seen]]

lockAddr(p) ==
  /\ HasLock(p, "apply")
  /\ lock' = [lock EXCEPT ![call[p].router] = p]
  /\ Starts(p, FirstCommand, call[p].seen)
  /\ UNCHANGED <<clock, device>>

NextCommand(p, cmd, seen) == Starts(p, cmd, seen) /\ UNCHANGED lock

\* Return from ApplyExitNode: the deferred unlock.
Finish(p, seen, online, marker, err) ==
  /\ lock' = [lock EXCEPT ![call[p].router] = Nobody]
  /\ Return(p, seen, online, marker, err)

\* Fault: the revert shell dies with its session (no nohup).
armCmd_NoTimer(p) ==
  /\ call[p].at = "arm"
  /\ call' = [call EXCEPT ![p].at = "armed"]
  /\ UNCHANGED <<clock, device, lock>>

armCmd(p) ==
  LET c == call[p] IN
  /\ c.at = "arm"
  /\ timers' = timers \cup {[marker |-> p, router |-> c.router,
                             prev |-> c.prev, due |-> clock + Window]}
  /\ call' = [call EXCEPT ![p].at = "armed"]
  /\ UNCHANGED <<clock, sel, written, fired, lock>>

Armed(p) ==
  /\ call[p].at = "armed"
  /\ NextCommand(p, "apply", call[p].seen)
  /\ UNCHANGED <<clock, device>>

Select(p) ==
  /\ call[p].at = "apply"
  /\ sel' = [sel EXCEPT ![call[p].router] = call[p].target]
  /\ UNCHANGED <<clock, timers, written, fired>>

applyCmd(p) == Select(p) /\ NextCommand(p, "confirm", call[p].seen)
applyCmdLost(p) == Select(p) /\ Finish(p, Direct, FALSE, Nobody, "transport")

\* The confirm read, through status, the unlocked core of Status.
Confirming(p) == call[p].at = "confirm" /\ UNCHANGED <<clock, device>>

\* Fault: the selection that was read is not compared with the target.
confirmed_Any(p) == TRUE

confirmed(p) == sel[call[p].router] = call[p].target

ConfirmedAndHeld(p) ==
  /\ Confirming(p) /\ confirmed(p) /\ ~call[p].auto
  /\ Finish(p, sel[call[p].router], TRUE, p, "none")

ConfirmedAndKeeping(p) ==
  /\ Confirming(p) /\ confirmed(p) /\ call[p].auto
  /\ NextCommand(p, "keep", sel[call[p].router])

\* Whether the router calls itself online is the router's to say.
NotConfirmed(p) ==
  /\ Confirming(p) /\ ~confirmed(p)
  /\ \E online \in BOOLEAN :
       Finish(p, sel[call[p].router], online, Nobody, "mismatch")

WriteMarker(p) ==
  /\ call[p].at = "keep"
  /\ written' = written \cup {call[p].marker}
  /\ UNCHANGED <<clock, sel, timers, fired>>

keepCmd(p) == WriteMarker(p) /\ Finish(p, call[p].seen, TRUE, Nobody, "none")
keepCmdLost(p) ==
  /\ WriteMarker(p)
  /\ \E online \in BOOLEAN : Finish(p, call[p].seen, online, Nobody, "transport")

\* An error after the confirm read comes with the runtime that was read.
ApplyFails(p, err) ==
  /\ \E online \in IF call[p].at = "keep" THEN BOOLEAN ELSE {FALSE} :
       Finish(p, call[p].seen, online, Nobody, err)
  /\ UNCHANGED <<clock, device>>

\* A command of the sequence ran and exited non-zero.
CommandExits(p) ==
  /\ Running(p) /\ call[p].at # "armed"
  /\ ApplyFails(p, "command")

\* Dial, handshake, session or deadline error, a cancelled request context,
\* output past the cap or a status that does not parse.  The command may still
\* be on its way to the router: see Reaches.
TransportFails(p) == Running(p) /\ ApplyFails(p, "transport")

-----------------------------------------------------------------------------
(* Commands the client gave up on.  Closing the session does not take back *)
(* what was sent: the router may run the command later.                    *)

Effect == [cmd : {"arm", "apply", "keep"}, marker : Procs, router : Routers,
           sel : Selections]

\* What is on its way to the router when p meets a transport error.
OnItsWay(p) ==
  LET c == call[p]
      effect(cmd, m, to) == [cmd |-> cmd, marker |-> m, router |-> c.router, sel |-> to] IN
  CASE c.at = "arm" -> {effect("arm", p, c.prev)}
    [] c.at = "apply" -> {effect("apply", p, c.target)}
    [] c.at = "keep" \/ c.kind = "keep" -> {effect("keep", c.marker, Direct)}
    [] OTHER -> {}

Reaches(e) ==
  /\ CASE e.cmd = "arm" ->
            /\ timers' = timers \cup {[marker |-> e.marker, router |-> e.router,
                                       prev |-> e.sel, due |-> clock + Window]}
            /\ UNCHANGED <<sel, written>>
       [] e.cmd = "apply" ->
            /\ sel' = [sel EXCEPT ![e.router] = e.sel]
            /\ UNCHANGED <<timers, written>>
       [] e.cmd = "keep" ->
            /\ written' = written \cup {e.marker}
            /\ UNCHANGED <<sel, timers>>
  /\ UNCHANGED <<clock, fired, lock, call>>

-----------------------------------------------------------------------------
(* Time.  No clock bounds a command: runSSH gives the dial and the command *)
(* one timeout and the handshake another, none to NewSession, and when its *)
(* context is done it only asks for the session to be closed; an exit      *)
(* status that arrives late is still the answer.  `sleep` wakes up no      *)
(* earlier than the window.                                                *)

Tick ==
  /\ clock < MaxClock \/ \E t \in timers : clock <= t.due
  /\ clock' = clock + 1
  /\ UNCHANGED <<device, lock, call>>

RevertWakes(t) ==
  /\ clock >= t.due
  /\ timers' = timers \ {t}
  /\ IF t.marker \in written
       THEN UNCHANGED <<sel, fired>>
       ELSE /\ sel' = [sel EXCEPT ![t.router] = t.prev]
            /\ fired' = fired \cup {t.marker}
  /\ UNCHANGED <<clock, written, lock, call>>

-----------------------------------------------------------------------------

ProcStep(p) ==
  \/ KeepExitNode(p) \/ Status(p)
  \/ lockAddr(p)
  \/ armCmd(p) \/ Armed(p)
  \/ applyCmd(p)
  \/ ConfirmedAndHeld(p) \/ ConfirmedAndKeeping(p) \/ NotConfirmed(p)
  \/ keepCmd(p)

Fault(p) ==
  \/ KeepExitNodeLost(p) \/ OneCommandFails(p)
  \/ applyCmdLost(p) \/ keepCmdLost(p)
  \/ CommandExits(p) \/ TransportFails(p)

\* What happens without the client.
RouterStep == Tick \/ \E t \in timers : RevertWakes(t)

=============================================================================
