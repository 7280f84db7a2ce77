--------------------------- MODULE ExitNodeSwitch ---------------------------
(***************************************************************************)
(* The dead-man's-switch on its own: the router client under arbitrary     *)
(* callers.  Any process may call ApplyExitNode with any target and any    *)
(* previous selection, Status, or KeepExitNode with a marker that some     *)
(* ApplyExitNode returned.  What holds here holds whatever the poller      *)
(* asks of the client, and with commands that reach the router after the   *)
(* client gave up on them.                                                 *)
(***************************************************************************)
EXTENDS RouterClient

CONSTANTS
  Targets,   \* bounds of the model: selections asked for, and
  Prevs      \* selections handed over as the previous one

ASSUME CallersAssumption == Targets \subseteq Selections /\ Prevs \subseteq Selections

VARIABLES
  late,       \* commands the client gave up on that may still reach the router
  deadline,   \* history: when the revert of p is due (Unarmed if never armed)
  changed,    \* history: processes whose apply took effect before their deadline
  undone      \* history: of these, the ones whose revert ran afterwards

history == <<deadline, changed, undone>>
vars == <<clientVars, late, history>>

Unarmed == -1

Init ==
  /\ ClientInit
  /\ late = {}
  /\ deadline = [p \in Procs |-> Unarmed]
  /\ changed = {}
  /\ undone = {}

-----------------------------------------------------------------------------
(* What the history records of a command that takes effect.                *)

InTime(p) == deadline[p] = Unarmed \/ clock < deadline[p]

Records(p, arms, applies) ==
  /\ deadline' = IF arms THEN [deadline EXCEPT ![p] = clock + Window] ELSE deadline
  /\ changed' = IF applies /\ InTime(p) THEN changed \cup {p} ELSE changed
  /\ UNCHANGED undone

-----------------------------------------------------------------------------
(* A process makes one call; two calls in a row are two processes.         *)

Enter(p, c) ==
  /\ call[p].at = "idle"
  /\ call' = [call EXCEPT ![p] = c]
  /\ UNCHANGED <<clock, device, lock, late, history>>

CallApply(p, r, target, prev, auto) == Enter(p, ApplyCall(p, r, target, prev, auto))

CallStatus(p, r) == Enter(p, ReadCall(r))

\* m: a process whose ApplyExitNode returned its marker.
CallKeep(p, m) ==
  /\ Returned(m) /\ call[m].kind = "apply" /\ call[m].marker = m
  /\ Enter(p, KeepCall(call[m].router, m))

Callers ==
  \E p \in Procs :
    \/ \E r \in Routers, target \in Targets, prev \in Prevs, auto \in BOOLEAN :
         CallApply(p, r, target, prev, auto)
    \/ \E r \in Routers : CallStatus(p, r)
    \/ \E m \in Procs : CallKeep(p, m)

Works(p) ==
  /\ ProcStep(p) \/ Fault(p)
  /\ late' = IF TransportFails(p) \/ OneCommandFails(p) THEN late \cup OnItsWay(p) ELSE late
  /\ Records(p, armCmd(p), Select(p))

Late(e) ==
  /\ Reaches(e)
  /\ late' = late \ {e}
  /\ Records(e.marker, e.cmd = "arm", e.cmd = "apply")

Waits == Tick /\ UNCHANGED <<late, history>>

Wakes(t) ==
  /\ RevertWakes(t)
  /\ undone' = undone \cup (({t.marker} \cap changed) \ written)
  /\ UNCHANGED <<late, deadline, changed>>

Next ==
  \/ Callers
  \/ \E p \in Procs : Works(p)
  \/ \E e \in late : Late(e)
  \/ Waits
  \/ \E t \in timers : Wakes(t)

Spec == Init /\ [][Next]_vars

\* What goes on by itself: time passes, a sleeping shell wakes up, and a mutex
\* that is free goes to a goroutine that waits for it.  A command need not end
\* (runSSH bounds neither NewSession nor a session whose peer is silent), and
\* callers need not call.
Fairness ==
  /\ WF_vars(Waits)
  /\ WF_vars(\E t \in timers : Wakes(t))
  /\ \A p \in Procs : WF_vars(lockAddr(p) /\ Works(p))

FairSpec == Spec /\ Fairness

-----------------------------------------------------------------------------
(* Properties                                                              *)

\* Types: in particular a KeepExitNode always has a marker to write, the one an
\* ApplyExitNode made.
SwitchTypeOK ==
  /\ TypeOK
  /\ late \subseteq Effect
  /\ deadline \in [Procs -> Nat \cup {Unarmed}]
  /\ changed \subseteq Procs
  /\ undone \subseteq Procs

Sleeping(p) == \E t \in timers : t.marker = p

\* The client never has two commands in flight on one router (lockAddr: the
\* keyed mutex covers the whole of ApplyExitNode).
OneCommandPerRouter ==
  \A p, q \in Procs :
    Running(p) /\ Running(q) /\ call[p].router = call[q].router => p = q

\* Whatever fails, and whenever: a change that ApplyExitNode made less than a
\* window after it armed the revert, or without arming it, has its revert asleep,
\* or is kept, or was undone after it was made.  A command that takes longer than
\* the window can make a change its revert was too early for; the code does not
\* rule that out, and nothing is claimed of it.
SwitchGuardsEveryChange ==
  \A p \in changed : Sleeping(p) \/ p \in written \/ p \in undone

\* A change is made permanent only after the router was read back with the
\* target selected: whatever failed before the confirm read, in it or because
\* of it, no marker is written and the revert stays armed.
KeptOnlyIfConfirmed ==
  \A p \in written : call[p].kind = "apply" /\ call[p].seen = call[p].target

\* A change made in time is settled: kept, or undone by the router itself, even
\* if the command that follows never ends and the client never gets through
\* again.
ChangeIsSettled ==
  \A p \in Procs : p \in changed ~> p \in written \/ p \in undone

=============================================================================
