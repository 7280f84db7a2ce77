-------------------------- MODULE MCExitNodeSwitch --------------------------
(* ExitNodeSwitch for TLC.                                                 *)
EXTENDS ExitNodeSwitch

\* Every set asks for an exit node and takes the router to be on none before it.
MCTargets == Exits
MCPrevs == {Direct}
=============================================================================
