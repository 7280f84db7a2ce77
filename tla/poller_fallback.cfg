CONSTANTS
  Routers = {r1}
  Exits = {x}
  Direct = Direct
  StartSel = {Direct}
  Ops = {o1, o2}
  PollLoop = PollLoop
  Procs <- MCProcs
  Nobody = Nobody
  Window = 0
  MaxClock = 0
  Mode = "fallback"
  RequireKeep = TRUE
  EgressCheck = TRUE
  Allowed <- AllAllowed
  Netmaps <- Coming
  MaxRestarts = 1
  Targets = {Direct, x}
  Requests = {"set", "keep"}
  MaxFaults = 0
SPECIFICATION SafeSpec
SYMMETRY OpSymmetry
INVARIANTS
  NoLeakedTimer
  GateIsLive
CHECK_DEADLOCK FALSE
