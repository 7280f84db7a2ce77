CONSTANTS
  Routers = {r1}
  Exits = {x}
  Direct = Direct
  StartSel = {Direct}
  Ops = {o1, o2}
  PollLoop = PollLoop
  Procs <- MCProcs
  Nobody = Nobody
  Window = 0
  MaxClock = 0
  Mode = "tagged"
  RequireKeep = TRUE
  EgressCheck = FALSE
  Allowed <- AllAllowed
  Netmaps <- Online
  MaxRestarts = 0
  Targets = {x}
  Requests = {"set", "keep"}
  MaxFaults = 1
SPECIFICATION SafeSpec
SYMMETRY OpSymmetry
INVARIANTS
  PollerTypeOK
  AwaitingHasGate
  NoSuccessWhileGated
  NoLeakedTimer
PROPERTY OnlyKeepKeeps
CHECK_DEADLOCK FALSE
