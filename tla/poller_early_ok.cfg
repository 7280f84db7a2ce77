CONSTANTS
  Routers = {r1}
  Exits = {x}
  Direct = Direct
  StartSel = {Direct}
  Ops = {o1}
  PollLoop = PollLoop
  Procs <- MCProcs
  Nobody = Nobody
  Window = 1
  MaxClock = 0
  Mode = "tagged"
  RequireKeep = TRUE
  EgressCheck = TRUE
  Allowed <- AllAllowed
  Netmaps <- Online
  MaxRestarts = 0
  Targets = {Direct, x}
  Requests = {"set"}
  MaxFaults = 0
SPECIFICATION SafeSpec
SYMMETRY OpSymmetry
INVARIANT OkMeansKept
CHECK_DEADLOCK FALSE
