CONSTANTS
  Routers = {r1, r2}
  Exits = {x}
  Direct = Direct
  StartSel = {Direct}
  Targets <- MCTargets
  Prevs <- MCPrevs
  Procs = {p1, p2}
  Nobody = Nobody
  Window = 1
  MaxClock = 0
SPECIFICATION FairSpec
INVARIANTS
  SwitchTypeOK
  OneCommandPerRouter
  SwitchGuardsEveryChange
  KeptOnlyIfConfirmed
PROPERTIES
  ChangeIsSettled
  
CHECK_DEADLOCK FALSE
