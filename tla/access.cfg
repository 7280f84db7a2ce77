CONSTANTS
  Zones = {z1, z2}
  Guests = {"g1"}
  Zone <- MCZone
  Routers = {"r1", "r2"}
  Exits = {"x1", "x2"}
  Browsers = {b}
  Requests = {p, q}
  Clear = "clear"
  None = None
  Deleted = Deleted
  MaxRestarts = 1
SYMMETRY Symmetry
SPECIFICATION Spec
INVARIANTS
  AccessTypeOK
  GuestActsInZone
  GuestSeesZone
  ZonesPublished
