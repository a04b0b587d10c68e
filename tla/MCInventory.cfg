CONSTANTS
  Tools <- MCTools
  Versions = {"v1", "v2"}
  Surface <- MCSurface
  Place <- MCPlace
  Lists <- MCLists
  Catalogs <- MCCatalogs
  MaxHeld = 1
  Sessions = {s1}
  Operators = {o1}
  Registrars = {r1}
  Policies <- MCPolicies
  CasLosses = 1
  MaxBusy = 2
  MaxUpdates = 4
SPECIFICATION FairInventorySpec
INVARIANTS HeldAgainstApproval HeldUntilReleased NothingInherited
PROPERTIES UpdatesAreAtomic RulingsEnd
