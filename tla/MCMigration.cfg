SPECIFICATION Spec
CONSTANTS
  o1 = o1
  o2 = o2
  Holders = {o1, o2}
  MinKey = 1
  MaxKey = 4
  Hash <- MCHash
  PlanCatalogs <- MCPlanCatalogs
  Setups <- MCSetups
  InitKeys = {1, 2, 4}
  ChunkSize = 1
INVARIANTS TypeOK PlanIsExact RoutedIsLatest ScatterAgrees LateRowsBounded
PROPERTIES QuietMigrationFinishes
