SPECIFICATION Spec
CONSTANTS
  Thread = {mm, dn}
  MaxFailures = 3
INVARIANTS
  TypeOK
  OpenIsTimed
  CountMatchesState
PROPERTIES
  PhaseOrder
