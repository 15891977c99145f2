SPECIFICATION Spec
CONSTANTS
  Thread = {mm, dn}
  MaxFailures = 1
INVARIANTS
  AtMostOneCanary
