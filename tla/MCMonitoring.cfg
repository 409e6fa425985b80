SPECIFICATION Spec
CONSTANTS
  router = router
  switch = switch
  Devices = {router, switch}
  MaxId = 2
  MaxRestarts = 0
  MaxMisses = 0
SYMMETRY Symmetry
CHECK_DEADLOCK FALSE
INVARIANTS
  TypeOK
  IdsIdentifyDevices
