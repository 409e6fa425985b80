SPECIFICATION Spec
CONSTANTS
  web = web
  tui = tui
  router = router
  k1 = k1
  k2 = k2
  k3 = k3
  ko = ko
  Processes = {web, tui}
  Rows = {router}
  Keys = {k1, k2, k3, ko}
  Overrides = {ko}
  PowerFails = FALSE
SYMMETRY Symmetry
INVARIANTS
  TypeOK
  OneKey
  OpenedClean
