SPECIFICATION Spec
CONSTANTS
  web = web
  tui = tui
  router = router
  k1 = k1
  k2 = k2
  k3 = k3
  ko = ko
  Processes = {web}
  Rows = {router}
  Keys = {k1, k2, k3, ko}
  Overrides = {ko}
  PowerFails = TRUE
SYMMETRY KeySymmetry
INVARIANTS
  KeyKeptWithData
  CleanupRemembered
PROPERTIES
  KeysAreNotRecreated
