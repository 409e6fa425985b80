SPECIFICATION Spec
CONSTANTS
  a = a
  b = b
  c = c
  x = x
  Addresses <- MCAddresses
  Texts = {x}
  Hits <- MCHits
  Tabs = {"Dashboard", "Devices", "Interfaces", "Traffic", "Alerts"}
  Concurrency = 2
  Budgets <- MCBudgets
  AlertLimit = 2
  RecentLimit = 1
CHECK_DEADLOCK FALSE
INVARIANTS
  TypeOK
  InterfacesOfSelected
  PanicsOnlyAfterRemoval
PROPERTIES
  ScanRegistersAndPolls
  SelectedAlertStays
  TasksEnd
