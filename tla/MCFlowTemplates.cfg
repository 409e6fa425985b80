SPECIFICATION Spec
CONSTANTS
  netflow = netflow
  ipfix = ipfix
  v9a = v9a
  ipfixA = ipfixA
  t1 = t1
  t2 = t2
  TemplateIds = {t1, t2}
  Listeners <- MCListeners
  Scopes <- MCScopes
  ListenerOf <- MCListenerOf
  Datagrams <- MCDatagrams
  MaxSets = 3
  MaxPackets = 3
  MaxClock = 2
  TemplateTTL = 1
  OrphanTTL = 1
  TemplateLimit = 1
  OrphanLimit = 1
INVARIANTS
  TypeOK
  DecodedAtMostOnce
  NoStrandedOrphan
  WithinLimits
PROPERTIES
  DropsAreJustified
  DeliversOrDrops
