SPECIFICATION Spec
CONSTANTS
  d1 = d1
  d2 = d2
  c1 = c1
  c2 = c2
  c3 = c3
  None = None
  Stale = Stale
  Probe = Probe
  Partial = Partial
  DaemonMode <- DaemonModes
  Policy <- Policies
  ClientMode <- AllEnforce
  Daemons = {d1, d2}
  Clients = {c1, c2, c3}
  EngineFaults = {"missing"}
  Strangers = {c3}
  Fallback = {c1}
  Stdin = {c3}
  Backlog = 0
  MaxStarts <- Once
INVARIANTS
  EnforceNeverFailsOpen
  OnlyTheOwnerIsServed
  ShutdownIsNeverLost
  OneHolder
PROPERTIES
  ImplementsService
CHECK_DEADLOCK FALSE
