SPECIFICATION FairSpec
CONSTANTS
  d1 = d1
  d2 = d2
  c1 = c1
  c2 = c2
  c3 = c3
  None = None
  Stale = Stale
  Probe = Probe
  Partial = Partial
  DaemonMode <- DaemonModes
  Policy <- Policies
  ClientMode <- AllEnforce
  Daemons = {d1, d2}
  Clients = {c2}
  EngineFaults = {"raises"}
  Strangers = {}
  Fallback = {c2}
  Stdin = {c2}
  Backlog = 0
  MaxStarts <- Restarts
PROPERTIES
  EveryRequestEnds
  ServerNeverWedged
  SignalledDaemonStops
  LoneStartServes
CHECK_DEADLOCK FALSE
