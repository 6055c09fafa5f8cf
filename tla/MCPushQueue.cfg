SPECIFICATION Spec
CONSTANTS
  kitchen = kitchen
  bar = bar
  soup = soup
  stew = stew
  http = http
  poller = poller
  None = None
  MACs = {kitchen, bar}
  Bindings = {soup, stew}
  Callers = {http, poller}
INVARIANTS
  TypeOK
  QueueShape
  NoLostWakeup
  LatestWins
  StatusSettles
PROPERTIES
  FirstComeFirstServed
  NoTagStarves
  ImplementsCoalescer
