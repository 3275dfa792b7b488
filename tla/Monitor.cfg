SPECIFICATION Spec
CONSTANTS
  host = host
  none = none
  w1 = w1
  w2 = w2
  s1 = s1
  s2 = s2
  Hosts = {host}
  Watches = {w1}
  Sessions = {s1, s2}
  HostOf <- OneHost
  Nobody = none
  Agents = {"foreign", "gone"}
  Failing = {host}
  Browsing = {host}
  Stoppable = {w1}
  MaxFailures = 3
  MaxSpoken = 1
  MaxCrashes = 1
SYMMETRY Alike
INVARIANTS FailuresCounted AnnouncementsSound
PROPERTIES ReleasedIsFinal
