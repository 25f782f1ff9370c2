SPECIFICATION FairSpec
CONSTANTS
  p1 = p1
  p2 = p2
  Callers = {c1, c2}
  Mods = {ts}
  TSGo = {ts}
  Toolchains = {}
  Proxies <- OneProxy
  GitHub = GitHub
  Stale = Stale
  NoSrc = NoSrc
  Modes = {TRUE, FALSE}
  Kinds = {"zip", "mod", "info", "tsgo"}
  Nameable = {}
  NoCaller = NoCaller
PROPERTIES
  CallsReturn
