SPECIFICATION Spec
CONSTANTS
  p1 = p1
  p2 = p2
  Callers = {c1, c2}
  Mods = {tc}
  TSGo = {}
  Toolchains = {tc}
  Proxies <- TwoProxies
  GitHub = GitHub
  Stale = Stale
  NoSrc = NoSrc
  Modes = {TRUE, FALSE}
  Kinds = {"zip", "info"}
  Nameable = {"dir"}
  NoCaller = NoCaller
SYMMETRY MCSymmetry
INVARIANTS
  TypeOK
  OneProxyPerTree
  RootsAreStored
  NoRedundantFetch
  HandlesResolve
  ToolchainsHaveGoMods
