SPECIFICATION Spec
CONSTANTS
  m1 = m1
  m2 = m2
  Callers = {c1, c2}
  Mods <- MCMods
  Toolchains <- MCToolchains
  Exts = {"info"}
  Tree <- MCTree
  MaxCachedModMaps = 1
  NoMap = NoMap
  NoCaller = NoCaller
INVARIANTS
  TypeOK
  ClientSeesTheTree
  AnswersAreTheStores
PROPERTIES
  CallsReturn
