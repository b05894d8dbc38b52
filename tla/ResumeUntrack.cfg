SPECIFICATION ResumeSpec
CONSTANTS
  s1 = s1
  n1 = n1
  holder = holder
  None = None
  Tokens = {t1, t2}
  Sessions = {s1}
  Wrappers = {t1, t2}
  Generations <- LaunchGenerations
  Names = {n1}
  NameOf <- OneName
  Intent <- OneIntent
  WrapperOf <- SelfNamed
  HolderOf <- InertHolder
  ProviderOf <- SelfNamed
  Codes = {0}
  Faulty = {}
  HookKinds <- PlainHooks
  MaxTime = 0
  MaxUntracks = 1
SYMMETRY LaunchSymmetry
INVARIANTS
  AtMostOneProvider
CHECK_DEADLOCK FALSE
