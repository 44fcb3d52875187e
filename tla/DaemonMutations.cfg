SPECIFICATION Spec
CONSTANTS
  s1 = s1
  strict = strict
  shadow = shadow
  begin1 = begin1
  chunk1 = chunk1
  commit1 = commit1
  abort1 = abort1
  use1 = use1
  use2 = use2
  None = None
  Keys = {begin1, chunk1, commit1, abort1, use1, use2}
  Streams = {s1}
  Policies = {strict, shadow}
  PolicyOf <- PolicyByName
  Initial = strict
  Offered <- Requested
  Contents <- Texts
  MaxChunks = 1
  MaxEffects = 2
INVARIANT IInv
INVARIANT StreamMemory
INVARIANT EffectOnce
INVARIANT EngineFollowsTable
PROPERTY DecisionsHold
