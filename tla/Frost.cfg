\* Every single key and nonce; groups of two sizes over samples; two peers,
\* two officers and a stranger under the acceptance rule
SPECIFICATION MCSpec
CONSTANTS
  P = 43
  N = 31
  G <- Generator
  Sizes <- TwoSizes
  Drawn = {0, 1, 9, 30}
  Hiding = {3, 28}
  Binding = {5}
  Rhos = {0, 7}
  Challenges = {0, 5, 18}
  Ids = {"a", "b"}
  Rules = {"r"}
  Leases = {0, 1, 2}
  Moments = {1, 2, 3}
  Officers = {"o1", "o2"}
  Strangers = {"s"}
  Threshold = 2
  MaxSigs = 2
INVARIANTS
  IInv
  EnoughVerifies
  OneTooFewFails
  BoundToMessage
  KeyOfSecret
  NarrowedSinceQuorum
CHECK_DEADLOCK FALSE
