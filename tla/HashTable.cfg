\* Two workers and a bucket of up to three nodes.
SPECIFICATION Spec
CONSTANTS
  Workers = {w1, w2}
  Keys = {k1, k2, k3}
  Values = {v1, v2}
  Buckets = {0}
  hash <- CollidingHash
  Nodes = {n1, n2, n3}
  Null = Null
  NoValue = NoValue
  NoResult = NoResult
SYMMETRY Symmetry
INVARIANTS
  AccessesSound
  BucketsConsistent
  NoLeak
PROPERTY
  Linearizable
\* The service ends.
CHECK_DEADLOCK FALSE
