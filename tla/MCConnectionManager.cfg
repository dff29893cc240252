CONSTANTS
  C1 = C1
  C2 = C2
  B1 = B1
  B2 = B2
  Callers = {C1, C2}
  Buckets = {B1, B2}
  NoBucket = NoBucket
  MaxCloses = 2

SYMMETRY Symmetry

SPECIFICATION Spec

INVARIANT ProviderTargetsRequestedBucket
