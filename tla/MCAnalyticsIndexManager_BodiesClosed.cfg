CONSTANTS
  Default = Default
  Local = Local
  Empty = Empty
  DQ = DQ
  S1 = S1
  I1 = I1
  LQ = LQ
  Bk = Bk
  DataverseNames = {Default, DQ}
  DatasetNames = {S1}
  IndexNames = {I1}
  LinkNames = {Local, LQ}
  NeedsQuoting = {DQ, LQ}
  Buckets = {Bk}
  MaxOpenBodies = 1

SPECIFICATION Spec

INVARIANT BodiesClosed
