SPECIFICATION Spec
CONSTANTS
  na = na  nb = nb  nc = nc  nx = nx  None = None
  Names = {na, nb, nc, nx}
  Initform = {nx}
  NativeLimit = 1
  Schemas <- MCSchemas
  Objects = {o1}
  Readers = {r1}
  Keywords = {na, nb, nx}
  MaxVersions = 3
  MaxCalls = 2
CHECK_DEADLOCK FALSE
INVARIANTS CacheRight NoForeignValue 
