SPECIFICATION FairSpec
CONSTANTS
  Users = {alice}
  Names = {n1}
  NoName = NoName
  Pages = {first}
  Requests = {r1, r2}
  CacheTtl = 1
  MaxWrites = 2
  Faults = TRUE
INVARIANTS CacheTypeOK Coherent
PROPERTY Converges
