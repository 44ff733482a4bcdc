CONSTANTS
  UAVs = {1, 2}
  Tasks = {t1, t2}
  None = None
  Cycled = {1}
  Service = 2
SPECIFICATION MCSpec
INVARIANTS StoreTypeOK HeldIsOwned OwnerMatchesStatus
PROPERTY ServiceIsKept
