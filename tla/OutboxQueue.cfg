\* Two tabs of one account: answers are lost, pages close, the lock moves.
SPECIFICATION FairSpec
CONSTANTS
  Tabs = {t1, t2}
  Edits = {e1, g1}
  NoEdit = NoEdit
  Guarded = {g1}
  MaxTries = 2
  MaxAttempts = 2
  MaxQueue = 2
  MaxMade = 1
  MaxFaults = 3
CHECK_DEADLOCK FALSE
INVARIANT TypeOK
PROPERTY DeliveryKept
PROPERTY OnlyCallsEnqueue
PROPERTY CarriedSettles
