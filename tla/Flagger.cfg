\* One controlling goroutine and one that only uses flags, two initialisations.
SPECIFICATION MCSpec
CONSTANTS
  Users = {user}
  Controllers = {main}
  Entities = {e1}
  Nil = Nil
  DefaultAttemptsConnection = 0
  MaxInits = 2
  MaxPushes = 1
INVARIANTS
  TypeOK
  ShutdownIsComplete
  InitialisationIsWhole
  DefaultEntitiesAgree
  HoldersProceed
PROPERTIES
  LockedUsesAreServed
