\* One controlling goroutine and one that only uses flags, one initialisation.
SPECIFICATION MCSpec
CONSTANTS
  Users = {user}
  Controllers = {main}
  Entities = {e1}
  Nil = Nil
  DefaultAttemptsConnection = 0
  MaxInits = 1
  MaxPushes = 1
INVARIANTS
  ShutdownStopsIngester
