SPECIFICATION Spec
CONSTANTS
  Thread = {t1, t2}
  Key = {a, lit}
  Literal = {lit}
  Ttl = {1}
  MaxNow = 4
  MaxInfo = 4
INVARIANTS EntriesOwned FreshServed DeletedOnlyIfExpired OnlyInlineRaces
CHECK_DEADLOCK FALSE
