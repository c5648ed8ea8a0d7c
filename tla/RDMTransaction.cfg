CONSTANTS
  TNs = 6
  Retries = 2
  MaxTime = 2
  MaxLate = 1
  Parts = 3
  Timers = {1, 5}
SPECIFICATION FairSpec
INVARIANTS TypeOK AnswersAreCurrent CleanCallComplete WaitBounded
PROPERTIES CallSpec CallReturns
