SPECIFICATION FairSpec
CONSTANTS
  key = key
  Clients = {c1, c2}
  Nobody = nobody
  People = {p1, p2}
  KeyOf <- MCKeyOf
  Window = 2
  MaxTime = 3
  MaxForms = 2
INVARIANTS TypeOK NoRepeatWithinWindow
PROPERTIES AnswersAreTrue EveryFormIsAnswered
