SPECIFICATION Spec
CONSTANTS
  FeedCategories = {"party", "concert"}
  LegacyCategories <- MCLegacy
  Cities = {"msk"}
  DefaultCity = "msk"
  OpenEndedFrom = 43200
  OpenEndedKey = 200000
  MaxPins = 1
  Readers = {r1}
  Rows <- MCRows
  Boards <- MCBoards
  Questions <- MCQuestions
  Windows <- MCWindows
  Positions = {1, 2}
  Starts <- MCStarts
  ListTTL = 1
  CardTTL = 5
  MaxAsks = 2
  MaxEvents = 1
  Strides = {1, 6}
CHECK_DEADLOCK FALSE
INVARIANTS TypeOK PagesAreHonest BandsAreTodays HiccupsAreNotFrozen FacetsKeepTheirWord NewcomersAreCounted
