CONSTANTS
  Null = Null
  Calls = {1, 2, 3}
  MaxTime = 2
  DefaultLimit = 1
  MaxLimit = 2
  Beyond = 3
  Queries <- MCQueries
  Fates <- MCFates
SPECIFICATION Spec
INVARIANT LogInv
INVARIANT PagesAreOneList
INVARIANT ShownIsMeant
INVARIANT ReadingIsComplete
