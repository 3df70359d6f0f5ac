SPECIFICATION FairSpec
CONSTANTS
  Entries = {a}
  Producers = {p1}
  MaxAdds = 1
PROPERTY
  DestructorReturns
CHECK_DEADLOCK FALSE
