SPECIFICATION FairSpec
CONSTANTS
  Entries = {a, b}
  Producers = {p1, p2}
  MaxAdds = 4
INVARIANTS
  TypeOK
  NothingLostOrRepeated
  BatchIsInDeque
  NoLostNotification
PROPERTIES
  NoDeliveryAfterDestruction
  ImplementsOrderedDelivery
  DestructorReturnsOutsideWindow
CHECK_DEADLOCK FALSE
