SPECIFICATION Spec
CONSTANTS
  Capacity = 3
  Modulus = 6
  a = a
  b = b
  Events <- MCEvents
  Nothing = Nothing
INVARIANTS IndicesOrdered NoSlotRace
PROPERTIES ImplementsChannel
