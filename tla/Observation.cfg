SPECIFICATION Spec
CONSTANTS
  Sides = {"receive", "transmit"}
  Kinds = {"keyed"}
  Capacity = 1
  Interval = 2
  Lengths = {1, 3}
  MaxCalls = 3
INVARIANTS SnapshotsCatchUp EventsAndSnapshotsAgree LossIsAnnounced
PROPERTIES DueOncePerPeriod
