CONSTANTS
  Unsigned = Unsigned
  NoState = NoState
  Interval = 2
  Recent = 2
  MaxRows = 4
  MaxMaster = 2
  MaxPending = 2
SPECIFICATION Spec
INVARIANTS ChainSound AnchorAtHead WritableUnlessDamaged
PROPERTIES AlarmsExplained TrailKept
