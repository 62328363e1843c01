CONSTANTS
  Fd = {1, 3, 4, 5}
  Listener = 1
  Thread = {"t1"}
  Capacity = 1
  ItemsMax = 5
SPECIFICATION Spec
INVARIANT TypeOK PselectWatchesTable TableCovers NoLostWakeup
PROPERTY JobNotified ReadyIsServed SignalEndsLoop
