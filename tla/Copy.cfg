CONSTANTS
  Cap = 2
  TxCap = 1
  MaxBytes = 3
SPECIFICATION Spec
INVARIANT TypeOK StreamIntegrity InterestsHaveWork NothingForgotten ShutdownsJustified
PROPERTY RelayEnds EveryByteForwarded
