SPECIFICATION Spec
CONSTANTS
  Engines = {"mysql"}
  MaxColumns = 2
  MaxRows = 3
  ROW_BATCH_SIZE = 2
  CONNECT_TIMEOUT = 1
  STATEMENT_TIMEOUT = 1
  IDLE_TIMEOUT = 1
  TOTAL_TIMEOUT = 7
  RowTime = 1
  StoreTime = 2
INVARIANTS
  TimeoutIsReported
CHECK_DEADLOCK FALSE
