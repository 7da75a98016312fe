\* A call, a transfer, the looper threads and the main queue.
\* The process stops when something freed was used, or when it exits, and the
\* calls and transfers of the bound run out: deadlock is not an error.
CHECK_DEADLOCK FALSE
SPECIFICATION WrapperSpec
CONSTANTS
  MaxCalls = 1
  MaxTransfers = 1
  MaxEnvironments = 2
  StatusCodes = {200, 201, 404}
INVARIANTS
  WrapperTypeOK
  ToldOnceAndTruly
  NothingFreedUsed
  TransferToldTruly
  HandlesNameTransfers
PROPERTIES
  WaitsEnd
