SPECIFICATION KernelSpec
CONSTANTS
 Runs = {1,2}
 NoRun = 0
 Extras = 1
 MaxWorkers = 4
 MaxLosses = 1
INVARIANTS
 FailedLoadIsNotTheAnswer
CHECK_DEADLOCK FALSE
