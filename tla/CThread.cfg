CONSTANTS
    Tids = {t1, t2, t3}
    NULL = NULL
    MaxRuns = 3
CHECK_DEADLOCK FALSE
SPECIFICATION FairSpec
INVARIANTS ObjectHeldWhileUsed OneIncarnation ThreadIdExact
PROPERTIES RefinesWorker WaitersSeeItStopped ExitRequestStops ExitWaitEnds
