CONSTANTS
    Indexes = {0, 1}
    MaxTasks = 3
    MaxFailures = 2
    FailingCalls = {"save_task_info", "update_dkg_status"}
SPECIFICATION Spec
INVARIANT TypeOK
PROPERTY ImplementsDKGStatus
