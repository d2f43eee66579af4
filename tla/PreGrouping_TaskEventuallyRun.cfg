CONSTANTS
    Indexes = {0, 1}
    MaxTasks = 3
    MaxFailures = 1
    FailingCalls = {"save_task_info", "update_dkg_status"}
SPECIFICATION FairSpec
PROPERTY TaskEventuallyRun
