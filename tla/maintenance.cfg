SPECIFICATION MaintenanceSpec
CONSTANTS
    \* the sweep
    j1 = j1
    j2 = j2
    s1 = s1
    s2 = s2
    ApiInstances = {j1, j2}
    Secrets = {s1}
    NProviders = 1
    NApiKeys = 0
    KeyFiles <- Switch
    Requests <- FullSweep
    BatchSize = 1
    MaxAttempts = 2
    HeartbeatTTL = 1
    MaxTasks = 2
    MaxTicks = 1
    MaxWrites = 1
    MaxSweepFaults = 1
    Faults = {"crash", "batch", "list", "finish", "progress"}
    \* the report job
    i1 = i1
    i2 = i2
    Instances <- TwoInstances
    LogRows <- TwoLogs
    Partitioned <- DetailPartitioned
    Minute = 2
    SixHours = 4
    ThreeDays = 8
    MaxWindow = 16
    DefaultRankLimit = 2
    MaxRankLimit = 2
    DefaultPageSize = 2
    MaxPageSize = 2
    Day = 2
    Ahead = 2
    RetentionDays = 1
    DeleteBatchSize = 1
    InitDay = 1
    MaxTime = 5
    MaxLate = 1
    MaxCycles = 3
    MaxFaults = 1
    \* the files of batches
    Files = {"in1", "out1", "in2"}
    FileKeys = {"a1", "a2"}
    ProductOf <- TwoProducts
    KeyOfFile <- Owners
    Outputs = {"out1"}
    DirWritten = "yes"
    FileJobs = {"job"}
    FileFacts = {"lines"}
    MaxHashWrites = 2
    MaxFileFaults = 1
    \* the trail
    AuditOwners = {"e1", "k1"}
    Entities = {"e1"}
    w1 = w1
    w2 = w2
    Writers = {w1, w2}
    WriteBodies <- SomeBodies
    SnapshotFails = TRUE
    MaxAudited = 2
INVARIANTS
    MaintenanceConsistent
    
    ProgressIsCommitted
    
    
    TrailIsTrue
PROPERTIES
    RetentionKept
    StoredFactsKept
SYMMETRY EitherInstance
CHECK_DEADLOCK FALSE
