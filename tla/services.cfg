SPECIFICATION ServicesSpec
CONSTANTS
    \* the operation log
    Entries = {e1, e2}
    Readers = {u1}
    BufferSize = 1
    BatchSize = 2
    RetryTimes = 1
    Overflow = "discard"
    MayClose = TRUE
    Faults = {"db_fail", "ack_lost", "redis_fail"}
    MaxFaults = 2
    \* the EPP pool
    Groups = {1, 2}
    EppClusters = {1, 2}
    EppConfigs <- MCSomeConfigs
    Handlers = {"h1"}
    MaxEppWrites = 2
    MaxEppFaults = 1
    \* the exports
    a1 = a1
    a2 = a2
    c1 = c1
    c2 = c2
    Agents = {a1, a2}
    Contents = {c1, c2}
    Backends <- MySQLAndAutocommit
    MaxDuplicates = 3
    MaxClock = 1
    MaxChanges = 2
    MaxPollFaults = 1
    \* the connections
    q1 = q1
    q2 = q2
    k1 = k1
    k2 = k2
    k3 = k3
    Sessions = {q1, q2}
    Creators = {q1, q2}
    RowsOf <- SharedRows
    MaxOpenConns = 3
    Duties = 2
    PoolFaults = {"ping", "begin", "stmt", "conn_lost", "commit"}
    MaxPoolFaults = 1
    \* what the batch job charges
    NBatches = 4
    KeyNames = {"k1", "k2"}
    KeyOf <- KeyPerBatch
    ResultFile <- FourFiles
    HasOutput = {1, 2, 3}
    LostFiles = {}
    PerKey = FALSE
    ProviderRecords <- Records
    Prices <- BatchPrices
    ReconcileLimit = 2
    MaxLineBytes = 3
    MaxUsageFaults = 2
INVARIANTS
    ServicesConsistent
    Accounted
    AllOrNothing
    
    ChargedForWholeFile
PROPERTIES
    BacklogsDrain
    EppConverges
    ImplementsPromise
    PollingAgentsCatchUp
CHECK_DEADLOCK FALSE
