\* Two replicas; one poison row in batches of two; two faults.
SPECIFICATION FairSpec
CONSTANTS
    Flusher = {f1, f2}
    MaxEvents = 3
    Sinks = 2
    BatchSize = 2
    Poison <- MCPoison
    MaxFaults = 2
INVARIANTS
    TypeOK
PROPERTIES
    QueueSpec
    Drains
