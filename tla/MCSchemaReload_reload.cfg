\* A request beside three signals and reloads of a catalog of two statements;
\* requests only read the cache, so one stands for all.
CONSTANTS
    w1 = w1
    Workers = {w1}
    Parts = 2
    MaxSchema = 3
    MaxSignals = 3
SPECIFICATION FairSpec
INVARIANTS TypeOK OneFreshSchema
PROPERTIES NeverOlder SignalHonoured
