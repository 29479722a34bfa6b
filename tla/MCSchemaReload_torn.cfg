\* One change of the catalog while it is read.
CONSTANTS
    w1 = w1
    Workers = {}
    Parts = 2
    MaxSchema = 1
    MaxSignals = 1
SPECIFICATION Spec
INVARIANT OnePicture
