\* A routine that fails after its first result set.
CONSTANTS
    Bodies <- MCRaisingBodies
    MaxCount = 2
    MaxRows = 1
SPECIFICATION Spec
INVARIANT FailedRoutineRollsBack
