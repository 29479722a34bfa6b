\* Every routine of up to three statements, every request, every db-tx-end.
CONSTANTS
    Bodies <- MCBodies
    MaxCount = 2
    MaxRows = 1
SPECIFICATION Spec
INVARIANTS TypeOK NoLateRefusal EndAsAnnounced
