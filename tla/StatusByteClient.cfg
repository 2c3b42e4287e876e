\* The status byte as the client reads it.
SPECIFICATION Spec
INVARIANTS
    ClientReadsEveryStatus
