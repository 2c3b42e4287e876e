\* Every status of the header, with 1 to 64 pending orders.
SPECIFICATION Spec
PROPERTIES
    ImplementsLife
