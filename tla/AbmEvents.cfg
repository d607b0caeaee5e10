SPECIFICATION Spec
CONSTANTS
    Events = {e1, e2, e3}
    BufferMax = 2
    MaxRetries = 2
INVARIANT TypeOK
INVARIANT BoundedCopies
PROPERTY ImplementsPipe
PROPERTY EventsSettle
CHECK_DEADLOCK FALSE
