SPECIFICATION FairSpec
CONSTANTS
    bmp_buffer_size = 4
    CLIENT_WRITE_BUFFER_BLOCK_SIZE = 2
    PipeCapacity = 4
    MaxBytes = 10
INVARIANTS
    TypeOK
    PositionsOrdered
    BacklogIntact
    DeliveredInOrder
    
PROPERTIES
    StreamSpec
    EveryByteArrives
    TermEndsLoop
