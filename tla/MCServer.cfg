SPECIFICATION Spec
CONSTANTS
    Router = {r1, r2}
    Thread = {t1, t2, t3}
    Family = {v4}
    MAX_THREADS = 2
    max_concurrent_routers = 2
    initial_router_time = 1
    calculate_baseline = TRUE
    heartbeat_interval = 1
    MaxAge = 1
INVARIANTS
    TypeOK
    SlotAccounting
    
    RecordCurrent
