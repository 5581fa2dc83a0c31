SPECIFICATION FairSpec
CONSTANTS
    Router = {r1}
    Thread = {t1, t2}
    Family = {v4}
    MAX_THREADS = 1
    max_concurrent_routers = 2
    initial_router_time = 1
    calculate_baseline = TRUE
    heartbeat_interval = 1
    MaxAge = 1
PROPERTY
    HeartbeatEveryInterval
