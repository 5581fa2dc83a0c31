------------------------------- MODULE Server -------------------------------
(***************************************************************************)
(* The main thread of the collector (Server/src/openbmp.cpp, runServer and *)
(* signal_handler; Server/src/bmp/BMPListener.cpp): it accepts routers,    *)
(* starts a client thread for each, reaps the threads that ended, releases *)
(* the start-up slot of a router once its RIB dump should be over, and     *)
(* publishes collector records.                                            *)
(*                                                                         *)
(* Time is kept as ages, the differences the code computes: how long ago a *)
(* router connected and how long ago last_heartbeat_time was set.  An age  *)
(* stops at a bound no smaller than anything it is compared with, MaxAge   *)
(* or heartbeat_interval.                                                  *)
(*                                                                         *)
(* A definition D_Word is D with one mistake; no behaviour of the model    *)
(* uses it, it shows that a property depends on D.                         *)
(***************************************************************************)
EXTENDS Naturals, Sequences, FiniteSets, SequencesExt

CONSTANTS Router,                   \* routers, by hash_id
          Thread,                   \* ThreadMgmt objects that can be allocated
          Family,                   \* listening sockets: IPv4, IPv6 or both
          MAX_THREADS,
          max_concurrent_routers,   \* cfg.max_concurrent_routers
          initial_router_time,      \* cfg.initial_router_time
          calculate_baseline,       \* cfg.calculate_baseline
          heartbeat_interval,       \* cfg.heartbeat_interval
          MaxAge                    \* bound on the age of a connection

ASSUME ServerAssumption ==
    /\ IsFiniteSet(Thread)
    /\ Router # {}
    /\ MAX_THREADS \in Nat
    /\ max_concurrent_routers \in Nat \ {0}
    /\ initial_router_time \in Nat
    /\ calculate_baseline \in BOOLEAN
    /\ heartbeat_interval \in Nat
    /\ MaxAge \in Nat
    /\ initial_router_time <= MaxAge

VARIABLES
    thr_list,               \* the global vector of ThreadMgmt pointers
    thr,                    \* what each ThreadMgmt object holds
    active_connections,
    concurrent_routers,
    router_baseline_time,   \* cfg.router_baseline_time: router -> seconds
    since_heartbeat,        \* time(NULL) - last_heartbeat_time
    listening,              \* listening sockets not closed after POLLHUP/POLLERR
    pc,                     \* where the main thread is
    i,                      \* index of its loop over thr_list
    starting,               \* the ThreadMgmt of a thread started, not yet listed
    record,                 \* the last collector record it published
    fresh                   \* the clock has not moved since

threadVars == <<thr_list, thr, active_connections, concurrent_routers>>
recordVars == <<record, fresh>>
vars == <<threadVars, router_baseline_time, since_heartbeat, listening, pc, i,
          starting, recordVars>>

Listed == ToSet(thr_list)

(* The ThreadMgmt objects in use: a thread starts before it is listed. *)
Owned == Listed \cup starting

(* A router that has no entry in router_baseline_time. *)
Unknown == MaxAge + 1

(* A ThreadMgmt that is not allocated. *)
NoThread == [router |-> CHOOSE r \in Router : TRUE, running |-> FALSE,
             baselineTimeout |-> FALSE, alive |-> FALSE, age |-> 0]

AgeAfter(n, bound) == IF n < bound THEN n + 1 ELSE n

Publish_NoChange(action, count) ==
    IF action = "change" THEN UNCHANGED recordVars
    ELSE /\ record' = [action |-> action, router_count |-> count]
         /\ fresh' = TRUE

(* collector_update_msg: a record with the number of routers in thr_list. *)
Publish(action, count) ==
    /\ record' = [action |-> action, router_count |-> count]
    /\ fresh' = TRUE

(* runServer up to its loop. *)
Init == /\ thr_list = <<>>
        /\ thr = [t \in Thread |-> NoThread]
        /\ active_connections = 0
        /\ concurrent_routers = 0
        /\ router_baseline_time = [r \in Router |-> Unknown]
        /\ since_heartbeat = 0
        /\ listening = Family
        /\ pc = "scan"
        /\ i = 1
        /\ starting = {}
        /\ record = [action |-> "started", router_count |-> 0]
        /\ fresh = TRUE

-----------------------------------------------------------------------------
(* "Check for any stale threads/connections"                               *)

Current == thr[thr_list[i]]

SlotsAfterReap_Always(t) == concurrent_routers - 1

SlotsAfterReap_Never(t) == concurrent_routers

(* A router past its baseline has given its slot back already. *)
SlotsAfterReap(t) == IF thr[t].baselineTimeout THEN concurrent_routers
                     ELSE concurrent_routers - 1

(* A thread that is not running is joined, which waits for it to end, and  *)
(* erased; the loop then goes on at i + 1, so it skips the one behind it.  *)
ScanReap ==
    /\ pc = "scan" /\ i <= Len(thr_list)
    /\ ~Current.running /\ ~Current.alive
    /\ active_connections' = active_connections - 1
    /\ concurrent_routers' = SlotsAfterReap(thr_list[i])
    /\ thr' = [thr EXCEPT ![thr_list[i]] = NoThread]
    /\ thr_list' = RemoveAt(thr_list, i)
    /\ i' = i + 1
    /\ Publish("change", Len(thr_list) - 1)
    /\ UNCHANGED <<starting, router_baseline_time, since_heartbeat, listening, pc>>

(* How long a router counts as concurrent. *)
InitialTime(r) ==
    IF calculate_baseline /\ router_baseline_time[r] # Unknown
    THEN router_baseline_time[r] ELSE initial_router_time

BaselineReached(t) == thr[t].age >= InitialTime(thr[t].router)

(* "If past the baseline time, decrement concurrent router count" *)
ScanRelease ==
    /\ pc = "scan" /\ i <= Len(thr_list)
    /\ Current.running /\ ~Current.baselineTimeout
    /\ BaselineReached(thr_list[i])
    /\ concurrent_routers' = concurrent_routers - 1
    /\ thr' = [thr EXCEPT ![thr_list[i]].baselineTimeout = TRUE]
    /\ i' = i + 1
    /\ UNCHANGED <<starting, thr_list, active_connections, router_baseline_time,
                   since_heartbeat, listening, pc, recordVars>>

ScanSkip ==
    /\ pc = "scan" /\ i <= Len(thr_list)
    /\ Current.running
    /\ Current.baselineTimeout \/ ~BaselineReached(thr_list[i])
    /\ i' = i + 1
    /\ UNCHANGED <<starting, threadVars, router_baseline_time, since_heartbeat, listening,
                   pc, recordVars>>

ScanEnd ==
    /\ pc = "scan" /\ i > Len(thr_list)
    /\ pc' = "accept"
    /\ UNCHANGED <<starting, threadVars, router_baseline_time, since_heartbeat, listening,
                   i, recordVars>>

-----------------------------------------------------------------------------
(* "Create a new client thread if we aren't at the max number of active    *)
(* sessions"                                                               *)

HasSlot_OffByOne == concurrent_routers <= max_concurrent_routers

HasSlot == concurrent_routers < max_concurrent_routers
HasThread == active_connections <= MAX_THREADS

NextRound_SameIndex == pc' = "scan" /\ i' = i

(* Back to the top of the loop. *)
NextRound == pc' = "scan" /\ i' = 1

(* wait_and_accept_connection returns true, and the thread is started. *)
Accept(r, t) ==
    /\ pc = "accept" /\ HasSlot /\ HasThread
    /\ listening # {}
    /\ t \notin Owned
    /\ active_connections' = active_connections + 1
    /\ concurrent_routers' = concurrent_routers + 1
    /\ thr' = [thr EXCEPT ![t] = [router |-> r, running |-> TRUE,
                                  baselineTimeout |-> FALSE, alive |-> TRUE,
                                  age |-> 0]]
    /\ starting' = {t}
    /\ pc' = "insert"
    /\ UNCHANGED <<thr_list, router_baseline_time, since_heartbeat, listening, i,
                   recordVars>>

(* "Add thread to vector", then tell the collector's consumers. *)
Insert ==
    /\ pc = "insert"
    /\ \E t \in starting : thr_list' = Append(thr_list, t)
    /\ starting' = {}
    /\ Publish("change", Len(thr_list) + 1)
    /\ since_heartbeat' = 0
    /\ NextRound
    /\ UNCHANGED <<thr, active_connections, concurrent_routers,
                   router_baseline_time, listening>>

HeartbeatIfDue_AlwaysReset ==
    /\ IF since_heartbeat >= heartbeat_interval
       THEN Publish("heartbeat", Len(thr_list)) ELSE UNCHANGED recordVars
    /\ since_heartbeat' = 0

(* "Send heartbeat if needed" *)
HeartbeatIfDue ==
    IF since_heartbeat >= heartbeat_interval
    THEN Publish("heartbeat", Len(thr_list)) /\ since_heartbeat' = 0
    ELSE UNCHANGED <<recordVars, since_heartbeat>>

(* wait_and_accept_connection times out, or returns early because of the   *)
(* one pollfd too many, never set, that it passes to poll().               *)
NoConnection ==
    /\ pc = "accept" /\ HasSlot /\ HasThread
    /\ HeartbeatIfDue
    /\ NextRound
    /\ UNCHANGED <<starting, threadVars, router_baseline_time, listening>>

(* POLLHUP or POLLERR on a listening socket: it is closed, and polling the *)
(* descriptor number the listener keeps reports nothing it looks at.       *)
ListenerFails(f) ==
    /\ pc = "accept" /\ HasSlot /\ HasThread
    /\ f \in listening
    /\ listening' = listening \ {f}
    /\ HeartbeatIfDue
    /\ NextRound
    /\ UNCHANGED <<starting, threadVars, router_baseline_time>>

(* accept() fails, on a listening socket or on the number of a closed one  *)
(* that something else was given: accept_connection throws, runServer logs *)
(* the message and returns, and main returns.                              *)
AcceptThrows ==
    /\ pc = "accept" /\ HasSlot /\ HasThread
    /\ Family # {}
    /\ pc' = "exited"
    /\ UNCHANGED <<starting, threadVars, router_baseline_time, since_heartbeat, listening,
                   i, recordVars>>

(* "Reached max number of threads": log and sleep a second. *)
ThreadsFull ==
    /\ pc = "accept" /\ HasSlot /\ ~HasThread
    /\ NextRound
    /\ UNCHANGED <<starting, threadVars, router_baseline_time, since_heartbeat, listening,
                   recordVars>>

SlotsFull_Waits == pc = "accept" /\ ~HasSlot /\ UNCHANGED vars

(* No start-up slot is free: straight back to the top of the loop. *)
SlotsFull ==
    /\ pc = "accept" /\ ~HasSlot
    /\ NextRound
    /\ UNCHANGED <<starting, threadVars, router_baseline_time, since_heartbeat, listening,
                   recordVars>>

-----------------------------------------------------------------------------
(* signal_handler runs in the main thread, which the kernel picks first for *)
(* a signal sent to the process, wherever that thread is, and does not go   *)
(* back to it.                                                              *)

InLoop == pc \in {"scan", "accept", "insert"}

Signal ==
    /\ InLoop
    /\ pc' = "signal"
    /\ i' = 1
    /\ UNCHANGED <<starting, threadVars, router_baseline_time, since_heartbeat, listening,
                   recordVars>>

CancelThread_Missing(t) == UNCHANGED thr

(* pthread_cancel, and the thread is marked as not running. *)
CancelThread(t) == thr' = [thr EXCEPT ![t].running = FALSE]

SignalCancel ==
    /\ pc = "signal" /\ i <= Len(thr_list)
    /\ Current.running
    /\ CancelThread(thr_list[i])
    /\ pc' = "join"
    /\ UNCHANGED <<starting, thr_list, active_connections, concurrent_routers, i,
                   router_baseline_time, since_heartbeat, listening, recordVars>>

SignalJoin ==
    /\ pc = "join"
    /\ ~Current.alive
    /\ pc' = "signal"
    /\ i' = i + 1
    /\ UNCHANGED <<starting, threadVars, router_baseline_time, since_heartbeat, listening,
                   recordVars>>

SignalSkip ==
    /\ pc = "signal" /\ i <= Len(thr_list)
    /\ ~Current.running
    /\ i' = i + 1
    /\ UNCHANGED <<starting, threadVars, router_baseline_time, since_heartbeat, listening,
                   pc, recordVars>>

(* thr_list.clear(); run = false; exit(0).  Nothing else clears run, so    *)
(* runServer never gets to the STOPPED record behind its loop.             *)
SignalExit ==
    /\ pc = "signal" /\ i > Len(thr_list)
    /\ thr_list' = <<>>
    /\ pc' = "exited"
    /\ UNCHANGED <<starting, thr, active_connections, concurrent_routers, i,
                   router_baseline_time, since_heartbeat, listening, recordVars>>

-----------------------------------------------------------------------------
(* The client threads, seen from here, and the clock.                      *)

(* ClientThread leaves its loop: thr->running = false. *)
ThreadStops(t) ==
    /\ pc # "exited" /\ t \in Owned /\ thr[t].running
    /\ thr' = [thr EXCEPT ![t].running = FALSE]
    /\ UNCHANGED <<starting, thr_list, active_connections, concurrent_routers, i, pc,
                   router_baseline_time, since_heartbeat, listening, recordVars>>

(* ClientThread has joined its reader, closed its bus, and ends. *)
ThreadEnds(t) ==
    /\ pc # "exited" /\ t \in Owned /\ ~thr[t].running /\ thr[t].alive
    /\ thr' = [thr EXCEPT ![t].alive = FALSE]
    /\ UNCHANGED <<starting, thr_list, active_connections, concurrent_routers, i, pc,
                   router_baseline_time, since_heartbeat, listening, recordVars>>

(* The reader of a thread finds that all peers of a router without a       *)
(* baseline sent their End-of-RIB: "20% buffer for baseline time".         *)
BaselineKnown(t) ==
    /\ InLoop /\ t \in Owned /\ thr[t].alive
    /\ router_baseline_time[thr[t].router] = Unknown
    /\ (12 * thr[t].age) \div 10 <= MaxAge
    /\ router_baseline_time' = [router_baseline_time EXCEPT
                                  ![thr[t].router] = (12 * thr[t].age) \div 10]
    /\ UNCHANGED <<starting, threadVars, since_heartbeat, listening, pc, i, recordVars>>

(* Nothing reads the clock once the signal handler runs. *)
Tick ==
    /\ InLoop
    /\ thr' = [t \in Thread |-> IF t \in Owned
                                THEN [thr[t] EXCEPT !.age = AgeAfter(@, MaxAge)] ELSE thr[t]]
    /\ since_heartbeat' = AgeAfter(since_heartbeat, heartbeat_interval)
    /\ fresh' = FALSE
    /\ UNCHANGED <<starting, thr_list, active_connections, concurrent_routers, listening,
                   router_baseline_time, pc, i, record>>

-----------------------------------------------------------------------------
MainStep ==
    \/ ScanReap \/ ScanRelease \/ ScanSkip \/ ScanEnd
    \/ \E r \in Router, t \in Thread : Accept(r, t)
    \/ Insert
    \/ NoConnection
    \/ \E f \in Family : ListenerFails(f)
    \/ AcceptThrows
    \/ ThreadsFull
    \/ SlotsFull
    \/ SignalCancel \/ SignalJoin \/ SignalSkip \/ SignalExit

(* The process is gone. *)
Exited == pc = "exited" /\ UNCHANGED vars

Next ==
    \/ MainStep
    \/ Signal
    \/ \E t \in Thread : ThreadStops(t) \/ ThreadEnds(t) \/ BaselineKnown(t)
    \/ Tick
    \/ Exited

Spec == Init /\ [][Next]_vars

(***************************************************************************)
(* The main thread keeps running and the clock keeps ticking.  A client    *)
(* thread that left its loop ends: its reader finds the pipe closed, and   *)
(* the broker is reachable, or it would wait in the bus for ever.          *)
(***************************************************************************)
Fairness == /\ WF_vars(MainStep)
            /\ WF_vars(Tick)
            /\ \A t \in Thread : WF_vars(ThreadEnds(t))

FairSpec == Spec /\ Fairness

-----------------------------------------------------------------------------
(* Every variable has its type; in particular no counter of runServer goes *)
(* below zero, whichever of its decrements a thread's end meets.           *)
TypeOK ==
    /\ thr_list \in Seq(Thread)
    /\ thr \in [Thread -> [router : Router, running : BOOLEAN,
                           baselineTimeout : BOOLEAN, alive : BOOLEAN,
                           age : 0..MaxAge]]
    /\ active_connections \in Nat
    /\ concurrent_routers \in Nat
    /\ router_baseline_time \in [Router -> 0..Unknown]
    /\ since_heartbeat \in 0..heartbeat_interval
    /\ listening \subseteq Family
    /\ pc \in {"scan", "accept", "insert", "signal", "join", "exited"}
    /\ i \in Nat \ {0}
    /\ starting \subseteq Thread
    /\ record \in [action : {"started", "change", "heartbeat"}, router_count : Nat]
    /\ fresh \in BOOLEAN

(* The threads whose routers hold a start-up slot. *)
SlotHolders == {t \in Owned : ~thr[t].baselineTimeout}

(* The two counters of runServer mean what they say at every point of its  *)
(* loop: active_connections counts the threads it started and did not      *)
(* join, concurrent_routers those whose RIB dump may be going on.  Each    *)
(* slot is given back once, by time or by the end of the thread, never by  *)
(* both, so neither counter drifts or goes below zero.                     *)
SlotAccounting ==
    InLoop => /\ active_connections = Cardinality(Owned)
              /\ concurrent_routers = Cardinality(SlotHolders)

(* The two limits that accepting a router has to respect (the second one   *)
(* lets one more thread in than its name says).                            *)
AdmissionBounded ==
    /\ concurrent_routers <= max_concurrent_routers
    /\ active_connections <= MAX_THREADS + 1

(* Whatever the main thread did last, consumers were told the number of    *)
(* routers it now has.                                                     *)
RecordCurrent ==
    pc \in {"scan", "accept"} => record.router_count = Len(thr_list)

(* A client thread that stopped is joined and erased, though every erase   *)
(* makes the scan skip the next entry.                                     *)
StoppedThreadReaped ==
    \A t \in Thread :
        (InLoop /\ t \in Owned /\ ~thr[t].running) ~> (t \notin Owned \/ ~InLoop)

(* No router holds its start-up slot for ever, whatever baseline time its  *)
(* reader stores meanwhile: the ones waiting in the backlog get their turn. *)
SlotReleased ==
    \A t \in Thread :
        (InLoop /\ t \in SlotHolders) ~> (t \notin SlotHolders \/ ~InLoop)

(* After a terminating signal the process ends: no join of the handler     *)
(* waits for a thread that waits for the main thread.                      *)
ShutdownCompletes == (pc = "signal") ~> (pc = "exited")

(* Consumers hear from the collector again and again, by a heartbeat if    *)
(* nothing changes, for as long as it has threads left.                    *)
HeartbeatUnlessFull ==
    []<>(fresh \/ ~InLoop \/ ~HasThread)

-----------------------------------------------------------------------------
(* What the documentation and the comments say and the code does not do.   *)

(* docs/MESSAGE_BUS_API.md: "**stopped** = Collector was stopped/shutdown". *)
StoppedAnnounced == pc = "exited" => record.action = "stopped"

(* openbmpd.conf: "Heatbeat messages are sent every interval, unless there *)
(* was a change event sent witin the interval."                            *)
HeartbeatEveryInterval == []<>(fresh \/ ~InLoop)

(* openbmp.cpp: "Create a new client thread if we aren't at the max number *)
(* of active sessions".                                                    *)
ThreadsWithinMax == active_connections <= MAX_THREADS

(* openbmp.cpp, signal_handler: "Done closing all active BMP connections". *)
AllConnectionsClosed == [][SignalExit => \A t \in Thread : ~thr[t].alive]_vars
=============================================================================
