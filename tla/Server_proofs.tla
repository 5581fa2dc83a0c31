---------------------------- MODULE Server_proofs ----------------------------
(***************************************************************************)
(* Proofs about the main thread (module Server) for every number of        *)
(* routers, threads and start-up slots and every configured time.          *)
(***************************************************************************)
EXTENDS Server, SequenceTheorems, FiniteSetTheorems, TLAPS

(* s has no element twice. *)
Once(s) == \A j, k \in 1..Len(s) : s[j] = s[k] => j = k

(* What the counters are about: each ThreadMgmt in use is either listed,   *)
(* once, or the one being started, between pthread_create and the insert.  *)
ListInv ==
    /\ Once(thr_list)
    /\ starting \cap Listed = {}
    /\ pc \in {"scan", "accept"} => starting = {}
    /\ pc = "insert" => \E t \in Thread : starting = {t}

IInv == TypeOK /\ ListInv /\ SlotAccounting /\ AdmissionBounded

-----------------------------------------------------------------------------
(* Sequences and sets.                                                     *)

(* The i-th element of a sequence with one element erased. *)
LEMMA RemoveAtElements ==
  ASSUME NEW S, NEW s \in Seq(S), NEW n \in 1..Len(s)
  PROVE  /\ RemoveAt(s, n) \in Seq(S)
         /\ Len(RemoveAt(s, n)) = Len(s) - 1
         /\ \A j \in 1..(Len(s) - 1) :
                RemoveAt(s, n)[j] = IF j < n THEN s[j] ELSE s[j + 1]
<1> DEFINE a == SubSeq(s, 1, n - 1)
           b == SubSeq(s, n + 1, Len(s))
<1>1. a \in Seq(S) /\ Len(a) = n - 1 /\ \A j \in 1..(n - 1) : a[j] = s[j]
  BY SubSeqProperties, LenProperties
<1>2. b \in Seq(S) /\ Len(b) = Len(s) - n /\ \A j \in 1..(Len(s) - n) : b[j] = s[n + j]
  BY SubSeqProperties, LenProperties
<1>3. RemoveAt(s, n) = a \o b
  BY DEF RemoveAt
<1> HIDE DEF a, b
<1>4. /\ a \o b \in Seq(S)
      /\ Len(a \o b) = Len(a) + Len(b)
      /\ \A j \in 1..(Len(a) + Len(b)) :
            (a \o b)[j] = IF j <= Len(a) THEN a[j] ELSE b[j - Len(a)]
  BY Zenon, <1>1, <1>2, ConcatProperties
<1>5. Len(s) \in Nat
  BY LenProperties
<1>6. ASSUME NEW j \in 1..(Len(s) - 1)
      PROVE  (a \o b)[j] = IF j < n THEN s[j] ELSE s[j + 1]
  <2>1. CASE j < n
    <3>1. j \in 1..(n - 1) /\ j \in 1..(Len(a) + Len(b)) /\ j <= Len(a)
      BY <2>1, <1>1, <1>2, <1>5
    <3>2. (a \o b)[j] = a[j] /\ a[j] = s[j]
      BY ONLY <1>1, <1>4, <3>1
    <3> QED BY <2>1, <3>2
  <2>2. CASE ~(j < n)
    <3>1. (a \o b)[j] = b[j - (n - 1)] /\ j - (n - 1) \in 1..(Len(s) - n)
      <4>1. /\ j \in 1..(Len(a) + Len(b)) /\ ~(j <= Len(a)) /\ Len(a) = n - 1
            /\ j - (n - 1) \in 1..(Len(s) - n)
        BY <2>2, <1>1, <1>2, <1>5
      <4> QED BY ONLY <1>4, <4>1
    <3>2. n + (j - (n - 1)) = j + 1
      BY <1>5
    <3> QED BY Zenon, <2>2, <3>1, <3>2, <1>2
  <2> QED BY Zenon, <2>1, <2>2
<1> QED BY <1>1, <1>2, <1>3, <1>4, <1>5, <1>6

(* Erasing an entry of a vector that has it once takes exactly it away. *)
LEMMA RemoveAtOnce ==
  ASSUME NEW S, NEW s \in Seq(S), NEW n \in 1..Len(s), Once(s)
  PROVE  /\ Once(RemoveAt(s, n))
         /\ ToSet(RemoveAt(s, n)) = ToSet(s) \ {s[n]}
<1> DEFINE r == RemoveAt(s, n)
<1>1. r \in Seq(S) /\ Len(r) = Len(s) - 1
  BY RemoveAtElements
<1>2. \A j \in 1..(Len(s) - 1) : r[j] = IF j < n THEN s[j] ELSE s[j + 1]
  BY Zenon, RemoveAtElements
<1>3. Len(s) \in Nat /\ DOMAIN s = 1..Len(s) /\ DOMAIN r = 1..(Len(s) - 1)
  BY <1>1, LenProperties
<1> HIDE DEF r
<1>4. Once(r)
  BY <1>1, <1>2, <1>3 DEF Once
<1>5. ASSUME NEW x \in ToSet(r) PROVE x \in ToSet(s) \ {s[n]}
  <2>1. PICK j \in 1..(Len(s) - 1) : x = r[j]
    BY <1>3 DEF ToSet
  <2>2. PICK k \in 1..Len(s) : k # n /\ x = s[k]
    BY <2>1, <1>2, <1>3
  <2> QED BY <2>2, <1>3 DEF ToSet, Once
<1>6. ASSUME NEW x \in ToSet(s) \ {s[n]} PROVE x \in ToSet(r)
  <2>1. PICK k \in 1..Len(s) : k # n /\ x = s[k]
    BY <1>3 DEF ToSet
  <2>2. PICK j \in 1..(Len(s) - 1) : x = r[j]
    <3>1. CASE k < n
      BY <3>1, <2>1, <1>2, <1>3
    <3>2. CASE k > n
      <4>1. k - 1 \in 1..(Len(s) - 1) /\ ~(k - 1 < n) /\ (k - 1) + 1 = k
        BY <3>2, <1>3
      <4> QED BY Zenon, <4>1, <2>1, <1>2
    <3> QED BY <3>1, <3>2, <2>1, <1>3
  <2> QED BY <2>2, <1>3 DEF ToSet
<1> QED BY <1>4, <1>5, <1>6 DEF r

(* Appending an entry a vector does not have. *)
LEMMA AppendOnce ==
  ASSUME NEW S, NEW s \in Seq(S), NEW t \in S, Once(s), t \notin ToSet(s)
  PROVE  /\ Append(s, t) \in Seq(S)
         /\ Len(Append(s, t)) = Len(s) + 1
         /\ Once(Append(s, t))
         /\ ToSet(Append(s, t)) = ToSet(s) \cup {t}
<1> DEFINE a == Append(s, t)
<1>1. /\ a \in Seq(S) /\ Len(a) = Len(s) + 1
      /\ a[Len(s) + 1] = t
      /\ \A j \in 1..Len(s) : a[j] = s[j]
  BY AppendProperties
<1>2. Len(s) \in Nat /\ DOMAIN s = 1..Len(s) /\ DOMAIN a = 1..(Len(s) + 1)
  BY <1>1, LenProperties
<1> HIDE DEF a
<1>3. \A j \in 1..Len(s) : s[j] # t
  BY <1>2 DEF ToSet
<1>4. Once(a)
  BY <1>1, <1>2, <1>3 DEF Once
<1>5. ToSet(a) = ToSet(s) \cup {t}
  BY <1>1, <1>2 DEF ToSet
<1> QED BY <1>1, <1>4, <1>5 DEF a


-----------------------------------------------------------------------------
(* The sets the counters count.                                            *)

LEMMA OwnedFinite ==
  ASSUME TypeOK
  PROVE  /\ Listed \subseteq Thread /\ Owned \subseteq Thread
         /\ IsFiniteSet(Owned) /\ IsFiniteSet(SlotHolders)
         /\ Cardinality(Owned) \in Nat /\ Cardinality(SlotHolders) \in Nat
<1>1. Listed \subseteq Thread
  BY LenProperties DEF TypeOK, Listed, ToSet
<1>2. Owned \subseteq Thread /\ SlotHolders \subseteq Thread
  BY <1>1 DEF TypeOK, Owned, SlotHolders
<1>3. IsFiniteSet(Owned) /\ IsFiniteSet(SlotHolders)
  BY <1>2, FS_Subset, ServerAssumption DEF ServerAssumption
<1> QED BY <1>1, <1>2, <1>3, FS_CardinalityType

(* A step that leaves the list and the baseline flags alone counts the same. *)
LEMMA SameHolders ==
  ASSUME TypeOK, thr_list' = thr_list, starting' = starting,
         \A t \in Thread : thr'[t].baselineTimeout = thr[t].baselineTimeout
  PROVE  Listed' = Listed /\ Owned' = Owned /\ SlotHolders' = SlotHolders
<1>1. Listed' = Listed /\ Owned' = Owned
  BY DEF Listed, Owned
<1>2. SlotHolders' = SlotHolders
  BY <1>1, OwnedFinite DEF SlotHolders
<1> QED BY <1>1, <1>2

(* The entry a scan looks at. *)
LEMMA CurrentListed ==
  ASSUME TypeOK, i <= Len(thr_list)
  PROVE  /\ i \in 1..Len(thr_list) /\ Len(thr_list) \in Nat
         /\ thr_list[i] \in Listed /\ thr_list[i] \in Thread
<1>1. i \in 1..Len(thr_list) /\ Len(thr_list) \in Nat /\ DOMAIN thr_list = 1..Len(thr_list)
  BY LenProperties DEF TypeOK
<1> QED BY <1>1, OwnedFinite DEF Listed, ToSet

-----------------------------------------------------------------------------
(* One lemma per action that moves a counter.                              *)

LEMMA ScanReapInv ==
  ASSUME IInv, ScanReap
  PROVE  IInv'
<1> DEFINE t == thr_list[i]
<1>1. TypeOK /\ ListInv /\ SlotAccounting /\ AdmissionBounded
  BY DEF IInv
<1>2. i \in 1..Len(thr_list) /\ t \in Listed /\ t \in Thread /\ Len(thr_list) \in Nat
  BY <1>1, CurrentListed DEF ScanReap
<1>3. starting = {} /\ starting' = {} /\ Owned = Listed /\ Owned' = Listed'
  BY <1>1 DEF ScanReap, ListInv, Owned
<1>4. Once(thr_list') /\ Listed' = Listed \ {t}
  BY <1>1, <1>2, RemoveAtOnce DEF ScanReap, TypeOK, ListInv, Listed
<1>5. thr_list' \in Seq(Thread) /\ Len(thr_list) - 1 \in Nat
  BY <1>1, <1>2, RemoveAtElements DEF ScanReap, TypeOK
<1>6. Owned' = Owned \ {t} /\ t \in Owned
  BY <1>2, <1>3, <1>4
<1>7. thr' \in [Thread -> [router : Router, running : BOOLEAN, baselineTimeout : BOOLEAN,
                           alive : BOOLEAN, age : 0..MaxAge]]
  <2>1. NoThread \in [router : Router, running : BOOLEAN, baselineTimeout : BOOLEAN,
                      alive : BOOLEAN, age : 0..MaxAge]
    BY ServerAssumption DEF NoThread, ServerAssumption
  <2> QED BY <2>1, <1>1 DEF ScanReap, TypeOK
<1>8. \A x \in Thread : x # t => thr'[x] = thr[x]
  BY <1>1 DEF ScanReap, TypeOK
<1>9. SlotHolders' = SlotHolders \ {t}
  BY SMTT(30), <1>1, <1>6, <1>8, OwnedFinite DEF SlotHolders
<1>10. t \in SlotHolders <=> ~thr[t].baselineTimeout
  BY <1>6 DEF SlotHolders
<1>11. InLoop /\ InLoop' /\ pc' = "scan"
  BY DEF ScanReap, InLoop
<1>12. active_connections' = Cardinality(Owned') /\ active_connections' \in Nat
  <2>1. Cardinality(Owned') = Cardinality(Owned) - 1 /\ IsFiniteSet(Owned')
    BY SMTT(30), <1>1, <1>6, OwnedFinite, FS_RemoveElement
  <2>2. active_connections' = Cardinality(Owned) - 1
    BY <1>1, <1>11 DEF ScanReap, SlotAccounting
  <2> QED BY SMTT(30), <2>1, <2>2, FS_CardinalityType
<1>13. concurrent_routers' = Cardinality(SlotHolders') /\ concurrent_routers' \in Nat
  <2>1. /\ Cardinality(SlotHolders') = IF t \in SlotHolders THEN Cardinality(SlotHolders) - 1
                                       ELSE Cardinality(SlotHolders)
        /\ IsFiniteSet(SlotHolders')
    BY SMTT(30), <1>1, <1>9, OwnedFinite, FS_RemoveElement
  <2>2. concurrent_routers' = IF t \in SlotHolders THEN Cardinality(SlotHolders) - 1
                              ELSE Cardinality(SlotHolders)
    BY <1>1, <1>10, <1>11 DEF ScanReap, SlotAccounting, SlotsAfterReap
  <2> QED BY <2>1, <2>2, FS_CardinalityType
<1>14. TypeOK'
  <2>1. i' \in Nat \ {0} /\ starting' \subseteq Thread
    BY <1>1, <1>3 DEF ScanReap, TypeOK
  <2>2. /\ record' \in [action : {"started", "change", "heartbeat"}, router_count : Nat]
        /\ fresh' \in BOOLEAN
    BY <1>5 DEF ScanReap, Publish
  <2>3. /\ router_baseline_time' \in [Router -> 0..Unknown]
        /\ since_heartbeat' \in 0..heartbeat_interval
        /\ listening' \subseteq Family
        /\ pc' \in {"scan", "accept", "insert", "signal", "join", "exited"}
    BY <1>1 DEF ScanReap, TypeOK, Unknown
  <2> QED BY SMTT(30), <1>5, <1>7, <1>12, <1>13, <2>1, <2>2, <2>3 DEF TypeOK, Unknown
<1>15. ListInv'
  BY <1>3, <1>4, <1>11 DEF ListInv
<1>16. SlotAccounting'
  BY <1>12, <1>13 DEF SlotAccounting
<1>17. AdmissionBounded'
  BY SMTT(30), <1>1, <1>12, <1>13, ServerAssumption
     DEF ScanReap, AdmissionBounded, SlotsAfterReap, TypeOK, ServerAssumption
<1> QED BY <1>14, <1>15, <1>16, <1>17 DEF IInv

LEMMA ScanReleaseInv ==
  ASSUME IInv, ScanRelease
  PROVE  IInv'
<1> DEFINE t == thr_list[i]
<1>1. TypeOK /\ ListInv /\ SlotAccounting /\ AdmissionBounded
  BY DEF IInv
<1>2. t \in Listed /\ t \in Thread /\ t \in Owned
  BY <1>1, CurrentListed DEF ScanRelease, Owned
<1>3. Listed' = Listed /\ Owned' = Owned
  BY DEF ScanRelease, Listed, Owned
<1>4. /\ \A x \in Thread : x # t => thr'[x].baselineTimeout = thr[x].baselineTimeout
      /\ thr'[t].baselineTimeout = TRUE
      /\ ~thr[t].baselineTimeout
  BY <1>1, <1>2 DEF ScanRelease, TypeOK, Current
<1>5. SlotHolders' = SlotHolders \ {t} /\ t \in SlotHolders
  BY SMTT(30), <1>1, <1>2, <1>3, <1>4, OwnedFinite DEF SlotHolders
<1>6. InLoop /\ pc' = pc /\ pc = "scan"
  BY DEF ScanRelease, InLoop
<1>7. concurrent_routers' = Cardinality(SlotHolders') /\ concurrent_routers' \in Nat
  <2>1. Cardinality(SlotHolders') = Cardinality(SlotHolders) - 1 /\ IsFiniteSet(SlotHolders')
    BY Zenon, <1>1, <1>5, OwnedFinite, FS_RemoveElement
  <2>2. concurrent_routers' = Cardinality(SlotHolders) - 1
    BY <1>1, <1>6 DEF ScanRelease, SlotAccounting
  <2> QED BY <2>1, <2>2, FS_CardinalityType
<1>8. TypeOK'
  <2>1. thr' \in [Thread -> [router : Router, running : BOOLEAN, baselineTimeout : BOOLEAN,
                             alive : BOOLEAN, age : 0..MaxAge]]
    BY ZenonT(40), <1>1, <1>2 DEF ScanRelease, TypeOK
  <2>2. i' \in Nat \ {0}
    BY <1>1 DEF ScanRelease, TypeOK
  <2> QED BY Zenon, <1>1, <1>7, <2>1, <2>2 DEF ScanRelease, TypeOK, Unknown, recordVars
<1>9. ListInv'
  BY <1>1, <1>3 DEF ScanRelease, ListInv
<1>10. SlotAccounting'
  BY <1>1, <1>3, <1>6, <1>7 DEF ScanRelease, SlotAccounting
<1>11. AdmissionBounded'
  BY SMTT(30), <1>1, ServerAssumption DEF ScanRelease, AdmissionBounded, TypeOK, ServerAssumption
<1> QED BY <1>8, <1>9, <1>10, <1>11 DEF IInv

LEMMA AcceptInv ==
  ASSUME IInv, NEW r \in Router, NEW t \in Thread, Accept(r, t)
  PROVE  IInv'
<1>1. TypeOK /\ ListInv /\ SlotAccounting /\ AdmissionBounded
  BY DEF IInv
<1>2. starting = {} /\ starting' = {t} /\ Listed' = Listed /\ t \notin Owned
  BY <1>1 DEF Accept, ListInv, Listed
<1>3. Owned' = Owned \cup {t}
  BY <1>2 DEF Owned
<1>4. /\ \A x \in Thread : x # t => thr'[x].baselineTimeout = thr[x].baselineTimeout
      /\ thr'[t].baselineTimeout = FALSE
  BY <1>1 DEF Accept, TypeOK
<1>5. SlotHolders' = SlotHolders \cup {t} /\ t \notin SlotHolders
  BY SMTT(30), <1>1, <1>2, <1>3, <1>4, OwnedFinite DEF SlotHolders
<1>6. InLoop /\ InLoop' /\ pc' = "insert"
  BY DEF Accept, InLoop
<1>7. active_connections' = Cardinality(Owned')
  <2>1. Cardinality(Owned') = Cardinality(Owned) + 1
    BY Zenon, <1>1, <1>2, <1>3, OwnedFinite, FS_AddElement
  <2> QED BY <2>1, <1>1, <1>6 DEF Accept, SlotAccounting
<1>8. concurrent_routers' = Cardinality(SlotHolders')
  <2>1. Cardinality(SlotHolders') = Cardinality(SlotHolders) + 1
    BY ZenonT(40), <1>1, <1>5, OwnedFinite, FS_AddElement
  <2> QED BY <2>1, <1>1, <1>6 DEF Accept, SlotAccounting
<1>9. TypeOK'
  <2>1. thr' \in [Thread -> [router : Router, running : BOOLEAN, baselineTimeout : BOOLEAN,
                             alive : BOOLEAN, age : 0..MaxAge]]
    BY <1>1, ServerAssumption DEF Accept, TypeOK, ServerAssumption
  <2>2. active_connections' \in Nat /\ concurrent_routers' \in Nat
    BY <1>1 DEF Accept, TypeOK
  <2> QED BY <1>1, <2>1, <2>2, <1>2 DEF Accept, TypeOK, Unknown, recordVars
<1>10. ListInv'
  <2>1. Once(thr_list')
    BY <1>1 DEF Accept, ListInv
  <2>2. starting' \cap Listed' = {}
    BY <1>2 DEF Owned
  <2> QED BY <1>2, <1>6, <2>1, <2>2 DEF ListInv
<1>11. SlotAccounting'
  BY <1>7, <1>8 DEF SlotAccounting
<1>12. AdmissionBounded'
  BY <1>1, ServerAssumption
     DEF Accept, HasSlot, HasThread, AdmissionBounded, TypeOK, ServerAssumption
<1> QED BY <1>9, <1>10, <1>11, <1>12 DEF IInv

LEMMA InsertInv ==
  ASSUME IInv, Insert
  PROVE  IInv'
<1>1. TypeOK /\ ListInv /\ SlotAccounting /\ AdmissionBounded
  BY DEF IInv
<1>2. PICK t \in Thread : starting = {t}
  BY <1>1 DEF Insert, ListInv
<1>3. thr_list' = Append(thr_list, t) /\ starting' = {} /\ pc' = "scan" /\ pc = "insert"
  BY <1>2 DEF Insert, NextRound
<1>4. /\ thr_list' \in Seq(Thread) /\ Once(thr_list') /\ Listed' = Listed \cup {t}
      /\ Len(thr_list) + 1 \in Nat
  BY SMTT(30), <1>1, <1>2, <1>3, AppendOnce, LenProperties DEF TypeOK, ListInv, Listed
<1>5. Owned' = Owned
  BY <1>2, <1>3, <1>4 DEF Owned
<1>6. SlotHolders' = SlotHolders
  BY <1>5 DEF Insert, SlotHolders
<1>7. TypeOK'
  <2>1. /\ record' \in [action : {"started", "change", "heartbeat"}, router_count : Nat]
        /\ fresh' \in BOOLEAN
    BY <1>4 DEF Insert, Publish
  <2>2. /\ since_heartbeat' \in 0..heartbeat_interval /\ i' \in Nat \ {0}
        /\ pc' \in {"scan", "accept", "insert", "signal", "join", "exited"}
    BY <1>3, ServerAssumption DEF Insert, NextRound, ServerAssumption
  <2> QED BY SMTT(30), <1>1, <1>3, <1>4, <2>1, <2>2 DEF Insert, TypeOK, Unknown
<1>8. ListInv'
  BY <1>3, <1>4 DEF ListInv
<1>9. SlotAccounting'
  BY <1>1, <1>3, <1>5, <1>6 DEF Insert, SlotAccounting, InLoop
<1>10. AdmissionBounded'
  BY <1>1 DEF Insert, AdmissionBounded
<1> QED BY <1>7, <1>8, <1>9, <1>10 DEF IInv

LEMMA SignalExitInv ==
  ASSUME IInv, SignalExit
  PROVE  IInv'
<1>1. TypeOK /\ ListInv /\ SlotAccounting /\ AdmissionBounded
  BY DEF IInv
<1>2. thr_list' = <<>> /\ pc' = "exited"
  BY DEF SignalExit
<1>3. Listed' = {} /\ Once(thr_list') /\ thr_list' \in Seq(Thread)
  BY <1>2, EmptySeq DEF Listed, ToSet, Once
<1>4. TypeOK'
  BY <1>1, <1>2, <1>3 DEF SignalExit, TypeOK, Unknown, recordVars
<1>5. ListInv' /\ SlotAccounting'
  BY <1>2, <1>3 DEF ListInv, SlotAccounting, InLoop
<1>6. AdmissionBounded'
  BY <1>1 DEF SignalExit, AdmissionBounded
<1> QED BY <1>4, <1>5, <1>6 DEF IInv

-----------------------------------------------------------------------------
(* The other steps leave the list and the counters alone.                  *)

LEMMA QuietInv ==
  ASSUME IInv, TypeOK', UNCHANGED <<thr_list, starting, active_connections, concurrent_routers>>,
         \A t \in Thread : thr'[t].baselineTimeout = thr[t].baselineTimeout,
         pc' \in {"scan", "accept"} => pc \in {"scan", "accept"},
         pc' = "insert" => pc = "insert"
  PROVE  IInv'
<1>1. TypeOK /\ ListInv /\ SlotAccounting /\ AdmissionBounded
  BY DEF IInv
<1>2. Listed' = Listed /\ Owned' = Owned /\ SlotHolders' = SlotHolders
  BY <1>1, SameHolders
<1>3. ListInv'
  BY SMTT(30), <1>1, <1>2 DEF ListInv
<1>4. SlotAccounting'
  BY <1>1, <1>2 DEF SlotAccounting, InLoop
<1>5. AdmissionBounded'
  BY <1>1 DEF AdmissionBounded
<1> QED BY <1>3, <1>4, <1>5 DEF IInv

(* Steps of the main thread that do not touch what a thread holds. *)
LEMMA MainQuiet ==
  ASSUME IInv,
         \/ ScanSkip \/ ScanEnd \/ NoConnection \/ (\E f \in Family : ListenerFails(f))
         \/ AcceptThrows \/ ThreadsFull \/ SlotsFull \/ Signal \/ SignalJoin \/ SignalSkip
         \/ UNCHANGED vars
  PROVE  IInv'
<1>1. TypeOK
  BY DEF IInv
<1>2. /\ UNCHANGED <<threadVars, starting, router_baseline_time>>
      /\ pc' \in {"scan", "accept"} => pc \in {"scan", "accept"}
      /\ pc' = "insert" => pc = "insert"
      /\ pc' \in {"scan", "accept", "insert", "signal", "join", "exited"}
  BY <1>1 DEF TypeOK, vars, ScanSkip, ScanEnd, NoConnection, ListenerFails, AcceptThrows,
              ThreadsFull, SlotsFull, Signal, SignalJoin, SignalSkip, NextRound, InLoop
<1>3. i' \in Nat \ {0} /\ listening' \subseteq Family
  BY <1>1 DEF TypeOK, vars, ScanSkip, ScanEnd, NoConnection, ListenerFails, AcceptThrows,
              ThreadsFull, SlotsFull, Signal, SignalJoin, SignalSkip, NextRound
<1>4. /\ since_heartbeat' \in 0..heartbeat_interval
      /\ record' \in [action : {"started", "change", "heartbeat"}, router_count : Nat]
      /\ fresh' \in BOOLEAN
  <2>1. CASE UNCHANGED <<recordVars, since_heartbeat>>
    BY <2>1, <1>1 DEF TypeOK, recordVars
  <2>2. CASE HeartbeatIfDue
    <3>1. Len(thr_list) \in Nat
      BY <1>1, LenProperties DEF TypeOK
    <3>2. CASE Publish("heartbeat", Len(thr_list)) /\ since_heartbeat' = 0
      BY SMTT(30), <3>1, <3>2, ServerAssumption DEF Publish, ServerAssumption
    <3> QED BY <2>1, <2>2, <3>2 DEF HeartbeatIfDue
  <2> QED BY <2>1, <2>2 DEF vars, ScanSkip, ScanEnd, NoConnection, ListenerFails, AcceptThrows,
              ThreadsFull, SlotsFull, Signal, SignalJoin, SignalSkip
<1>5. TypeOK'
  BY SMTT(30), <1>1, <1>2, <1>3, <1>4 DEF TypeOK, Unknown, threadVars
<1>6. UNCHANGED <<thr_list, thr, starting, active_connections, concurrent_routers>>
  BY <1>2 DEF threadVars
<1> QED BY SMTT(30), <1>2, <1>5, <1>6, QuietInv

(* The signal handler's cancel, the client threads and the clock change what *)
(* a ThreadMgmt holds, but none of them touches baselineTimeout.           *)
LEMMA ThreadQuiet ==
  ASSUME IInv,
         \/ SignalCancel
         \/ \E t \in Thread : ThreadStops(t) \/ ThreadEnds(t) \/ BaselineKnown(t)
         \/ Tick
  PROVE  IInv'
<1> DEFINE Mgmt == [router : Router, running : BOOLEAN, baselineTimeout : BOOLEAN,
                    alive : BOOLEAN, age : 0..MaxAge]
<1>1. TypeOK /\ thr \in [Thread -> Mgmt]
  BY DEF IInv, TypeOK
<1>2. CASE SignalCancel
  <2>1. thr_list[i] \in Thread
    BY <1>1, <1>2, CurrentListed DEF SignalCancel
  <2>2. /\ thr' \in [Thread -> Mgmt]
        /\ \A t \in Thread : thr'[t].baselineTimeout = thr[t].baselineTimeout
    BY ZenonT(40), <1>1, <1>2, <2>1 DEF SignalCancel, CancelThread
  <2>3. TypeOK'
    BY ZenonT(40), <1>1, <1>2, <2>2 DEF SignalCancel, TypeOK, Unknown, recordVars
  <2> QED BY SMTT(30), <1>2, <2>2, <2>3, QuietInv DEF SignalCancel
<1>3. CASE \E t \in Thread : ThreadStops(t) \/ ThreadEnds(t)
  <2>1. /\ thr' \in [Thread -> Mgmt]
        /\ \A t \in Thread : thr'[t].baselineTimeout = thr[t].baselineTimeout
    <3>1. PICK t \in Thread : ThreadStops(t) \/ ThreadEnds(t)
      BY <1>3
    <3>2. \/ thr' = [thr EXCEPT ![t].running = FALSE]
          \/ thr' = [thr EXCEPT ![t].alive = FALSE]
      BY <3>1 DEF ThreadStops, ThreadEnds
    <3>3. CASE thr' = [thr EXCEPT ![t].running = FALSE]
      BY Zenon, <1>1, <3>3
    <3>4. CASE thr' = [thr EXCEPT ![t].alive = FALSE]
      BY ZenonT(40), <1>1, <3>4
    <3> QED BY <3>2, <3>3, <3>4
  <2>2. TypeOK'
    BY ZenonT(40), <1>1, <1>3, <2>1 DEF ThreadStops, ThreadEnds, TypeOK, Unknown, recordVars
  <2> QED BY <1>3, <2>1, <2>2, QuietInv DEF ThreadStops, ThreadEnds
<1>4. CASE \E t \in Thread : BaselineKnown(t)
  <2>1. router_baseline_time' \in [Router -> 0..Unknown]
    <3>1. PICK t \in Thread : BaselineKnown(t)
      BY <1>4
    <3>2. thr[t].age \in Nat
      BY SMTT(30), <1>1, ServerAssumption DEF ServerAssumption
    <3>3. (12 * thr[t].age) \div 10 \in 0..Unknown
      BY SMTT(30), <3>1, <3>2, ServerAssumption DEF BaselineKnown, Unknown, ServerAssumption
    <3> QED BY <1>1, <3>1, <3>3 DEF BaselineKnown, TypeOK
  <2>2. TypeOK'
    BY <1>1, <1>4, <2>1 DEF BaselineKnown, TypeOK, Unknown, recordVars, threadVars
  <2> QED BY <1>4, <2>2, QuietInv DEF BaselineKnown, threadVars
<1>5. CASE Tick
  <2>1. ASSUME NEW t \in Thread
        PROVE  thr'[t] \in Mgmt /\ thr'[t].baselineTimeout = thr[t].baselineTimeout
    <3>1. thr[t] \in Mgmt /\ thr[t].age \in 0..MaxAge
      BY <1>1
    <3>2. AgeAfter(thr[t].age, MaxAge) \in 0..MaxAge
      BY <3>1, ServerAssumption DEF AgeAfter, ServerAssumption
    <3>3. thr'[t] = thr[t] \/ thr'[t] = [thr[t] EXCEPT !.age = AgeAfter(thr[t].age, MaxAge)]
      BY <1>5 DEF Tick
    <3> QED BY <3>1, <3>2, <3>3
  <2>2. thr' \in [Thread -> Mgmt]
    BY <1>5, <2>1 DEF Tick
  <2>3. since_heartbeat' \in 0..heartbeat_interval /\ fresh' \in BOOLEAN
    <3>1. since_heartbeat' = AgeAfter(since_heartbeat, heartbeat_interval) /\ fresh' = FALSE
      BY <1>5 DEF Tick
    <3>2. since_heartbeat \in 0..heartbeat_interval /\ heartbeat_interval \in Nat
      BY <1>1, ServerAssumption DEF TypeOK, ServerAssumption
    <3>3. since_heartbeat' \in 0..heartbeat_interval
      BY <3>1, <3>2 DEF AgeAfter
    <3> QED BY Zenon, <3>1, <3>3
  <2>4. TypeOK'
    BY SMTT(30), <1>1, <1>5, <2>2, <2>3 DEF Tick, TypeOK, Unknown
  <2> QED BY <1>5, <2>1, <2>4, QuietInv DEF Tick
<1> QED BY SMTT(30), <1>2, <1>3, <1>4, <1>5

-----------------------------------------------------------------------------
LEMMA InitInv ==
  ASSUME Init
  PROVE  IInv
<1>1. NoThread \in [router : Router, running : BOOLEAN, baselineTimeout : BOOLEAN,
                    alive : BOOLEAN, age : 0..MaxAge]
  BY ServerAssumption DEF NoThread, ServerAssumption
<1>2. thr_list \in Seq(Thread) /\ Listed = {} /\ Once(thr_list)
  BY EmptySeq DEF Init, Listed, ToSet, Once
<1>3. TypeOK
  BY <1>1, <1>2, ServerAssumption DEF Init, TypeOK, Unknown, ServerAssumption
<1>4. ListInv
  BY <1>2 DEF Init, ListInv
<1>5. Owned = {} /\ SlotHolders = {}
  BY <1>2 DEF Init, Owned, SlotHolders
<1>6. SlotAccounting /\ AdmissionBounded
  BY <1>5, FS_EmptySet, ServerAssumption
     DEF Init, SlotAccounting, AdmissionBounded, ServerAssumption
<1> QED BY SMTT(30), <1>3, <1>4, <1>6 DEF IInv

LEMMA NextInv ==
  ASSUME IInv, [Next]_vars
  PROVE  IInv'
<1>1. CASE ScanReap
  BY <1>1, ScanReapInv
<1>2. CASE ScanRelease
  BY <1>2, ScanReleaseInv
<1>3. CASE \E r \in Router, t \in Thread : Accept(r, t)
  BY SMTT(30), <1>3, AcceptInv
<1>4. CASE Insert
  BY <1>4, InsertInv
<1>5. CASE SignalExit
  BY <1>5, SignalExitInv
<1>6. CASE \/ ScanSkip \/ ScanEnd \/ NoConnection \/ (\E f \in Family : ListenerFails(f))
           \/ AcceptThrows \/ ThreadsFull \/ SlotsFull \/ Signal \/ SignalJoin \/ SignalSkip
           \/ UNCHANGED vars
  BY <1>6, MainQuiet
<1>7. CASE \/ SignalCancel
           \/ \E t \in Thread : ThreadStops(t) \/ ThreadEnds(t) \/ BaselineKnown(t)
           \/ Tick
  BY <1>7, ThreadQuiet
<1> QED BY SMTT(30), <1>1, <1>2, <1>3, <1>4, <1>5, <1>6, <1>7 DEF Next, MainStep, Exited

(* The inductive invariant holds in every reachable state. *)
THEOREM Invariance == Spec => []IInv
  BY InitInv, NextInv, PTL DEF Spec

(* Every variable of the main thread keeps its type; in particular neither *)
(* counter of runServer goes below zero.                                   *)
THEOREM TypeCorrect == Spec => []TypeOK
<1>1. IInv => TypeOK
  BY DEF IInv
<1> QED BY <1>1, Invariance, PTL

(* At every point of the loop of runServer active_connections and          *)
(* concurrent_routers are the numbers of threads and of slots in use.      *)
THEOREM CountersExact == Spec => []SlotAccounting
<1>1. IInv => SlotAccounting
  BY SMTT(30) DEF IInv
<1> QED BY <1>1, Invariance, PTL

(* Accepting a router never exceeds max_concurrent_routers, nor the number *)
(* of threads the code lets in.                                            *)
THEOREM AdmissionSafe == Spec => []AdmissionBounded
<1>1. IInv => AdmissionBounded
  BY DEF IInv
<1> QED BY <1>1, Invariance, PTL

(* Whenever the main thread is at the top of its loop or about to accept,  *)
(* the last collector record has the number of routers it has.             *)
THEOREM RecordsCurrent == Spec => []RecordCurrent
<1>1. Init => RecordCurrent
  BY DEF Init, RecordCurrent
<1>2. ASSUME IInv, RecordCurrent, [Next]_vars
      PROVE  RecordCurrent'
  <2>1. TypeOK
    BY <1>2 DEF IInv
  <2>2. CASE ScanReap
    <3>1. Len(thr_list') = Len(thr_list) - 1
      BY SMTT(30), <2>1, <2>2, CurrentListed, RemoveAtElements DEF ScanReap, TypeOK
    <3> QED BY <2>2, <3>1 DEF ScanReap, Publish, RecordCurrent
  <2>3. CASE Insert
    <3>1. PICK t \in Thread : starting = {t}
      BY <1>2, <2>3 DEF Insert, IInv, ListInv
    <3>2. Len(thr_list') = Len(thr_list) + 1
      BY SMTT(30), <2>1, <2>3, <3>1, AppendProperties DEF Insert, TypeOK
    <3> QED BY <2>3, <3>2 DEF Insert, Publish, RecordCurrent
  <2>4. CASE HeartbeatIfDue /\ thr_list' = thr_list /\ pc = "accept"
    BY <1>2, <2>4 DEF HeartbeatIfDue, Publish, recordVars, RecordCurrent
  <2>5. CASE /\ UNCHANGED <<record, thr_list>>
             /\ pc' \in {"scan", "accept"} => pc \in {"scan", "accept"}
    BY <1>2, <2>5 DEF RecordCurrent
  <2>6. CASE pc' \notin {"scan", "accept"}
    BY SMTT(30), <2>6 DEF RecordCurrent
  <2>7. CASE MainStep
    BY SMTT(30), <2>2, <2>3, <2>4, <2>5, <2>6, <2>7
       DEF MainStep, ScanRelease, ScanSkip, ScanEnd, Accept, NoConnection, ListenerFails,
           AcceptThrows, ThreadsFull, SlotsFull, SignalCancel, SignalJoin, SignalSkip,
           SignalExit, threadVars, recordVars
  <2> QED BY <1>2, <2>5, <2>6, <2>7
       DEF Next, Signal, ThreadStops, ThreadEnds, BaselineKnown, Tick, Exited, vars,
           threadVars, recordVars
<1> QED BY <1>1, <1>2, Invariance, PTL DEF Spec
=============================================================================
