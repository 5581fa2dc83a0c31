---------------------------- MODULE Session_proofs ----------------------------
(***************************************************************************)
(* Proofs about the life of sessions (module Session) for any number of    *)
(* sessions and of descriptors, reused in any way.                         *)
(***************************************************************************)
EXTENDS Session, SequenceTheorems, TLAPS

Names == {"pipe", "write", "sock", "sock_if_set"}

LEMMA FdZero == 0 \in Fd
  BY SessionAssumption DEF SessionAssumption, Fd

LEMMA FileType ==
  ASSUME NEW s \in Session
  PROVE  {Conn(s), ReadEnd(s), WriteEnd(s), Free, Other} \subseteq File
  BY DEF File

LEMMA CloseType ==
  ASSUME file \in [Fd -> File], NEW n, Close(n)
  PROVE  file' \in [Fd -> File]
  BY Zenon DEF Close, File

LEMMA BusType ==
  ASSUME TypeOK, NEW s \in Session,
         Announce(s) \/ PublishTerm(s) \/ DeleteBus(s) \/ UNCHANGED busVars
  PROVE  /\ router_hash' \in [Session -> BOOLEAN]
         /\ announced' \in [Session -> BOOLEAN]
         /\ terms' \in [Session -> Nat]
<1>1. CASE Announce(s)
  BY <1>1 DEF Announce, TypeOK
<1>2. CASE PublishTerm(s)
  BY <1>2 DEF PublishTerm, TypeOK
<1>3. CASE UNCHANGED busVars
  BY <1>3 DEF busVars, TypeOK
<1> QED BY <1>1, <1>2, <1>3 DEF DeleteBus

(* One step per action, under it the variables the action changes. *)
LEMMA StepType ==
  ASSUME TypeOK, NEW s \in Session, ClientStep(s) \/ ReaderStep(s)
  PROVE  TypeOK'
<1>1. CASE Accept(s)
  <2>1. file' \in [Fd -> File] /\ c_sock' \in [Session -> Fd]
    BY <1>1, FileType DEF Accept, TypeOK
  <2> QED BY <1>1, <2>1 DEF Accept, TypeOK, busVars
<1>2. CASE Start(s)
  <2>1. /\ file' \in [Fd -> File] /\ pipe_sock' \in [Session -> Fd]
        /\ write_sock' \in [Session -> Fd]
    <3>1. PICK n, m \in Fd :
            /\ file' = [file EXCEPT ![n] = ReadEnd(s), ![m] = WriteEnd(s)]
            /\ pipe_sock' = [pipe_sock EXCEPT ![s] = n]
            /\ write_sock' = [write_sock EXCEPT ![s] = m]
      BY Zenon, <1>2 DEF Start
    <3>2. ReadEnd(s) \in File /\ WriteEnd(s) \in File
      BY FileType
    <3> QED BY Zenon, <3>1, <3>2 DEF TypeOK
  <2> QED BY Zenon, <1>2, <2>1 DEF Start, TypeOK, busVars
<1>3. CASE SeesClosed(s)
  <2>1. CloseList \in Seq(Names)
    BY DEF CloseList, Names
  <2> QED BY <1>3, <2>1 DEF SeesClosed, TypeOK, descVars, busVars, Names
<1>4. CASE Cancelled(s)
  <2>1. <<"pipe", "write", "sock_if_set", "pipe", "write">> \in Seq(Names)
    BY DEF Names
  <2> QED BY <1>4, <2>1 DEF Cancelled, TypeOK, descVars, busVars, Names
<1>5. CASE CloseNext(s)
  <2>1. file' \in [Fd -> File]
    BY <1>5, CloseType DEF CloseNext, TypeOK
  <2>2. Tail(to_close[s]) \in Seq(Names)
    BY <1>5, HeadTailProperties DEF CloseNext, TypeOK, Names
  <2> QED BY <1>5, <2>1, <2>2 DEF CloseNext, TypeOK, descVars, busVars, Names
<1>6. CASE ClosedAll(s) \/ SeesStop(s) \/ NotRunning(s) \/ CancelledLate(s)
  BY Zenon, <1>6 DEF ClosedAll, SeesStop, NotRunning, CancelledLate, TypeOK, descVars, busVars
<1>7. CASE Ends(s)
  BY <1>7, BusType DEF Ends, TypeOK, descVars
<1>8. CASE \E type \in {"init", "term", "other"} : ReadHeader(s, type)
  <2>1. Announce(s) \/ UNCHANGED busVars
    BY <1>8 DEF ReadHeader
  <2>2. foreign' \subseteq Session
    BY <1>8 DEF ReadHeader, Receives, TypeOK
  <2> QED BY <1>8, <2>1, <2>2, BusType DEF ReadHeader, TypeOK, descVars
<1>9. CASE ReadBody(s)
  <2>1. Announce(s) \/ UNCHANGED busVars
    BY <1>9 DEF ReadBody
  <2>2. foreign' \subseteq Session
    BY <1>9 DEF ReadBody, Receives, TypeOK
  <2> QED BY <1>9, <2>1, <2>2, BusType DEF ReadBody, TypeOK, descVars
<1>10. CASE ReadTerm(s)
  <2>1. foreign' \subseteq Session
    BY <1>10 DEF ReadTerm, Receives, TypeOK
  <2>2. file' \in [Fd -> File]
    BY <1>10, CloseType DEF ReadTerm, TypeOK
  <2> QED BY <1>10, <2>1, <2>2, BusType DEF ReadTerm, TypeOK, descVars
<1>11. CASE Disconnect(s)
  <2>1. file' \in [Fd -> File]
    BY <1>11, CloseType DEF Disconnect, TypeOK
  <2> QED BY <1>11, <2>1, BusType DEF Disconnect, TypeOK, descVars
<1>12. CASE ForgetSocket(s)
  BY <1>12, FdZero DEF ForgetSocket, NoSocket, TypeOK, busVars
<1>13. CASE ReaderStops(s) \/ ReaderSeesStop(s)
  BY Zenon, <1>13 DEF ReaderStops, ReaderSeesStop, TypeOK, descVars, busVars
<1> QED BY <1>1, <1>2, <1>3, <1>4, <1>5, <1>6, <1>7, <1>8, <1>9, <1>10, <1>11,
           <1>12, <1>13 DEF ClientStep, ReaderStep

(* Every variable of a session keeps its type, whatever numbers its threads *)
(* close and whoever is given them next.                                   *)
THEOREM TypeCorrect == Spec => []TypeOK
<1>1. Init => TypeOK
  BY FdZero, FileType, EmptySeq DEF Init, TypeOK, File
<1>2. TypeOK /\ [Next]_vars => TypeOK'
  <2>1. CASE UNCHANGED vars
    BY <2>1 DEF vars, descVars, busVars, TypeOK
  <2> QED BY <2>1, StepType DEF Next, AllGone
<1> QED BY <1>1, <1>2, PTL DEF Spec

-----------------------------------------------------------------------------
(* Router records.  What keeps the destructor from a second term record is *)
(* that whoever published the first one cleared router_hash and that the   *)
(* reader, the only one to set it again, then never reads another message. *)

TermInv(s) ==
    /\ terms[s] \in {0, 1}
    /\ terms[s] = 1 => ~router_hash[s] /\ reader[s] \in {"zero", "stop", "gone"}
    /\ terms[s] = 0 /\ announced[s] => router_hash[s]
    /\ pc[s] = "gone" => reader[s] = "gone" /\ ~router_hash[s]
    /\ pc[s] \in {"none", "start"} => reader[s] = "none"

LEMMA TermStep ==
  ASSUME TypeOK, NEW t \in Session, NEW s \in Session, TermInv(t),
         ClientStep(s) \/ ReaderStep(s)
  PROVE  TermInv(t)'
<1>1. CASE s # t
  <2>1. /\ terms'[t] = terms[t] /\ router_hash'[t] = router_hash[t]
        /\ announced'[t] = announced[t] /\ reader'[t] = reader[t] /\ pc'[t] = pc[t]
    BY <1>1 DEF TypeOK, ClientStep, ReaderStep, Accept, Start, SeesClosed, Cancelled,
         CloseNext, ClosedAll, SeesStop, NotRunning, CancelledLate, Ends, ReadHeader,
         ReadBody, ReadTerm, Disconnect, ForgetSocket, ReaderStops, ReaderSeesStop,
         Announce, PublishTerm, DeleteBus, busVars
  <2> QED BY <2>1 DEF TermInv
<1>2. CASE s = t
  <2>1. CASE Accept(t) \/ Start(t)
    BY <2>1 DEF Accept, Start, TermInv, TypeOK, busVars
  <2>2. CASE \/ SeesClosed(t) \/ Cancelled(t) \/ CloseNext(t) \/ ClosedAll(t)
             \/ SeesStop(t) \/ NotRunning(t) \/ CancelledLate(t)
    BY <2>2 DEF SeesClosed, Cancelled, CloseNext, ClosedAll, SeesStop, NotRunning,
                CancelledLate, TermInv, TypeOK, busVars
  <2>3. CASE Ends(t)
    BY <2>3 DEF Ends, DeleteBus, PublishTerm, TermInv, TypeOK, busVars
  <2>4. CASE (\E type \in {"init", "term", "other"} : ReadHeader(t, type)) \/ ReadBody(t)
    BY <2>4 DEF ReadHeader, ReadBody, Announce, TermInv, TypeOK, busVars
  <2>5. CASE ReadTerm(t) \/ Disconnect(t)
    BY <2>5 DEF ReadTerm, Disconnect, PublishTerm, TermInv, TypeOK
  <2>6. CASE ForgetSocket(t) \/ ReaderStops(t) \/ ReaderSeesStop(t)
    BY <2>6 DEF ForgetSocket, ReaderStops, ReaderSeesStop, TermInv, TypeOK, busVars
  <2> QED BY <1>2, <2>1, <2>2, <2>3, <2>4, <2>5, <2>6 DEF ClientStep, ReaderStep
<1> QED BY <1>1, <1>2

(* Whatever order reader, client thread and signal handler act in, one     *)
(* term record is published for a router that was announced, never two.    *)
THEOREM TermedOnce == Spec => []RouterTermedOnce
<1> DEFINE Inv == \A s \in Session : TermInv(s)
<1>1. Init => Inv
  <2> SUFFICES ASSUME Init, NEW s \in Session PROVE TermInv(s)
    BY Zenon
  <2>1. /\ terms[s] = 0 /\ announced[s] = FALSE /\ pc[s] = "none" /\ reader[s] = "none"
    BY DEF Init
  <2> QED BY <2>1 DEF TermInv
<1>2. TypeOK /\ Inv /\ [Next]_vars => Inv'
  <2>1. CASE UNCHANGED vars
    BY <2>1 DEF vars, busVars, TermInv
  <2> QED BY <2>1, TermStep DEF Next, AllGone
<1>3. TypeOK /\ Inv => RouterTermedOnce
  <2> SUFFICES ASSUME TypeOK, Inv, NEW s \in Session
               PROVE  /\ terms[s] <= 1
                      /\ terms[s] = 1 => ~router_hash[s]
                      /\ pc[s] = "gone" /\ announced[s] => terms[s] = 1
    BY Zenon DEF RouterTermedOnce
  <2>1. TermInv(s)
    OBVIOUS
  <2>2. terms[s] <= 1
    BY <2>1 DEF TermInv
  <2> QED BY <2>1, <2>2 DEF TermInv
<1> QED BY <1>1, <1>2, <1>3, TypeCorrect, PTL DEF Spec

-----------------------------------------------------------------------------
(* Connections.  As long as a router's connection is open it is behind     *)
(* c_sock, its reader has not given up on it, and its client thread still  *)
(* has it to close or the reader will be told nothing but to read on, so   *)
(* that it fails and closes it.                                            *)

ConnInv(s) ==
    /\ pc[s] \in {"none", "start"} => reader[s] = "none"
    /\ pc[s] = "none" => \A n \in Fd : file[n] # Conn(s)
    /\ pc[s] = "close" =>
          to_close[s] \in {<<"pipe", "write", "sock">>, <<"write", "sock">>, <<"sock">>, <<>>}
    /\ pc[s] = "gone" => reader[s] = "gone"
    /\ \A n \in Fd : file[n] = Conn(s) =>
          /\ n = c_sock[s]
          /\ reader[s] \in {"none", "check", "init", "term", "other"}
          /\ pc[s] \in {"start", "loop", "close", "cancel"}
          /\ pc[s] # "start" => bmp_run[s]
          /\ pc[s] = "close" => to_close[s] # <<>>

(* A connection is a file of its own. *)
LEMMA ConnDistinct ==
  ASSUME NEW s, NEW t
  PROVE  /\ Conn(s) # Free /\ Conn(s) # ReadEnd(t) /\ Conn(s) # WriteEnd(t)
         /\ s # t => Conn(s) # Conn(t)
<1>1. Conn(s).kind = "conn" /\ ReadEnd(t).kind = "read" /\ WriteEnd(t).kind = "write"
      /\ Free.kind = "free"
  BY DEF Conn, Free, ReadEnd, WriteEnd
<1>2. Conn(s).of = s /\ Conn(t).of = t
  BY DEF Conn
<1> QED BY <1>1, <1>2

(* No step but the accept of its own session makes a number name Conn(t). *)
LEMMA ConnKept ==
  ASSUME TypeOK, NEW t \in Session, NEW s \in Session, ClientStep(s) \/ ReaderStep(s),
         s # t \/ ~Accept(t)
  PROVE  \A n \in Fd : file'[n] = Conn(t) => file[n] = Conn(t)
<1>1. CASE Accept(s)
  BY Zenon, <1>1, ConnDistinct DEF Accept, TypeOK
<1>2. CASE Start(s)
  <2>1. PICK n, m \in Fd : file' = [file EXCEPT ![n] = ReadEnd(s), ![m] = WriteEnd(s)]
    BY Zenon, <1>2 DEF Start
  <2> QED BY <2>1, ConnDistinct DEF TypeOK
<1>3. CASE file' = file \/ \E n : Close(n)
  BY Zenon, <1>3, ConnDistinct DEF Close, TypeOK
<1>4. CASE CloseNext(s)
  BY <1>3, <1>4 DEF CloseNext
<1> QED BY <1>1, <1>2, <1>3, <1>4
    DEF ClientStep, ReaderStep, SeesClosed, Cancelled, ClosedAll, SeesStop, NotRunning,
        CancelledLate, Ends, ReadHeader, ReadBody, ReadTerm, Disconnect, ForgetSocket,
        ReaderStops, ReaderSeesStop

LEMMA ConnStep ==
  ASSUME TypeOK, NEW t \in Session, NEW s \in Session, ConnInv(t),
         ClientStep(s) \/ ReaderStep(s)
  PROVE  ConnInv(t)'
<1>1. CASE s # t
  <2>1. /\ pc'[t] = pc[t] /\ reader'[t] = reader[t] /\ to_close'[t] = to_close[t]
        /\ c_sock'[t] = c_sock[t] /\ bmp_run'[t] = bmp_run[t]
    BY <1>1 DEF TypeOK, ClientStep, ReaderStep, Accept, Start, SeesClosed, Cancelled,
         CloseNext, ClosedAll, SeesStop, NotRunning, CancelledLate, Ends, ReadHeader,
         ReadBody, ReadTerm, Disconnect, ForgetSocket, ReaderStops, ReaderSeesStop, descVars
  <2>2. \A n \in Fd : file'[n] = Conn(t) => file[n] = Conn(t)
    BY <1>1, ConnKept
  <2> QED BY <2>1, <2>2 DEF ConnInv
<1>2. CASE s = t /\ Accept(t)
  <2>1. PICK n \in Fd : file' = [file EXCEPT ![n] = Conn(t)] /\ c_sock' = [c_sock EXCEPT ![t] = n]
    BY Zenon, <1>2 DEF Accept
  <2>2. /\ pc[t] = "none" /\ pc'[t] = "start" /\ reader'[t] = "none" /\ c_sock'[t] = n
    BY <1>2, <2>1 DEF Accept, TypeOK, ConnInv
  <2>3. \A m \in Fd : file'[m] = Conn(t) => m = n
    BY <2>1, <2>2 DEF TypeOK, ConnInv
  <2> QED BY <2>2, <2>3 DEF ConnInv
<1>3. CASE s = t /\ ~Accept(t)
  <2>1. \A n \in Fd : file'[n] = Conn(t) => file[n] = Conn(t)
    BY <1>3, ConnKept
  <2>2. CASE Start(t)
    BY <2>1, <2>2 DEF Start, ConnInv, TypeOK
  <2>3. CASE SeesClosed(t)
    <3>1. <<"pipe", "write", "sock">> # <<>>
      OBVIOUS
    <3> QED BY <2>1, <2>3, <3>1 DEF SeesClosed, CloseList, ConnInv, TypeOK, descVars
  <2>4. CASE Cancelled(t)
    BY <2>1, <2>4 DEF Cancelled, ConnInv, TypeOK, descVars
  <2>5. CASE CloseNext(t) /\ pc[t] = "cancel"
    BY SMTT(30), <2>1, <2>5 DEF CloseNext, ConnInv, TypeOK, descVars
  <2>6. CASE CloseNext(t) /\ pc[t] = "close"
    <3>1. /\ pc'[t] = "close" /\ reader'[t] = reader[t] /\ c_sock'[t] = c_sock[t]
          /\ bmp_run'[t] = bmp_run[t] /\ to_close'[t] = Tail(to_close[t]) /\ to_close[t] # <<>>
      BY <2>6 DEF CloseNext, TypeOK, descVars
    <3>2. CASE to_close[t] = <<"sock">>
      <4>1. Close(c_sock[t]) /\ to_close'[t] = <<>>
        BY <2>6, <3>1, <3>2 DEF CloseNext
      <4>2. \A n \in Fd : file'[n] # Conn(t)
        BY Zenon, <2>1, <4>1, ConnDistinct DEF Close, ConnInv, TypeOK
      <4> QED BY Zenon, <3>1, <4>1, <4>2 DEF ConnInv
    <3>3. CASE to_close[t] \in {<<"pipe", "write", "sock">>, <<"write", "sock">>}
      <4>1. to_close'[t] \in {<<"write", "sock">>, <<"sock">>} /\ to_close'[t] # <<>>
        <5>1. CASE to_close[t] = <<"pipe", "write", "sock">>
          BY <3>1, <5>1
        <5>2. CASE to_close[t] = <<"write", "sock">>
          BY <3>1, <5>2
        <5> QED BY <3>3, <5>1, <5>2
      <4> QED BY <2>1, <3>1, <4>1, <2>6 DEF ConnInv
    <3> QED BY <2>6, <3>1, <3>2, <3>3 DEF ConnInv
  <2>7. CASE ClosedAll(t) \/ SeesStop(t) \/ NotRunning(t) \/ CancelledLate(t)
    BY <2>1, <2>7
       DEF ClosedAll, SeesStop, NotRunning, CancelledLate, ConnInv, TypeOK, descVars
  <2>8. CASE Ends(t)
    BY <2>1, <2>8 DEF Ends, ConnInv, TypeOK, descVars
  <2>9. CASE (\E type \in {"init", "term", "other"} : ReadHeader(t, type)) \/ ReadBody(t)
    BY <2>1, <2>9 DEF ReadHeader, ReadBody, ConnInv, TypeOK, descVars
  <2>10. CASE ReadTerm(t) \/ Disconnect(t)
    <3>1. \A n \in Fd : file'[n] # Conn(t)
      BY Zenon, <2>1, <2>10, ConnDistinct DEF ReadTerm, Disconnect, Close, ConnInv, TypeOK
    <3> QED BY <2>10, <3>1 DEF ReadTerm, Disconnect, ConnInv, TypeOK, descVars
  <2>11. CASE ForgetSocket(t)
    BY <2>1, <2>11 DEF ForgetSocket, ConnInv, TypeOK
  <2>12. CASE ReaderStops(t) \/ ReaderSeesStop(t)
    BY Zenon, <2>1, <2>12 DEF ReaderStops, ReaderSeesStop, ConnInv, TypeOK, descVars
  <2> QED BY <1>3, <2>2, <2>3, <2>4, <2>5, <2>6, <2>7, <2>8, <2>9, <2>10, <2>11, <2>12
      DEF ClientStep, ReaderStep, CloseNext
<1> QED BY <1>1, <1>2, <1>3

(* No router stays connected to a session that is over, however the two    *)
(* threads' uses of c_sock interleave and whatever was given its number.   *)
THEOREM ConnectionsClosed == Spec => []ConnectionClosed
<1> DEFINE Inv == \A s \in Session : ConnInv(s)
<1>1. Init => Inv
  <2> SUFFICES ASSUME Init, NEW s \in Session PROVE ConnInv(s)
    BY Zenon
  <2>1. pc[s] = "none" /\ reader[s] = "none"
    BY DEF Init
  <2>2. \A n \in Fd : file[n] # Conn(s)
    BY DEF Init, Conn, Free, Other
  <2> QED BY <2>1, <2>2 DEF ConnInv
<1>2. TypeOK /\ Inv /\ [Next]_vars => Inv'
  <2>1. CASE UNCHANGED vars
    BY <2>1 DEF vars, descVars, ConnInv
  <2> QED BY <2>1, ConnStep DEF Next, AllGone
<1>3. Inv => ConnectionClosed
  BY DEF ConnInv, ConnectionClosed
<1> QED BY <1>1, <1>2, <1>3, TypeCorrect, PTL DEF Spec
=============================================================================
