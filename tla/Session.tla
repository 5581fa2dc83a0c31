------------------------------ MODULE Session ------------------------------
(***************************************************************************)
(* The life of a router's session (Server/src/client_thread.cpp,           *)
(* ClientThread and ClientThread_cancel; Server/src/bmp/BMPReader.cpp,     *)
(* readerThreadLoop, ReadIncomingMsg and disconnect; the router records of *)
(* Server/src/kafka/MsgBusImpl_kafka.cpp): who opens and closes which      *)
(* descriptor, who stops whom, and which router records are published.     *)
(*                                                                         *)
(* The threads of all sessions share one descriptor table.  They know a    *)
(* file by its number only, and the kernel gives a free number, the lowest *)
(* one, to the next file opened.  The bytes of a session are the subject   *)
(* of ClientBuffer, the contents of its messages are left out.             *)
(*                                                                         *)
(* A definition D_Word is D with one mistake; no behaviour of the model    *)
(* uses it, it shows that a property depends on D.                         *)
(***************************************************************************)
EXTENDS Integers, Sequences

CONSTANTS Session,   \* connections accepted, one after another or together
          MaxFd      \* highest descriptor number

ASSUME SessionAssumption == MaxFd \in Nat

Fd == 0..MaxFd

(* The files behind the numbers: a router's connection, the two ends of the *)
(* socket pair between client thread and reader, anything else.            *)
Conn(s) == [kind |-> "conn", of |-> s]
ReadEnd(s) == [kind |-> "read", of |-> s]
WriteEnd(s) == [kind |-> "write", of |-> s]
Free == [kind |-> "free"]
Other == [kind |-> "other"]
File == {Conn(s) : s \in Session} \cup {ReadEnd(s) : s \in Session}
          \cup {WriteEnd(s) : s \in Session} \cup {Free, Other}

VARIABLES
    file,          \* descriptor table of the process
    c_sock,        \* client->c_sock
    pipe_sock,     \* client->pipe_sock, sock_fds[0]
    write_sock,    \* cInfo.bmp_write_end_sock, sock_fds[1]
    pc,            \* where the client thread is
    to_close,      \* what it is about to close
    bmp_run,       \* flag the two threads share
    reader,        \* where the reader thread is
    router_hash,   \* the bus has a router: its router_hash is not zero
    announced,     \* history: a first or init record was published
    terms,         \* history: term records published
    foreign        \* history: readers that received another file's bytes

descVars == <<c_sock, pipe_sock, write_sock>>
busVars == <<router_hash, announced, terms>>
vars == <<file, descVars, pc, to_close, bmp_run, reader, busVars, foreign>>

(* Number 0 is taken by something of the process. *)
Init == /\ file = [n \in Fd |-> IF n = 0 THEN Other ELSE Free]
        /\ c_sock = [s \in Session |-> 0]
        /\ pipe_sock = [s \in Session |-> 0]
        /\ write_sock = [s \in Session |-> 0]
        /\ pc = [s \in Session |-> "none"]
        /\ to_close = [s \in Session |-> <<>>]
        /\ bmp_run = [s \in Session |-> FALSE]
        /\ reader = [s \in Session |-> "none"]
        /\ router_hash = [s \in Session |-> FALSE]
        /\ announced = [s \in Session |-> FALSE]
        /\ terms = [s \in Session |-> 0]
        /\ foreign = {}

FreeNumbers == {n \in Fd : file[n] = Free}
Lowest(n, S) == n \in S /\ \A m \in S : n <= m

(* close(): a number that names nothing is an error nobody looks at. *)
Close(n) == file' = [file EXCEPT ![n] = Free]

-----------------------------------------------------------------------------
(* The bus of a session: update_Router and the destructor.                 *)

(* ROUTER_ACTION_FIRST, skipped for a router already known, or _INIT. *)
Announce(s) ==
    /\ router_hash' = [router_hash EXCEPT ![s] = TRUE]
    /\ announced' = [announced EXCEPT ![s] = TRUE]
    /\ UNCHANGED terms

PublishTerm_HashKept(s) ==
    /\ terms' = [terms EXCEPT ![s] = @ + 1]
    /\ UNCHANGED <<router_hash, announced>>

(* ROUTER_ACTION_TERM *)
PublishTerm(s) ==
    /\ router_hash' = [router_hash EXCEPT ![s] = FALSE]
    /\ terms' = [terms EXCEPT ![s] = @ + 1]
    /\ UNCHANGED announced

(* "Disconnect/term the router if not already done" *)
DeleteBus(s) == IF router_hash[s] THEN PublishTerm(s) ELSE UNCHANGED busVars

-----------------------------------------------------------------------------
(* The client thread.                                                      *)

(* The main thread accepts the connection and starts the thread. *)
Accept(s) ==
    /\ pc[s] = "none"
    /\ \E n \in Fd :
          /\ Lowest(n, FreeNumbers)
          /\ file' = [file EXCEPT ![n] = Conn(s)]
          /\ c_sock' = [c_sock EXCEPT ![s] = n]
    /\ pc' = [pc EXCEPT ![s] = "start"]
    /\ UNCHANGED <<pipe_sock, write_sock, to_close, bmp_run, reader, busVars, foreign>>

(* "Buffer client socket using pipe", and start the reader thread. *)
Start(s) ==
    /\ pc[s] = "start"
    /\ \E n, m \in Fd :
          /\ Lowest(n, FreeNumbers)
          /\ Lowest(m, FreeNumbers \ {n})
          /\ file' = [file EXCEPT ![n] = ReadEnd(s), ![m] = WriteEnd(s)]
          /\ pipe_sock' = [pipe_sock EXCEPT ![s] = n]
          /\ write_sock' = [write_sock EXCEPT ![s] = m]
    /\ bmp_run' = [bmp_run EXCEPT ![s] = TRUE]
    /\ reader' = [reader EXCEPT ![s] = "check"]
    /\ pc' = [pc EXCEPT ![s] = "loop"]
    /\ UNCHANGED <<c_sock, to_close, busVars, foreign>>

CloseList_NoSock == <<"pipe", "write">>

(* What the loop closes, in this order, when it finds a descriptor closed. *)
CloseList == <<"pipe", "write", "sock">>

(* The router is gone, or whatever c_sock and the pipe now name says so. *)
SeesClosed(s) ==
    /\ pc[s] = "loop" /\ bmp_run[s]
    /\ to_close' = [to_close EXCEPT ![s] = CloseList]
    /\ pc' = [pc EXCEPT ![s] = "close"]
    /\ UNCHANGED <<file, descVars, bmp_run, reader, busVars, foreign>>

(* pthread_cancel from the signal handler takes effect at a call of the    *)
(* loop: unwinding closes both ends of the pipe, and ClientThread_cancel   *)
(* then closes the socket, if there still is one, and both ends again.     *)
Cancelled(s) ==
    /\ pc[s] \in {"loop", "close"}
    /\ to_close' = [to_close EXCEPT ![s] =
                      <<"pipe", "write", "sock_if_set", "pipe", "write">>]
    /\ pc' = [pc EXCEPT ![s] = "cancel"]
    /\ UNCHANGED <<file, descVars, bmp_run, reader, busVars, foreign>>

(* The next close() of either list. *)
CloseNext(s) ==
    /\ pc[s] \in {"close", "cancel"} /\ to_close[s] # <<>>
    /\ CASE Head(to_close[s]) = "pipe"  -> Close(pipe_sock[s])
         [] Head(to_close[s]) = "write" -> Close(write_sock[s])
         [] Head(to_close[s]) = "sock"  -> Close(c_sock[s])
         [] OTHER -> IF c_sock[s] # 0 THEN Close(c_sock[s]) ELSE UNCHANGED file
    /\ to_close' = [to_close EXCEPT ![s] = Tail(@)]
    /\ UNCHANGED <<descVars, pc, bmp_run, reader, busVars, foreign>>

(* All closed: the loop clears the flag and is left. *)
ClosedAll(s) ==
    /\ pc[s] = "close" /\ to_close[s] = <<>>
    /\ bmp_run' = [bmp_run EXCEPT ![s] = FALSE]
    /\ pc' = [pc EXCEPT ![s] = "left"]
    /\ UNCHANGED <<file, descVars, to_close, reader, busVars, foreign>>

(* The reader cleared the flag: the loop is left with the pipe open. *)
SeesStop(s) ==
    /\ pc[s] = "loop" /\ ~bmp_run[s]
    /\ pc' = [pc EXCEPT ![s] = "left"]
    /\ UNCHANGED <<file, descVars, to_close, bmp_run, reader, busVars, foreign>>

(* "Indicate that we are no longer running": too late to be cancelled. *)
NotRunning(s) ==
    /\ pc[s] = "left"
    /\ pc' = [pc EXCEPT ![s] = "join"]
    /\ UNCHANGED <<file, descVars, to_close, bmp_run, reader, busVars, foreign>>

(* The signal handler still finds the thread running after it removed its  *)
(* cleanup routine: cancelled in the join, it deletes nothing.             *)
CancelledLate(s) ==
    /\ pc[s] = "left"
    /\ pc' = [pc EXCEPT ![s] = "lost"]
    /\ UNCHANGED <<file, descVars, to_close, bmp_run, reader, busVars, foreign>>

(* The reader is joined and the bus deleted: "so that it sends a term message". *)
Ends(s) ==
    /\ pc[s] = "join" \/ (pc[s] = "cancel" /\ to_close[s] = <<>>)
    /\ reader[s] = "gone"
    /\ DeleteBus(s)
    /\ pc' = [pc EXCEPT ![s] = "gone"]
    /\ UNCHANGED <<file, descVars, to_close, bmp_run, reader, foreign>>

-----------------------------------------------------------------------------
(* The reader thread.                                                      *)

(* recv() on pipe_sock: whatever file has the number now. *)
Receives(s) ==
    /\ file[pipe_sock[s]] # Free
    /\ foreign' = IF file[pipe_sock[s]] = ReadEnd(s) THEN foreign ELSE foreign \cup {s}

(* The flag is tested, then handleMessage reads the header of a message.   *)
(* Every type but an initiation makes sure that the router is known.       *)
ReadHeader(s, type) ==
    /\ reader[s] = "check" /\ bmp_run[s]
    /\ Receives(s)
    /\ IF type = "init" THEN UNCHANGED busVars ELSE Announce(s)
    /\ reader' = [reader EXCEPT ![s] = type]
    /\ UNCHANGED <<file, descVars, pc, to_close, bmp_run>>

(* The rest of a message is read and processed, and its records published. *)
ReadBody(s) ==
    /\ reader[s] \in {"init", "other"}
    /\ Receives(s)
    /\ IF reader[s] = "init" THEN Announce(s) ELSE UNCHANGED busVars
    /\ reader' = [reader EXCEPT ![s] = "check"]
    /\ UNCHANGED <<file, descVars, pc, to_close, bmp_run>>

(* "Proceeding to disconnect router": the reader ends, the flag stays set. *)
ReadTerm(s) ==
    /\ reader[s] = "term"
    /\ Receives(s)
    /\ PublishTerm(s)
    /\ Close(c_sock[s])
    /\ reader' = [reader EXCEPT ![s] = "gone"]
    /\ UNCHANGED <<descVars, pc, to_close, bmp_run>>

(* A message does not parse, or recv() fails: disconnect() publishes the   *)
(* end of the router and closes its socket,                                *)
Disconnect(s) ==
    /\ \/ reader[s] = "check" /\ bmp_run[s]
       \/ reader[s] \in {"init", "other", "term"}
    /\ PublishTerm(s)
    /\ Close(c_sock[s])
    /\ reader' = [reader EXCEPT ![s] = "zero"]
    /\ UNCHANGED <<descVars, pc, to_close, bmp_run, foreign>>

NoSocket_Negative == -1

NoSocket == 0

(* forgets its number,                                                     *)
ForgetSocket(s) ==
    /\ reader[s] = "zero"
    /\ c_sock' = [c_sock EXCEPT ![s] = NoSocket]
    /\ reader' = [reader EXCEPT ![s] = "stop"]
    /\ UNCHANGED <<file, pipe_sock, write_sock, pc, to_close, bmp_run, busVars, foreign>>

(* and readerThreadLoop clears the flag and ends.                          *)
ReaderStops(s) ==
    /\ reader[s] = "stop"
    /\ bmp_run' = [bmp_run EXCEPT ![s] = FALSE]
    /\ reader' = [reader EXCEPT ![s] = "gone"]
    /\ UNCHANGED <<file, descVars, pc, to_close, busVars, foreign>>

(* while (run) finds the flag cleared. *)
ReaderSeesStop(s) ==
    /\ reader[s] = "check" /\ ~bmp_run[s]
    /\ reader' = [reader EXCEPT ![s] = "gone"]
    /\ UNCHANGED <<file, descVars, pc, to_close, bmp_run, busVars, foreign>>

-----------------------------------------------------------------------------
ClientStep(s) ==
    \/ Accept(s) \/ Start(s) \/ SeesClosed(s) \/ Cancelled(s) \/ CloseNext(s)
    \/ ClosedAll(s) \/ SeesStop(s) \/ NotRunning(s) \/ CancelledLate(s) \/ Ends(s)

ReaderStep(s) ==
    \/ \E type \in {"init", "term", "other"} : ReadHeader(s, type)
    \/ ReadBody(s) \/ ReadTerm(s) \/ Disconnect(s) \/ ForgetSocket(s)
    \/ ReaderStops(s) \/ ReaderSeesStop(s)

(* Every thread has ended. *)
AllGone ==
    /\ \A s \in Session : pc[s] \in {"gone", "lost"} /\ reader[s] = "gone"
    /\ UNCHANGED vars

Next == (\E s \in Session : ClientStep(s) \/ ReaderStep(s)) \/ AllGone

Spec == Init /\ [][Next]_vars

-----------------------------------------------------------------------------
(* Every variable has its type: whatever the threads do to c_sock and the  *)
(* pipe, they hold descriptor numbers.                                     *)
TypeOK ==
    /\ file \in [Fd -> File]
    /\ c_sock \in [Session -> Fd]
    /\ pipe_sock \in [Session -> Fd]
    /\ write_sock \in [Session -> Fd]
    /\ pc \in [Session -> {"none", "start", "loop", "close", "cancel", "left",
                           "join", "gone", "lost"}]
    /\ to_close \in [Session -> Seq({"pipe", "write", "sock", "sock_if_set"})]
    /\ bmp_run \in [Session -> BOOLEAN]
    /\ reader \in [Session -> {"none", "check", "init", "term", "other",
                               "zero", "stop", "gone"}]
    /\ router_hash \in [Session -> BOOLEAN]
    /\ announced \in [Session -> BOOLEAN]
    /\ terms \in [Session -> Nat]
    /\ foreign \subseteq Session

(* Consumers are told once that a router is gone, whichever of reader,     *)
(* disconnect() and destructor gets to it and in whatever order the        *)
(* threads stop: never twice, nothing re-announces the router afterwards,  *)
(* and no router that was announced is forgotten (but for a thread that is *)
(* cancelled when it already left its loop).                               *)
RouterTermedOnce ==
    \A s \in Session :
        /\ terms[s] <= 1
        /\ terms[s] = 1 => ~router_hash[s]
        /\ pc[s] = "gone" /\ announced[s] => terms[s] = 1

(* A router never stays connected to a session that is over: on every way  *)
(* out one of the two threads closed its connection, though both may       *)
(* change c_sock and either may act on a number the other closed.          *)
ConnectionClosed ==
    \A s \in Session :
        pc[s] \in {"gone", "lost"} => \A n \in Fd : file[n] # Conn(s)

(* BMPListener.h: "Piped socket for client stream (buffered)": what a      *)
(* reader receives from pipe_sock is its own client's stream.              *)
OwnStreamOnly == foreign = {}
=============================================================================
