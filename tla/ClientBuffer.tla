---------------------------- MODULE ClientBuffer ----------------------------
(***************************************************************************)
(* The body of a client thread (Server/src/client_thread.cpp, ClientThread *)
(* lines 111-249): one thread moves the bytes of a router's TCP socket     *)
(* through a circular buffer into a socket pair, whose other end a second  *)
(* thread, the BMP reader, takes them from.                                *)
(*                                                                         *)
(* Bytes are data the thread never looks at.  The n-th byte a router sends *)
(* is the number n, so that loss, repetition and reordering all show; a    *)
(* byte read from a descriptor that is no longer the router's is Foreign.  *)
(*                                                                         *)
(* A definition D_Word is D with one mistake; no behaviour of the model    *)
(* uses it, it shows that a property depends on D.                         *)
(***************************************************************************)
EXTENDS Naturals, Sequences

CONSTANTS bmp_buffer_size,                  \* cfg->bmp_buffer_size
          CLIENT_WRITE_BUFFER_BLOCK_SIZE,   \* most bytes per write to the pipe
          PipeCapacity,                     \* bytes the socket pair holds
          MaxBytes                          \* bound on the bytes ever read

(***************************************************************************)
(* poll() reports a UNIX stream socket writable only while a large part of *)
(* its send buffer is free (over 100 KB by default), so a writable pipe    *)
(* takes a whole block of 8 KB and write() does not block.                 *)
(***************************************************************************)
ASSUME BufferAssumption ==
    /\ bmp_buffer_size \in Nat \ {0}
    /\ CLIENT_WRITE_BUFFER_BLOCK_SIZE \in Nat \ {0}
    /\ PipeCapacity \in Nat
    /\ CLIENT_WRITE_BUFFER_BLOCK_SIZE <= PipeCapacity
    /\ MaxBytes \in Nat

Foreign == 0
Byte == Nat

VARIABLES
    sock_buf,        \* the circular buffer
    write_buf_pos,   \* where the next byte from the socket goes
    read_buf_pos,    \* where the next byte for the pipe is
    wrap_state,      \* the write position wrapped and the read one has not
    bmp_run,         \* loop flag shared by the two threads
    pc,              \* client thread: top of the loop, its second half, left it
    sock,            \* what client->c_sock names: the "router"'s connection, a
                     \* "closed" descriptor, or one "reused" for something else
    pipe_open,       \* sock_fds[0] and sock_fds[1] are open
    reader,          \* BMP reader: "running", "failed" (disconnect() done), "gone"
    in,              \* history: every byte read() put into sock_buf
    out,             \* history: every byte write() put into the pipe
    taken            \* how many bytes of out the reader has received

bufVars == <<sock_buf, write_buf_pos, read_buf_pos, wrap_state>>
vars == <<bufVars, bmp_run, pc, sock, pipe_open, reader, in, out, taken>>

NoByte == [i \in 0..(bmp_buffer_size - 1) |-> Foreign]

(* What ClientThread sets up before its loop (sock_buf is uninitialised;   *)
(* no byte of it is sent before it is written).                            *)
Init == /\ sock_buf = NoByte
        /\ write_buf_pos = 0
        /\ read_buf_pos = 0
        /\ wrap_state = FALSE
        /\ bmp_run = TRUE
        /\ pc = "sock"
        /\ sock = "router"
        /\ pipe_open = TRUE
        /\ reader = "running"
        /\ in = <<>>
        /\ out = <<>>
        /\ taken = 0

-----------------------------------------------------------------------------
(* First half of the loop: socket into buffer.                             *)

CanFill == \/ wrap_state /\ write_buf_pos + 1 < read_buf_pos
           \/ ~wrap_state /\ write_buf_pos < bmp_buffer_size

FillLength_Whole == bmp_buffer_size

FillLength_NoGap == IF wrap_state THEN read_buf_pos - write_buf_pos
                                  ELSE bmp_buffer_size - write_buf_pos

FillLength_NoWrap == bmp_buffer_size - write_buf_pos

(* The length given to read(). *)
FillLength == IF wrap_state THEN read_buf_pos - write_buf_pos - 1
                            ELSE bmp_buffer_size - write_buf_pos

(* The byte that the k-th byte of one read() is. *)
NextByte(k) == IF sock = "router" THEN Len(in) + k ELSE Foreign

(* poll() reports data and read() returns n > 0 bytes. *)
SockRead(n) ==
    /\ pc = "sock" /\ bmp_run
    /\ CanFill /\ sock # "closed"
    /\ n \in 1..FillLength
    /\ Len(in) + n <= MaxBytes
    /\ sock_buf' = [i \in 0..(bmp_buffer_size - 1) |->
                      IF i \in write_buf_pos..(write_buf_pos + n - 1)
                      THEN NextByte(i - write_buf_pos + 1) ELSE sock_buf[i]]
    /\ write_buf_pos' = write_buf_pos + n
    /\ in' = in \o [k \in 1..n |-> NextByte(k)]
    /\ pc' = "pipe"
    /\ UNCHANGED <<read_buf_pos, wrap_state, bmp_run, sock, pipe_open, reader,
                   out, taken>>

(* Nothing arrives within the 5 ms of the poll(). *)
SockTimeout ==
    /\ pc = "sock" /\ bmp_run
    /\ CanFill /\ sock # "closed"
    /\ pc' = "pipe"
    /\ UNCHANGED <<bufVars, bmp_run, sock, pipe_open, reader, in, out, taken>>

(* All three descriptors are closed, the flag is cleared, the loop is left. *)
CloseAll ==
    /\ bmp_run' = FALSE
    /\ pc' = "done"
    /\ sock' = "closed"
    /\ pipe_open' = FALSE
    /\ UNCHANGED <<bufVars, reader, in, out, taken>>

SockClosed_Retry ==
    pc = "sock" /\ bmp_run /\ CanFill /\ sock # "closed" /\ CloseAll

(* POLLHUP, POLLERR, end of file or an error from read(), the only outcome  *)
(* for a descriptor that is closed (poll() says POLLNVAL, read() EBADF).    *)
SockClosed == pc = "sock" /\ bmp_run /\ CanFill /\ CloseAll

(* The write position is at the end of the buffer. *)
SockWrap ==
    /\ pc = "sock" /\ bmp_run
    /\ ~CanFill
    /\ write_buf_pos >= bmp_buffer_size
    /\ write_buf_pos' = 0
    /\ wrap_state' = TRUE
    /\ pc' = "pipe"
    /\ UNCHANGED <<sock_buf, read_buf_pos, bmp_run, sock, pipe_open, reader,
                   in, out, taken>>

(* The buffer is full: "buffer stall, waiting for read to catch up". *)
SockStall ==
    /\ pc = "sock" /\ bmp_run
    /\ ~CanFill
    /\ write_buf_pos < bmp_buffer_size
    /\ pc' = "pipe"
    /\ UNCHANGED <<bufVars, bmp_run, sock, pipe_open, reader, in, out, taken>>

(* while (bmp_run) ends because the reader cleared the flag; nothing is    *)
(* closed on this way out.                                                 *)
LoopExit ==
    /\ pc = "sock" /\ ~bmp_run
    /\ pc' = "done"
    /\ UNCHANGED <<bufVars, bmp_run, sock, pipe_open, reader, in, out, taken>>

-----------------------------------------------------------------------------
(* Second half of the loop: buffer into pipe.                              *)

CanDrain == \/ ~wrap_state /\ read_buf_pos < write_buf_pos
            \/ wrap_state /\ read_buf_pos < bmp_buffer_size

AtMost(n, m) == IF n > m THEN m ELSE n

DrainLength_NoWrap ==
    AtMost(bmp_buffer_size - read_buf_pos, CLIENT_WRITE_BUFFER_BLOCK_SIZE)

(* The length given to write(). *)
DrainLength ==
    AtMost(IF wrap_state THEN bmp_buffer_size - read_buf_pos
                         ELSE write_buf_pos - read_buf_pos,
           CLIENT_WRITE_BUFFER_BLOCK_SIZE)

PipeWritable ==
    Len(out) - taken + CLIENT_WRITE_BUFFER_BLOCK_SIZE <= PipeCapacity

(* poll() reports room and write() accepts n bytes (it may be a short write). *)
PipeWrite(n) ==
    /\ pc = "pipe"
    /\ CanDrain
    /\ PipeWritable
    /\ n \in 1..DrainLength
    /\ out' = out \o [k \in 1..n |-> sock_buf[read_buf_pos + k - 1]]
    /\ read_buf_pos' = read_buf_pos + n
    /\ pc' = "sock"
    /\ UNCHANGED <<sock_buf, write_buf_pos, wrap_state, bmp_run, sock,
                   pipe_open, reader, in, taken>>

(* The reader is behind and the pipe has no room for 10 ms. *)
PipeTimeout ==
    /\ pc = "pipe"
    /\ CanDrain
    /\ ~PipeWritable
    /\ pc' = "sock"
    /\ UNCHANGED <<bufVars, bmp_run, sock, pipe_open, reader, in, out, taken>>

(* POLLHUP or POLLERR on the pipe: its other end was closed by a thread   *)
(* that closed a number of its own a second time.                          *)
PipeClosed == pc = "pipe" /\ CanDrain /\ CloseAll

ReadAtEnd_Past == read_buf_pos > bmp_buffer_size

(* The read position is at the end of the buffer. *)
ReadAtEnd == read_buf_pos >= bmp_buffer_size

PipeWrap ==
    /\ pc = "pipe"
    /\ ~CanDrain
    /\ ReadAtEnd
    /\ read_buf_pos' = 0
    /\ wrap_state' = FALSE
    /\ pc' = "sock"
    /\ UNCHANGED <<sock_buf, write_buf_pos, bmp_run, sock, pipe_open, reader,
                   in, out, taken>>

(* The buffer is empty. *)
PipeIdle ==
    /\ pc = "pipe"
    /\ ~CanDrain
    /\ ~ReadAtEnd
    /\ pc' = "sock"
    /\ UNCHANGED <<bufVars, bmp_run, sock, pipe_open, reader, in, out, taken>>

-----------------------------------------------------------------------------
(* The other end of the pipe: BMPReader::readerThreadLoop.                 *)

(* One recv() of the reader. *)
ReaderTakes(n) ==
    /\ reader = "running" /\ pipe_open
    /\ n \in 1..(Len(out) - taken)
    /\ taken' = taken + n
    /\ UNCHANGED <<bufVars, bmp_run, pc, sock, pipe_open, reader, in, out>>

(* A message does not parse, or the pipe is closed under the reader:       *)
(* disconnect() closes the router's socket and sets c_sock to 0, which is   *)
(* closed in a daemon until some open() is given it.                       *)
ReaderFails ==
    /\ reader = "running"
    /\ reader' = "failed"
    /\ sock' \in {"closed", "reused"}
    /\ UNCHANGED <<bufVars, bmp_run, pc, pipe_open, in, out, taken>>

(* readerThreadLoop catches what ReadIncomingMsg rethrows after disconnect(). *)
ReaderStops ==
    /\ reader = "failed"
    /\ reader' = "gone"
    /\ bmp_run' = FALSE
    /\ UNCHANGED <<bufVars, pc, sock, pipe_open, in, out, taken>>

ReaderTerm_GoesOn ==
    /\ reader = "running" /\ pipe_open
    /\ sock' = "closed"
    /\ UNCHANGED <<bufVars, bmp_run, pc, pipe_open, reader, in, out, taken>>

(* A BMP termination message: the socket is closed and the loop left, but  *)
(* the flag is not cleared.                                                *)
ReaderTerm ==
    /\ reader = "running" /\ pipe_open
    /\ reader' = "gone"
    /\ sock' = "closed"
    /\ UNCHANGED <<bufVars, bmp_run, pc, pipe_open, in, out, taken>>

(* while (run) ends between two messages. *)
ReaderSeesStop ==
    /\ reader = "running" /\ ~bmp_run
    /\ reader' = "gone"
    /\ UNCHANGED <<bufVars, bmp_run, pc, sock, pipe_open, in, out, taken>>

(* Another thread of the process is given the number c_sock still holds. *)
DescriptorReused ==
    /\ sock = "closed" /\ pc # "done"
    /\ sock' = "reused"
    /\ UNCHANGED <<bufVars, bmp_run, pc, pipe_open, reader, in, out, taken>>

-----------------------------------------------------------------------------
ClientStep ==
    \/ \E n \in 1..bmp_buffer_size : SockRead(n)
    \/ SockTimeout
    \/ SockClosed
    \/ SockWrap
    \/ SockStall
    \/ LoopExit
    \/ \E n \in 1..CLIENT_WRITE_BUFFER_BLOCK_SIZE : PipeWrite(n)
    \/ PipeTimeout
    \/ PipeClosed
    \/ PipeWrap
    \/ PipeIdle

ReaderStep ==
    \/ \E n \in 1..PipeCapacity : ReaderTakes(n)
    \/ ReaderFails
    \/ ReaderStops
    \/ ReaderTerm
    \/ ReaderSeesStop

(* Both threads have ended. *)
Ended == pc = "done" /\ reader = "gone" /\ UNCHANGED vars

Next == ClientStep \/ ReaderStep \/ DescriptorReused \/ Ended

Spec == Init /\ [][Next]_vars

(***************************************************************************)
(* The client thread keeps running, and a reader that has bytes waiting    *)
(* takes some: a reader blocked in the message bus is the one exception,   *)
(* and then the bytes wait in the buffer as they should.                   *)
(***************************************************************************)
Fairness == /\ WF_vars(ClientStep)
            /\ WF_vars(\E n \in 1..PipeCapacity : ReaderTakes(n))

FairSpec == Spec /\ Fairness

-----------------------------------------------------------------------------
(* Every variable has its type; both positions stay within the buffer, end *)
(* included, so no read() or write() of the loop leaves sock_buf.          *)
TypeOK ==
    /\ sock_buf \in [0..(bmp_buffer_size - 1) -> Byte]
    /\ write_buf_pos \in 0..bmp_buffer_size
    /\ read_buf_pos \in 0..bmp_buffer_size
    /\ wrap_state \in BOOLEAN
    /\ bmp_run \in BOOLEAN
    /\ pc \in {"sock", "pipe", "done"}
    /\ sock \in {"router", "closed", "reused"}
    /\ pipe_open \in BOOLEAN
    /\ reader \in {"running", "failed", "gone"}
    /\ in \in Seq(Byte)
    /\ out \in Seq(Byte)
    /\ taken \in Nat

(* How many bytes lie between the two positions. *)
Held == IF wrap_state THEN (bmp_buffer_size - read_buf_pos) + write_buf_pos
                      ELSE write_buf_pos - read_buf_pos

(* Where in sock_buf the k-th held byte is, counting from 0. *)
Slot(k) == IF read_buf_pos + k < bmp_buffer_size
           THEN read_buf_pos + k ELSE read_buf_pos + k - bmp_buffer_size

(* The two positions never cross: without a wrap the read position is not  *)
(* past the write one; with it the write position is behind the read one,  *)
(* or both are 0, a full buffer that wrapped before anything was sent.  A  *)
(* read position at the end of the buffer waits there for the write one to *)
(* wrap first: wrapping it alone would send the whole buffer again.        *)
PositionsOrdered ==
    IF wrap_state
    THEN write_buf_pos < read_buf_pos \/ (write_buf_pos = 0 /\ read_buf_pos = 0)
    ELSE /\ read_buf_pos <= write_buf_pos
         /\ pc = "pipe" => read_buf_pos < bmp_buffer_size

(* Nothing is lost or overwritten inside the buffer: whatever was read     *)
(* from the socket and not yet written to the pipe is there, in order.     *)
BacklogIntact ==
    /\ Len(in) = Len(out) + Held
    /\ \A k \in 0..(Held - 1) : sock_buf[Slot(k)] = in[Len(out) + k + 1]

(* The pipe carries exactly the bytes of the socket, in their order: no    *)
(* wrap of either position drops, repeats or reorders a byte.              *)
DeliveredInOrder ==
    /\ Len(out) <= Len(in)
    /\ \A i \in 1..Len(out) : out[i] = in[i]

(* What the reader takes from the pipe is the router's stream, from its    *)
(* first byte on: bytes the client thread picks up from a descriptor that  *)
(* stopped being the router's never get as far as the parser.              *)
ReaderSeesRouterStream ==
    /\ taken <= Len(out)
    /\ \A i \in 1..taken : out[i] = i

(* The buffer is the bounded byte stream of ByteStream. *)
Stream == INSTANCE ByteStream WITH
            Capacity <- bmp_buffer_size, open <- (pc # "done")
StreamSpec == Stream!Spec

(* As long as both threads go on, every byte read from the router reaches  *)
(* the reader, however full the buffer and the pipe get.                   *)
EveryByteArrives ==
    \A n \in 1..MaxBytes :
        (Len(in) >= n) ~> (taken >= n \/ pc = "done" \/ reader # "running")

(* Buffer and pipe are both full. *)
Stalled == ~CanFill /\ write_buf_pos < bmp_buffer_size /\ CanDrain /\ ~PipeWritable

(* After a termination message the client thread finds its socket closed   *)
(* and ends, though nobody cleared bmp_run; only a full buffer behind a    *)
(* full pipe, which nobody empties now, or a reuse of the descriptor keeps *)
(* it in the loop.                                                         *)
TermEndsLoop ==
    (reader = "gone" /\ sock = "closed") ~>
        (pc = "done" \/ sock = "reused" \/ Stalled)
=============================================================================
