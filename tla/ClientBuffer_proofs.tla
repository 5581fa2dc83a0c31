------------------------ MODULE ClientBuffer_proofs -------------------------
(***************************************************************************)
(* Proofs about ClientBuffer, for every buffer, block and pipe size: the   *)
(* circular buffer keeps its backlog intact, delivers in order, never      *)
(* shows the reader a byte of another descriptor, and implements the       *)
(* bounded byte stream of ByteStream.                                      *)
(***************************************************************************)
EXTENDS ClientBuffer, SequenceTheorems, TLAPS

(* Where the bytes came from: only router bytes are read while c_sock is   *)
(* the router's, and once it is not, the reader takes nothing more.        *)
StreamSource ==
    /\ sock = "router" => \A i \in 1..Len(in) : in[i] = i
    /\ sock # "router" => reader # "running" \/ ~pipe_open
    /\ taken <= Len(out)
    /\ \A i \in 1..taken : in[i] = i

(* The inductive invariant. *)
IInv == /\ TypeOK
        /\ PositionsOrdered
        /\ BacklogIntact
        /\ DeliveredInOrder
        /\ StreamSource

(* A block of n bytes is a sequence, and appending it adds n bytes behind  *)
(* the ones that are there: what one read() or one write() does to the     *)
(* history of its side.                                                    *)
LEMMA AppendBlock ==
    ASSUME NEW s \in Seq(Byte), NEW n \in Nat, NEW b \in [1..n -> Byte]
    PROVE  /\ s \o b \in Seq(Byte)
           /\ Len(s \o b) = Len(s) + n
           /\ \A i \in 1..Len(s) : (s \o b)[i] = s[i]
           /\ \A k \in 1..n : (s \o b)[Len(s) + k] = b[k]
<1>1. b \in Seq(Byte) /\ Len(b) = n
  OBVIOUS
<1>2. /\ s \o b \in Seq(Byte)
      /\ Len(s \o b) = Len(s) + Len(b)
      /\ \A i \in 1..Len(s) + Len(b) : (s \o b)[i] =
             IF i <= Len(s) THEN s[i] ELSE b[i - Len(s)]
  BY Zenon, <1>1, ConcatProperties
<1>3. Len(s) \in Nat
  BY LenProperties
<1>4. ASSUME NEW k \in 1..n PROVE (s \o b)[Len(s) + k] = b[k]
  <2>1. Len(s) + k \in 1..Len(s) + Len(b) /\ ~(Len(s) + k <= Len(s)) /\ Len(s) + k - Len(s) = k
    BY <1>1, <1>3
  <2> QED BY <1>2, <2>1
<1> QED BY <1>1, <1>2, <1>3, <1>4

(* What one read() gives: bytes. *)
LEMMA NextByteType ==
    ASSUME TypeOK, NEW n \in Nat
    PROVE  [k \in 1..n |-> NextByte(k)] \in [1..n -> Byte]
<1>1. Len(in) \in Nat
  BY LenProperties DEF TypeOK
<1> QED BY <1>1 DEF NextByte, Byte, Foreign

(* The buffer has room where read() puts its bytes, and with them it is    *)
(* still not past its end; behind a wrap one byte stays free.              *)
LEMMA FillFits ==
    ASSUME TypeOK, PositionsOrdered, CanFill, NEW n \in 1..FillLength
    PROVE  /\ n \in Nat /\ n > 0
           /\ write_buf_pos + n <= bmp_buffer_size
           /\ wrap_state => write_buf_pos + n < read_buf_pos
  BY BufferAssumption DEF TypeOK, PositionsOrdered, CanFill, FillLength

(* write() takes bytes that are held, from before the end of the buffer.   *)
LEMMA DrainFits ==
    ASSUME TypeOK, PositionsOrdered, CanDrain, NEW n \in 1..DrainLength
    PROVE  /\ n \in Nat /\ n > 0
           /\ n <= Held
           /\ read_buf_pos + n <= bmp_buffer_size
           /\ ~wrap_state => read_buf_pos + n <= write_buf_pos
  BY BufferAssumption DEF TypeOK, PositionsOrdered, CanDrain, DrainLength, AtMost, Held

(* The invariant holds when ClientThread enters its loop. *)
LEMMA InitInv == Init => IInv
<1> SUFFICES ASSUME Init PROVE IInv
  OBVIOUS
<1> USE BufferAssumption DEF Init
<1>1. in \in Seq(Byte) /\ out \in Seq(Byte) /\ Len(in) = 0 /\ Len(out) = 0
  OBVIOUS
<1>2. TypeOK
  <2>1. sock_buf \in [0..(bmp_buffer_size - 1) -> Byte]
    BY DEF NoByte, Byte, Foreign
  <2>2. write_buf_pos \in 0..bmp_buffer_size /\ read_buf_pos \in 0..bmp_buffer_size
        /\ taken \in Nat
    OBVIOUS
  <2>3. wrap_state \in BOOLEAN /\ bmp_run \in BOOLEAN /\ pipe_open \in BOOLEAN
    BY Zenon
  <2> QED BY <1>1, <2>1, <2>2, <2>3 DEF TypeOK
<1>3. PositionsOrdered /\ Held = 0
  BY DEF PositionsOrdered, Held
<1>4. BacklogIntact /\ DeliveredInOrder /\ StreamSource
  BY <1>1, <1>3 DEF BacklogIntact, DeliveredInOrder, StreamSource
<1> QED BY <1>2, <1>3, <1>4 DEF IInv

(* read() fills free slots behind the backlog and leaves the backlog alone. *)
LEMMA SockReadInv ==
    ASSUME IInv, NEW n \in 1..bmp_buffer_size, SockRead(n)
    PROVE  IInv'
<1> USE BufferAssumption
<1> DEFINE block == [k \in 1..n |-> NextByte(k)]
<1>1. TypeOK /\ PositionsOrdered /\ BacklogIntact /\ DeliveredInOrder /\ StreamSource
  BY DEF IInv
<1>2. /\ n \in Nat /\ n > 0
      /\ write_buf_pos + n <= bmp_buffer_size
      /\ wrap_state => write_buf_pos + n < read_buf_pos
  BY <1>1, FillFits DEF SockRead
<1>3. block \in [1..n -> Byte]
  BY <1>1, <1>2, NextByteType
<1>4. in \in Seq(Byte) /\ out \in Seq(Byte) /\ Len(in) \in Nat /\ Len(out) \in Nat
  BY <1>1, LenProperties DEF TypeOK
<1>5. /\ in' \in Seq(Byte)
      /\ Len(in') = Len(in) + n
      /\ \A i \in 1..Len(in) : in'[i] = in[i]
      /\ \A k \in 1..n : in'[Len(in) + k] = block[k]
  <2>1. in' = in \o block
    BY DEF SockRead
  <2> HIDE DEF block
  <2>2. /\ in \o block \in Seq(Byte)
        /\ Len(in \o block) = Len(in) + n
        /\ \A i \in 1..Len(in) : (in \o block)[i] = in[i]
        /\ \A k \in 1..n : (in \o block)[Len(in) + k] = block[k]
    BY ONLY <1>2, <1>3, <1>4, AppendBlock
  <2> QED BY ONLY <2>1, <2>2
<1>6. /\ write_buf_pos' = write_buf_pos + n
      /\ read_buf_pos' = read_buf_pos /\ wrap_state' = wrap_state
      /\ out' = out /\ taken' = taken
      /\ sock' = sock /\ reader' = reader /\ pipe_open' = pipe_open
  BY DEF SockRead
<1>7. sock_buf' \in [0..(bmp_buffer_size - 1) -> Byte]
  <2>1. ASSUME NEW i \in write_buf_pos..(write_buf_pos + n - 1)
        PROVE  NextByte(i - write_buf_pos + 1) \in Byte
    BY <1>1, <1>2, <1>4 DEF NextByte, Byte, Foreign, TypeOK
  <2> QED BY Zenon, <1>1, <2>1 DEF SockRead, TypeOK
<1>8. TypeOK'
  BY <1>1, <1>2, <1>5, <1>6, <1>7 DEF TypeOK, SockRead
<1>pos. /\ bmp_buffer_size \in Nat /\ wrap_state \in BOOLEAN
      /\ write_buf_pos \in 0..bmp_buffer_size /\ read_buf_pos \in 0..bmp_buffer_size
      /\ PositionsOrdered
  BY <1>1 DEF TypeOK
<1>9. PositionsOrdered'
  <2>1. pc' = "pipe" /\ (~wrap_state => read_buf_pos < write_buf_pos + n)
    BY <1>pos, <1>2 DEF SockRead, PositionsOrdered
  <2> QED BY ONLY <1>pos, <1>2, <1>6, <2>1 DEF PositionsOrdered
<1>10. BacklogIntact'
  <2>1. Held' = Held + n /\ Held \in Nat
    BY ONLY <1>pos, <1>2, <1>6 DEF Held, PositionsOrdered
  <2>2. Len(in') = Len(out') + Held'
    BY <1>1, <1>2, <1>4, <1>5, <1>6, <2>1 DEF BacklogIntact
  <2>3. ASSUME NEW k \in 0..(Held' - 1)
        PROVE  sock_buf'[Slot(k)'] = in'[Len(out') + k + 1]
    <3>1. Slot(k)' = Slot(k)
      BY <1>6 DEF Slot
    <3>2. CASE k < Held
      <4>1. Slot(k) \in 0..(bmp_buffer_size - 1)
            /\ Slot(k) \notin write_buf_pos..(write_buf_pos + n - 1)
        BY ONLY <1>pos, <1>2, <2>1, <3>2, k \in 0..(Held' - 1)
           DEF Slot, Held, PositionsOrdered
      <4>2. sock_buf'[Slot(k)] = sock_buf[Slot(k)]
        BY <4>1 DEF SockRead
      <4>3. k \in 0..(Held - 1) /\ Len(out) + k + 1 \in 1..Len(in)
        BY <1>1, <1>4, <2>1, <3>2 DEF BacklogIntact
      <4> QED BY Zenon, <1>1, <1>5, <1>6, <3>1, <4>2, <4>3 DEF BacklogIntact
    <3>3. CASE ~(k < Held)
      <4>1. PICK j \in 1..n : k = Held + j - 1
        <5>1. k - Held + 1 \in 1..n /\ k = Held + (k - Held + 1) - 1
          BY <1>2, <2>1, <3>3
        <5> QED BY <5>1
      <4>2. Slot(k) = write_buf_pos + j - 1
        <5>1. j \in 1..n
          OBVIOUS
        <5> QED BY ONLY <1>pos, <1>2, <4>1, <5>1 DEF Slot, Held, PositionsOrdered
      <4>3. /\ Slot(k) \in 0..(bmp_buffer_size - 1)
            /\ Slot(k) \in write_buf_pos..(write_buf_pos + n - 1)
            /\ Slot(k) - write_buf_pos + 1 = j
        BY <1>pos, <1>2, <4>1, <4>2
      <4>4. sock_buf'[Slot(k)] = NextByte(j)
        BY <4>3 DEF SockRead
      <4>5. Len(out') + k + 1 = Len(in) + j
        BY <1>1, <1>4, <1>6, <2>1, <4>1 DEF BacklogIntact
      <4> QED BY <1>5, <3>1, <4>4, <4>5
    <3> QED BY <3>2, <3>3
  <2> QED BY <2>2, <2>3 DEF BacklogIntact
<1>11. DeliveredInOrder'
  BY <1>1, <1>2, <1>4, <1>5, <1>6 DEF DeliveredInOrder
<1>12. StreamSource'
  <2>1. ASSUME sock = "router", NEW i \in 1..Len(in') PROVE in'[i] = i
    <3>1. CASE i <= Len(in)
      BY <1>1, <1>4, <1>5, <2>1, <3>1 DEF StreamSource
    <3>2. CASE ~(i <= Len(in))
      <4>1. i - Len(in) \in 1..n /\ Len(in) + (i - Len(in)) = i
        BY <1>2, <1>4, <1>5, <3>2
      <4> QED BY SMTT(30), <1>5, <2>1, <4>1 DEF NextByte
    <3> QED BY <3>1, <3>2
  <2>2. \A i \in 1..taken : in'[i] = in[i]
    BY <1>1, <1>4, <1>5 DEF StreamSource, DeliveredInOrder, TypeOK
  <2> QED BY <1>1, <1>6, <2>1, <2>2 DEF StreamSource
<1> QED BY <1>8, <1>9, <1>10, <1>11, <1>12 DEF IInv

(* write() sends the oldest held bytes, and the rest of the backlog stays   *)
(* where it is.                                                             *)
LEMMA PipeWriteInv ==
    ASSUME IInv, NEW n \in 1..CLIENT_WRITE_BUFFER_BLOCK_SIZE, PipeWrite(n)
    PROVE  IInv'
<1> USE BufferAssumption
<1> DEFINE block == [k \in 1..n |-> sock_buf[read_buf_pos + k - 1]]
<1>1. TypeOK /\ PositionsOrdered /\ BacklogIntact /\ DeliveredInOrder /\ StreamSource
  BY DEF IInv
<1>2. /\ n \in Nat /\ n > 0
      /\ n <= Held
      /\ read_buf_pos + n <= bmp_buffer_size
      /\ ~wrap_state => read_buf_pos + n <= write_buf_pos
  BY <1>1, DrainFits DEF PipeWrite
<1>3. in \in Seq(Byte) /\ out \in Seq(Byte) /\ Len(in) \in Nat /\ Len(out) \in Nat
  BY <1>1, LenProperties DEF TypeOK
<1>4. block \in [1..n -> Byte]
  BY <1>1, <1>2 DEF TypeOK
<1>5. /\ out' \in Seq(Byte)
      /\ Len(out') = Len(out) + n
      /\ \A i \in 1..Len(out) : out'[i] = out[i]
      /\ \A k \in 1..n : out'[Len(out) + k] = block[k]
  <2>1. out' = out \o block
    BY DEF PipeWrite
  <2> HIDE DEF block
  <2>2. /\ out \o block \in Seq(Byte)
        /\ Len(out \o block) = Len(out) + n
        /\ \A i \in 1..Len(out) : (out \o block)[i] = out[i]
        /\ \A k \in 1..n : (out \o block)[Len(out) + k] = block[k]
    BY ONLY <1>2, <1>3, <1>4, AppendBlock
  <2> QED BY ONLY <2>1, <2>2
<1>6. /\ read_buf_pos' = read_buf_pos + n
      /\ write_buf_pos' = write_buf_pos /\ wrap_state' = wrap_state
      /\ sock_buf' = sock_buf /\ in' = in /\ taken' = taken
      /\ sock' = sock /\ reader' = reader /\ pipe_open' = pipe_open
  BY DEF PipeWrite
<1>7. TypeOK'
  BY SMTT(30), <1>1, <1>2, <1>5, <1>6 DEF TypeOK, PipeWrite
<1>pos. /\ bmp_buffer_size \in Nat /\ wrap_state \in BOOLEAN
      /\ write_buf_pos \in 0..bmp_buffer_size /\ read_buf_pos \in 0..bmp_buffer_size
      /\ PositionsOrdered
  BY <1>1 DEF TypeOK
<1>8. PositionsOrdered'
  <2>1. pc' = "sock"
    BY DEF PipeWrite
  <2> QED BY ONLY <1>pos, <1>2, <1>6, <2>1 DEF PositionsOrdered
<1>9. Held' = Held - n /\ Held \in Nat
  BY ONLY <1>pos, <1>2, <1>6 DEF Held, PositionsOrdered
<1>10. \A k \in 1..n : block[k] = in[Len(out) + k]
  <2> SUFFICES ASSUME NEW k \in 1..n PROVE block[k] = in[Len(out) + k]
    OBVIOUS
  <2>1. k - 1 \in 0..(Held - 1) /\ Slot(k - 1) = read_buf_pos + k - 1
    BY <1>pos, <1>2, <1>9 DEF Slot
  <2>2. Len(out) + (k - 1) + 1 = Len(out) + k
    BY <1>2, <1>3
  <2> QED BY <1>1, <2>1, <2>2 DEF BacklogIntact
<1>11. BacklogIntact'
  <2>1. Len(in') = Len(out') + Held'
    <3>1. Len(in) = Len(out) + Held
      BY <1>1 DEF BacklogIntact
    <3> QED BY <1>2, <1>3, <1>5, <1>6, <1>9, <3>1
  <2>2. ASSUME NEW k \in 0..(Held' - 1)
        PROVE  sock_buf'[Slot(k)'] = in'[Len(out') + k + 1]
    <3>1. k + n \in 0..(Held - 1) /\ Slot(k)' = Slot(k + n)
      BY <1>pos, <1>2, <1>6, <1>9 DEF Slot
    <3>2. Len(out') + k + 1 = Len(out) + (k + n) + 1
      BY <1>2, <1>3, <1>5, <1>9
    <3> QED BY <1>1, <1>6, <3>1, <3>2 DEF BacklogIntact
  <2> QED BY <2>1, <2>2 DEF BacklogIntact
<1>12. DeliveredInOrder'
  <2>1. Len(out') <= Len(in')
    <3>1. Len(in) = Len(out) + Held
      BY <1>1 DEF BacklogIntact
    <3> QED BY <1>2, <1>3, <1>5, <1>6, <1>9, <3>1
  <2>2. ASSUME NEW i \in 1..Len(out') PROVE out'[i] = in'[i]
    <3>1. CASE i <= Len(out)
      <4>1. i \in 1..Len(out)
        BY <1>3, <3>1
      <4>2. out[i] = in[i]
        BY <1>1, <4>1 DEF DeliveredInOrder
      <4> HIDE DEF block
      <4> QED BY <1>5, <1>6, <4>1, <4>2
    <3>2. CASE ~(i <= Len(out))
      <4>1. i - Len(out) \in 1..n /\ Len(out) + (i - Len(out)) = i
        BY <1>2, <1>3, <1>5, <3>2
      <4> HIDE DEF block
      <4> QED BY Zenon, <1>5, <1>6, <1>10, <4>1
    <3> QED BY <3>1, <3>2
  <2> QED BY <2>1, <2>2 DEF DeliveredInOrder
<1>13. StreamSource'
  BY <1>1, <1>2, <1>3, <1>5, <1>6 DEF StreamSource, TypeOK
<1> QED BY <1>7, <1>8, <1>11, <1>12, <1>13 DEF IInv

(* Wrapping either position renames the slots of the backlog and moves none. *)
LEMMA WrapInv ==
    ASSUME IInv, SockWrap \/ PipeWrap
    PROVE  IInv'
<1> USE BufferAssumption
<1>1. TypeOK /\ PositionsOrdered /\ BacklogIntact /\ DeliveredInOrder /\ StreamSource
  BY DEF IInv
<1>2. /\ sock_buf' = sock_buf /\ in' = in /\ out' = out /\ taken' = taken
      /\ sock' = sock /\ reader' = reader /\ pipe_open' = pipe_open
      /\ bmp_run' = bmp_run /\ pc' \in {"sock", "pipe"}
  BY DEF SockWrap, PipeWrap, ReadAtEnd
<1>3. \/ /\ ~wrap_state /\ write_buf_pos = bmp_buffer_size /\ wrap_state'
         /\ wrap_state' \in BOOLEAN /\ write_buf_pos' = 0 /\ read_buf_pos' = read_buf_pos
      \/ /\ wrap_state /\ read_buf_pos = bmp_buffer_size /\ ~wrap_state'
         /\ wrap_state' \in BOOLEAN /\ read_buf_pos' = 0 /\ write_buf_pos' = write_buf_pos
  BY <1>1 DEF SockWrap, PipeWrap, ReadAtEnd, CanFill, CanDrain, TypeOK, PositionsOrdered
<1>4. TypeOK'
  BY <1>1, <1>2, <1>3 DEF TypeOK
<1>5. PositionsOrdered'
  BY <1>1, <1>3 DEF PositionsOrdered, TypeOK, SockWrap, PipeWrap, ReadAtEnd
<1>6. Held' = Held /\ Held \in Nat
  BY <1>1, <1>3 DEF Held, TypeOK, PositionsOrdered
<1>7. \A k \in 0..(Held - 1) : Slot(k)' = Slot(k)
  BY <1>1, <1>3, <1>6 DEF Slot, Held, TypeOK, PositionsOrdered
<1>8. BacklogIntact'
  BY <1>1, <1>2, <1>6, <1>7 DEF BacklogIntact
<1>9. DeliveredInOrder' /\ StreamSource'
  BY <1>1, <1>2 DEF DeliveredInOrder, StreamSource
<1> QED BY <1>4, <1>5, <1>8, <1>9 DEF IInv

(* Every other step of either thread leaves buffer and histories alone; the *)
(* reader's own steps only give up the socket together with reading.        *)
LEMMA OtherInv ==
    ASSUME IInv,
           \/ SockTimeout \/ SockClosed \/ SockStall \/ LoopExit
           \/ PipeTimeout \/ PipeClosed \/ PipeIdle
           \/ ReaderFails \/ ReaderStops \/ ReaderTerm \/ ReaderSeesStop
           \/ DescriptorReused
           \/ (\E n \in 1..PipeCapacity : ReaderTakes(n))
           \/ UNCHANGED vars
    PROVE  IInv'
<1> USE BufferAssumption
<1>1. TypeOK /\ PositionsOrdered /\ BacklogIntact /\ DeliveredInOrder /\ StreamSource
  BY DEF IInv
<1>2. Len(in) \in Nat /\ Len(out) \in Nat
  BY <1>1, LenProperties DEF TypeOK
<1>3. UNCHANGED <<bufVars, in, out>>
  BY DEF SockTimeout, SockClosed, SockStall, LoopExit, PipeTimeout, PipeClosed,
         PipeIdle, ReaderFails, ReaderStops, ReaderTerm, ReaderSeesStop,
         DescriptorReused, ReaderTakes, CloseAll, vars
<1>4. TypeOK'
  <2>1. /\ bmp_run' \in BOOLEAN /\ pipe_open' \in BOOLEAN
        /\ pc' \in {"sock", "pipe", "done"}
        /\ sock' \in {"router", "closed", "reused"}
        /\ reader' \in {"running", "failed", "gone"}
    BY SMTT(30), <1>1 DEF TypeOK, SockTimeout, SockClosed, SockStall, LoopExit, PipeTimeout,
         PipeClosed, PipeIdle, ReaderFails, ReaderStops, ReaderTerm, ReaderSeesStop,
         DescriptorReused, ReaderTakes, CloseAll, vars
  <2>2. taken' \in Nat
    BY <1>1, <1>2 DEF TypeOK, SockTimeout, SockClosed, SockStall, LoopExit, PipeTimeout,
         PipeClosed, PipeIdle, ReaderFails, ReaderStops, ReaderTerm, ReaderSeesStop,
         DescriptorReused, ReaderTakes, CloseAll, vars
  <2> QED BY <1>1, <1>3, <2>1, <2>2 DEF TypeOK, bufVars
<1>5. PositionsOrdered'
  <2>1. pc' = "pipe" => pc = "pipe" \/ write_buf_pos < bmp_buffer_size
    BY SMTT(30), <1>1 DEF SockTimeout, SockClosed, SockStall, LoopExit, PipeTimeout,
         PipeClosed, PipeIdle, ReaderFails, ReaderStops, ReaderTerm, ReaderSeesStop,
         DescriptorReused, ReaderTakes, CloseAll, vars, CanFill, TypeOK, PositionsOrdered
  <2> QED BY <1>1, <1>3, <2>1 DEF PositionsOrdered, TypeOK, bufVars
<1>6. BacklogIntact' /\ DeliveredInOrder'
  BY <1>1, <1>3 DEF BacklogIntact, DeliveredInOrder, Held, Slot, bufVars
<1>7. StreamSource'
  <2>1. CASE \E n \in 1..PipeCapacity : ReaderTakes(n)
    <3>1. PICK n \in 1..PipeCapacity : ReaderTakes(n)
      BY <2>1
    <3>2. taken' \in Nat /\ taken' <= Len(out) /\ Len(out) <= Len(in)
      BY <1>1, <1>2, <3>1 DEF ReaderTakes, TypeOK, DeliveredInOrder
    <3>3. sock = "router"
      BY <1>1, <3>1 DEF ReaderTakes, StreamSource
    <3>4. \A i \in 1..taken' : in[i] = i
      BY <1>1, <1>2, <3>2, <3>3 DEF StreamSource
    <3> QED BY <1>1, <1>3, <3>1, <3>2, <3>3, <3>4 DEF ReaderTakes, StreamSource, bufVars
  <2>2. CASE ~(\E n \in 1..PipeCapacity : ReaderTakes(n))
    <3>1. taken' = taken
      BY <2>2 DEF SockTimeout, SockClosed, SockStall, LoopExit, PipeTimeout,
         PipeClosed, PipeIdle, ReaderFails, ReaderStops, ReaderTerm, ReaderSeesStop,
         DescriptorReused, CloseAll, vars
    <3>2. sock' = "router" => sock = "router"
      BY <2>2 DEF SockTimeout, SockClosed, SockStall, LoopExit, PipeTimeout,
         PipeClosed, PipeIdle, ReaderFails, ReaderStops, ReaderTerm, ReaderSeesStop,
         DescriptorReused, CloseAll, vars
    <3>3. sock' # "router" => reader' # "running" \/ ~pipe_open'
      BY <1>1, <2>2 DEF TypeOK, StreamSource, SockTimeout, SockClosed, SockStall, LoopExit,
         PipeTimeout, PipeClosed, PipeIdle, ReaderFails, ReaderStops, ReaderTerm,
         ReaderSeesStop, DescriptorReused, CloseAll, vars
    <3> QED BY <1>1, <1>3, <3>1, <3>2, <3>3 DEF StreamSource
  <2> QED BY <2>1, <2>2
<1> QED BY <1>4, <1>5, <1>6, <1>7 DEF IInv

(* The invariant is inductive. *)
LEMMA NextInv == IInv /\ [Next]_vars => IInv'
<1> SUFFICES ASSUME IInv, [Next]_vars PROVE IInv'
  OBVIOUS
<1>1. CASE \E n \in 1..bmp_buffer_size : SockRead(n)
  BY <1>1, SockReadInv
<1>2. CASE \E n \in 1..CLIENT_WRITE_BUFFER_BLOCK_SIZE : PipeWrite(n)
  BY <1>2, PipeWriteInv
<1>3. CASE SockWrap \/ PipeWrap
  BY <1>3, WrapInv
<1> QED BY <1>1, <1>2, <1>3, OtherInv DEF Next, ClientStep, ReaderStep, Ended

(* For every buffer size, block size and pipe capacity, the loop of         *)
(* ClientThread keeps the invariant.                                        *)
THEOREM Invariance == Spec => []IInv
  BY InitInv, NextInv, PTL DEF Spec

(* Type correctness: both positions of the circular buffer stay within it. *)
THEOREM TypeCorrect == Spec => []TypeOK
  BY Invariance, PTL DEF IInv

(* Bytes read from the socket and not yet sent are all in the buffer, in    *)
(* order, whatever the two positions have wrapped.                          *)
THEOREM BacklogKept == Spec => [](PositionsOrdered /\ BacklogIntact)
  BY Invariance, PTL DEF IInv

(* The pipe to the BMP reader carries the bytes of the socket in order.     *)
THEOREM InOrder == Spec => []DeliveredInOrder
  BY Invariance, PTL DEF IInv

(* The BMP reader only ever receives its own router's stream, from the      *)
(* start: the client thread may read from a descriptor that the reader has  *)
(* closed and the process reused, but such bytes stop in the pipe.          *)
THEOREM RouterStreamOnly == Spec => []ReaderSeesRouterStream
<1>1. IInv => ReaderSeesRouterStream
  BY LenProperties DEF IInv, TypeOK, StreamSource, DeliveredInOrder, ReaderSeesRouterStream
<1> QED BY <1>1, Invariance, PTL

-----------------------------------------------------------------------------
(* A step of the loop is a step of the byte stream or changes none of it. *)
LEMMA StepRefines ==
    ASSUME IInv, IInv', [Next]_vars
    PROVE  [Stream!Next]_(Stream!streamVars)
<1> USE BufferAssumption
<1>1. /\ in \in Seq(Byte) /\ out \in Seq(Byte) /\ in' \in Seq(Byte) /\ out' \in Seq(Byte)
      /\ Len(in) \in Nat /\ Len(out) \in Nat /\ Len(in') \in Nat /\ Len(out') \in Nat
  BY LenProperties DEF IInv, TypeOK
<1>2. ASSUME NEW n \in 1..bmp_buffer_size, SockRead(n) PROVE Stream!Enter
  <2> DEFINE block == [k \in 1..n |-> NextByte(k)]
  <2>1. n \in Nat /\ n > 0 /\ block \in [1..n -> Byte]
    <3>1. n \in Nat /\ n > 0
      OBVIOUS
    <3>2. TypeOK
      BY DEF IInv
    <3> QED BY ONLY <3>1, <3>2, NextByteType
  <2>2. Len(in') = Len(in) + n /\ \A i \in 1..Len(in) : in'[i] = in[i]
    <3>1. in' = in \o block
      BY <1>2 DEF SockRead
    <3> HIDE DEF block
    <3>2. Len(in \o block) = Len(in) + n /\ \A i \in 1..Len(in) : (in \o block)[i] = in[i]
      BY ONLY <1>1, <2>1, AppendBlock
    <3> QED BY ONLY <3>1, <3>2
  <2>3. Len(in') = Len(out') + Held' /\ Held' \in 0..bmp_buffer_size
    <3>1. /\ write_buf_pos' \in 0..bmp_buffer_size /\ read_buf_pos' \in 0..bmp_buffer_size
          /\ wrap_state' \in BOOLEAN /\ PositionsOrdered'
      BY DEF IInv, TypeOK
    <3>2. Held' \in 0..bmp_buffer_size
      <4> HIDE DEF block
      <4> DEFINE w == write_buf_pos'  r == read_buf_pos'  wrapped == wrap_state'
      <4>1. w \in 0..bmp_buffer_size /\ r \in 0..bmp_buffer_size
            /\ Held' = (IF wrapped THEN (bmp_buffer_size - r) + w ELSE w - r)
            /\ (IF wrapped THEN w < r \/ (w = 0 /\ r = 0) ELSE r <= w)
        BY <3>1 DEF PositionsOrdered, Held
      <4> HIDE DEF w, r, wrapped
      <4> QED BY <4>1
    <3> QED BY <3>2 DEF IInv, BacklogIntact
  <2>4. pc = "sock" /\ pc' = "pipe" /\ out' = out
    BY <1>2 DEF SockRead
  <2> QED BY <1>1, <2>1, <2>2, <2>3, <2>4 DEF Stream!Enter
<1>3. ASSUME NEW n \in 1..CLIENT_WRITE_BUFFER_BLOCK_SIZE, PipeWrite(n) PROVE Stream!Leave
  <2> DEFINE block == [k \in 1..n |-> sock_buf[read_buf_pos + k - 1]]
  <2> DEFINE sent == SubSeq(in, Len(out) + 1, Len(out) + n)
  <2>1. n \in Nat /\ n > 0 /\ n <= Held /\ read_buf_pos + n <= bmp_buffer_size
    BY <1>3, DrainFits DEF PipeWrite, IInv
  <2>2. block \in [1..n -> Byte]
    BY <2>1 DEF IInv, TypeOK
  <2>3. out' = out \o block /\ in' = in /\ pc = "pipe" /\ pc' = "sock"
    BY <1>3 DEF PipeWrite
  <2>4. /\ Len(out') = Len(out) + n
        /\ \A k \in 1..n : out'[Len(out) + k] = block[k]
    <3> HIDE DEF block
    <3>1. /\ Len(out \o block) = Len(out) + n
          /\ \A k \in 1..n : (out \o block)[Len(out) + k] = block[k]
      BY ONLY <1>1, <2>1, <2>2, AppendBlock
    <3> QED BY ONLY <2>3, <3>1
  <2>5. Len(out') <= Len(in) /\ \A i \in 1..Len(out') : out'[i] = in[i]
    BY <2>3 DEF IInv, DeliveredInOrder
  <2>6. sent \in Seq(Byte) /\ Len(sent) = n /\ \A k \in 1..n : sent[k] = in[Len(out) + k]
    <3>1. \A i \in (Len(out) + 1)..(Len(out) + n) : in[i] \in Byte
      BY <1>1, <2>1, <2>4, <2>5, ElementOfSeq
    <3>2. Len(out) + 1 \in Int /\ Len(out) + n \in Int
      BY <1>1, <2>1
    <3>3. /\ sent \in Seq(Byte)
          /\ Len(sent) = IF Len(out) + 1 <= Len(out) + n
                         THEN (Len(out) + n) - (Len(out) + 1) + 1 ELSE 0
          /\ \A i \in 1..((Len(out) + n) - (Len(out) + 1) + 1) :
                sent[i] = in[(Len(out) + 1) + i - 1]
      BY <3>1, <3>2, SubSeqProperties
    <3> QED BY <1>1, <2>1, <3>3
  <2>7. block \in Seq(Byte) /\ Len(block) = n
    BY <2>1, <2>2
  <2>8. ASSUME NEW k \in 1..n PROVE block[k] = sent[k]
    <3>1. Len(out) + k \in 1..Len(out')
      BY <1>1, <2>1, <2>4
    <3> HIDE DEF block, sent
    <3> QED BY SMTT(30), <2>4, <2>5, <2>6, <3>1
  <2>9. block = sent
    <3> HIDE DEF block, sent
    <3> QED BY <2>6, <2>7, <2>8, SeqEqual
  <2>10. n \in 1..(Len(in) - Len(out))
    BY <1>1, <2>1, <2>4, <2>5
  <2> QED BY Zenon, <2>3, <2>9, <2>10 DEF Stream!Leave
<1>4. CASE SockClosed \/ PipeClosed \/ LoopExit
  BY <1>4 DEF SockClosed, PipeClosed, LoopExit, CloseAll, Stream!Next, Stream!End
<1>5. CASE \/ SockTimeout \/ SockWrap \/ SockStall \/ PipeTimeout \/ PipeWrap \/ PipeIdle
           \/ ReaderStep \/ DescriptorReused \/ Ended \/ UNCHANGED vars
  BY <1>5 DEF SockTimeout, SockWrap, SockStall, PipeTimeout, PipeWrap, ReadAtEnd, PipeIdle,
      ReaderStep, ReaderTakes, ReaderFails, ReaderStops, ReaderTerm, ReaderSeesStop,
      DescriptorReused, Ended, vars, bufVars, Stream!streamVars
<1> QED BY <1>2, <1>3, <1>4, <1>5 DEF Next, ClientStep, Stream!Next

(* The circular buffer implements a bounded first-in first-out byte stream  *)
(* of its own size, for every size.                                         *)
THEOREM BufferIsStream == Spec => StreamSpec
<1>1. Init => Stream!Init
  BY DEF Init, Stream!Init
<1>2. IInv /\ IInv' /\ [Next]_vars => [Stream!Next]_(Stream!streamVars)
  BY StepRefines
<1> QED BY <1>1, <1>2, Invariance, PTL DEF Spec, StreamSpec, Stream!Spec
=============================================================================
