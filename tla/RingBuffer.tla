------------------------------ MODULE RingBuffer ------------------------------
(***************************************************************************)
(* edt_ring_buffer_t of embedded_debug_toolkit/src/core/ring_buffer.c: a   *)
(* lock-free byte queue made of an array and two free-running size_t       *)
(* counters.  A call is modelled at the grain of its atomic loads, of its  *)
(* copy one byte at a time, and of its releasing store, so that the two    *)
(* sides interleave wherever the hardware lets them.                       *)
(*                                                                         *)
(* The single producer is the sampling thread.  Consumers is a set because *)
(* the program has more callers of edt_ring_buffer_read than its design    *)
(* says: see MCRingBuffer.                                                 *)
(*                                                                         *)
(* The n-th byte ever accepted carries n % Wrap, so a byte that is lost,   *)
(* handed out twice or overwritten is told apart from its neighbours.      *)
(***************************************************************************)
EXTENDS Integers, Sequences

CONSTANTS Capacity,   \* rb->capacity, after rounding
          Wrap,       \* size_t arithmetic is modulo Wrap (2^64 in the build)
          Consumers,  \* the threads that call edt_ring_buffer_read
          Lens        \* the lengths the callers pass

\* rb->capacity is at least 2 and a power of two, so it divides 2^64.
ASSUME CapacityAssumption == Capacity \in Nat /\ Capacity >= 2
ASSUME WrapAssumption == Wrap \in Nat /\ Wrap > Capacity /\ Wrap % Capacity = 0
\* Any size_t, also more than the buffer holds (a SUMP capture asks for up to
\* 2^20 samples).  A call with length 0 returns and changes nothing.
ASSUME LensAssumption == Lens \subseteq 1..Wrap-1

VARIABLES
  data,       \* rb->data: the byte in each cell
  write_pos,  \* rb->write_pos
  read_pos,   \* rb->read_pos
  accepted,   \* history: the number of the next byte to be accepted
  handed,     \* history: what the last completed read handed out
  wPc, wWrite, wLen, wCount, wDone,         \* the producer's call in progress
  rPc, rWrite, rRead, rLen, rCount, rOut,   \* each consumer's call in progress
  peeking     \* whether each consumer's call is edt_ring_buffer_peek

shared == <<data, write_pos, read_pos>>
history == <<accepted, handed>>
writer == <<wPc, wWrite, wLen, wCount, wDone>>
readers == <<rPc, rWrite, rRead, rLen, rCount, rOut, peeking>>
vars == <<shared, history, writer, readers>>

Counter == 0..Wrap-1
Cell == 0..Capacity-1

\* Mutants: counters that do not wrap; a mask one short; one byte too many.
AddUnwrapped(a, b) == a + b
CellOfShort(pos) == pos % (Capacity - 1)
SpaceOneMore(w, r) == Capacity - ((w - r) % Wrap) + 1

\* size_t addition and subtraction.
Add(a, b) == (a + b) % Wrap
Sub(a, b) == (a - b) % Wrap

\* pos & rb->mask.
CellOf(pos) == pos % Capacity

\* Where the two memcpy of a call that starts at pos put or find byte i: the
\* first goes up to the end of the array, the second starts at its beginning
\* and takes all the rest, however much that is.
CellAt(pos, i) ==
  LET first_chunk == Capacity - CellOf(pos)
  IN  IF i < first_chunk THEN CellOf(pos) + i ELSE i - first_chunk

\* What a copy finds there: the byte of the array, or anything behind it.
BytesAt(cell) == IF cell \in Cell THEN {data[cell]} ELSE Counter

Least(a, b) == IF a < b THEN a ELSE b

\* edt_ring_buffer_available_data and edt_ring_buffer_available_space.
Available(w, r) == Sub(w, r)
Space(w, r) == Sub(Capacity, Available(w, r))

\* The smallest power of two that holds v bytes: what edt_ring_buffer_init
\* makes of the requested capacity.
RoundUpPow2(v) ==
  LET powers == {2^i : i \in 0..v}
  IN  CHOOSE p \in powers : p >= v /\ \A q \in powers : q >= v => p <= q

-------------------------------------------------------------------------------

Init ==
  /\ data = [c \in Cell |-> 0]
  /\ write_pos = 0 /\ read_pos = 0
  /\ accepted = 0 /\ handed = << >>
  /\ wPc = "idle" /\ wWrite = 0 /\ wLen = 0 /\ wCount = 0 /\ wDone = 0
  /\ rPc = [c \in Consumers |-> "idle"]
  /\ rWrite = [c \in Consumers |-> 0] /\ rRead = [c \in Consumers |-> 0]
  /\ rLen = [c \in Consumers |-> 0] /\ rCount = [c \in Consumers |-> 0]
  /\ rOut = [c \in Consumers |-> << >>]
  /\ peeking = [c \in Consumers |-> FALSE]

\* edt_ring_buffer_write up to its first load, of the producer's own counter.
WriteCall(len) ==
  /\ wPc = "idle"
  /\ wPc' = "load" /\ wLen' = len /\ wWrite' = write_pos
  /\ UNCHANGED <<shared, history, wCount, wDone, readers>>

\* The acquiring load of read_pos; a full buffer ends the call at once.
WriteLoad ==
  LET n == Least(wLen, Space(wWrite, read_pos))
  IN  /\ wPc = "load"
      /\ wPc' = IF n = 0 THEN "idle" ELSE "copy"
      /\ wCount' = n /\ wDone' = 0
      /\ UNCHANGED <<shared, history, wWrite, wLen, readers>>

\* One byte of the two memcpy calls.
WriteCopy ==
  /\ wPc = "copy" /\ wDone < wCount
  /\ data' = [cell \in Cell |-> IF cell = CellAt(wWrite, wDone)
                                THEN Add(accepted, wDone) ELSE data[cell]]
  /\ wDone' = wDone + 1
  /\ UNCHANGED <<write_pos, read_pos, history, wPc, wWrite, wLen, wCount, readers>>

\* A mutant: write_pos is published as soon as the room is known.
WritePublishEarly ==
  /\ wPc = "copy"
  /\ write_pos' = Add(wWrite, wCount)
  /\ accepted' = Add(accepted, wCount)
  /\ wPc' = "idle"
  /\ UNCHANGED <<data, read_pos, handed, wWrite, wLen, wCount, wDone, readers>>

\* The releasing store of write_pos, after the copy.
WritePublish ==
  /\ wPc = "copy" /\ wDone = wCount
  /\ write_pos' = Add(wWrite, wCount)
  /\ accepted' = Add(accepted, wCount)
  /\ wPc' = "idle"
  /\ UNCHANGED <<data, read_pos, handed, wWrite, wLen, wCount, wDone, readers>>

-------------------------------------------------------------------------------

\* edt_ring_buffer_read, or _peek, up to the acquiring load of write_pos.
ReadCall(c, len, peek) ==
  /\ rPc[c] = "idle"
  /\ rPc' = [rPc EXCEPT ![c] = "load"]
  /\ rLen' = [rLen EXCEPT ![c] = len]
  /\ rWrite' = [rWrite EXCEPT ![c] = write_pos]
  /\ peeking' = [peeking EXCEPT ![c] = peek]
  /\ UNCHANGED <<shared, history, writer, rRead, rCount, rOut>>

\* A mutant: the cells are given back before the bytes are copied out.
ReadLoadEarly(c) ==
  LET n == Least(rLen[c], Available(rWrite[c], read_pos))
  IN  /\ rPc[c] = "load"
      /\ rPc' = [rPc EXCEPT ![c] = IF n = 0 THEN "idle" ELSE "copy"]
      /\ rRead' = [rRead EXCEPT ![c] = read_pos]
      /\ rCount' = [rCount EXCEPT ![c] = n]
      /\ rOut' = [rOut EXCEPT ![c] = << >>]
      /\ read_pos' = Add(read_pos, n)
      /\ UNCHANGED <<data, write_pos, history, writer, rWrite, rLen, peeking>>

\* The load of read_pos; an empty buffer ends the call at once.
ReadLoad(c) ==
  LET n == Least(rLen[c], Available(rWrite[c], read_pos))
  IN  /\ rPc[c] = "load"
      /\ rPc' = [rPc EXCEPT ![c] = IF n = 0 THEN "idle" ELSE "copy"]
      /\ rRead' = [rRead EXCEPT ![c] = read_pos]
      /\ rCount' = [rCount EXCEPT ![c] = n]
      /\ rOut' = [rOut EXCEPT ![c] = << >>]
      /\ UNCHANGED <<shared, history, writer, rWrite, rLen, peeking>>

\* One byte of the two memcpy calls.
ReadCopy(c) ==
  /\ rPc[c] = "copy" /\ Len(rOut[c]) < rCount[c]
  /\ \E byte \in BytesAt(CellAt(rRead[c], Len(rOut[c]))) :
       rOut' = [rOut EXCEPT ![c] = Append(@, byte)]
  /\ UNCHANGED <<shared, history, writer, rPc, rWrite, rRead, rLen, rCount, peeking>>

\* The releasing store of read_pos, after the copy.
ReadPublish(c) ==
  /\ rPc[c] = "copy" /\ Len(rOut[c]) = rCount[c] /\ ~peeking[c]
  /\ read_pos' = Add(rRead[c], rCount[c])
  /\ handed' = rOut[c]
  /\ rPc' = [rPc EXCEPT ![c] = "idle"]
  /\ UNCHANGED <<data, write_pos, accepted, writer, rWrite, rRead, rLen, rCount, rOut, peeking>>

\* edt_ring_buffer_peek returns and moves no counter.
PeekReturn(c) ==
  /\ rPc[c] = "copy" /\ Len(rOut[c]) = rCount[c] /\ peeking[c]
  /\ rPc' = [rPc EXCEPT ![c] = "idle"]
  /\ UNCHANGED <<shared, history, writer, rWrite, rRead, rLen, rCount, rOut, peeking>>

Write == \/ \E len \in Lens : WriteCall(len)
         \/ WriteLoad \/ WriteCopy \/ WritePublish

Read(c) == \/ \E len \in Lens, peek \in BOOLEAN : ReadCall(c, len, peek)
           \/ ReadLoad(c) \/ ReadCopy(c) \/ ReadPublish(c) \/ PeekReturn(c)

Next == Write \/ \E c \in Consumers : Read(c)

Spec == Init /\ [][Next]_vars

-------------------------------------------------------------------------------

\* What a consumer is taking, as stream positions.
Positions(first, n) == {Add(first, i) : i \in 0..n-1}
Taking(c) == IF rPc[c] = "copy" THEN Positions(rRead[c], rCount[c]) ELSE {}

\* The cells that hold what was not handed out yet, and those that the copies
\* in progress touch.
Touched(first, n) == {CellAt(first, i) : i \in 0..n-1}
Unread == {CellOf(p) : p \in Positions(read_pos, Available(write_pos, read_pos))}
Filling == IF wPc = "copy" THEN Touched(wWrite, wCount) ELSE {}
Draining(c) == IF rPc[c] = "copy" THEN Touched(rRead[c], rCount[c]) ELSE {}

\* Every variable ranges over what the C types and the calls allow.
TypeOK ==
  /\ data \in [Cell -> Counter]
  /\ write_pos \in Counter /\ read_pos \in Counter
  /\ accepted \in Counter /\ handed \in Seq(Counter)
  /\ wPc \in {"idle", "load", "copy"}
  /\ wWrite \in Counter /\ wLen \in Counter
  /\ wCount \in Counter /\ wDone \in Counter
  /\ rPc \in [Consumers -> {"idle", "load", "copy"}]
  /\ rWrite \in [Consumers -> Counter] /\ rRead \in [Consumers -> Counter]
  /\ rLen \in [Consumers -> Counter] /\ rCount \in [Consumers -> Counter]
  /\ rOut \in [Consumers -> Seq(Counter)]
  /\ peeking \in [Consumers -> BOOLEAN]

\* write_pos never runs more than the capacity ahead of read_pos, however the
\* calls interleave: the subtraction in edt_ring_buffer_write cannot underflow.
OccupancyBounded == Available(write_pos, read_pos) <= Capacity

\* No copy leaves the array, whatever length is asked for, and the two memcpy
\* of a write touch no cell that holds a byte not handed out yet, nor one that
\* a read in progress is copying: the array needs no lock.
NoCellClash ==
  /\ Filling \subseteq Cell /\ Filling \cap Unread = {}
  /\ \A c \in Consumers : Draining(c) \subseteq Cell /\ Filling \cap Draining(c) = {}

\* A read or a peek copies the bytes of the stream from read_pos on, in
\* order, whatever the producer does meanwhile.
CopiedInOrder ==
  \A c \in Consumers :
    rPc[c] = "copy" => \A i \in 1..Len(rOut[c]) : rOut[c][i] = Add(rRead[c], i - 1)

\* No byte is handed to two readers: what one is taking, no other is taking.
NoByteTakenTwice ==
  \A c, d \in Consumers :
    (c # d /\ ~peeking[c] /\ ~peeking[d]) => Taking(c) \cap Taking(d) = {}

\* Why the above hold with one consumer, as an inductive invariant: each side
\* works from its own counter and from an old value of the other's, which
\* can only understate what it may do.
Used == Available(write_pos, read_pos)

WriterInv ==
  /\ wPc # "idle" => wWrite = write_pos
  /\ wPc = "copy" =>
       /\ wDone <= wCount /\ Used + wCount <= Capacity
       /\ \A i \in 0..wDone-1 :
            data[CellOf(Add(write_pos, i))] = Add(write_pos, i)

ReaderInv ==
  \A c \in Consumers :
    /\ rPc[c] = "load" => Sub(rWrite[c], read_pos) <= Used
    /\ rPc[c] = "copy" =>
         /\ rRead[c] = read_pos
         /\ 0 < rCount[c] /\ Len(rOut[c]) <= rCount[c] /\ rCount[c] <= Used
         /\ \A i \in 1..Len(rOut[c]) : rOut[c][i] = Add(read_pos, i - 1)

ContentInv ==
  \A i \in 0..Used-1 : data[CellOf(Add(read_pos, i))] = Add(read_pos, i)

\* The bytes between read_pos and write_pos are the stream's next ones, each
\* side's call in progress fits in the room or the data it saw, and what it
\* has copied so far is right.
IInv == /\ OccupancyBounded
        /\ accepted = write_pos
        /\ WriterInv /\ ReaderInv /\ ContentInv

\* The buffer implements the abstract byte queue: a write takes effect at its
\* releasing store of write_pos and a read at its releasing store of read_pos.
Queue == [i \in 1..Used |-> data[CellOf(Add(read_pos, i - 1))]]

Fifo == INSTANCE ByteFifo WITH queue <- Queue

FifoSpec == Fifo!Spec

===============================================================================
