--------------------------- MODULE RingBufferProofs ---------------------------
(***************************************************************************)
(* Theorems about RingBuffer, for every capacity, counter width and set of *)
(* request lengths, also lengths beyond the capacity.  Type correctness    *)
(* holds with any number of consumers, also where they make a copy run     *)
(* past the array; that none does is part of what the single consumer of   *)
(* ARCHITECTURE.md buys, as is the rest.                                   *)
(***************************************************************************)
EXTENDS RingBuffer, SequenceTheorems, TLAPS

USE CapacityAssumption, WrapAssumption, LensAssumption

-------------------------------------------------------------------------------
(* Counter arithmetic.                                                      *)

LEMMA AddInCounter == ASSUME NEW a \in Int, NEW b \in Int
                      PROVE  Add(a, b) \in Counter
  BY DEF Add, Counter

LEMMA SubInCounter == ASSUME NEW a \in Int, NEW b \in Int
                      PROVE  Sub(a, b) \in Counter
  BY DEF Sub, Counter

LEMMA SubInNat == ASSUME NEW a \in Counter, NEW b \in Counter
                  PROVE  Sub(a, b) \in Nat
  BY SubInCounter DEF Counter

\* Both operations, without the remainder.
LEMMA AddLinear == ASSUME NEW a \in Counter, NEW b \in Counter
                   PROVE  Add(a, b) = IF a + b < Wrap THEN a + b ELSE a + b - Wrap
  BY DEF Add, Counter

LEMMA SubLinear == ASSUME NEW a \in Counter, NEW b \in Counter
                   PROVE  Sub(a, b) = IF b <= a THEN a - b ELSE a - b + Wrap
  BY DEF Sub, Counter

\* Moving the front counter on by n adds n to the distance...
LEMMA SubOfAdd == ASSUME NEW w \in Counter, NEW r \in Counter, NEW n \in Counter,
                         Sub(w, r) + n < Wrap
                  PROVE  Sub(Add(w, n), r) = Sub(w, r) + n
  <1>1. Add(w, n) \in Counter
    BY AddInCounter DEF Counter
  <1>2. Add(w, n) = IF w + n < Wrap THEN w + n ELSE w + n - Wrap
    BY AddLinear
  <1>3. Sub(w, r) = IF r <= w THEN w - r ELSE w - r + Wrap
    BY SubLinear
  <1>4. Sub(Add(w, n), r) = IF r <= Add(w, n) THEN Add(w, n) - r ELSE Add(w, n) - r + Wrap
    BY <1>1, SubLinear
  <1> QED
    BY <1>1, <1>2, <1>3, <1>4 DEF Counter

\* ...and moving the back one on by n takes n from it.
LEMMA SubAdd == ASSUME NEW w \in Counter, NEW r \in Counter, NEW n \in Counter,
                       n <= Sub(w, r)
                PROVE  Sub(w, Add(r, n)) = Sub(w, r) - n
  <1>1. Add(r, n) \in Counter
    BY AddInCounter DEF Counter
  <1>2. Add(r, n) = IF r + n < Wrap THEN r + n ELSE r + n - Wrap
    BY AddLinear
  <1>3. Sub(w, r) = IF r <= w THEN w - r ELSE w - r + Wrap
    BY SubLinear
  <1>4. Sub(w, Add(r, n)) = IF Add(r, n) <= w THEN w - Add(r, n) ELSE w - Add(r, n) + Wrap
    BY <1>1, SubLinear
  <1> QED
    BY <1>1, <1>2, <1>3, <1>4 DEF Counter

LEMMA AddAdd == ASSUME NEW p \in Counter, NEW i \in Counter, NEW j \in Counter,
                       i + j < Wrap
                PROVE  Add(Add(p, i), j) = Add(p, i + j)
  <1>1. Add(p, i) \in Counter /\ i + j \in Counter
    BY AddInCounter DEF Counter
  <1> QED
    BY <1>1, AddLinear DEF Counter

LEMMA AddOfSub == ASSUME NEW w \in Counter, NEW r \in Counter
                  PROVE  Add(r, Sub(w, r)) = w
  <1>1. Sub(w, r) \in Counter
    BY SubInCounter DEF Counter
  <1> QED
    BY <1>1, AddLinear, SubLinear DEF Counter

LEMMA CellInRange == ASSUME NEW p \in Counter
                     PROVE  CellOf(p) \in Cell
  BY DEF CellOf, Cell, Counter

\* Whole turns of the array do not change the cell.
LEMMA ModShift == ASSUME NEW m \in Nat, m > 0, NEW x \in Int, NEW k \in Int
                  PROVE  (x + m * k) % m = x % m
  <1> DEFINE q == x \div m  r == x % m
  <1>1. q \in Int /\ r \in 0..m-1 /\ x = m * q + r
    OBVIOUS
  <1> HIDE DEF q, r
  <1>2. x + m * k = m * (q + k) + r
    BY <1>1
  <1>3. \A a \in Int : (m * a + r) % m = r
    BY <1>1
  <1>4. (x + m * k) % m = r
    BY <1>1, <1>2, <1>3
  <1> QED
    BY <1>4 DEF r

\* The turn of a counter does not change the cell either.
LEMMA CellOfAdd ==
  ASSUME NEW p \in Counter, NEW n \in 0..Capacity-1
  PROVE  CellOf(Add(p, n)) = (p + n) % Capacity
  <1> DEFINE k == Wrap \div Capacity
  <1>1. k \in Int /\ Wrap = Capacity * k
    OBVIOUS
  <1>2. n \in Counter /\ p + n \in Int
    BY DEF Counter
  <1>3. ((p + n) - Wrap) % Capacity = (p + n) % Capacity
    <2>1. -k \in Int /\ (p + n) - Wrap = (p + n) + Capacity * (-k)
      BY <1>1, <1>2
    <2>2. Capacity \in Nat /\ Capacity > 0
      OBVIOUS
    <2> HIDE DEF k
    <2> QED
      BY ONLY <1>2, <2>1, <2>2, ModShift
  <1>4. Add(p, n) = p + n \/ Add(p, n) = (p + n) - Wrap
    BY <1>2, AddLinear DEF Counter
  <1> QED
    BY <1>3, <1>4 DEF CellOf

\* Within the capacity, the two memcpy go to the cells of the stream.
LEMMA CopyCell ==
  ASSUME NEW p \in Counter, NEW i \in 0..Capacity-1
  PROVE  CellAt(p, i) \in Cell /\ CellAt(p, i) = CellOf(Add(p, i))
  <1> DEFINE q == p \div Capacity  r == p % Capacity
  <1>1. p \in Int /\ q \in Int /\ r \in 0..Capacity-1 /\ p = Capacity * q + r
    BY DEF Counter
  <1>2. CellOf(Add(p, i)) = (p + i) % Capacity
    BY CellOfAdd
  <1>3. CellAt(p, i) = IF i < Capacity - r THEN r + i ELSE i - (Capacity - r)
    BY DEF CellAt, CellOf
  <1> HIDE DEF q, r
  <1>4. CellAt(p, i) \in Cell
    BY <1>1, <1>3 DEF Cell
  <1>5. \A x \in 0..Capacity-1 : x % Capacity = x
    OBVIOUS
  <1>6. CASE i < Capacity - r
    <2> DEFINE x == r + i
    <2>1. x \in 0..Capacity-1 /\ x \in Int /\ p + i = x + Capacity * q
      BY <1>1, <1>6
    <2> HIDE DEF x
    <2>2. (p + i) % Capacity = x % Capacity
      BY <1>1, <2>1, ModShift
    <2> QED
      BY <1>2, <1>3, <1>4, <1>5, <1>6, <2>1, <2>2 DEF x
  <1>7. CASE i >= Capacity - r
    <2> DEFINE x == i - (Capacity - r)
    <2>1. x \in 0..Capacity-1 /\ x \in Int /\ q + 1 \in Int
          /\ p + i = x + Capacity * (q + 1)
      BY <1>1, <1>7
    <2> HIDE DEF x
    <2>2. (p + i) % Capacity = x % Capacity
      BY <2>1, ModShift
    <2> QED
      BY <1>1, <1>2, <1>3, <1>4, <1>5, <1>7, <2>1, <2>2 DEF x
  <1> QED
    BY <1>1, <1>6, <1>7

\* A stretch of the stream no longer than the array lies in distinct cells.
LEMMA DistinctCells ==
  ASSUME NEW p \in Counter, NEW i \in 0..Capacity-1, NEW j \in 0..Capacity-1, i # j
  PROVE  CellOf(Add(p, i)) # CellOf(Add(p, j))
  <1>3. \A n \in 0..Capacity-1 : Add(p, n) % Capacity = (p + n) % Capacity
    BY CellOfAdd DEF CellOf
  <1>4. p \in Int
    BY DEF Counter
  <1>5. (p + i) % Capacity # (p + j) % Capacity
    <2> DEFINE a == p + i  b == p + j
    <2>1. a = Capacity * (a \div Capacity) + (a % Capacity) /\ a \div Capacity \in Int
      BY <1>4
    <2>2. b = Capacity * (b \div Capacity) + (b % Capacity) /\ b \div Capacity \in Int
      BY <1>4
    <2> HIDE DEF a, b
    <2>3. SUFFICES ASSUME a % Capacity = b % Capacity
                   PROVE  FALSE
      BY DEF a, b
    <2>4. a - b = Capacity * ((a \div Capacity) - (b \div Capacity))
      BY <2>1, <2>2, <2>3, <1>4 DEF a, b
    <2>5. a - b \in Int /\ -Capacity < a - b /\ a - b < Capacity /\ a - b # 0
      BY <1>4 DEF a, b
    <2> DEFINE d == (a \div Capacity) - (b \div Capacity)
    <2>6. d \in Int /\ a - b = Capacity * d
      BY <2>1, <2>2, <2>4
    <2> HIDE DEF d
    <2>7. CASE d >= 1
      <3>1. Capacity * d >= Capacity
        BY <2>7, <2>6
      <3> QED
        BY <3>1, <2>5, <2>6
    <2>8. CASE d <= -1
      <3>1. Capacity * d <= -Capacity
        BY <2>8, <2>6
      <3> QED
        BY <3>1, <2>5, <2>6
    <2>9. CASE d = 0
      BY <2>9, <2>5, <2>6
    <2> QED
      BY <2>6, <2>7, <2>8, <2>9
  <1> QED
    BY <1>3, <1>5 DEF CellOf

-------------------------------------------------------------------------------
(* Type correctness, with any number of consumers and any lengths.          *)

LEMMA SpaceInCounter == ASSUME NEW w \in Int, NEW r \in Int
                        PROVE  Space(w, r) \in Counter /\ Available(w, r) \in Counter
  BY SubInCounter DEF Space, Available, Sub, Counter

\* Every step keeps every variable within its type: all sizes stay below 2^64,
\* the array keeps its shape and what it holds are bytes of the stream, with
\* any number of consumers and whatever lengths they ask for.
THEOREM TypeCorrect == Spec => []TypeOK
<1>1. Init => TypeOK
  BY DEF Init, TypeOK, Counter, Cell
<1>2. TypeOK /\ [Next]_vars => TypeOK'
  <2> SUFFICES ASSUME TypeOK, [Next]_vars
               PROVE  TypeOK'
    OBVIOUS
  <2>0. /\ wWrite \in Int /\ read_pos \in Int /\ accepted \in Int
        /\ wCount \in Counter /\ wDone \in Counter /\ wLen \in Counter
        /\ wCount \in Int /\ wDone \in Int
        /\ \A c \in Consumers :
             /\ rWrite[c] \in Int /\ rRead[c] \in Int
             /\ rCount[c] \in Int /\ rLen[c] \in Counter
    BY DEF TypeOK, Counter
  <2>1. ASSUME NEW len \in Lens, WriteCall(len)
        PROVE  TypeOK'
    BY <2>1 DEF TypeOK, WriteCall, Counter, shared, history, readers
  <2>2. CASE WriteLoad
    <3> DEFINE n == Least(wLen, Space(wWrite, read_pos))
    <3>1. n \in Counter
      BY <2>0, SpaceInCounter DEF Least
    <3>2. 0 \in Counter
      BY DEF Counter
    <3> HIDE DEF n
    <3> QED
      BY <2>2, <3>1, <3>2 DEF TypeOK, WriteLoad, n, shared, history, readers
  <2>3. CASE WriteCopy
    <3>1. Add(accepted, wDone) \in Counter
      BY <2>0, AddInCounter
    <3>2. wDone + 1 \in Counter
      BY <2>0, <2>3 DEF WriteCopy, Counter
    <3>3. data' \in [Cell -> Counter]
      BY <2>3, <3>1 DEF TypeOK, WriteCopy
    <3> QED
      BY <2>3, <3>2, <3>3 DEF TypeOK, WriteCopy, history, readers
  <2>4. CASE WritePublish
    <3>1. Add(wWrite, wCount) \in Counter /\ Add(accepted, wCount) \in Counter
      BY <2>0, AddInCounter
    <3> QED
      BY <2>4, <3>1 DEF TypeOK, WritePublish, readers
  <2>5. ASSUME NEW c \in Consumers, NEW len \in Lens, NEW peek \in BOOLEAN,
               ReadCall(c, len, peek)
        PROVE  TypeOK'
    <3>1. len \in Counter
      BY DEF Counter
    <3> QED
      BY <2>5, <3>1 DEF TypeOK, ReadCall, shared, history, writer
  <2>6. ASSUME NEW c \in Consumers, ReadLoad(c)
        PROVE  TypeOK'
    <3> DEFINE n == Least(rLen[c], Available(rWrite[c], read_pos))
    <3>1. n \in Counter
      <4>1. rWrite[c] \in Int /\ read_pos \in Int /\ rLen[c] \in Counter
        BY <2>0
      <4>2. Available(rWrite[c], read_pos) \in Counter
        BY <4>1, SpaceInCounter, Zenon
      <4> QED
        BY <4>1, <4>2 DEF Least
    <3> HIDE DEF n
    <3> QED
      BY <2>6, <3>1 DEF TypeOK, ReadLoad, n, shared, history, writer
  <2>7. ASSUME NEW c \in Consumers, ReadCopy(c)
        PROVE  TypeOK'
    <3>1. PICK byte \in BytesAt(CellAt(rRead[c], Len(rOut[c]))) :
                 rOut' = [rOut EXCEPT ![c] = Append(@, byte)]
      BY <2>7 DEF ReadCopy
    <3>2. byte \in Counter
      BY DEF TypeOK, BytesAt
    <3>3. Append(rOut[c], byte) \in Seq(Counter)
      BY <3>2 DEF TypeOK
    <3> QED
      BY <2>7, <3>1, <3>3 DEF TypeOK, ReadCopy, shared, history, writer
  <2>8. ASSUME NEW c \in Consumers, ReadPublish(c)
        PROVE  TypeOK'
    <3>1. Add(rRead[c], rCount[c]) \in Counter
      BY <2>0, AddInCounter
    <3> QED
      BY <2>8, <3>1 DEF TypeOK, ReadPublish, writer
  <2>9. ASSUME NEW c \in Consumers, PeekReturn(c)
        PROVE  TypeOK'
    BY <2>9 DEF TypeOK, PeekReturn, shared, history, writer
  <2>10. CASE UNCHANGED vars
    BY <2>10 DEF TypeOK, vars, shared, history, writer, readers
  <2> QED
    BY <2>1, <2>2, <2>3, <2>4, <2>5, <2>6, <2>7, <2>8, <2>9, <2>10
    DEF Next, Write, Read
<1> QED
  BY <1>1, <1>2, PTL DEF Spec

-------------------------------------------------------------------------------
(* What one consumer buys.                                                   *)

SingleConsumer == \A c, d \in Consumers : c = d

\* The facts of TypeOK that the counter lemmas ask for.
LEMMA CounterFacts ==
  ASSUME TypeOK
  PROVE  /\ write_pos \in Counter /\ read_pos \in Counter /\ wWrite \in Counter
         /\ wCount \in Nat /\ wDone \in Nat /\ wLen \in Nat
         /\ Used \in Nat /\ Used < Wrap /\ Used \in Counter
         /\ \A c \in Consumers :
              /\ rWrite[c] \in Counter /\ rRead[c] \in Counter
              /\ rLen[c] \in Nat /\ rCount[c] \in Nat
              /\ rOut[c] \in Seq(Counter) /\ Len(rOut[c]) \in Nat
  <1>1. write_pos \in Int /\ read_pos \in Int
    BY DEF TypeOK, Counter
  <1>2. Used \in Counter
    BY <1>1, SubInCounter DEF Used, Available
  <1>3. Used \in Nat /\ Used < Wrap
    BY <1>2 DEF Counter
  <1> QED
    BY <1>2, <1>3 DEF TypeOK, Counter

\* The distance between the counters after the producer's store...
LEMMA UsedAfterWrite ==
  ASSUME TypeOK, NEW n \in 0..Capacity, Used + n <= Capacity
  PROVE  Sub(Add(write_pos, n), read_pos) = Used + n
  <1>1. write_pos \in Counter /\ read_pos \in Counter /\ Used \in Nat
    BY CounterFacts
  <1>2. n \in Counter /\ Used + n < Wrap
    BY <1>1 DEF Counter
  <1>3. Sub(write_pos, read_pos) + n < Wrap
    BY <1>2 DEF Used, Available
  <1> QED
    BY <1>1, <1>2, <1>3, SubOfAdd DEF Used, Available

\* ...and after the consumer's.
LEMMA UsedAfterRead ==
  ASSUME TypeOK, NEW n \in 0..Capacity, n <= Used
  PROVE  Sub(write_pos, Add(read_pos, n)) = Used - n
  <1>1. write_pos \in Counter /\ read_pos \in Counter
    BY CounterFacts
  <1>2. n \in Counter
    BY DEF Counter
  <1> QED
    BY <1>1, <1>2, SubAdd DEF Used, Available

LEMMA InductiveInit == Init => IInv
  <1> SUFFICES ASSUME Init PROVE IInv
    OBVIOUS
  <1>1. Used = 0
    BY SubLinear DEF Init, Used, Available, Counter
  <1>2. OccupancyBounded
    BY <1>1 DEF Used, OccupancyBounded
  <1>3. ContentInv
    BY <1>1 DEF ContentInv
  <1> QED
    BY <1>2, <1>3 DEF Init, IInv, WriterInv, ReaderInv

\* A call's start or end and a load of a counter leave the array and both
\* counters alone.
LEMMA SharedUnchanged ==
  ASSUME IInv, UNCHANGED <<shared, accepted>>
  PROVE  Used' = Used /\ OccupancyBounded' /\ (accepted = write_pos)' /\ ContentInv'
  BY DEF IInv, shared, Used, Available, OccupancyBounded, ContentInv

LEMMA StepWriteCall ==
  ASSUME TypeOK, IInv, NEW len \in Lens, WriteCall(len)
  PROVE  IInv'
  <1>1. Used' = Used /\ OccupancyBounded' /\ (accepted = write_pos)' /\ ContentInv'
    BY SharedUnchanged DEF WriteCall, history
  <1>2. WriterInv'
    BY DEF WriteCall, WriterInv, shared
  <1>3. ReaderInv'
    BY <1>1 DEF WriteCall, IInv, ReaderInv, readers, shared
  <1> QED
    BY <1>1, <1>2, <1>3 DEF IInv

\* The producer never sees more room than there is.
LEMMA StepWriteLoad ==
  ASSUME TypeOK, IInv, WriteLoad
  PROVE  IInv'
  <1>1. Used' = Used /\ OccupancyBounded' /\ (accepted = write_pos)' /\ ContentInv'
    BY SharedUnchanged DEF WriteLoad, history
  <1>2. WriterInv'
    <2>1. wWrite = write_pos /\ Used <= Capacity
      BY DEF WriteLoad, IInv, WriterInv, OccupancyBounded, Used
    <2>2. Capacity \in Counter /\ Used \in Counter /\ Used \in Nat /\ wLen \in Nat
      BY CounterFacts DEF Counter
    <2>3. Space(wWrite, read_pos) = Capacity - Used
      BY <2>1, <2>2, SubLinear DEF Space, Used
    <2> DEFINE n == Least(wLen, Space(wWrite, read_pos))
    <2>4. n \in Nat /\ Used + n <= Capacity
      BY <2>1, <2>2, <2>3 DEF Least
    <2>5. wCount' = n /\ wDone' = 0 /\ wWrite' = write_pos' /\ wPc' \in {"idle", "copy"}
      BY <2>1 DEF WriteLoad, shared
    <2> HIDE DEF n
    <2>6. \A i \in 0..wDone'-1 : FALSE
      BY <2>5
    <2>7. wDone' <= wCount' /\ Used' + wCount' <= Capacity
      BY <1>1, <2>4, <2>5
    <2> QED
      BY <2>5, <2>6, <2>7 DEF WriterInv
  <1>3. ReaderInv'
    BY <1>1 DEF WriteLoad, IInv, ReaderInv, readers, shared
  <1> QED
    BY <1>1, <1>2, <1>3 DEF IInv

\* A position past the unread bytes, seen from read_pos.
LEMMA PastUnread ==
  ASSUME TypeOK, NEW j \in Nat, Used + j <= Capacity
  PROVE  Add(write_pos, j) = Add(read_pos, Used + j)
  <1>1. write_pos \in Counter /\ read_pos \in Counter /\ Used \in Counter /\ Used \in Nat
    BY CounterFacts
  <1>2. j \in Counter /\ Used + j < Wrap
    BY <1>1 DEF Counter
  <1>3. Add(read_pos, Used) = write_pos
    BY <1>1, AddOfSub DEF Used, Available
  <1>4. Add(Add(read_pos, Used), j) = Add(read_pos, Used + j)
    BY <1>1, <1>2, AddAdd
  <1> QED
    BY <1>3, <1>4

\* A byte copied in goes to a cell that holds neither an unread byte nor
\* one of the bytes this write has copied already.
LEMMA StepWriteCopy ==
  ASSUME TypeOK, IInv, WriteCopy
  PROVE  IInv'
  <1> DEFINE cell == CellOf(Add(write_pos, wDone))
  <1>1. /\ wWrite = write_pos /\ accepted = write_pos
        /\ wDone < wCount /\ Used + wCount <= Capacity /\ Used <= Capacity
    BY DEF WriteCopy, IInv, WriterInv, OccupancyBounded, Used
  <1>2. /\ write_pos \in Counter /\ read_pos \in Counter
        /\ wDone \in Nat /\ wCount \in Nat /\ Used \in Nat
    BY CounterFacts
  <1>3. wDone \in 0..Capacity-1 /\ Used + wDone \in 0..Capacity-1
    BY <1>1, <1>2
  <1>4. Add(write_pos, wDone) = Add(read_pos, Used + wDone)
    BY <1>1, <1>2, PastUnread
  <1>5. /\ data' = [data EXCEPT ![cell] = Add(write_pos, wDone)]
        /\ wDone' = wDone + 1 /\ wCount' = wCount /\ wPc' = wPc /\ wWrite' = wWrite
        /\ write_pos' = write_pos /\ read_pos' = read_pos /\ accepted' = accepted
        /\ UNCHANGED readers
    <2>1. CellAt(wWrite, wDone) = cell
      BY <1>1, <1>2, <1>3, CopyCell
    <2>2. data' = [c \in Cell |-> IF c = cell THEN Add(write_pos, wDone) ELSE data[c]]
      BY <1>1, <2>1 DEF WriteCopy
    <2>3. data \in [Cell -> Counter]
      BY DEF TypeOK
    <2> HIDE DEF cell
    <2>4. data' = [data EXCEPT ![cell] = Add(write_pos, wDone)]
      BY <2>2, <2>3
    <2> QED
      BY <1>1, <2>4 DEF WriteCopy, history
  <1>6. cell \in Cell
    <2>1. Add(write_pos, wDone) \in Counter
      BY <1>2, AddInCounter DEF Counter
    <2> QED
      BY <2>1, CellInRange
  <1>7. data \in [Cell -> Counter]
    BY DEF TypeOK
  <1>8. Used' = Used
    BY <1>5 DEF Used, Available
  <1>9. OccupancyBounded' /\ (accepted = write_pos)'
    BY <1>5 DEF IInv, OccupancyBounded, Available
  <1>10. ContentInv'
    <2> SUFFICES ASSUME NEW i \in 0..Used-1
                 PROVE  data'[CellOf(Add(read_pos, i))] = Add(read_pos, i)
      BY <1>5, <1>8 DEF ContentInv
    <2>1. i \in 0..Capacity-1 /\ i # Used + wDone
      BY <1>1, <1>2
    <2>2. CellOf(Add(read_pos, i)) # cell
      BY <1>2, <1>3, <1>4, <2>1, DistinctCells
    <2>3. data[CellOf(Add(read_pos, i))] = Add(read_pos, i)
      BY DEF IInv, ContentInv
    <2> QED
      BY <1>5, <1>7, <2>2, <2>3
  <1>11. WriterInv'
    <2>1. wDone + 1 <= wCount /\ 0..(wDone + 1)-1 = 0..wDone
      BY <1>1, <1>2
    <2>2. \A i \in 0..wDone : data'[CellOf(Add(write_pos, i))] = Add(write_pos, i)
      <3> SUFFICES ASSUME NEW i \in 0..wDone
                   PROVE  data'[CellOf(Add(write_pos, i))] = Add(write_pos, i)
        OBVIOUS
      <3>1. CASE i = wDone
        BY <1>5, <1>6, <1>7, <3>1
      <3>2. CASE i # wDone
        <4>1. i \in 0..wDone-1 /\ i \in 0..Capacity-1
          BY <1>2, <1>3, <3>2
        <4>2. CellOf(Add(write_pos, i)) # cell
          BY <1>2, <1>3, <3>2, <4>1, DistinctCells
        <4>3. data[CellOf(Add(write_pos, i))] = Add(write_pos, i)
          BY <4>1 DEF WriteCopy, IInv, WriterInv
        <4> QED
          BY <1>5, <1>7, <4>2, <4>3
      <3> QED
        BY <3>1, <3>2
    <2> HIDE DEF cell
    <2> QED
      BY <1>1, <1>5, <1>8, <2>1, <2>2 DEF WriterInv
  <1>12. ReaderInv'
    BY <1>5, <1>8 DEF IInv, ReaderInv, readers
  <1> QED
    BY <1>9, <1>10, <1>11, <1>12 DEF IInv

\* Publishing turns the bytes copied in into unread ones.
LEMMA StepWritePublish ==
  ASSUME TypeOK, IInv, WritePublish
  PROVE  IInv'
  <1>1. /\ wWrite = write_pos /\ accepted = write_pos
        /\ wDone = wCount /\ Used + wCount <= Capacity
    BY DEF WritePublish, IInv, WriterInv
  <1>2. wCount \in 0..Capacity /\ wCount \in Nat /\ Used \in Nat
    BY <1>1, CounterFacts
  <1>3. /\ write_pos' = Add(write_pos, wCount) /\ accepted' = Add(write_pos, wCount)
        /\ read_pos' = read_pos /\ data' = data /\ wPc' = "idle" /\ UNCHANGED readers
    BY <1>1 DEF WritePublish
  <1>4. Used' = Used + wCount
    BY <1>1, <1>2, <1>3, UsedAfterWrite DEF Used, Available
  <1>5. OccupancyBounded' /\ (accepted = write_pos)'
    BY <1>1, <1>3, <1>4 DEF OccupancyBounded, Used
  <1>6. WriterInv'
    BY <1>3 DEF WriterInv
  <1>7. ReaderInv'
    <2> SUFFICES ASSUME NEW c \in Consumers
                 PROVE  /\ rPc[c] = "load" => Sub(rWrite[c], read_pos) <= Used + wCount
                        /\ rPc[c] = "copy" =>
                             /\ rRead[c] = read_pos
                             /\ 0 < rCount[c] /\ Len(rOut[c]) <= rCount[c]
                             /\ rCount[c] <= Used + wCount
                             /\ \A i \in 1..Len(rOut[c]) : rOut[c][i] = Add(read_pos, i - 1)
      BY <1>3, <1>4 DEF ReaderInv, readers
    <2>1. rWrite[c] \in Counter /\ read_pos \in Counter /\ rCount[c] \in Nat
      BY CounterFacts
    <2>2. Sub(rWrite[c], read_pos) \in Nat
      BY <2>1, SubInNat
    <2> QED
      BY <1>2, <2>1, <2>2 DEF IInv, ReaderInv
  <1>8. ContentInv'
    <2> SUFFICES ASSUME NEW i \in 0..(Used + wCount)-1
                 PROVE  data[CellOf(Add(read_pos, i))] = Add(read_pos, i)
      BY <1>3, <1>4 DEF ContentInv
    <2>1. CASE i < Used
      BY <1>2, <2>1 DEF IInv, ContentInv
    <2>2. CASE i >= Used
      <3> DEFINE j == i - Used
      <3>1. j \in Nat /\ j \in 0..wDone-1 /\ Used + j <= Capacity /\ i = Used + j
        BY <1>1, <1>2, <2>2
      <3> HIDE DEF j
      <3>2. Add(write_pos, j) = Add(read_pos, i)
        BY <3>1, PastUnread
      <3>3. data[CellOf(Add(write_pos, j))] = Add(write_pos, j)
        BY <3>1 DEF WritePublish, IInv, WriterInv
      <3> QED
        BY <3>2, <3>3
    <2> QED
      BY <1>2, <2>1, <2>2
  <1> QED
    BY <1>5, <1>6, <1>7, <1>8 DEF IInv

LEMMA StepReadCall ==
  ASSUME TypeOK, IInv, NEW c \in Consumers, NEW len \in Lens, NEW peek \in BOOLEAN,
         ReadCall(c, len, peek)
  PROVE  IInv'
  <1>1. Used' = Used /\ OccupancyBounded' /\ (accepted = write_pos)' /\ ContentInv'
    BY SharedUnchanged DEF ReadCall, history
  <1>2. WriterInv'
    BY <1>1 DEF ReadCall, IInv, WriterInv, writer, shared
  <1>3. ReaderInv'
    <2> SUFFICES ASSUME NEW d \in Consumers
                 PROVE  ReaderInv!(d)'
      BY DEF ReaderInv
    <2>1. read_pos' = read_pos /\ rRead' = rRead /\ rCount' = rCount /\ rOut' = rOut
      BY DEF ReadCall, shared
    <2>2. CASE d = c
      <3>1. rPc'[d] = "load" /\ rWrite'[d] = write_pos
        BY <2>2 DEF ReadCall, TypeOK
      <3>2. Sub(write_pos, read_pos) = Used /\ Used \in Nat
        BY CounterFacts DEF Used, Available
      <3> QED
        BY <1>1, <2>1, <3>1, <3>2
    <2>3. CASE d # c
      <3>1. rPc'[d] = rPc[d] /\ rWrite'[d] = rWrite[d]
        BY <2>3 DEF ReadCall, TypeOK
      <3> QED
        BY <1>1, <2>1, <3>1 DEF IInv, ReaderInv
    <2> QED
      BY <2>2, <2>3
  <1> QED
    BY <1>1, <1>2, <1>3 DEF IInv

\* The consumer never sees more data than there is.
LEMMA StepReadLoad ==
  ASSUME TypeOK, IInv, NEW c \in Consumers, ReadLoad(c)
  PROVE  IInv'
  <1>1. Used' = Used /\ OccupancyBounded' /\ (accepted = write_pos)' /\ ContentInv'
    BY SharedUnchanged DEF ReadLoad, history
  <1>2. WriterInv'
    BY <1>1 DEF ReadLoad, IInv, WriterInv, writer, shared
  <1>3. ReaderInv'
    <2> SUFFICES ASSUME NEW d \in Consumers
                 PROVE  ReaderInv!(d)'
      BY DEF ReaderInv
    <2>1. read_pos' = read_pos /\ rWrite' = rWrite
      BY DEF ReadLoad, shared
    <2>2. CASE d = c
      <3> DEFINE n == Least(rLen[c], Available(rWrite[c], read_pos))
      <3>1. /\ rPc'[c] = (IF n = 0 THEN "idle" ELSE "copy") /\ rRead'[c] = read_pos
            /\ rCount'[c] = n /\ rOut'[c] = << >>
        BY DEF ReadLoad, TypeOK
      <3>2. Available(rWrite[c], read_pos) \in Nat /\ Available(rWrite[c], read_pos) <= Used
        <4>1. rWrite[c] \in Counter /\ read_pos \in Counter
          BY CounterFacts
        <4>2. Sub(rWrite[c], read_pos) <= Used
          BY DEF ReadLoad, IInv, ReaderInv
        <4> QED
          BY <4>1, <4>2, SubInNat DEF Available
      <3>3. rLen[c] \in Nat /\ Used \in Nat
        BY CounterFacts
      <3>4. n \in Nat /\ n <= Used
        BY <3>2, <3>3 DEF Least
      <3> HIDE DEF n
      <3> QED
        BY <1>1, <2>1, <2>2, <3>1, <3>4
    <2>3. CASE d # c
      <3>1. /\ rPc'[d] = rPc[d] /\ rRead'[d] = rRead[d]
            /\ rCount'[d] = rCount[d] /\ rOut'[d] = rOut[d]
        BY <2>3 DEF ReadLoad, TypeOK
      <3> QED
        BY <1>1, <2>1, <3>1 DEF IInv, ReaderInv
    <2> QED
      BY <2>2, <2>3
  <1> QED
    BY <1>1, <1>2, <1>3 DEF IInv

\* The byte copied out is the stream's next one.
LEMMA StepReadCopy ==
  ASSUME TypeOK, IInv, NEW c \in Consumers, ReadCopy(c)
  PROVE  IInv'
  <1>1. Used' = Used /\ OccupancyBounded' /\ (accepted = write_pos)' /\ ContentInv'
    BY SharedUnchanged DEF ReadCopy, history
  <1>2. WriterInv'
    BY <1>1 DEF ReadCopy, IInv, WriterInv, writer, shared
  <1>3. ReaderInv'
    <2> SUFFICES ASSUME NEW d \in Consumers
                 PROVE  ReaderInv!(d)'
      BY DEF ReaderInv
    <2>1. /\ read_pos' = read_pos /\ rWrite' = rWrite /\ rPc' = rPc
          /\ rRead' = rRead /\ rCount' = rCount
      BY DEF ReadCopy, shared
    <2>2. CASE d = c
      <3> DEFINE k == Len(rOut[c])
      <3>0. PICK byte \in BytesAt(CellAt(rRead[c], k)) :
                   rOut' = [rOut EXCEPT ![c] = Append(@, byte)]
        BY DEF ReadCopy
      <3>1. /\ rPc[c] = "copy" /\ rRead[c] = read_pos
            /\ 0 < rCount[c] /\ k < rCount[c] /\ rCount[c] <= Used
            /\ \A i \in 1..k : rOut[c][i] = Add(read_pos, i - 1)
        BY DEF ReadCopy, IInv, ReaderInv
      <3>2. k \in Nat /\ rCount[c] \in Nat /\ Used \in Nat
        BY CounterFacts
      <3>3. byte = Add(read_pos, k)
        <4>1. k \in 0..Used-1 /\ k \in 0..Capacity-1 /\ read_pos \in Counter
          BY <3>1, <3>2, CounterFacts DEF IInv, OccupancyBounded, Used
        <4>2. CellAt(read_pos, k) \in Cell /\ CellAt(read_pos, k) = CellOf(Add(read_pos, k))
          BY <4>1, CopyCell
        <4>3. byte = data[CellAt(read_pos, k)]
          BY <3>1, <4>2 DEF BytesAt
        <4> QED
          BY <4>1, <4>2, <4>3 DEF IInv, ContentInv
      <3>4. rOut[c] \in Seq(Counter) /\ byte \in Counter
        <4>1. read_pos \in Int /\ k \in Int
          BY <3>2 DEF TypeOK, Counter
        <4>2. Add(read_pos, k) \in Counter
          BY <4>1, AddInCounter
        <4> QED
          BY <3>3, <4>2, CounterFacts
      <3>5. rOut'[c] = Append(rOut[c], byte)
        BY <3>0 DEF TypeOK
      <3>6. /\ Len(rOut'[c]) = k + 1
            /\ \A i \in 1..k+1 : rOut'[c][i] = IF i <= k THEN rOut[c][i] ELSE byte
        BY <3>2, <3>4, <3>5
      <3>7. \A i \in 1..Len(rOut'[c]) : rOut'[c][i] = Add(read_pos, i - 1)
        <4> SUFFICES ASSUME NEW i \in 1..k+1
                     PROVE  rOut'[c][i] = Add(read_pos, i - 1)
          BY <3>6
        <4>1. CASE i <= k
          BY <3>1, <3>2, <3>6, <4>1
        <4>2. CASE i > k
          <5>1. i - 1 = k /\ rOut'[c][i] = byte
            BY <3>2, <3>6, <4>2
          <5> QED
            BY <3>3, <5>1
        <4> QED
          BY <3>2, <4>1, <4>2
      <3>8. Len(rOut'[c]) <= rCount[c]
        BY <3>1, <3>2, <3>6
      <3> HIDE DEF k
      <3> QED
        BY <1>1, <2>1, <2>2, <3>1, <3>7, <3>8
    <2>3. CASE d # c
      <3>1. rOut'[d] = rOut[d]
        BY <2>3 DEF ReadCopy, TypeOK
      <3> QED
        BY <1>1, <2>1, <3>1 DEF IInv, ReaderInv
    <2> QED
      BY <2>2, <2>3
  <1> QED
    BY <1>1, <1>2, <1>3 DEF IInv

\* Publishing a read frees its cells; with one consumer there is no other
\* call whose bytes they could be.
LEMMA StepReadPublish ==
  ASSUME SingleConsumer, TypeOK, IInv, NEW c \in Consumers, ReadPublish(c)
  PROVE  IInv'
  <1>1. rRead[c] = read_pos /\ rCount[c] <= Used
    BY DEF ReadPublish, IInv, ReaderInv
  <1>2. /\ rCount[c] \in 0..Capacity /\ rCount[c] \in Nat /\ Used \in Nat
        /\ read_pos \in Counter /\ Used < Wrap
    BY <1>1, CounterFacts DEF IInv, OccupancyBounded, Used
  <1>3. /\ read_pos' = Add(read_pos, rCount[c]) /\ data' = data
        /\ write_pos' = write_pos /\ accepted' = accepted /\ UNCHANGED writer
        /\ rPc' = [rPc EXCEPT ![c] = "idle"]
    BY <1>1 DEF ReadPublish
  <1>4. Used' = Used - rCount[c]
    BY <1>1, <1>2, <1>3, UsedAfterRead DEF Used, Available
  <1>5. OccupancyBounded' /\ (accepted = write_pos)'
    <2>1. Used <= Capacity
      BY DEF IInv, OccupancyBounded, Used
    <2>2. Used' <= Capacity
      BY <1>2, <1>4, <2>1
    <2> QED
      BY <1>3, <2>2 DEF IInv, OccupancyBounded, Used
  <1>6. WriterInv'
    <2>1. wCount \in Nat
      BY CounterFacts
    <2>2. wPc = "copy" => Used' + wCount <= Capacity
      BY <1>2, <1>4, <2>1 DEF IInv, WriterInv
    <2> QED
      BY <1>3, <2>2 DEF IInv, WriterInv, writer
  <1>7. ReaderInv'
    <2> SUFFICES ASSUME NEW d \in Consumers
                 PROVE  rPc'[d] = "idle"
      BY DEF ReaderInv
    <2>1. d = c
      BY DEF SingleConsumer
    <2> QED
      BY <1>3, <2>1 DEF TypeOK
  <1>8. ContentInv'
    <2> DEFINE n == rCount[c]
    <2> SUFFICES ASSUME NEW i \in 0..(Used - n)-1
                 PROVE  data[CellOf(Add(Add(read_pos, n), i))] = Add(Add(read_pos, n), i)
      BY <1>3, <1>4 DEF ContentInv
    <2>1. n + i \in 0..Used-1 /\ n + i < Wrap /\ n \in Counter /\ i \in Counter
      BY <1>2 DEF Counter
    <2>2. Add(Add(read_pos, n), i) = Add(read_pos, n + i)
      BY <1>2, <2>1, AddAdd
    <2>3. data[CellOf(Add(read_pos, n + i))] = Add(read_pos, n + i)
      BY <2>1 DEF IInv, ContentInv
    <2> QED
      BY <2>2, <2>3
  <1> QED
    BY <1>5, <1>6, <1>7, <1>8 DEF IInv

LEMMA StepPeekReturn ==
  ASSUME TypeOK, IInv, NEW c \in Consumers, PeekReturn(c)
  PROVE  IInv'
  <1>1. Used' = Used /\ OccupancyBounded' /\ (accepted = write_pos)' /\ ContentInv'
    BY SharedUnchanged DEF PeekReturn, history
  <1>2. WriterInv'
    BY <1>1 DEF PeekReturn, IInv, WriterInv, writer, shared
  <1>3. ReaderInv'
    <2> SUFFICES ASSUME NEW d \in Consumers
                 PROVE  ReaderInv!(d)'
      BY DEF ReaderInv
    <2>1. CASE rPc'[d] = rPc[d]
      <3>1. UNCHANGED <<read_pos, rWrite, rRead, rCount, rOut>>
        BY DEF PeekReturn, shared
      <3> QED
        BY <1>1, <2>1, <3>1 DEF IInv, ReaderInv
    <2>2. CASE rPc'[d] = "idle"
      BY <2>2
    <2> QED
      BY <2>1, <2>2 DEF PeekReturn, TypeOK
  <1> QED
    BY <1>1, <1>2, <1>3 DEF IInv

LEMMA InductiveStep ==
  ASSUME SingleConsumer, TypeOK, IInv, [Next]_vars
  PROVE  IInv'
  <1>1. CASE UNCHANGED vars
    <2>1. Used' = Used /\ OccupancyBounded' /\ (accepted = write_pos)' /\ ContentInv'
      BY <1>1, SharedUnchanged DEF vars, history
    <2>2. WriterInv'
      BY <1>1, <2>1 DEF vars, shared, writer, IInv, WriterInv
    <2>3. ReaderInv'
      BY <1>1, <2>1 DEF vars, shared, readers, IInv, ReaderInv
    <2> QED
      BY <2>1, <2>2, <2>3 DEF IInv
  <1>2. CASE Write
    BY <1>2, StepWriteCall, StepWriteLoad, StepWriteCopy, StepWritePublish DEF Write
  <1>3. ASSUME NEW c \in Consumers, Read(c)
        PROVE  IInv'
    BY <1>3, StepReadCall, StepReadLoad, StepReadCopy, StepReadPublish, StepPeekReturn
    DEF Read
  <1> QED
    BY <1>1, <1>2, <1>3 DEF Next

\* With one consumer the inductive invariant holds throughout.
THEOREM Inductive == SingleConsumer => (Spec => []IInv)
<1> SUFFICES ASSUME SingleConsumer PROVE Spec => []IInv
  OBVIOUS
<1>1. TypeOK /\ IInv /\ [Next]_vars => IInv'
  BY InductiveStep
<1> QED
  BY <1>1, InductiveInit, TypeCorrect, PTL DEF Spec

\* write_pos never runs more than the capacity ahead of read_pos.
THEOREM Occupancy == SingleConsumer => (Spec => []OccupancyBounded)
<1> SUFFICES ASSUME SingleConsumer PROVE Spec => []OccupancyBounded
  OBVIOUS
<1>1. IInv => OccupancyBounded
  BY DEF IInv
<1> QED
  BY <1>1, Inductive, PTL

\* A read or a peek copies the stream's bytes from read_pos on, in order.
THEOREM InOrder == SingleConsumer => (Spec => []CopiedInOrder)
<1> SUFFICES ASSUME SingleConsumer PROVE Spec => []CopiedInOrder
  OBVIOUS
<1>1. IInv => CopiedInOrder
  BY DEF IInv, ReaderInv, CopiedInOrder
<1> QED
  BY <1>1, Inductive, PTL

\* Whatever lengths are asked for, no copy leaves the array, and a write in
\* progress touches no cell that holds an unread byte or that a read in
\* progress is copying out.
THEOREM CellsDisjoint == SingleConsumer => (Spec => []NoCellClash)
<1> SUFFICES ASSUME SingleConsumer PROVE Spec => []NoCellClash
  OBVIOUS
<1>1. TypeOK /\ IInv => NoCellClash
  <2> SUFFICES ASSUME TypeOK, IInv PROVE NoCellClash
    OBVIOUS
  <2> DEFINE Behind(n) == {CellOf(Add(read_pos, j)) : j \in 0..n-1}
  <2>1. Used <= Capacity /\ Used \in Nat /\ wCount \in Nat /\ read_pos \in Counter
    BY CounterFacts DEF IInv, OccupancyBounded, Used
  <2>2. ASSUME wPc = "copy", NEW i \in 0..wCount-1
        PROVE  /\ CellAt(wWrite, i) \in Cell
               /\ \A j \in 0..Used-1 : CellAt(wWrite, i) # CellOf(Add(read_pos, j))
    <3>1. wWrite = write_pos /\ Used + wCount <= Capacity /\ wWrite \in Counter
      BY <2>2, CounterFacts DEF IInv, WriterInv
    <3>2. i \in Nat /\ i \in 0..Capacity-1 /\ Used + i \in 0..Capacity-1
      BY <2>1, <3>1
    <3>3. CellAt(wWrite, i) \in Cell /\ CellAt(wWrite, i) = CellOf(Add(read_pos, Used + i))
      <4>1. CellAt(wWrite, i) \in Cell /\ CellAt(wWrite, i) = CellOf(Add(wWrite, i))
        BY <3>1, <3>2, CopyCell
      <4>2. Add(wWrite, i) = Add(read_pos, Used + i)
        BY <2>1, <3>1, <3>2, PastUnread
      <4> QED
        BY <4>1, <4>2
    <3>4. ASSUME NEW j \in 0..Used-1
          PROVE  CellOf(Add(read_pos, Used + i)) # CellOf(Add(read_pos, j))
      <4>1. j \in 0..Capacity-1 /\ Used + i # j
        BY <2>1, <3>2
      <4> QED
        BY <2>1, <3>2, <4>1, DistinctCells
    <3> QED
      BY <3>3, <3>4
  <2>3. Filling \subseteq Cell /\ Filling \cap Behind(Used) = {}
    BY <2>2 DEF Filling, Touched
  <2>4. Unread = Behind(Used)
    BY DEF Unread, Positions, Used
  <2>5. ASSUME NEW c \in Consumers, rPc[c] = "copy"
        PROVE  Draining(c) \subseteq Cell /\ Draining(c) \subseteq Behind(Used)
    <3>1. rRead[c] = read_pos /\ rCount[c] \in Nat /\ rCount[c] <= Used
      BY <2>5, CounterFacts DEF IInv, ReaderInv
    <3>2. ASSUME NEW j \in 0..rCount[c]-1
          PROVE  /\ j \in 0..Used-1 /\ CellAt(read_pos, j) \in Cell
                 /\ CellAt(read_pos, j) = CellOf(Add(read_pos, j))
      <4>1. j \in 0..Used-1 /\ j \in 0..Capacity-1
        BY <2>1, <3>1
      <4> QED
        BY <2>1, <4>1, CopyCell
    <3> QED
      BY <2>5, <3>1, <3>2 DEF Draining, Touched
  <2>6. \A c \in Consumers : rPc[c] # "copy" => Draining(c) = {}
    BY DEF Draining
  <2> HIDE DEF Behind
  <2> QED
    BY <2>3, <2>4, <2>5, <2>6 DEF NoCellClash
<1> QED
  BY <1>1, Inductive, TypeCorrect, PTL

-------------------------------------------------------------------------------
(* The buffer implements the abstract queue.                                *)

\* n bytes of the stream, from position p on.
Stretch(p, n) == [i \in 1..n |-> Add(p, i - 1)]

LEMMA StretchIsSeq ==
  ASSUME NEW p \in Int, NEW n \in Nat
  PROVE  /\ Stretch(p, n) \in Seq(Counter) /\ Len(Stretch(p, n)) = n
         /\ \A i \in 1..n : Stretch(p, n)[i] = Add(p, i - 1)
         /\ Fifo!Stream(p, n) = Stretch(p, n)
  <1>1. \A i \in 1..n : Add(p, i - 1) \in Counter
    BY AddInCounter
  <1>2. \A i \in 1..n : (p + i - 1) % Wrap = Add(p, i - 1)
    BY DEF Add
  <1> QED
    BY <1>1, <1>2 DEF Stretch, Fifo!Stream

LEMMA StretchConcat ==
  ASSUME NEW p \in Counter, NEW m \in Nat, NEW n \in Nat, m + n < Wrap
  PROVE  Stretch(p, m) \o Stretch(Add(p, m), n) = Stretch(p, m + n)
  <1> DEFINE a == Stretch(p, m)  b == Stretch(Add(p, m), n)  c == Stretch(p, m + n)
  <1>1. p \in Int /\ m \in Counter /\ Add(p, m) \in Int /\ m + n \in Nat
    BY AddInCounter DEF Counter
  <1>2. a \in Seq(Counter) /\ Len(a) = m /\ \A i \in 1..m : a[i] = Add(p, i - 1)
    BY <1>1, StretchIsSeq
  <1>3. b \in Seq(Counter) /\ Len(b) = n /\ \A i \in 1..n : b[i] = Add(Add(p, m), i - 1)
    BY <1>1, StretchIsSeq
  <1>4. c \in Seq(Counter) /\ Len(c) = m + n /\ \A i \in 1..m + n : c[i] = Add(p, i - 1)
    BY <1>1, StretchIsSeq
  <1> HIDE DEF a, b, c
  <1>5. /\ a \o b \in Seq(Counter) /\ Len(a \o b) = m + n
        /\ \A i \in 1..m + n : (a \o b)[i] = IF i <= m THEN a[i] ELSE b[i - m]
    BY <1>2, <1>3, ConcatProperties, ZenonT(40)
  <1>6. ASSUME NEW i \in 1..m + n
        PROVE  (a \o b)[i] = c[i]
    <2>1. CASE i <= m
      <3>1. i \in 1..m
        BY <2>1
      <3>2. (a \o b)[i] = a[i]
        BY <1>5, <2>1
      <3>3. a[i] = Add(p, i - 1) /\ c[i] = Add(p, i - 1)
        BY <1>2, <1>4, <3>1
      <3> QED
        BY <3>2, <3>3
    <2>2. CASE i > m
      <3>1. i - m \in 1..n /\ i - m - 1 \in Counter /\ m + (i - m - 1) = i - 1 /\ i - 1 < Wrap
        BY <1>1, <2>2 DEF Counter
      <3>2. Add(Add(p, m), i - m - 1) = Add(p, i - 1)
        BY <1>1, <3>1, AddAdd
      <3>3. (a \o b)[i] = b[i - m]
        BY <1>5, <2>2
      <3>4. b[i - m] = Add(Add(p, m), i - m - 1)
        BY <1>3, <3>1
      <3>5. c[i] = Add(p, i - 1)
        BY <1>4
      <3> QED
        BY <3>2, <3>3, <3>4, <3>5
    <2>3. i <= m \/ i > m
      OBVIOUS
    <2> QED
      BY <2>1, <2>2, <2>3, Zenon
  <1>7. a \o b = c
    BY <1>4, <1>5, <1>6, SeqEqual
  <1> QED
    BY <1>7 DEF a, b, c

\* The two parts that a read of n bytes divides a stretch into.
LEMMA StretchSplit ==
  ASSUME NEW p \in Counter, NEW m \in Nat, NEW n \in Nat, n <= m, m < Wrap
  PROVE  /\ SubSeq(Stretch(p, m), 1, n) = Stretch(p, n)
         /\ SubSeq(Stretch(p, m), n + 1, m) = Stretch(Add(p, n), m - n)
  <1> DEFINE a == Stretch(p, n)  b == Stretch(Add(p, n), m - n)  c == Stretch(p, m)
  <1>1. p \in Int /\ n \in Counter /\ Add(p, n) \in Int /\ m - n \in Nat
    BY AddInCounter DEF Counter
  <1>2. a \in Seq(Counter) /\ Len(a) = n /\ \A i \in 1..n : a[i] = Add(p, i - 1)
    BY <1>1, StretchIsSeq
  <1>3. b \in Seq(Counter) /\ Len(b) = m - n /\ \A i \in 1..m - n : b[i] = Add(Add(p, n), i - 1)
    BY <1>1, StretchIsSeq
  <1>4. c \in Seq(Counter) /\ Len(c) = m /\ \A i \in 1..m : c[i] = Add(p, i - 1)
    BY <1>1, StretchIsSeq
  <1> HIDE DEF a, b, c
  <1>5. \A i \in 1..m : c[i] \in Counter
    BY <1>4
  <1>6. SubSeq(c, 1, n) = a
    <2>1. /\ SubSeq(c, 1, n) \in Seq(Counter) /\ Len(SubSeq(c, 1, n)) = n
          /\ \A i \in 1..n : SubSeq(c, 1, n)[i] = c[i]
      BY <1>5, SubSeqProperties
    <2>2. \A i \in 1..n : SubSeq(c, 1, n)[i] = a[i]
      BY <1>2, <1>4, <2>1
    <2> QED
      BY <1>2, <2>1, <2>2, SeqEqual
  <1>7. SubSeq(c, n + 1, m) = b
    <2>1. /\ SubSeq(c, n + 1, m) \in Seq(Counter) /\ Len(SubSeq(c, n + 1, m)) = m - n
          /\ \A i \in 1..m - n : SubSeq(c, n + 1, m)[i] = c[n + i]
      <3>1. \A i \in n + 1..m : c[i] \in Counter
        BY <1>5
      <3>2. /\ SubSeq(c, n + 1, m) \in Seq(Counter)
            /\ Len(SubSeq(c, n + 1, m)) = IF n + 1 <= m THEN m - (n + 1) + 1 ELSE 0
            /\ \A i \in 1..m - (n + 1) + 1 : SubSeq(c, n + 1, m)[i] = c[n + 1 + i - 1]
        BY <3>1, SubSeqProperties
      <3> QED
        BY <3>2
    <2>2. ASSUME NEW i \in 1..m - n
          PROVE  c[n + i] = b[i]
      <3>1. n + i \in 1..m /\ i - 1 \in Counter /\ n + (i - 1) = n + i - 1 /\ n + (i - 1) < Wrap
        BY DEF Counter
      <3>2. Add(Add(p, n), i - 1) = Add(p, n + (i - 1))
        BY <1>1, <3>1, AddAdd
      <3>3. c[n + i] = Add(p, n + i - 1)
        BY <1>4, <3>1
      <3> QED
        BY <1>3, <3>1, <3>2, <3>3
    <2> QED
      BY <1>3, <2>1, <2>2, SeqEqual
  <1> QED
    BY <1>6, <1>7 DEF a, b, c

\* What the buffer holds is the stretch of the stream between the counters.
QueueInv == Queue = Stretch(read_pos, Used)

LEMMA QueueIs == TypeOK /\ IInv => QueueInv
  <1> SUFFICES ASSUME TypeOK, IInv PROVE QueueInv
    OBVIOUS
  <1>1. Used \in Nat
    BY CounterFacts
  <1>2. ASSUME NEW i \in 1..Used
        PROVE  data[CellOf(Add(read_pos, i - 1))] = Add(read_pos, i - 1)
    <2>1. i - 1 \in 0..Used-1
      BY <1>1
    <2> QED
      BY <2>1 DEF IInv, ContentInv
  <1> QED
    BY <1>2 DEF Queue, QueueInv, Stretch

\* The same after a step.
LEMMA QueueIsNext == TypeOK' /\ IInv' => QueueInv'
  BY QueueIs, PTL

\* A step that moves neither counter is a stutter of the queue.
LEMMA QueueStutters ==
  ASSUME TypeOK, IInv, TypeOK', IInv',
         UNCHANGED <<write_pos, read_pos, accepted, handed>>
  PROVE  UNCHANGED Fifo!vars
  <1>1. Used' = Used
    BY DEF Used, Available
  <1>2. Queue = Stretch(read_pos, Used) /\ Queue' = Stretch(read_pos', Used')
    BY QueueIs, QueueIsNext DEF QueueInv
  <1> QED
    BY <1>1, <1>2 DEF Stretch, Fifo!vars

\* A write that publishes n bytes appends the stream's next n to the queue.
LEMMA PublishIsPut ==
  ASSUME TypeOK, IInv, TypeOK', IInv', WritePublish
  PROVE  Fifo!Next \/ UNCHANGED Fifo!vars
  <1> DEFINE n == wCount
  <1>1. /\ n \in Nat /\ n \in 0..Capacity /\ Used \in Nat
        /\ read_pos \in Counter /\ write_pos \in Counter
    BY CounterFacts DEF WritePublish, IInv, WriterInv
  <1>2. Used + n <= Capacity /\ accepted = write_pos /\ wWrite = write_pos
    BY DEF WritePublish, IInv, WriterInv
  <1>3. read_pos' = read_pos /\ write_pos' = Add(write_pos, n)
        /\ accepted' = Add(write_pos, n) /\ handed' = handed
    BY <1>2 DEF WritePublish
  <1>4. Used' = Used + n
    BY <1>1, <1>2, <1>3, UsedAfterWrite DEF Used, Available
  <1>5. Queue = Stretch(read_pos, Used) /\ Queue' = Stretch(read_pos, Used + n)
    <2>1. Queue = Stretch(read_pos, Used)
      BY QueueIs DEF QueueInv
    <2>2. Queue' = Stretch(read_pos', Used')
      BY QueueIsNext DEF QueueInv, Stretch
    <2> QED
      BY <1>3, <1>4, <2>1, <2>2
  <1>6. Len(Queue) = Used
    BY <1>1, <1>5, StretchIsSeq DEF Counter
  <1>7. Queue' = Queue \o Fifo!Stream(accepted, n)
    <2>1. Add(read_pos, Used) = write_pos
      BY <1>1, AddOfSub DEF Used, Available
    <2>2. Fifo!Stream(accepted, n) = Stretch(write_pos, n)
      BY <1>1, <1>2, StretchIsSeq DEF Counter
    <2>3. Used + n < Wrap
      BY <1>1, <1>2
    <2>4. Stretch(read_pos, Used) \o Stretch(Add(read_pos, Used), n) = Stretch(read_pos, Used + n)
      BY <1>1, <2>3, StretchConcat
    <2> QED
      BY <1>5, <2>1, <2>2, <2>4
  <1>8. CASE n = 0
    <2>1. Add(write_pos, n) = write_pos
      <3>1. 0 \in Counter /\ write_pos + 0 = write_pos /\ write_pos < Wrap
        BY <1>1 DEF Counter
      <3> QED
        BY <1>1, <1>8, <3>1, AddLinear
    <2>2. Used + n = Used
      BY <1>1, <1>8
    <2> QED
      BY <1>2, <1>3, <1>5, <2>1, <2>2 DEF Fifo!vars
  <1>9. CASE n # 0
    <2>1. n \in 1..(Capacity - Len(Queue))
      BY <1>1, <1>2, <1>6, <1>9
    <2>2. accepted' = (accepted + n) % Wrap
      BY <1>2, <1>3 DEF Add
    <2>3. Fifo!Put
      BY <1>3, <1>7, <2>1, <2>2 DEF Fifo!Put
    <2> QED
      BY <2>3 DEF Fifo!Next
  <1> QED
    BY <1>8, <1>9

\* A read that returns n bytes hands out the n at the head of the queue.
LEMMA PublishIsTake ==
  ASSUME TypeOK, IInv, TypeOK', IInv', NEW c \in Consumers, ReadPublish(c)
  PROVE  Fifo!Next
  <1> DEFINE n == rCount[c]
  <1>1. /\ n \in Nat /\ n \in 0..Capacity /\ Used \in Nat /\ Used < Wrap
        /\ read_pos \in Counter /\ write_pos \in Counter /\ rOut[c] \in Seq(Counter)
    BY CounterFacts DEF ReadPublish, IInv, ReaderInv, OccupancyBounded, Used
  <1>2. /\ 0 < n /\ n <= Used /\ rRead[c] = read_pos /\ Len(rOut[c]) = n
        /\ \A i \in 1..n : rOut[c][i] = Add(read_pos, i - 1)
    BY DEF ReadPublish, IInv, ReaderInv
  <1>3. /\ read_pos' = Add(read_pos, n) /\ write_pos' = write_pos
        /\ accepted' = accepted /\ handed' = rOut[c]
    BY <1>2 DEF ReadPublish
  <1>4. Used' = Used - n
    BY <1>1, <1>2, <1>3, UsedAfterRead DEF Used, Available
  <1>5. Queue = Stretch(read_pos, Used) /\ Queue' = Stretch(Add(read_pos, n), Used - n)
    <2>1. Queue = Stretch(read_pos, Used)
      BY QueueIs DEF QueueInv
    <2>2. Queue' = Stretch(read_pos', Used')
      BY QueueIsNext DEF QueueInv, Stretch
    <2> QED
      BY <1>3, <1>4, <2>1, <2>2
  <1>6. Len(Queue) = Used /\ read_pos \in Int
    BY <1>1, <1>5, StretchIsSeq DEF Counter
  <1>7. rOut[c] = Stretch(read_pos, n)
    <2>1. /\ Stretch(read_pos, n) \in Seq(Counter) /\ Len(Stretch(read_pos, n)) = n
          /\ \A i \in 1..n : Stretch(read_pos, n)[i] = Add(read_pos, i - 1)
      BY <1>1, <1>6, StretchIsSeq
    <2>2. \A i \in 1..Len(rOut[c]) : rOut[c][i] = Stretch(read_pos, n)[i]
      BY <1>2, <2>1
    <2> QED
      BY <1>1, <1>2, <2>1, <2>2, SeqEqual
  <1>8. /\ SubSeq(Queue, 1, n) = Stretch(read_pos, n)
        /\ SubSeq(Queue, n + 1, Used) = Stretch(Add(read_pos, n), Used - n)
    BY <1>1, <1>2, <1>5, StretchSplit
  <1>9. n \in 1..Len(Queue)
    BY <1>1, <1>2, <1>6
  <1>10. Fifo!Take
    BY <1>3, <1>5, <1>6, <1>7, <1>8, <1>9 DEF Fifo!Take
  <1> QED
    BY <1>10 DEF Fifo!Next

\* Every behaviour of the buffer with one consumer is one of the abstract
\* queue: nothing is lost, repeated, reordered or torn.
THEOREM Refinement == SingleConsumer => (Spec => FifoSpec)
<1> SUFFICES ASSUME SingleConsumer PROVE Spec => FifoSpec
  OBVIOUS
<1>1. Init => Fifo!Init
  <2> SUFFICES ASSUME Init PROVE Fifo!Init
    OBVIOUS
  <2>1. Used = 0
    BY SubLinear DEF Init, Used, Available, Counter
  <2> QED
    BY <2>1 DEF Init, Fifo!Init, Queue
<1>2. TypeOK /\ IInv /\ TypeOK' /\ IInv' /\ [Next]_vars => [Fifo!Next]_(Fifo!vars)
  <2> SUFFICES ASSUME TypeOK, IInv, TypeOK', IInv', [Next]_vars
               PROVE  Fifo!Next \/ UNCHANGED Fifo!vars
    OBVIOUS
  <2>1. CASE UNCHANGED vars
    BY <2>1, QueueStutters DEF vars, shared, history
  <2>2. ASSUME NEW len \in Lens, WriteCall(len)
        PROVE  UNCHANGED Fifo!vars
    BY <2>2, QueueStutters DEF WriteCall, shared, history
  <2>3. CASE WriteLoad
    BY <2>3, QueueStutters DEF WriteLoad, shared, history
  <2>4. CASE WriteCopy
    BY <2>4, QueueStutters DEF WriteCopy, history
  <2>5. CASE WritePublish
    BY <2>5, PublishIsPut
  <2>6. ASSUME NEW c \in Consumers, Read(c), ~ReadPublish(c)
        PROVE  UNCHANGED Fifo!vars
    BY <2>6, QueueStutters
    DEF Read, ReadCall, ReadLoad, ReadCopy, PeekReturn, shared, history
  <2>7. ASSUME NEW c \in Consumers, ReadPublish(c)
        PROVE  Fifo!Next
    BY <2>7, PublishIsTake
  <2> QED
    BY <2>1, <2>2, <2>3, <2>4, <2>5, <2>6, <2>7 DEF Next, Write
<1> QED
  BY <1>1, <1>2, TypeCorrect, Inductive, PTL DEF Spec, FifoSpec, Fifo!Spec

===============================================================================
