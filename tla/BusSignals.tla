------------------------------ MODULE BusSignals ------------------------------
(***************************************************************************)
(* What the logic analyzer sees on its inputs when devices talk on a UART, *)
(* an I2C or an SPI bus, and what a decoder should make of a part of it:   *)
(* the reference that ProtocolDecoders is checked against.  The UART       *)
(* frames are those of build_uart_samples of tests/test_protocol_decoder.c,*)
(* sent at a rate the sample rate need not be a multiple of; I2C and SPI   *)
(* are what the buses define.                                              *)
(*                                                                         *)
(* A signal is [samples, sent]: the samples, one after the other, and the  *)
(* bytes sent.  Of a byte, `value' is the event that reports it, `good' is *)
(* whether it is to be reported, and it is on the wires from sample `first'*)
(* to `last', where its transaction begins and it is complete; `stop' is   *)
(* the first sample that may complete it.  Samples are counted from 0.     *)
(***************************************************************************)
EXTENDS Integers, Sequences, SequencesExt

BitOf(byte, k) == (byte \div 2^k) % 2

-------------------------------------------------------------------------------
(* UART                                                                     *)

\* A signal is sampled rate times while baud bits are sent.  Time is counted
\* so that a sample is taken every baud units and a bit lasts rate units.  A
\* frame is [byte, stop, gap]: a start bit, eight data bits from the lowest on,
\* a stop bit, which a broken frame has low, and then gap bits of idle line.
FrameBits == 10

FrameLevel(frame, k) == IF k = 0 THEN 0
                        ELSE IF k < 9 THEN BitOf(frame.byte, k - 1)
                        ELSE frame.stop

\* How many bits have gone by when frame f begins: two idle bits come first.
BitsBefore(frames, f) ==
  LET bits[g \in 1..Len(frames)] ==
        IF g = 1 THEN 2 ELSE bits[g - 1] + FrameBits + frames[g - 1].gap
  IN  bits[f]

\* The first sample at or after time t.
SampleAt(t, baud) == (t + baud - 1) \div baud

\* The frames begin phase units after a sample; before them comes a pulse of
\* `glitch' low samples, from sample 1 on.
UartSignal(channel, frames, rate, baud, phase, glitch) ==
  LET begin(f) == phase + BitsBefore(frames, f) * rate
      N == SampleAt(begin(Len(frames)) + (FrameBits + 2) * rate, baud)
      inFrame(n, f) == n * baud >= begin(f) /\ n * baud < begin(f) + FrameBits * rate
      level(n) == IF \E f \in DOMAIN frames : inFrame(n, f)
                  THEN LET f == CHOOSE f \in DOMAIN frames : inFrame(n, f)
                       IN  FrameLevel(frames[f], (n * baud - begin(f)) \div rate)
                  ELSE IF n \in 1..glitch THEN 0 ELSE 1
  IN  [samples |-> [n \in 1..N |-> IF level(n - 1) = 1 THEN {channel} ELSE {}],
       sent |-> [f \in DOMAIN frames |->
                  [value |-> [at |-> SampleAt(begin(f), baud), value0 |-> frames[f].byte],
                   good  |-> frames[f].stop = 1,
                   first |-> SampleAt(begin(f), baud),
                   \* the stop bit: a decoder may read it from its first sample on
                   \* and must have read it at its last one
                   stop  |-> SampleAt(begin(f) + 9 * rate, baud),
                   last  |-> SampleAt(begin(f) + FrameBits * rate, baud) - 1]]]

\* The bits stay apart although the number of samples per bit is rounded down.
RateTolerable(rate, baud) ==
  rate \div baud >= 3 /\ 9 * (rate % baud) <= ((rate \div baud) \div 2) * baud

-------------------------------------------------------------------------------
(* I2C and SPI: a list of phases, each of which lasts `hold' samples.       *)

\* A phase: the channels that are high, the byte that is complete at its first
\* sample, if any, and whether a transfer begins with it.
Phase(high) == [high |-> high, byte |-> <<>>, begins |-> FALSE]

\* The samples of a list of phases, and its bytes with the samples [first, last]
\* that a decoder has to see: from the last beginning on, with the sample before.
PhaseSignal(phases, hold) ==
  LET begun(p) == CHOOSE q \in 1..p : /\ phases[q].begins
                                      /\ \A r \in q + 1..p : ~phases[r].begins
      bytes == SelectSeq([p \in DOMAIN phases |-> p], LAMBDA p : phases[p].byte # <<>>)
      at(p) == (p - 1) * hold
  IN  [samples |-> [n \in 1..Len(phases) * hold |-> phases[(n - 1) \div hold + 1].high],
       sent |-> [k \in DOMAIN bytes |->
                  LET p == bytes[k]
                  IN  [value |-> [at |-> at(p), value0 |-> phases[p].byte[1],
                                  value1 |-> phases[p].byte[2]],
                       good |-> TRUE,
                       first |-> at(begun(p)), stop |-> at(p), last |-> at(p)]]]

\* The level of the clock and the data line, as a phase.
I2cPhase(scl, sda, cfg) ==
  Phase((IF scl = 1 THEN {cfg.scl_channel} ELSE {}) \cup (IF sda = 1 THEN {cfg.sda_channel} ELSE {}))

\* Data change while the clock is low, and are valid while it is high.
I2cClock(bit, cfg, byte) ==
  <<I2cPhase(0, bit, cfg),
    [I2cPhase(1, bit, cfg) EXCEPT !.byte = byte],
    I2cPhase(0, bit, cfg)>>

\* A byte is [value, ack], ack being 1 if it is acknowledged: the line is low.
I2cByte(b, cfg) ==
  FlattenSeq([k \in 1..8 |-> I2cClock(BitOf(b.value, 8 - k), cfg, <<>>)])
    \o I2cClock(1 - b.ack, cfg, <<b.value, b.ack>>)

\* A transaction is [bytes, stop]: one without a stop condition is followed by a
\* repeated start, whose clock pulse a decoder sees too.
I2cTransaction(t, cfg) ==
  <<I2cPhase(1, 1, cfg), [I2cPhase(1, 0, cfg) EXCEPT !.begins = TRUE], I2cPhase(0, 0, cfg)>>
    \o FlattenSeq([b \in DOMAIN t.bytes |-> I2cByte(t.bytes[b], cfg)])
    \o IF t.stop THEN <<I2cPhase(0, 0, cfg), I2cPhase(1, 0, cfg), I2cPhase(1, 1, cfg)>>
       ELSE <<I2cPhase(0, 1, cfg)>>

I2cSignal(transactions, cfg, hold) ==
  PhaseSignal(FlattenSeq([t \in DOMAIN transactions |-> I2cTransaction(transactions[t], cfg)]), hold)

SpiPhase(clk, cs, mosi, miso, cfg) ==
  Phase((IF clk = 1 THEN {cfg.clk_channel} ELSE {}) \cup (IF cs = 1 THEN {cfg.cs_channel} ELSE {})
        \cup (IF mosi = 1 THEN {cfg.mosi_channel} ELSE {})
        \cup (IF miso = 1 THEN {cfg.miso_channel} ELSE {}))

\* A bit: the clock leaves its idle level and comes back, and the data are valid
\* at the first of the two edges (cpha = 0) or at the second.
SpiClock(mosi, miso, cfg, byte) ==
  LET valid == [SpiPhase(IF cfg.cpha = 0 THEN 1 - cfg.cpol ELSE cfg.cpol, 0, mosi, miso, cfg)
                  EXCEPT !.byte = byte]
      other == SpiPhase(IF cfg.cpha = 0 THEN cfg.cpol ELSE 1 - cfg.cpol, 0, mosi, miso, cfg)
  IN  <<other, valid>>

\* A transfer is [bytes, rest]: pairs of bytes, and rest bits of one cut short.
SpiTransfer(t, cfg) ==
  LET word(b, n) == FlattenSeq([k \in 1..n |->
        SpiClock(BitOf(b[1], 8 - k), BitOf(b[2], 8 - k), cfg, IF k = 8 THEN b ELSE <<>>)])
  IN  <<SpiPhase(cfg.cpol, 1, 0, 0, cfg),
        [SpiPhase(cfg.cpol, 0, 0, 0, cfg) EXCEPT !.begins = TRUE]>>
        \o FlattenSeq([b \in DOMAIN t.bytes |-> word(t.bytes[b], 8)])
        \o word(<<255, 255>>, t.rest)
        \o <<SpiPhase(cfg.cpol, 0, 0, 0, cfg), SpiPhase(cfg.cpol, 1, 0, 0, cfg)>>

SpiSignal(transfers, cfg, hold) ==
  PhaseSignal(FlattenSeq([t \in DOMAIN transfers |-> SpiTransfer(transfers[t], cfg)]), hold)

===============================================================================
