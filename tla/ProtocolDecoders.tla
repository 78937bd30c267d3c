--------------------------- MODULE ProtocolDecoders ---------------------------
(***************************************************************************)
(* The three decoders of embedded_debug_toolkit/src/protocol/              *)
(* protocol_decoder.c, as functions from an array of samples to the events *)
(* they report.                                                            *)
(*                                                                         *)
(* A sample is the set of the channels that are high, an array a function  *)
(* on 0..count-1.  An event carries the index of the sample whose time     *)
(* stamp it gets.  NULL arguments and the events' summaries are left out.  *)
(***************************************************************************)
EXTENDS Integers, Sequences

Channels == 0..7

\* edt_bit
Bit(sample, channel) == IF channel \in sample THEN 1 ELSE 0

\* A byte with one more bit shifted in at its low end.
ShiftIn(byte, bit) == (2 * byte + bit) % 256

Falls(prev, curr) == prev = 1 /\ curr = 0
Rises(prev, curr) == prev = 0 /\ curr = 1

\* The levels of one channel.
Line(samples, count, channel) == [n \in 0..count - 1 |-> Bit(samples[n], channel)]

\* Eight bits as a byte, the highest first.
ByteOf(bits) == 128 * bits[1] + 64 * bits[2] + 32 * bits[3] + 16 * bits[4]
                  + 8 * bits[5] + 4 * bits[6] + 2 * bits[7] + bits[8]

First(seq, n) == SubSeq(seq, 1, IF Len(seq) < n THEN Len(seq) ELSE n)

\* A decoder that goes through the samples one by one: step(s, i) is its state
\* after sample i.  It stops when events is full.
RunOver(init, step(_, _), count, max_events) ==
  LET after[i \in Nat] ==
        IF i = 0 THEN init
        ELSE LET s == after[i - 1]
             IN  IF Len(s.events) < max_events THEN step(s, i) ELSE s
  IN  IF count = 0 THEN <<>> ELSE after[count - 1].events

-------------------------------------------------------------------------------
(* edt_decode_uart                                                          *)

SamplesPerBit(cfg) == cfg.sample_rate_hz \div cfg.baudrate

UartConfigOK(cfg) == /\ cfg.baudrate # 0 /\ cfg.sample_rate_hz # 0
                     /\ cfg.rx_channel \in Channels
                     /\ SamplesPerBit(cfg) >= 3

\* Where bit k of the frame that begins at sample start is read: the start bit
\* is bit 0, the stop bit is bit 9.
Middle(start, spb, k) == start + spb \div 2 + k * spb

\* A mutant: a low sample in the first half of the start bit will do.
StartBitEarly(rx, start, spb) == rx[start + spb \div 4] = 0

StartBitSeen(rx, start, spb) == rx[Middle(start, spb, 0)] = 0

\* The lowest bit comes first.
UartByte(rx, start, spb) == ByteOf([k \in 1..8 |-> rx[Middle(start, spb, 9 - k)]])

\* A byte is reported if its stop bit is high.
UartEvent(rx, start, spb, value) ==
  IF rx[Middle(start, spb, 9)] = 1 THEN <<[at |-> start, value0 |-> value]>> ELSE <<>>

\* A mutant: the search goes on one bit after the stop bit.
AfterFrameLate(start, spb) == Middle(start, spb, 10) + 1

\* After a frame the search goes on behind the sample of its stop bit.
AfterFrame(start, spb) == Middle(start, spb, 9) + 1

EdtDecodeUart(samples, count, cfg, max_events) ==
  LET spb == SamplesPerBit(cfg)
      rx  == Line(samples, count, cfg.rx_channel)
      \* the events found from sample i on
      from[i \in Nat] ==
        IF i >= count THEN <<>>
        ELSE IF ~Falls(rx[i - 1], rx[i]) THEN from[i + 1]
        ELSE IF Middle(i, spb, 0) >= count THEN <<>>
        ELSE IF ~StartBitSeen(rx, i, spb) THEN from[i + 1]
        ELSE IF Middle(i, spb, 9) >= count THEN <<>>
        ELSE UartEvent(rx, i, spb, UartByte(rx, i, spb)) \o from[AfterFrame(i, spb)]
  IN  IF UartConfigOK(cfg) THEN First(from[1], max_events) ELSE <<>>

-------------------------------------------------------------------------------
(* edt_decode_i2c                                                           *)

I2cIdle == [active |-> FALSE, bit_count |-> 0, current |-> 0, expect_ack |-> FALSE, events |-> <<>>]

\* A mutant: a start condition keeps the bits read so far.
I2cStartKeeps(s) == [s EXCEPT !.active = TRUE]

\* A start condition, also a repeated one, and a stop condition.
I2cStart(s) == [s EXCEPT !.active = TRUE, !.bit_count = 0, !.current = 0, !.expect_ack = FALSE]
I2cStop(s) == [s EXCEPT !.active = FALSE]

I2cBit(s, sda) ==
  [s EXCEPT !.current = ShiftIn(@, sda),
            !.bit_count = (@ + 1) % 8,
            !.expect_ack = (s.bit_count = 7)]

I2cAck(s, sda, i) ==
  [s EXCEPT !.events = Append(@, [at |-> i, value0 |-> s.current, value1 |-> 1 - sda]),
            !.current = 0,
            !.expect_ack = FALSE]

\* Sample i, with the one before it.
I2cStep(s, prev, curr, cfg, i) ==
  LET scl == Bit(curr, cfg.scl_channel)
      sda == Bit(curr, cfg.sda_channel)
      prev_scl == Bit(prev, cfg.scl_channel)
      prev_sda == Bit(prev, cfg.sda_channel)
  IN  IF scl = 1 /\ Falls(prev_sda, sda) THEN I2cStart(s)
      ELSE IF scl = 1 /\ Rises(prev_sda, sda) THEN I2cStop(s)
      ELSE IF ~s.active \/ ~Rises(prev_scl, scl) THEN s
      ELSE IF s.expect_ack THEN I2cAck(s, sda, i)
      ELSE I2cBit(s, sda)

EdtDecodeI2c(samples, count, cfg, max_events) ==
  IF {cfg.scl_channel, cfg.sda_channel} \subseteq Channels
  THEN RunOver(I2cIdle, LAMBDA s, i : I2cStep(s, samples[i - 1], samples[i], cfg, i),
               count, max_events)
  ELSE <<>>

-------------------------------------------------------------------------------
(* edt_decode_spi                                                           *)

SpiIdle == [active |-> FALSE, bits |-> 0, mosi_byte |-> 0, miso_byte |-> 0, events |-> <<>>]

\* A mutant: the edge depends on the phase only.
SampleOnRisingPhase(cfg) == cfg.cpha = 0

SampleOnRising(cfg) == cfg.cpha = cfg.cpol

SpiDeselect(s) == [s EXCEPT !.active = FALSE, !.bits = 0]

SpiSelect(s) ==
  IF s.active THEN s
  ELSE [s EXCEPT !.active = TRUE, !.bits = 0, !.mosi_byte = 0, !.miso_byte = 0]

SpiBit(s, mosi, miso, i) ==
  LET mo == ShiftIn(s.mosi_byte, mosi)
      mi == ShiftIn(s.miso_byte, miso)
  IN  IF s.bits = 7
      THEN [s EXCEPT !.events = Append(@, [at |-> i, value0 |-> mo, value1 |-> mi]),
                     !.bits = 0, !.mosi_byte = 0, !.miso_byte = 0]
      ELSE [s EXCEPT !.bits = @ + 1, !.mosi_byte = mo, !.miso_byte = mi]

SpiStep(s, prev, curr, cfg, i) ==
  LET clk == Bit(curr, cfg.clk_channel)
      prev_clk == Bit(prev, cfg.clk_channel)
      selected == SpiSelect(s)
      edge == IF SampleOnRising(cfg) THEN Rises(prev_clk, clk) ELSE Falls(prev_clk, clk)
      \* the first edge of a byte is passed over if it leaves the idle level
      leading == prev_clk = cfg.cpol /\ selected.bits = 0 /\ cfg.cpha = 1
  IN  IF Bit(curr, cfg.cs_channel) = 1 THEN SpiDeselect(s)
      ELSE IF ~edge \/ leading THEN selected
      ELSE SpiBit(selected, Bit(curr, cfg.mosi_channel), Bit(curr, cfg.miso_channel), i)

EdtDecodeSpi(samples, count, cfg, max_events) ==
  IF {cfg.clk_channel, cfg.cs_channel, cfg.mosi_channel, cfg.miso_channel} \subseteq Channels
  THEN RunOver(SpiIdle, LAMBDA s, i : SpiStep(s, samples[i - 1], samples[i], cfg, i),
               count, max_events)
  ELSE <<>>

===============================================================================
