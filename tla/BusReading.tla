------------------------------ MODULE BusReading ------------------------------
(***************************************************************************)
(* What any capture says on a UART, an I2C or an SPI bus, as the set of    *)
(* the bytes in it: the definition that the decoders of ProtocolDecoders   *)
(* are proved to follow.  It has no state that runs along the samples.     *)
(***************************************************************************)
EXTENDS ProtocolDecoders, FiniteSets

\* The samples that have one before them.
Inner(count) == 1..count - 1

\* events has the bytes in the order of their time stamps, the first max of them.
Reports(events, bytes, max) ==
  /\ Len(events) <= max
  /\ \A k, l \in DOMAIN events : k < l => events[k].at < events[l].at
  /\ \A k \in DOMAIN events : events[k] \in bytes
  /\ \A b \in bytes : \/ \E k \in DOMAIN events : events[k] = b
                      \/ Len(events) = max /\ \A k \in DOMAIN events : events[k].at < b.at

-------------------------------------------------------------------------------
(* UART                                                                     *)

\* The line falls, and is still low in the middle of the start bit.
StartBit(rx, count, spb, i) ==
  Falls(rx[i - 1], rx[i]) /\ Middle(i, spb, 0) < count /\ rx[Middle(i, spb, 0)] = 0

\* A frame begins at a start bit that does not lie in an earlier frame, which
\* goes up to the middle of its stop bit.
Frames(rx, count, spb) ==
  LET bits == {i \in Inner(count) : StartBit(rx, count, spb, i)}
      begins[i \in bits] == \A j \in bits : j < i /\ begins[j] => Middle(j, spb, 9) < i
  IN  {i \in bits : begins[i]}

\* The frames that are complete and end with a stop bit.
UartBytes(samples, count, cfg) ==
  LET spb == SamplesPerBit(cfg)
      rx  == Line(samples, count, cfg.rx_channel)
      whole == {i \in Frames(rx, count, spb) :
                  Middle(i, spb, 9) < count /\ rx[Middle(i, spb, 9)] = 1}
  IN  IF UartConfigOK(cfg)
      THEN {[at |-> i, value0 |-> UartByte(rx, i, spb)] : i \in whole} ELSE {}

-------------------------------------------------------------------------------
(* I2C and SPI: clocked buses.  Bits come at `ticks', and a break cuts off  *)
(* what has come before it.                                                 *)

\* The ticks up to sample i that no break has cut off.
Since(ticks, breaks, i) ==
  {j \in ticks : j <= i /\ \A r \in breaks : ~(j <= r /\ r <= i)}

\* How many they are up to sample i, and the n-th of them.
Count(ticks, breaks, i) == Cardinality(Since(ticks, breaks, i))
Tick(ticks, breaks, i, n) ==
  CHOOSE j \in Since(ticks, breaks, i) : Cardinality({l \in Since(ticks, breaks, i) : l <= j}) = n

\* The samples at which a word of `size' bits is complete.
WordEnds(ticks, breaks, size) ==
  {i \in ticks \ breaks : Count(ticks, breaks, i) % size = 0}

\* The first eight bits of the word that is complete at sample i.
ByteAt(level, ticks, breaks, size, i) ==
  ByteOf([k \in 1..8 |-> level[Tick(ticks, breaks, i, Count(ticks, breaks, i) - size + k)]])

-------------------------------------------------------------------------------
(* I2C                                                                      *)

\* The data line moves while the clock is high.
I2cStarts(scl, sda, count) == {i \in Inner(count) : scl[i] = 1 /\ Falls(sda[i - 1], sda[i])}
I2cStops(scl, sda, count)  == {i \in Inner(count) : scl[i] = 1 /\ Rises(sda[i - 1], sda[i])}
I2cBreaks(scl, sda, count) == I2cStarts(scl, sda, count) \cup I2cStops(scl, sda, count)

\* Since a start condition there has been no stop condition.
I2cActive(scl, sda, count, i) ==
  \E s \in I2cStarts(scl, sda, count) :
     s <= i /\ \A e \in I2cStops(scl, sda, count) : ~(s < e /\ e <= i)

I2cTicks(scl, sda, count) ==
  {i \in Inner(count) : Rises(scl[i - 1], scl[i]) /\ I2cActive(scl, sda, count, i)}

\* Every ninth bit acknowledges a byte.
I2cBytes(samples, count, cfg) ==
  LET scl == Line(samples, count, cfg.scl_channel)
      sda == Line(samples, count, cfg.sda_channel)
      ticks  == I2cTicks(scl, sda, count)
      breaks == I2cBreaks(scl, sda, count)
  IN  IF {cfg.scl_channel, cfg.sda_channel} \subseteq Channels
      THEN {[at |-> i, value0 |-> ByteAt(sda, ticks, breaks, 9, i), value1 |-> 1 - sda[i]] :
              i \in WordEnds(ticks, breaks, 9)}
      ELSE {}

-------------------------------------------------------------------------------
(* SPI                                                                      *)

\* While the chip is not selected nothing is sent.
SpiBreaks(cs, count) == {i \in Inner(count) : cs[i] = 1}

\* Data are valid at the edge that ends the clock's idle level for phase 0, at
\* the one back to it for phase 1.
SpiTicks(clk, cfg, count) ==
  {i \in Inner(count) :
     clk[i - 1] # clk[i] /\ clk[i] = IF cfg.cpha = 0 THEN 1 - cfg.cpol ELSE cfg.cpol}

SpiBytes(samples, count, cfg) ==
  LET ticks  == SpiTicks(Line(samples, count, cfg.clk_channel), cfg, count)
      breaks == SpiBreaks(Line(samples, count, cfg.cs_channel), count)
      mosi == Line(samples, count, cfg.mosi_channel)
      miso == Line(samples, count, cfg.miso_channel)
  IN  IF {cfg.clk_channel, cfg.cs_channel, cfg.mosi_channel, cfg.miso_channel} \subseteq Channels
      THEN {[at |-> i, value0 |-> ByteAt(mosi, ticks, breaks, 8, i),
                       value1 |-> ByteAt(miso, ticks, breaks, 8, i)] :
              i \in WordEnds(ticks, breaks, 8)}
      ELSE {}

===============================================================================
