------------------------------ MODULE DecodeLoop ------------------------------
(***************************************************************************)
(* The loop of embedded_debug_toolkit/src/main.c that captures samples and *)
(* gives them to the three decoders.  A capture is some part of what goes  *)
(* over the wires: samples are lost while main sleeps, and the decoders    *)
(* keep nothing from one capture to the next, so that a message may be cut *)
(* off at both ends.  The capture is put together from several reads, and  *)
(* what a full ring buffer has dropped or another reader has taken between *)
(* them is missing from its middle: samples that were apart are neighbours *)
(* then.  One bus talks at a time.                                         *)
(***************************************************************************)
EXTENDS ProtocolDecoders, BusReading, BusSignals, TLC

CONSTANTS Wires,      \* what may go over the wires: [bus, cfg, samples, sent]
          MaxEvents,  \* the size of the arrays of events
          Parts,      \* captures begin and end at about as many places
          HoleParts   \* and what is missing inside at about as many

ASSUME WiresAssumption ==
  \A w \in Wires : /\ w.bus \in {"uart", "i2c", "spi"}
                   /\ w.samples \in Seq(SUBSET Channels)
                   /\ w.bus = "uart" => w.cfg.sample_rate_hz \in Nat /\ w.cfg.baudrate \in Nat
                   /\ w.bus = "spi" => w.cfg.cpol \in {0, 1} /\ w.cfg.cpha \in {0, 1}
ASSUME MaxEventsAssumption == MaxEvents \in Nat
ASSUME PartsAssumption == Parts \in Nat \ {0} /\ HoleParts \in Nat \ {0}

VARIABLES wires,
          from, upto,    \* the capture made last: its first sample, and past its last
          cut, resume,   \* what it lacks in between; both are upto if nothing
          events         \* what the decoder of that bus has reported of it

vars == <<wires, from, upto, cut, resume, events>>

Duration == Len(wires.samples)
Places(parts) == {n \in 0..Duration : n % (Duration \div parts + 1) = 0} \cup {Duration}

\* The samples of a capture, and how many they are.
Captured(start, hole, back, end) ==
  [n \in 0..(hole - start) + (end - back) - 1 |->
     wires.samples[1 + IF n < hole - start THEN start + n ELSE back + (n - (hole - start))]]

Size(start, hole, back, end) == (hole - start) + (end - back)

\* The decoder of the bus at work.
Decoded(samples, count) ==
  CASE wires.bus = "uart" -> EdtDecodeUart(samples, count, wires.cfg, MaxEvents)
    [] wires.bus = "i2c"  -> EdtDecodeI2c(samples, count, wires.cfg, MaxEvents)
    [] wires.bus = "spi"  -> EdtDecodeSpi(samples, count, wires.cfg, MaxEvents)

Init == /\ wires \in Wires
        /\ from = 0 /\ upto = 0 /\ cut = 0 /\ resume = 0
        /\ events = <<>>

\* One pass of the loop: a capture, and the decoders.
Capture(start, hole, back, end) ==
  /\ upto <= start /\ start <= hole /\ hole <= back /\ back <= end
  /\ from' = start /\ cut' = hole /\ resume' = back /\ upto' = end
  /\ events' = Decoded(Captured(start, hole, back, end), Size(start, hole, back, end))
  /\ UNCHANGED wires

\* A capture in one piece.
CaptureWhole ==
  \E start, end \in Places(Parts) : Capture(start, end, end, end)

\* A capture in two pieces.
CaptureApart ==
  \E start \in Places(Parts), hole, back \in Places(HoleParts) :
    /\ upto <= start /\ start < hole /\ hole < back
    /\ \E end \in Places(Parts) : back < end /\ Capture(start, hole, back, end)

Next == CaptureWhole \/ CaptureApart

Spec == Init /\ [][Next]_vars

-------------------------------------------------------------------------------

\* What the capture says on the bus at work.
OnTheBus(samples, count) ==
  CASE wires.bus = "uart" -> UartBytes(samples, count, wires.cfg)
    [] wires.bus = "i2c"  -> I2cBytes(samples, count, wires.cfg)
    [] wires.bus = "spi"  -> SpiBytes(samples, count, wires.cfg)

\* Whatever is on the wires, wherever it is cut and whatever is missing from the
\* middle, a decoder reports the bytes that the bus defines to be in the capture,
\* each once and in their order, up to the size of its array; nothing else
\* becomes a byte.
ReportsTheBus ==
  Reports(events,
          OnTheBus(Captured(from, cut, resume, upto), Size(from, cut, resume, upto)),
          MaxEvents)

\* The bytes sent of which the capture, up to where something is missing, has all
\* that a decoder needs, and those of which it has all but the end of the stop bit.
Within(upper(_)) ==
  LET seen == SelectSeq(wires.sent, LAMBDA b : b.good /\ b.first > from /\ upper(b) < cut)
  IN  First([k \in DOMAIN seen |-> [seen[k].value EXCEPT !.at = @ - from]], MaxEvents)

\* These bytes are reported, in their order and at their time, and, unless the
\* capture goes on after a hole, nothing else.
ReadsWhatWasSent ==
  /\ IsPrefix(Within(LAMBDA b : b.last), events)
  /\ cut = upto => IsPrefix(events, Within(LAMBDA b : b.stop))

\* The capture begins between two messages.
BeginsIdle ==
  \A k \in DOMAIN wires.sent : ~(wires.sent[k].first <= from /\ from <= wires.sent[k].last)

\* The UART decoder reads every frame of a capture that begins on the idle line
\* up to where samples are missing, and of a whole one nothing else: not a pulse of less than half a bit, not a frame whose stop
\* bit is missing, also when frames follow one another at once and the sample
\* rate is no multiple of the baud rate.
UartReads == wires.bus = "uart" /\ BeginsIdle => ReadsWhatWasSent

\* The I2C decoder reads every byte from the first start condition on up to where
\* samples are missing, wherever the capture begins and ends, and takes no
\* condition or cut for a byte.
I2cReads == wires.bus = "i2c" => ReadsWhatWasSent

\* The SPI decoder reads both lines in each of the four modes, in a capture that
\* begins while the chip is not selected, up to where samples are missing, and
\* forgets a byte that is cut short.
SpiReads == wires.bus = "spi" /\ BeginsIdle => ReadsWhatWasSent

===============================================================================
