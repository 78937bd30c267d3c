----------------------------- MODULE MCDecodeLoop -----------------------------
(***************************************************************************)
(* DecodeLoop for TLC: what may go over the wires, and the channels and    *)
(* rates of main.c.                                                        *)
(***************************************************************************)
EXTENDS DecodeLoop

-------------------------------------------------------------------------------
(* UART: 5 MHz at 115200 baud, as shipped, is 217 samples in 5 bits.  Frames *)
(* follow one another at once or after idle bits, one of them broken.       *)

Rates == {<<3, 1>>, <<4, 1>>, <<26, 5>>}
ShippedRate == <<217, 5>>
ASSUME RatesAssumption == \A r \in Rates \cup {ShippedRate} : RateTolerable(r[1], r[2])

Frame(byte, stop, gap) == [byte |-> byte, stop |-> stop, gap |-> gap]

UartMessages ==
  {<<Frame(165, 1, 0), Frame(0, 1, 0), Frame(255, 1, 0)>>,
   <<Frame(83, 0, 1), Frame(202, 1, 0)>>,
   <<Frame(1, 1, 2), Frame(128, 0, 2), Frame(127, 1, 0)>>}

UartOver(message, r, phase, glitch) ==
  [bus |-> "uart", cfg |-> [rx_channel |-> 0, baudrate |-> r[2], sample_rate_hz |-> r[1]]]
    @@ UartSignal(0, message, r[1], r[2], phase, glitch)

UartWires ==
  UNION {{UartOver(m, r, phase, glitch) : m \in UartMessages, phase \in {0, r[2] - 1},
                                          glitch \in 0..(r[1] \div r[2]) \div 2} : r \in Rates}
    \cup {UartOver(<<Frame(165, 1, 0)>>, ShippedRate, 3, 21)}

-------------------------------------------------------------------------------
(* I2C: bytes acknowledged or not, transactions that end with a stop        *)
(* condition, and one that goes over into another.                          *)

I2cMessages ==
  {<<[bytes |-> <<[value |-> 165, ack |-> 1], [value |-> 0, ack |-> 0]>>, stop |-> TRUE]>>,
   <<[bytes |-> <<[value |-> 255, ack |-> 1]>>, stop |-> FALSE],
     [bytes |-> <<[value |-> 83, ack |-> 1]>>, stop |-> TRUE],
     [bytes |-> <<[value |-> 1, ack |-> 0]>>, stop |-> TRUE]>>}

I2cWires ==
  LET cfg == [scl_channel |-> 1, sda_channel |-> 2]
  IN  {[bus |-> "i2c", cfg |-> cfg] @@ I2cSignal(m, cfg, hold) : m \in I2cMessages, hold \in {1, 2}}

-------------------------------------------------------------------------------
(* SPI: the four modes, transfers of up to two bytes, one cut short.        *)

SpiMessages ==
  {<<[bytes |-> <<<<165, 90>>, <<0, 255>>>>, rest |-> 0]>>,
   <<[bytes |-> <<<<83, 1>>>>, rest |-> 5], [bytes |-> <<<<128, 60>>>>, rest |-> 0]>>}

SpiWires ==
  LET cfg(mode) == [clk_channel |-> 3, cs_channel |-> 6, mosi_channel |-> 4, miso_channel |-> 5,
                    cpol |-> mode[1], cpha |-> mode[2]]
  IN  {[bus |-> "spi", cfg |-> cfg(mode)] @@ SpiSignal(m, cfg(mode), hold) :
         m \in SpiMessages, mode \in {0, 1} \X {0, 1}, hold \in {1, 2}}

AllWires == UartWires \cup I2cWires \cup SpiWires

===============================================================================
