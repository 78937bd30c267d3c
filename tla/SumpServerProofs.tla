--------------------------- MODULE SumpServerProofs ---------------------------
(***************************************************************************)
(* Theorems about SumpServer, for every number of clients, every parameter *)
(* they send, every bound on a capture, and every size of the ring buffer  *)
(* and of the batch.                                                        *)
(***************************************************************************)
EXTENDS SumpServer, SequenceTheorems, TLAPS

-------------------------------------------------------------------------------
(* The inductive invariant.                                                 *)

\* Where ARM takes a client through the analyzer.
Arming == {"trigger", "store", "arm", "capture"}

\* The session of a client that can still send holds what it has asked for.
SessionInv ==
  \A c \in Clients : pc[c] \notin {"closed", "last"} =>
    \A k \in Settings \ {"read_count"} : session[c][k] = Stored(k, asked[c][k])

\* One capture at most is undisturbed, and the analyzer is set for it.
AnalyzerInv ==
  /\ \A c \in Clients : clean[c] => pc[c] \in Arming
  /\ \A c, d \in Clients : clean[c] /\ clean[d] => c = d
  /\ \A c \in Clients : clean[c] =>
       \/ rate \in Rates(session[c].divider) \ {Trap}
       \/ ~alive /\ pc[c] = "trigger"
  /\ \A c \in Clients : clean[c] /\ pc[c] # "trigger" =>
       mode = TriggerMode(session[c]) /\ channel = MaskChannel(session[c].trigger_mask)

\* Nothing but older samples; and older samples, the one that met the trigger,
\* and then each sample after the one before.
AllOld(s) == \A i \in DOMAIN s : s[i] = "old"
Begun(s) == \E k \in DOMAIN s :
              /\ s[k] = "first"
              /\ \A i \in DOMAIN s : (i < k => s[i] = "old") /\ (i > k => s[i] = "next")

\* All that c's capture has read and will read of the samples taken so far.
Stream(c) == got[c] \o (ring \o batch)

\* An undisturbed capture waits for its trigger, or it has been met and every
\* sample is kept.
StreamInv ==
  /\ \A c \in Clients : pc[c] \in {"rate", "trigger", "store", "arm"} => got[c] = <<>>
  /\ \A c \in Clients : clean[c] /\ pc[c] \in {"arm", "capture"} =>
       IF fresh THEN AllOld(Stream(c)) /\ armed = (mode # "none")
                ELSE Begun(Stream(c)) /\ ~armed /\ near

IInv == TypeOK /\ SessionInv /\ AnalyzerInv /\ StreamInv

-------------------------------------------------------------------------------
(* The bits of an octet.                                                    *)

LEMMA EightSteps ==
  ASSUME NEW P, 0 \in P, \A i \in 0..7 : i \in P => i + 1 \in P
  PROVE  \A i \in 0..8 : i \in P
  OBVIOUS

LEMMA PowersOfTwo ==
  ASSUME NEW i \in 0..8
  PROVE  2^i \in Nat \ {0}
  <1>0. CASE i = 0
    BY <1>0
  <1>1. CASE i = 1
    BY <1>1
  <1>2. CASE i = 2
    BY <1>2
  <1>3. CASE i = 3
    BY <1>3
  <1>4. CASE i = 4
    BY <1>4
  <1>5. CASE i = 5
    BY <1>5
  <1>6. CASE i = 6
    BY <1>6
  <1>7. CASE i = 7
    BY <1>7
  <1>8. CASE i = 8
    BY <1>8
  <1> QED
    BY <1>0, <1>1, <1>2, <1>3, <1>4, <1>5, <1>6, <1>7, <1>8

LEMMA OctetPositive == Octet \in Nat \ {0}
  <1>1. Lines \in 0..8
    BY WordAssumption
  <1> QED
    BY <1>1, PowersOfTwo DEF Octet

\* Bit i is the lowest one that can be set in a number whose lower bits are not.
LEMMA BitStep ==
  ASSUME NEW m \in Nat, NEW i \in 0..7, m % 2^i = 0
  PROVE  Bit(m, i) <=> m % 2^(i + 1) # 0
  <1> USE DEF Bit
  <1>0. CASE i = 0
    BY <1>0
  <1>1. CASE i = 1
    BY <1>1
  <1>2. CASE i = 2
    BY <1>2
  <1>3. CASE i = 3
    BY <1>3
  <1>4. CASE i = 4
    BY <1>4
  <1>5. CASE i = 5
    BY <1>5
  <1>6. CASE i = 6
    BY <1>6
  <1>7. CASE i = 7
    BY <1>7
  <1> QED
    BY <1>0, <1>1, <1>2, <1>3, <1>4, <1>5, <1>6, <1>7

LEMMA ZeroHasNoBit ==
  ASSUME NEW i \in 0..7
  PROVE  ~Bit(0, i)
  <1>0. CASE i = 0
    BY <1>0 DEF Bit
  <1>1. CASE i = 1
    BY <1>1 DEF Bit
  <1>2. CASE i = 2
    BY <1>2 DEF Bit
  <1>3. CASE i = 3
    BY <1>3 DEF Bit
  <1>4. CASE i = 4
    BY <1>4 DEF Bit
  <1>5. CASE i = 5
    BY <1>5 DEF Bit
  <1>6. CASE i = 6
    BY <1>6 DEF Bit
  <1>7. CASE i = 7
    BY <1>7 DEF Bit
  <1> QED
    BY <1>0, <1>1, <1>2, <1>3, <1>4, <1>5, <1>6, <1>7

LEMMA Doubling ==
  ASSUME NEW i \in 0..7
  PROVE  2^(i + 1) = 2 * 2^i
  <1>0. CASE i = 0
    BY <1>0
  <1>1. CASE i = 1
    BY <1>1
  <1>2. CASE i = 2
    BY <1>2
  <1>3. CASE i = 3
    BY <1>3
  <1>4. CASE i = 4
    BY <1>4
  <1>5. CASE i = 5
    BY <1>5
  <1>6. CASE i = 6
    BY <1>6
  <1>7. CASE i = 7
    BY <1>7
  <1> QED
    BY <1>0, <1>1, <1>2, <1>3, <1>4, <1>5, <1>6, <1>7

\* A power of two divides those above it.
LEMMA PowerDivides ==
  ASSUME NEW i \in 0..7, NEW n \in 0..8, i < n
  PROVE  \E w \in Nat : 2^n = 2^(i + 1) * w
  <1> DEFINE P == {j \in 0..8 : j > i => \E w \in Nat : 2^j = 2^(i + 1) * w}
  <1>1. 0 \in P
    OBVIOUS
  <1>2. ASSUME NEW j \in 0..7, j \in P
        PROVE  j + 1 \in P
    <2> SUFFICES ASSUME j + 1 > i
                 PROVE  \E w \in Nat : 2^(j + 1) = 2^(i + 1) * w
      OBVIOUS
    <2>0. 2^(i + 1) \in Nat /\ 2^j \in Nat /\ 2^(j + 1) \in Nat
      <3>1. i + 1 \in 0..8 /\ j \in 0..8 /\ j + 1 \in 0..8
        OBVIOUS
      <3> QED
        BY <3>1, PowersOfTwo
    <2>1. CASE j = i
      BY <2>0, <2>1
    <2>2. CASE j # i
      <3>1. PICK w \in Nat : 2^j = 2^(i + 1) * w
        BY <1>2, <2>2
      <3>2. 2^(j + 1) = 2 * 2^j
        BY Doubling
      <3>3. 2 * (2^(i + 1) * w) = 2^(i + 1) * (2 * w)
        BY <2>0
      <3>4. 2 * w \in Nat
        OBVIOUS
      <3> QED
        BY <3>1, <3>2, <3>3, <3>4
    <2> QED
      BY <2>1, <2>2
  <1>3. \A j \in 0..8 : j \in P
    <2> HIDE DEF P
    <2> QED
      BY <1>1, <1>2, EightSteps
  <1>4. n \in P
    BY <1>3
  <1> QED
    BY <1>4

\* A multiple of a higher power of two does not touch the bit.
LEMMA BitBelow ==
  ASSUME NEW r \in Nat, NEW z \in Nat, NEW i \in 0..7
  PROVE  Bit(2^(i + 1) * z + r, i) <=> Bit(r, i)
  <1>0. CASE i = 0
    BY <1>0 DEF Bit
  <1>1. CASE i = 1
    BY <1>1 DEF Bit
  <1>2. CASE i = 2
    BY <1>2 DEF Bit
  <1>3. CASE i = 3
    BY <1>3 DEF Bit
  <1>4. CASE i = 4
    BY <1>4 DEF Bit
  <1>5. CASE i = 5
    BY <1>5 DEF Bit
  <1>6. CASE i = 6
    BY <1>6 DEF Bit
  <1>7. CASE i = 7
    BY <1>7 DEF Bit
  <1> QED
    BY <1>0, <1>1, <1>2, <1>3, <1>4, <1>5, <1>6, <1>7

\* The octet of a parameter has the bits of the parameter.
LEMMA BitOfOctet ==
  ASSUME NEW v \in Nat, NEW i \in 0..Lines-1
  PROVE  Bit(v % Octet, i) <=> Bit(v, i)
  <1>1. i \in 0..7 /\ Lines \in 0..8 /\ i < Lines
    BY WordAssumption
  <1>2. PICK w \in Nat : Octet = 2^(i + 1) * w
    BY <1>1, PowerDivides DEF Octet
  <1> DEFINE q == v \div Octet
  <1>3. q \in Nat /\ v % Octet \in Nat /\ v = Octet * q + (v % Octet)
    BY OctetPositive
  <1>4. v = 2^(i + 1) * (w * q) + (v % Octet)
    <2>1. i + 1 \in 0..8
      BY <1>1
    <2>2. 2^(i + 1) \in Nat
      BY <2>1, PowersOfTwo
    <2> HIDE DEF q
    <2>3. (2^(i + 1) * w) * q = 2^(i + 1) * (w * q)
      BY <1>3, <2>2
    <2> QED
      BY <1>2, <1>3, <2>3
  <1>5. w * q \in Nat
    BY <1>3
  <1>6. \A r, z \in Nat : Bit(2^(i + 1) * z + r, i) <=> Bit(r, i)
    BY <1>1, BitBelow
  <1> DEFINE z == w * q
             r == v % Octet
  <1>7. r \in Nat /\ z \in Nat /\ v = 2^(i + 1) * z + r
    BY <1>3, <1>4, <1>5
  <1> HIDE DEF z, r
  <1>8. Bit(r, i) <=> Bit(v, i)
    BY <1>6, <1>7
  <1> QED
    BY <1>8 DEF r

\* The bits set below n are all zero only if 2^n divides the number.
LEMMA NoBitBelow ==
  ASSUME NEW m \in Nat, NEW n \in 0..8, \A j \in 0..7 : j < n => ~Bit(m, j)
  PROVE  m % 2^n = 0
  <1> DEFINE P == {i \in 0..8 : i <= n => m % 2^i = 0}
  <1>1. 0 \in P
    <2> SUFFICES m % 2^0 = 0
      OBVIOUS
    <2> QED
      OBVIOUS
  <1>2. ASSUME NEW i \in 0..7, i \in P
        PROVE  i + 1 \in P
    <2> SUFFICES ASSUME i + 1 <= n
                 PROVE  m % 2^(i + 1) = 0
      OBVIOUS
    <2>1. m % 2^i = 0 /\ ~Bit(m, i)
      BY <1>2
    <2> QED
      BY <2>1, BitStep
  <1>3. \A i \in 0..8 : i \in P
    <2> HIDE DEF P
    <2> QED
      BY <1>1, <1>2, EightSteps
  <1>4. n \in P
    BY <1>3
  <1> QED
    BY <1>4

\* A set of places in an octet has a least member.
LEMMA LeastPlace ==
  ASSUME NEW S \in SUBSET (0..7), S # {}
  PROVE  \E i \in S : \A j \in S : i <= j
  <1> SUFFICES ASSUME \A i \in S : \E j \in S : ~(i <= j)
               PROVE  FALSE
    OBVIOUS
  <1> DEFINE P == {i \in 0..8 : \A j \in 0..7 : j < i => j \notin S}
  <1>1. 0 \in P
    OBVIOUS
  <1>2. ASSUME NEW i \in 0..7, i \in P
        PROVE  i + 1 \in P
    BY <1>2
  <1>3. \A i \in 0..8 : i \in P
    <2> HIDE DEF P
    <2> QED
      BY <1>1, <1>2, EightSteps
  <1>4. 8 \in P
    BY <1>3
  <1>5. S = {}
    BY <1>4
  <1> QED
    BY <1>5

\* The channel of a mask is that of its lowest bit.
LEMMA LowestBit ==
  ASSUME NEW m \in 0..Octet-1
  PROVE  /\ MaskChannel(m) \in 0..Lines-1
         /\ IF m = 0 THEN MaskChannel(m) = 0
            ELSE m % 2^MaskChannel(m) = 0 /\ m % 2^(MaskChannel(m) + 1) # 0
  <1> DEFINE set == {i \in 0..Lines-1 : Bit(m, i)}
  <1>0. m \in Nat /\ m < Octet
    BY OctetPositive
  <1>1. CASE set = {}
    <2>1. \A j \in 0..7 : j < Lines => ~Bit(m, j)
      BY <1>1, WordAssumption
    <2>2. m % Octet = 0
      <3>1. Lines \in 0..8
        BY WordAssumption
      <3> QED
        BY <2>1, <3>1, <1>0, NoBitBelow DEF Octet
    <2>3. m = 0
      BY <2>2, <1>0, OctetPositive
    <2> QED
      BY <2>3, <1>1, WordAssumption DEF MaskChannel
  <1>2. CASE set # {}
    <2> DEFINE ch == MaskChannel(m)
    <2>1. ch = CHOOSE i \in set : \A j \in set : i <= j
      BY <1>2 DEF MaskChannel
    <2>2. ch \in set /\ \A j \in set : ch <= j
      <3>1. \E i \in set : \A j \in set : i <= j
        <4>1. set \in SUBSET (0..7)
          BY WordAssumption
        <4> QED
          BY <4>1, <1>2, LeastPlace
      <3> HIDE DEF set
      <3> QED
        BY <2>1, <3>1
    <2>3. ch \in 0..Lines-1 /\ ch \in 0..7 /\ Bit(m, ch)
      BY <2>2, WordAssumption
    <2>4. m % 2^ch = 0
      <3>1. \A j \in 0..7 : j < ch => ~Bit(m, j)
        <4> SUFFICES ASSUME NEW j \in 0..7, j < ch, Bit(m, j)
                     PROVE  FALSE
          OBVIOUS
        <4> HIDE DEF ch
        <4>1. j \in 0..Lines-1
          BY <2>3, WordAssumption
        <4>2. j \in set
          BY <4>1
        <4> QED
          BY <2>2, <2>3, <4>2
      <3>2. ch \in 0..8
        BY <2>3
      <3> HIDE DEF ch
      <3> QED
        BY <1>0, <3>1, <3>2, NoBitBelow
    <2>5. m % 2^(ch + 1) # 0
      <3> HIDE DEF ch
      <3> QED
        BY <1>0, <2>3, <2>4, BitStep
    <2>6. m # 0
      <3> HIDE DEF ch
      <3> QED
        BY <2>3, ZeroHasNoBit
    <2> QED
      BY <2>3, <2>4, <2>5, <2>6
  <1> QED
    BY <1>1, <1>2

-------------------------------------------------------------------------------
(* Sessions, targets, rates and triggers.                                   *)

Sessions == [divider : Params, read_count : Params, trigger_mask : 0..Octet-1,
             trigger_value : 0..Octet-1, trigger_mode : 0..Octet-1]

LEMMA WordPositive == Word \in Nat /\ Word > 1 /\ Params = 0..Word-1 /\ Octet < Word
  BY WordAssumption, OctetPositive DEF Params

LEMMA NewSessionType == NewSession \in Sessions
  BY WordPositive, OctetPositive, CaptureAssumption DEF NewSession, Sessions

LEMMA OctetOf ==
  ASSUME NEW v \in Params
  PROVE  v % Octet \in 0..Octet-1
  BY WordPositive, OctetPositive

LEMMA StoredSession ==
  ASSUME NEW s \in Sessions, NEW k \in Settings, NEW v \in Params
  PROVE  [s EXCEPT ![k] = Stored(k, v)] \in Sessions
  <1>1. v % Octet \in 0..Octet-1
    BY OctetOf
  <1> QED
    BY <1>1 DEF Sessions, Settings, Stored

LEMMA TargetType ==
  ASSUME NEW n \in Params
  PROVE  Target(n) \in 0..MaxTarget
  <1>1. n \in Nat /\ (n + 1) % Word \in Nat
    BY WordPositive
  <1>2. CaptureSamples \in Nat /\ DefaultTarget \in Nat /\ MaxTarget \in Nat
    BY CaptureAssumption
  <1> QED
    BY <1>1, <1>2 DEF Target, Least

\* A divider d of any value gives the rate 1 or MaxRate in parts of d + 1.
LEMMA RateOfDivider ==
  ASSUME NEW d \in Params, NEW r \in Rates(d) \ {Trap}
  PROVE  /\ r \in 1..MaxRate
         /\ RateFor(d, r) \/ (r = 1 /\ d >= MaxRate)
  <1>0. d \in 0..Word-1 /\ Word \in Nat /\ Word > 1 /\ MaxRate \in 1..Word-1
    BY WordPositive, CaptureAssumption
  <1>1. CASE d = Word - 1
    <2>1. (d + 1) % Word = 0
      BY <1>0, <1>1
    <2> QED
      BY <1>0, <1>1, <2>1 DEF Rates, Trap
  <1>2. CASE d # Word - 1
    <2> DEFINE q == MaxRate \div (d + 1)
    <2>1. (d + 1) % Word = d + 1 /\ d + 1 \in Nat \ {0}
      BY <1>0, <1>2
    <2>2. q \in Nat /\ q * (d + 1) <= MaxRate /\ MaxRate < (q + 1) * (d + 1) /\ q <= MaxRate
      BY <1>0, <2>1
    <2>3. r = IF q = 0 THEN 1 ELSE q
      BY <1>0, <2>1 DEF Rates, Trap
    <2>4. CASE q = 0
      BY <1>0, <2>2, <2>3, <2>4
    <2>5. CASE q # 0
      <3> HIDE DEF q
      <3> QED
        BY <1>0, <2>2, <2>3, <2>5 DEF RateFor
    <2> QED
      BY <2>4, <2>5
  <1> QED
    BY <1>1, <1>2

LEMMA TriggerModeType ==
  ASSUME NEW s \in Sessions
  PROVE  TriggerMode(s) \in {"none", "rising", "falling", "high", "low"}
  BY DEF TriggerMode

-------------------------------------------------------------------------------
(* Type correctness.                                                        *)

LEMMA InitType == Init => TypeOK
  <1> SUFFICES ASSUME Init PROVE TypeOK
    OBVIOUS
  <1> USE DEF Init
  <1>1. pc \in [Clients -> {"closed"}] /\ cmd \in [Clients -> {"none"}]
    OBVIOUS
  <1>2. session \in [Clients -> Sessions]
    BY NewSessionType
  <1>3. asked \in [Clients -> [Settings -> Params]]
    BY WordPositive DEF Unset
  <1>4. /\ want \in [Clients -> 0..MaxTarget] /\ got \in [Clients -> Seq(Places)]
        /\ \A c \in Clients : Len(got[c]) <= want[c]
    BY CaptureAssumption
  <1>5. rate \in 1..MaxRate /\ channel \in 0..Lines-1
    BY CaptureAssumption, WordAssumption
  <1>6. /\ batch \in Seq(Places) /\ Len(batch) <= BatchSize
        /\ ring \in Seq(Places) /\ Len(ring) <= Capacity
        /\ sent \in 0..MaxSent
    BY SizesAssumption
  <1> QED
    BY <1>1, <1>2, <1>3, <1>4, <1>5, <1>6 DEF TypeOK, Sessions

\* A sequence of samples is cut into the first n and the others.
LEMMA Parts ==
  ASSUME NEW s \in Seq(Places), NEW n \in 0..Len(s)
  PROVE  /\ SubSeq(s, 1, n) \in Seq(Places) /\ Len(SubSeq(s, 1, n)) = n
         /\ \A i \in 1..n : SubSeq(s, 1, n)[i] = s[i]
         /\ SubSeq(s, n + 1, Len(s)) \in Seq(Places)
         /\ Len(SubSeq(s, n + 1, Len(s))) = Len(s) - n
         /\ \A i \in 1..Len(s) - n : SubSeq(s, n + 1, Len(s))[i] = s[n + i]
  <1>1. Len(s) \in Nat /\ \A i \in 1..Len(s) : s[i] \in Places
    OBVIOUS
  <1>2. /\ SubSeq(s, 1, n) \in Seq(Places) /\ Len(SubSeq(s, 1, n)) = n
        /\ \A i \in 1..n : SubSeq(s, 1, n)[i] = s[i]
    BY <1>1, SubSeqProperties
  <1>3. /\ SubSeq(s, n + 1, Len(s)) \in Seq(Places)
        /\ Len(SubSeq(s, n + 1, Len(s))) = Len(s) - n
        /\ \A i \in 1..Len(s) - n : SubSeq(s, n + 1, Len(s))[i] = s[n + i]
    BY <1>1, SubSeqProperties
  <1> QED
    BY <1>2, <1>3

\* Samples made older, in the place they were.
LEMMA OldSamples ==
  ASSUME NEW s \in Seq(Places), NEW t, t = [i \in DOMAIN s |-> "old"]
  PROVE  t \in Seq(Places) /\ Len(t) = Len(s) /\ \A i \in 1..Len(s) : t[i] = "old"
  BY DEF Places

\* What the commands do to the types.
LEMMA CommandType ==
  ASSUME TypeOK, NEW c \in Clients,
         Accept(c) \/ Close(c) \/ Reset(c) \/ Setting(c) \/ Param(c) \/ ParamCut(c)
  PROVE  TypeOK'
  <1> USE DEF TypeOK, Sessions, Goes, Send, sessions, captures, trigger, samples
  <1>0. /\ Unset \in [Settings -> Params] /\ MaxSent \in Nat
        /\ \A k \in Settings : Offered[k] \subseteq Params
    BY WordPositive, OfferedAssumption, SizesAssumption DEF Unset
  <1>1. CASE Accept(c)
    <2>1. session' \in [Clients -> Sessions] /\ asked' \in [Clients -> [Settings -> Params]]
      BY <1>0, <1>1, NewSessionType DEF Accept
    <2>2. sent' \in 0..MaxSent /\ pc' = [pc EXCEPT ![c] = "recv"]
      BY <1>0, <1>1 DEF Accept
    <2>3. UNCHANGED <<cmd, captures, rate, trigger, armed, samples, alive, clean>>
      BY <1>1 DEF Accept
    <2> QED
      BY <2>1, <2>2, <2>3
  <1>2. CASE Close(c)
    BY <1>2 DEF Close
  <1>3. CASE Reset(c)
    <2>1. session' \in [Clients -> Sessions] /\ asked' \in [Clients -> [Settings -> Params]]
      BY <1>0, <1>3, NewSessionType DEF Reset, ResetValues
    <2>2. sent' \in 0..MaxSent /\ pc' = [pc EXCEPT ![c] = "recv"]
      BY <1>0, <1>3 DEF Reset
    <2>3. UNCHANGED <<cmd, captures, rate, trigger, armed, samples, alive, clean>>
      BY <1>3 DEF Reset
    <2> QED
      BY <2>1, <2>2, <2>3
  <1>4. CASE Setting(c)
    <2>1. /\ sent' \in 0..MaxSent /\ pc' = [pc EXCEPT ![c] = "param"]
          /\ cmd' \in [Clients -> Settings \cup {"unknown", "none"}]
      BY <1>0, <1>4 DEF Setting
    <2>2. UNCHANGED <<session, asked, captures, rate, trigger, armed, samples, alive, clean>>
      BY <1>4 DEF Setting
    <2> QED
      BY <2>1, <2>2
  <1>5. CASE Param(c)
    <2>1. /\ pc' = [pc EXCEPT ![c] = "recv"] /\ cmd' = [cmd EXCEPT ![c] = "none"]
          /\ UNCHANGED <<captures, rate, trigger, armed, samples, alive, sent, clean>>
      BY <1>5 DEF Param
    <2>2. CASE cmd[c] \in Settings
      <3>1. PICK v \in Offered[cmd[c]] :
              /\ session' = [session EXCEPT ![c][cmd[c]] = Stored(cmd[c], v)]
              /\ asked' = [asked EXCEPT ![c][cmd[c]] = v]
        BY <1>5, <2>2 DEF Param
      <3>2. v \in Params /\ session[c] \in Sessions
        BY <1>0, <2>2
      <3>3. [session[c] EXCEPT ![cmd[c]] = Stored(cmd[c], v)] \in Sessions
        BY <2>2, <3>2, StoredSession
      <3>4. session' \in [Clients -> Sessions]
        BY <3>1, <3>3
      <3>5. asked' \in [Clients -> [Settings -> Params]]
        BY <2>2, <3>1, <3>2
      <3> QED
        BY <2>1, <3>4, <3>5
    <2>3. CASE cmd[c] \notin Settings
      <3>1. UNCHANGED <<session, asked>>
        BY <1>5, <2>3 DEF Param
      <3> QED
        BY <2>1, <3>1
    <2> QED
      BY <2>2, <2>3
  <1>6. CASE ParamCut(c)
    <2>1. /\ \E p \in {"closed", "last"} : pc' = [pc EXCEPT ![c] = p]
          /\ cmd' = [cmd EXCEPT ![c] = "none"]
          /\ UNCHANGED <<asked, captures, rate, trigger, armed, samples, alive, sent, clean>>
      BY <1>6 DEF ParamCut, AfterCut
    <2>2. CASE UNCHANGED session
      BY <2>1, <2>2
    <2>3. CASE ~UNCHANGED session
      <3>1. cmd[c] \in Settings
        BY <1>6, <2>3 DEF ParamCut
      <3>2. PICK v \in Offered[cmd[c]] :
              session' = [session EXCEPT ![c][cmd[c]] = Stored(cmd[c], v)]
        BY <1>6, <2>3, <3>1 DEF ParamCut
      <3>3. v \in Params /\ session[c] \in Sessions
        BY <1>0, <3>1
      <3>4. [session[c] EXCEPT ![cmd[c]] = Stored(cmd[c], v)] \in Sessions
        BY <3>1, <3>3, StoredSession
      <3>5. session' \in [Clients -> Sessions]
        BY <3>2, <3>4
      <3> QED
        BY <2>1, <3>5
    <2> QED
      BY <2>2, <2>3
  <1> QED
    BY <1>1, <1>2, <1>3, <1>4, <1>5, <1>6

\* What ARM does to them.
LEMMA ArmType ==
  ASSUME TypeOK, NEW c \in Clients,
         Allocate(c) \/ SetRate(c) \/ CopyTrigger(c) \/ StoreArmed(c) \/ Arm(c)
  PROVE  TypeOK'
  <1> USE DEF TypeOK, Sessions, Goes, Send, sessions, captures, trigger, samples, Disturb
  <1>0. session[c] \in Sessions /\ MaxSent \in Nat
    BY SizesAssumption
  <1>1. CASE Allocate(c)
    <2>1. Target(session[c].read_count) \in 0..MaxTarget
      BY TargetType
    <2>2. /\ sent' \in 0..MaxSent /\ \E p \in {"rate", "closed"} : pc' = [pc EXCEPT ![c] = p]
          /\ UNCHANGED <<sessions, rate, trigger, armed, samples, alive, clean>>
      BY <1>0, <1>1 DEF Allocate
    <2>3. CASE UNCHANGED captures
      BY <2>2, <2>3
    <2>4. CASE /\ want' = [want EXCEPT ![c] = Target(session[c].read_count)]
               /\ got' = [got EXCEPT ![c] = <<>>]
      <3>1. \A d \in Clients : Len(got'[d]) <= want'[d]
        BY <2>1, <2>4
      <3>2. got' \in [Clients -> Seq(Places)] /\ want' \in [Clients -> 0..MaxTarget]
        BY <2>1, <2>4
      <3> QED
        BY <2>2, <3>1, <3>2
    <2> QED
      BY <1>1, <2>3, <2>4 DEF Allocate
  <1>2. CASE SetRate(c)
    <2>1. \A r \in Rates(session[c].divider) \ {Trap} : r \in 1..MaxRate
      BY RateOfDivider
    <2> QED
      BY <1>2, <2>1 DEF SetRate
  <1>3. CASE CopyTrigger(c)
    <2>1. /\ MaskChannel(session[c].trigger_mask) \in 0..Lines-1
          /\ TriggerMode(session[c]) \in {"none", "rising", "falling", "high", "low"}
      BY <1>0, LowestBit, TriggerModeType
    <2> QED
      BY <1>3, <2>1 DEF CopyTrigger
  <1>4. CASE StoreArmed(c)
    <2>1. /\ batch' \in Seq(Places) /\ Len(batch') = Len(batch)
          /\ ring' \in Seq(Places) /\ Len(ring') = Len(ring)
      BY <1>4, OldSamples DEF StoreArmed, Places
    <2> QED
      BY <1>4, <2>1 DEF StoreArmed
  <1>5. CASE Arm(c)
    BY <1>5 DEF Arm
  <1> QED
    BY <1>1, <1>2, <1>3, <1>4, <1>5

LEMMA Lengths ==
  ASSUME TypeOK, NEW c \in Clients
  PROVE  want[c] \in Nat /\ Len(got[c]) \in Nat /\ Len(ring) \in Nat /\ Len(batch) \in Nat
  <1>1. want[c] \in 0..MaxTarget /\ MaxTarget \in Nat
    BY CaptureAssumption DEF TypeOK
  <1>2. got[c] \in Seq(Places) /\ ring \in Seq(Places) /\ batch \in Seq(Places)
    BY DEF TypeOK
  <1> QED
    BY <1>1, <1>2

\* A capture and the sampling thread.
LEMMA SampleType ==
  ASSUME TypeOK,
         (\E c \in Clients : CaptureRead(c) \/ CaptureEnd(c)) \/ MainRead \/ Sample \/ BatchWrite
  PROVE  TypeOK'
  <1> USE DEF TypeOK, Sessions, Goes, Send, sessions, captures, trigger, samples
  <1>1. ASSUME NEW c \in Clients, CaptureRead(c)
        PROVE  TypeOK'
    <2> DEFINE n == Least(want[c] - Len(got[c]), Len(ring))
    <2>1. n \in 1..Len(ring) /\ n <= want[c] - Len(got[c])
      <3>1. want[c] \in Nat /\ Len(ring) \in Nat /\ Len(got[c]) \in Nat
        BY Lengths
      <3> QED
        BY <1>1, <3>1 DEF CaptureRead, Least
    <2>2. /\ got' = [got EXCEPT ![c] = got[c] \o SubSeq(ring, 1, n)]
          /\ ring' = SubSeq(ring, n + 1, Len(ring))
      BY <1>1 DEF CaptureRead, Appended
    <2> HIDE DEF n
    <2>3. /\ SubSeq(ring, 1, n) \in Seq(Places) /\ Len(SubSeq(ring, 1, n)) = n
          /\ ring' \in Seq(Places) /\ Len(ring') = Len(ring) - n
      <3>1. n \in 0..Len(ring)
        BY <2>1
      <3> QED
        BY <2>2, <3>1, Parts
    <2>4. got[c] \o SubSeq(ring, 1, n) \in Seq(Places)
          /\ Len(got[c] \o SubSeq(ring, 1, n)) = Len(got[c]) + n
      BY <2>3
    <2>5. got' \in [Clients -> Seq(Places)] /\ \A d \in Clients : Len(got'[d]) <= want[d]
      <3>1. ASSUME NEW d \in Clients
            PROVE  Len(got'[d]) <= want[d]
        <4>1. CASE d = c
          BY <2>1, <2>2, <2>4, <4>1, CaptureAssumption
        <4>2. CASE d # c
          BY <2>2, <4>2
        <4> QED
          BY <4>1, <4>2
      <3> QED
        BY <2>2, <2>4, <3>1
    <2>6. clean' \in [Clients -> BOOLEAN]
      BY <1>1 DEF CaptureRead, Taken
    <2>7. /\ pc' = [pc EXCEPT ![c] = "capture"]
          /\ UNCHANGED <<sessions, want, rate, trigger, armed, batch, fresh, near, alive, sent>>
      BY <1>1 DEF CaptureRead
    <2>8. Len(ring') <= Capacity
      BY <2>1, <2>3, SizesAssumption
    <2> QED
      BY <2>3, <2>5, <2>6, <2>7, <2>8
  <1>2. ASSUME NEW c \in Clients, CaptureEnd(c)
        PROVE  TypeOK'
    BY <1>2 DEF CaptureEnd
  <1>3. CASE MainRead
    <2>1. PICK n \in 1..Len(ring) :
            /\ ring' = SubSeq(ring, n + 1, Len(ring))
            /\ clean' = [d \in Clients |-> clean[d] /\ ~Taken(n)]
      BY <1>3 DEF MainRead
    <2>2. ring' \in Seq(Places) /\ Len(ring') <= Capacity
      <3>1. ring \in Seq(Places) /\ n \in 0..Len(ring) /\ Len(ring) \in Nat
        OBVIOUS
      <3>2. ring' \in Seq(Places) /\ Len(ring') = Len(ring) - n
        BY <2>1, <3>1, Parts
      <3>3. Capacity \in Nat /\ Len(ring) <= Capacity
        BY SizesAssumption
      <3> QED
        BY <3>1, <3>2, <3>3
    <2>3. clean' \in [Clients -> BOOLEAN]
      BY <2>1 DEF Taken
    <2> QED
      BY <1>3, <2>2, <2>3 DEF MainRead
  <1>4. CASE Sample
    <2>1. \A met \in BOOLEAN : Place(met) \in Places
      BY DEF Place, Places
    <2>2. batch' \in Seq(Places) /\ Len(batch') <= BatchSize
      <3>1. PICK met \in BOOLEAN :
              batch' = IF Kept(met) THEN Append(batch, Place(met)) ELSE batch
        BY <1>4 DEF Sample
      <3>2. /\ Append(batch, Place(met)) \in Seq(Places)
            /\ Len(Append(batch, Place(met))) = Len(batch) + 1
        BY <2>1
      <3>3. Len(batch) + 1 <= BatchSize
        BY <1>4, SizesAssumption DEF Sample
      <3> QED
        BY <3>1, <3>2, <3>3
    <2>3. armed' \in BOOLEAN /\ near' \in BOOLEAN /\ fresh' \in BOOLEAN
      BY <1>4 DEF Sample, Kept
    <2> QED
      BY <1>4, <2>2, <2>3 DEF Sample
  <1>5. CASE BatchWrite
    <2> DEFINE n == Least(Len(batch), Capacity - Len(ring))
    <2>1. n \in 0..Len(batch) /\ n <= Capacity - Len(ring)
      BY SizesAssumption DEF Least
    <2>2. ring' = ring \o SubSeq(batch, 1, n) /\ batch' = <<>>
          /\ near' \in BOOLEAN /\ clean' \in [Clients -> BOOLEAN]
      BY <1>5 DEF BatchWrite
    <2> HIDE DEF n
    <2>3. SubSeq(batch, 1, n) \in Seq(Places) /\ Len(SubSeq(batch, 1, n)) = n
      BY <2>1
    <2>4. ring' \in Seq(Places) /\ Len(ring') <= Capacity
      BY <2>1, <2>2, <2>3, SizesAssumption
    <2> QED
      BY <1>5, <2>2, <2>4, SizesAssumption DEF BatchWrite
  <1> QED
    BY <1>1, <1>2, <1>3, <1>4, <1>5

LEMMA TypeInductive == TypeOK /\ [Next]_vars => TypeOK'
  <1> SUFFICES ASSUME TypeOK, [Next]_vars PROVE TypeOK'
    OBVIOUS
  <1>1. ASSUME NEW c \in Clients, Client(c)
        PROVE  TypeOK'
    BY <1>1, CommandType, ArmType, SampleType DEF Client
  <1>2. CASE MainRead \/ Sample \/ BatchWrite
    BY <1>2, SampleType
  <1>3. CASE UNCHANGED vars
    BY <1>3 DEF TypeOK, vars, sessions, captures, trigger, samples
  <1> QED
    BY <1>1, <1>2, <1>3 DEF Next

\* Every parameter, target, rate, trigger and sample is in its range, and no
\* capture holds more than its target and no buffer more than its size,
\* whatever the clients send (edt_sump_client_thread).
THEOREM TypeCorrect == Spec => []TypeOK
  BY InitType, TypeInductive, PTL DEF Spec

-------------------------------------------------------------------------------
(* The sessions, and the analyzer set from them.                            *)

LEMMA SettingsInit == Init => SessionInv /\ AnalyzerInv
  BY DEF Init, SessionInv, AnalyzerInv

\* A session as it is at the start holds what a client that has sent nothing
\* has asked for.
LEMMA NewSessionUnset ==
  \A k \in Settings \ {"read_count"} : NewSession[k] = Stored(k, Unset[k])
  BY OctetPositive DEF Settings, NewSession, Stored, Unset

LEMMA SessionInductive ==
  ASSUME TypeOK, SessionInv, [Next]_vars
  PROVE  SessionInv'
  <1> USE DEF TypeOK, SessionInv, Goes, sessions
  <1>1. ASSUME NEW c \in Clients, Accept(c) \/ Reset(c)
        PROVE  SessionInv'
    <2>1. session' = [session EXCEPT ![c] = NewSession] /\ asked' = [asked EXCEPT ![c] = Unset]
      BY <1>1 DEF Accept, Reset, ResetValues
    <2>2. \A d \in Clients : d # c => pc'[d] = pc[d]
      BY <1>1 DEF Accept, Reset
    <2> QED
      BY <2>1, <2>2, NewSessionUnset
  <1>2. ASSUME NEW c \in Clients, Param(c)
        PROVE  SessionInv'
    <2>1. pc' = [pc EXCEPT ![c] = "recv"] /\ pc[c] = "param"
      BY <1>2 DEF Param
    <2>2. CASE cmd[c] \in Settings
      <3>1. PICK v \in Offered[cmd[c]] :
              /\ session' = [session EXCEPT ![c][cmd[c]] = Stored(cmd[c], v)]
              /\ asked' = [asked EXCEPT ![c][cmd[c]] = v]
        BY <1>2, <2>2 DEF Param
      <3>2. ASSUME NEW k \in Settings \ {"read_count"}
            PROVE  session'[c][k] = Stored(k, asked'[c][k])
        <4>1. session[c][k] = Stored(k, asked[c][k])
          BY <2>1
        <4>2. CASE k = cmd[c]
          <5>1. asked'[c][k] = v
            BY <3>1, <4>2
          <5>2. session'[c][k] = Stored(k, v)
            BY <3>1, <4>2 DEF Settings
          <5> QED
            BY <5>1, <5>2
        <4>3. CASE k # cmd[c]
          BY <3>1, <4>1, <4>3 DEF Settings
        <4> QED
          BY <4>2, <4>3
      <3>3. \A d \in Clients : d # c => session'[d] = session[d] /\ asked'[d] = asked[d]
        BY <3>1
      <3> QED
        BY <2>1, <3>2, <3>3
    <2>3. CASE cmd[c] \notin Settings
      BY <1>2, <2>1, <2>3 DEF Param
    <2> QED
      BY <2>2, <2>3
  <1>3. ASSUME NEW c \in Clients, ParamCut(c)
        PROVE  SessionInv'
    <2>1. /\ \E p \in {"closed", "last"} : pc' = [pc EXCEPT ![c] = p]
          /\ UNCHANGED asked
      BY <1>3 DEF ParamCut, AfterCut
    <2>2. \A d \in Clients : d # c => session'[d] = session[d]
      BY <1>3 DEF ParamCut
    <2> QED
      BY <2>1, <2>2
  <1>4. ASSUME NEW c \in Clients, Close(c) \/ Setting(c) \/ Allocate(c) \/ CaptureEnd(c)
        PROVE  SessionInv'
    <2>1. UNCHANGED <<session, asked>>
      BY <1>4 DEF Close, Setting, Allocate, CaptureEnd
    <2>2. \A d \in Clients : pc'[d] = pc[d] \/ pc'[d] = "closed" \/ pc[d] \in {"recv", "capture"}
      BY <1>4 DEF Close, Setting, Allocate, CaptureEnd
    <2> QED
      BY <2>1, <2>2
  <1>5. ASSUME NEW c \in Clients,
               SetRate(c) \/ CopyTrigger(c) \/ StoreArmed(c) \/ Arm(c) \/ CaptureRead(c)
        PROVE  SessionInv'
    <2>1. UNCHANGED <<session, asked>>
      BY <1>5 DEF SetRate, CopyTrigger, StoreArmed, Arm, CaptureRead
    <2>2. \A d \in Clients : pc'[d] = pc[d] \/ pc[d] \in {"rate", "trigger", "store", "arm"}
      BY <1>5 DEF SetRate, CopyTrigger, StoreArmed, Arm, CaptureRead
    <2> QED
      BY <2>1, <2>2
  <1>6. CASE MainRead \/ Sample \/ BatchWrite \/ UNCHANGED vars
    BY <1>6 DEF MainRead, Sample, BatchWrite, vars
  <1> QED
    BY <1>1, <1>2, <1>3, <1>4, <1>5, <1>6 DEF Next, Client

LEMMA AnalyzerInductive ==
  ASSUME TypeOK, AnalyzerInv, [Next]_vars
  PROVE  AnalyzerInv'
  <1> USE DEF TypeOK, AnalyzerInv, Arming, Goes, sessions, trigger
  <1>1. ASSUME NEW c \in Clients,
               Accept(c) \/ Close(c) \/ Reset(c) \/ Setting(c) \/ Param(c) \/ ParamCut(c)
               \/ Allocate(c)
        PROVE  AnalyzerInv'
    <2>1. /\ ~clean[c] /\ clean' = clean /\ rate' = rate /\ alive' = alive
          /\ mode' = mode /\ channel' = channel
      BY <1>1 DEF Accept, Close, Reset, Setting, Param, ParamCut, Allocate
    <2>2. \A d \in Clients : d # c => pc'[d] = pc[d]
      BY <1>1 DEF Accept, Close, Reset, Setting, Param, ParamCut, Allocate
    <2>3. \A d \in Clients : d # c => session'[d] = session[d]
      BY <1>1 DEF Accept, Close, Reset, Setting, Param, ParamCut, Allocate
    <2> QED
      BY <2>1, <2>2, <2>3
  <1>2. ASSUME NEW c \in Clients, SetRate(c)
        PROVE  AnalyzerInv'
    <2>1. PICK r \in Rates(session[c].divider) :
            IF r = Trap THEN alive' = FALSE ELSE rate' = r
      BY <1>2 DEF SetRate
    <2>2. /\ pc'[c] = "trigger" /\ UNCHANGED session
          /\ \A d \in Clients : clean'[d] => d = c
      BY <1>2 DEF SetRate
    <2> QED
      BY <2>1, <2>2
  <1>3. ASSUME NEW c \in Clients, CopyTrigger(c)
        PROVE  AnalyzerInv'
    BY <1>3 DEF CopyTrigger, Disturb
  <1>4. ASSUME NEW c \in Clients, StoreArmed(c) \/ Arm(c)
        PROVE  AnalyzerInv'
    <2>1. /\ \A d \in Clients : clean'[d] => d = c /\ clean[c]
          /\ pc[c] \in {"store", "arm"} /\ pc'[c] \in {"arm", "capture"}
      BY <1>4 DEF StoreArmed, Arm, Disturb
    <2>2. UNCHANGED <<session, rate, alive, mode, channel>>
      BY <1>4 DEF StoreArmed, Arm
    <2> QED
      BY <2>1, <2>2
  <1>5. ASSUME NEW c \in Clients, CaptureRead(c) \/ CaptureEnd(c)
        PROVE  AnalyzerInv'
    <2>1. \A d \in Clients : clean'[d] => clean[d] /\ pc'[d] = pc[d]
      BY <1>5 DEF CaptureRead, CaptureEnd, Taken
    <2>2. UNCHANGED <<session, rate, alive, mode, channel>>
      BY <1>5 DEF CaptureRead, CaptureEnd
    <2> QED
      BY <2>1, <2>2
  <1>6. CASE MainRead \/ Sample \/ BatchWrite \/ UNCHANGED vars
    <2>1. \A d \in Clients : clean'[d] => clean[d]
      BY <1>6 DEF MainRead, Sample, BatchWrite, Taken, vars
    <2>2. UNCHANGED <<pc, session, rate, alive, mode, channel>>
      BY <1>6 DEF MainRead, Sample, BatchWrite, vars
    <2> QED
      BY <2>1, <2>2
  <1> QED
    BY <1>1, <1>2, <1>3, <1>4, <1>5, <1>6 DEF Next, Client

LEMMA SettingsApplied ==
  ASSUME TypeOK, SessionInv, AnalyzerInv
  PROVE  AppliesWhatWasSent
  <1> SUFFICES ASSUME NEW c \in Clients, clean[c], pc[c] = "capture"
               PROVE  /\ RateFor(asked[c]["divider"], rate)
                         \/ (rate = 1 /\ asked[c]["divider"] >= MaxRate)
                      /\ TriggerFor(c, mode, channel)
    BY DEF AppliesWhatWasSent
  <1> DEFINE s == session[c]
             a == asked[c]
             mask == a["trigger_mask"] % Octet
             told == a["trigger_mode"] % Octet
  <1>1. s \in Sessions /\ \A k \in Settings : a[k] \in Params
    BY DEF TypeOK, Sessions
  <1>2. /\ s.divider = a["divider"] /\ s.trigger_mask = mask
        /\ s.trigger_mode = told /\ s.trigger_value = a["trigger_value"] % Octet
    BY DEF SessionInv, Settings, Stored
  <1>3. /\ rate \in Rates(s.divider) \ {Trap}
        /\ mode = TriggerMode(s) /\ channel = MaskChannel(mask)
    BY <1>2 DEF AnalyzerInv
  <1>4. a["divider"] \in Params /\ a["trigger_mask"] \in Nat /\ a["trigger_mode"] \in Nat
        /\ a["trigger_value"] \in Nat
    BY <1>1, WordPositive DEF Settings
  <1>5. mask \in 0..Octet-1 /\ told \in Nat
    BY <1>4, OctetPositive
  <1>6. /\ channel \in 0..Lines-1
        /\ IF mask = 0 THEN channel = 0
           ELSE mask % 2^channel = 0 /\ mask % 2^(channel + 1) # 0
    <2> HIDE DEF mask
    <2> QED
      BY <1>3, <1>5, LowestBit
  <1>7. Bit(s.trigger_value, channel) <=> Bit(a["trigger_value"], channel)
    BY <1>2, <1>4, <1>6, BitOfOctet
  <1>8. IF told \in 1..4 THEN mode = <<"rising", "falling", "high", "low">>[told]
        ELSE IF mask = 0 THEN mode = "none"
        ELSE mode = IF Bit(a["trigger_value"], channel) THEN "high" ELSE "low"
    <2>1. CASE told \in 1..4
      BY <1>2, <1>3, <2>1 DEF TriggerMode
    <2>2. CASE told \notin 1..4
      BY <1>2, <1>3, <1>5, <1>7, <2>2 DEF TriggerMode
    <2> QED
      BY <2>1, <2>2
  <1>9. /\ RateFor(a["divider"], rate) \/ (rate = 1 /\ a["divider"] >= MaxRate)
    BY <1>2, <1>3, <1>4, RateOfDivider
  <1>10. TriggerFor(c, mode, channel)
    BY <1>6, <1>8 DEF TriggerFor
  <1> QED
    BY <1>9, <1>10

\* A capture that no other client has interfered with runs with the rate and
\* the trigger that its client has asked for: nothing of an earlier session, of
\* a parameter cut short, or of what does not fit an octet is left in the
\* analyzer, and the rate and the channel are those of the divider and of the
\* lowest bit of the mask (edt_sump_apply_session).
THEOREM SettingsReach == Spec => []AppliesWhatWasSent
  <1>1. Init => TypeOK /\ SessionInv /\ AnalyzerInv
    BY InitType, SettingsInit
  <1>2. TypeOK /\ SessionInv /\ AnalyzerInv /\ [Next]_vars
          => (TypeOK /\ SessionInv /\ AnalyzerInv)'
    BY TypeInductive, SessionInductive, AnalyzerInductive
  <1>3. TypeOK /\ SessionInv /\ AnalyzerInv => AppliesWhatWasSent
    BY SettingsApplied
  <1> QED
    BY <1>1, <1>2, <1>3, PTL DEF Spec

-------------------------------------------------------------------------------
(* Streams of samples: got by a capture, in the ring buffer and in the      *)
(* batch, in this order.                                                    *)

\* The samples of three sequences in a row.
LEMMA Joined ==
  ASSUME NEW g \in Seq(Places), NEW r \in Seq(Places), NEW b \in Seq(Places)
  PROVE  /\ g \o (r \o b) \in Seq(Places)
         /\ Len(g \o (r \o b)) = Len(g) + Len(r) + Len(b)
         /\ \A i \in 1..Len(g) : (g \o (r \o b))[i] = g[i]
         /\ \A i \in 1..Len(r) : (g \o (r \o b))[Len(g) + i] = r[i]
         /\ \A i \in 1..Len(b) : (g \o (r \o b))[Len(g) + Len(r) + i] = b[i]
  <1>1. /\ r \o b \in Seq(Places) /\ Len(r \o b) = Len(r) + Len(b)
        /\ \A i \in 1..Len(r) + Len(b) :
             (r \o b)[i] = IF i <= Len(r) THEN r[i] ELSE b[i - Len(r)]
    BY ConcatProperties
  <1>2. /\ g \o (r \o b) \in Seq(Places) /\ Len(g \o (r \o b)) = Len(g) + Len(r \o b)
        /\ \A i \in 1..Len(g) + Len(r \o b) : (g \o (r \o b))[i] =
             IF i <= Len(g) THEN g[i] ELSE (r \o b)[i - Len(g)]
    BY <1>1, ConcatProperties
  <1>3. Len(g) \in Nat /\ Len(r) \in Nat /\ Len(b) \in Nat
    OBVIOUS
  <1> DEFINE t == r \o b
             s == g \o t
  <1> HIDE DEF t, s
  <1>4. \A i \in 1..Len(g) : s[i] = g[i]
    BY <1>1, <1>2, <1>3 DEF s, t
  <1>5. ASSUME NEW i \in 1..Len(r)
        PROVE  s[Len(g) + i] = r[i]
    BY <1>1, <1>2, <1>3 DEF s, t
  <1>6. ASSUME NEW i \in 1..Len(b)
        PROVE  s[Len(g) + Len(r) + i] = b[i]
    BY <1>1, <1>2, <1>3 DEF s, t
  <1> QED
    BY <1>1, <1>2, <1>3, <1>4, <1>5, <1>6 DEF s, t

LEMMA JoinAssociative ==
  \A x, y, z \in Seq(Places) : (x \o y) \o z = x \o (y \o z)
  BY ConcatAssociative

\* What is read from the ring buffer joins what has been read.
LEMMA ReadJoins ==
  ASSUME NEW g \in Seq(Places), NEW r \in Seq(Places), NEW b \in Seq(Places), NEW n \in 1..Len(r)
  PROVE  (g \o SubSeq(r, 1, n)) \o (SubSeq(r, n + 1, Len(r)) \o b) = g \o (r \o b)
  <1>1. SubSeq(r, 1, n) \in Seq(Places) /\ SubSeq(r, n + 1, Len(r)) \in Seq(Places)
    BY Parts
  <1>2. SubSeq(r, 1, n) \o SubSeq(r, n + 1, Len(r)) = r
    <2>1. n \in 0..Len(r) /\ 1 \in 1..Len(r)+1 /\ Len(r) \in n..Len(r)
      OBVIOUS
    <2>2. SubSeq(r, 1, n) \o SubSeq(r, n + 1, Len(r)) = SubSeq(r, 1, Len(r))
      BY <2>1, ConcatAdjacentSubSeq
    <2> QED
      BY <2>2, SubSeqFull
  <1> DEFINE u == SubSeq(r, 1, n)
             v == SubSeq(r, n + 1, Len(r))
  <1> HIDE DEF u, v
  <1>3. u \in Seq(Places) /\ v \in Seq(Places)
    BY <1>1 DEF u, v
  <1>4. v \o b \in Seq(Places)
    BY <1>3, ConcatProperties
  <1>5. (g \o u) \o (v \o b) = g \o (u \o (v \o b))
    <2>1. \A z \in Seq(Places) : (g \o u) \o z = g \o (u \o z)
      BY ONLY <1>3, g \in Seq(Places), JoinAssociative, Zenon
    <2> QED
      BY ONLY <1>4, <2>1, Zenon
  <1>6. u \o (v \o b) = (u \o v) \o b
    <2>1. \A z \in Seq(Places) : (u \o v) \o z = u \o (v \o z)
      BY ONLY <1>3, JoinAssociative, Zenon
    <2> QED
      BY ONLY b \in Seq(Places), <2>1, Zenon
  <1> QED
    BY <1>2, <1>5, <1>6 DEF u, v

\* Older samples that another reader takes are not missed.
LEMMA OldTaken ==
  ASSUME NEW g \in Seq(Places), NEW r \in Seq(Places), NEW b \in Seq(Places),
         NEW n \in 1..Len(r), \A i \in 1..n : r[i] = "old"
  PROVE  LET s == g \o (r \o b)
             t == g \o (SubSeq(r, n + 1, Len(r)) \o b)
         IN  (AllOld(s) => AllOld(t)) /\ (Begun(s) => Begun(t))
  <1> DEFINE s == g \o (r \o b)
             v == SubSeq(r, n + 1, Len(r))
             t == g \o (v \o b)
             p == Len(g)
  <1>1. v \in Seq(Places) /\ Len(v) = Len(r) - n /\ \A i \in 1..Len(r) - n : v[i] = r[n + i]
    BY Parts
  <1>2. /\ p \in Nat /\ Len(r) \in Nat /\ Len(b) \in Nat
        /\ n \in Nat \ {0} /\ Len(v) \in Nat
    BY <1>1
  <1>3. /\ s \in Seq(Places) /\ Len(s) = p + Len(r) + Len(b)
        /\ \A i \in 1..p : s[i] = g[i]
        /\ \A i \in 1..Len(r) : s[p + i] = r[i]
        /\ \A i \in 1..Len(b) : s[p + Len(r) + i] = b[i]
    BY Joined
  <1>4. /\ t \in Seq(Places) /\ Len(t) = p + Len(v) + Len(b)
        /\ \A i \in 1..p : t[i] = g[i]
        /\ \A i \in 1..Len(v) : t[p + i] = v[i]
        /\ \A i \in 1..Len(b) : t[p + Len(v) + i] = b[i]
    <2>1. v \in Seq(Places)
      BY <1>1
    <2> HIDE DEF v
    <2> QED
      BY <2>1, Joined
  <1> HIDE DEF s, t, v, p
  <1>5. DOMAIN s = 1..Len(s) /\ DOMAIN t = 1..Len(t) /\ Len(t) = Len(s) - n /\ Len(s) \in Nat
    BY <1>1, <1>2, <1>3, <1>4
  <1>6. \A i \in 1..p : t[i] = s[i]
    BY <1>3, <1>4
  <1>7. ASSUME NEW i \in 1..Len(t), i > p
        PROVE  t[i] = s[i + n]
    <2>1. CASE i <= p + Len(v)
      <3> DEFINE j == i - p
      <3>1. j \in 1..Len(v) /\ n + j \in 1..Len(r)
        BY <1>1, <1>2, <1>7, <2>1
      <3>2. p + j = i /\ p + (n + j) = i + n
        BY <1>2
      <3> HIDE DEF j
      <3>3. t[p + j] = v[j] /\ s[p + (n + j)] = r[n + j]
        BY <1>3, <1>4, <3>1
      <3>4. v[j] = r[n + j]
        BY <1>1, <3>1
      <3> QED
        BY <3>2, <3>3, <3>4
    <2>2. CASE i > p + Len(v)
      <3> DEFINE j == i - p - Len(v)
      <3>1. j \in 1..Len(b)
        BY <1>2, <1>4, <1>7, <2>2
      <3>2. p + Len(v) + j = i /\ p + Len(r) + j = i + n
        BY <1>1, <1>2
      <3> HIDE DEF j
      <3>3. t[p + Len(v) + j] = b[j] /\ s[p + Len(r) + j] = b[j]
        BY <1>3, <1>4, <3>1
      <3> QED
        BY <3>2, <3>3
    <2> QED
      BY <1>1, <1>2, <2>1, <2>2
  <1>8. \A i \in 1..n : s[p + i] = "old"
    <2>1. \A i \in 1..n : i \in 1..Len(r)
      OBVIOUS
    <2> QED
      BY <1>3, <2>1
  <1>9. p \in 0..Len(t) /\ n \in Nat \ {0}
    BY <1>1, <1>2, <1>4
  <1>10. ASSUME AllOld(s) PROVE AllOld(t)
    <2> SUFFICES ASSUME NEW i \in 1..Len(t) PROVE t[i] = "old"
      BY <1>5 DEF AllOld
    <2>1. CASE i <= p
      <3>1. i \in 1..p /\ i \in DOMAIN s
        BY <1>5, <1>9, <2>1
      <3> QED
        BY <1>6, <1>10, <3>1 DEF AllOld
    <2>2. CASE i > p
      <3>1. t[i] = s[i + n] /\ i + n \in 1..Len(s)
        BY <1>5, <1>7, <1>9, <2>2
      <3> QED
        BY <1>5, <1>10, <3>1 DEF AllOld
    <2> QED
      BY <1>9, <2>1, <2>2
  <1>11. ASSUME Begun(s) PROVE Begun(t)
    <2>1. PICK k \in 1..Len(s) :
            /\ s[k] = "first"
            /\ \A i \in 1..Len(s) : (i < k => s[i] = "old") /\ (i > k => s[i] = "next")
      BY <1>5, <1>11 DEF Begun
    <2>2. p + 1 \in 1..Len(s) /\ s[p + 1] = "old"
      <3>1. p + 1 \in 1..Len(s) /\ 1 \in 1..n
        BY <1>5, <1>9
      <3> QED
        BY <1>8, <3>1
    <2>3. k > p + n
      <3>1. s[k] # "old" /\ k > p
        BY <1>5, <1>9, <2>1, <2>2
      <3>2. CASE k <= p + n
        <4>1. k - p \in 1..n
          BY <1>9, <3>1, <3>2
        <4>2. s[p + (k - p)] = "old" /\ p + (k - p) = k
          BY <1>8, <1>9, <4>1
        <4> QED
          BY <3>1, <4>2
      <3> QED
        BY <1>9, <3>2
    <2>4. k - n \in 1..Len(t) /\ t[k - n] = "first"
      BY <1>5, <1>7, <1>9, <2>1, <2>3
    <2>5. ASSUME NEW i \in 1..Len(t)
          PROVE  (i < k - n => t[i] = "old") /\ (i > k - n => t[i] = "next")
      <3>1. CASE i <= p
        BY <1>5, <1>6, <1>9, <2>1, <2>3, <3>1
      <3>2. CASE i > p
        <4>1. t[i] = s[i + n] /\ i + n \in 1..Len(s)
          BY <1>5, <1>7, <1>9, <3>2
        <4> QED
          BY <2>1, <4>1, <1>9
      <3> QED
        BY <1>9, <3>1, <3>2
    <2> QED
      BY <1>5, <2>4, <2>5 DEF Begun
  <1> QED
    BY <1>10, <1>11 DEF s, t, v

\* A sample that is kept comes last.
LEMMA KeptLast ==
  ASSUME NEW g \in Seq(Places), NEW r \in Seq(Places), NEW b \in Seq(Places), NEW x \in Places
  PROVE  LET s == g \o (r \o b)
             t == g \o (r \o Append(b, x))
         IN  /\ AllOld(s) /\ x = "first" => Begun(t)
             /\ Begun(s) /\ x = "next" => Begun(t)
  <1> DEFINE s == g \o (r \o b)
             a == Append(b, x)
             t == g \o (r \o a)
             n == Len(g) + Len(r)
  <1>1. /\ a \in Seq(Places) /\ Len(a) = Len(b) + 1 /\ a[Len(b) + 1] = x
        /\ \A i \in 1..Len(b) : a[i] = b[i]
    BY AppendProperties
  <1>2. Len(g) \in Nat /\ Len(r) \in Nat /\ Len(b) \in Nat /\ n \in Nat
    OBVIOUS
  <1>3. /\ s \in Seq(Places) /\ Len(s) = n + Len(b)
        /\ \A i \in 1..Len(g) : s[i] = g[i]
        /\ \A i \in 1..Len(r) : s[Len(g) + i] = r[i]
        /\ \A i \in 1..Len(b) : s[n + i] = b[i]
    BY ONLY g \in Seq(Places), r \in Seq(Places), b \in Seq(Places), Joined
  <1>4. /\ t \in Seq(Places) /\ Len(t) = n + Len(a)
        /\ \A i \in 1..Len(g) : t[i] = g[i]
        /\ \A i \in 1..Len(r) : t[Len(g) + i] = r[i]
        /\ \A i \in 1..Len(a) : t[n + i] = a[i]
    <2>1. a \in Seq(Places)
      BY <1>1
    <2> HIDE DEF a
    <2> QED
      BY <2>1, Joined
  <1>5. n = Len(g) + Len(r)
    OBVIOUS
  <1> HIDE DEF s, t, a, n
  <1>6. DOMAIN s = 1..Len(s) /\ DOMAIN t = 1..Len(t) /\ Len(t) = Len(s) + 1 /\ Len(s) \in Nat
    BY <1>1, <1>2, <1>3, <1>4
  <1>7. t[Len(s) + 1] = x
    <2>1. Len(a) \in 1..Len(a) /\ Len(s) + 1 = n + Len(a)
      BY <1>1, <1>2, <1>3
    <2> QED
      BY <1>1, <1>4, <2>1
  <1>8. ASSUME NEW i \in 1..Len(s)
        PROVE  t[i] = s[i]
    <2>1. CASE i <= Len(g)
      BY <1>2, <1>3, <1>4, <2>1
    <2>2. CASE i > Len(g) /\ i <= n
      <3> DEFINE j == i - Len(g)
      <3>1. j \in 1..Len(r) /\ Len(g) + j = i
        BY <1>2, <1>5, <2>2
      <3> HIDE DEF j
      <3> QED
        BY <1>3, <1>4, <3>1
    <2>3. CASE i > n
      <3> DEFINE j == i - n
      <3>1. j \in 1..Len(b) /\ j \in 1..Len(a) /\ n + j = i
        BY <1>1, <1>2, <1>3, <2>3
      <3> HIDE DEF j
      <3> QED
        BY <1>1, <1>3, <1>4, <3>1
    <2> QED
      BY <1>2, <2>1, <2>2, <2>3
  <1>9. ASSUME AllOld(s), x = "first"
        PROVE  Begun(t)
    <2>1. Len(s) + 1 \in DOMAIN t
      BY <1>6
    <2>2. \A i \in DOMAIN t : i < Len(s) + 1 => t[i] = "old"
      BY <1>6, <1>8, <1>9 DEF AllOld
    <2>3. \A i \in DOMAIN t : ~(i > Len(s) + 1)
      BY <1>6
    <2> QED
      BY <1>7, <1>9, <2>1, <2>2, <2>3 DEF Begun
  <1>10. ASSUME Begun(s), x = "next"
         PROVE  Begun(t)
    <2>1. PICK k \in DOMAIN s :
            /\ s[k] = "first"
            /\ \A i \in DOMAIN s : (i < k => s[i] = "old") /\ (i > k => s[i] = "next")
      BY <1>10 DEF Begun
    <2>2. k \in DOMAIN t /\ t[k] = "first"
      BY <1>6, <1>8, <2>1
    <2>3. ASSUME NEW i \in DOMAIN t
          PROVE  (i < k => t[i] = "old") /\ (i > k => t[i] = "next")
      <3>1. CASE i = Len(s) + 1
        BY <1>6, <1>7, <1>10, <3>1
      <3>2. CASE i # Len(s) + 1
        <4>1. i \in 1..Len(s)
          BY <1>6, <3>2
        <4> QED
          BY <1>6, <1>8, <2>1, <4>1
      <3> QED
        BY <3>1, <3>2
    <2> QED
      BY <2>2, <2>3 DEF Begun
  <1> QED
    BY <1>9, <1>10 DEF s, t, a

\* A batch that goes into the ring buffer takes its place in the stream; when
\* only older samples do not, the others have not been met.
LEMMA BatchJoins ==
  ASSUME NEW g \in Seq(Places), NEW r \in Seq(Places), NEW b \in Seq(Places), NEW n \in 0..Len(b),
         \A i \in n+1..Len(b) : b[i] = "old"
  PROVE  LET s == g \o (r \o b)
             t == g \o ((r \o SubSeq(b, 1, n)) \o <<>>)
         IN  (AllOld(s) => AllOld(t)) /\ (Begun(s) => n = Len(b) /\ Begun(t))
  <1> DEFINE u == SubSeq(b, 1, n)
             s == g \o (r \o b)
             t == g \o ((r \o u) \o <<>>)
             p == Len(g) + Len(r)
  <1>1. u \in Seq(Places) /\ Len(u) = n /\ \A i \in 1..n : u[i] = b[i]
    BY Parts
  <1>2. /\ Len(g) \in Nat /\ Len(r) \in Nat /\ Len(b) \in Nat /\ p \in Nat /\ n \in Nat
        /\ p = Len(g) + Len(r)
    OBVIOUS
  <1>3. t = g \o (r \o u)
    <2> HIDE DEF u
    <2>1. r \o u \in Seq(Places)
      BY <1>1, ConcatProperties
    <2>2. (r \o u) \o <<>> = r \o u
      BY <2>1, ConcatEmptySeq
    <2> QED
      BY <2>2
  <1>4. /\ s \in Seq(Places) /\ Len(s) = p + Len(b)
        /\ \A i \in 1..Len(g) : s[i] = g[i]
        /\ \A i \in 1..Len(r) : s[Len(g) + i] = r[i]
        /\ \A i \in 1..Len(b) : s[p + i] = b[i]
    BY Joined
  <1>5. /\ t \in Seq(Places) /\ Len(t) = p + n
        /\ \A i \in 1..Len(g) : t[i] = g[i]
        /\ \A i \in 1..Len(r) : t[Len(g) + i] = r[i]
        /\ \A i \in 1..n : t[p + i] = u[i]
    <2> DEFINE w == g \o (r \o u)
    <2> HIDE DEF u
    <2>1. /\ w \in Seq(Places) /\ Len(w) = p + Len(u)
          /\ \A i \in 1..Len(g) : w[i] = g[i]
          /\ \A i \in 1..Len(r) : w[Len(g) + i] = r[i]
          /\ \A i \in 1..Len(u) : w[p + i] = u[i]
      <3>1. u \in Seq(Places)
        BY <1>1
      <3> QED
        BY <3>1, Joined
    <2> HIDE DEF w, t, p
    <2> QED
      BY <1>1, <1>3, <2>1 DEF w
  <1> HIDE DEF s, t, u, p
  <1>6. DOMAIN s = 1..Len(s) /\ DOMAIN t = 1..Len(t) /\ Len(t) \in 0..Len(s) /\ Len(s) \in Nat
    BY <1>2, <1>4, <1>5
  <1>7. ASSUME NEW i \in 1..Len(t)
        PROVE  t[i] = s[i]
    <2>1. CASE i <= Len(g)
      BY <1>2, <1>4, <1>5, <2>1
    <2>2. CASE i > Len(g) /\ i <= p
      <3> DEFINE j == i - Len(g)
      <3>1. j \in 1..Len(r) /\ Len(g) + j = i
        BY <1>2, <2>2
      <3> HIDE DEF j
      <3> QED
        BY <1>4, <1>5, <3>1
    <2>3. CASE i > p
      <3> DEFINE j == i - p
      <3>1. j \in 1..Len(b) /\ j \in 1..n /\ p + j = i
        BY <1>2, <1>5, <2>3
      <3> HIDE DEF j
      <3> QED
        BY <1>1, <1>4, <1>5, <3>1
    <2> QED
      BY <1>2, <2>1, <2>2, <2>3
  <1>8. ASSUME AllOld(s) PROVE AllOld(t)
    BY <1>6, <1>7, <1>8 DEF AllOld
  <1>9. ASSUME Begun(s)
        PROVE  n = Len(b) /\ Begun(t)
    <2>1. PICK k \in DOMAIN s :
            /\ s[k] = "first"
            /\ \A i \in DOMAIN s : (i < k => s[i] = "old") /\ (i > k => s[i] = "next")
      BY <1>9 DEF Begun
    <2>2. Len(s) \in DOMAIN s /\ s[Len(s)] # "old"
      BY <1>6, <2>1
    <2>3. n = Len(b)
      <3>1. CASE n < Len(b)
        <4>1. Len(b) \in n+1..Len(b) /\ Len(b) \in 1..Len(b)
          BY <1>2, <3>1
        <4>2. b[Len(b)] = "old" /\ s[p + Len(b)] = b[Len(b)]
          BY <1>4, <4>1
        <4> QED
          BY <1>4, <2>2, <4>2
      <3> QED
        BY <1>2, <3>1
    <2>4. Len(t) = Len(s)
      BY <1>4, <1>5, <2>3
    <2> QED
      BY <1>6, <1>7, <1>9, <2>3, <2>4 DEF Begun
  <1> QED
    BY <1>8, <1>9 DEF s, t, u

\* What a capture that has read some of a stream holds.
LEMMA BegunCapture ==
  ASSUME NEW g \in Seq(Places), NEW r \in Seq(Places), NEW b \in Seq(Places),
         AllOld(g \o (r \o b)) \/ Begun(g \o (r \o b)), NEW i \in DOMAIN g
  PROVE  \/ g[i] = "old" /\ \A j \in 1..i-1 : g[j] = "old"
         \/ g[i] = "first" /\ \A j \in 1..i-1 : g[j] = "old"
         \/ g[i] = "next" /\ i > 1 /\ g[i-1] \in {"first", "next"}
  <1> DEFINE s == g \o (r \o b)
  <1>1. /\ s \in Seq(Places) /\ Len(s) = Len(g) + Len(r) + Len(b)
        /\ \A j \in 1..Len(g) : s[j] = g[j]
    BY Joined
  <1>2. Len(g) \in Nat /\ Len(r) \in Nat /\ Len(b) \in Nat /\ DOMAIN g = 1..Len(g)
    OBVIOUS
  <1> HIDE DEF s
  <1>3. DOMAIN s = 1..Len(s) /\ \A j \in DOMAIN g : j \in DOMAIN s /\ s[j] = g[j]
    BY <1>1, <1>2
  <1>4. i \in 1..Len(g) /\ \A j \in 1..i : j \in DOMAIN g
    BY <1>2
  <1>5. CASE AllOld(s)
    BY <1>3, <1>4, <1>5 DEF AllOld
  <1>6. CASE Begun(s)
    <2>1. PICK k \in DOMAIN s :
            /\ s[k] = "first"
            /\ \A j \in DOMAIN s : (j < k => s[j] = "old") /\ (j > k => s[j] = "next")
      BY <1>6 DEF Begun
    <2>2. k \in Nat \ {0} /\ i \in Nat \ {0}
      BY <1>1, <1>3, <1>4
    <2>3. CASE i <= k
      BY <1>3, <1>4, <2>1, <2>2, <2>3
    <2>4. CASE i > k
      <3>1. i - 1 \in 1..i /\ i > 1 /\ i - 1 >= k
        BY <2>2, <2>4
      <3> QED
        BY <1>3, <1>4, <2>1, <2>2, <2>4, <3>1
    <2> QED
      BY <2>2, <2>3, <2>4
  <1> QED
    BY <1>5, <1>6 DEF s

-------------------------------------------------------------------------------
(* Where a capture begins.                                                  *)

LEMMA StreamInit == Init => StreamInv
  BY DEF Init, StreamInv

\* What leaves the stream of an undisturbed capture as it is.
LEMMA StreamUnchanged ==
  ASSUME StreamInv, UNCHANGED <<ring, batch, fresh, near, armed, mode>>,
         \A c \in Clients : clean'[c] => clean[c] /\ pc'[c] = pc[c] /\ got'[c] = got[c],
         \A c \in Clients : pc'[c] \in {"rate", "trigger", "store", "arm"} => got'[c] = <<>>
  PROVE  StreamInv'
  BY DEF StreamInv, Stream

LEMMA StreamCommands ==
  ASSUME TypeOK, AnalyzerInv, StreamInv, NEW c \in Clients,
         \/ Accept(c) \/ Close(c) \/ Reset(c) \/ Setting(c) \/ Param(c) \/ ParamCut(c)
         \/ Allocate(c) \/ CaptureEnd(c)
  PROVE  StreamInv'
  <1> USE DEF TypeOK, Goes
  <1>1. UNCHANGED <<ring, batch, fresh, near, armed, mode>>
    BY DEF Accept, Close, Reset, Setting, Param, ParamCut, Allocate, CaptureEnd, trigger, samples
  <1>2. /\ \A d \in Clients : clean'[d] => clean[d] /\ d # c
        /\ \A d \in Clients : d # c => pc'[d] = pc[d]
        /\ \A d \in Clients : d # c => got'[d] = got[d]
    BY DEF Accept, Close, Reset, Setting, Param, ParamCut, Allocate, CaptureEnd, AnalyzerInv,
       Arming, captures
  <1>3. pc'[c] \in {"rate", "trigger", "store", "arm"} => got'[c] = <<>>
    BY DEF Accept, Close, Reset, Setting, Param, ParamCut, AfterCut, Allocate, CaptureEnd
  <1>4. \A d \in Clients : pc'[d] \in {"rate", "trigger", "store", "arm"} => got'[d] = <<>>
    BY <1>2, <1>3 DEF StreamInv
  <1> QED
    BY <1>1, <1>2, <1>4, StreamUnchanged

LEMMA StreamArms ==
  ASSUME TypeOK, AnalyzerInv, StreamInv, NEW c \in Clients,
         SetRate(c) \/ CopyTrigger(c) \/ StoreArmed(c) \/ Arm(c)
  PROVE  StreamInv'
  <1> USE DEF TypeOK, Goes, captures, samples, trigger, Disturb
  <1>1. ASSUME NEW d \in Clients, pc'[d] \in {"rate", "trigger", "store", "arm"}
        PROVE  got'[d] = <<>>
    BY <1>1 DEF SetRate, CopyTrigger, StoreArmed, Arm, StreamInv
  <1>2. CASE SetRate(c) \/ CopyTrigger(c)
    <2>1. \A d \in Clients : clean'[d] => pc'[d] \in {"trigger", "store"}
      BY <1>2 DEF SetRate, CopyTrigger
    <2> QED
      BY <1>1, <2>1 DEF StreamInv
  <1>3. CASE StoreArmed(c)
    <2>1. /\ pc[c] = "store" /\ fresh' = TRUE /\ UNCHANGED <<got, mode>>
          /\ \A d \in Clients : clean'[d] => d = c /\ clean[c]
      BY <1>3 DEF StoreArmed
    <2>2. clean[c] => armed' = (mode' # "none")
      BY <1>3, <2>1 DEF StoreArmed, AnalyzerInv
    <2>3. AllOld(Stream(c)')
      <3>1. got'[c] = <<>>
        BY <2>1 DEF StreamInv
      <3>2. /\ ring' \in Seq(Places) /\ \A i \in DOMAIN ring' : ring'[i] = "old"
            /\ batch' \in Seq(Places) /\ \A i \in DOMAIN batch' : batch'[i] = "old"
        BY <1>3, OldSamples DEF StoreArmed
      <3>3. /\ ring' \o batch' \in Seq(Places)
            /\ \A i \in DOMAIN (ring' \o batch') : (ring' \o batch')[i] = "old"
        BY ONLY <3>2, ConcatProperties
      <3>4. Stream(c)' = ring' \o batch'
        BY <3>1, <3>3 DEF Stream
      <3> QED
        BY <3>3, <3>4 DEF AllOld
    <2> QED
      BY <1>1, <2>1, <2>2, <2>3 DEF StreamInv
  <1>4. CASE Arm(c)
    <2>1. /\ \A d \in Clients : clean'[d] => d = c /\ clean[c] /\ (fresh \/ mode = "none")
          /\ pc[c] = "arm" /\ armed' = (mode # "none" \/ armed)
          /\ UNCHANGED <<got, ring, batch, fresh, near, mode>>
      BY <1>4 DEF Arm
    <2>2. Stream(c)' = Stream(c)
      BY <2>1 DEF Stream
    <2>3. clean'[c] => IF fresh THEN AllOld(Stream(c)) /\ armed' = (mode # "none")
                       ELSE Begun(Stream(c)) /\ ~armed' /\ near
      BY <2>1 DEF StreamInv
    <2>4. clean'[c] => IF fresh' THEN AllOld(Stream(c)') /\ armed' = (mode' # "none")
                       ELSE Begun(Stream(c)') /\ ~armed' /\ near'
      BY <2>1, <2>2, <2>3
    <2> QED
      BY <1>1, <2>1, <2>4 DEF StreamInv
  <1> QED
    BY <1>2, <1>3, <1>4

LEMMA StreamReads ==
  ASSUME TypeOK, StreamInv, MainRead \/ \E c \in Clients : CaptureRead(c)
  PROVE  StreamInv'
  <1> USE DEF TypeOK, Goes, captures, samples, trigger
  <1>1. PICK n \in 1..Len(ring) :
          /\ ring' = SubSeq(ring, n + 1, Len(ring))
          /\ \A d \in Clients : clean'[d] => clean[d]
          /\ \A d \in Clients : \/ clean'[d] => ~Taken(n) /\ got'[d] = got[d]
                                \/ got'[d] = got[d] \o SubSeq(ring, 1, n)
          /\ \A d \in Clients : pc[d] # "capture" => got'[d] = got[d]
          /\ UNCHANGED <<pc, mode, armed, batch, fresh, near>>
    <2>1. CASE MainRead
      BY <2>1 DEF MainRead
    <2>2. ASSUME NEW c \in Clients, CaptureRead(c)
          PROVE  \E n \in 1..Len(ring) :
                   /\ ring' = SubSeq(ring, n + 1, Len(ring))
                   /\ \A d \in Clients : clean'[d] => clean[d]
                   /\ \A d \in Clients : \/ clean'[d] => ~Taken(n) /\ got'[d] = got[d]
                                         \/ got'[d] = got[d] \o SubSeq(ring, 1, n)
                   /\ \A d \in Clients : pc[d] # "capture" => got'[d] = got[d]
                   /\ UNCHANGED <<pc, mode, armed, batch, fresh, near>>
      <3> DEFINE n == Least(want[c] - Len(got[c]), Len(ring))
      <3>1. n \in 1..Len(ring)
        <4>1. want[c] \in Nat /\ Len(ring) \in Nat /\ Len(got[c]) \in Nat
          BY Lengths
        <4> QED
          BY <2>2, <4>1 DEF CaptureRead, Least
      <3>2. /\ ring' = SubSeq(ring, n + 1, Len(ring))
            /\ got' = [got EXCEPT ![c] = got[c] \o SubSeq(ring, 1, n)]
            /\ clean' = [d \in Clients |-> clean[d] /\ (d = c \/ ~Taken(n))]
            /\ pc[c] = "capture" /\ pc' = [pc EXCEPT ![c] = "capture"]
            /\ UNCHANGED <<mode, armed, batch, fresh, near>>
        BY <2>2 DEF CaptureRead, Appended
      <3> HIDE DEF n
      <3>3. UNCHANGED pc
        BY <3>2
      <3>4. ASSUME NEW d \in Clients
            PROVE  \/ clean'[d] => ~Taken(n) /\ got'[d] = got[d]
                   \/ got'[d] = got[d] \o SubSeq(ring, 1, n)
        BY <3>2
      <3> QED
        BY <3>1, <3>2, <3>3, <3>4
    <2> QED
      BY <2>1, <2>2
  <1>2. ASSUME NEW d \in Clients, clean'[d], pc'[d] \in {"arm", "capture"}
        PROVE  IF fresh' THEN AllOld(Stream(d)') /\ armed' = (mode' # "none")
                         ELSE Begun(Stream(d)') /\ ~armed' /\ near'
    <2>1. IF fresh THEN AllOld(Stream(d)) /\ armed = (mode # "none")
                   ELSE Begun(Stream(d)) /\ ~armed /\ near
      BY <1>1, <1>2 DEF StreamInv
    <2>2. got[d] \in Seq(Places) /\ ring \in Seq(Places) /\ batch \in Seq(Places)
      OBVIOUS
    <2>3. (AllOld(Stream(d)) => AllOld(Stream(d)')) /\ (Begun(Stream(d)) => Begun(Stream(d)'))
      <3>1. CASE got'[d] = got[d] \o SubSeq(ring, 1, n)
        <4>1. Stream(d)' = Stream(d)
          <5>1. Stream(d)' = (got[d] \o SubSeq(ring, 1, n))
                                \o (SubSeq(ring, n + 1, Len(ring)) \o batch)
            BY <1>1, <3>1 DEF Stream
          <5>2. (got[d] \o SubSeq(ring, 1, n)) \o (SubSeq(ring, n + 1, Len(ring)) \o batch)
                  = got[d] \o (ring \o batch)
            BY ONLY <2>2, n \in 1..Len(ring), ReadJoins
          <5> QED
            BY <5>1, <5>2 DEF Stream
        <4> QED
          BY <4>1
      <3>2. CASE ~Taken(n) /\ got'[d] = got[d]
        <4>1. \A i \in 1..n : ring[i] = "old"
          BY <3>2 DEF Taken
        <4>2. Stream(d)' = got[d] \o (SubSeq(ring, n + 1, Len(ring)) \o batch)
          BY <1>1, <3>2 DEF Stream
        <4> QED
          BY <2>2, <4>1, <4>2, OldTaken DEF Stream
      <3> QED
        BY <1>1, <1>2, <3>1, <3>2
    <2> QED
      BY <1>1, <2>1, <2>3
  <1>3. \A d \in Clients : pc'[d] \in {"rate", "trigger", "store", "arm"} => got'[d] = <<>>
    BY <1>1 DEF StreamInv
  <1> QED
    BY <1>2, <1>3 DEF StreamInv

LEMMA StreamSample ==
  ASSUME TypeOK, StreamInv, Sample
  PROVE  StreamInv'
  <1> USE DEF TypeOK, captures, trigger
  <1>1. UNCHANGED <<pc, got, ring, mode, clean>>
    BY DEF Sample
  <1>2. PICK met \in BOOLEAN :
          /\ met => armed
          /\ armed' = (armed /\ ~met)
          /\ batch' = IF Kept(met) THEN Append(batch, Place(met)) ELSE batch
          /\ near' = Kept(met)
          /\ fresh' = (fresh /\ armed /\ ~met)
    BY DEF Sample
  <1>3. ASSUME NEW d \in Clients, clean'[d], pc'[d] \in {"arm", "capture"}
        PROVE  IF fresh' THEN AllOld(Stream(d)') /\ armed' = (mode' # "none")
                         ELSE Begun(Stream(d)') /\ ~armed' /\ near'
    <2>1. /\ clean[d]
          /\ IF fresh THEN AllOld(Stream(d)) /\ armed = (mode # "none")
                      ELSE Begun(Stream(d)) /\ ~armed /\ near
      BY <1>1, <1>3 DEF StreamInv
    <2>2. got[d] \in Seq(Places) /\ ring \in Seq(Places) /\ batch \in Seq(Places)
      OBVIOUS
    <2>3. CASE ~Kept(met)
      <3>1. armed /\ ~met /\ fresh
        BY <2>1, <2>3 DEF Kept
      <3>2. Stream(d)' = Stream(d)
        BY <1>1, <1>2, <2>3 DEF Stream
      <3> QED
        BY <1>1, <1>2, <2>1, <3>1, <3>2
    <2>4. CASE Kept(met)
      <3>1. Stream(d)' = got[d] \o (ring \o Append(batch, Place(met)))
        BY <1>1, <1>2, <2>4 DEF Stream
      <3>2. near' /\ ~armed' /\ ~fresh'
        BY <1>2, <2>4 DEF Kept
      <3>3. CASE fresh
        <4>1. Place(met) = "first"
          BY <2>1, <2>4, <3>3 DEF Place, Kept
        <4>2. Begun(Stream(d)')
          BY <2>1, <2>2, <3>1, <3>3, <4>1, KeptLast DEF Stream, Places
        <4> QED
          BY <3>2, <4>2
      <3>4. CASE ~fresh
        <4>1. Place(met) = "next"
          BY <1>2, <2>1, <3>4 DEF Place
        <4>2. Begun(Stream(d)')
          BY <2>1, <2>2, <3>1, <3>4, <4>1, KeptLast DEF Stream, Places
        <4> QED
          BY <3>2, <4>2
      <3> QED
        BY <3>3, <3>4
    <2> QED
      BY <2>3, <2>4
  <1> QED
    BY <1>1, <1>3 DEF StreamInv

LEMMA StreamWrite ==
  ASSUME TypeOK, StreamInv, BatchWrite
  PROVE  StreamInv'
  <1> USE DEF TypeOK, captures, trigger
  <1> DEFINE n == Least(Len(batch), Capacity - Len(ring))
  <1>1. n \in 0..Len(batch) /\ Len(batch) = BatchSize
    BY SizesAssumption DEF Least, BatchWrite
  <1>2. /\ ring' = ring \o SubSeq(batch, 1, n) /\ batch' = <<>>
        /\ near' = (near /\ n = BatchSize)
        /\ clean' = [d \in Clients |-> clean[d] /\ \A i \in n+1..BatchSize : batch[i] = "old"]
        /\ UNCHANGED <<pc, got, armed, mode, fresh>>
    BY DEF BatchWrite
  <1> HIDE DEF n
  <1>3. ASSUME NEW d \in Clients, clean'[d], pc'[d] \in {"arm", "capture"}
        PROVE  IF fresh' THEN AllOld(Stream(d)') /\ armed' = (mode' # "none")
                         ELSE Begun(Stream(d)') /\ ~armed' /\ near'
    <2>1. /\ clean[d] /\ \A i \in n+1..Len(batch) : batch[i] = "old"
          /\ IF fresh THEN AllOld(Stream(d)) /\ armed = (mode # "none")
                      ELSE Begun(Stream(d)) /\ ~armed /\ near
      BY <1>1, <1>2, <1>3 DEF StreamInv
    <2>2. got[d] \in Seq(Places) /\ ring \in Seq(Places) /\ batch \in Seq(Places)
      OBVIOUS
    <2>3. Stream(d)' = got[d] \o ((ring \o SubSeq(batch, 1, n)) \o <<>>)
      BY <1>2 DEF Stream
    <2>4. /\ AllOld(Stream(d)) => AllOld(Stream(d)')
          /\ Begun(Stream(d)) => n = Len(batch) /\ Begun(Stream(d)')
      BY <1>1, <2>1, <2>2, <2>3, BatchJoins DEF Stream
    <2> QED
      BY <1>1, <1>2, <2>1, <2>4
  <1> QED
    BY <1>2, <1>3 DEF StreamInv

LEMMA Inductive == IInv /\ [Next]_vars => IInv'
  <1> SUFFICES ASSUME IInv, [Next]_vars PROVE StreamInv'
    BY TypeInductive, SessionInductive, AnalyzerInductive DEF IInv
  <1> USE DEF IInv
  <1>1. ASSUME NEW c \in Clients, Client(c)
        PROVE  StreamInv'
    BY <1>1, StreamCommands, StreamArms, StreamReads DEF Client
  <1>2. CASE MainRead \/ Sample \/ BatchWrite
    BY <1>2, StreamReads, StreamSample, StreamWrite
  <1>3. CASE UNCHANGED vars
    <2>1. UNCHANGED <<pc, got, ring, batch, fresh, near, armed, mode, clean>>
      BY <1>3 DEF vars, captures, trigger, samples
    <2> QED
      BY <2>1, StreamUnchanged DEF StreamInv
  <1> QED
    BY <1>1, <1>2, <1>3 DEF Next

LEMMA StreamBegins ==
  ASSUME TypeOK, StreamInv
  PROVE  BeginsAtTrigger
  <1> SUFFICES ASSUME NEW c \in Clients, clean[c], pc[c] = "capture", NEW i \in DOMAIN got[c]
               PROVE  LET g == got[c]
                      IN  \/ g[i] = "old" /\ \A j \in 1..i-1 : g[j] = "old"
                          \/ g[i] = "first" /\ \A j \in 1..i-1 : g[j] = "old"
                          \/ g[i] = "next" /\ i > 1 /\ g[i-1] \in {"first", "next"}
    BY DEF BeginsAtTrigger
  <1>1. got[c] \in Seq(Places) /\ ring \in Seq(Places) /\ batch \in Seq(Places)
    BY DEF TypeOK
  <1>2. AllOld(Stream(c)) \/ Begun(Stream(c))
    BY DEF StreamInv
  <1> QED
    BY <1>1, <1>2, BegunCapture DEF Stream

\* A capture holds the samples that were there before its trigger was set, then
\* the one that met it and those that followed without a gap: unless another
\* client or main has come in the way, a sample was dropped at a full ring
\* buffer, or the second arming of edt_sump_apply_session has lost the trigger.
THEOREM CaptureBegins == Spec => []BeginsAtTrigger
  <1>1. Init => IInv
    BY InitType, SettingsInit, StreamInit DEF IInv
  <1>2. IInv => BeginsAtTrigger
    BY StreamBegins DEF IInv
  <1> QED
    BY <1>1, <1>2, Inductive, PTL DEF Spec

===============================================================================
