------------------------------ MODULE SumpServer ------------------------------
(***************************************************************************)
(* The sessions of edt_sump_client_thread (embedded_debug_toolkit/src/     *)
(* protocol/sump_server.c): each client has a connection and a session of  *)
(* its own, and all of them set and read one logic analyzer, which main    *)
(* reads too.  ID and META only answer, and a failed answer goes unnoticed: *)
(* they are left out.                                                       *)
(*                                                                         *)
(* The sampling thread is here at the grain of a sample (LogicAnalyzer has *)
(* its smaller steps; DebugService has who starts and stops it).  A sample *)
(* is told by its place: "old" samples were kept before a trigger was set, *)
(* "first" is the one that met it, "next" follows the sample kept before   *)
(* it, and "gap" does not.                                                  *)
(***************************************************************************)
EXTENDS Integers, Sequences

CONSTANTS Clients,
          Lines,             \* the bits of a trigger mask: 8, which fill an octet
          Word,              \* parameters are numbers modulo Word: 2^32
          Offered,           \* the parameters clients send, for each setting
          MaxRate,           \* config.max_sample_rate_hz
          CaptureSamples,    \* config.capture_samples
          DefaultTarget,     \* 4096
          MaxTarget,         \* 1 << 20
          Capacity,          \* the ring buffer's, in samples
          BatchSize,         \* the sampling thread's batch
          MaxSent            \* bounds the connections and commands

Octet == 2^Lines
Params == 0..Word-1
Settings == {"divider", "read_count", "trigger_mask", "trigger_value", "trigger_mode"}

ASSUME ClientsAssumption == Clients # {}
ASSUME WordAssumption == Lines \in 1..8 /\ Word \in Nat /\ Word > Octet
ASSUME OfferedAssumption == Offered \in [Settings -> SUBSET Params]
ASSUME CaptureAssumption == /\ MaxTarget \in Nat /\ DefaultTarget \in 1..MaxTarget
                            /\ CaptureSamples \in 1..Word-1 /\ MaxRate \in 1..Word-1
ASSUME SizesAssumption == /\ Capacity \in Nat \ {0} /\ BatchSize \in Nat \ {0}
                          /\ MaxSent \in Nat

VARIABLES
  pc, cmd,        \* the client threads, and the setting each is receiving
  session,        \* their edt_sump_session_t
  want, got,      \* their target, and what their capture has read
  rate,           \* config.sample_rate_hz of the analyzer
  mode, channel, armed,     \* its trigger
  batch, ring,    \* samples in the sampling thread's batch and in the ring buffer
  alive,          \* the process has not been ended by a trap
  sent,           \* connections and commands, up to MaxSent
  fresh, near,    \* history: the trigger set last has not been met; the last
                  \* sample taken is the last one kept
  asked,          \* history: the settings a client has sent in full since it
                  \* connected or sent RESET, 0 for the others
  clean           \* history: nothing has come in the way of a capture since its
                  \* client began to set the analyzer

sessions == <<cmd, session, asked>>
captures == <<want, got>>
trigger == <<mode, channel>>
samples == <<batch, ring, fresh, near>>
vars == <<pc, sessions, captures, rate, trigger, armed, samples, alive, sent, clean>>

Least(a, b) == IF a < b THEN a ELSE b
Bit(n, i) == (n \div 2^i) % 2 = 1
Unset == [k \in Settings |-> 0]

NewSession == [divider |-> 0, read_count |-> CaptureSamples - 1,
               trigger_mask |-> 0, trigger_value |-> 0, trigger_mode |-> 0]

Init ==
  /\ pc = [c \in Clients |-> "closed"] /\ cmd = [c \in Clients |-> "none"]
  /\ session = [c \in Clients |-> NewSession] /\ asked = [c \in Clients |-> Unset]
  /\ want = [c \in Clients |-> 0] /\ got = [c \in Clients |-> <<>>]
  /\ rate = MaxRate /\ mode = "none" /\ channel = 0 /\ armed = FALSE
  /\ batch = <<>> /\ ring = <<>> /\ fresh = FALSE /\ near = FALSE
  /\ alive = TRUE /\ sent = 0
  /\ clean = [c \in Clients |-> FALSE]

\* Client c goes on from place p to place q.
Goes(c, p, q) == alive /\ pc[c] = p /\ pc' = [pc EXCEPT ![c] = q]

Send == sent < MaxSent /\ sent' = sent + 1

\* c changes the analyzer: every other capture has been interfered with.
Disturb(c) == clean' = [d \in Clients |-> d = c /\ clean[c]]

-------------------------------------------------------------------------------
(* Commands and parameters                                                  *)

\* The listener accepts a client and starts its thread.
Accept(c) ==
  /\ Goes(c, "closed", "recv") /\ Send
  /\ session' = [session EXCEPT ![c] = NewSession]
  /\ asked' = [asked EXCEPT ![c] = Unset]
  /\ UNCHANGED <<cmd, captures, rate, trigger, armed, samples, alive, clean>>

\* The peer is gone, or the command is none of those known.
Close(c) ==
  /\ \E p \in {"recv", "last"} : Goes(c, p, "closed")
  /\ UNCHANGED <<sessions, captures, rate, trigger, armed, samples, alive, sent, clean>>

\* A mutant: RESET leaves the trigger mode.
ResetValuesKept(s) == [NewSession EXCEPT !.trigger_mode = s.trigger_mode]

ResetValues(s) == NewSession

Reset(c) ==
  /\ Goes(c, "recv", "recv") /\ Send
  /\ session' = [session EXCEPT ![c] = ResetValues(session[c])]
  /\ asked' = [asked EXCEPT ![c] = Unset]
  /\ UNCHANGED <<cmd, captures, rate, trigger, armed, samples, alive, clean>>

\* The first byte of a setting, or of a command from 0x80 on that is not known.
Setting(c) ==
  /\ Goes(c, "recv", "param") /\ Send
  /\ \E k \in Settings \cup {"unknown"} : cmd' = [cmd EXCEPT ![c] = k]
  /\ UNCHANGED <<session, asked, captures, rate, trigger, armed, samples, alive, clean>>

\* The value of setting k in the session: three of them are octets.
Stored(k, v) == IF k \in {"divider", "read_count"} THEN v ELSE v % Octet

\* The four bytes of its parameter.
Param(c) ==
  LET k == cmd[c]
  IN  /\ Goes(c, "param", "recv")
      /\ IF k \in Settings
         THEN \E v \in Offered[k] :
                /\ session' = [session EXCEPT ![c][k] = Stored(k, v)]
                /\ asked' = [asked EXCEPT ![c][k] = v]
         ELSE UNCHANGED <<session, asked>>
      /\ cmd' = [cmd EXCEPT ![c] = "none"]
      /\ UNCHANGED <<captures, rate, trigger, armed, samples, alive, sent, clean>>

\* A mutant: after a parameter that was cut short the client may go on.
AfterCutRecv == "recv"

\* recv will give 0 again.
AfterCut == "last"

\* The peer closes inside the parameter.  recv gives 0, and edt_recv_exact the
\* negated errno: 0, unless a call has failed before, so bytes that never came
\* are stored.
ParamCut(c) ==
  LET k == cmd[c]
  IN  /\ \/ Goes(c, "param", "closed") /\ UNCHANGED session
         \/ /\ Goes(c, "param", AfterCut)
            /\ IF k \in Settings
               THEN \E v \in Offered[k] : session' = [session EXCEPT ![c][k] = Stored(k, v)]
               ELSE UNCHANGED session
      /\ cmd' = [cmd EXCEPT ![c] = "none"]
      /\ UNCHANGED <<asked, captures, rate, trigger, armed, samples, alive, sent, clean>>

-------------------------------------------------------------------------------
(* ARM: edt_sump_stream_capture and edt_sump_apply_session                  *)

\* A mutant: the target is not bounded.
TargetUncapped(n) == IF n = 0 THEN CaptureSamples
                     ELSE IF (n + 1) % Word = 0 THEN DefaultTarget ELSE (n + 1) % Word

\* The samples of a capture; the largest read_count wraps to 0, which stands
\* for the default.
Target(n) ==
  LET asks == IF n = 0 THEN CaptureSamples ELSE (n + 1) % Word
  IN  Least(IF asks = 0 THEN DefaultTarget ELSE asks, MaxTarget)

\* ARM has come, and the target's memory may not be had.
Allocate(c) ==
  /\ Send
  /\ \/ /\ Goes(c, "recv", "rate")
        /\ want' = [want EXCEPT ![c] = Target(session[c].read_count)]
        /\ got' = [got EXCEPT ![c] = <<>>]
     \/ Goes(c, "recv", "closed") /\ UNCHANGED captures
  /\ UNCHANGED <<sessions, rate, trigger, armed, samples, alive, clean>>

Trap == 0

\* The rates a divider gives.  The largest divider makes a divisor of 0: the
\* target's processor computes 0, which becomes 1, and others trap.
Rates(d) ==
  LET divisor == IF d = 0 THEN 1 ELSE (d + 1) % Word
  IN  IF divisor = 0 THEN {Trap, 1}
      ELSE IF MaxRate \div divisor = 0 THEN {1} ELSE {MaxRate \div divisor}

SetRate(c) ==
  \E r \in Rates(session[c].divider) :
    /\ Goes(c, "rate", "trigger")
    /\ IF r = Trap THEN alive' = FALSE /\ UNCHANGED rate
       ELSE rate' = r /\ UNCHANGED alive
    /\ clean' = [d \in Clients |-> d = c]
    /\ UNCHANGED <<sessions, captures, trigger, armed, samples, sent>>

\* The lowest channel of the mask.
MaskChannel(m) ==
  LET set == {i \in 0..Lines-1 : Bit(m, i)}
  IN  IF set = {} THEN 0 ELSE CHOOSE i \in set : \A j \in set : i <= j

\* edt_map_trigger_mode, and the level the value asks for when it knows none.
TriggerMode(s) ==
  CASE s.trigger_mode = 1 -> "rising"
    [] s.trigger_mode = 2 -> "falling"
    [] s.trigger_mode = 3 -> "high"
    [] s.trigger_mode = 4 -> "low"
    [] OTHER -> IF s.trigger_mask = 0 THEN "none"
                ELSE IF Bit(s.trigger_value, MaskChannel(s.trigger_mask)) THEN "high" ELSE "low"

\* edt_logic_analyzer_set_trigger: the copy,
CopyTrigger(c) ==
  /\ Goes(c, "trigger", "store")
  /\ mode' = TriggerMode(session[c])
  /\ channel' = MaskChannel(session[c].trigger_mask)
  /\ Disturb(c)
  /\ UNCHANGED <<sessions, captures, rate, armed, samples, alive, sent>>

\* ... and the store to armed: samples kept so far are older.
StoreArmed(c) ==
  /\ Goes(c, "store", "arm")
  /\ armed' = (TriggerMode(session[c]) # "none")
  /\ batch' = [i \in DOMAIN batch |-> "old"]
  /\ ring' = [i \in DOMAIN ring |-> "old"]
  /\ fresh' = TRUE
  /\ Disturb(c)
  /\ UNCHANGED <<sessions, captures, rate, trigger, near, alive, sent>>

\* edt_logic_analyzer_arm arms it again; if the trigger has been met since,
\* it is waited for once more.
Arm(c) ==
  /\ Goes(c, "arm", "capture")
  /\ armed' = (mode # "none" \/ armed)
  /\ clean' = [d \in Clients |-> d = c /\ clean[c] /\ (fresh \/ mode = "none")]
  /\ UNCHANGED <<sessions, captures, rate, trigger, samples, alive, sent>>

-------------------------------------------------------------------------------
(* The capture and the answer                                               *)

Taken(n) == \E i \in 1..n : ring[i] # "old"

\* A mutant: each read starts again at the front of the buffer.
AppendedOver(g, s) == s

Appended(g, s) == g \o s

\* edt_logic_analyzer_read_samples in c's capture.
CaptureRead(c) ==
  LET n == Least(want[c] - Len(got[c]), Len(ring))
  IN  /\ Goes(c, "capture", "capture")
      /\ n > 0
      /\ got' = [got EXCEPT ![c] = Appended(@, SubSeq(ring, 1, n))]
      /\ ring' = SubSeq(ring, n + 1, Len(ring))
      /\ clean' = [d \in Clients |-> clean[d] /\ (d = c \/ ~Taken(n))]
      /\ UNCHANGED <<sessions, want, rate, trigger, armed, batch, fresh, near, alive, sent>>

\* It is complete, or its time is up; the answer is sent, or fails.
CaptureEnd(c) ==
  /\ Goes(c, "capture", "recv") \/ Goes(c, "capture", "closed")
  /\ clean' = [clean EXCEPT ![c] = FALSE]
  /\ UNCHANGED <<sessions, captures, rate, trigger, armed, samples, alive, sent>>

\* main's own capture takes samples too.
MainRead ==
  /\ alive
  /\ \E n \in 1..Len(ring) :
       /\ ring' = SubSeq(ring, n + 1, Len(ring))
       /\ clean' = [d \in Clients |-> clean[d] /\ ~Taken(n)]
  /\ UNCHANGED <<pc, sessions, captures, rate, trigger, armed, batch, fresh, near, alive, sent>>

-------------------------------------------------------------------------------
(* The sampling thread                                                      *)

\* The place of a sample that is kept.
Place(met) ==
  IF \A c \in Clients : ~clean[c] THEN "old"
  ELSE IF met \/ (fresh /\ mode = "none") THEN "first"
  ELSE IF near THEN "next" ELSE "gap"

\* A mutant: the sample that meets the trigger is not kept.
KeptUnarmed(met) == ~armed

Kept(met) == ~armed \/ met

\* A sample is taken; if armed it is kept only when it meets the trigger, which
\* then is armed no more.
Sample ==
  /\ alive /\ Len(batch) < BatchSize
  /\ \E met \in (IF armed THEN BOOLEAN ELSE {FALSE}) :
       /\ (armed /\ mode = "none") => met
       /\ armed' = (armed /\ ~met)
       /\ batch' = IF Kept(met) THEN Append(batch, Place(met)) ELSE batch
       /\ near' = Kept(met)
       /\ fresh' = (fresh /\ armed /\ ~met)
  /\ UNCHANGED <<pc, sessions, captures, rate, trigger, ring, alive, sent, clean>>

\* The batch goes into the ring buffer, as much of it as there is room for.
BatchWrite ==
  LET n == Least(Len(batch), Capacity - Len(ring))
  IN  /\ alive /\ Len(batch) = BatchSize
      /\ ring' = ring \o SubSeq(batch, 1, n)
      /\ batch' = <<>>
      /\ near' = (near /\ n = BatchSize)
      /\ clean' = [d \in Clients |-> clean[d] /\ \A i \in n+1..BatchSize : batch[i] = "old"]
      /\ UNCHANGED <<pc, sessions, captures, rate, trigger, armed, fresh, alive, sent>>

Client(c) ==
  \/ Accept(c) \/ Close(c) \/ Reset(c) \/ Setting(c) \/ Param(c) \/ ParamCut(c)
  \/ Allocate(c) \/ SetRate(c) \/ CopyTrigger(c) \/ StoreArmed(c) \/ Arm(c)
  \/ CaptureRead(c) \/ CaptureEnd(c)

Next == (\E c \in Clients : Client(c)) \/ MainRead \/ Sample \/ BatchWrite

Spec == Init /\ [][Next]_vars

-------------------------------------------------------------------------------

Places == {"old", "first", "next", "gap"}

TypeOK ==
  /\ pc \in [Clients -> {"closed", "recv", "param", "last", "rate", "trigger", "store",
                         "arm", "capture"}]
  /\ cmd \in [Clients -> Settings \cup {"unknown", "none"}]
  /\ session \in [Clients -> [divider : Params, read_count : Params,
                              trigger_mask : 0..Octet-1, trigger_value : 0..Octet-1,
                              trigger_mode : 0..Octet-1]]
  /\ asked \in [Clients -> [Settings -> Params]]
  /\ want \in [Clients -> 0..MaxTarget] /\ got \in [Clients -> Seq(Places)]
  /\ \A c \in Clients : Len(got[c]) <= want[c]
  /\ rate \in 1..MaxRate
  /\ mode \in {"none", "rising", "falling", "high", "low"} /\ channel \in 0..Lines-1
  /\ armed \in BOOLEAN /\ alive \in BOOLEAN /\ sent \in 0..MaxSent
  /\ batch \in Seq(Places) /\ Len(batch) <= BatchSize
  /\ ring \in Seq(Places) /\ Len(ring) <= Capacity
  /\ fresh \in BOOLEAN /\ near \in BOOLEAN
  /\ clean \in [Clients -> BOOLEAN]

\* r is what a divider of d makes of the maximal rate, in whole numbers.
RateFor(d, r) == r * (d + 1) <= MaxRate /\ MaxRate < (r + 1) * (d + 1)

\* The trigger m on channel i is the one c has asked for: the lowest channel of
\* the octet of its mask, and the mode, or else the level in its value.
TriggerFor(c, m, i) ==
  LET mask == asked[c]["trigger_mask"] % Octet
      told == asked[c]["trigger_mode"] % Octet
  IN  /\ IF mask = 0 THEN i = 0 ELSE mask % 2^i = 0 /\ mask % 2^(i + 1) # 0
      /\ IF told \in 1..4 THEN m = <<"rising", "falling", "high", "low">>[told]
         ELSE IF mask = 0 THEN m = "none"
         ELSE m = IF Bit(asked[c]["trigger_value"], i) THEN "high" ELSE "low"

\* A capture that no other client has interfered with runs with the rate and
\* the trigger this client has asked for since it connected or sent RESET:
\* nothing is left of an earlier session, of a parameter that was cut short or
\* of what does not fit an octet.
AppliesWhatWasSent ==
  \A c \in Clients : (clean[c] /\ pc[c] = "capture") =>
    /\ RateFor(asked[c]["divider"], rate) \/ (rate = 1 /\ asked[c]["divider"] >= MaxRate)
    /\ TriggerFor(c, mode, channel)

\* A capture gives the samples that were there before its trigger was set, and
\* then the one that met the trigger and those that followed it, without a gap:
\* unless another client, main, a full ring buffer or the second arming has
\* come in the way.
BeginsAtTrigger ==
  \A c \in Clients : (clean[c] /\ pc[c] = "capture") =>
    LET g == got[c]
    IN  \A i \in DOMAIN g :
          \/ g[i] = "old" /\ \A j \in 1..i-1 : g[j] = "old"
          \/ g[i] = "first" /\ \A j \in 1..i-1 : g[j] = "old"
          \/ g[i] = "next" /\ i > 1 /\ g[i-1] \in {"first", "next"}

===============================================================================
