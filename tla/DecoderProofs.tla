---------------------------- MODULE DecoderProofs ----------------------------
(***************************************************************************)
(* The decoders report what the buses define to be in a capture: for all   *)
(* samples, all configurations and all sizes of the array of events.       *)
(*                                                                         *)
(* The decoders go through the samples with a few counters and shift       *)
(* registers, BusReading says of each sample by itself whether a byte ends *)
(* there.  The invariant that joins them is that the registers hold the    *)
(* last bits since the last break (I2cKnows, SpiKnows); the UART's search  *)
(* leaves only samples behind that are in no frame or in one that it has   *)
(* read (Clear).  Inductions are over subsets of Nat (CountUp).            *)
(***************************************************************************)
EXTENDS DecodeLoop, TLAPS, WellFoundedInduction, FiniteSetTheorems

-------------------------------------------------------------------------------
(* Induction, and functions that are defined by recursion.                  *)

\* A set of naturals with zero and every successor of its members is all of them.
LEMMA CountUp ==
  ASSUME NEW P, P \subseteq Nat, 0 \in P, \A n \in P : n + 1 \in P
  PROVE  P = Nat
  <1>1. CASE Nat \ P # {}
    <2>1. \E n \in Nat \ P : \A m \in Nat \ P : <<m, n>> \notin OpToRel(<, Nat)
      BY <1>1, WFMin, NatLessThanWellFounded, Zenon
    <2>2. PICK n \in Nat \ P : \A m \in Nat \ P : ~(m < n)
      BY <2>1, Zenon DEF OpToRel
    <2>3. n # 0 /\ n - 1 \in Nat /\ n - 1 < n /\ (n - 1) + 1 = n
      BY <2>2
    <2>4. n - 1 \in P
      BY <2>2, <2>3
    <2> QED
      BY <2>2, <2>3, <2>4
  <1>2. CASE Nat \ P = {}
    BY <1>2
  <1> QED
    BY <1>1, <1>2

\* f follows the recursion up to n.
Follows(f, n, e, G) == f[0] = e /\ \A i \in Nat : i < n => f[i + 1] = G[i + 1][f[i]]

\* What follows a recursion so far can be continued by one step.
LEMMA Longer ==
  ASSUME NEW S, NEW e \in S, NEW G \in [Nat -> [S -> S]], NEW n \in Nat,
         NEW f \in [0..n -> S], Follows(f, n, e, G)
  PROVE  \E g \in [0..n+1 -> S] : Follows(g, n + 1, e, G)
  <1> DEFINE g == [i \in 0..n+1 |-> IF i = n + 1 THEN G[n + 1][f[n]] ELSE f[i]]
  <1>1. n + 1 \in Nat /\ n \in 0..n /\ f[n] \in S
    OBVIOUS
  <1>2. G[n + 1][f[n]] \in S
    BY <1>1
  <1>3. \A i \in 0..n+1 : i # n + 1 => i \in 0..n
    OBVIOUS
  <1>4. g \in [0..n+1 -> S]
    BY <1>2, <1>3
  <1>5. g[0] = e /\ g[n + 1] = G[n + 1][f[n]] /\ \A i \in 0..n : g[i] = f[i]
    BY <1>3 DEF Follows
  <1> HIDE DEF g
  <1>6. ASSUME NEW i \in Nat, i < n + 1 PROVE g[i + 1] = G[i + 1][g[i]]
    <2>1. CASE i = n
      BY <1>1, <1>5, <2>1
    <2>2. CASE i # n
      <3>1. i < n /\ i \in 0..n /\ i + 1 \in 0..n
        BY <2>2, <1>6
      <3> QED
        BY <1>5, <3>1 DEF Follows
    <2> QED
      BY <2>1, <2>2
  <1>7. Follows(g, n + 1, e, G)
    BY <1>5, <1>6 DEF Follows
  <1> QED
    BY <1>4, <1>7

\* Two functions that follow the same recursion agree.
LEMMA SameRun ==
  ASSUME NEW e, NEW G, NEW n \in Nat, NEW m \in Nat, NEW f, NEW g, Follows(f, n, e, G), Follows(g, m, e, G)
  PROVE  \A i \in Nat : i <= n /\ i <= m => f[i] = g[i]
  <1> DEFINE Q == {i \in Nat : i <= n /\ i <= m => f[i] = g[i]}
  <1>1. 0 \in Q
    BY DEF Follows
  <1>2. ASSUME NEW i \in Q PROVE i + 1 \in Q
    <2>1. i \in Nat /\ i + 1 \in Nat /\ (i <= n /\ i <= m => f[i] = g[i])
      OBVIOUS
    <2>2. i + 1 <= n /\ i + 1 <= m => i < n /\ i < m /\ f[i] = g[i]
      BY <2>1
    <2>3. i + 1 <= n /\ i + 1 <= m => f[i + 1] = g[i + 1]
      BY <2>1, <2>2 DEF Follows
    <2> QED
      BY <2>1, <2>3
  <1> HIDE DEF Q
  <1>3. Q \subseteq Nat
    BY DEF Q
  <1>4. Q = Nat
    BY <1>1, <1>2, <1>3, CountUp, Zenon
  <1> QED
    BY <1>4 DEF Q

\* The functions that follow it all the way.
Runs(S, e, G) == {f \in [Nat -> S] : f[0] = e /\ \A i \in Nat : f[i + 1] = G[i + 1][f[i]]}

\* A step function on S has a run from e on: recursion over Nat is well defined.
LEMMA RunExists ==
  ASSUME NEW S, NEW e \in S, NEW G \in [Nat -> [S -> S]]
  PROVE  Runs(S, e, G) # {}
  <1> DEFINE P == {n \in Nat : \E f \in [0..n -> S] : Follows(f, n, e, G)}
  <1>1. 0 \in P
    <2>1. [i \in 0..0 |-> e] \in [0..0 -> S] /\ Follows([i \in 0..0 |-> e], 0, e, G)
      BY DEF Follows
    <2> QED
      BY <2>1
  <1>2. ASSUME NEW n \in P PROVE n + 1 \in P
    <2>1. n \in Nat /\ n + 1 \in Nat
      OBVIOUS
    <2>2. PICK f \in [0..n -> S] : Follows(f, n, e, G)
      OBVIOUS
    <2>3. \E g \in [0..n+1 -> S] : Follows(g, n + 1, e, G)
      BY <2>1, <2>2, Longer
    <2> QED
      BY <2>1, <2>3
  <1>3. P \subseteq Nat
    OBVIOUS
  <1>4. P = Nat
    <2> HIDE DEF P
    <2> QED
      BY <1>1, <1>2, <1>3, CountUp, Zenon
  <1> DEFINE h(n) == CHOOSE f : f \in [0..n -> S] /\ Follows(f, n, e, G)
             r == [n \in Nat |-> h(n)[n]]
  <1>5. ASSUME NEW n \in Nat PROVE h(n) \in [0..n -> S] /\ Follows(h(n), n, e, G)
    <2>1. \E f : f \in [0..n -> S] /\ Follows(f, n, e, G)
      BY <1>4
    <2> QED
      BY <2>1, Zenon
  <1> HIDE DEF h, P
  <1>6. \A n \in Nat : n \in 0..n /\ h(n)[n] \in S
    BY <1>5
  <1>7. r \in [Nat -> S]
    BY <1>6
  <1>8. r[0] = e
    BY <1>5 DEF Follows
  <1>9. ASSUME NEW i \in Nat PROVE r[i + 1] = G[i + 1][r[i]]
    <2>1. h(i + 1)[i + 1] = G[i + 1][h(i + 1)[i]]
      <3>1. Follows(h(i + 1), i + 1, e, G)
        BY <1>5
      <3> QED
        BY <3>1 DEF Follows
    <2>2. h(i + 1)[i] = h(i)[i]
      <3>1. Follows(h(i + 1), i + 1, e, G) /\ Follows(h(i), i, e, G)
        BY <1>5
      <3> QED
        BY <3>1, SameRun
    <2> QED
      BY <2>1, <2>2
  <1> QED
    BY <1>7, <1>8, <1>9 DEF Runs

-------------------------------------------------------------------------------
(* What has come since the last break, and the byte in the last bits of it. *)

\* A break cuts off everything, its own tick too.
LEMMA SinceBreak ==
  ASSUME NEW T \in SUBSET Nat, NEW R, NEW i \in R, i \in Nat
  PROVE  Since(T, R, i) = {}
  BY DEF Since

\* A tick adds itself to what no break has cut off.
LEMMA SinceTick ==
  ASSUME NEW T \in SUBSET Nat, NEW R \in SUBSET Nat, NEW i \in Nat, i + 1 \in T, i + 1 \notin R
  PROVE  Since(T, R, i + 1) = Since(T, R, i) \cup {i + 1}
  <1>1. \A r \in R : r <= i + 1 => r <= i
    OBVIOUS
  <1>2. \A j \in T : j <= i + 1 <=> (j <= i \/ j = i + 1)
    OBVIOUS
  <1>3. \A j \in T : j \in Since(T, R, i + 1) <=> j \in Since(T, R, i) \cup {i + 1}
    BY <1>1, <1>2 DEF Since
  <1>4. Since(T, R, i + 1) \subseteq T /\ Since(T, R, i) \cup {i + 1} \subseteq T
    BY DEF Since
  <1> QED
    BY <1>3, <1>4

\* A sample that is neither changes nothing.
LEMMA SinceQuiet ==
  ASSUME NEW T \in SUBSET Nat, NEW R \in SUBSET Nat, NEW i \in Nat, i + 1 \notin T, i + 1 \notin R
  PROVE  Since(T, R, i + 1) = Since(T, R, i)
  <1>1. \A r \in R : r <= i + 1 => r <= i
    OBVIOUS
  <1>2. \A j \in T : j <= i + 1 <=> j <= i
    OBVIOUS
  <1>3. \A j \in T : j \in Since(T, R, i + 1) <=> j \in Since(T, R, i)
    BY <1>1, <1>2 DEF Since
  <1> QED
    BY <1>3 DEF Since

\* t is a list of the c members of A, the smallest first.
Lined(t, c, A) ==
  /\ c \in Nat /\ t \in [1..c -> A] /\ A \subseteq Nat
  /\ \A a \in A : \E k \in 1..c : t[k] = a
  /\ \A k, m \in 1..c : k < m => t[k] < t[m]

\* A list has as many members as its set, and the k-th is above k of them.
LEMMA LinedCount ==
  ASSUME NEW A, NEW c, NEW t, Lined(t, c, A)
  PROVE  /\ Cardinality(A) = c
         /\ \A k \in 1..c : Cardinality({l \in A : l <= t[k]}) = k
  <1> USE DEF Lined
  <1>1. ASSUME NEW k \in 0..c PROVE Cardinality({a \in A : \E m \in 1..k : t[m] = a}) = k
    <2> DEFINE B == {a \in A : \E m \in 1..k : t[m] = a}
               g == [m \in 1..k |-> t[m]]
    <2>1. \A m, n \in 1..k : t[m] \in Nat /\ t[m] \in A /\ (t[m] = t[n] => m = n)
      <3>1. 1..k \subseteq 1..c
        OBVIOUS
      <3>2. ASSUME NEW m \in 1..k, NEW n \in 1..k, t[m] = t[n] PROVE m = n
        <4>1. m \in 1..c /\ n \in 1..c /\ t[m] \in Nat /\ t[n] \in Nat
          BY <3>1
        <4>2. ~(m < n) /\ ~(n < m)
          BY <3>2, <4>1
        <4> QED
          BY <4>1, <4>2
      <3> QED
        BY <3>1, <3>2
    <2>2. g \in Injection(1..k, B)
      BY <2>1 DEF Injection, IsInjective
    <2>3. g \in Surjection(1..k, B)
      BY <2>1 DEF Surjection
    <2>4. ExistsBijection(1..k, B)
      BY <2>2, <2>3 DEF ExistsBijection, Bijection
    <2> QED
      BY <2>4, FS_CountingElements
  <1>2. A = {a \in A : \E m \in 1..c : t[m] = a}
    OBVIOUS
  <1>3. ASSUME NEW k \in 1..c PROVE {l \in A : l <= t[k]} = {a \in A : \E m \in 1..k : t[m] = a}
    <2>1. ASSUME NEW a \in A, a <= t[k] PROVE \E m \in 1..k : t[m] = a
      <3>1. PICK m \in 1..c : t[m] = a
        OBVIOUS
      <3>2. t[k] \in Nat /\ t[m] \in Nat /\ (k < m => t[k] < t[m])
        OBVIOUS
      <3>4. ~(k < m)
        BY <2>1, <3>1, <3>2
      <3>3. m \in 1..k
        BY <3>4
      <3> QED
        BY <3>1, <3>3
    <2>2. ASSUME NEW m \in 1..k PROVE t[m] <= t[k]
      <3>1. m \in 1..c /\ (m = k \/ m < k)
        OBVIOUS
      <3>2. t[m] \in Nat /\ t[k] \in Nat
        BY <3>1
      <3> QED
        BY <3>1, <3>2
    <2> QED
      BY <2>1, <2>2
  <1>4. c \in 0..c /\ \A k \in 1..c : k \in 0..c
    OBVIOUS
  <1>5. Cardinality(A) = c
    BY <1>1, <1>2, <1>4
  <1>6. ASSUME NEW k \in 1..c PROVE Cardinality({l \in A : l <= t[k]}) = k
    BY <1>1, <1>3, <1>4
  <1> QED
    BY <1>5, <1>6

\* So it lists the ticks that BusReading counts.
LEMMA LinedTick ==
  ASSUME NEW T, NEW R, NEW i, NEW c, NEW t, Lined(t, c, Since(T, R, i)), NEW n \in 1..c
  PROVE  Tick(T, R, i, n) = t[n]
  <1> DEFINE A == Since(T, R, i)
  <1>1. \A k \in 1..c : Cardinality({l \in A : l <= t[k]}) = k
    BY LinedCount
  <1>2. t[n] \in A /\ \A j \in A : Cardinality({l \in A : l <= j}) = n => j = t[n]
    BY <1>1 DEF Lined
  <1>3. t[n] \in A /\ Cardinality({l \in A : l <= t[n]}) = n
    BY <1>1, <1>2
  <1> QED
    BY <1>2, <1>3, Zenon DEF Tick

\* A list goes on with a greater member.
LEMMA LinedMore ==
  ASSUME NEW A, NEW c, NEW t, Lined(t, c, A), NEW i \in Nat, \A a \in A : a < i
  PROVE  Lined([k \in 1..c+1 |-> IF k = c + 1 THEN i ELSE t[k]], c + 1, A \cup {i})
  <1> DEFINE u == [k \in 1..c+1 |-> IF k = c + 1 THEN i ELSE t[k]]
  <1> USE DEF Lined
  <1>1. c + 1 \in Nat /\ c + 1 \in 1..c+1 /\ \A k \in 1..c+1 : k # c + 1 => k \in 1..c
    OBVIOUS
  <1>2. u[c + 1] = i /\ \A k \in 1..c : k \in 1..c+1 /\ k # c + 1 /\ u[k] = t[k] /\ t[k] \in A
    OBVIOUS
  <1>3. u \in [1..c+1 -> A \cup {i}]
    BY <1>1
  <1>4. \A a \in A \cup {i} : \E k \in 1..c+1 : u[k] = a
    BY <1>1, <1>2
  <1>5. ASSUME NEW k \in 1..c+1, NEW m \in 1..c+1, k < m PROVE u[k] < u[m]
    <2>1. k \in 1..c
      BY <1>5
    <2> QED
      BY <1>1, <1>2, <1>5, <2>1
  <1> QED
    BY <1>1, <1>3, <1>4, <1>5

\* The byte that the last r of the bits read at the ticks t[1], .., t[c] make.
Low(level, t, c, r) ==
  LET bit(j) == IF j < r THEN level[t[c - j]] ELSE 0
  IN  128 * bit(7) + 64 * bit(6) + 32 * bit(5) + 16 * bit(4)
        + 8 * bit(3) + 4 * bit(2) + 2 * bit(1) + bit(0)

\* No bits make zero.
LEMMA LowNone == ASSUME NEW level, NEW t, NEW c PROVE Low(level, t, c, 0) = 0
  BY DEF Low

\* u goes on where t ends, and all bits up to there are bits.
Extends(u, t, c) == \A k \in 1..c : u[k] = t[k]
AreBits(level, t, c) == \A k \in 1..c : level[t[k]] \in 0..1

\* The byte depends on the first c ticks only.
LEMMA LowSame ==
  ASSUME NEW level, NEW t, NEW u, NEW c \in Nat, NEW r \in 0..8, r <= c, Extends(u, t, c)
  PROVE  Low(level, u, c, r) = Low(level, t, c, r)
  <1>1. \A j \in 0..7 : j < r => c - j \in 1..c
    OBVIOUS
  <1> QED
    BY <1>1 DEF Low, Extends

\* One more bit is shifted in at the low end (ShiftIn of the decoders).
LEMMA LowShift ==
  ASSUME NEW level, NEW t, NEW u, NEW c \in Nat, NEW r \in 0..7, r <= c,
         Extends(u, t, c), AreBits(level, t, c), level[u[c + 1]] \in 0..1
  PROVE  /\ Low(level, t, c, r) \in 0..255
         /\ Low(level, u, c + 1, r + 1) = ShiftIn(Low(level, t, c, r), level[u[c + 1]])
  <1> DEFINE bit(j) == IF j < r THEN level[t[c - j]] ELSE 0
             next(j) == IF j < r + 1 THEN level[u[(c + 1) - j]] ELSE 0
  <1>1. \A j \in 0..7 : j < r => c - j \in 1..c
    OBVIOUS
  <1>2. \A j \in 0..7 : bit(j) \in 0..1
    BY <1>1 DEF Extends, AreBits
  <1>3. next(0) = level[u[c + 1]]
    OBVIOUS
  <1>4. ASSUME NEW j \in 0..6 PROVE next(j + 1) = bit(j)
    <2>1. (c + 1) - (j + 1) = c - j /\ (j + 1 < r + 1 <=> j < r)
      OBVIOUS
    <2> QED
      BY <1>1, <2>1 DEF Extends
  <1>5. bit(7) = 0
    OBVIOUS
  <1>6. Low(level, t, c, r) = 128 * bit(7) + 64 * bit(6) + 32 * bit(5) + 16 * bit(4)
                                + 8 * bit(3) + 4 * bit(2) + 2 * bit(1) + bit(0)
    BY DEF Low
  <1>7. Low(level, u, c + 1, r + 1) = 128 * next(7) + 64 * next(6) + 32 * next(5) + 16 * next(4)
                                        + 8 * next(3) + 4 * next(2) + 2 * next(1) + next(0)
    BY DEF Low
  <1> HIDE DEF bit, next
  <1>8. Low(level, t, c, r) \in 0..127
    BY <1>2, <1>5, <1>6
  <1>9. next(1) = bit(0) /\ next(2) = bit(1) /\ next(3) = bit(2) /\ next(4) = bit(3) /\ next(5) = bit(4)
        /\ next(6) = bit(5) /\ next(7) = bit(6)
    <2>1. 0 + 1 = 1 /\ 1 + 1 = 2 /\ 2 + 1 = 3 /\ 3 + 1 = 4 /\ 4 + 1 = 5 /\ 5 + 1 = 6 /\ 6 + 1 = 7
      OBVIOUS
    <2> QED
      BY <1>4, <2>1
  <1>10. Low(level, u, c + 1, r + 1) = 2 * Low(level, t, c, r) + level[u[c + 1]]
    <2>1. /\ bit(0) \in 0..1 /\ bit(1) \in 0..1 /\ bit(2) \in 0..1 /\ bit(3) \in 0..1 /\ bit(4) \in 0..1
          /\ bit(5) \in 0..1 /\ bit(6) \in 0..1 /\ next(0) \in 0..1
      BY <1>2, <1>3
    <2> QED
      BY <2>1, <1>3, <1>5, <1>6, <1>7, <1>9
  <1> QED
    BY <1>8, <1>10 DEF ShiftIn

\* The byte of a word is the one in the first eight of its bits.
LEMMA WordByte ==
  ASSUME NEW level, NEW T, NEW R, NEW i, NEW c, NEW t, Lined(t, c, Since(T, R, i)),
         NEW size \in Nat, size >= 8, size <= c
  PROVE  ByteAt(level, T, R, size, i) = Low(level, t, (c - size) + 8, 8)
  <1>1. Count(T, R, i) = c /\ c \in Nat
    <2>1. Cardinality(Since(T, R, i)) = c
      BY LinedCount, Zenon
    <2> QED
      BY <2>1 DEF Count, Lined
  <1>2. ASSUME NEW k \in 1..8 PROVE Tick(T, R, i, (c - size) + k) = t[(c - size) + k]
    <2>1. (c - size) + k \in 1..c
      BY <1>1
    <2> QED
      BY <2>1, LinedTick
  <1> DEFINE bits == [k \in 1..8 |-> level[Tick(T, R, i, (c - size) + k)]]
  <1>3. ByteAt(level, T, R, size, i) = ByteOf(bits)
    BY <1>1, Zenon DEF ByteAt
  <1>4. \A k \in 1..8 : bits[k] = level[t[(c - size) + k]]
    BY <1>2
  <1> HIDE DEF bits
  <1> DEFINE d == c - size
  <1>5. /\ (d + 8) - 0 = d + 8 /\ (d + 8) - 1 = d + 7 /\ (d + 8) - 2 = d + 6 /\ (d + 8) - 3 = d + 5
        /\ (d + 8) - 4 = d + 4 /\ (d + 8) - 5 = d + 3 /\ (d + 8) - 6 = d + 2 /\ (d + 8) - 7 = d + 1
    BY <1>1
  <1>6. Low(level, t, d + 8, 8) = 128 * level[t[d + 1]] + 64 * level[t[d + 2]] + 32 * level[t[d + 3]]
                                  + 16 * level[t[d + 4]] + 8 * level[t[d + 5]] + 4 * level[t[d + 6]]
                                  + 2 * level[t[d + 7]] + level[t[d + 8]]
    BY <1>5 DEF Low
  <1> QED
    BY <1>3, <1>4, <1>6 DEF ByteOf

\* The empty list.
LEMMA LinedNone == ASSUME NEW t \in [1..0 -> {}] PROVE Lined(t, 0, {})
  BY DEF Lined

\* The last r of the c bits since the last break make byte.
Holds(level, T, R, i, c, r, byte) ==
  \E t : Lined(t, c, Since(T, R, i)) /\ byte = Low(level, t, c, r)

\* One more bit.
LEMMA HoldsBit ==
  ASSUME NEW T \in SUBSET Nat, NEW R \in SUBSET Nat, NEW i \in Nat, i + 1 \in T, i + 1 \notin R,
         NEW level, \A j \in T : level[j] \in 0..1,
         NEW c \in Nat, NEW r \in 0..7, r <= c, NEW byte, Holds(level, T, R, i, c, r, byte)
  PROVE  /\ Count(T, R, i + 1) = c + 1
         /\ Holds(level, T, R, i + 1, c + 1, r + 1, ShiftIn(byte, level[i + 1]))
  <1>1. PICK t : Lined(t, c, Since(T, R, i)) /\ byte = Low(level, t, c, r)
    BY Zenon DEF Holds
  <1> DEFINE u == [k \in 1..c+1 |-> IF k = c + 1 THEN i + 1 ELSE t[k]]
  <1>2. \A a \in Since(T, R, i) : a \in T /\ a < i + 1
    BY DEF Since
  <1>3. Since(T, R, i + 1) = Since(T, R, i) \cup {i + 1}
    BY SinceTick
  <1>4. Lined(u, c + 1, Since(T, R, i + 1))
    <2>1. i + 1 \in Nat /\ \A a \in Since(T, R, i) : a < i + 1
      BY <1>2
    <2>2. Lined(u, c + 1, Since(T, R, i) \cup {i + 1})
      BY <1>1, <2>1, LinedMore, Zenon
    <2> QED
      BY <1>3, <2>2
  <1>5. \A k \in 1..c : t[k] \in T
    BY <1>1, <1>2 DEF Lined
  <1>6. u[c + 1] = i + 1 /\ Extends(u, t, c) /\ AreBits(level, t, c)
    <2>1. AreBits(level, t, c)
      BY <1>5 DEF AreBits
    <2>2. Extends(u, t, c)
      BY DEF Extends
    <2> QED
      BY <2>1, <2>2
  <1> HIDE DEF u
  <1>7. level[u[c + 1]] \in 0..1 /\ level[u[c + 1]] = level[i + 1]
    BY <1>6
  <1>8. Low(level, u, c + 1, r + 1) = ShiftIn(byte, level[i + 1])
    <2>1. Low(level, u, c + 1, r + 1) = ShiftIn(Low(level, t, c, r), level[u[c + 1]])
      BY <1>6, <1>7, LowShift
    <2> QED
      BY <1>1, <1>7, <2>1
  <1>9. Cardinality(Since(T, R, i + 1)) = c + 1
    BY <1>4, LinedCount, Zenon
  <1>10. Holds(level, T, R, i + 1, c + 1, r + 1, ShiftIn(byte, level[i + 1]))
    BY <1>4, <1>8, Zenon DEF Holds
  <1> QED
    BY <1>9, <1>10 DEF Count

\* The bit that acknowledges a byte.
LEMMA HoldsAck ==
  ASSUME NEW T \in SUBSET Nat, NEW R \in SUBSET Nat, NEW i \in Nat, i + 1 \in T, i + 1 \notin R,
         NEW level, NEW c \in Nat, c >= 8, NEW byte, Holds(level, T, R, i, c, 8, byte)
  PROVE  /\ Count(T, R, i + 1) = c + 1
         /\ ByteAt(level, T, R, 9, i + 1) = byte
         /\ Holds(level, T, R, i + 1, c + 1, 0, 0)
  <1>1. PICK t : Lined(t, c, Since(T, R, i)) /\ byte = Low(level, t, c, 8)
    BY Zenon DEF Holds
  <1> DEFINE u == [k \in 1..c+1 |-> IF k = c + 1 THEN i + 1 ELSE t[k]]
  <1>2. \A a \in Since(T, R, i) : a \in T /\ a < i + 1
    BY DEF Since
  <1>3. Since(T, R, i + 1) = Since(T, R, i) \cup {i + 1}
    BY SinceTick
  <1>4. Lined(u, c + 1, Since(T, R, i + 1))
    <2>1. i + 1 \in Nat /\ \A a \in Since(T, R, i) : a < i + 1
      BY <1>2
    <2>2. Lined(u, c + 1, Since(T, R, i) \cup {i + 1})
      BY <1>1, <2>1, LinedMore, Zenon
    <2> QED
      BY <1>3, <2>2
  <1>5. Extends(u, t, c)
    BY DEF Extends
  <1> HIDE DEF u
  <1>6. Low(level, u, c, 8) = byte
    <2>1. 8 \in 0..8
      OBVIOUS
    <2> QED
      BY <1>1, <1>5, <2>1, LowSame, ZenonT(60)
  <1>7. ByteAt(level, T, R, 9, i + 1) = byte
    <2>1. 9 \in Nat /\ 9 >= 8 /\ 9 <= c + 1 /\ ((c + 1) - 9) + 8 = c
      OBVIOUS
    <2>2. ByteAt(level, T, R, 9, i + 1) = Low(level, u, ((c + 1) - 9) + 8, 8)
      BY <1>4, <2>1, WordByte
    <2> QED
      BY <1>6, <2>1, <2>2
  <1>8. Cardinality(Since(T, R, i + 1)) = c + 1
    BY <1>4, LinedCount, Zenon
  <1>9. Holds(level, T, R, i + 1, c + 1, 0, 0)
    BY <1>4, LowNone, Zenon DEF Holds
  <1> QED
    BY <1>7, <1>8, <1>9 DEF Count

\* Eight bits that end at sample i are the byte there.
LEMMA HoldsWord ==
  ASSUME NEW T, NEW R, NEW i, NEW level, NEW c \in Nat, c >= 8, NEW byte, Holds(level, T, R, i, c, 8, byte)
  PROVE  ByteAt(level, T, R, 8, i) = byte
  <1>1. PICK t : Lined(t, c, Since(T, R, i)) /\ byte = Low(level, t, c, 8)
    BY Zenon DEF Holds
  <1>2. 8 \in Nat /\ 8 >= 8 /\ 8 <= c /\ (c - 8) + 8 = c
    OBVIOUS
  <1>3. ByteAt(level, T, R, 8, i) = Low(level, t, (c - 8) + 8, 8)
    BY <1>1, <1>2, WordByte
  <1> QED
    BY <1>1, <1>2, <1>3

\* What no bit has been read of.
LEMMA HoldsNothing ==
  ASSUME NEW T, NEW R, NEW i, NEW level, Since(T, R, i) = {}
  PROVE  Holds(level, T, R, i, 0, 0, 0)
  <1>1. [k \in 1..0 |-> 0] \in [1..0 -> {}]
    OBVIOUS
  <1>2. Lined([k \in 1..0 |-> 0], 0, Since(T, R, i))
    BY <1>1, LinedNone
  <1> QED
    BY <1>2, LowNone, Zenon DEF Holds

\* A sample that is neither a tick nor a break.
LEMMA HoldsStill ==
  ASSUME NEW T \in SUBSET Nat, NEW R \in SUBSET Nat, NEW i \in Nat, i + 1 \notin T, i + 1 \notin R,
         NEW level, NEW c, NEW r, NEW byte
  PROVE  Holds(level, T, R, i + 1, c, r, byte) <=> Holds(level, T, R, i, c, r, byte)
  <1>1. Since(T, R, i + 1) = Since(T, R, i)
    BY SinceQuiet
  <1> QED
    BY <1>1 DEF Holds

-------------------------------------------------------------------------------
(* Reports that grow with the samples.                                      *)

\* The bytes that end up to sample i.
UpTo(bytes, i) == {b \in bytes : b.at <= i}

\* A sample without a byte adds nothing to a report.
LEMMA ReportsQuiet ==
  ASSUME NEW list, NEW B, NEW max, NEW i \in Nat, \A b \in B : b.at \in Nat /\ b.at # i + 1,
         Reports(list, UpTo(B, i), max)
  PROVE  Reports(list, UpTo(B, i + 1), max)
  <1>1. UpTo(B, i + 1) = UpTo(B, i)
    BY DEF UpTo
  <1> QED
    BY <1>1

\* A report that is full stays one.
LEMMA ReportsFull ==
  ASSUME NEW E, NEW list \in Seq(E), NEW B, NEW max \in Nat, NEW i \in Nat, \A b \in B : b.at \in Nat,
         Reports(list, UpTo(B, i), max), ~(Len(list) < max)
  PROVE  Reports(list, UpTo(B, i + 1), max)
  <1>1. Len(list) = max
    BY DEF Reports
  <1>2. UpTo(B, i) \subseteq UpTo(B, i + 1)
    BY DEF UpTo
  <1>3. \A b \in UpTo(B, i + 1) \ UpTo(B, i) : b.at = i + 1
    BY DEF UpTo
  <1>4. \A k \in DOMAIN list : list[k].at \in Nat /\ list[k].at < i + 1
    BY DEF Reports, UpTo
  <1>5. \A b \in UpTo(B, i + 1) : \/ \E k \in DOMAIN list : list[k] = b
                                  \/ Len(list) = max /\ \A k \in DOMAIN list : list[k].at < b.at
    BY <1>1, <1>3, <1>4 DEF Reports
  <1> QED
    BY <1>1, <1>2, <1>5 DEF Reports

\* A byte that ends at the next sample is appended.
LEMMA ReportsMore ==
  ASSUME NEW E, NEW list \in Seq(E), NEW B, NEW max \in Nat, NEW i \in Nat, \A b \in B : b.at \in Nat,
         Reports(list, UpTo(B, i), max), Len(list) < max,
         NEW b \in B, b \in E, b.at = i + 1, \A a \in B : a.at = i + 1 => a = b
  PROVE  Reports(Append(list, b), UpTo(B, i + 1), max)
  <1> DEFINE n == Len(list)
             more == Append(list, b)
  <1>1. n \in Nat /\ Len(more) = n + 1 /\ DOMAIN more = 1..n+1 /\ DOMAIN list = 1..n /\ more[n + 1] = b
        /\ \A k \in 1..n : more[k] = list[k]
    OBVIOUS
  <1> HIDE DEF more
  <1>2. \A k \in 1..n : list[k] \in UpTo(B, i) /\ list[k].at \in Nat /\ list[k].at < i + 1
    <2>1. \A k \in 1..n : list[k] \in UpTo(B, i)
      BY <1>1 DEF Reports
    <2>2. \A a \in UpTo(B, i) : a.at \in Nat /\ a.at < i + 1
      BY DEF UpTo
    <2> QED
      BY <2>1, <2>2
  <1>3. \A k \in 1..n+1 : k \in 1..n \/ k = n + 1
    BY <1>1
  <1>4. ASSUME NEW k \in 1..n+1, NEW l \in 1..n+1, k < l PROVE more[k].at < more[l].at
    <2>1. k \in 1..n
      BY <1>1, <1>4
    <2>2. CASE l = n + 1
      BY <1>1, <1>2, <2>1, <2>2
    <2>3. CASE l \in 1..n
      BY <1>1, <1>4, <2>1, <2>3 DEF Reports
    <2> QED
      BY <1>3, <2>2, <2>3
  <1>5. \A k \in 1..n+1 : more[k] \in UpTo(B, i + 1)
    BY <1>1, <1>2, <1>3 DEF UpTo
  <1>6. ASSUME NEW a \in UpTo(B, i + 1) PROVE \E k \in 1..n+1 : more[k] = a
    <2>1. CASE a \in UpTo(B, i)
      <3>1. (\E k \in DOMAIN list : list[k] = a) \/ Len(list) = max
        BY <2>1, Zenon DEF Reports
      <3>2. PICK k \in DOMAIN list : list[k] = a
        BY <3>1
      <3>3. k \in 1..n /\ k \in 1..n+1
        BY <1>1, <3>2
      <3>4. more[k] = a
        BY <1>1, <3>2, <3>3
      <3> QED
        BY <3>3, <3>4
    <2>2. CASE a \notin UpTo(B, i)
      <3>1. a \in B /\ a.at \in Nat /\ a.at <= i + 1 /\ ~(a.at <= i)
        BY <2>2 DEF UpTo
      <3>2. a.at = i + 1
        BY <3>1
      <3>3. a = b
        BY <3>1, <3>2
      <3> QED
        BY <1>3, <1>1, <3>3
    <2> QED
      BY <2>1, <2>2
  <1>7. Len(more) <= max
    BY <1>1
  <1> QED
    BY <1>1, <1>4, <1>5, <1>6, <1>7 DEF Reports, more

\* Of nothing, nothing is reported.
LEMMA ReportsNone == ASSUME NEW max \in Nat PROVE Reports(<<>>, {}, max)
  BY DEF Reports

-------------------------------------------------------------------------------
(* I2C                                                                      *)

\* The types of the decoder's events and state.
I2cEvent == [at : Nat, value0 : 0..255, value1 : 0..1]
I2cState == [active : BOOLEAN, bit_count : 0..7, current : 0..255, expect_ack : BOOLEAN,
             events : Seq(I2cEvent)]

\* A byte stays one.
LEMMA ShiftType ==
  ASSUME NEW byte \in 0..255, NEW bit \in 0..1
  PROVE  ShiftIn(byte, bit) \in 0..255
  <1>1. 2 * byte + bit \in Nat
    OBVIOUS
  <1> QED
    BY <1>1 DEF ShiftIn

\* The fields of the I2C decoder's state.
LEMMA I2cFields ==
  ASSUME NEW s \in I2cState
  PROVE  s.bit_count \in 0..7 /\ s.current \in 0..255 /\ s.events \in Seq(I2cEvent)
  BY DEF I2cState

\* A step of the I2C decoder keeps its types.
LEMMA I2cStepType ==
  ASSUME NEW s \in I2cState, NEW prev, NEW curr, NEW cfg, NEW i \in Nat
  PROVE  I2cStep(s, prev, curr, cfg, i) \in I2cState
  <1>1. ASSUME NEW ch PROVE Bit(curr, ch) \in 0..1 /\ 1 - Bit(curr, ch) \in 0..1
    BY DEF Bit
  <1>2. 0 \in 0..7 /\ 0 \in 0..255
    OBVIOUS
  <1>3. I2cStart(s) \in I2cState /\ I2cStop(s) \in I2cState
    BY <1>2, ZenonT(60) DEF I2cStart, I2cStop, I2cState
  <1>4. ASSUME NEW sda \in 0..1 PROVE I2cBit(s, sda) \in I2cState
    <2>1. ShiftIn(s.current, sda) \in 0..255
      BY <1>4, I2cFields, ShiftType
    <2>2. (s.bit_count + 1) % 8 \in 0..7
      BY I2cFields
    <2> QED
      BY <2>1, <2>2, Zenon DEF I2cBit, I2cState
  <1>5. ASSUME NEW sda \in 0..1 PROVE I2cAck(s, sda, i) \in I2cState
    <2>1. [at |-> i, value0 |-> s.current, value1 |-> 1 - sda] \in I2cEvent
      BY <1>5, I2cFields DEF I2cEvent
    <2>2. Append(s.events, [at |-> i, value0 |-> s.current, value1 |-> 1 - sda]) \in Seq(I2cEvent)
      BY <2>1, I2cFields
    <2> QED
      BY <1>2, <2>2, Zenon DEF I2cAck, I2cState
  <1> QED
    BY <1>1, <1>3, <1>4, <1>5, Zenon DEF I2cStep

\* a holds the states that the I2C decoder goes through.
I2cRun(a, samples, cfg, max) ==
  /\ a[0] = I2cIdle
  /\ \A i \in Nat : a[i + 1] = IF Len(a[i].events) < max
                               THEN I2cStep(a[i], samples[i], samples[i + 1], cfg, i + 1)
                               ELSE a[i]

\* The decoder has such a run, and reports what is in its last state.
LEMMA I2cRuns ==
  ASSUME NEW samples, NEW count \in Nat \ {0}, NEW cfg, NEW max \in Nat,
         {cfg.scl_channel, cfg.sda_channel} \subseteq Channels
  PROVE  \E a \in [Nat -> I2cState] :
           /\ I2cRun(a, samples, cfg, max)
           /\ EdtDecodeI2c(samples, count, cfg, max) = a[count - 1].events
  <1> DEFINE step(s, i) == I2cStep(s, samples[i - 1], samples[i], cfg, i)
             turn(s, i) == IF Len(s.events) < max THEN step(s, i) ELSE s
             Eq(a) == a = [i \in Nat |-> IF i = 0 THEN I2cIdle
                                         ELSE LET s == a[i - 1]
                                              IN  IF Len(s.events) < max THEN step(s, i) ELSE s]
             after == CHOOSE a : Eq(a)
  <1>1. EdtDecodeI2c(samples, count, cfg, max) = after[count - 1].events
    BY DEF EdtDecodeI2c, RunOver
  <1>2. I2cIdle \in I2cState
    BY DEF I2cIdle, I2cState
  <1> HIDE DEF step
  <1>3. \A s \in I2cState, i \in Nat : turn(s, i) \in I2cState
    BY I2cStepType DEF step
  <1> HIDE DEF turn, Eq, after
  <1>4. PICK G \in [Nat -> [I2cState -> I2cState]] : \A s \in I2cState, i \in Nat : G[i][s] = turn(s, i)
    <2> DEFINE H == [i \in Nat |-> [s \in I2cState |-> turn(s, i)]]
    <2>1. H \in [Nat -> [I2cState -> I2cState]] /\ \A s \in I2cState, i \in Nat : H[i][s] = turn(s, i)
      BY <1>3
    <2> QED
      BY <2>1
  <1>5. PICK f \in [Nat -> I2cState] : f[0] = I2cIdle /\ \A i \in Nat : f[i + 1] = G[i + 1][f[i]]
    <2>1. Runs(I2cState, I2cIdle, G) # {}
      BY <1>2, RunExists, Zenon
    <2> QED
      BY <2>1 DEF Runs
  <1>6. \A i \in Nat : f[i + 1] = turn(f[i], i + 1)
    <2>1. ASSUME NEW i \in Nat PROVE f[i + 1] = turn(f[i], i + 1)
      <3>1. f[i] \in I2cState /\ i + 1 \in Nat
        OBVIOUS
      <3> QED
        BY <1>4, <1>5, <3>1
    <2> QED
      BY <2>1
  <1>7. f = [i \in Nat |-> IF i = 0 THEN I2cIdle ELSE turn(f[i - 1], i)]
    BY <1>5, <1>6
  <1>8. Eq(f)
    BY <1>7 DEF turn, Eq
  <1>9. Eq(after)
    BY <1>8, Zenon DEF after
  <1>10. after = [i \in Nat |-> IF i = 0 THEN I2cIdle ELSE turn(after[i - 1], i)]
    BY <1>9 DEF turn, Eq
  <1>11. after[0] = I2cIdle /\ \A i \in Nat : after[i + 1] = turn(after[i], i + 1)
    BY <1>10
  <1>12. after \in [Nat -> I2cState]
    <2> DEFINE P == {i \in Nat : after[i] \in I2cState}
    <2>1. 0 \in P
      BY <1>2, <1>11
    <2>3. ASSUME NEW i \in P PROVE i + 1 \in P
      <3>1. i \in Nat /\ i + 1 \in Nat /\ after[i] \in I2cState
        OBVIOUS
      <3>2. turn(after[i], i + 1) \in I2cState
        BY <1>3, <3>1
      <3> QED
        BY <1>11, <3>1, <3>2
    <2> HIDE DEF P
    <2>2. P = Nat
      BY <2>1, <2>3, CountUp DEF P
    <2> QED
      BY <1>10, <2>2 DEF P
  <1>13. \A i \in Nat : turn(after[i], i + 1) = IF Len(after[i].events) < max
                           THEN I2cStep(after[i], samples[i], samples[i + 1], cfg, i + 1) ELSE after[i]
    BY DEF turn, step
  <1>14. I2cRun(after, samples, cfg, max)
    BY <1>11, <1>13 DEF I2cRun
  <1> QED
    BY <1>1, <1>12, <1>14

\* Ticks and breaks are samples.
LEMMA I2cTypes ==
  ASSUME NEW count \in Nat, NEW scl, NEW sda
  PROVE  /\ I2cTicks(scl, sda, count) \in SUBSET Nat /\ I2cTicks(scl, sda, count) \subseteq 1..count-1
         /\ I2cBreaks(scl, sda, count) \in SUBSET Nat
         /\ I2cStarts(scl, sda, count) \subseteq Nat /\ I2cStops(scl, sda, count) \subseteq Nat
  BY DEF I2cTicks, I2cBreaks, I2cStarts, I2cStops, Inner

\* How the line of activity changes from one sample to the next.
LEMMA I2cActivity ==
  ASSUME NEW count \in Nat, NEW scl, NEW sda, NEW i \in Nat
  PROVE  /\ i + 1 \in I2cStarts(scl, sda, count) => I2cActive(scl, sda, count, i + 1)
         /\ i + 1 \in I2cStops(scl, sda, count) => ~I2cActive(scl, sda, count, i + 1)
         /\ i + 1 \notin I2cBreaks(scl, sda, count) =>
              (I2cActive(scl, sda, count, i + 1) <=> I2cActive(scl, sda, count, i))
  <1> DEFINE A == I2cStarts(scl, sda, count)
             Z == I2cStops(scl, sda, count)
  <1>1. A \subseteq Nat /\ Z \subseteq Nat /\ A \cap Z = {}
    BY I2cTypes DEF I2cStarts, I2cStops, Falls, Rises
  <1>2. I2cBreaks(scl, sda, count) = A \cup Z
    BY DEF I2cBreaks
  <1>3. \A n : I2cActive(scl, sda, count, n) <=> \E s \in A : s <= n /\ \A e \in Z : ~(s < e /\ e <= n)
    BY DEF I2cActive
  <1> HIDE DEF A, Z
  <1>4. ASSUME i + 1 \in A PROVE I2cActive(scl, sda, count, i + 1)
    <2>1. \A e \in Z : ~(i + 1 < e /\ e <= i + 1)
      BY <1>1
    <2> QED
      BY <1>3, <1>4, <2>1
  <1>5. ASSUME i + 1 \in Z PROVE ~I2cActive(scl, sda, count, i + 1)
    <2>1. ASSUME NEW s \in A, s <= i + 1 PROVE s < i + 1
      BY <1>1, <1>5, <2>1
    <2> QED
      BY <1>3, <1>5, <2>1
  <1>6. ASSUME i + 1 \notin A \cup Z
        PROVE  I2cActive(scl, sda, count, i + 1) <=> I2cActive(scl, sda, count, i)
    <2>1. \A s \in A \cup Z : s <= i + 1 <=> s <= i
      BY <1>1, <1>6
    <2> QED
      BY <1>3, <2>1
  <1> QED
    BY <1>2, <1>4, <1>5, <1>6 DEF A, Z

\* The bytes on two lines.
I2cWords(scl, sda, count) ==
  LET ticks  == I2cTicks(scl, sda, count)
      breaks == I2cBreaks(scl, sda, count)
  IN  {[at |-> i, value0 |-> ByteAt(sda, ticks, breaks, 9, i), value1 |-> 1 - sda[i]] :
         i \in WordEnds(ticks, breaks, 9)}

\* A byte is determined by the sample that it ends at.
LEMMA I2cWordsAt ==
  ASSUME NEW count \in Nat, NEW scl, NEW sda
  PROVE  \A b \in I2cWords(scl, sda, count) :
           /\ b.at \in Nat
           /\ b.at \in WordEnds(I2cTicks(scl, sda, count), I2cBreaks(scl, sda, count), 9)
           /\ b = [at |-> b.at, value1 |-> 1 - sda[b.at],
                   value0 |-> ByteAt(sda, I2cTicks(scl, sda, count), I2cBreaks(scl, sda, count), 9, b.at)]
  <1>1. WordEnds(I2cTicks(scl, sda, count), I2cBreaks(scl, sda, count), 9) \subseteq Nat
    BY I2cTypes DEF WordEnds
  <1> QED
    BY <1>1 DEF I2cWords

\* What the I2C decoder has found out after sample i: of the c bits since the
\* last break the last c % 9 belong to the byte that is being read.
I2cKnows(s, scl, sda, count, i) ==
  /\ s.active <=> I2cActive(scl, sda, count, i)
  /\ s.active =>
       \E c \in Nat : /\ s.expect_ack <=> c % 9 = 8
                      /\ s.bit_count = (c % 9) % 8
                      /\ Holds(sda, I2cTicks(scl, sda, count), I2cBreaks(scl, sda, count),
                               i, c, c % 9, s.current)

\* A start or a stop condition.
LEMMA I2cAtBreak ==
  ASSUME NEW count \in Nat, NEW scl, NEW sda, NEW i \in Nat, NEW s \in I2cState
  PROVE  /\ i + 1 \in I2cStarts(scl, sda, count) => I2cKnows(I2cStart(s), scl, sda, count, i + 1)
         /\ i + 1 \in I2cStops(scl, sda, count) => I2cKnows(I2cStop(s), scl, sda, count, i + 1)
  <1> DEFINE T == I2cTicks(scl, sda, count)
             R == I2cBreaks(scl, sda, count)
  <1>1. ASSUME i + 1 \in I2cStarts(scl, sda, count) PROVE I2cKnows(I2cStart(s), scl, sda, count, i + 1)
    <2>1. i + 1 \in R /\ I2cActive(scl, sda, count, i + 1)
      BY <1>1, I2cActivity DEF I2cBreaks
    <2>2. /\ I2cStart(s).active = TRUE /\ I2cStart(s).bit_count = 0 /\ I2cStart(s).current = 0
          /\ I2cStart(s).expect_ack = FALSE
      BY DEF I2cStart, I2cState
    <2>3. Since(T, R, i + 1) = {}
      BY <2>1, I2cTypes, SinceBreak
    <2>4. Holds(sda, T, R, i + 1, 0, 0, 0)
      BY <2>3, HoldsNothing, Zenon
    <2>5. 0 % 9 = 0 /\ 0 % 8 = 0 /\ 0 \in Nat /\ 0 # 8
      OBVIOUS
    <2> HIDE DEF T, R
    <2>6. /\ I2cStart(s).expect_ack <=> 0 % 9 = 8
          /\ I2cStart(s).bit_count = (0 % 9) % 8
          /\ Holds(sda, T, R, i + 1, 0, 0 % 9, I2cStart(s).current)
      BY <2>2, <2>4, <2>5
    <2> QED
      BY <2>1, <2>2, <2>5, <2>6 DEF I2cKnows, T, R
  <1>2. ASSUME i + 1 \in I2cStops(scl, sda, count) PROVE I2cKnows(I2cStop(s), scl, sda, count, i + 1)
    <2>1. ~I2cActive(scl, sda, count, i + 1)
      BY <1>2, I2cActivity
    <2>2. I2cStop(s).active = FALSE
      BY DEF I2cStop, I2cState
    <2> QED
      BY <2>1, <2>2 DEF I2cKnows
  <1> QED
    BY <1>1, <1>2

\* A sample that is neither a break nor a tick.
LEMMA I2cAtRest ==
  ASSUME NEW count \in Nat, NEW scl, NEW sda, NEW i \in Nat, NEW s,
         i + 1 \notin I2cBreaks(scl, sda, count), i + 1 \notin I2cTicks(scl, sda, count),
         I2cKnows(s, scl, sda, count, i)
  PROVE  I2cKnows(s, scl, sda, count, i + 1)
  <1>1. ASSUME NEW c
        PROVE  Holds(sda, I2cTicks(scl, sda, count), I2cBreaks(scl, sda, count), i + 1, c, c % 9, s.current)
               <=> Holds(sda, I2cTicks(scl, sda, count), I2cBreaks(scl, sda, count), i, c, c % 9, s.current)
    BY I2cTypes, HoldsStill
  <1>2. I2cActive(scl, sda, count, i + 1) <=> I2cActive(scl, sda, count, i)
    BY I2cActivity
  <1> QED
    BY <1>1, <1>2 DEF I2cKnows

\* The eight bits of a byte.
LEMMA I2cAtBit ==
  ASSUME NEW count \in Nat, NEW scl, NEW sda \in [0..count-1 -> 0..1], NEW i \in Nat,
         NEW s \in I2cState, ~s.expect_ack, I2cKnows(s, scl, sda, count, i), s.active,
         i + 1 \notin I2cBreaks(scl, sda, count), i + 1 \in I2cTicks(scl, sda, count)
  PROVE  /\ I2cKnows(I2cBit(s, sda[i + 1]), scl, sda, count, i + 1)
         /\ i + 1 \notin WordEnds(I2cTicks(scl, sda, count), I2cBreaks(scl, sda, count), 9)
  <1> DEFINE T == I2cTicks(scl, sda, count)
             R == I2cBreaks(scl, sda, count)
             new == I2cBit(s, sda[i + 1])
             byte == ShiftIn(s.current, sda[i + 1])
  <1>1. PICK c \in Nat : /\ s.expect_ack <=> c % 9 = 8
                         /\ s.bit_count = (c % 9) % 8
                         /\ Holds(sda, T, R, i, c, c % 9, s.current)
    BY DEF I2cKnows
  <1>2. T \in SUBSET Nat /\ R \in SUBSET Nat /\ i + 1 \in T /\ i + 1 \notin R /\ \A j \in T : sda[j] \in 0..1
    BY I2cTypes
  <1>3. PICK r \in 0..7 : r = c % 9 /\ r <= c /\ s.bit_count = r /\ (c + 1) % 9 = r + 1
    <2>1. c % 9 \in 0..7 /\ c % 9 <= c
      BY <1>1
    <2>2. (c + 1) % 9 = (c % 9) + 1 /\ (c % 9) % 8 = c % 9
      BY <2>1
    <2> QED
      BY <1>1, <2>1, <2>2
  <1>4. Count(T, R, i + 1) = c + 1 /\ Holds(sda, T, R, i + 1, c + 1, r + 1, byte)
    <2> HIDE DEF T, R
    <2>1. Holds(sda, T, R, i, c, r, s.current)
      BY <1>1, <1>3
    <2> QED
      BY <1>2, <1>3, <2>1, HoldsBit, Zenon
  <1>5. /\ new.active = s.active /\ new.current = byte
        /\ new.bit_count = (s.bit_count + 1) % 8 /\ new.expect_ack = (s.bit_count = 7)
    BY DEF I2cBit, I2cState
  <1>6. new.expect_ack <=> (c + 1) % 9 = 8
    <2>1. r = 7 <=> r + 1 = 8
      OBVIOUS
    <2> HIDE DEF new
    <2> QED
      BY <1>3, <1>5, <2>1
  <1>7. new.bit_count = ((c + 1) % 9) % 8
    <2> HIDE DEF new
    <2> QED
      BY <1>3, <1>5
  <1>8. I2cActive(scl, sda, count, i + 1) /\ new.active
    BY <1>5 DEF I2cTicks
  <1>9. i + 1 \notin WordEnds(T, R, 9)
    <2> HIDE DEF T, R
    <2> QED
      BY <1>3, <1>4 DEF WordEnds
  <1> HIDE DEF new, byte
  <1>10. c + 1 \in Nat /\ Holds(sda, T, R, i + 1, c + 1, (c + 1) % 9, new.current)
    BY <1>3, <1>4, <1>5
  <1>11. I2cKnows(new, scl, sda, count, i + 1)
    BY <1>6, <1>7, <1>8, <1>10, Zenon DEF I2cKnows
  <1> QED
    BY <1>9, <1>11 DEF new

\* The ninth one: the byte is in the capture, and reported.
LEMMA I2cAtAck ==
  ASSUME NEW count \in Nat, NEW scl, NEW sda, NEW i \in Nat,
         NEW s \in I2cState, s.expect_ack, I2cKnows(s, scl, sda, count, i), s.active,
         i + 1 \notin I2cBreaks(scl, sda, count), i + 1 \in I2cTicks(scl, sda, count)
  PROVE  /\ I2cKnows(I2cAck(s, sda[i + 1], i + 1), scl, sda, count, i + 1)
         /\ i + 1 \in WordEnds(I2cTicks(scl, sda, count), I2cBreaks(scl, sda, count), 9)
         /\ s.current = ByteAt(sda, I2cTicks(scl, sda, count), I2cBreaks(scl, sda, count), 9, i + 1)
  <1> DEFINE T == I2cTicks(scl, sda, count)
             R == I2cBreaks(scl, sda, count)
             new == I2cAck(s, sda[i + 1], i + 1)
  <1>1. PICK c \in Nat : /\ s.expect_ack <=> c % 9 = 8
                         /\ s.bit_count = (c % 9) % 8
                         /\ Holds(sda, T, R, i, c, c % 9, s.current)
    BY DEF I2cKnows
  <1>2. T \in SUBSET Nat /\ R \in SUBSET Nat /\ i + 1 \in T /\ i + 1 \notin R
    BY I2cTypes
  <1>3. c % 9 = 8 /\ c >= 8 /\ (c + 1) % 9 = 0 /\ s.bit_count = 0
    <2>1. c % 9 = 8
      BY <1>1
    <2>2. c >= 8 /\ (c + 1) % 9 = 0 /\ 8 % 8 = 0
      BY <2>1
    <2> QED
      BY <1>1, <2>1, <2>2
  <1>4. /\ Count(T, R, i + 1) = c + 1 /\ ByteAt(sda, T, R, 9, i + 1) = s.current
        /\ Holds(sda, T, R, i + 1, c + 1, 0, 0)
    <2> HIDE DEF T, R
    <2>1. Holds(sda, T, R, i, c, 8, s.current)
      BY <1>1, <1>3
    <2> QED
      BY <1>2, <1>3, <2>1, HoldsAck
  <1>5. new.active = s.active /\ new.current = 0 /\ new.bit_count = s.bit_count /\ new.expect_ack = FALSE
    BY DEF I2cAck, I2cState
  <1>6. I2cActive(scl, sda, count, i + 1) /\ new.active
    BY <1>5 DEF I2cTicks
  <1>7. i + 1 \in WordEnds(T, R, 9)
    <2> HIDE DEF T, R
    <2> QED
      BY <1>2, <1>3, <1>4 DEF WordEnds
  <1> HIDE DEF new
  <1>8. /\ c + 1 \in Nat /\ (new.expect_ack <=> (c + 1) % 9 = 8) /\ new.bit_count = ((c + 1) % 9) % 8
    BY <1>3, <1>5
  <1>9. Holds(sda, T, R, i + 1, c + 1, (c + 1) % 9, new.current)
    BY <1>3, <1>4, <1>5
  <1>10. I2cKnows(new, scl, sda, count, i + 1)
    BY <1>6, <1>8, <1>9, Zenon DEF I2cKnows
  <1> QED
    BY <1>4, <1>7, <1>10 DEF new

\* A sample at which no word is complete adds nothing.
LEMMA I2cSilent ==
  ASSUME NEW count \in Nat, NEW scl, NEW sda, NEW i \in Nat, NEW max, NEW list,
         i + 1 \notin WordEnds(I2cTicks(scl, sda, count), I2cBreaks(scl, sda, count), 9),
         Reports(list, UpTo(I2cWords(scl, sda, count), i), max)
  PROVE  Reports(list, UpTo(I2cWords(scl, sda, count), i + 1), max)
  <1>1. \A b \in I2cWords(scl, sda, count) : b.at \in Nat /\ b.at # i + 1
    BY I2cWordsAt
  <1> HIDE DEF I2cWords
  <1> QED
    BY <1>1, ReportsQuiet

\* The byte that ends with an acknowledgement is the next one of the report.
LEMMA I2cHeard ==
  ASSUME NEW count \in Nat, NEW scl, NEW sda \in [0..count-1 -> 0..1], NEW i \in Nat,
         i + 1 < count, NEW max \in Nat,
         NEW s \in I2cState, s.expect_ack, I2cKnows(s, scl, sda, count, i), s.active,
         i + 1 \notin I2cBreaks(scl, sda, count), i + 1 \in I2cTicks(scl, sda, count),
         Len(s.events) < max, Reports(s.events, UpTo(I2cWords(scl, sda, count), i), max)
  PROVE  Reports(I2cAck(s, sda[i + 1], i + 1).events, UpTo(I2cWords(scl, sda, count), i + 1), max)
  <1> DEFINE W == I2cWords(scl, sda, count)
             b == [at |-> i + 1, value0 |-> s.current, value1 |-> 1 - sda[i + 1]]
  <1>1. /\ i + 1 \in WordEnds(I2cTicks(scl, sda, count), I2cBreaks(scl, sda, count), 9)
        /\ s.current = ByteAt(sda, I2cTicks(scl, sda, count), I2cBreaks(scl, sda, count), 9, i + 1)
    BY I2cAtAck
  <1>2. b \in W
    BY <1>1 DEF I2cWords
  <1>3. \A a \in W : a.at \in Nat /\ (a.at = i + 1 => a = b)
    BY <1>1, I2cWordsAt
  <1>4. b \in I2cEvent /\ b.at = i + 1
    <2>1. sda[i + 1] \in 0..1 /\ i + 1 \in Nat
      <3>1. i + 1 \in 0..count-1
        OBVIOUS
      <3> QED
        BY <3>1
    <2> QED
      BY <2>1, I2cFields DEF I2cEvent
  <1>5. I2cAck(s, sda[i + 1], i + 1).events = Append(s.events, b)
    BY DEF I2cAck, I2cState
  <1>6. s.events \in Seq(I2cEvent)
    BY I2cFields
  <1> HIDE DEF W, b
  <1>7. Reports(Append(s.events, b), UpTo(W, i + 1), max)
    <2>1. Reports(s.events, UpTo(W, i), max)
      BY DEF W
    <2> QED
      BY <1>2, <1>3, <1>4, <1>6, <2>1, ReportsMore
  <1> QED
    BY <1>5, <1>7 DEF W

\* One sample, whatever it is.
LEMMA I2cTurn ==
  ASSUME NEW samples, NEW count \in Nat, NEW cfg, NEW max \in Nat, NEW i \in Nat, i + 1 < count,
         NEW scl, scl = Line(samples, count, cfg.scl_channel),
         NEW sda, sda = Line(samples, count, cfg.sda_channel),
         NEW s \in I2cState, I2cKnows(s, scl, sda, count, i), Len(s.events) < max,
         Reports(s.events, UpTo(I2cWords(scl, sda, count), i), max),
         NEW new, new = I2cStep(s, samples[i], samples[i + 1], cfg, i + 1)
  PROVE  /\ I2cKnows(new, scl, sda, count, i + 1)
         /\ Reports(new.events, UpTo(I2cWords(scl, sda, count), i + 1), max)
  <1> DEFINE T == I2cTicks(scl, sda, count)
             R == I2cBreaks(scl, sda, count)
  <1>1. /\ i \in 0..count-1 /\ i + 1 \in 0..count-1 /\ i + 1 \in Inner(count) /\ (i + 1) - 1 = i
    BY DEF Inner
  <1>2. /\ scl[i] = Bit(samples[i], cfg.scl_channel) /\ scl[i + 1] = Bit(samples[i + 1], cfg.scl_channel)
        /\ sda[i] = Bit(samples[i], cfg.sda_channel) /\ sda[i + 1] = Bit(samples[i + 1], cfg.sda_channel)
    BY <1>1 DEF Line
  <1>3. sda \in [0..count-1 -> 0..1]
    BY DEF Line, Bit
  <1>4. /\ i + 1 \in I2cStarts(scl, sda, count) <=> scl[i + 1] = 1 /\ Falls(sda[i], sda[i + 1])
        /\ i + 1 \in I2cStops(scl, sda, count) <=> scl[i + 1] = 1 /\ Rises(sda[i], sda[i + 1])
        /\ i + 1 \in T <=> Rises(scl[i], scl[i + 1]) /\ I2cActive(scl, sda, count, i + 1)
        /\ i + 1 \in R <=> i + 1 \in I2cStarts(scl, sda, count) \/ i + 1 \in I2cStops(scl, sda, count)
    BY <1>1 DEF I2cStarts, I2cStops, I2cTicks, I2cBreaks
  <1>5. new = IF scl[i + 1] = 1 /\ Falls(sda[i], sda[i + 1]) THEN I2cStart(s)
              ELSE IF scl[i + 1] = 1 /\ Rises(sda[i], sda[i + 1]) THEN I2cStop(s)
              ELSE IF ~s.active \/ ~Rises(scl[i], scl[i + 1]) THEN s
              ELSE IF s.expect_ack THEN I2cAck(s, sda[i + 1], i + 1)
              ELSE I2cBit(s, sda[i + 1])
    BY <1>2, Zenon DEF I2cStep
  <1>6. s.active <=> I2cActive(scl, sda, count, i)
    BY DEF I2cKnows
  <1>7. i + 1 \notin R => (I2cActive(scl, sda, count, i + 1) <=> s.active)
    BY <1>6, I2cActivity, Zenon
  <1>8. \A e \in WordEnds(T, R, 9) : e \in T /\ e \notin R
    BY DEF WordEnds
  <1> HIDE DEF T, R
  <1>9. CASE i + 1 \in I2cStarts(scl, sda, count)
    <2>1. new = I2cStart(s) /\ i + 1 \notin WordEnds(T, R, 9)
      BY <1>4, <1>5, <1>8, <1>9
    <2>2. I2cStart(s).events = s.events
      BY DEF I2cStart, I2cState
    <2> QED
      BY <1>9, <2>1, <2>2, I2cAtBreak, I2cSilent DEF T, R
  <1>10. CASE i + 1 \notin I2cStarts(scl, sda, count) /\ i + 1 \in I2cStops(scl, sda, count)
    <2>1. new = I2cStop(s) /\ i + 1 \notin WordEnds(T, R, 9)
      BY <1>4, <1>5, <1>8, <1>10
    <2>2. I2cStop(s).events = s.events
      BY DEF I2cStop, I2cState
    <2> QED
      BY <1>10, <2>1, <2>2, I2cAtBreak, I2cSilent DEF T, R
  <1>11. CASE i + 1 \notin R /\ i + 1 \notin T
    <2>1. new = s /\ i + 1 \notin WordEnds(T, R, 9)
      BY <1>4, <1>5, <1>7, <1>8, <1>11
    <2> QED
      BY <1>11, <2>1, I2cAtRest, I2cSilent DEF T, R
  <1>12. CASE i + 1 \notin R /\ i + 1 \in T /\ ~s.expect_ack
    <2>1. new = I2cBit(s, sda[i + 1]) /\ s.active
      BY <1>4, <1>5, <1>7, <1>12
    <2>2. I2cBit(s, sda[i + 1]).events = s.events
      BY DEF I2cBit, I2cState
    <2>3. I2cKnows(new, scl, sda, count, i + 1) /\ i + 1 \notin WordEnds(T, R, 9)
      BY <1>3, <1>12, <2>1, I2cAtBit DEF T, R
    <2> QED
      BY <2>1, <2>2, <2>3, I2cSilent DEF T, R
  <1>13. CASE i + 1 \notin R /\ i + 1 \in T /\ s.expect_ack
    <2>1. new = I2cAck(s, sda[i + 1], i + 1) /\ s.active
      BY <1>4, <1>5, <1>7, <1>13
    <2> QED
      BY <1>3, <1>13, <2>1, I2cAtAck, I2cHeard DEF T, R
  <1> QED
    BY <1>4, <1>9, <1>10, <1>11, <1>12, <1>13

\* edt_decode_i2c reports the bytes of the I2C bus, of any samples.
LEMMA I2cExact ==
  ASSUME NEW samples, NEW count \in Nat, NEW cfg, NEW max \in Nat
  PROVE  Reports(EdtDecodeI2c(samples, count, cfg, max), I2cBytes(samples, count, cfg), max)
  <1> DEFINE scl == Line(samples, count, cfg.scl_channel)
             sda == Line(samples, count, cfg.sda_channel)
             W == I2cWords(scl, sda, count)
  <1>1. CASE ~({cfg.scl_channel, cfg.sda_channel} \subseteq Channels)
    BY <1>1, ReportsNone DEF EdtDecodeI2c, I2cBytes
  <1>2. CASE {cfg.scl_channel, cfg.sda_channel} \subseteq Channels /\ count = 0
    <2>1. EdtDecodeI2c(samples, count, cfg, max) = <<>>
      BY <1>2 DEF EdtDecodeI2c, RunOver
    <2>2. I2cBytes(samples, count, cfg) = {}
      <3>1. Inner(count) = {}
        BY <1>2 DEF Inner
      <3> QED
        BY <1>2, <3>1 DEF I2cBytes, WordEnds, I2cTicks
    <2> QED
      BY <2>1, <2>2, ReportsNone
  <1>3. CASE {cfg.scl_channel, cfg.sda_channel} \subseteq Channels /\ count > 0
    <2>1. PICK a \in [Nat -> I2cState] : /\ I2cRun(a, samples, cfg, max)
                                         /\ EdtDecodeI2c(samples, count, cfg, max) = a[count - 1].events
      <3>1. count \in Nat \ {0}
        BY <1>3
      <3> QED
        BY <1>3, <3>1, I2cRuns
    <2>2. I2cBytes(samples, count, cfg) = W
      BY <1>3 DEF I2cBytes, I2cWords
    <2>3. PICK l1, l2 : l1 = scl /\ l2 = sda
      OBVIOUS
    <2>4. l1 = Line(samples, count, cfg.scl_channel) /\ l2 = Line(samples, count, cfg.sda_channel)
      BY <2>3
    <2> HIDE DEF scl, sda, W
    <2> DEFINE Good(i) == /\ Reports(a[i].events, UpTo(I2cWords(l1, l2, count), i), max)
                          /\ Len(a[i].events) < max => I2cKnows(a[i], l1, l2, count, i)
               P == {i \in Nat : i < count => Good(i)}
    <2>5. \A b \in I2cWords(l1, l2, count) : b.at \in Nat /\ b.at \in 1..count-1
      <3>1. WordEnds(I2cTicks(l1, l2, count), I2cBreaks(l1, l2, count), 9) \subseteq 1..count-1
        BY I2cTypes DEF WordEnds
      <3> QED
        BY <3>1, I2cWordsAt
    <2>6. 0 \in P
      <3>1. UpTo(I2cWords(l1, l2, count), 0) = {}
        BY <2>5 DEF UpTo
      <3>2. a[0].events = <<>> /\ a[0].active = FALSE
        BY <2>1 DEF I2cIdle, I2cRun
      <3>3. ~I2cActive(l1, l2, count, 0)
        BY DEF I2cActive, I2cStarts, Inner
      <3> QED
        BY <3>1, <3>2, <3>3, ReportsNone DEF I2cKnows
    <2>7. ASSUME NEW i \in P PROVE i + 1 \in P
      <3>1. i \in Nat /\ i + 1 \in Nat /\ a[i] \in I2cState /\ a[i].events \in Seq(I2cEvent)
        BY I2cFields
      <3>2. SUFFICES ASSUME i + 1 < count PROVE Good(i + 1)
        BY <3>1
      <3>3. Good(i)
        BY <3>1, <3>2
      <3>4. CASE Len(a[i].events) < max
        <4>1. a[i + 1] = I2cStep(a[i], samples[i], samples[i + 1], cfg, i + 1)
          BY <2>1, <3>1, <3>4 DEF I2cRun
        <4>2. /\ I2cKnows(a[i + 1], l1, l2, count, i + 1)
              /\ Reports(a[i + 1].events, UpTo(I2cWords(l1, l2, count), i + 1), max)
          BY <2>4, <3>1, <3>2, <3>3, <3>4, <4>1, I2cTurn
        <4> QED
          BY <4>2
      <3>5. CASE ~(Len(a[i].events) < max)
        <4>1. a[i + 1] = a[i]
          BY <2>1, <3>1, <3>5 DEF I2cRun
        <4>2. Reports(a[i].events, UpTo(I2cWords(l1, l2, count), i + 1), max)
          BY <2>5, <3>1, <3>3, <3>5, ReportsFull
        <4> QED
          BY <3>5, <4>1, <4>2
      <3> QED
        BY <3>4, <3>5
    <2>8. P = Nat
      <3>1. P \subseteq Nat
        OBVIOUS
      <3> HIDE DEF P
      <3> QED
        BY <2>6, <2>7, <3>1, CountUp, Zenon
    <2>9. Good(count - 1)
      <3>1. count - 1 \in Nat /\ count - 1 < count
        BY <1>3
      <3> QED
        BY <2>8, <3>1
    <2>10. UpTo(I2cWords(l1, l2, count), count - 1) = I2cWords(l1, l2, count)
      BY <2>5 DEF UpTo
    <2> QED
      BY <2>1, <2>2, <2>3, <2>9, <2>10 DEF W
  <1> QED
    BY <1>1, <1>2, <1>3

-------------------------------------------------------------------------------
(* SPI                                                                      *)

\* The types of the decoder's events and state.
SpiEvent == [at : Nat, value0 : 0..255, value1 : 0..255]
SpiState == [active : BOOLEAN, bits : 0..7, mosi_byte : 0..255, miso_byte : 0..255, events : Seq(SpiEvent)]

\* The registers and the events of the SPI decoder are set together.
LEMMA SpiSet ==
  ASSUME NEW s \in SpiState, NEW bits \in 0..7, NEW mosi \in 0..255, NEW miso \in 0..255
  PROVE  /\ [s EXCEPT !.bits = bits, !.mosi_byte = mosi, !.miso_byte = miso] \in SpiState
         /\ \A list \in Seq(SpiEvent) :
              [s EXCEPT !.events = list, !.bits = bits, !.mosi_byte = mosi, !.miso_byte = miso] \in SpiState
  BY ZenonT(60) DEF SpiState

\* The fields of its state.
LEMMA SpiFields ==
  ASSUME NEW s \in SpiState
  PROVE  s.bits \in 0..7 /\ s.mosi_byte \in 0..255 /\ s.miso_byte \in 0..255 /\ s.events \in Seq(SpiEvent)
  BY DEF SpiState

\* A chip that is selected has no bits yet, or those read since.
LEMMA SpiSelected ==
  ASSUME NEW s \in SpiState
  PROVE  /\ SpiSelect(s) \in SpiState /\ SpiSelect(s).active = TRUE /\ SpiSelect(s).events = s.events
         /\ s.active = TRUE => SpiSelect(s) = s
         /\ s.active = FALSE => SpiSelect(s).bits = 0 /\ SpiSelect(s).mosi_byte = 0 /\ SpiSelect(s).miso_byte = 0
  <1>1. 0 \in 0..7 /\ 0 \in 0..255
    OBVIOUS
  <1>2. SpiSelect(s) \in SpiState
    BY <1>1, ZenonT(60) DEF SpiSelect, SpiState
  <1> QED
    BY <1>2 DEF SpiSelect, SpiState

\* A step of the SPI decoder keeps its types.
LEMMA SpiStepType ==
  ASSUME NEW s \in SpiState, NEW prev, NEW curr, NEW cfg, NEW i \in Nat
  PROVE  SpiStep(s, prev, curr, cfg, i) \in SpiState
  <1>1. \A ch : Bit(curr, ch) \in 0..1
    BY DEF Bit
  <1>2. 0 \in 0..7 /\ 0 \in 0..255
    OBVIOUS
  <1>3. SpiDeselect(s) \in SpiState /\ SpiSelect(s) \in SpiState
    BY <1>2, SpiSelected, ZenonT(60) DEF SpiDeselect, SpiState
  <1>4. ASSUME NEW t \in SpiState, NEW mosi \in 0..1, NEW miso \in 0..1
        PROVE  SpiBit(t, mosi, miso, i) \in SpiState
    <2>1. PICK mo \in 0..255, mi \in 0..255 : /\ mo = ShiftIn(t.mosi_byte, mosi)
                                              /\ mi = ShiftIn(t.miso_byte, miso)
      BY SpiFields, ShiftType
    <2>2. PICK more \in Seq(SpiEvent) : more = Append(t.events, [at |-> i, value0 |-> mo, value1 |-> mi])
      <3>1. [at |-> i, value0 |-> mo, value1 |-> mi] \in SpiEvent
        BY DEF SpiEvent
      <3>2. Append(t.events, [at |-> i, value0 |-> mo, value1 |-> mi]) \in Seq(SpiEvent)
        BY <3>1, SpiFields
      <3> QED
        BY <3>2
    <2>3. CASE t.bits = 7
      <3>1. SpiBit(t, mosi, miso, i) =
              [t EXCEPT !.events = more, !.bits = 0, !.mosi_byte = 0, !.miso_byte = 0]
        BY <2>1, <2>2, <2>3 DEF SpiBit, SpiState
      <3>2. [t EXCEPT !.events = more, !.bits = 0, !.mosi_byte = 0, !.miso_byte = 0] \in SpiState
        BY <1>2, SpiSet, Zenon
      <3> QED
        BY <3>1, <3>2
    <2>4. CASE t.bits # 7
      <3>1. PICK more_bits \in 0..7 : more_bits = t.bits + 1
        BY <2>4, SpiFields
      <3>2. SpiBit(t, mosi, miso, i) = [t EXCEPT !.bits = more_bits, !.mosi_byte = mo, !.miso_byte = mi]
        BY <2>1, <2>4, <3>1 DEF SpiBit, SpiState
      <3>3. [t EXCEPT !.bits = more_bits, !.mosi_byte = mo, !.miso_byte = mi] \in SpiState
        BY SpiSet, Zenon
      <3> QED
        BY <3>2, <3>3
    <2> QED
      BY <2>3, <2>4
  <1> QED
    BY <1>1, <1>3, <1>4, Zenon DEF SpiStep

\* a holds the states that the SPI decoder goes through.
SpiRun(a, samples, cfg, max) ==
  /\ a[0] = SpiIdle
  /\ \A i \in Nat : a[i + 1] = IF Len(a[i].events) < max
                               THEN SpiStep(a[i], samples[i], samples[i + 1], cfg, i + 1)
                               ELSE a[i]

\* The channels that edt_decode_spi checks.
SpiChannels(cfg) == {cfg.clk_channel, cfg.cs_channel, cfg.mosi_channel, cfg.miso_channel}

\* The decoder has such a run, and reports what is in its last state.
LEMMA SpiRuns ==
  ASSUME NEW samples, NEW count \in Nat \ {0}, NEW cfg, NEW max \in Nat, SpiChannels(cfg) \subseteq Channels
  PROVE  \E a \in [Nat -> SpiState] :
           /\ SpiRun(a, samples, cfg, max)
           /\ EdtDecodeSpi(samples, count, cfg, max) = a[count - 1].events
  <1> DEFINE step(s, i) == SpiStep(s, samples[i - 1], samples[i], cfg, i)
             turn(s, i) == IF Len(s.events) < max THEN step(s, i) ELSE s
             Eq(a) == a = [i \in Nat |-> IF i = 0 THEN SpiIdle
                                         ELSE LET s == a[i - 1]
                                              IN  IF Len(s.events) < max THEN step(s, i) ELSE s]
             after == CHOOSE a : Eq(a)
  <1>1. EdtDecodeSpi(samples, count, cfg, max) = after[count - 1].events
    BY DEF EdtDecodeSpi, RunOver, SpiChannels
  <1>2. SpiIdle \in SpiState
    BY DEF SpiIdle, SpiState
  <1> HIDE DEF step
  <1>3. \A s \in SpiState, i \in Nat : turn(s, i) \in SpiState
    BY SpiStepType DEF step
  <1> HIDE DEF turn, Eq, after
  <1>4. PICK G \in [Nat -> [SpiState -> SpiState]] : \A s \in SpiState, i \in Nat : G[i][s] = turn(s, i)
    <2> DEFINE H == [i \in Nat |-> [s \in SpiState |-> turn(s, i)]]
    <2>1. H \in [Nat -> [SpiState -> SpiState]] /\ \A s \in SpiState, i \in Nat : H[i][s] = turn(s, i)
      BY <1>3
    <2> QED
      BY <2>1
  <1>5. PICK f \in [Nat -> SpiState] : f[0] = SpiIdle /\ \A i \in Nat : f[i + 1] = G[i + 1][f[i]]
    <2>1. Runs(SpiState, SpiIdle, G) # {}
      BY <1>2, RunExists, Zenon
    <2> QED
      BY <2>1 DEF Runs
  <1>6. \A i \in Nat : f[i + 1] = turn(f[i], i + 1)
    <2>1. ASSUME NEW i \in Nat PROVE f[i + 1] = turn(f[i], i + 1)
      <3>1. f[i] \in SpiState /\ i + 1 \in Nat
        OBVIOUS
      <3> QED
        BY <1>4, <1>5, <3>1
    <2> QED
      BY <2>1
  <1>7. f = [i \in Nat |-> IF i = 0 THEN SpiIdle ELSE turn(f[i - 1], i)]
    BY <1>5, <1>6
  <1>8. Eq(f)
    BY <1>7 DEF turn, Eq
  <1>9. Eq(after)
    BY <1>8, Zenon DEF after
  <1>10. after = [i \in Nat |-> IF i = 0 THEN SpiIdle ELSE turn(after[i - 1], i)]
    BY <1>9 DEF turn, Eq
  <1>11. after[0] = SpiIdle /\ \A i \in Nat : after[i + 1] = turn(after[i], i + 1)
    BY <1>10
  <1>12. after \in [Nat -> SpiState]
    <2> DEFINE P == {i \in Nat : after[i] \in SpiState}
    <2>1. 0 \in P
      BY <1>2, <1>11
    <2>2. ASSUME NEW i \in P PROVE i + 1 \in P
      <3>1. i \in Nat /\ i + 1 \in Nat /\ after[i] \in SpiState
        OBVIOUS
      <3>2. turn(after[i], i + 1) \in SpiState
        BY <1>3, <3>1
      <3> QED
        BY <1>11, <3>1, <3>2
    <2> HIDE DEF P
    <2>3. P = Nat
      BY <2>1, <2>2, CountUp DEF P
    <2> QED
      BY <1>10, <2>3 DEF P
  <1>13. \A i \in Nat : turn(after[i], i + 1) = IF Len(after[i].events) < max
                           THEN SpiStep(after[i], samples[i], samples[i + 1], cfg, i + 1) ELSE after[i]
    BY DEF turn, step
  <1>14. SpiRun(after, samples, cfg, max)
    BY <1>11, <1>13 DEF SpiRun
  <1> QED
    BY <1>1, <1>12, <1>14

\* The bytes on two lines that are read at the ticks in T and cut off by the breaks in R.
SpiWords(mosi, miso, T, R) ==
  {[at |-> i, value0 |-> ByteAt(mosi, T, R, 8, i), value1 |-> ByteAt(miso, T, R, 8, i)] :
     i \in WordEnds(T, R, 8)}

\* What the SPI decoder has found out after sample i: of the c bits since the
\* chip has been selected the last c % 8 belong to the byte that is being read.
SpiKnows(s, mosi, miso, T, R, i) ==
  \E c \in Nat : /\ s.bits = c % 8
                 /\ Holds(mosi, T, R, i, c, c % 8, s.mosi_byte)
                 /\ Holds(miso, T, R, i, c, c % 8, s.miso_byte)

\* No bit has come since the chip was not selected.
LEMMA SpiAtBreak ==
  ASSUME NEW T \in SUBSET Nat, NEW R \in SUBSET Nat, NEW i \in Nat, Since(T, R, i) = {}, NEW mosi, NEW miso,
         NEW s, s.bits = 0, s.mosi_byte = 0, s.miso_byte = 0
  PROVE  SpiKnows(s, mosi, miso, T, R, i)
  <1>1. Holds(mosi, T, R, i, 0, 0, 0) /\ Holds(miso, T, R, i, 0, 0, 0)
    BY HoldsNothing, Zenon
  <1>2. 0 \in Nat /\ 0 % 8 = 0
    OBVIOUS
  <1>3. /\ s.bits = 0 % 8
        /\ Holds(mosi, T, R, i, 0, 0 % 8, s.mosi_byte)
        /\ Holds(miso, T, R, i, 0, 0 % 8, s.miso_byte)
    BY <1>1, <1>2
  <1> QED
    BY <1>2, <1>3, Zenon DEF SpiKnows

\* A sample that is neither a tick nor a break.
LEMMA SpiAtRest ==
  ASSUME NEW T \in SUBSET Nat, NEW R \in SUBSET Nat, NEW i \in Nat, i + 1 \notin T, i + 1 \notin R,
         NEW mosi, NEW miso,
         NEW s, SpiKnows(s, mosi, miso, T, R, i)
  PROVE  SpiKnows(s, mosi, miso, T, R, i + 1)
  <1>1. \A level, c, byte :
          Holds(level, T, R, i + 1, c, c % 8, byte) <=> Holds(level, T, R, i, c, c % 8, byte)
    BY HoldsStill
  <1> QED
    BY <1>1 DEF SpiKnows

\* The levels at all ticks are bits.
BitsAt(level, T) == \A j \in T : level[j] \in 0..1

\* After a tick the byte that it completes has been reported, if it completes one.
SpiBitRead(s, new, mosi, miso, T, R, i) ==
  /\ SpiKnows(new, mosi, miso, T, R, i)
  /\ s.bits # 7 => new.events = s.events /\ i \notin WordEnds(T, R, 8)
  /\ s.bits = 7 => \E mo, mi \in 0..255 :
                      /\ new.events = Append(s.events, [at |-> i, value0 |-> mo, value1 |-> mi])
                      /\ i \in WordEnds(T, R, 8)
                      /\ mo = ByteAt(mosi, T, R, 8, i) /\ mi = ByteAt(miso, T, R, 8, i)

\* A bit, which may be the last one of a byte.
LEMMA SpiAtBit ==
  ASSUME NEW T \in SUBSET Nat, NEW R \in SUBSET Nat, NEW i \in Nat, i + 1 \in T, i + 1 \notin R,
         NEW mosi, NEW miso, BitsAt(mosi, T), BitsAt(miso, T),
         NEW s \in SpiState, SpiKnows(s, mosi, miso, T, R, i),
         mosi[i + 1] \in 0..1, miso[i + 1] \in 0..1
  PROVE  SpiBitRead(s, SpiBit(s, mosi[i + 1], miso[i + 1], i + 1), mosi, miso, T, R, i + 1)
  <1> DEFINE new == SpiBit(s, mosi[i + 1], miso[i + 1], i + 1)
  <1>0. PICK mo \in 0..255, mi \in 0..255 : /\ mo = ShiftIn(s.mosi_byte, mosi[i + 1])
                                            /\ mi = ShiftIn(s.miso_byte, miso[i + 1])
    BY SpiFields, ShiftType
  <1>1. PICK c \in Nat : /\ s.bits = c % 8
                         /\ Holds(mosi, T, R, i, c, c % 8, s.mosi_byte)
                         /\ Holds(miso, T, R, i, c, c % 8, s.miso_byte)
    BY DEF SpiKnows
  <1>2. PICK r \in 0..7 : r = c % 8 /\ r <= c /\ s.bits = r
    <2>1. c % 8 \in 0..7 /\ c % 8 <= c
      OBVIOUS
    <2> QED
      BY <1>1, <2>1
  <1>3. /\ Count(T, R, i + 1) = c + 1
        /\ Holds(mosi, T, R, i + 1, c + 1, r + 1, mo) /\ Holds(miso, T, R, i + 1, c + 1, r + 1, mi)
    <2>1. Holds(mosi, T, R, i, c, r, s.mosi_byte) /\ Holds(miso, T, R, i, c, r, s.miso_byte)
      BY <1>1, <1>2
    <2>2. (\A j \in T : mosi[j] \in 0..1) /\ (\A j \in T : miso[j] \in 0..1)
      BY DEF BitsAt
    <2>3. /\ Holds(mosi, T, R, i + 1, c + 1, r + 1, ShiftIn(s.mosi_byte, mosi[i + 1]))
          /\ Holds(miso, T, R, i + 1, c + 1, r + 1, ShiftIn(s.miso_byte, miso[i + 1]))
          /\ Count(T, R, i + 1) = c + 1
      BY <1>2, <2>1, <2>2, HoldsBit, Zenon
    <2> QED
      BY <1>0, <2>3
  <1>4. CASE r # 7
    <2>1. (c + 1) % 8 = r + 1 /\ c + 1 \in Nat
      BY <1>2, <1>4
    <2>2. new.events = s.events /\ new.bits = r + 1 /\ new.mosi_byte = mo /\ new.miso_byte = mi
      BY <1>0, <1>2, <1>4 DEF SpiBit, SpiState
    <2>3. /\ new.bits = (c + 1) % 8 /\ Holds(mosi, T, R, i + 1, c + 1, (c + 1) % 8, new.mosi_byte)
          /\ Holds(miso, T, R, i + 1, c + 1, (c + 1) % 8, new.miso_byte)
      BY <1>3, <2>1, <2>2
    <2>4. SpiKnows(new, mosi, miso, T, R, i + 1)
      BY <2>1, <2>3, Zenon DEF SpiKnows
    <2>5. i + 1 \notin WordEnds(T, R, 8)
      BY <1>2, <1>3, <2>1 DEF WordEnds
    <2> HIDE DEF new
    <2>6. SpiBitRead(s, new, mosi, miso, T, R, i + 1)
      BY <1>2, <1>4, <2>2, <2>4, <2>5 DEF SpiBitRead
    <2> QED
      BY <2>6 DEF new
  <1>5. CASE r = 7
    <2>1. (c + 1) % 8 = 0 /\ c + 1 \in Nat /\ c + 1 >= 8
      BY <1>2, <1>5
    <2>2. /\ new.events = Append(s.events, [at |-> i + 1, value0 |-> mo, value1 |-> mi])
          /\ new.bits = 0 /\ new.mosi_byte = 0 /\ new.miso_byte = 0
      BY <1>0, <1>2, <1>5 DEF SpiBit, SpiState
    <2>3. Holds(mosi, T, R, i + 1, c + 1, 8, mo) /\ Holds(miso, T, R, i + 1, c + 1, 8, mi)
      BY <1>3, <1>5
    <2>4. mo = ByteAt(mosi, T, R, 8, i + 1) /\ mi = ByteAt(miso, T, R, 8, i + 1)
      BY <2>1, <2>3, HoldsWord
    <2>5. \A level, byte : Holds(level, T, R, i + 1, c + 1, 8, byte) => Holds(level, T, R, i + 1, c + 1, 0, 0)
      BY LowNone, Zenon DEF Holds
    <2>6. /\ new.bits = (c + 1) % 8 /\ Holds(mosi, T, R, i + 1, c + 1, (c + 1) % 8, new.mosi_byte)
          /\ Holds(miso, T, R, i + 1, c + 1, (c + 1) % 8, new.miso_byte)
      BY <2>1, <2>2, <2>3, <2>5
    <2>7. SpiKnows(new, mosi, miso, T, R, i + 1)
      BY <2>1, <2>6, Zenon DEF SpiKnows
    <2>8. i + 1 \in WordEnds(T, R, 8)
      BY <1>3, <2>1 DEF WordEnds
    <2> HIDE DEF new
    <2>9. SpiBitRead(s, new, mosi, miso, T, R, i + 1)
      BY <1>2, <1>5, <2>2, <2>4, <2>7, <2>8 DEF SpiBitRead
    <2> QED
      BY <2>9 DEF new
  <1> QED
    BY <1>4, <1>5

\* The ticks and breaks of a capture.
SpiEdges(samples, count, cfg) == SpiTicks(Line(samples, count, cfg.clk_channel), cfg, count)
SpiPauses(samples, count, cfg) == SpiBreaks(Line(samples, count, cfg.cs_channel), count)

\* Ticks and breaks are samples.
LEMMA SpiTypes ==
  ASSUME NEW samples, NEW count \in Nat, NEW cfg
  PROVE  /\ SpiEdges(samples, count, cfg) \in SUBSET Nat /\ SpiEdges(samples, count, cfg) \subseteq 1..count-1
         /\ SpiPauses(samples, count, cfg) \in SUBSET Nat
  BY DEF SpiEdges, SpiPauses, SpiTicks, SpiBreaks, Inner

\* A byte is determined by the sample that it ends at.
LEMMA SpiWordsAt ==
  ASSUME NEW mosi, NEW miso, NEW T \in SUBSET Nat, NEW R
  PROVE  \A b \in SpiWords(mosi, miso, T, R) :
           /\ b.at \in Nat /\ b.at \in WordEnds(T, R, 8) /\ b.at \in T
           /\ b = [at |-> b.at, value0 |-> ByteAt(mosi, T, R, 8, b.at), value1 |-> ByteAt(miso, T, R, 8, b.at)]
  <1>1. \A e \in WordEnds(T, R, 8) : e \in T /\ e \in Nat
    BY DEF WordEnds
  <1> QED
    BY <1>1 DEF SpiWords

\* A sample at which no byte ends adds nothing.
LEMMA SpiSilent ==
  ASSUME NEW mosi, NEW miso, NEW T \in SUBSET Nat, NEW R, NEW i \in Nat, NEW max, NEW list,
         i + 1 \notin WordEnds(T, R, 8), Reports(list, UpTo(SpiWords(mosi, miso, T, R), i), max)
  PROVE  Reports(list, UpTo(SpiWords(mosi, miso, T, R), i + 1), max)
  <1>1. \A b \in SpiWords(mosi, miso, T, R) : b.at \in Nat /\ b.at # i + 1
    BY SpiWordsAt
  <1> QED
    BY <1>1, ReportsQuiet

\* The byte that ends at a sample is the next one of the report.
LEMMA SpiHeard ==
  ASSUME NEW mosi, NEW miso, NEW T \in SUBSET Nat, NEW R, NEW i \in Nat, NEW max \in Nat,
         NEW list \in Seq(SpiEvent), Len(list) < max,
         Reports(list, UpTo(SpiWords(mosi, miso, T, R), i), max),
         i + 1 \in WordEnds(T, R, 8), NEW mo \in 0..255, NEW mi \in 0..255,
         mo = ByteAt(mosi, T, R, 8, i + 1), mi = ByteAt(miso, T, R, 8, i + 1)
  PROVE  Reports(Append(list, [at |-> i + 1, value0 |-> mo, value1 |-> mi]),
                 UpTo(SpiWords(mosi, miso, T, R), i + 1), max)
  <1> DEFINE W == SpiWords(mosi, miso, T, R)
             b == [at |-> i + 1, value0 |-> mo, value1 |-> mi]
  <1>1. b \in W
    BY DEF SpiWords
  <1>2. \A a \in W : a.at \in Nat /\ (a.at = i + 1 => a = b)
    BY SpiWordsAt
  <1>3. b \in SpiEvent /\ b.at = i + 1
    BY DEF SpiEvent
  <1> HIDE DEF W, b
  <1>4. Reports(list, UpTo(W, i), max)
    BY DEF W
  <1>5. Reports(Append(list, b), UpTo(W, i + 1), max)
    BY <1>1, <1>2, <1>3, <1>4, ReportsMore
  <1> QED
    BY <1>5 DEF W, b

\* One sample.  A tick is the edge that the decoder samples at: its test of a
\* first edge to be passed over never holds.
LEMMA SpiTurn ==
  ASSUME NEW samples, NEW count \in Nat, NEW cfg, cfg.cpol \in {0, 1}, cfg.cpha \in {0, 1},
         NEW max \in Nat, NEW i \in Nat, i + 1 < count,
         NEW T, T = SpiEdges(samples, count, cfg), NEW R, R = SpiPauses(samples, count, cfg),
         NEW mosi, mosi = Line(samples, count, cfg.mosi_channel),
         NEW miso, miso = Line(samples, count, cfg.miso_channel),
         NEW s \in SpiState, SpiKnows(SpiSelect(s), mosi, miso, T, R, i), Len(s.events) < max,
         Reports(s.events, UpTo(SpiWords(mosi, miso, T, R), i), max),
         NEW new, new = SpiStep(s, samples[i], samples[i + 1], cfg, i + 1)
  PROVE  /\ SpiKnows(SpiSelect(new), mosi, miso, T, R, i + 1)
         /\ Reports(new.events, UpTo(SpiWords(mosi, miso, T, R), i + 1), max)
  <1> DEFINE clk == Line(samples, count, cfg.clk_channel)
             cs  == Line(samples, count, cfg.cs_channel)
             sel == SpiSelect(s)
  <1>1. /\ i \in 0..count-1 /\ i + 1 \in 0..count-1 /\ i + 1 \in Inner(count) /\ (i + 1) - 1 = i
    BY DEF Inner
  <1>2. /\ clk[i] = Bit(samples[i], cfg.clk_channel) /\ clk[i + 1] = Bit(samples[i + 1], cfg.clk_channel)
        /\ mosi[i + 1] = Bit(samples[i + 1], cfg.mosi_channel)
        /\ miso[i + 1] = Bit(samples[i + 1], cfg.miso_channel)
        /\ cs[i + 1] = Bit(samples[i + 1], cfg.cs_channel)
    BY <1>1 DEF Line
  <1>3. /\ mosi \in [0..count-1 -> 0..1] /\ miso \in [0..count-1 -> 0..1] /\ clk \in [0..count-1 -> 0..1]
        /\ cs \in [0..count-1 -> 0..1]
    BY DEF Line, Bit
  <1>4. T \in SUBSET Nat /\ R \in SUBSET Nat /\ T \subseteq 1..count-1
    BY SpiTypes
  <1>5. /\ i + 1 \in R <=> cs[i + 1] = 1
        /\ i + 1 \in T <=> clk[i] # clk[i + 1] /\ clk[i + 1] = IF cfg.cpha = 0 THEN 1 - cfg.cpol ELSE cfg.cpol
    BY <1>1 DEF SpiEdges, SpiPauses, SpiTicks, SpiBreaks
  <1> DEFINE edge == IF SampleOnRising(cfg) THEN Rises(clk[i], clk[i + 1]) ELSE Falls(clk[i], clk[i + 1])
             leading == clk[i] = cfg.cpol /\ sel.bits = 0 /\ cfg.cpha = 1
  <1>6. new = IF cs[i + 1] = 1 THEN SpiDeselect(s)
              ELSE IF ~edge \/ leading THEN sel
              ELSE SpiBit(sel, mosi[i + 1], miso[i + 1], i + 1)
    BY <1>2, Zenon DEF SpiStep
  <1>7. clk[i] \in 0..1 /\ clk[i + 1] \in 0..1
    BY <1>1, <1>3
  <1> HIDE DEF clk, cs
  <1>8. i + 1 \in T <=> edge /\ ~leading
    <2>1. CASE cfg.cpha = 0 /\ cfg.cpol = 0
      BY <1>5, <1>7, <2>1 DEF SampleOnRising, Rises, Falls
    <2>2. CASE cfg.cpha = 0 /\ cfg.cpol = 1
      BY <1>5, <1>7, <2>2 DEF SampleOnRising, Rises, Falls
    <2>3. CASE cfg.cpha = 1 /\ cfg.cpol = 0
      BY <1>5, <1>7, <2>3 DEF SampleOnRising, Rises, Falls
    <2>4. CASE cfg.cpha = 1 /\ cfg.cpol = 1
      BY <1>5, <1>7, <2>4 DEF SampleOnRising, Rises, Falls
    <2> QED
      BY <2>1, <2>2, <2>3, <2>4
  <1> HIDE DEF edge, leading
  <1>9. /\ sel \in SpiState /\ sel.active = TRUE /\ sel.events = s.events
    BY SpiSelected
  <1>10. \A e \in WordEnds(T, R, 8) : e \in T /\ e \notin R
    BY DEF WordEnds
  <1> HIDE DEF sel
  <1>11. CASE i + 1 \in R
    <2>1. new = SpiDeselect(s) /\ i + 1 \notin WordEnds(T, R, 8)
      BY <1>5, <1>6, <1>10, <1>11
    <2>2. SpiDeselect(s) \in SpiState /\ SpiDeselect(s).events = s.events /\ SpiDeselect(s).active = FALSE
      <3>1. 0 \in 0..7
        OBVIOUS
      <3>2. SpiDeselect(s) \in SpiState
        BY <3>1, Zenon DEF SpiDeselect, SpiState
      <3> QED
        BY <3>2 DEF SpiDeselect, SpiState
    <2>3. SpiSelect(new).bits = 0 /\ SpiSelect(new).mosi_byte = 0 /\ SpiSelect(new).miso_byte = 0
      <3>1. /\ SpiSelect(SpiDeselect(s)).bits = 0 /\ SpiSelect(SpiDeselect(s)).mosi_byte = 0
            /\ SpiSelect(SpiDeselect(s)).miso_byte = 0
        BY <2>2, SpiSelected, Zenon
      <3> QED
        BY <2>1, <3>1
    <2>4. Since(T, R, i + 1) = {}
      BY <1>4, <1>11, SinceBreak
    <2>5. SpiKnows(SpiSelect(new), mosi, miso, T, R, i + 1)
      BY <1>4, <2>3, <2>4, SpiAtBreak
    <2> QED
      BY <1>4, <2>1, <2>2, <2>5, SpiSilent
  <1>12. CASE i + 1 \notin R /\ i + 1 \notin T
    <2>1. new = sel /\ i + 1 \notin WordEnds(T, R, 8)
      BY <1>5, <1>6, <1>8, <1>10, <1>12
    <2>2. SpiSelect(new) = sel
      BY <1>9, <2>1, SpiSelected
    <2>3. SpiKnows(sel, mosi, miso, T, R, i + 1)
      BY <1>4, <1>12, SpiAtRest DEF sel
    <2> QED
      BY <1>4, <1>9, <2>1, <2>2, <2>3, SpiSilent
  <1>13. CASE i + 1 \notin R /\ i + 1 \in T
    <2>1. new = SpiBit(sel, mosi[i + 1], miso[i + 1], i + 1)
      BY <1>5, <1>6, <1>8, <1>13
    <2>2. mosi[i + 1] \in 0..1 /\ miso[i + 1] \in 0..1
      BY <1>1, <1>3
    <2>4. SpiKnows(sel, mosi, miso, T, R, i)
      BY DEF sel
    <2>5. BitsAt(mosi, T) /\ BitsAt(miso, T)
      BY <1>3, <1>4 DEF BitsAt
    <2>3. SpiBitRead(sel, SpiBit(sel, mosi[i + 1], miso[i + 1], i + 1), mosi, miso, T, R, i + 1)
      BY <1>4, <1>9, <1>13, <2>2, <2>4, <2>5, SpiAtBit, Zenon
    <2>6. SpiBitRead(sel, new, mosi, miso, T, R, i + 1)
      BY <2>1, <2>3
    <2>7. SpiSelect(new) = new
      <3>1. new.active = TRUE
        BY <1>9, <2>1 DEF SpiBit, SpiState
      <3> QED
        BY <3>1 DEF SpiSelect
    <2>8. CASE sel.bits # 7
      BY <1>4, <1>9, <2>6, <2>7, <2>8, SpiSilent DEF SpiBitRead
    <2>9. CASE sel.bits = 7
      <3>1. s.events \in Seq(SpiEvent)
        BY SpiFields
      <3>2. PICK mo \in 0..255, mi \in 0..255 :
              /\ new.events = Append(sel.events, [at |-> i + 1, value0 |-> mo, value1 |-> mi])
              /\ i + 1 \in WordEnds(T, R, 8)
              /\ mo = ByteAt(mosi, T, R, 8, i + 1) /\ mi = ByteAt(miso, T, R, 8, i + 1)
        BY <2>6, <2>9 DEF SpiBitRead
      <3>3. Reports(Append(s.events, [at |-> i + 1, value0 |-> mo, value1 |-> mi]),
                    UpTo(SpiWords(mosi, miso, T, R), i + 1), max)
        BY <1>4, <3>1, <3>2, SpiHeard, ZenonT(60)
      <3> QED
        BY <1>9, <2>6, <2>7, <3>2, <3>3 DEF SpiBitRead
    <2> QED
      BY <2>8, <2>9
  <1> QED
    BY <1>11, <1>12, <1>13

\* edt_decode_spi reports the bytes of the SPI bus in all four modes, of any samples.
LEMMA SpiExact ==
  ASSUME NEW samples, NEW count \in Nat, NEW cfg, cfg.cpol \in {0, 1}, cfg.cpha \in {0, 1}, NEW max \in Nat
  PROVE  Reports(EdtDecodeSpi(samples, count, cfg, max), SpiBytes(samples, count, cfg), max)
  <1>1. CASE ~(SpiChannels(cfg) \subseteq Channels)
    BY <1>1, ReportsNone DEF EdtDecodeSpi, SpiBytes, SpiChannels
  <1>2. CASE SpiChannels(cfg) \subseteq Channels /\ count = 0
    <2>1. EdtDecodeSpi(samples, count, cfg, max) = <<>>
      BY <1>2 DEF EdtDecodeSpi, RunOver, SpiChannels
    <2>2. SpiBytes(samples, count, cfg) = {}
      <3>1. Inner(count) = {}
        BY <1>2 DEF Inner
      <3> QED
        BY <1>2, <3>1 DEF SpiBytes, WordEnds, SpiTicks
    <2> QED
      BY <2>1, <2>2, ReportsNone
  <1>3. CASE SpiChannels(cfg) \subseteq Channels /\ count > 0
    <2>1. PICK a \in [Nat -> SpiState] : /\ SpiRun(a, samples, cfg, max)
                                         /\ EdtDecodeSpi(samples, count, cfg, max) = a[count - 1].events
      <3>1. count \in Nat \ {0}
        BY <1>3
      <3> QED
        BY <1>3, <3>1, SpiRuns
    <2>2. PICK T, R, mosi, miso : /\ T = SpiEdges(samples, count, cfg) /\ R = SpiPauses(samples, count, cfg)
                                  /\ mosi = Line(samples, count, cfg.mosi_channel)
                                  /\ miso = Line(samples, count, cfg.miso_channel)
      OBVIOUS
    <2>3. SpiBytes(samples, count, cfg) = SpiWords(mosi, miso, T, R)
      BY <1>3, <2>2 DEF SpiBytes, SpiWords, SpiChannels, SpiEdges, SpiPauses
    <2>4. T \in SUBSET Nat /\ R \in SUBSET Nat /\ T \subseteq 1..count-1
      BY <2>2, SpiTypes
    <2>5. \A b \in SpiWords(mosi, miso, T, R) : b.at \in Nat /\ b.at \in 1..count-1
      BY <2>4, SpiWordsAt
    <2> DEFINE Good(i) == /\ Reports(a[i].events, UpTo(SpiWords(mosi, miso, T, R), i), max)
                          /\ Len(a[i].events) < max => SpiKnows(SpiSelect(a[i]), mosi, miso, T, R, i)
               P == {i \in Nat : i < count => Good(i)}
    <2>6. 0 \in P
      <3>1. UpTo(SpiWords(mosi, miso, T, R), 0) = {}
        BY <2>5 DEF UpTo
      <3>2. a[0] = SpiIdle /\ SpiIdle.events = <<>>
        BY <2>1 DEF SpiIdle, SpiRun
      <3>3. SpiSelect(SpiIdle).bits = 0 /\ SpiSelect(SpiIdle).mosi_byte = 0 /\ SpiSelect(SpiIdle).miso_byte = 0
        BY DEF SpiSelect, SpiIdle
      <3>4. Since(T, R, 0) = {}
        <4>1. \A j \in T : ~(j <= 0)
          BY <2>4
        <4> QED
          BY <4>1 DEF Since
      <3>5. SpiKnows(SpiSelect(a[0]), mosi, miso, T, R, 0)
        <4>1. SpiKnows(SpiSelect(SpiIdle), mosi, miso, T, R, 0)
          BY <2>4, <3>3, <3>4, SpiAtBreak
        <4> QED
          BY <3>2, <4>1
      <3> QED
        BY <3>1, <3>2, <3>5, ReportsNone
    <2>7. ASSUME NEW i \in P PROVE i + 1 \in P
      <3>1. i \in Nat /\ i + 1 \in Nat /\ a[i] \in SpiState /\ a[i].events \in Seq(SpiEvent)
        BY SpiFields
      <3>2. SUFFICES ASSUME i + 1 < count PROVE Good(i + 1)
        BY <3>1
      <3>3. Good(i)
        BY <3>1, <3>2
      <3>4. CASE Len(a[i].events) < max
        <4>1. a[i + 1] = SpiStep(a[i], samples[i], samples[i + 1], cfg, i + 1)
          BY <2>1, <3>1, <3>4 DEF SpiRun
        <4>2. /\ SpiKnows(SpiSelect(a[i + 1]), mosi, miso, T, R, i + 1)
              /\ Reports(a[i + 1].events, UpTo(SpiWords(mosi, miso, T, R), i + 1), max)
          BY <2>2, <3>1, <3>2, <3>3, <3>4, <4>1, SpiTurn, SMTT(30)
        <4> QED
          BY <4>2
      <3>5. CASE ~(Len(a[i].events) < max)
        <4>1. a[i + 1] = a[i]
          BY <2>1, <3>1, <3>5 DEF SpiRun
        <4>2. Reports(a[i].events, UpTo(SpiWords(mosi, miso, T, R), i + 1), max)
          BY <2>5, <3>1, <3>3, <3>5, ReportsFull
        <4> QED
          BY <3>5, <4>1, <4>2
      <3> QED
        BY <3>4, <3>5
    <2>8. P = Nat
      <3>1. P \subseteq Nat
        OBVIOUS
      <3> HIDE DEF P
      <3> QED
        BY <2>6, <2>7, <3>1, CountUp, Zenon
    <2>9. Good(count - 1)
      <3>1. count - 1 \in Nat /\ count - 1 < count
        BY <1>3
      <3> QED
        BY <2>8, <3>1
    <2>10. UpTo(SpiWords(mosi, miso, T, R), count - 1) = SpiWords(mosi, miso, T, R)
      BY <2>5 DEF UpTo
    <2> QED
      BY <2>1, <2>3, <2>9, <2>10
  <1> QED
    BY <1>1, <1>2, <1>3

-------------------------------------------------------------------------------
(* UART                                                                     *)

\* The events that the UART decoder may find, and what it finds from sample i on
\* when f has what it finds from the later ones on.
UartEvents(rx, spb) == {[at |-> i, value0 |-> UartByte(rx, i, spb)] : i \in Nat}
UartFrom(f, rx, count, spb, i) ==
  IF i >= count THEN <<>>
  ELSE IF ~Falls(rx[i - 1], rx[i]) THEN f[i + 1]
  ELSE IF Middle(i, spb, 0) >= count THEN <<>>
  ELSE IF ~StartBitSeen(rx, i, spb) THEN f[i + 1]
  ELSE IF Middle(i, spb, 9) >= count THEN <<>>
  ELSE UartEvent(rx, i, spb, UartByte(rx, i, spb)) \o f[AfterFrame(i, spb)]

\* The samples of a frame come in the order of its bits.
LEMMA UartPlaces ==
  ASSUME NEW i \in Nat, NEW spb \in Nat
  PROVE  /\ Middle(i, spb, 0) \in Nat /\ Middle(i, spb, 9) \in Nat /\ AfterFrame(i, spb) \in Nat
         /\ i <= Middle(i, spb, 0) /\ Middle(i, spb, 0) <= Middle(i, spb, 9)
         /\ AfterFrame(i, spb) = Middle(i, spb, 9) + 1
         /\ \A j \in Nat : i <= j => /\ Middle(i, spb, 0) <= Middle(j, spb, 0)
                                     /\ Middle(i, spb, 9) <= Middle(j, spb, 9)
  <1>1. spb \div 2 \in Nat
    OBVIOUS
  <1>2. \A j : Middle(j, spb, 0) = j + spb \div 2 + 0 * spb /\ Middle(j, spb, 9) = j + spb \div 2 + 9 * spb
    BY DEF Middle
  <1>3. AfterFrame(i, spb) = Middle(i, spb, 9) + 1
    BY DEF AfterFrame
  <1> QED
    BY <1>1, <1>2, <1>3

\* The search yields events.
LEMMA UartFromType ==
  ASSUME NEW rx, NEW count \in Nat, NEW spb \in Nat, NEW f \in [Nat -> Seq(UartEvents(rx, spb))], NEW i \in Nat
  PROVE  UartFrom(f, rx, count, spb, i) \in Seq(UartEvents(rx, spb))
  <1> DEFINE Ev == UartEvents(rx, spb)
             e == UartEvent(rx, i, spb, UartByte(rx, i, spb))
  <1>1. AfterFrame(i, spb) \in Nat /\ i + 1 \in Nat
    BY UartPlaces
  <1>2. f[i + 1] \in Seq(Ev) /\ f[AfterFrame(i, spb)] \in Seq(Ev)
    BY <1>1
  <1>3. e \in Seq(Ev)
    <2>1. [at |-> i, value0 |-> UartByte(rx, i, spb)] \in Ev
      BY DEF UartEvents
    <2> HIDE DEF Ev
    <2> QED
      BY <2>1 DEF UartEvent
  <1> HIDE DEF Ev, e
  <1>4. e \o f[AfterFrame(i, spb)] \in Seq(Ev) /\ <<>> \in Seq(Ev)
    BY <1>2, <1>3
  <1>5. UartFrom(f, rx, count, spb, i) \in {<<>>, f[i + 1], e \o f[AfterFrame(i, spb)]}
    <2>1. i >= count \/ i < count
      OBVIOUS
    <2> QED
      BY <2>1 DEF UartFrom, e
  <1> QED
    BY <1>2, <1>4, <1>5 DEF Ev

\* There is a function that the search from each sample defines.
LEMMA UartFixed ==
  ASSUME NEW rx, NEW count \in Nat, NEW spb \in Nat
  PROVE  \E f \in [Nat -> Seq(UartEvents(rx, spb))] : f = [i \in Nat |-> UartFrom(f, rx, count, spb, i)]
  <1> DEFINE S == [Nat -> Seq(UartEvents(rx, spb))]
             e == [i \in Nat |-> <<>>]
             again(f) == [i \in Nat |-> UartFrom(f, rx, count, spb, i)]
             H == [k \in Nat |-> [f \in S |-> again(f)]]
  <1>1. e \in S
    OBVIOUS
  <1>2. \A f \in S : again(f) \in S
    BY UartFromType
  <1> HIDE DEF S, e, again
  <1>3. H \in [Nat -> [S -> S]]
    BY <1>2
  <1>4. PICK g \in [Nat -> S] : g[0] = e /\ \A k \in Nat : g[k + 1] = H[k + 1][g[k]]
    <2> HIDE DEF H
    <2>1. Runs(S, e, H) # {}
      BY <1>1, <1>3, RunExists, Zenon
    <2> QED
      BY <2>1 DEF Runs
  <1>5. \A k \in Nat : g[k + 1] = again(g[k])
    <2>1. \A k \in Nat, f \in S : H[k][f] = again(f)
      OBVIOUS
    <2> HIDE DEF H
    <2>2. ASSUME NEW k \in Nat PROVE g[k + 1] = again(g[k])
      <3>1. k + 1 \in Nat /\ g[k] \in S
        OBVIOUS
      <3> QED
        BY <1>4, <2>1, <3>1
    <2> QED
      BY <2>2
  <1>6. \A k, i \in Nat : g[k + 1][i] = UartFrom(g[k], rx, count, spb, i)
    BY <1>5 DEF again
  <1> HIDE DEF H
  <1> DEFINE P == {k \in Nat : \A i \in Nat : i + k >= count => g[k + 1][i] = g[k][i]}
  <1>7. 0 \in P
    <2>1. ASSUME NEW i \in Nat, i >= count PROVE g[0 + 1][i] = g[0][i]
      <3>1. UartFrom(g[0], rx, count, spb, i) = <<>>
        BY <2>1 DEF UartFrom
      <3>2. g[0][i] = <<>>
        BY <1>4 DEF e
      <3>3. g[0 + 1][i] = UartFrom(g[0], rx, count, spb, i)
        BY <1>6
      <3> QED
        BY <3>1, <3>2, <3>3
    <2> QED
      BY <2>1
  <1>8. ASSUME NEW k \in P PROVE k + 1 \in P
    <2>1. k \in Nat /\ k + 1 \in Nat /\ \A i \in Nat : i + k >= count => g[k + 1][i] = g[k][i]
      OBVIOUS
    <2>2. ASSUME NEW i \in Nat, i + (k + 1) >= count PROVE g[(k + 1) + 1][i] = g[k + 1][i]
      <3>1. i + 1 \in Nat /\ AfterFrame(i, spb) \in Nat /\ AfterFrame(i, spb) >= i + 1
        BY UartPlaces
      <3>2. (i + 1) + k >= count /\ AfterFrame(i, spb) + k >= count
        BY <2>1, <2>2, <3>1
      <3>3. g[k + 1][i + 1] = g[k][i + 1] /\ g[k + 1][AfterFrame(i, spb)] = g[k][AfterFrame(i, spb)]
        BY <2>1, <3>1, <3>2
      <3>4. UartFrom(g[k + 1], rx, count, spb, i) = UartFrom(g[k], rx, count, spb, i)
        BY <3>3, Zenon DEF UartFrom
      <3> QED
        BY <1>6, <2>1, <3>4
    <2> QED
      BY <2>1, <2>2
  <1>9. P = Nat
    <2>1. P \subseteq Nat
      OBVIOUS
    <2> HIDE DEF P
    <2> QED
      BY <1>7, <1>8, <2>1, CountUp, Zenon
  <1>10. PICK f \in S : f = g[count]
    OBVIOUS
  <1>11. \A i \in Nat : g[count + 1][i] = g[count][i]
    <2>1. \A i \in Nat : i + count >= count
      OBVIOUS
    <2> QED
      BY <1>9, <2>1
  <1>12. \A i \in Nat : f[i] = UartFrom(f, rx, count, spb, i)
    BY <1>6, <1>10, <1>11
  <1>13. f = [i \in Nat |-> UartFrom(f, rx, count, spb, i)]
    BY <1>12 DEF S
  <1> QED
    BY <1>13 DEF S

\* So the recursion of the decoder is one.
LEMMA UartRuns ==
  ASSUME NEW samples, NEW count \in Nat, NEW cfg, NEW max, UartConfigOK(cfg), SamplesPerBit(cfg) \in Nat
  PROVE  \E f : /\ \A i \in Nat : f[i] = UartFrom(f, Line(samples, count, cfg.rx_channel), count, SamplesPerBit(cfg), i)
                /\ EdtDecodeUart(samples, count, cfg, max) = First(f[1], max)
  <1> DEFINE rx == Line(samples, count, cfg.rx_channel)
             spb == SamplesPerBit(cfg)
             Eq(f) == f = [i \in Nat |->
               IF i >= count THEN <<>>
               ELSE IF ~Falls(rx[i - 1], rx[i]) THEN f[i + 1]
               ELSE IF Middle(i, spb, 0) >= count THEN <<>>
               ELSE IF ~StartBitSeen(rx, i, spb) THEN f[i + 1]
               ELSE IF Middle(i, spb, 9) >= count THEN <<>>
               ELSE UartEvent(rx, i, spb, UartByte(rx, i, spb)) \o f[AfterFrame(i, spb)]]
             from_ == CHOOSE f : Eq(f)
  <1>1. EdtDecodeUart(samples, count, cfg, max) = First(from_[1], max)
    BY DEF EdtDecodeUart
  <1>2. \A f : Eq(f) <=> f = [i \in Nat |-> UartFrom(f, rx, count, spb, i)]
    BY DEF UartFrom
  <1> HIDE DEF Eq
  <1>3. \E f : Eq(f)
    <2>1. PICK f \in [Nat -> Seq(UartEvents(rx, spb))] : f = [i \in Nat |-> UartFrom(f, rx, count, spb, i)]
      BY UartFixed, Zenon
    <2> QED
      BY <1>2, <2>1, Zenon
  <1>4. Eq(from_)
    BY <1>3, Zenon
  <1> HIDE DEF from_
  <1>5. \A i \in Nat : from_[i] = UartFrom(from_, rx, count, spb, i)
    BY <1>2, <1>4
  <1> QED
    BY <1>1, <1>5

\* Where a start bit is seen.
StartBits(rx, count, spb) == {i \in Inner(count) : StartBit(rx, count, spb, i)}

\* No frame of B covers sample i.
Clear(B, spb, i) == \A j \in B : j < i => Middle(j, spb, 9) < i

\* The recursion in Frames has a solution.
LEMMA FramesFixed ==
  ASSUME NEW rx, NEW count \in Nat, NEW spb
  PROVE  \E B \in SUBSET StartBits(rx, count, spb) : B = {i \in StartBits(rx, count, spb) : Clear(B, spb, i)}
  <1> DEFINE X == StartBits(rx, count, spb)
             S == SUBSET X
             again(B) == {i \in X : Clear(B, spb, i)}
             H == [k \in Nat |-> [B \in S |-> again(B)]]
  <1>1. X \subseteq Inner(count) /\ Inner(count) \subseteq Nat /\ \A i \in Inner(count) : i >= 1 /\ i < count
    BY DEF StartBits, Inner
  <1>2. {} \in S /\ \A B \in S : again(B) \in S
    OBVIOUS
  <1> HIDE DEF again, X
  <1>3. H \in [Nat -> [S -> S]]
    BY <1>2
  <1>4. PICK g \in [Nat -> S] : g[0] = {} /\ \A k \in Nat : g[k + 1] = H[k + 1][g[k]]
    <2> HIDE DEF H, S
    <2>1. Runs(S, {}, H) # {}
      BY <1>2, <1>3, RunExists, Zenon
    <2> QED
      BY <2>1 DEF Runs
  <1>5. \A k \in Nat : g[k + 1] = again(g[k])
    <2>1. \A k \in Nat, B \in S : H[k][B] = again(B)
      OBVIOUS
    <2> HIDE DEF H, S
    <2>2. ASSUME NEW k \in Nat PROVE g[k + 1] = again(g[k])
      <3>1. k + 1 \in Nat /\ g[k] \in S
        OBVIOUS
      <3> QED
        BY <1>4, <2>1, <3>1
    <2> QED
      BY <2>2
  <1> HIDE DEF H
  <1> DEFINE P == {k \in Nat : \A i \in X : i <= k => (i \in g[k + 1] <=> i \in g[k])}
  <1>6. 0 \in P
    BY <1>1
  <1>7. ASSUME NEW k \in P PROVE k + 1 \in P
    <2>1. k \in Nat /\ k + 1 \in Nat /\ \A i \in X : i <= k => (i \in g[k + 1] <=> i \in g[k])
      OBVIOUS
    <2>2. ASSUME NEW i \in X, i <= k + 1 PROVE i \in g[(k + 1) + 1] <=> i \in g[k + 1]
      <3>1. i \in Nat /\ g[k + 1] \subseteq X /\ g[k] \subseteq X
        BY <1>1, <2>1
      <3>2. \A j \in X : j < i => (j \in g[k + 1] <=> j \in g[k])
        <4>1. \A j \in X : j \in Nat /\ (j < i => j <= k)
          BY <1>1, <2>1, <2>2, <3>1
        <4> QED
          BY <2>1, <4>1
      <3>3. Clear(g[k + 1], spb, i) <=> Clear(g[k], spb, i)
        BY <3>1, <3>2 DEF Clear
      <3>4. g[(k + 1) + 1] = again(g[k + 1]) /\ g[k + 1] = again(g[k])
        BY <1>5, <2>1
      <3> QED
        BY <3>3, <3>4 DEF again
    <2> QED
      BY <2>1, <2>2
  <1>8. P = Nat
    <2>1. P \subseteq Nat
      OBVIOUS
    <2> HIDE DEF P
    <2> QED
      BY <1>6, <1>7, <2>1, CountUp, Zenon
  <1>9. \A i \in X : i \in g[count + 1] <=> i \in g[count]
    <2>1. \A i \in X : i <= count
      BY <1>1
    <2> QED
      BY <1>8, <2>1
  <1>10. g[count] \in S /\ g[count + 1] \in S /\ g[count + 1] = again(g[count])
    BY <1>5
  <1>11. g[count] = again(g[count])
    BY <1>9, <1>10
  <1> QED
    BY <1>10, <1>11, Zenon DEF again, X

\* So Frames is the set of the start bits that no earlier frame covers.
LEMMA FramesAre ==
  ASSUME NEW rx, NEW count \in Nat, NEW spb
  PROVE  Frames(rx, count, spb) = {i \in StartBits(rx, count, spb) : Clear(Frames(rx, count, spb), spb, i)}
  <1> DEFINE X == StartBits(rx, count, spb)
             Eq(b) == b = [i \in X |-> \A j \in X : j < i /\ b[j] => Middle(j, spb, 9) < i]
             begins == CHOOSE b : Eq(b)
  <1>1. Frames(rx, count, spb) = {i \in X : begins[i]}
    BY DEF Frames, StartBits
  <1>2. PICK B \in SUBSET X : B = {i \in X : Clear(B, spb, i)}
    BY FramesFixed, ZenonT(60)
  <1> HIDE DEF X
  <1>3. Eq([i \in X |-> i \in B])
    <2> DEFINE b == [i \in X |-> i \in B]
    <2>1. \A i \in X : i \in B <=> \A j \in X : j < i /\ b[j] => Middle(j, spb, 9) < i
      BY <1>2 DEF Clear
    <2>2. PICK c : c = [i \in X |-> \A j \in X : j < i /\ b[j] => Middle(j, spb, 9) < i]
      OBVIOUS
    <2>3. ASSUME NEW i \in X PROVE b[i] = c[i]
      <3>1. b[i] = (i \in B)
        OBVIOUS
      <3>2. c[i] = (\A j \in X : j < i /\ b[j] => Middle(j, spb, 9) < i)
        <4> HIDE DEF b
        <4> QED
          BY <2>2, Zenon
      <3>3. (i \in B) = (\A j \in X : j < i /\ b[j] => Middle(j, spb, 9) < i)
        <4> HIDE DEF b
        <4>1. CASE i \in B
          BY <2>1, <4>1
        <4>2. CASE i \notin B
          <5>1. ~\A j \in X : j < i /\ b[j] => Middle(j, spb, 9) < i
            BY <2>1, <4>2, Zenon
          <5>2. (\A j \in X : j < i /\ b[j] => Middle(j, spb, 9) < i) = FALSE
            BY <5>1, Zenon
          <5>3. (i \in B) = FALSE
            BY <4>2
          <5> QED
            BY <5>2, <5>3, Zenon
        <4> QED
          BY <4>1, <4>2
      <3> QED
        BY <3>1, <3>2, <3>3, Zenon
    <2>4. b = c
      BY <2>2, <2>3
    <2> QED
      BY <2>2, <2>4, Zenon
  <1>4. Eq(begins)
    <2> HIDE DEF Eq
    <2> QED
      BY <1>3, Zenon
  <1> HIDE DEF begins
  <1>5. \A i \in X : begins[i] <=> \A j \in X : j < i /\ begins[j] => Middle(j, spb, 9) < i
    BY <1>4, Zenon
  <1>6. PICK F : F = {j \in X : begins[j]}
    OBVIOUS
  <1>7. \A i \in X : i \in F <=> begins[i]
    BY <1>6, Zenon
  <1>8. F \subseteq X
    BY <1>6, Zenon
  <1>9. \A i \in X : i \in F <=> Clear(F, spb, i)
    <2>1. ASSUME NEW i \in X PROVE Clear(F, spb, i) <=> \A j \in X : j < i /\ begins[j] => Middle(j, spb, 9) < i
      BY <1>7, <1>8, Zenon DEF Clear
    <2> QED
      BY <1>5, <1>7, <2>1, Zenon
  <1>10. F = {i \in X : Clear(F, spb, i)}
    BY <1>8, <1>9
  <1> QED
    BY <1>1, <1>6, <1>10 DEF X

\* s has the elements of X in the order of their time stamps.
Lists(s, E, X) ==
  /\ s \in Seq(E) /\ X \subseteq E
  /\ \A k, l \in 1..Len(s) : k < l => s[k].at < s[l].at
  /\ \A k \in 1..Len(s) : s[k] \in X
  /\ \A b \in X : \E k \in 1..Len(s) : s[k] = b

\* The empty list.
LEMMA ListsNone == ASSUME NEW E PROVE Lists(<<>>, E, {})
  BY DEF Lists

\* A list that begins with an earlier event.
LEMMA ListsCons ==
  ASSUME NEW E, NEW s, NEW X, Lists(s, E, X), NEW b \in E, b.at \in Nat, \A a \in X : a.at \in Nat /\ b.at < a.at
  PROVE  Lists(<<b>> \o s, E, {b} \cup X)
  <1> DEFINE n == Len(s)
             t == <<b>> \o s
  <1>1. n \in Nat /\ s \in Seq(E) /\ X \subseteq E
    BY DEF Lists
  <1>2. t \in Seq(E) /\ Len(t) = n + 1 /\ t[1] = b /\ \A k \in 2..n+1 : t[k] = s[k - 1] /\ k - 1 \in 1..n
    BY <1>1
  <1>3. \A k \in 1..n : k + 1 \in 2..n+1 /\ t[k + 1] = s[k]
    <2>1. \A k \in 1..n : k + 1 \in 2..n+1 /\ (k + 1) - 1 = k
      BY <1>1
    <2> QED
      BY <1>2, <2>1
  <1> HIDE DEF t
  <1>4. \A k \in 1..n+1 : k = 1 \/ k \in 2..n+1
    BY <1>1
  <1>5. ASSUME NEW k \in 1..n+1, NEW l \in 1..n+1, k < l PROVE t[k].at < t[l].at
    <2>1. l \in 2..n+1 /\ t[l] = s[l - 1] /\ l - 1 \in 1..n
      BY <1>2, <1>4, <1>5
    <2>2. CASE k = 1
      <3>1. s[l - 1] \in X
        BY <2>1 DEF Lists
      <3> QED
        BY <1>2, <2>1, <2>2, <3>1
    <2>3. CASE k \in 2..n+1
      <3>1. t[k] = s[k - 1] /\ k - 1 \in 1..n /\ k - 1 < l - 1
        BY <1>2, <1>5, <2>3
      <3> QED
        BY <2>1, <3>1 DEF Lists
    <2> QED
      BY <1>4, <2>2, <2>3
  <1>6. \A k \in 1..n+1 : t[k] \in {b} \cup X
    BY <1>2, <1>4 DEF Lists
  <1>7. \A a \in {b} \cup X : \E k \in 1..n+1 : t[k] = a
    <2>1. \E k \in 1..n+1 : t[k] = b
      BY <1>1, <1>2
    <2>2. ASSUME NEW a \in X PROVE \E k \in 1..n+1 : t[k] = a
      <3>1. PICK k \in 1..n : s[k] = a
        BY DEF Lists
      <3>2. k + 1 \in 1..n+1 /\ t[k + 1] = a
        BY <1>1, <1>3, <3>1
      <3> QED
        BY <3>2
    <2> QED
      BY <2>1, <2>2
  <1> QED
    BY <1>1, <1>2, <1>5, <1>6, <1>7 DEF Lists, t

\* The first max events of a list are a report.
LEMMA ListsReports ==
  ASSUME NEW E, NEW s, NEW X, Lists(s, E, X), NEW max \in Nat
  PROVE  Reports(First(s, max), X, max)
  <1> DEFINE n == Len(s)
             m == IF n < max THEN n ELSE max
             t == First(s, max)
  <1>1. n \in Nat /\ s \in Seq(E) /\ m \in Nat /\ m <= n /\ m <= max
    BY DEF Lists
  <1>2. Len(t) = m /\ DOMAIN t = 1..m /\ \A k \in 1..m : t[k] = s[k] /\ k \in 1..n
    BY <1>1 DEF First
  <1> HIDE DEF t
  <1>3. \A k, l \in 1..m : k < l => t[k].at < t[l].at
    BY <1>2 DEF Lists
  <1>4. \A k \in 1..m : t[k] \in X
    BY <1>2 DEF Lists
  <1>5. ASSUME NEW b \in X
        PROVE  (\E k \in 1..m : t[k] = b) \/ (m = max /\ \A k \in 1..m : t[k].at < b.at)
    <2>1. PICK l \in 1..n : s[l] = b
      BY DEF Lists
    <2>2. CASE l \in 1..m
      BY <1>2, <2>1, <2>2
    <2>3. CASE l \notin 1..m
      <3>1. m = max /\ \A k \in 1..m : k < l
        BY <1>1, <2>3
      <3>2. \A k \in 1..m : s[k].at < s[l].at
        BY <1>2, <3>1 DEF Lists
      <3> QED
        BY <1>2, <2>1, <3>1, <3>2
    <2> QED
      BY <2>2, <2>3
  <1> HIDE DEF m
  <1> QED
    BY <1>1, <1>2, <1>3, <1>4, <1>5 DEF Reports, t

\* The frames of B from sample i on that are complete, and the bytes in them.
Whole(B, rx, count, spb, i) == {j \in B : i <= j /\ Middle(j, spb, 9) < count /\ rx[Middle(j, spb, 9)] = 1}
Heard(B, rx, count, spb, i) ==
  {[at |-> j, value0 |-> UartByte(rx, j, spb)] : j \in Whole(B, rx, count, spb, i)}

\* Frames do not overlap, and every start bit outside them begins one.
Framed(B, rx, count, spb) ==
  B \subseteq Nat \ {0} /\ \A i \in Nat : i \in B <=> i \in StartBits(rx, count, spb) /\ Clear(B, spb, i)

\* Bytes begin where their frames do.
LEMMA HeardAt ==
  ASSUME NEW B, NEW rx, NEW count, NEW spb, NEW i, B \subseteq Nat
  PROVE  /\ Heard(B, rx, count, spb, i) \subseteq UartEvents(rx, spb)
         /\ \A b \in Heard(B, rx, count, spb, i) : b.at \in B /\ i <= b.at
  BY DEF Heard, UartEvents, Whole

\* No frame begins at sample i.
LEMMA UartPassed ==
  ASSUME NEW B, NEW rx, NEW count \in Nat, NEW spb \in Nat, Framed(B, rx, count, spb),
         NEW i \in Nat, Clear(B, spb, i), i \notin B
  PROVE  /\ Clear(B, spb, i + 1)
         /\ Heard(B, rx, count, spb, i + 1) = Heard(B, rx, count, spb, i)
  <1>1. \A j \in B : j \in Nat /\ Middle(j, spb, 9) \in Nat
    BY UartPlaces DEF Framed
  <1>2. \A j \in B : j < i + 1 => j < i
    BY <1>1
  <1>3. Clear(B, spb, i + 1)
    BY <1>1, <1>2 DEF Clear
  <1>4. \A j \in B : i <= j <=> i + 1 <= j
    BY <1>1
  <1>5. Whole(B, rx, count, spb, i + 1) = Whole(B, rx, count, spb, i)
    BY <1>4 DEF Whole
  <1> QED
    BY <1>3, <1>5 DEF Heard

\* No frame that begins later is complete if one that begins at i would not be.
LEMMA UartEnds ==
  ASSUME NEW B, NEW rx, NEW count \in Nat, NEW spb \in Nat, Framed(B, rx, count, spb),
         NEW i \in Nat, Middle(i, spb, 9) >= count
  PROVE  Heard(B, rx, count, spb, i) = {}
  <1>1. \A j \in B : i <= j => ~(Middle(j, spb, 9) < count)
    <2>1. ASSUME NEW j \in B, i <= j PROVE ~(Middle(j, spb, 9) < count)
      <3>1. j \in Nat
        BY DEF Framed
      <3>2. /\ Middle(i, spb, 9) \in Nat /\ Middle(j, spb, 9) \in Nat
            /\ Middle(i, spb, 9) <= Middle(j, spb, 9)
        BY <2>1, <3>1, UartPlaces
      <3> QED
        BY <3>2
    <2> QED
      BY <2>1
  <1>2. Whole(B, rx, count, spb, i) = {}
    BY <1>1 DEF Whole
  <1> QED
    BY <1>2 DEF Heard

\* A frame begins at sample i.
LEMMA UartFrame ==
  ASSUME NEW B, NEW rx, NEW count \in Nat, NEW spb \in Nat, Framed(B, rx, count, spb),
         NEW i \in B, Clear(B, spb, i), Middle(i, spb, 9) < count
  PROVE  /\ Clear(B, spb, AfterFrame(i, spb))
         /\ Heard(B, rx, count, spb, i) = IF rx[Middle(i, spb, 9)] = 1
                THEN {[at |-> i, value0 |-> UartByte(rx, i, spb)]}
                        \cup Heard(B, rx, count, spb, AfterFrame(i, spb))
                ELSE Heard(B, rx, count, spb, AfterFrame(i, spb))
         /\ \A a \in Heard(B, rx, count, spb, AfterFrame(i, spb)) : a.at \in Nat /\ i < a.at
  <1>0. PICK n : n = AfterFrame(i, spb)
    OBVIOUS
  <1>1. /\ B \subseteq Nat /\ i \in Nat /\ n \in Nat /\ n = Middle(i, spb, 9) + 1 /\ i < n
        /\ Middle(i, spb, 9) \in Nat
    <2>1. B \subseteq Nat /\ i \in Nat
      BY DEF Framed
    <2>2. /\ Middle(i, spb, 9) \in Nat /\ n \in Nat /\ n = Middle(i, spb, 9) + 1
          /\ i <= Middle(i, spb, 0) /\ Middle(i, spb, 0) <= Middle(i, spb, 9) /\ Middle(i, spb, 0) \in Nat
      BY <1>0, <2>1, UartPlaces
    <2> QED
      BY <2>1, <2>2
  <1>2. \A j \in B : j \in Nat /\ Middle(j, spb, 9) \in Nat
    BY <1>1, UartPlaces
  <1>3. ASSUME NEW j \in B, i < j PROVE n <= j
    <2>1. Clear(B, spb, j) /\ j \in Nat
      BY <1>2 DEF Framed
    <2>2. Middle(i, spb, 9) < j
      BY <1>3, <2>1 DEF Clear
    <2> QED
      BY <1>1, <2>1, <2>2
  <1>4. ASSUME NEW j \in B, j < n PROVE Middle(j, spb, 9) < n
    <2>1. j \in Nat /\ Middle(j, spb, 9) \in Nat
      BY <1>2
    <2>2. CASE j < i
      <3>1. Middle(j, spb, 9) < i
        BY <2>2 DEF Clear
      <3> QED
        BY <1>1, <2>1, <3>1
    <2>3. CASE j = i
      BY <1>1, <2>3
    <2>4. CASE i < j
      BY <1>1, <1>3, <1>4, <2>1, <2>4
    <2> QED
      BY <1>1, <2>1, <2>2, <2>3, <2>4
  <1>5. \A j \in B : i <= j <=> j = i \/ n <= j
    BY <1>1, <1>2, <1>3
  <1>6. Whole(B, rx, count, spb, i) = IF rx[Middle(i, spb, 9)] = 1
          THEN {i} \cup Whole(B, rx, count, spb, n) ELSE Whole(B, rx, count, spb, n)
    BY <1>5 DEF Whole
  <1>7. Heard(B, rx, count, spb, i) = IF rx[Middle(i, spb, 9)] = 1
          THEN {[at |-> i, value0 |-> UartByte(rx, i, spb)]} \cup Heard(B, rx, count, spb, n)
          ELSE Heard(B, rx, count, spb, n)
    <2>1. CASE rx[Middle(i, spb, 9)] = 1
      <3>1. Whole(B, rx, count, spb, i) = {i} \cup Whole(B, rx, count, spb, n)
        BY <1>6, <2>1
      <3> QED
        BY <2>1, <3>1 DEF Heard
    <2>2. CASE rx[Middle(i, spb, 9)] # 1
      BY <1>6, <2>2 DEF Heard
    <2> QED
      BY <2>1, <2>2
  <1>8. \A a \in Heard(B, rx, count, spb, n) : a.at \in Nat /\ i < a.at
    <2>1. \A a \in Heard(B, rx, count, spb, n) : a.at \in B /\ n <= a.at
      BY <1>1, HeardAt
    <2>2. \A j \in B : n <= j => j \in Nat /\ i < j
      BY <1>1, <1>2
    <2> QED
      BY <2>1, <2>2
  <1>9. Clear(B, spb, n)
    BY <1>4 DEF Clear
  <1> QED
    BY <1>0, <1>7, <1>8, <1>9

\* What the search finds from sample i on, if what it finds from later ones on is right.
LEMMA UartTurn ==
  ASSUME NEW B, NEW rx, NEW count \in Nat, NEW spb \in Nat, Framed(B, rx, count, spb),
         NEW f, NEW i \in Nat \ {0}, f[i] = UartFrom(f, rx, count, spb, i), Clear(B, spb, i),
         Clear(B, spb, i + 1) => Lists(f[i + 1], UartEvents(rx, spb), Heard(B, rx, count, spb, i + 1)),
         Clear(B, spb, AfterFrame(i, spb)) =>
            Lists(f[AfterFrame(i, spb)], UartEvents(rx, spb), Heard(B, rx, count, spb, AfterFrame(i, spb)))
  PROVE  Lists(f[i], UartEvents(rx, spb), Heard(B, rx, count, spb, i))
  <1> DEFINE Ev == UartEvents(rx, spb)
  <1>1. /\ Middle(i, spb, 0) \in Nat /\ Middle(i, spb, 9) \in Nat
        /\ i <= Middle(i, spb, 0) /\ Middle(i, spb, 0) <= Middle(i, spb, 9)
    BY UartPlaces
  <1>2. i \in B <=> i < count /\ StartBit(rx, count, spb, i)
    <2>1. i \in Inner(count) <=> i < count
      BY DEF Inner
    <2> QED
      BY <2>1 DEF Framed, StartBits
  <1>3. CASE Middle(i, spb, 9) >= count /\ f[i] = <<>>
    <2>1. Heard(B, rx, count, spb, i) = {}
      BY <1>3, UartEnds
    <2> QED
      BY <1>3, <2>1, ListsNone
  <1>4. CASE i \notin B /\ f[i] = f[i + 1]
    <2>1. Clear(B, spb, i + 1) /\ Heard(B, rx, count, spb, i + 1) = Heard(B, rx, count, spb, i)
      BY <1>4, UartPassed
    <2> QED
      BY <1>4, <2>1
  <1>5. CASE /\ i \in B /\ Middle(i, spb, 9) < count
             /\ f[i] = UartEvent(rx, i, spb, UartByte(rx, i, spb)) \o f[AfterFrame(i, spb)]
    <2>1. PICK n : n = AfterFrame(i, spb)
      OBVIOUS
    <2>2. /\ Clear(B, spb, n)
          /\ Heard(B, rx, count, spb, i) = IF rx[Middle(i, spb, 9)] = 1
                THEN {[at |-> i, value0 |-> UartByte(rx, i, spb)]} \cup Heard(B, rx, count, spb, n)
                ELSE Heard(B, rx, count, spb, n)
          /\ \A a \in Heard(B, rx, count, spb, n) : a.at \in Nat /\ i < a.at
      <3>1. /\ Clear(B, spb, AfterFrame(i, spb))
            /\ Heard(B, rx, count, spb, i) = IF rx[Middle(i, spb, 9)] = 1
                  THEN {[at |-> i, value0 |-> UartByte(rx, i, spb)]}
                          \cup Heard(B, rx, count, spb, AfterFrame(i, spb))
                  ELSE Heard(B, rx, count, spb, AfterFrame(i, spb))
            /\ \A a \in Heard(B, rx, count, spb, AfterFrame(i, spb)) : a.at \in Nat /\ i < a.at
        BY <1>5, UartFrame, Zenon
      <3> QED
        BY <2>1, <3>1
    <2>3. Lists(f[n], Ev, Heard(B, rx, count, spb, n))
      BY <2>1, <2>2
    <2>4. CASE rx[Middle(i, spb, 9)] = 1
      <3>1. PICK b \in Ev : b = [at |-> i, value0 |-> UartByte(rx, i, spb)]
        BY DEF UartEvents
      <3>2. f[i] = <<b>> \o f[n] /\ Heard(B, rx, count, spb, i) = {b} \cup Heard(B, rx, count, spb, n) /\ b.at = i
        BY <1>5, <2>1, <2>2, <2>4, <3>1 DEF UartEvent
      <3>3. Lists(<<b>> \o f[n], Ev, {b} \cup Heard(B, rx, count, spb, n))
        <4>1. b.at \in Nat /\ \A a \in Heard(B, rx, count, spb, n) : a.at \in Nat /\ b.at < a.at
          BY <2>2, <3>2
        <4> HIDE DEF Ev
        <4> QED
          BY <2>3, <4>1, ListsCons
      <3> QED
        BY <3>2, <3>3
    <2>5. CASE rx[Middle(i, spb, 9)] # 1
      <3>1. f[i] = <<>> \o f[n] /\ f[n] \in Seq(Ev)
        BY <1>5, <2>1, <2>3, <2>5 DEF UartEvent, Lists
      <3>2. f[i] = f[n]
        <4> HIDE DEF Ev
        <4> QED
          BY <3>1
      <3> QED
        BY <2>2, <2>3, <2>5, <3>2
    <2> QED
      BY <2>4, <2>5
  <1>6. f[i] = IF i >= count THEN <<>>
               ELSE IF ~Falls(rx[i - 1], rx[i]) THEN f[i + 1]
               ELSE IF Middle(i, spb, 0) >= count THEN <<>>
               ELSE IF ~StartBitSeen(rx, i, spb) THEN f[i + 1]
               ELSE IF Middle(i, spb, 9) >= count THEN <<>>
               ELSE UartEvent(rx, i, spb, UartByte(rx, i, spb)) \o f[AfterFrame(i, spb)]
    BY Zenon DEF UartFrom
  <1>7. i >= count \/ Middle(i, spb, 0) >= count => Middle(i, spb, 9) >= count
    BY <1>1
  <1>8. (i < count <=> ~(i >= count)) /\ (Middle(i, spb, 0) < count <=> ~(Middle(i, spb, 0) >= count))
        /\ (Middle(i, spb, 9) < count <=> ~(Middle(i, spb, 9) >= count))
    BY <1>1
  <1> QED
    BY <1>2, <1>3, <1>4, <1>5, <1>6, <1>7, <1>8, Zenon DEF StartBit, StartBitSeen

\* Frames is framed.
LEMMA FramesFramed ==
  ASSUME NEW rx, NEW count \in Nat, NEW spb
  PROVE  Framed(Frames(rx, count, spb), rx, count, spb)
  <1>1. StartBits(rx, count, spb) \subseteq Nat \ {0}
    BY DEF StartBits, Inner
  <1>2. Frames(rx, count, spb) = {i \in StartBits(rx, count, spb) : Clear(Frames(rx, count, spb), spb, i)}
    BY FramesAre, Zenon
  <1>3. PICK B : B = Frames(rx, count, spb)
    OBVIOUS
  <1>4. B = {i \in StartBits(rx, count, spb) : Clear(B, spb, i)}
    BY <1>2, <1>3
  <1>5. Framed(B, rx, count, spb)
    BY <1>1, <1>4 DEF Framed
  <1> QED
    BY <1>3, <1>5

\* From any sample on that no frame covers the search finds exactly the frames.
LEMMA UartFound ==
  ASSUME NEW B, NEW rx, NEW count \in Nat, NEW spb \in Nat, Framed(B, rx, count, spb),
         NEW f, \A i \in Nat : f[i] = UartFrom(f, rx, count, spb, i)
  PROVE  Lists(f[1], UartEvents(rx, spb), Heard(B, rx, count, spb, 1))
  <1> DEFINE Good(i) == Lists(f[i], UartEvents(rx, spb), Heard(B, rx, count, spb, i))
             P == {k \in Nat : \A i \in Nat \ {0} : i + k >= count /\ Clear(B, spb, i) => Good(i)}
  <1>1. 0 \in P
    <2>1. ASSUME NEW i \in Nat \ {0}, i >= count PROVE Good(i)
      <3>1. f[i] = <<>>
        BY <2>1 DEF UartFrom
      <3>2. Middle(i, spb, 9) >= count
        <4>1. i <= Middle(i, spb, 0) /\ Middle(i, spb, 0) <= Middle(i, spb, 9)
              /\ Middle(i, spb, 0) \in Nat /\ Middle(i, spb, 9) \in Nat
          BY UartPlaces
        <4> QED
          BY <2>1, <4>1
      <3>3. Heard(B, rx, count, spb, i) = {}
        BY <3>2, UartEnds
      <3> QED
        BY <3>1, <3>3, ListsNone
    <2> HIDE DEF Good
    <2> QED
      BY <2>1
  <1>2. ASSUME NEW k \in P PROVE k + 1 \in P
    <2>1. k \in Nat /\ k + 1 \in Nat /\ \A i \in Nat \ {0} : i + k >= count /\ Clear(B, spb, i) => Good(i)
      OBVIOUS
    <2>2. ASSUME NEW i \in Nat \ {0}, i + (k + 1) >= count, Clear(B, spb, i) PROVE Good(i)
      <3>1. i + 1 \in Nat \ {0} /\ AfterFrame(i, spb) \in Nat \ {0} /\ AfterFrame(i, spb) >= i + 1
        <4>1. /\ Middle(i, spb, 0) \in Nat /\ Middle(i, spb, 9) \in Nat
              /\ i <= Middle(i, spb, 0) /\ Middle(i, spb, 0) <= Middle(i, spb, 9)
              /\ AfterFrame(i, spb) = Middle(i, spb, 9) + 1
          BY UartPlaces
        <4> QED
          BY <4>1
      <3>2. (i + 1) + k >= count /\ AfterFrame(i, spb) + k >= count
        BY <2>1, <2>2, <3>1
      <3> HIDE DEF Good
      <3>3. /\ Clear(B, spb, i + 1) => Good(i + 1)
            /\ Clear(B, spb, AfterFrame(i, spb)) => Good(AfterFrame(i, spb))
        BY <2>1, <3>1, <3>2
      <3>4. f[i] = UartFrom(f, rx, count, spb, i)
        OBVIOUS
      <3> QED
        BY <2>2, <3>3, <3>4, UartTurn, Zenon DEF Good
    <2> HIDE DEF Good
    <2> QED
      BY <2>1, <2>2
  <1>3. P = Nat
    <2>1. P \subseteq Nat
      OBVIOUS
    <2> HIDE DEF P
    <2> QED
      BY <1>1, <1>2, <2>1, CountUp, Zenon
  <1>4. Clear(B, spb, 1)
    <2>1. \A j \in B : ~(j < 1)
      BY DEF Framed
    <2> QED
      BY <2>1 DEF Clear
  <1>5. 1 \in Nat \ {0} /\ 1 + count >= count
    OBVIOUS
  <1> HIDE DEF Good
  <1>6. Good(1)
    BY <1>3, <1>4, <1>5
  <1> QED
    BY <1>6 DEF Good

\* edt_decode_uart reports the bytes in the frames on the line, of any samples.
LEMMA UartExact ==
  ASSUME NEW samples, NEW count \in Nat, NEW cfg, cfg.sample_rate_hz \in Nat, cfg.baudrate \in Nat, NEW max \in Nat
  PROVE  Reports(EdtDecodeUart(samples, count, cfg, max), UartBytes(samples, count, cfg), max)
  <1>1. CASE ~UartConfigOK(cfg)
    BY <1>1, ReportsNone DEF EdtDecodeUart, UartBytes
  <1>2. CASE UartConfigOK(cfg)
    <2>1. SamplesPerBit(cfg) \in Nat
      BY <1>2 DEF UartConfigOK, SamplesPerBit
    <2>2. PICK rx, spb : rx = Line(samples, count, cfg.rx_channel) /\ spb = SamplesPerBit(cfg) /\ spb \in Nat
      BY <2>1
    <2>3. PICK f : /\ \A i \in Nat : f[i] = UartFrom(f, rx, count, spb, i)
                   /\ EdtDecodeUart(samples, count, cfg, max) = First(f[1], max)
      <3>1. \E f : /\ \A i \in Nat : f[i] = UartFrom(f, Line(samples, count, cfg.rx_channel), count, SamplesPerBit(cfg), i)
                   /\ EdtDecodeUart(samples, count, cfg, max) = First(f[1], max)
        BY <1>2, <2>1, UartRuns
      <3> QED
        BY <2>2, <3>1
    <2>4. PICK B : B = Frames(rx, count, spb) /\ Framed(B, rx, count, spb)
      BY FramesFramed
    <2>5. UartBytes(samples, count, cfg) = Heard(B, rx, count, spb, 1)
      <3>1. \A j \in B : j \in Nat /\ 1 <= j
        BY <2>4 DEF Framed
      <3>2. Whole(B, rx, count, spb, 1) = {i \in B : Middle(i, spb, 9) < count /\ rx[Middle(i, spb, 9)] = 1}
        BY <3>1 DEF Whole
      <3> QED
        BY <1>2, <2>2, <2>4, <3>2 DEF UartBytes, Heard
    <2>6. Lists(f[1], UartEvents(rx, spb), Heard(B, rx, count, spb, 1))
      BY <2>2, <2>3, <2>4, UartFound
    <2>7. Reports(First(f[1], max), Heard(B, rx, count, spb, 1), max)
      BY <2>6, ListsReports
    <2> QED
      BY <2>3, <2>5, <2>7
  <1> QED
    BY <1>1, <1>2

-------------------------------------------------------------------------------
(* The loop of main.c                                                       *)

\* What the loop keeps to.
DecodeInv == wires \in Wires /\ ReportsTheBus

\* Nothing is in a capture without samples.
LEMMA NothingOnTheBus ==
  ASSUME wires \in Wires, NEW samples
  PROVE  OnTheBus(samples, 0) = {}
  <1>1. Inner(0) = {}
    BY DEF Inner
  <1>2. UartBytes(samples, 0, wires.cfg) = {}
    <2>1. \A rx, spb : StartBits(rx, 0, spb) = {}
      BY <1>1 DEF StartBits
    <2>2. \A rx, spb : Frames(rx, 0, spb) = {}
      <3>1. ASSUME NEW rx, NEW spb PROVE Frames(rx, 0, spb) = {}
        <4>1. Framed(Frames(rx, 0, spb), rx, 0, spb)
          BY FramesFramed
        <4> QED
          BY <2>1, <4>1 DEF Framed
      <3> QED
        BY <3>1
    <2> QED
      BY <2>2 DEF UartBytes
  <1>3. \A breaks, size : WordEnds({}, breaks, size) = {}
    BY DEF WordEnds
  <1>4. I2cBytes(samples, 0, wires.cfg) = {}
    BY <1>1, <1>3 DEF I2cBytes, I2cTicks
  <1>5. SpiBytes(samples, 0, wires.cfg) = {}
    BY <1>1, <1>3 DEF SpiBytes, SpiTicks
  <1> QED
    BY <1>2, <1>4, <1>5, WiresAssumption DEF OnTheBus

\* Each decoder reports what its bus defines.
LEMMA DecodedExact ==
  ASSUME wires \in Wires, NEW samples, NEW count \in Nat
  PROVE  Reports(Decoded(samples, count), OnTheBus(samples, count), MaxEvents)
  <1>1. MaxEvents \in Nat
    BY MaxEventsAssumption
  <1>2. CASE wires.bus = "uart"
    <2>1. wires.cfg.sample_rate_hz \in Nat /\ wires.cfg.baudrate \in Nat
      BY <1>2, WiresAssumption
    <2> QED
      BY <1>1, <1>2, <2>1, UartExact DEF Decoded, OnTheBus
  <1>3. CASE wires.bus = "i2c"
    BY <1>1, <1>3, I2cExact DEF Decoded, OnTheBus
  <1>4. CASE wires.bus = "spi"
    <2>1. wires.cfg.cpol \in {0, 1} /\ wires.cfg.cpha \in {0, 1}
      BY <1>4, WiresAssumption
    <2> QED
      BY <1>1, <1>4, <2>1, SpiExact DEF Decoded, OnTheBus
  <1> QED
    BY <1>2, <1>3, <1>4, WiresAssumption

\* Whatever is on the wires, wherever main.c cuts it into captures and whatever a
\* capture lacks in its middle, its events are the bytes that the bus defines to
\* be in it (ReportsTheBus).
THEOREM DecodersExact == Spec => []ReportsTheBus
  <1>1. Init => DecodeInv
    <2> SUFFICES ASSUME Init PROVE DecodeInv
      OBVIOUS
    <2>1. wires \in Wires /\ from = 0 /\ upto = 0 /\ cut = 0 /\ resume = 0 /\ events = <<>>
      BY DEF Init
    <2>2. OnTheBus(Captured(from, cut, resume, upto), Size(from, cut, resume, upto)) = {}
      <3>1. Size(from, cut, resume, upto) = 0
        BY <2>1 DEF Size
      <3> QED
        BY <2>1, <3>1, NothingOnTheBus
    <2> QED
      BY <2>1, <2>2, ReportsNone, MaxEventsAssumption DEF DecodeInv, ReportsTheBus
  <1>2. DecodeInv /\ [Next]_vars => DecodeInv'
    <2> SUFFICES ASSUME DecodeInv, [Next]_vars PROVE DecodeInv'
      OBVIOUS
    <2>1. CASE UNCHANGED vars
      BY <2>1 DEF DecodeInv, vars, ReportsTheBus, OnTheBus, Captured, Size
    <2>2. ASSUME NEW start \in Nat, NEW hole \in Nat, NEW back \in Nat, NEW end \in Nat,
                 Capture(start, hole, back, end)
          PROVE  DecodeInv'
      <3> DEFINE samples == Captured(start, hole, back, end)
                 count == Size(start, hole, back, end)
      <3>1. /\ start <= hole /\ back <= end /\ wires' = wires
            /\ from' = start /\ cut' = hole /\ resume' = back /\ upto' = end
            /\ events' = Decoded(samples, count)
        BY <2>2 DEF Capture
      <3>2. count \in Nat
        BY <3>1 DEF Size
      <3>3. Reports(events', OnTheBus(samples, count), MaxEvents)
        BY <3>1, <3>2, DecodedExact DEF DecodeInv
      <3>4. (OnTheBus(Captured(from, cut, resume, upto), Size(from, cut, resume, upto)))'
              = OnTheBus(samples, count)
        BY <3>1 DEF OnTheBus, Captured, Size
      <3> QED
        BY <3>1, <3>3, <3>4 DEF DecodeInv, ReportsTheBus
    <2>3. ASSUME NEW parts, NEW n \in Places(parts) PROVE n \in Nat
      <3>1. Duration \in Nat
        BY WiresAssumption DEF DecodeInv, Duration
      <3> QED
        BY <3>1 DEF Places
    <2> QED
      BY <2>1, <2>2, <2>3 DEF Next, CaptureWhole, CaptureApart
  <1>3. DecodeInv => ReportsTheBus
    BY DEF DecodeInv
  <1> QED
    BY <1>1, <1>2, <1>3, PTL DEF Spec

===============================================================================
