------------------------ MODULE SilenceFillerProofs ------------------------
(***************************************************************************)
(* InSync and SilenceIsReal for every width of the RTP counters, every     *)
(* frame size and every start of the peer's counters.                      *)
(***************************************************************************)
EXTENDS SilenceFiller, TLAPS

-----------------------------------------------------------------------------
(* Arithmetic of counters that wrap *)

LEMMA Division ==
    ASSUME NEW a \in Int, NEW m \in Nat \ {0}
    PROVE  /\ a \div m \in Int
           /\ a % m \in 0..(m - 1)
           /\ a = m * (a \div m) + (a % m)
  OBVIOUS

\* A multiple of m that is smaller than m is zero.
LEMMA SmallMultiple ==
    ASSUME NEW m \in Nat \ {0}, NEW k \in Int, m * k < m, m * k > 0 - m
    PROVE  k = 0
<1>1. CASE k >= 1
  <2>1. PICK d \in Nat : k = 1 + d
    <3>1. k - 1 \in Nat /\ k = 1 + (k - 1)
      BY <1>1
    <3> QED
      BY <3>1
  <2>2. m * k = m + m * d /\ m * d \in Nat
    BY <2>1
  <2> QED
    BY <2>2
<1>2. CASE k <= 0 - 1
  <2>1. PICK d \in Nat : k = 0 - (1 + d)
    <3>1. 0 - 1 - k \in Nat /\ k = 0 - (1 + (0 - 1 - k))
      BY <1>2
    <3> QED
      BY <3>1
  <2>2. m * k = 0 - (m + m * d) /\ m * d \in Nat
    BY <2>1
  <2> QED
    BY <2>2
<1> QED
  BY <1>1, <1>2

LEMMA Remainder ==
    ASSUME NEW m \in Nat \ {0}, NEW q \in Int, NEW r \in 0..(m - 1), NEW x \in Int, x = m * q + r
    PROVE  x % m = r /\ x \div m = q
<1> DEFINE u == x \div m
           v == x % m
<1>1. u \in Int /\ v \in 0..(m - 1) /\ x = m * u + v
  BY Division
<1> HIDE DEF u, v
<1>2. m * (u - q) = r - v
  <2>1. m * (u - q) = m * u - m * q
    BY <1>1
  <2>2. m * u \in Int /\ m * q \in Int
    BY <1>1
  <2> QED
    BY <1>1, <2>1, <2>2
<1>3. u - q = 0
  <2>1. u - q \in Int /\ r - v < m /\ r - v > 0 - m
    BY <1>1
  <2> QED
    BY <1>2, <2>1, SmallMultiple
<1>4. u = q
  BY <1>1, <1>3
<1>5. v = r
  <2>1. m * u \in Int /\ m * u = m * q
    BY <1>1, <1>4
  <2> QED
    BY <1>1, <2>1
<1> QED
  BY <1>4, <1>5 DEF u, v

\* The difference of two counters that wrap is the difference of what they
\* count, wrapped.
LEMMA WrappedDifference ==
    ASSUME NEW m \in Nat \ {0}, NEW a \in Int, NEW b \in Int, NEW c \in Int
    PROVE  ((a % m) - ((b % m) + c)) % m = (a - b - c) % m
<1> DEFINE x == a - b - c
           y == (a % m) - ((b % m) + c)
           k == (a \div m) - (b \div m)
<1>1. /\ a \div m \in Int /\ a % m \in Int /\ a = m * (a \div m) + (a % m)
      /\ b \div m \in Int /\ b % m \in Int /\ b = m * (b \div m) + (b % m)
  <2>1. /\ a % m \in 0..(m - 1) /\ b % m \in 0..(m - 1)
        /\ a \div m \in Int /\ a = m * (a \div m) + (a % m)
        /\ b \div m \in Int /\ b = m * (b \div m) + (b % m)
    BY Division
  <2>2. 0..(m - 1) \subseteq Int
    OBVIOUS
  <2> QED
    BY <2>1, <2>2
<1>2. m * k = m * (a \div m) - m * (b \div m) /\ k \in Int
  BY <1>1
<1>3. x = m * k + y /\ y \in Int /\ x \in Int
  <2>1. m * (a \div m) \in Int /\ m * (b \div m) \in Int
    BY <1>1
  <2> QED
    BY <1>1, <1>2, <2>1
<1>4. y \div m \in Int /\ y % m \in 0..(m - 1) /\ y = m * (y \div m) + (y % m)
  BY <1>3, Division
<1> HIDE DEF x, y, k
<1>5. x = m * (k + (y \div m)) + (y % m) /\ k + (y \div m) \in Int
  <2>1. m * (k + (y \div m)) = m * k + m * (y \div m)
    BY <1>2, <1>4
  <2>2. m * k \in Int /\ m * (y \div m) \in Int /\ y % m \in Int
    BY <1>2, <1>4
  <2> QED
    BY <1>2, <1>3, <1>4, <2>1, <2>2
<1>6. x % m = y % m
  BY <1>3, <1>4, <1>5, Remainder
<1> QED
  BY <1>6 DEF x, y

LEMMA SmallRemainder ==
    ASSUME NEW m \in Nat \ {0}, NEW x \in Int
    PROVE  /\ x \in 0..(m - 1) => x % m = x
           /\ x \in (1 - m)..(m - 1) /\ x % m = 0 => x = 0
           /\ x \in Nat => x % m \in Nat /\ x % m <= x
<1>1. x \div m \in Int /\ x % m \in 0..(m - 1) /\ x = m * (x \div m) + (x % m)
  BY Division
<1>2. x \in 0..(m - 1) => x % m = x
  <2>1. x = m * 0 + x
    OBVIOUS
  <2> QED
    BY <2>1, Remainder
<1>3. ASSUME x \in (1 - m)..(m - 1), x % m = 0 PROVE x = 0
  <2>1. m * (x \div m) = x
    BY <1>1, <1>3
  <2>2. x \div m = 0
    BY <1>1, <1>3, <2>1, SmallMultiple
  <2> QED
    BY <2>1, <2>2
<1>4. ASSUME x \in Nat PROVE x % m \in Nat /\ x % m <= x
  <2>1. CASE x < m
    BY <1>2, <1>4, <2>1
  <2>2. CASE x >= m
    BY <1>1, <1>4, <2>2
  <2> QED
    BY <1>4, <2>1, <2>2
<1> QED
  BY <1>2, <1>3, <1>4

\* Whole frames.
LEMMA WholeFrames ==
    ASSUME NEW f \in Nat \ {0}, NEW g \in Nat
    PROVE  /\ g * f \in Nat /\ (g * f) \div f = g
           /\ \A y \in Nat : y <= g * f => y \div f \in Nat /\ y \div f <= g
<1>1. g * f \in Nat /\ g * f = f * g + 0
  OBVIOUS
<1>2. (g * f) \div f = g
  BY <1>1, Remainder
<1>3. ASSUME NEW y \in Nat, y <= g * f PROVE y \div f \in Nat /\ y \div f <= g
  <2> DEFINE q == y \div f
  <2>1. q \in Int /\ y % f \in 0..(f - 1) /\ y = f * q + (y % f)
    BY Division
  <2>2. q \in Nat
    OBVIOUS
  <2> HIDE DEF q
  <2>3. ASSUME q > g PROVE FALSE
    <3>1. PICK d \in Nat : q = g + 1 + d
      <4>1. q - g - 1 \in Nat /\ q = g + 1 + (q - g - 1)
        BY <2>2, <2>3
      <4> QED
        BY <4>1
    <3>2. f * q = g * f + f + f * d /\ f * d \in Nat
      BY <3>1
    <3> QED
      BY <1>1, <1>3, <2>1, <3>2
  <2> QED
    BY <2>2, <2>3 DEF q
<1> QED
  BY <1>1, <1>2, <1>3

-----------------------------------------------------------------------------
(* The filler *)

\* The packets the network and the filler know of.
Known == net \cup {sent, last}

TypeInv ==
    /\ net \subseteq Packet /\ sent \in Packet /\ last \in Packet
    /\ packets \in Nat /\ frames \in Nat

\* A later packet is spoken later; the first one in the first frame.
Ordered ==
    /\ \A p \in Known : p.n <= sent.n
    /\ \A p, q \in Known : (p.n < q.n => p.t < q.t) /\ (p.n = q.n => p = q)
    /\ \A p \in Known : (p.n = 0 => p = none) /\ (p.n = 1 => p.t = 1)

\* What the filler remembers is the last packet's header.
Remembers ==
    /\ packets = 0 => last = none /\ frames = 0
    /\ packets > 0 => lastSeq = Seq(last) /\ lastTS = TS(last)
    /\ smooth => last.n = packets

FillerInv == TypeInv /\ Ordered /\ Remembers /\ InSync

LEMMA SeqGapMeans ==
    ASSUME NEW p \in Packet, NEW q \in Packet, lastSeq = Seq(q),
           p.n - q.n - 1 \in (1 - SeqMod)..(SeqMod - 1), ~SeqGap(p)
    PROVE  p.n = q.n + 1
<1> DEFINE a == FirstSeq + p.n
           b == FirstSeq + q.n
<1>1. a \in Int /\ b \in Int /\ a - b - 1 = p.n - q.n - 1 /\ SeqMod \in Nat \ {0}
  BY WidthsAssumption DEF Packet
<1>2. ((a % SeqMod) - ((b % SeqMod) + 1)) % SeqMod = 0
  BY DEF SeqGap, Seq
<1> HIDE DEF a, b
<1>3. (a - b - 1) % SeqMod = 0 /\ a - b - 1 \in Int
  <2>1. 1 \in Int
    OBVIOUS
  <2>2. ((a % SeqMod) - ((b % SeqMod) + 1)) % SeqMod = (a - b - 1) % SeqMod
    BY <1>1, <2>1, WrappedDifference, Zenon
  <2> QED
    BY <1>1, <1>2, <2>2
<1>4. a - b - 1 = 0
  BY <1>1, <1>3, SmallRemainder
<1> QED
  BY <1>1, <1>4 DEF Packet

LEMMA TsDiffMeans ==
    ASSUME NEW p \in Packet, NEW q \in Packet, lastTS = TS(q), q.t < p.t
    PROVE  /\ p.t - q.t - 1 \in Nat
           /\ TsDiff(p) = ((p.t - q.t - 1) * Frame) % TsMod
<1> DEFINE a == FirstTs + p.t * Frame
           b == FirstTs + q.t * Frame
           g == p.t - q.t - 1
<1>1. p.t \in Nat /\ q.t \in Nat /\ g \in Nat /\ FirstTs \in Nat /\ Frame \in Nat /\ TsMod \in Nat \ {0}
  BY WidthsAssumption DEF Packet
<1>2. p.t * Frame = g * Frame + q.t * Frame + Frame
  <2>1. p.t = g + q.t + 1
    BY <1>1
  <2> HIDE DEF g
  <2>2. (g + q.t + 1) * Frame = g * Frame + q.t * Frame + Frame
    BY <1>1
  <2> QED
    BY <2>1, <2>2
<1>3. p.t * Frame \in Nat /\ q.t * Frame \in Nat /\ g * Frame \in Nat
  BY <1>1
<1>4. a \in Int /\ b \in Int /\ a - b - Frame = g * Frame
  <2> HIDE DEF g
  <2> QED
    BY <1>1, <1>2, <1>3
<1>5. TsDiff(p) = ((a % TsMod) - ((b % TsMod) + Frame)) % TsMod
  BY DEF TsDiff, TS
<1> HIDE DEF a, b
<1>6. TsDiff(p) = (a - b - Frame) % TsMod
  <2>1. Frame \in Int
    BY <1>1
  <2>2. ((a % TsMod) - ((b % TsMod) + Frame)) % TsMod = (a - b - Frame) % TsMod
    BY <1>1, <1>4, <2>1, WrappedDifference, Zenon
  <2> QED
    BY <1>5, <2>2
<1> QED
  BY <1>1, <1>4, <1>6

\* What goes before a packet, in terms of the peer's own time.
LEMMA MissingMeans ==
    ASSUME FillerInv, NEW p \in net, InWindow(p)
    PROVE  /\ MissingFrames(p) \in Nat
           /\ MissingFrames(p) > 0 => p.n = last.n + 1 /\ MissingFrames(p) <= p.t - last.t - 1
           /\ packets > 0 /\ p.n = last.n + 1 /\ p.t - last.t - 1 <= MaxGap
                => MissingFrames(p) = p.t - last.t - 1
<1> DEFINE g == p.t - last.t - 1
           d == TsDiff(p)
<1>1. p \in Packet /\ last \in Packet /\ packets \in Nat
  BY DEF FillerInv, TypeInv
<1>2. CASE packets = 0
  BY <1>2 DEF MissingFrames
<1>3. CASE packets > 0
  <2>1. lastSeq = Seq(last) /\ lastTS = TS(last) /\ p.n - last.n - 1 \in (1 - SeqMod)..(SeqMod - 1)
    BY <1>3 DEF FillerInv, Remembers, InWindow
  <2>2. CASE SeqGap(p)
    <3>1. p.n # last.n + 1
      <4>1. SUFFICES ASSUME p.n = last.n + 1 PROVE ~SeqGap(p)
        BY <2>2
      <4> DEFINE a == FirstSeq + p.n
                 b == FirstSeq + last.n
      <4>2. a \in Int /\ b \in Int /\ a - b - 1 = 0 /\ SeqMod \in Nat \ {0}
        BY <1>1, <4>1, WidthsAssumption DEF Packet
      <4>3. SeqGap(p) <=> ((a % SeqMod) - ((b % SeqMod) + 1)) % SeqMod # 0
        BY <2>1 DEF SeqGap, Seq
      <4> HIDE DEF a, b
      <4>4. ((a % SeqMod) - ((b % SeqMod) + 1)) % SeqMod = (a - b - 1) % SeqMod
        <5>1. 1 \in Int
          OBVIOUS
        <5> QED
          BY <4>2, <5>1, WrappedDifference, Zenon
      <4>5. 0 % SeqMod = 0
        BY <4>2, SmallRemainder
      <4> QED
        BY <4>2, <4>3, <4>4, <4>5
    <3> QED
      BY <2>2, <3>1 DEF MissingFrames
  <2>3. CASE ~SeqGap(p)
    <3>1. p.n = last.n + 1
      BY <1>1, <2>1, <2>3, SeqGapMeans
    <3>2. last.t < p.t
      <4>1. last.n < p.n
        BY <1>1, <3>1 DEF Packet
      <4> QED
        BY <4>1 DEF FillerInv, Ordered, Known
    <3>3. g \in Nat /\ d = (g * Frame) % TsMod
      BY <1>1, <2>1, <3>2, TsDiffMeans
    <3>4. MissingFrames(p) = IF d \div Frame > MaxGap THEN 0 ELSE d \div Frame
      BY <1>3, <2>3 DEF MissingFrames
    <3>5. Frame \in Nat \ {0} /\ TsMod \in Nat \ {0} /\ MaxGap \in Nat /\ MaxGap * Frame < TsMod
      BY WidthsAssumption
    <3> HIDE DEF g, d
    <3>6. g * Frame \in Nat /\ (g * Frame) \div Frame = g
      BY <3>3, <3>5, WholeFrames
    <3>7. d \in Nat /\ d <= g * Frame
      BY <3>3, <3>5, <3>6, SmallRemainder
    <3>8. d \div Frame \in Nat /\ d \div Frame <= g
      BY <3>3, <3>5, <3>7, WholeFrames
    <3>9. ASSUME g <= MaxGap PROVE d = g * Frame
      <4>1. g * Frame <= MaxGap * Frame
        <5>1. PICK e \in Nat : MaxGap = g + e
          <6>1. MaxGap - g \in Nat /\ MaxGap = g + (MaxGap - g)
            BY <3>3, <3>5, <3>9
          <6> QED
            BY <6>1
        <5>2. MaxGap * Frame = g * Frame + e * Frame /\ e * Frame \in Nat
          BY <3>3, <3>5, <5>1
        <5> QED
          BY <3>6, <5>2
      <4>2. MaxGap * Frame \in Nat
        BY <3>5
      <4>3. g * Frame \in 0..(TsMod - 1)
        BY <3>5, <3>6, <4>1, <4>2
      <4> QED
        BY <3>3, <3>5, <4>3, SmallRemainder
    <3>10. MissingFrames(p) \in Nat /\ MissingFrames(p) <= g
      BY <3>3, <3>4, <3>8
    <3>11. g <= MaxGap => MissingFrames(p) = g
      BY <3>3, <3>4, <3>5, <3>6, <3>9
    <3> QED
      BY <3>1, <3>10, <3>11 DEF g
  <2> QED
    BY <2>2, <2>3
<1> QED
  BY <1>1, <1>2, <1>3

LEMMA HandledStep ==
    ASSUME FillerInv, NEW p \in net, InWindow(p), Seen(p), net' \subseteq net, UNCHANGED sent,
           NEW k \in Nat, frames' = frames + k,
           \/ ~smooth'
           \/ k = MissingFrames(p) + 1 /\ smooth' = (smooth /\ p.n = packets + 1 /\ p.t - last.t - 1 <= MaxGap)
    PROVE  FillerInv'
<1>1. /\ p \in Packet /\ last \in Packet /\ packets \in Nat /\ frames \in Nat
      /\ p.n \in Nat /\ p.t \in Nat /\ last.n \in Nat /\ last.t \in Nat
  BY DEF FillerInv, TypeInv, Packet
<1>2. packets' = packets + 1 /\ last' = p /\ lastSeq' = Seq(p) /\ lastTS' = TS(p)
  BY DEF Seen
<1>3. TypeInv'
  BY <1>1, <1>2 DEF FillerInv, TypeInv
<1>4. Ordered'
  <2>1. Known' \subseteq Known
    BY <1>2 DEF Known
  <2> QED
    BY <2>1 DEF FillerInv, Ordered
<1>5. Remembers'
  <2>1. Seq(p)' = Seq(p) /\ TS(p)' = TS(p)
    BY DEF Seq, TS
  <2>2. smooth' => p.n = packets + 1
    OBVIOUS
  <2> QED
    BY <1>1, <1>2, <2>1, <2>2 DEF Remembers, Seq, TS
<1>6. ASSUME smooth' PROVE frames' = p.t
  <2>1. /\ smooth /\ p.n = packets + 1 /\ p.t - last.t - 1 <= MaxGap
        /\ k = MissingFrames(p) + 1 /\ last.n = packets /\ frames = last.t
    BY <1>6 DEF FillerInv, Remembers, InSync
  <2>2. MissingFrames(p) \in Nat
    BY MissingMeans
  <2>3. CASE packets = 0
    <3>1. last = none /\ frames = 0 /\ p.t = 1
      BY <1>1, <2>1, <2>3 DEF FillerInv, Remembers, Ordered, Known
    <3>2. MissingFrames(p) = 0
      BY <2>3 DEF MissingFrames
    <3> QED
      BY <2>1, <3>1, <3>2
  <2>4. CASE packets > 0
    <3>1. MissingFrames(p) = p.t - last.t - 1
      BY <1>1, <2>1, <2>4, MissingMeans
    <3> QED
      BY <1>1, <2>1, <2>2, <3>1
  <2> QED
    BY <1>1, <2>3, <2>4
<1> QED
  BY <1>2, <1>3, <1>4, <1>5, <1>6 DEF FillerInv, InSync

LEMMA FillerStep ==
    ASSUME FillerInv, [Next]_vars
    PROVE  FillerInv'
<1>1. ASSUME NEW pause \in Pauses, Send(pause) PROVE FillerInv'
  <2> DEFINE p == [n |-> sent.n + 1, t |-> sent.t + 1 + pause]
  <2>1. /\ sent.n \in Nat /\ sent.t \in Nat /\ pause \in Nat
        /\ sent' = p /\ net' = net \cup {p} /\ (sent = none => pause = 0)
        /\ UNCHANGED <<packets, lastSeq, lastTS, last, frames, fill, smooth, faults>>
    BY <1>1, WidthsAssumption DEF Send, FillerInv, TypeInv, Packet
  <2>2. p \in Packet /\ p.n = sent.n + 1 /\ p.t = sent.t + 1 + pause
    BY <2>1 DEF Packet
  <2> HIDE DEF p
  <2>3. TypeInv'
    BY <2>1, <2>2 DEF FillerInv, TypeInv
  <2>4. Known' \subseteq Known \cup {p} /\ sent \in Known
    BY <2>1 DEF Known
  <2>5. \A q \in Known : q.n \in Nat /\ q.t \in Nat /\ q.n < p.n /\ q.t < p.t
    <3>1. ASSUME NEW q \in Known PROVE q.n \in Nat /\ q.t \in Nat /\ q.n <= sent.n /\ q.t <= sent.t
      <4>1. q \in Packet /\ q.n \in Nat /\ q.t \in Nat /\ q.n <= sent.n
        BY <3>1 DEF FillerInv, TypeInv, Ordered, Known, Packet
      <4>2. CASE q.n < sent.n
        BY <2>1, <2>4, <4>1, <4>2 DEF FillerInv, Ordered
      <4>3. CASE q.n = sent.n
        BY <2>1, <2>4, <3>1, <4>1, <4>3 DEF FillerInv, Ordered
      <4> QED
        BY <2>1, <4>1, <4>2, <4>3
    <3> QED
      BY <2>1, <2>2, <3>1
  <2>6. (p.n = 0 => p = none) /\ (p.n = 1 => p.t = 1)
    <3>1. sent.n = 0 => sent = none
      BY <2>4 DEF FillerInv, Ordered
    <3> QED
      BY <2>1, <2>2, <3>1 DEF none
  <2>7. Ordered'
    <3>1. \A q \in Known' : q.n <= p.n
      BY <2>2, <2>4, <2>5 DEF Packet
    <3>2. \A q, r \in Known' : (q.n < r.n => q.t < r.t) /\ (q.n = r.n => q = r)
      BY <2>2, <2>4, <2>5 DEF FillerInv, Ordered, Packet
    <3>3. \A q \in Known' : (q.n = 0 => q = none) /\ (q.n = 1 => q.t = 1)
      BY <2>4, <2>6 DEF FillerInv, Ordered
    <3> QED
      BY <2>1, <3>1, <3>2, <3>3 DEF Ordered, none
  <2>8. Remembers' /\ InSync'
    BY <2>1 DEF FillerInv, Remembers, InSync, Seq, TS, none
  <2> QED
    BY <2>3, <2>7, <2>8 DEF FillerInv
<1>2. ASSUME NEW p \in net, Lose(p) PROVE FillerInv'
  <2>1. /\ net' \subseteq net /\ ~smooth'
        /\ UNCHANGED <<sent, packets, lastSeq, lastTS, last, frames, fill>>
    BY <1>2 DEF Lose
  <2>2. Known' \subseteq Known
    BY <2>1 DEF Known
  <2>3. TypeInv' /\ Remembers' /\ InSync'
    BY <2>1 DEF FillerInv, TypeInv, Remembers, InSync, Seq, TS, none
  <2>4. Ordered'
    BY <2>1, <2>2 DEF FillerInv, Ordered
  <2> QED
    BY <2>3, <2>4 DEF FillerInv
<1>3. ASSUME NEW p \in net, HandleRTP(p) PROVE FillerInv'
  <2>1. /\ InWindow(p) /\ Seen(p) /\ net' \subseteq net /\ UNCHANGED sent
        /\ frames' = frames + MissingFrames(p) + 1
        /\ smooth' = (smooth /\ p.n = packets + 1 /\ p.t - last.t - 1 <= MaxGap)
    BY <1>3 DEF HandleRTP
  <2>2. MissingFrames(p) + 1 \in Nat /\ frames' = frames + (MissingFrames(p) + 1)
    <3>1. MissingFrames(p) \in Nat /\ frames \in Nat
      BY <2>1, MissingMeans DEF FillerInv, TypeInv
    <3> QED
      BY <2>1, <3>1
  <2> QED
    BY <2>1, <2>2, HandledStep
<1>4. ASSUME NEW p \in net, HandleFails(p) PROVE FillerInv'
  <2>1. InWindow(p) /\ Seen(p) /\ net' \subseteq net /\ UNCHANGED sent /\ ~smooth'
    BY <1>4 DEF HandleFails
  <2>2. PICK k \in 0..MissingFrames(p) : frames' = frames + k
    BY <1>4 DEF HandleFails
  <2>3. k \in Nat
    BY <2>1, MissingMeans
  <2> QED
    BY <2>1, <2>2, <2>3, HandledStep
<1>5. CASE UNCHANGED vars
  BY <1>5 DEF vars, FillerInv, TypeInv, Ordered, Known, Remembers, InSync, Seq, TS, none
<1> QED
  BY <1>1, <1>2, <1>3, <1>4, <1>5 DEF Next

LEMMA FillerInit == Init => FillerInv
<1> SUFFICES ASSUME Init PROVE FillerInv
  OBVIOUS
<1>1. none \in Packet /\ none.n = 0 /\ none.t = 0
  BY DEF Packet, none
<1>2. Known = {none}
  BY DEF Init, Known
<1>3. TypeInv
  BY <1>1 DEF Init, TypeInv
<1>4. Ordered
  BY <1>1, <1>2 DEF Init, Ordered
<1>5. Remembers /\ InSync
  BY <1>1 DEF Init, Remembers, InSync
<1> QED
  BY <1>3, <1>4, <1>5 DEF FillerInv

\* silence_filler.go, HandleRTP: for every width of the counters, the output
\* keeps pace with the peer while packets come in order and pauses are short.
THEOREM FillerInSync == Spec => []InSync
<1>1. FillerInv => InSync
  BY DEF FillerInv
<1> QED
  BY <1>1, FillerInit, FillerStep, PTL DEF Spec

\* silence_filler.go, isSilenceSuppression: whatever the network loses, reorders
\* or repeats, silence is written only for silence.
THEOREM FillerSilenceIsReal == Spec => SilenceIsReal
<1>1. ASSUME FillerInv, [Next]_vars
      PROVE  [packets' > packets /\ fill' > 0
                => last'.n = last.n + 1 /\ fill' <= last'.t - last.t - 1]_vars
  <2> SUFFICES ASSUME Next, packets' > packets, fill' > 0
               PROVE  last'.n = last.n + 1 /\ fill' <= last'.t - last.t - 1
    BY <1>1
  <2>1. packets \in Nat
    BY <1>1 DEF FillerInv, TypeInv
  <2>2. PICK p \in net : HandleRTP(p) \/ HandleFails(p)
    BY <2>1 DEF Next, Send, Lose
  <2>3. InWindow(p) /\ last' = p
    BY <2>2 DEF HandleRTP, HandleFails, Seen
  <2>4. MissingFrames(p) \in Nat /\ (MissingFrames(p) > 0 => p.n = last.n + 1 /\ MissingFrames(p) <= p.t - last.t - 1)
    BY <1>1, <2>3, MissingMeans
  <2>5. fill' \in Nat /\ fill' <= MissingFrames(p)
    BY <2>2, <2>4 DEF HandleRTP, HandleFails
  <2>6. p.t - last.t - 1 \in Int
    BY <1>1 DEF FillerInv, TypeInv, Packet
  <2> QED
    BY <2>3, <2>4, <2>5, <2>6
<1> QED
  BY <1>1, FillerInit, FillerStep, PTL DEF Spec, SilenceIsReal
=============================================================================
