--------------------------- MODULE SilenceFiller ---------------------------
(***************************************************************************)
(* The silence filler (pkg/sip/silence_filler.go): when the peer suppresses *)
(* silence, it sends no packets but lets the RTP timestamp run on; the     *)
(* filler writes the missing frames before the next packet is decoded.     *)
(*                                                                         *)
(* A packet is its number n and the frame t it was spoken in; what the     *)
(* filler sees of them is the RTP header, whose sequence number and        *)
(* timestamp wrap.  The network (external) loses, delays and duplicates    *)
(* packets.                                                                *)
(***************************************************************************)
EXTENDS Integers, FiniteSets

CONSTANTS
    SeqMod,      \* 2^16 in the code
    TsMod,       \* 2^32 in the code
    Frame,       \* rtpSamplesPerFrame
    MaxGap,      \* maxGapSize
    FirstSeq, FirstTs,  \* where the peer's counters start
    MaxPackets,  \* bound: packets the peer sends
    Pauses,      \* bound: how many frames it may be silent for
    MaxFaults    \* bound: packets lost, overtaken or duplicated, write errors

\* The longest pause that is filled is shorter than a period of the timestamp:
\* 25 frames of 20 ms, against hours.
ASSUME WidthsAssumption ==
    /\ SeqMod \in Nat \ {0} /\ TsMod \in Nat \ {0} /\ Frame \in Nat \ {0}
    /\ MaxGap \in Nat /\ MaxGap * Frame < TsMod
    /\ FirstSeq \in Nat /\ FirstTs \in Nat
    /\ MaxPackets \in Nat /\ MaxFaults \in Nat
    /\ Pauses \subseteq Nat

VARIABLES
    sent,      \* the last packet the peer has sent
    net,       \* packets on their way
    packets,   \* how many the filler has seen
    lastSeq, lastTS,
    last,      \* history: the last packet handled
    frames,    \* frames written to the decoder's output, silence included
    fill,      \* history: the silence written for the last packet
    smooth,    \* history: all packets were handled, in order, after short pauses
    faults

vars == <<sent, net, packets, lastSeq, lastTS, last, frames, fill, smooth, faults>>

Packet == [n : Nat, t : Nat]
none == [n |-> 0, t |-> 0]

\* The RTP header of a packet.
Seq(p) == (FirstSeq + p.n) % SeqMod
TS(p) == (FirstTs + p.t * Frame) % TsMod

TypeOK ==
    /\ sent \in Packet /\ last \in Packet
    /\ net \subseteq Packet
    /\ packets \in Nat
    /\ lastSeq \in 0..(SeqMod - 1) /\ lastTS \in 0..(TsMod - 1)
    /\ frames \in Nat /\ fill \in Nat
    /\ smooth \in BOOLEAN /\ faults \in 0..MaxFaults

Init ==
    /\ sent = none /\ net = {}
    /\ packets = 0 /\ lastSeq = 0 /\ lastTS = 0 /\ last = none
    /\ frames = 0 /\ fill = 0
    /\ smooth = TRUE /\ faults = 0

Fault == faults < MaxFaults /\ faults' = faults + 1

-----------------------------------------------------------------------------
(* isSilenceSuppression, fillWithSilence *)

\* Mutant: the difference does not wrap.
PlainDifference(p) == TS(p) - (lastTS + Frame)

\* tsDiff := currentTS - expectedTS, in uint32
TsDiff(p) == (TS(p) - (lastTS + Frame)) % TsMod

\* Mutant: a sequence number that is too high is let pass.
BehindOnly(p) == Seq(p) < lastSeq + 1

\* seqDiff != 0, in uint16
SeqGap(p) == (Seq(p) - (lastSeq + 1)) % SeqMod # 0

\* How many frames of silence go before a packet: none for the first one, after
\* a lost or an overtaken one, and when there is too much of it (a reset).
MissingFrames(p) ==
    IF packets = 0 \/ SeqGap(p) \/ TsDiff(p) \div Frame > MaxGap THEN 0 ELSE TsDiff(p) \div Frame

-----------------------------------------------------------------------------
(* The peer and the network *)

\* The peer speaks frame after frame, or is silent for a while in between.
Send(pause) ==
    /\ sent.n < MaxPackets
    /\ sent = none => pause = 0
    /\ LET p == [n |-> sent.n + 1, t |-> sent.t + 1 + pause]
       IN  sent' = p /\ net' = net \cup {p}
    /\ UNCHANGED <<packets, lastSeq, lastTS, last, frames, fill, smooth, faults>>

Lose(p) ==
    /\ p \in net
    /\ net' = net \ {p}
    /\ Fault
    /\ smooth' = FALSE
    /\ UNCHANGED <<sent, packets, lastSeq, lastTS, last, frames, fill>>

-----------------------------------------------------------------------------
(* HandleRTP *)

\* The counters are swapped whatever becomes of the packet.
Seen(p) ==
    /\ packets' = packets + 1
    /\ lastSeq' = Seq(p)
    /\ lastTS' = TS(p)
    /\ last' = p

\* A packet is not delayed, and losses do not add up, to a whole period of the
\* sequence number.
InWindow(p) == packets = 0 \/ p.n - last.n - 1 \in (1 - SeqMod)..(SeqMod - 1)

\* The silence, then the packet's own frame.  It may overtake others, and a
\* copy may follow.
HandleRTP(p) ==
    /\ p \in net
    /\ InWindow(p)
    /\ Seen(p)
    /\ fill' = MissingFrames(p)
    /\ frames' = frames + MissingFrames(p) + 1
    /\ smooth' = (smooth /\ p.n = packets + 1 /\ p.t - last.t - 1 <= MaxGap)
    /\ \/ net' = net \ {p} /\ (\A q \in net : p.n <= q.n) /\ UNCHANGED faults
       \/ net' = net \ {p} /\ Fault
       \/ net' = net /\ Fault
    /\ UNCHANGED sent

\* WriteSample fails after k frames of silence, or the decoder after all of them:
\* the packet is dropped.
HandleFails(p) ==
    /\ p \in net
    /\ InWindow(p)
    /\ Fault
    /\ Seen(p)
    /\ \E k \in 0..MissingFrames(p) : fill' = k /\ frames' = frames + k
    /\ smooth' = FALSE
    /\ net' = net \ {p}
    /\ UNCHANGED sent

Next ==
    \/ \E k \in Pauses : Send(k)
    \/ \E p \in net : Lose(p) \/ HandleRTP(p) \/ HandleFails(p)

Spec == Init /\ [][Next]_vars

-----------------------------------------------------------------------------
(* Properties *)

\* As long as packets come in order and pauses are short, the audio written
\* is as long as the peer's: the filler neither drops nor adds a frame,
\* wherever its counters wrap.
InSync == smooth => frames = last.t

\* Loss, reordering and duplication are not taken for silence: it is written
\* only between two packets that were sent one after the other, and never more
\* of it than the peer was silent for.
SilenceIsReal ==
    [][packets' > packets /\ fill' > 0
        => last'.n = last.n + 1 /\ fill' <= last'.t - last.t - 1]_vars
=============================================================================
