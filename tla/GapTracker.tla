----------------------------- MODULE GapTracker -----------------------------
(***************************************************************************)
(* The loss accounting of the sig-first tier: noteItemSeq and              *)
(* noteHeartbeatSeq of pulse.go, which fold every decoded datagram into a  *)
(* watermark (lastSeq, haveLast) and the atomic counter behind Gaps().     *)
(*                                                                         *)
(* QUIC datagrams may be lost, reordered and duplicated, so a step may     *)
(* observe any sequence number at any time.  Numbers are machine words:    *)
(* MaxU64 is the largest one and all arithmetic wraps.                     *)
(*                                                                         *)
(* The last four variables are history: they record what has been observed *)
(* without looking at the code's state, and the properties compare the two.*)
(***************************************************************************)
EXTENDS Integers, FiniteSets

CONSTANT MaxU64  \* ^uint64(0); a few units in the model-checked instances

ASSUME MaxU64Assumption == MaxU64 \in Nat

VARIABLES
  lastSeq,   \* the watermark; meaningless until haveLast
  haveLast,  \* has anything been observed?
  gaps,      \* SigFirstSub.gaps
  base,      \* history: the first number observed
  seen,      \* history: sequence numbers of the items received
  beats,     \* history: highest-assigned numbers heartbeats announced
  late       \* history: items that arrived after the watermark passed them

code    == <<lastSeq, haveLast, gaps>>
history == <<base, seen, beats, late>>
gapVars == <<lastSeq, haveLast, gaps, base, seen, beats, late>>

U64 == 0 .. MaxU64

\* The wire value of a heartbeat's HighestSeq that means "nothing assigned yet".
NoSeqAssigned == MaxU64

\* Go's unsigned + and -, and atomic.Uint64.Add.
AddU64(a, b) == (a + b) % (MaxU64 + 1)
SubU64(a, b) == (a - b) % (MaxU64 + 1)

Observed == seen \cup beats

-----------------------------------------------------------------------------
\* Mutants: plausible bugs, each caught by a property below.

satSubU64Unguarded(a, b) == SubU64(a, b)

satAdd1U64Wrapping(x) == AddU64(x, 1)

noteItemSeqOverwrites(seq) ==  \* the watermark follows the latest arrival
  /\ gaps' = IF haveLast /\ seq > lastSeq
               THEN AddU64(gaps, SubU64(seq, AddU64(lastSeq, 1))) ELSE gaps
  /\ lastSeq' = seq
  /\ haveLast' = TRUE

noteHeartbeatSeqUncharged(highestSeq) ==  \* moves the watermark only
  /\ gaps' = gaps
  /\ IF highestSeq # NoSeqAssigned /\ (highestSeq > lastSeq \/ ~haveLast)
       THEN lastSeq' = highestSeq /\ haveLast' = TRUE
       ELSE UNCHANGED <<lastSeq, haveLast>>

-----------------------------------------------------------------------------
satAdd1U64(x) == IF x = NoSeqAssigned THEN x ELSE AddU64(x, 1)

satSubU64(a, b) == IF a < b THEN 0 ELSE SubU64(a, b)

noteItemSeq(seq) ==
  \/ /\ haveLast
     /\ gaps' = AddU64(gaps, satSubU64(seq, satAdd1U64(lastSeq)))
     /\ lastSeq' = IF seq > lastSeq THEN seq ELSE lastSeq
     /\ UNCHANGED haveLast
  \/ /\ ~haveLast
     /\ lastSeq' = seq
     /\ haveLast' = TRUE
     /\ UNCHANGED gaps

noteHeartbeatSeq(highestSeq) ==
  \/ /\ highestSeq = NoSeqAssigned
     /\ UNCHANGED code
  \/ /\ highestSeq # NoSeqAssigned
     /\ haveLast
     /\ highestSeq > lastSeq
     /\ gaps' = AddU64(gaps, SubU64(highestSeq, lastSeq))
     /\ lastSeq' = highestSeq
     /\ UNCHANGED haveLast
  \/ /\ highestSeq # NoSeqAssigned
     /\ haveLast
     /\ highestSeq <= lastSeq
     /\ UNCHANGED code
  \/ /\ highestSeq # NoSeqAssigned
     /\ ~haveLast
     /\ lastSeq' = highestSeq
     /\ haveLast' = TRUE
     /\ UNCHANGED gaps

\* History of an item: it is late when something at least as high was observed
\* before it and it is neither a duplicate nor from before the first observation.
recordItem(seq) ==
  /\ base' = IF Observed = {} THEN seq ELSE base
  /\ late' = IF /\ base < seq
                /\ seq \notin seen
                /\ \E y \in Observed : seq <= y
             THEN late \cup {seq} ELSE late
  /\ seen' = seen \cup {seq}
  /\ UNCHANGED beats

recordHeartbeat(highestSeq) ==
  \/ /\ highestSeq = NoSeqAssigned
     /\ UNCHANGED history
  \/ /\ highestSeq # NoSeqAssigned
     /\ base' = IF Observed = {} THEN highestSeq ELSE base
     /\ beats' = beats \cup {highestSeq}
     /\ UNCHANGED <<seen, late>>

\* What drain does with a decoded SigFirst and a decoded DatagramHeartbeat.
ObserveItem(seq) == noteItemSeq(seq) /\ recordItem(seq)

ObserveHeartbeat(highestSeq) ==
  noteHeartbeatSeq(highestSeq) /\ recordHeartbeat(highestSeq)

GapInit ==
  /\ lastSeq = 0
  /\ haveLast = FALSE
  /\ gaps = 0
  /\ base = 0
  /\ seen = {}
  /\ beats = {}
  /\ late = {}

GapNext == \E n \in U64 : ObserveItem(n) \/ ObserveHeartbeat(n)

GapSpec == GapInit /\ [][GapNext]_gapVars

-----------------------------------------------------------------------------
\* The numbers above the first observation up to the watermark, and those of
\* them that no item carried.
Window  == (base + 1) .. lastSeq
Missing == Window \ seen

\* The watermark is the highest number observed, however datagrams were
\* reordered (noteItemSeq: "the watermark MUST be monotonic").
WatermarkIsMax ==
  /\ haveLast <=> Observed # {}
  /\ haveLast => /\ lastSeq \in Observed
                 /\ \A y \in Observed : y <= lastSeq

\* Gaps() counts each number above the first observation that never arrived,
\* plus each that arrived late, once: it never under-reports loss in the
\* window, never charges a number twice, and is exact on an ordered feed.
GapsAccounting ==
  IF haveLast THEN gaps = Cardinality(Missing) + Cardinality(late)
              ELSE gaps = 0

\* A charge is never taken back, not even when the late item shows up, and the
\* counter never wraps around (Gaps: "never reverses the charge").
GapsNeverRetracted == [][gaps' >= gaps]_gapVars
=============================================================================
