-------------------------- MODULE GapTrackerProofs --------------------------
(***************************************************************************)
(* Proofs about GapTracker, for a machine word of any size.                *)
(*                                                                         *)
(* GapsAccounting is not inductive: a step that charges a range is exact   *)
(* only if the range is disjoint from what is already charged, and the     *)
(* modular additions are exact only if the total fits a word.  GapInv adds *)
(* that the watermark dominates every observation and that the late items  *)
(* lie in the window.  Missing and late are then disjoint parts of the     *)
(* window, which is no larger than MaxU64: the counter cannot overflow.    *)
(***************************************************************************)
EXTENDS GapTracker, TLAPS, FiniteSetTheorems

\* All machine words, by the modular operators.
GapTypeOK ==
  /\ lastSeq \in U64
  /\ haveLast \in BOOLEAN
  /\ gaps \in U64
  /\ base \in U64
  /\ seen \subseteq U64
  /\ beats \subseteq U64
  /\ late \subseteq U64

LateInWindow ==
  IF haveLast
    THEN base \in Observed /\ late \subseteq (seen \cap Window)
    ELSE late = {}

GapInv == GapTypeOK /\ WatermarkIsMax /\ LateInWindow /\ GapsAccounting

\* A sum that fits the word is not changed by wrapping.
LEMMA AddExact ==
  ASSUME NEW a \in Nat, NEW b \in Nat, a + b <= MaxU64
  PROVE  AddU64(a, b) = a + b
BY MaxU64Assumption DEF AddU64

LEMMA SubExact ==
  ASSUME NEW a \in U64, NEW b \in U64, b <= a
  PROVE  SubU64(a, b) = a - b
BY MaxU64Assumption DEF SubU64, U64

\* What noteItemSeq adds to the counter: the numbers strictly between.
LEMMA ItemJump ==
  ASSUME NEW seq \in U64, NEW last \in U64
  PROVE  satSubU64(seq, satAdd1U64(last)) =
           IF seq > last THEN seq - last - 1 ELSE 0
<1>1. CASE last = MaxU64
  <2>1. satAdd1U64(last) = last
    BY <1>1 DEF satAdd1U64, NoSeqAssigned
  <2>2. CASE seq < last
    BY <2>1, <2>2, MaxU64Assumption DEF satSubU64, U64
  <2>3. CASE seq = last
    BY <2>1, <2>3, SubExact, MaxU64Assumption DEF satSubU64, U64
  <2> QED
    BY <1>1, <2>2, <2>3, MaxU64Assumption DEF U64
<1>2. CASE last # MaxU64
  <2>1. satAdd1U64(last) = last + 1 /\ last + 1 \in U64
    BY <1>2, AddExact, MaxU64Assumption DEF satAdd1U64, NoSeqAssigned, U64
  <2>2. CASE seq < last + 1
    BY <2>1, <2>2, MaxU64Assumption DEF satSubU64, U64
  <2>3. CASE seq >= last + 1
    BY <2>1, <2>3, SubExact, MaxU64Assumption DEF satSubU64, U64
  <2> QED
    BY <2>2, <2>3, MaxU64Assumption DEF U64
<1> QED
  BY <1>1, <1>2

\* The size of a range that starts after a number.
LEMMA CardinalityRange ==
  ASSUME NEW l \in Int, NEW h \in Int, l <= h
  PROVE  IsFiniteSet((l + 1) .. h) /\ Cardinality((l + 1) .. h) = h - l
<1> DEFINE a == l + 1
<1>1. a \in Int
  OBVIOUS
<1>2. /\ IsFiniteSet(a .. h)
      /\ Cardinality(a .. h) = IF a > h THEN 0 ELSE h - a + 1
  <2> HIDE DEF a
  <2> QED
    BY <1>1, FS_Interval
<1> QED
  BY <1>2

LEMMA CardinalityDisjointUnion ==
  ASSUME NEW A, NEW B, IsFiniteSet(A), IsFiniteSet(B), A \cap B = {}
  PROVE  /\ IsFiniteSet(A \cup B)
         /\ Cardinality(A \cup B) = Cardinality(A) + Cardinality(B)
<1>1. Cardinality(A) \in Nat /\ Cardinality(B) \in Nat
  BY FS_CardinalityType
<1>2. /\ IsFiniteSet(A \cup B)
      /\ Cardinality(A \cup B)
           = Cardinality(A) + Cardinality(B) - Cardinality(A \cap B)
  BY FS_Union
<1>3. Cardinality(A \cap B) = 0
  BY FS_EmptySet
<1> QED
  BY <1>1, <1>2, <1>3

\* Adding a disjoint range of numbers to a finite set.
LEMMA CardinalityAddRange ==
  ASSUME NEW A, IsFiniteSet(A), NEW l \in Int, NEW h \in Int,
         l <= h, A \cap ((l + 1) .. h) = {}
  PROVE  /\ IsFiniteSet(A \cup ((l + 1) .. h))
         /\ Cardinality(A \cup ((l + 1) .. h)) = Cardinality(A) + (h - l)
<1>1. IsFiniteSet((l + 1) .. h) /\ Cardinality((l + 1) .. h) = h - l
  BY CardinalityRange
<1> DEFINE B == (l + 1) .. h
<1>2. IsFiniteSet(B) /\ A \cap B = {} /\ Cardinality(B) = h - l
  BY <1>1
<1>3. IsFiniteSet(A \cup B) /\ Cardinality(A \cup B) = Cardinality(A) + Cardinality(B)
  <2> HIDE DEF B
  <2> QED
    BY <1>2, CardinalityDisjointUnion
<1> QED
  BY <1>2, <1>3

\* Disjoint parts of a range hold together no more than the range.
LEMMA CardinalityDisjointParts ==
  ASSUME NEW lo \in Nat, NEW hi \in Nat, lo <= hi,
         NEW A \in SUBSET ((lo + 1) .. hi), NEW B \in SUBSET ((lo + 1) .. hi),
         A \cap B = {}
  PROVE  /\ IsFiniteSet(A) /\ IsFiniteSet(B)
         /\ Cardinality(A) \in Nat /\ Cardinality(B) \in Nat
         /\ Cardinality(A) + Cardinality(B) <= hi - lo
<1>1. IsFiniteSet((lo + 1) .. hi) /\ Cardinality((lo + 1) .. hi) = hi - lo
  BY CardinalityRange
<1>2. IsFiniteSet(A) /\ IsFiniteSet(B)
  BY <1>1, FS_Subset
<1>3. Cardinality(A) \in Nat /\ Cardinality(B) \in Nat
  BY <1>2, FS_CardinalityType
<1>4. Cardinality(A \cup B) = Cardinality(A) + Cardinality(B)
  BY <1>2, CardinalityDisjointUnion
<1>5. Cardinality(A \cup B) <= hi - lo
  BY <1>1, FS_Subset, A \cup B \in SUBSET ((lo + 1) .. hi)
<1> QED
  BY <1>2, <1>3, <1>4, <1>5

-----------------------------------------------------------------------------
LEMMA GapInitInv == GapInit => GapInv
<1> SUFFICES ASSUME GapInit
             PROVE  GapInv
  OBVIOUS
<1>1. ~haveLast /\ Observed = {}
  BY DEF GapInit, Observed
<1>2. GapTypeOK
  <2>1. 0 \in U64
    BY MaxU64Assumption DEF U64
  <2> QED
    BY <2>1 DEF GapInit, GapTypeOK
<1>3. WatermarkIsMax
  BY <1>1 DEF WatermarkIsMax
<1>4. LateInWindow /\ GapsAccounting
  BY <1>1 DEF GapInit, LateInWindow, GapsAccounting
<1> QED
  BY <1>2, <1>3, <1>4 DEF GapInv

\* The charged numbers fit the window, whatever it is.
LEMMA ChargeFits ==
  ASSUME GapInv, haveLast
  PROVE  /\ IsFiniteSet(Missing) /\ IsFiniteSet(late)
         /\ Cardinality(Missing) \in Nat /\ Cardinality(late) \in Nat
         /\ base <= lastSeq
         /\ gaps <= lastSeq - base
<1>1. base \in Nat /\ lastSeq \in Nat /\ base <= lastSeq
  BY MaxU64Assumption
     DEF GapInv, GapTypeOK, U64, WatermarkIsMax, LateInWindow
<1>2. /\ Missing \in SUBSET ((base + 1) .. lastSeq)
      /\ late \in SUBSET ((base + 1) .. lastSeq)
      /\ Missing \cap late = {}
  BY DEF GapInv, LateInWindow, Missing, Window
<1>3. gaps = Cardinality(Missing) + Cardinality(late)
  BY DEF GapInv, GapsAccounting
<1> QED
  BY <1>1, <1>2, <1>3, CardinalityDisjointParts

\* The code's half of a step that moves the watermark up, and the history it
\* leaves: the counter grows by exactly the numbers newly missing.
LEMMA ItemAbove ==
  ASSUME GapInv, haveLast, NEW seq \in U64, seq > lastSeq, ObserveItem(seq)
  PROVE  GapInv' /\ gaps' >= gaps
<1> USE MaxU64Assumption
<1>1. /\ lastSeq \in Nat /\ base \in Nat /\ seq \in Nat /\ gaps \in Nat
      /\ lastSeq <= MaxU64 /\ seq <= MaxU64
  BY DEF GapInv, GapTypeOK, U64
<1>2. /\ base' = base /\ beats' = beats /\ late' = late
      /\ seen' = seen \cup {seq}
  BY <1>1 DEF ObserveItem, recordItem, GapInv, WatermarkIsMax, Observed,
              GapTypeOK, U64
<1>3. /\ haveLast' /\ haveLast' = TRUE /\ lastSeq' = seq
      /\ gaps' = AddU64(gaps, seq - lastSeq - 1)
  BY ItemJump DEF ObserveItem, noteItemSeq, GapInv, GapTypeOK
<1>4. gaps + (seq - lastSeq - 1) <= MaxU64
  BY <1>1, ChargeFits
<1>5. gaps' = gaps + (seq - lastSeq - 1)
  BY <1>1, <1>3, <1>4, AddExact
<1>6. Missing' = Missing \cup ((lastSeq + 1) .. (seq - 1))
  <2>1. \A x \in seen : x \in Nat /\ x <= lastSeq
    BY DEF GapInv, GapTypeOK, WatermarkIsMax, Observed, U64
  <2> QED
    BY <1>1, <1>2, <1>3, <2>1, ChargeFits DEF Missing, Window
<1>7. Missing \cap ((lastSeq + 1) .. (seq - 1)) = {}
  BY <1>1 DEF Missing, Window
<1>8. Cardinality(Missing') = Cardinality(Missing) + (seq - lastSeq - 1)
  <2>1. \A h \in Int : lastSeq <= h /\ Missing \cap ((lastSeq + 1) .. h) = {} =>
          Cardinality(Missing \cup ((lastSeq + 1) .. h))
            = Cardinality(Missing) + (h - lastSeq)
    BY <1>1, ChargeFits, CardinalityAddRange
  <2>2. seq - 1 \in Int /\ lastSeq <= seq - 1
        /\ (seq - 1) - lastSeq = seq - lastSeq - 1
    BY <1>1
  <2>3. Cardinality(Missing \cup ((lastSeq + 1) .. (seq - 1)))
          = Cardinality(Missing) + ((seq - 1) - lastSeq)
    BY <1>7, <2>1, <2>2
  <2> QED
    BY <1>6, <2>2, <2>3
<1>9. GapsAccounting'
  BY <1>1, <1>2, <1>3, <1>5, <1>8, ChargeFits DEF GapInv, GapsAccounting
<1>10. GapTypeOK'
  BY <1>1, <1>2, <1>3, <1>4, <1>5 DEF GapInv, GapTypeOK, U64
<1>11. WatermarkIsMax'
  BY <1>1, <1>2, <1>3 DEF GapInv, GapTypeOK, U64, WatermarkIsMax, Observed
<1>12. LateInWindow'
  BY <1>1, <1>2, <1>3 DEF GapInv, LateInWindow, Observed, Window
<1> QED
  BY <1>1, <1>5, <1>9, <1>10, <1>11, <1>12 DEF GapInv

\* An item at or below the watermark is not charged again: it moves from the
\* missing numbers to the late ones, or changes neither.
LEMMA ItemBelow ==
  ASSUME GapInv, haveLast, NEW seq \in U64, seq <= lastSeq, ObserveItem(seq)
  PROVE  GapInv' /\ gaps' >= gaps
<1> USE MaxU64Assumption
<1>1. /\ lastSeq \in Nat /\ base \in Nat /\ seq \in Nat /\ gaps \in Nat
      /\ lastSeq <= MaxU64 /\ seq <= MaxU64 /\ gaps <= MaxU64
  BY DEF GapInv, GapTypeOK, U64
<1>2. lastSeq \in Observed /\ base \in Observed
  BY DEF GapInv, WatermarkIsMax, LateInWindow
<1>3. /\ base' = base /\ beats' = beats /\ seen' = seen \cup {seq}
      /\ late' = IF base < seq /\ seq \notin seen THEN late \cup {seq} ELSE late
  BY <1>1, <1>2 DEF ObserveItem, recordItem
<1>4. haveLast' /\ haveLast' = TRUE /\ lastSeq' = lastSeq /\ gaps' = gaps
  <2>1. gaps' = AddU64(gaps, 0) /\ haveLast' /\ haveLast' = TRUE
        /\ lastSeq' = lastSeq
    BY <1>1, ItemJump DEF ObserveItem, noteItemSeq, GapInv, GapTypeOK
  <2> QED
    BY <1>1, <2>1, AddExact
<1>5. Missing' = Missing \ {seq}
  BY <1>3, <1>4 DEF Missing, Window
<1>6. Cardinality(Missing') + Cardinality(late')
        = Cardinality(Missing) + Cardinality(late)
  <2>1. CASE base < seq /\ seq \notin seen
    <3>1. seq \in Missing
      BY <1>1, <2>1 DEF Missing, Window
    <3>2. seq \notin late
      BY <2>1 DEF GapInv, LateInWindow
    <3>3. Cardinality(Missing') = Cardinality(Missing) - 1
      BY <1>5, <3>1, FS_RemoveElement, ChargeFits
    <3>4. Cardinality(late') = Cardinality(late) + 1
      BY <1>3, <2>1, <3>2, FS_AddElement, ChargeFits
    <3> QED
      BY <3>3, <3>4, ChargeFits
  <2>2. CASE ~(base < seq /\ seq \notin seen)
    <3>1. seq \notin Missing
      BY <1>1, <2>2 DEF Missing, Window
    <3> QED
      BY <1>3, <1>5, <2>2, <3>1, Missing' = Missing
  <2> QED
    BY <2>1, <2>2
<1>7. GapsAccounting'
  BY <1>4, <1>6 DEF GapInv, GapsAccounting
<1>8. GapTypeOK'
  BY <1>3, <1>4 DEF GapInv, GapTypeOK
<1>9. WatermarkIsMax'
  BY <1>1, <1>3, <1>4 DEF GapInv, WatermarkIsMax, Observed
<1>10. LateInWindow'
  BY <1>1, <1>3, <1>4 DEF GapInv, LateInWindow, Observed, Window
<1> QED
  BY <1>1, <1>4, <1>7, <1>8, <1>9, <1>10 DEF GapInv

\* A heartbeat above the watermark charges the trailing loss it reveals.
LEMMA HeartbeatAbove ==
  ASSUME GapInv, haveLast, NEW h \in U64, h # NoSeqAssigned, h > lastSeq,
         ObserveHeartbeat(h)
  PROVE  GapInv' /\ gaps' >= gaps
<1> USE MaxU64Assumption
<1>1. /\ lastSeq \in Nat /\ base \in Nat /\ h \in Nat /\ gaps \in Nat
      /\ lastSeq <= MaxU64 /\ h <= MaxU64
  BY DEF GapInv, GapTypeOK, U64
<1>2. /\ base' = base /\ seen' = seen /\ late' = late
      /\ beats' = beats \cup {h}
  BY DEF ObserveHeartbeat, recordHeartbeat, GapInv, WatermarkIsMax
<1>3. /\ haveLast' /\ haveLast' = TRUE /\ lastSeq' = h
      /\ gaps' = AddU64(gaps, h - lastSeq)
  <2>1. SubU64(h, lastSeq) = h - lastSeq
    BY <1>1, SubExact DEF U64
  <2>2. noteHeartbeatSeq(h) /\ ~(h <= lastSeq)
    BY <1>1 DEF ObserveHeartbeat
  <2>3. /\ UNCHANGED haveLast /\ lastSeq' = h
        /\ gaps' = AddU64(gaps, SubU64(h, lastSeq))
    BY <2>2 DEF noteHeartbeatSeq
  <2> QED
    BY <2>1, <2>3 DEF GapInv, GapTypeOK
<1>4. gaps + (h - lastSeq) <= MaxU64
  BY <1>1, ChargeFits
<1>5. gaps' = gaps + (h - lastSeq)
  BY <1>1, <1>3, <1>4, AddExact
<1>6. Missing' = Missing \cup ((lastSeq + 1) .. h)
  <2>1. \A x \in seen : x \in Nat /\ x <= lastSeq
    BY DEF GapInv, GapTypeOK, WatermarkIsMax, Observed, U64
  <2> QED
    BY <1>1, <1>2, <1>3, <2>1, ChargeFits DEF Missing, Window
<1>7. Missing \cap ((lastSeq + 1) .. h) = {}
  BY <1>1 DEF Missing, Window
<1>8. Cardinality(Missing') = Cardinality(Missing) + (h - lastSeq)
  BY <1>1, <1>6, <1>7, ChargeFits, CardinalityAddRange
<1>9. GapsAccounting'
  BY <1>1, <1>2, <1>3, <1>5, <1>8, ChargeFits DEF GapInv, GapsAccounting
<1>10. GapTypeOK'
  BY <1>1, <1>2, <1>3, <1>4, <1>5 DEF GapInv, GapTypeOK, U64
<1>11. WatermarkIsMax'
  BY <1>1, <1>2, <1>3 DEF GapInv, GapTypeOK, U64, WatermarkIsMax, Observed
<1>12. LateInWindow'
  BY <1>1, <1>2, <1>3 DEF GapInv, LateInWindow, Observed, Window
<1> QED
  BY <1>1, <1>5, <1>9, <1>10, <1>11, <1>12 DEF GapInv

\* A heartbeat at or below the watermark only enters the history.
LEMMA HeartbeatBelow ==
  ASSUME GapInv, haveLast, NEW h \in U64, h # NoSeqAssigned, h <= lastSeq,
         ObserveHeartbeat(h)
  PROVE  GapInv' /\ gaps' >= gaps
<1> USE MaxU64Assumption
<1>1. lastSeq \in Nat /\ h \in Nat /\ gaps \in Nat
  BY DEF GapInv, GapTypeOK, U64
<1>2. /\ base' = base /\ seen' = seen /\ late' = late
      /\ beats' = beats \cup {h}
  BY DEF ObserveHeartbeat, recordHeartbeat, GapInv, WatermarkIsMax
<1>3. lastSeq' = lastSeq /\ haveLast' = haveLast /\ gaps' = gaps
  <2>1. noteHeartbeatSeq(h) /\ ~(h > lastSeq)
    BY <1>1 DEF ObserveHeartbeat
  <2>2. UNCHANGED code
    BY <2>1 DEF noteHeartbeatSeq
  <2> QED
    BY <2>2 DEF code
<1>4. GapTypeOK' /\ WatermarkIsMax'
  BY <1>1, <1>2, <1>3 DEF GapInv, GapTypeOK, WatermarkIsMax, Observed
<1>5. LateInWindow' /\ GapsAccounting'
  BY <1>2, <1>3
     DEF GapInv, LateInWindow, GapsAccounting, Missing, Window, Observed
<1> QED
  BY <1>1, <1>3, <1>4, <1>5 DEF GapInv

\* The first observation opens an empty window and charges nothing.
LEMMA FirstObservation ==
  ASSUME GapInv, ~haveLast, NEW n \in U64,
         \/ ObserveItem(n)
         \/ n # NoSeqAssigned /\ ObserveHeartbeat(n)
  PROVE  GapInv' /\ gaps' >= gaps
<1> USE MaxU64Assumption
<1>1. seen = {} /\ beats = {} /\ late = {} /\ gaps = 0 /\ n \in Nat
  BY DEF GapInv, WatermarkIsMax, LateInWindow, GapsAccounting, Observed, U64
<1>2. /\ lastSeq' = n /\ haveLast' /\ haveLast' = TRUE /\ gaps' = 0
  BY <1>1 DEF ObserveItem, ObserveHeartbeat, noteItemSeq, noteHeartbeatSeq
<1>3. base' = n /\ Observed' = {n} /\ late' = {}
  BY <1>1 DEF ObserveItem, ObserveHeartbeat, recordItem, recordHeartbeat, Observed
<1>4. Window' = {} /\ Missing' = {}
  BY <1>1, <1>2, <1>3 DEF Window, Missing
<1>5. GapTypeOK' /\ WatermarkIsMax' /\ LateInWindow'
  BY <1>1, <1>2, <1>3, <1>4
     DEF GapTypeOK, U64, WatermarkIsMax, LateInWindow, Observed
<1>6. GapsAccounting'
  BY <1>2, <1>3, <1>4, FS_EmptySet DEF GapsAccounting
<1> QED
  BY <1>1, <1>2, <1>5, <1>6 DEF GapInv

\* The invariant is inductive, and no step lowers the counter.
LEMMA GapNextInv == GapInv /\ [GapNext]_gapVars => GapInv' /\ gaps' >= gaps
<1> SUFFICES ASSUME GapInv, [GapNext]_gapVars
             PROVE  GapInv' /\ gaps' >= gaps
  OBVIOUS
<1> USE MaxU64Assumption
<1>0. gaps \in Nat /\ lastSeq \in Nat /\ haveLast \in BOOLEAN
  BY DEF GapInv, GapTypeOK, U64
<1>1. ASSUME NEW n \in U64, ObserveItem(n)
      PROVE  GapInv' /\ gaps' >= gaps
  <2>1. n \in Nat
    BY DEF U64
  <2> QED
    BY <1>0, <1>1, <2>1, ItemAbove, ItemBelow, FirstObservation
<1>2. ASSUME NEW n \in U64, ObserveHeartbeat(n), n # NoSeqAssigned
      PROVE  GapInv' /\ gaps' >= gaps
  <2>1. n \in Nat
    BY DEF U64
  <2> QED
    BY <1>0, <1>2, <2>1, HeartbeatAbove, HeartbeatBelow, FirstObservation
<1>3. ASSUME ObserveHeartbeat(NoSeqAssigned) \/ UNCHANGED gapVars
      PROVE  GapInv' /\ gaps' >= gaps
  <2>1. UNCHANGED gapVars
    BY <1>3 DEF ObserveHeartbeat, noteHeartbeatSeq, recordHeartbeat,
                code, history, gapVars
  <2> QED
    BY <1>0, <2>1 DEF gapVars, GapInv, GapTypeOK, WatermarkIsMax,
       LateInWindow, GapsAccounting, Missing, Window, Observed
<1> QED
  BY <1>1, <1>2, <1>3 DEF GapNext

\* The invariant holds throughout.
LEMMA GapInvariance == GapSpec => []GapInv
<1>1. GapInv /\ [GapNext]_gapVars => GapInv'
  BY GapNextInv
<1> QED
  BY GapInitInv, <1>1, PTL DEF GapSpec

-----------------------------------------------------------------------------
\* noteItemSeq and noteHeartbeatSeq keep the highest number observed.
THEOREM WatermarkCorrect == GapSpec => []WatermarkIsMax
<1>1. GapInv => WatermarkIsMax
  BY DEF GapInv
<1> QED
  BY GapInvariance, <1>1, PTL

\* Gaps() is the missing numbers plus the late ones, for every word size and
\* every order, loss and duplication of datagrams.
THEOREM GapsExact == GapSpec => []GapsAccounting
<1>1. GapInv => GapsAccounting
  BY DEF GapInv
<1> QED
  BY GapInvariance, <1>1, PTL

\* Gaps() never goes back: no late item reverses a charge and no addition
\* wraps.
THEOREM GapsMonotone == GapSpec => GapsNeverRetracted
<1>1. GapInv /\ [GapNext]_gapVars => [gaps' >= gaps]_gapVars
  BY GapNextInv
<1> QED
  BY GapInvariance, <1>1, PTL DEF GapSpec, GapsNeverRetracted
=============================================================================
