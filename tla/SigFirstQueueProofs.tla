------------------------ MODULE SigFirstQueueProofs -------------------------
(***************************************************************************)
(* Proofs about SigFirstQueue and SigFirstStats, for every capacity, every *)
(* set of callers and every number of arrivals.                            *)
(*                                                                         *)
(* Shape is inductive by itself: it says what push knows about the buffer  *)
(* (room after an eviction, since push is the only producer) and what a    *)
(* parked caller knows (nothing to take).  The accounting invariants are   *)
(* then inductive relative to Shape.                                       *)
(***************************************************************************)
EXTENDS SigFirstStats, TLAPS

\* After the eviction select of push there is room, and only callers, who make
\* more of it, run before the retry.
RoomAfterEvict == Swapped => Len(ch) < Capacity

\* What Go's channels guarantee: an item or a close goes to a parked receiver.
ParkedOnEmpty == Parked # {} => ch = <<>> /\ ~closed

Shape ==
  /\ QueueTypeOK
  /\ InHand = 1 => cur = arrived /\ arrived > 0
  /\ InHand = 0 \/ InHand = 1
  /\ RoomAfterEvict
  /\ ParkedOnEmpty
  /\ closed <=> pc = "done"

LEMMA ShapeInit == QueueInit => Shape
<1> SUFFICES ASSUME QueueInit
             PROVE  Shape
  OBVIOUS
<1> USE CapacityAssumption, ArrivalsAssumption
<1>1. QueueTypeOK
  <2>1. 0 \in 0 .. MaxArrivals /\ <<>> \in Seq(1 .. MaxArrivals)
        /\ Len(<<>>) <= Capacity
    OBVIOUS
  <2>2. call \in [Callers -> {"idle", "parked", "released"}]
    BY DEF QueueInit
  <2> QED
    BY <2>1, <2>2 DEF QueueInit, QueueTypeOK
<1>2. InHand = 0 /\ ~Swapped /\ Parked = {}
  BY DEF QueueInit, InHand, Swapped, Parked
<1>3. closed <=> pc = "done"
  BY DEF QueueInit
<1> QED
  BY <1>1, <1>2, <1>3 DEF Shape, RoomAfterEvict, ParkedOnEmpty

\* A channel send: handed over, buffered, or refused.
LEMMA ShapePush ==
  ASSUME Shape, PushSend \/ PushResend
  PROVE  Shape'
<1> USE CapacityAssumption, ArrivalsAssumption
<1>1. /\ cur \in 1 .. MaxArrivals /\ cur' = cur /\ arrived' = arrived
      /\ closed' = closed /\ evicted' = evicted /\ closed = FALSE
      /\ pc \in {"send", "resend"}
  BY DEF Shape, QueueTypeOK, InHand, PushSend, PushResend
<1>2. CASE \E c \in Parked : /\ call' = [call EXCEPT ![c] = "idle"]
                             /\ taken' = Append(taken, cur)
                             /\ pc' = "recv"
                             /\ UNCHANGED <<ch, dropped>>
  <2>1. QueueTypeOK'
    <3>1. taken' \in Seq(1 .. MaxArrivals)
      BY <1>1, <1>2 DEF Shape, QueueTypeOK
    <3>2. call' \in [Callers -> {"idle", "parked", "released"}]
      BY <1>2 DEF Shape, QueueTypeOK
    <3>3. ch' = ch /\ dropped' = dropped /\ pc' = "recv"
      BY <1>2
    <3> QED
      BY <1>1, <3>1, <3>2, <3>3 DEF Shape, QueueTypeOK
  <2>2. InHand' = 0 /\ ~Swapped'
    BY <1>2 DEF InHand, Swapped
  <2>3. ParkedOnEmpty'
    BY <1>1, <1>2 DEF Shape, ParkedOnEmpty
  <2> QED
    BY <1>1, <1>2, <2>1, <2>2, <2>3 DEF Shape, RoomAfterEvict
<1>3. CASE /\ Parked = {} /\ HasRoom
           /\ ch' = Append(ch, cur)
           /\ pc' = "recv"
           /\ UNCHANGED <<call, taken, dropped>>
  <2>1. ch' \in Seq(1 .. MaxArrivals) /\ Len(ch') <= Capacity
    BY <1>1, <1>3 DEF Shape, QueueTypeOK, HasRoom
  <2>2. QueueTypeOK'
    BY <1>1, <1>3, <2>1 DEF Shape, QueueTypeOK
  <2>3. InHand' = 0 /\ ~Swapped' /\ Parked' = {}
    BY <1>3 DEF InHand, Swapped, Parked
  <2> QED
    BY <1>1, <1>3, <2>2, <2>3 DEF Shape, RoomAfterEvict, ParkedOnEmpty
<1>4. CASE /\ pc = "send" /\ Parked = {}
           /\ pc' = "evict"
           /\ UNCHANGED <<ch, call, taken, dropped>>
  <2>1. QueueTypeOK'
    BY <1>1, <1>4 DEF Shape, QueueTypeOK
  <2>2. InHand' = 1 /\ InHand = 1 /\ ~Swapped' /\ Parked' = {}
    BY <1>4 DEF InHand, Swapped, Parked
  <2> QED
    BY <1>1, <1>4, <2>1, <2>2 DEF Shape, RoomAfterEvict, ParkedOnEmpty
<1>5. CASE pc = "resend" /\ ~HasRoom
  BY <1>5 DEF Shape, QueueTypeOK, RoomAfterEvict, Swapped, HasRoom
<1> QED
  BY <1>1, <1>2, <1>3, <1>4, <1>5 DEF PushSend, PushResend, SendOrElse

LEMMA ShapeEvict ==
  ASSUME Shape, PushEvict \/ PushEvictNothing \/ PushCount
  PROVE  Shape'
<1> USE CapacityAssumption, ArrivalsAssumption
<1>1. CASE PushEvict
  <2>1. /\ ch' \in Seq(1 .. MaxArrivals) /\ Len(ch') < Capacity
        /\ evicted' \in Seq(1 .. MaxArrivals)
    BY <1>1 DEF PushEvict, Shape, QueueTypeOK
  <2>2. QueueTypeOK'
    BY <1>1, <2>1 DEF PushEvict, Shape, QueueTypeOK
  <2>3. InHand = 1 /\ InHand' = 1 /\ Parked = {} /\ Parked' = {}
    BY <1>1 DEF PushEvict, InHand, Shape, ParkedOnEmpty, Parked
  <2> QED
    BY <1>1, <2>1, <2>2, <2>3 DEF PushEvict, Shape, RoomAfterEvict, ParkedOnEmpty
<1>2. CASE PushEvictNothing
  <2>1. QueueTypeOK' /\ Len(ch') < Capacity
    BY <1>2 DEF PushEvictNothing, Shape, QueueTypeOK
  <2>2. InHand = 1 /\ InHand' = 1
    BY <1>2 DEF PushEvictNothing, InHand
  <2> QED
    BY <1>2, <2>1, <2>2
       DEF PushEvictNothing, Shape, RoomAfterEvict, ParkedOnEmpty, Parked
<1>3. CASE PushCount
  <2>1. QueueTypeOK'
    BY <1>3 DEF PushCount, Shape, QueueTypeOK
  <2>2. InHand = 1 /\ InHand' = 1 /\ Swapped
    BY <1>3 DEF PushCount, InHand, Swapped
  <2> QED
    BY <1>3, <2>1, <2>2
       DEF PushCount, Shape, RoomAfterEvict, ParkedOnEmpty, Parked
<1> QED
  BY <1>1, <1>2, <1>3

LEMMA ShapeSource ==
  ASSUME Shape, Recv \/ (\E e \in Ends : SourceEnd(e)) \/ Close
  PROVE  Shape'
<1> USE CapacityAssumption, ArrivalsAssumption
<1>1. CASE Recv
  <2>1. QueueTypeOK' /\ cur' = arrived' /\ arrived' > 0
    BY <1>1 DEF Recv, Shape, QueueTypeOK
  <2>2. InHand' = 1 /\ ~Swapped'
    BY <1>1 DEF Recv, InHand, Swapped
  <2> QED
    BY <1>1, <2>1, <2>2 DEF Recv, Shape, RoomAfterEvict, ParkedOnEmpty, Parked
<1>2. CASE \E e \in Ends : SourceEnd(e)
  <2>1. QueueTypeOK'
    BY <1>2 DEF SourceEnd, Shape, QueueTypeOK
  <2>2. InHand' = 0 /\ ~Swapped'
    BY <1>2 DEF SourceEnd, InHand, Swapped
  <2> QED
    BY <1>2, <2>1, <2>2 DEF SourceEnd, Shape, RoomAfterEvict, ParkedOnEmpty, Parked
<1>3. CASE Close
  <2>1. QueueTypeOK'
    BY <1>3 DEF Close, Shape, QueueTypeOK
  <2>2. InHand' = 0 /\ ~Swapped' /\ Parked' = {}
    BY <1>3 DEF Close, InHand, Swapped, Parked
  <2> QED
    BY <1>3, <2>1, <2>2 DEF Close, Shape, RoomAfterEvict, ParkedOnEmpty
<1> QED
  BY <1>1, <1>2, <1>3

LEMMA ShapeNext ==
  ASSUME Shape, NEW c \in Callers,
         \/ NextTakes(c) \/ NextParks(c) \/ NextCancelled(c)
         \/ NextSeesClosed(c) \/ NextReturnsErr(c)
  PROVE  Shape'
<1> USE CapacityAssumption, ArrivalsAssumption
<1>1. CASE NextTakes(c)
  <2>1. /\ ch' \in Seq(1 .. MaxArrivals) /\ Len(ch') < Len(ch)
        /\ taken' \in Seq(1 .. MaxArrivals)
    BY <1>1 DEF NextTakes, Shape, QueueTypeOK
  <2>2. QueueTypeOK'
    BY <1>1, <2>1 DEF NextTakes, Shape, QueueTypeOK
  <2>3. Parked' = {} /\ InHand' = InHand /\ Swapped' = Swapped
    BY <1>1 DEF NextTakes, Shape, ParkedOnEmpty, Parked, InHand, Swapped
  <2>4. Len(ch) \in Nat /\ Len(ch') \in Nat
    BY <2>1 DEF Shape, QueueTypeOK
  <2> QED
    BY <1>1, <2>1, <2>2, <2>3, <2>4
       DEF NextTakes, Shape, RoomAfterEvict, ParkedOnEmpty
<1>2. CASE NextParks(c)
  <2>1. QueueTypeOK'
    BY <1>2 DEF NextParks, Shape, QueueTypeOK
  <2>2. InHand' = InHand /\ Swapped' = Swapped
    BY <1>2 DEF NextParks, InHand, Swapped
  <2> QED
    BY <1>2, <2>1, <2>2 DEF NextParks, Shape, RoomAfterEvict, ParkedOnEmpty
<1>3. CASE NextCancelled(c) \/ NextSeesClosed(c) \/ NextReturnsErr(c)
  <2>1. QueueTypeOK'
    BY <1>3 DEF NextCancelled, NextSeesClosed, NextReturnsErr, Shape, QueueTypeOK
  <2>2. /\ UNCHANGED <<pc, cur, ch, closed, arrived>>
        /\ Parked' \subseteq Parked
    BY <1>3 DEF NextCancelled, NextSeesClosed, NextReturnsErr, Parked, Shape, QueueTypeOK
  <2> QED
    BY <2>1, <2>2 DEF Shape, RoomAfterEvict, ParkedOnEmpty, InHand, Swapped
<1> QED
  BY <1>1, <1>2, <1>3

LEMMA ShapeStep == Shape /\ [QueueNext]_queueVars => Shape'
<1> SUFFICES ASSUME Shape, [QueueNext]_queueVars
             PROVE  Shape'
  OBVIOUS
<1>1. CASE UNCHANGED queueVars
  BY <1>1 DEF queueVars, Shape, QueueTypeOK, InHand, RoomAfterEvict, ParkedOnEmpty,
              Swapped, Parked
<1>2. CASE QueueNext
  BY <1>2, ShapePush, ShapeEvict, ShapeSource, ShapeNext DEF QueueNext, drain
<1> QED
  BY <1>1, <1>2

LEMMA ShapeInvariance == QueueSpec => []Shape
BY ShapeInit, ShapeStep, PTL DEF QueueSpec

\* The channel keeps its bound and the counters their types.
THEOREM QueueTypeCorrect == QueueSpec => []QueueTypeOK
<1>1. Shape => QueueTypeOK
  BY DEF Shape
<1> QED
  BY ShapeInvariance, <1>1, PTL

\* push's comment, for any capacity and any callers: the retry finds room.
THEOREM RetrySucceeds == QueueSpec => []RetryCannotFail
<1>1. Shape => RetryCannotFail
  BY DEF Shape, RoomAfterEvict, Swapped, RetryCannotFail, HasRoom
<1> QED
  BY ShapeInvariance, <1>1, PTL

-----------------------------------------------------------------------------
\* Facts about sequences of item numbers.
LEMMA AppendFacts ==
  ASSUME NEW s \in Seq(Nat), NEW x \in Nat
  PROVE  /\ Append(s, x) \in Seq(Nat)
         /\ Len(Append(s, x)) = Len(s) + 1
         /\ \A i \in 1 .. Len(s) : Append(s, x)[i] = s[i]
         /\ Append(s, x)[Len(s) + 1] = x
         /\ Len(s) \in Nat
OBVIOUS

LEMMA ElementsAppend ==
  ASSUME NEW s \in Seq(Nat), NEW x \in Nat
  PROVE  Elements(Append(s, x)) = Elements(s) \cup {x}
<1> DEFINE t == Append(s, x)
<1>1. /\ Len(t) = Len(s) + 1 /\ Len(s) \in Nat
      /\ \A i \in 1 .. Len(s) : t[i] = s[i]
      /\ t[Len(s) + 1] = x
  BY AppendFacts
<1> HIDE DEF t
<1>2. 1 .. Len(t) = (1 .. Len(s)) \cup {Len(s) + 1}
  BY <1>1
<1>3. Elements(t) = Elements(s) \cup {x}
  BY <1>1, <1>2 DEF Elements
<1> QED
  BY <1>3 DEF t

\* The next number may go to either side of a partition.
LEMMA PartitionGrows ==
  ASSUME NEW s \in Seq(Nat), NEW t \in Seq(Nat), NEW n \in Nat,
         Partition(s, t, n)
  PROVE  /\ Partition(Append(s, n + 1), t, n + 1)
         /\ Partition(s, Append(t, n + 1), n + 1)
<1>1. ASSUME NEW u \in Seq(Nat), Increasing(u), Elements(u) \subseteq 1 .. n
      PROVE  Increasing(Append(u, n + 1))
  <2> DEFINE v == Append(u, n + 1)
  <2>1. /\ Len(v) = Len(u) + 1 /\ Len(u) \in Nat
        /\ \A i \in 1 .. Len(u) : v[i] = u[i]
        /\ v[Len(u) + 1] = n + 1
    BY AppendFacts
  <2>2. \A i \in 1 .. Len(u) : u[i] \in Nat /\ u[i] < n + 1
    <3> TAKE i \in 1 .. Len(u)
    <3>1. u[i] \in 1 .. n
      BY <1>1 DEF Elements
    <3> QED
      BY <3>1
  <2> HIDE DEF v
  <2>3. Increasing(v)
    <3>1. SUFFICES ASSUME NEW i \in 1 .. Len(v), NEW j \in 1 .. Len(v), i < j
                   PROVE  v[i] < v[j]
      BY DEF Increasing
    <3>2. i \in 1 .. Len(u)
      BY <2>1, <3>1
    <3>3. CASE j = Len(u) + 1
      BY <2>1, <2>2, <3>2, <3>3
    <3>4. CASE j # Len(u) + 1
      <4>1. j \in 1 .. Len(u)
        BY <2>1, <3>4
      <4> QED
        BY <1>1, <2>1, <3>1, <3>2, <4>1 DEF Increasing
    <3> QED
      BY <3>3, <3>4
  <2> QED
    BY <2>3 DEF v
<1>2. /\ Increasing(Append(s, n + 1)) /\ Increasing(Append(t, n + 1))
      /\ Increasing(s) /\ Increasing(t)
  BY <1>1 DEF Partition
<1>3. /\ Elements(Append(s, n + 1)) = Elements(s) \cup {n + 1}
      /\ Elements(Append(t, n + 1)) = Elements(t) \cup {n + 1}
  BY ElementsAppend
<1>4. Elements(s) \cup Elements(t) \cup {n + 1} = 1 .. (n + 1)
  BY DEF Partition
<1>5. /\ Len(Append(s, n + 1)) = Len(s) + 1 /\ Len(s) \in Nat
      /\ Len(Append(t, n + 1)) = Len(t) + 1 /\ Len(t) \in Nat
      /\ Len(s) + Len(t) = n
  BY AppendFacts DEF Partition
<1> QED
  BY <1>2, <1>3, <1>4, <1>5 DEF Partition

\* The histories and the buffer are sequences of naturals.
LEMMA ShapeTypes ==
  ASSUME Shape
  PROVE  /\ taken \in Seq(Nat) /\ evicted \in Seq(Nat) /\ ch \in Seq(Nat)
         /\ Len(ch) \in Nat /\ arrived \in Nat /\ cur \in Nat /\ dropped \in Nat
         /\ InHand \in {0, 1}
BY ArrivalsAssumption DEF Shape, QueueTypeOK

Accounts == ExactlyOnceInOrder /\ DroppedIsEvicted /\ Departed \in Nat

LEMMA AccountsInit == QueueInit => Accounts
<1> SUFFICES ASSUME QueueInit
             PROVE  Accounts
  OBVIOUS
<1>1. Departed = 0 /\ InHand = 0 /\ pc # "count"
  <2>1. pc = "recv" /\ arrived = 0 /\ Len(ch) = 0
    BY DEF QueueInit
  <2>2. InHand = 0
    BY <2>1 DEF InHand
  <2> QED
    BY <2>1, <2>2 DEF Departed
<1>2. Partition(<<>>, <<>>, 0)
  BY DEF Partition, Increasing, Elements
<1> QED
  BY <1>1, <1>2
     DEF QueueInit, Accounts, ExactlyOnceInOrder, Contiguous, DroppedIsEvicted

\* An item leaves from the head of the buffer.
LEMMA HeadLeaves ==
  ASSUME Shape, Accounts, ch # <<>>, ch' = Tail(ch),
         arrived' = arrived, InHand' = InHand
  PROVE  /\ Departed' = Departed + 1 /\ Departed' \in Nat
         /\ Head(ch) = Departed'
         /\ Contiguous'
         /\ Len(ch') = Len(ch) - 1
<1>1. /\ ch \in Seq(Nat) /\ Len(ch) \in Nat /\ Len(ch) > 0 /\ Head(ch) = ch[1]
      /\ ch' \in Seq(Nat) /\ Len(ch') = Len(ch) - 1
      /\ \A i \in 1 .. Len(ch') : ch'[i] = ch[i + 1]
  BY ShapeTypes
<1>2. Departed' = Departed + 1 /\ Departed' \in Nat
  BY <1>1, ShapeTypes DEF Departed, Accounts
<1>3. \A i \in 1 .. Len(ch) : ch[i] = Departed + i
  BY DEF Accounts, ExactlyOnceInOrder, Contiguous
<1>4. \A i \in 1 .. Len(ch') : ch'[i] = Departed' + i
  <2> TAKE i \in 1 .. Len(ch')
  <2>1. i + 1 \in 1 .. Len(ch)
    BY <1>1
  <2>2. ch'[i] = Departed + (i + 1)
    BY <1>1, <1>3, <2>1
  <2> QED
    BY <1>2, <2>2 DEF Accounts
<1>5. Head(ch) = Departed'
  BY <1>1, <1>2, <1>3
<1> QED
  BY <1>1, <1>2, <1>4, <1>5 DEF Contiguous

LEMMA AccountsPush ==
  ASSUME Shape, Accounts, PushSend \/ PushResend
  PROVE  Accounts'
<1>1. /\ cur = arrived /\ arrived' = arrived /\ evicted' = evicted
      /\ InHand = 1 /\ pc \in {"send", "resend"}
  BY DEF Shape, InHand, PushSend, PushResend
<1>2. CASE \E c \in Parked : /\ call' = [call EXCEPT ![c] = "idle"]
                             /\ taken' = Append(taken, cur)
                             /\ pc' = "recv"
                             /\ UNCHANGED <<ch, dropped>>
  <2>1. ch = <<>> /\ ch' = <<>> /\ Len(ch) = 0 /\ Len(ch') = 0
    BY <1>2 DEF Shape, ParkedOnEmpty
  <2>2. InHand' = 0 /\ dropped' = dropped /\ pc' # "count" /\ pc # "count"
    BY <1>1, <1>2 DEF InHand
  <2>3. Departed' = Departed + 1 /\ cur = Departed + 1 /\ Departed' \in Nat
    BY <1>1, <2>1, <2>2, ShapeTypes DEF Departed, Accounts
  <2>4. Partition(taken', evicted', Departed')
    BY <1>1, <1>2, <2>3, PartitionGrows, ShapeTypes
       DEF Accounts, ExactlyOnceInOrder
  <2>5. Contiguous'
    BY <2>1 DEF Contiguous
  <2> QED
    BY <1>1, <2>2, <2>3, <2>4, <2>5
       DEF Accounts, ExactlyOnceInOrder, DroppedIsEvicted
<1>3. CASE /\ ch' = Append(ch, cur)
           /\ pc' = "recv"
           /\ UNCHANGED <<call, taken, dropped>>
  <2>1. /\ Len(ch') = Len(ch) + 1 /\ ch'[Len(ch) + 1] = cur
        /\ \A i \in 1 .. Len(ch) : ch'[i] = ch[i]
    BY <1>3, ShapeTypes, AppendFacts
  <2>2. InHand' = 0 /\ dropped' = dropped /\ pc' # "count" /\ pc # "count"
    BY <1>1, <1>3 DEF InHand
  <2>3. Departed' = Departed /\ cur = Departed + Len(ch) + 1
    <3>1. /\ Departed = arrived - 1 - Len(ch)
          /\ Departed' = arrived - 0 - (Len(ch) + 1)
      BY <1>1, <2>1, <2>2 DEF Departed
    <3> QED
      BY <1>1, <3>1, ShapeTypes
  <2>4. 1 .. Len(ch') = (1 .. Len(ch)) \cup {Len(ch) + 1}
    BY <2>1, ShapeTypes
  <2>5. Contiguous'
    <3>1. \A i \in 1 .. Len(ch) : ch'[i] = Departed + i
      BY <2>1 DEF Accounts, ExactlyOnceInOrder, Contiguous
    <3>2. ch'[Len(ch) + 1] = Departed + (Len(ch) + 1)
      BY <2>1, <2>3, ShapeTypes DEF Accounts
    <3> QED
      BY <2>3, <2>4, <3>1, <3>2 DEF Contiguous
  <2> QED
    BY <1>1, <1>3, <2>2, <2>3, <2>5
       DEF Accounts, ExactlyOnceInOrder, DroppedIsEvicted
<1>4. CASE pc' = "evict" /\ UNCHANGED <<ch, call, taken, dropped>>
  <2>1. InHand' = 1 /\ pc' # "count" /\ pc # "count"
    BY <1>1, <1>4 DEF InHand
  <2>2. Departed' = Departed
    BY <1>1, <1>4, <2>1 DEF Departed
  <2> QED
    BY <1>1, <1>4, <2>1, <2>2
       DEF Accounts, ExactlyOnceInOrder, Contiguous, DroppedIsEvicted
<1>5. CASE pc = "resend" /\ ~HasRoom
  BY <1>5 DEF Shape, QueueTypeOK, RoomAfterEvict, Swapped, HasRoom
<1> QED
  BY <1>2, <1>3, <1>4, <1>5 DEF PushSend, PushResend, SendOrElse

LEMMA AccountsEvict ==
  ASSUME Shape, Accounts, PushEvict
  PROVE  Accounts'
<1>1. InHand = 1 /\ InHand' = 1 /\ pc' = "count" /\ pc # "count"
  BY DEF PushEvict, InHand
<1>2. /\ Departed' = Departed + 1 /\ Departed' \in Nat
      /\ Head(ch) = Departed' /\ Contiguous'
  BY <1>1, HeadLeaves DEF PushEvict
<1>3. Partition(taken', evicted', Departed')
  BY <1>2, PartitionGrows, ShapeTypes DEF PushEvict, Accounts, ExactlyOnceInOrder
<1>4. Len(evicted') = Len(evicted) + 1 /\ Len(evicted) \in Nat
  BY <1>2, AppendFacts, ShapeTypes DEF PushEvict
<1>5. DroppedIsEvicted'
  BY <1>1, <1>4, ShapeTypes DEF PushEvict, Accounts, DroppedIsEvicted
<1> QED
  BY <1>2, <1>3, <1>5 DEF Accounts, ExactlyOnceInOrder

LEMMA AccountsTake ==
  ASSUME Shape, Accounts, NEW c \in Callers, NextTakes(c)
  PROVE  Accounts'
<1>1. InHand' = InHand /\ pc' = pc
  BY DEF NextTakes, InHand
<1>2. /\ Departed' = Departed + 1 /\ Departed' \in Nat
      /\ Head(ch) = Departed' /\ Contiguous'
  BY <1>1, HeadLeaves DEF NextTakes
<1>3. Partition(taken', evicted', Departed')
  BY <1>2, PartitionGrows, ShapeTypes DEF NextTakes, Accounts, ExactlyOnceInOrder
<1>4. DroppedIsEvicted'
  BY <1>1 DEF NextTakes, Accounts, DroppedIsEvicted
<1> QED
  BY <1>2, <1>3, <1>4 DEF Accounts, ExactlyOnceInOrder

\* The remaining steps move no item.
LEMMA AccountsOther ==
  ASSUME Shape, Accounts,
         \/ Recv \/ (\E e \in Ends : SourceEnd(e)) \/ Close
         \/ PushEvictNothing \/ PushCount
         \/ \E c \in Callers : \/ NextParks(c) \/ NextCancelled(c)
                               \/ NextSeesClosed(c) \/ NextReturnsErr(c)
         \/ UNCHANGED queueVars
  PROVE  Accounts'
<1>1. CASE PushCount
  <2>1. InHand = 1 /\ InHand' = 1 /\ pc = "count" /\ pc' # "count"
    BY <1>1 DEF PushCount, InHand
  <2>2. Departed' = Departed /\ Len(evicted) \in Nat
    BY <1>1, <2>1, ShapeTypes DEF PushCount, Departed
  <2> QED
    BY <1>1, <2>1, <2>2, ShapeTypes
       DEF PushCount, Accounts, ExactlyOnceInOrder, Contiguous, DroppedIsEvicted
<1>2. CASE ~PushCount
  <2>1. /\ UNCHANGED <<ch, taken, evicted, dropped>>
        /\ pc = "count" <=> pc' = "count"
        /\ arrived' - InHand' = arrived - InHand
    BY <1>2, ShapeTypes
       DEF Recv, SourceEnd, Close, PushEvictNothing, NextParks, NextCancelled,
           NextSeesClosed, NextReturnsErr, queueVars, InHand
  <2>2. Departed' = Departed
    BY <2>1 DEF Departed
  <2> QED
    BY <2>1, <2>2
       DEF Accounts, ExactlyOnceInOrder, Contiguous, DroppedIsEvicted
<1> QED
  BY <1>1, <1>2

LEMMA AccountsStep == Shape /\ Accounts /\ [QueueNext]_queueVars => Accounts'
BY AccountsPush, AccountsEvict, AccountsTake, AccountsOther DEF QueueNext, drain

LEMMA AccountsInvariance == QueueSpec => [](Shape /\ Accounts)
BY ShapeInit, ShapeStep, AccountsInit, AccountsStep, PTL DEF QueueSpec

\* Every item that arrives is buffered, returned or evicted, once, in order.
THEOREM ItemsExactlyOnce == QueueSpec => []ExactlyOnceInOrder
<1>1. Accounts => ExactlyOnceInOrder
  BY DEF Accounts
<1> QED
  BY AccountsInvariance, <1>1, PTL

\* Dropped() counts the evicted items.
THEOREM DroppedExact == QueueSpec => []DroppedIsEvicted
<1>1. Accounts => DroppedIsEvicted
  BY DEF Accounts
<1> QED
  BY AccountsInvariance, <1>1, PTL

-----------------------------------------------------------------------------
\* What drain makes of the error its source ends with.
LEMMA DrainErrorPlain ==
  ASSUME NEW e \in Ends, \A a \in e : a.kind # AppKind
  PROVE  drainError(e) = e
BY DEF drainError, mapTerminalError

LEMMA DrainErrorApp ==
  ASSUME NEW e \in Ends, NEW a \in e, a.kind = AppKind
  PROVE  drainError(e) = {TerminalError(a.code), a}
<1>1. EOF.kind # AppKind
  BY DEF EOF, Plain, AppKind
<1>2. e # {EOF}
  BY <1>1
<1>3. {x \in e : x.kind = AppKind} = {a}
  BY EndsAssumption
<1>4. (CHOOSE x \in {x \in e : x.kind = AppKind} : TRUE) = a
  BY <1>3
<1> QED
  BY <1>2, <1>3, <1>4, EndsAssumption DEF drainError, mapTerminalError

\* The errors of an ended subscription: s.err is set before the channel
\* closes, and a caller reads it only afterwards.
Endings ==
  /\ pc \in {"close", "done"} => source \in Ends /\ err = drainError(source)
  /\ pc \notin {"close", "done"} => source = nil /\ err = nil
  /\ ends \subseteq {err}
  /\ (ends # {} \/ \E c \in Callers : call[c] = "released") =>
       pc = "done" /\ ch = <<>>

LEMMA EndingsInit == QueueInit => Endings
BY DEF QueueInit, Endings

LEMMA EndingsStep == Shape /\ Endings /\ [QueueNext]_queueVars => Endings'
<1> SUFFICES ASSUME Shape, Endings, [QueueNext]_queueVars
             PROVE  Endings'
  OBVIOUS
<1>0. call \in [Callers -> {"idle", "parked", "released"}]
  BY DEF Shape, QueueTypeOK
<1>1. CASE Recv
  BY <1>1 DEF Recv, Endings
<1>2. ASSUME NEW e \in Ends, SourceEnd(e)
      PROVE  Endings'
  BY <1>2 DEF SourceEnd, Endings
<1>3. CASE Close
  <2>1. pc' = "done" /\ err' = err /\ source' = source /\ ends' = ends /\ ch' = ch
    BY <1>3 DEF Close
  <2>2. ends = {} /\ \A c \in Callers : call[c] # "released"
    BY <1>3 DEF Close, Endings
  <2>3. (\E c \in Callers : call'[c] = "released") => Parked # {}
    BY <1>3, <2>2 DEF Close, Parked
  <2>4. Parked # {} => ch = <<>>
    BY DEF Shape, ParkedOnEmpty
  <2>5. source \in Ends /\ err = drainError(source)
    BY <1>3 DEF Close, Endings
  <2> QED
    BY <2>1, <2>2, <2>3, <2>4, <2>5 DEF Endings
<1>4. CASE PushSend \/ PushResend \/ PushEvict \/ PushEvictNothing \/ PushCount
  <2>1. pc \notin {"close", "done"} /\ pc' \notin {"close", "done"}
    BY <1>4 DEF PushSend, PushResend, PushEvict, PushEvictNothing, PushCount,
                SendOrElse
  <2>2. UNCHANGED <<err, source, ends>>
    BY <1>4 DEF PushSend, PushResend, PushEvict, PushEvictNothing, PushCount
  <2>3. \A c \in Callers : call'[c] = call[c] \/ call'[c] = "idle"
    BY <1>0, <1>4 DEF PushSend, PushResend, PushEvict, PushEvictNothing, PushCount,
                SendOrElse
  <2> QED
    BY <2>1, <2>2, <2>3 DEF Endings
<1>5. ASSUME NEW c \in Callers, NextTakes(c)
      PROVE  Endings'
  BY <1>5 DEF NextTakes, Endings
<1>6. ASSUME NEW c \in Callers, NextParks(c) \/ NextCancelled(c)
      PROVE  Endings'
  <2>1. \A b \in Callers : call'[b] = "released" => call[b] = "released"
    BY <1>0, <1>6 DEF NextParks, NextCancelled
  <2> QED
    BY <1>6, <2>1 DEF NextParks, NextCancelled, Endings
<1>7. ASSUME NEW c \in Callers, NextSeesClosed(c)
      PROVE  Endings'
  BY <1>7 DEF NextSeesClosed, Endings, Shape
<1>8. ASSUME NEW c \in Callers, NextReturnsErr(c)
      PROVE  Endings'
  <2>1. pc = "done" /\ ch = <<>>
    BY <1>8 DEF NextReturnsErr, Endings
  <2> QED
    BY <1>8, <2>1 DEF NextReturnsErr, Endings
<1>9. CASE UNCHANGED queueVars
  BY <1>9 DEF queueVars, Endings
<1> QED
  BY <1>1, <1>2, <1>3, <1>4, <1>5, <1>6, <1>7, <1>8, <1>9 DEF QueueNext, drain

LEMMA EndingsInvariance == QueueSpec => [](Shape /\ Accounts /\ Endings)
BY ShapeInit, ShapeStep, AccountsInit, AccountsStep, EndingsInit, EndingsStep,
   PTL DEF QueueSpec

\* Next reports the end only after everything that arrived.
THEOREM EndsAfterDrain == QueueSpec => []EndAfterDrain
<1>1. Shape /\ Accounts /\ Endings => EndAfterDrain
  <2> SUFFICES ASSUME Shape, Accounts, Endings,
                      ends # {} \/ \E c \in Callers : call[c] = "released"
               PROVE  /\ pc = "done"
                      /\ Elements(taken) \cup Elements(evicted) = 1 .. arrived
    BY DEF EndAfterDrain
  <2>1. pc = "done" /\ Len(ch) = 0
    BY DEF Endings
  <2>2. Departed = arrived
    BY <2>1, ShapeTypes DEF Departed, InHand
  <2> QED
    BY <2>1, <2>2 DEF Accounts, ExactlyOnceInOrder, Partition
<1> QED
  BY EndingsInvariance, <1>1, PTL

\* The error Next reports is the one the source ended with, with its close code.
THEOREM EndErrorCorrect == QueueSpec => []EndErrorFaithful
<1>1. Shape /\ Accounts /\ Endings => EndErrorFaithful
  <2> SUFFICES ASSUME Shape, Accounts, Endings, NEW e \in ends
               PROVE  /\ e = err
                      /\ e # nil
                      /\ EOF \in e => EOF \in source
                      /\ \A a \in source :
                           a.kind = AppKind => TerminalError(a.code) \in e
    BY DEF EndErrorFaithful
  <2>1. e = err /\ err = drainError(source) /\ source \in Ends
    BY DEF Endings
  <2>2. CASE \A a \in source : a.kind # AppKind
    BY <2>1, <2>2, DrainErrorPlain, EndsAssumption
  <2>3. ASSUME NEW a \in source, a.kind = AppKind
        PROVE  /\ e # nil
               /\ EOF \in e => EOF \in source
               /\ \A b \in source : b.kind = AppKind => TerminalError(b.code) \in e
    <3>1. e = {TerminalError(a.code), a}
      BY <2>1, <2>3, DrainErrorApp
    <3>2. EOF # TerminalError(a.code)
      <4>1. EOF.kind = "io.EOF" /\ TerminalError(a.code).kind = "TerminalError"
        BY DEF EOF, Plain, TerminalError
      <4> QED
        BY <4>1
    <3>3. \A b \in source : b.kind = AppKind => b = a
      BY <2>1, <2>3, EndsAssumption
    <3> QED
      BY <3>1, <3>2, <3>3 DEF nil
  <2> QED
    BY <2>1, <2>2, <2>3
<1> QED
  BY EndingsInvariance, <1>1, PTL

\* Next's error steers the caller's reconnect loop as the close code demands.
THEOREM ReconnectCorrect == QueueSpec => []ReconnectDecision
<1>1. Shape /\ Accounts /\ Endings => ReconnectDecision
  <2> SUFFICES ASSUME Shape, Accounts, Endings, NEW e \in ends
               PROVE  /\ Retryable(e) <=> AppError(3) \in source
                      /\ NeedsCredentialChange(e) <=> AppError(2) \in source
    BY DEF ReconnectDecision
  <2>1. e = drainError(source) /\ source \in Ends
    BY DEF Endings
  <2>2. AppError(2).kind = AppKind /\ AppError(2).code = 2
        /\ AppError(3).kind = AppKind /\ AppError(3).code = 3
    BY DEF AppError
  <2>3. CASE \A a \in source : a.kind # AppKind
    <3>1. e = source /\ ~IsTerminal(source)
      BY <2>1, <2>3, DrainErrorPlain, EndsAssumption
    <3> QED
      BY <2>2, <2>3, <3>1
         DEF IsTerminal, Retryable, NeedsCredentialChange, CloseInfoFromError
  <2>4. ASSUME NEW a \in source, a.kind = AppKind
        PROVE  /\ Retryable(e) <=> AppError(3) \in source
               /\ NeedsCredentialChange(e) <=> AppError(2) \in source
    <3>1. CloseInfoFromError(e) = {TerminalError(a.code)}
      <4>1. e = {TerminalError(a.code), a}
        BY <2>1, <2>4, DrainErrorApp
      <4>2. TerminalError(a.code).kind = "TerminalError"
        BY DEF TerminalError
      <4>3. a.kind # "TerminalError"
        BY <2>4 DEF AppKind
      <4> QED
        BY <4>1, <4>2, <4>3 DEF CloseInfoFromError
    <3>2. /\ AppError(3) \in source <=> a.code = 3
          /\ AppError(2) \in source <=> a.code = 2
      BY <2>1, <2>2, <2>4, EndsAssumption
    <3>3. TerminalError(a.code).retry = ClassifyCloseCode(a.code)
      BY DEF TerminalError
    <3>4. /\ ClassifyCloseCode(a.code) = "transient" <=> a.code = 3
          /\ ClassifyCloseCode(a.code) = "after-credential-change" <=> a.code = 2
      BY DEF ClassifyCloseCode
    <3> QED
      BY <3>1, <3>2, <3>3, <3>4 DEF Retryable, NeedsCredentialChange
  <2> QED
    BY <2>3, <2>4
<1> QED
  BY EndingsInvariance, <1>1, PTL

-----------------------------------------------------------------------------
\* The handoff implements a bounded lossy FIFO.
LEMMA HeadTailOfAppend ==
  ASSUME NEW s \in Seq(Nat), NEW x \in Nat, s # <<>>
  PROVE  /\ Append(s, x) # <<>>
         /\ Head(Append(s, x)) = Head(s)
         /\ Tail(Append(s, x)) = Append(Tail(s), x)
OBVIOUS

LEMMA FifoInit == QueueInit => Fifo!Init
<1> SUFFICES ASSUME QueueInit
             PROVE  Fifo!Init
  OBVIOUS
<1>1. ~Swapped /\ (pc = "evict") = FALSE /\ pc \notin {"send", "evict"}
  BY DEF QueueInit, Swapped
<1> QED
  BY <1>1 DEF QueueInit, Fifo!Init, nil

LEMMA FifoPush ==
  ASSUME Shape, Endings, PushSend \/ PushResend
  PROVE  [Fifo!Next]_Fifo!fifoVars
<1>1. /\ cur = arrived /\ arrived' = arrived /\ cur' = cur /\ arrived \in Nat
      /\ UNCHANGED <<evicted, err, ends>>
      /\ err = {} /\ arrived - 1 + 1 = arrived
  BY ShapeTypes DEF Shape, InHand, PushSend, PushResend, Endings, nil
<1>2. CASE \E c \in Parked : /\ call' = [call EXCEPT ![c] = "idle"]
                             /\ taken' = Append(taken, cur)
                             /\ pc' = "recv"
                             /\ UNCHANGED <<ch, dropped>>
  <2>1. ch = <<>> /\ ch' = <<>>
    BY <1>2 DEF Shape, ParkedOnEmpty
  <2>2. CASE PushSend
    <3>1. Fifo!Pass
      BY <1>1, <1>2, <2>1, <2>2 DEF PushSend, Fifo!Pass, Fifo!Accept, Swapped
    <3> QED
      BY <3>1 DEF Fifo!Next
  <2>3. CASE PushResend
    <3>1. Append(ch, cur) # <<>> /\ Head(Append(ch, cur)) = cur
          /\ Tail(Append(ch, cur)) = <<>>
      BY <2>1, ShapeTypes
    <3>2. Fifo!Get
      BY <1>1, <1>2, <2>1, <2>3, <3>1 DEF PushResend, Fifo!Get, Swapped
    <3> QED
      BY <3>2 DEF Fifo!Next
  <2> QED
    BY <2>2, <2>3
<1>3. CASE /\ HasRoom
           /\ ch' = Append(ch, cur)
           /\ pc' = "recv"
           /\ UNCHANGED <<call, taken, dropped>>
  <2>1. CASE PushSend
    <3>1. Fifo!Put
      BY <1>1, <1>3, <2>1 DEF PushSend, Fifo!Put, Fifo!Accept, Swapped, HasRoom
    <3> QED
      BY <3>1 DEF Fifo!Next
  <2>2. CASE PushResend
    <3>1. UNCHANGED Fifo!fifoVars
      BY <1>1, <1>3, <2>2 DEF PushResend, Fifo!fifoVars, Swapped
    <3> QED
      BY <3>1
  <2> QED
    BY <2>1, <2>2
<1>4. CASE pc = "send" /\ pc' = "evict" /\ ~HasRoom /\ UNCHANGED <<ch, call, taken, dropped>>
  <2>1. Len(ch) = Capacity
    BY <1>4, CapacityAssumption DEF Shape, QueueTypeOK, HasRoom
  <2>2. Fifo!Press
    BY <1>1, <1>4, <2>1 DEF Fifo!Press, Swapped
  <2> QED
    BY <2>2 DEF Fifo!Next
<1>5. CASE pc = "resend" /\ ~HasRoom
  BY <1>5 DEF Shape, QueueTypeOK, RoomAfterEvict, Swapped, HasRoom
<1> QED
  BY <1>2, <1>3, <1>4, <1>5 DEF PushSend, PushResend, SendOrElse

LEMMA FifoEvict ==
  ASSUME Shape, Endings, PushEvict \/ PushEvictNothing \/ PushCount
  PROVE  [Fifo!Next]_Fifo!fifoVars
<1>1. /\ cur = arrived /\ arrived' = arrived /\ cur' = cur /\ arrived \in Nat
      /\ UNCHANGED <<taken, err, ends>>
      /\ err = {} /\ arrived - 1 + 1 = arrived
  BY ShapeTypes
     DEF Shape, InHand, PushEvict, PushEvictNothing, PushCount, Endings, nil
<1>2. CASE PushEvict
  <2>1. Fifo!Displace
    BY <1>1, <1>2 DEF PushEvict, Fifo!Displace, Fifo!Accept, Swapped
  <2> QED
    BY <2>1 DEF Fifo!Next
<1>3. CASE PushEvictNothing
  <2>1. Len(ch) < Capacity
    BY <1>3, CapacityAssumption DEF PushEvictNothing
  <2>2. Fifo!Put
    BY <1>1, <1>3, <2>1 DEF PushEvictNothing, Fifo!Put, Fifo!Accept, Swapped
  <2> QED
    BY <2>2 DEF Fifo!Next
<1>4. CASE PushCount
  <2>1. UNCHANGED Fifo!fifoVars
    BY <1>1, <1>4 DEF PushCount, Fifo!fifoVars, Swapped
  <2> QED
    BY <2>1
<1> QED
  BY <1>2, <1>3, <1>4

LEMMA FifoTakes ==
  ASSUME Shape, NEW c \in Callers, NextTakes(c)
  PROVE  [Fifo!Next]_Fifo!fifoVars
<1>1. UNCHANGED <<pc, cur, arrived, evicted, err, ends>>
  BY DEF NextTakes
<1>2. CASE Swapped
  <2>1. Fifo!Get
    BY <1>1, <1>2, HeadTailOfAppend, ShapeTypes DEF NextTakes, Fifo!Get, Swapped
  <2> QED
    BY <2>1 DEF Fifo!Next
<1>3. CASE ~Swapped
  <2>1. Fifo!Get
    BY <1>1, <1>3 DEF NextTakes, Fifo!Get, Swapped
  <2> QED
    BY <2>1 DEF Fifo!Next
<1> QED
  BY <1>2, <1>3

LEMMA FifoOther ==
  ASSUME Shape, Endings,
         \/ Recv \/ (\E e \in Ends : SourceEnd(e)) \/ Close
         \/ \E c \in Callers : \/ NextParks(c) \/ NextCancelled(c)
                               \/ NextSeesClosed(c) \/ NextReturnsErr(c)
         \/ UNCHANGED queueVars
  PROVE  [Fifo!Next]_Fifo!fifoVars
<1>1. CASE Recv
  <2>1. arrived' - 1 = arrived
    BY <1>1, ShapeTypes DEF Recv
  <2>2. UNCHANGED Fifo!fifoVars
    BY <1>1, <2>1 DEF Recv, Fifo!fifoVars, Swapped
  <2> QED
    BY <2>2
<1>2. ASSUME NEW e \in Ends, SourceEnd(e)
      PROVE  [Fifo!Next]_Fifo!fifoVars
  <2>1. drainError(e) # {}
    <3>1. CASE \A a \in e : a.kind # AppKind
      BY <3>1, DrainErrorPlain, EndsAssumption DEF nil
    <3>2. CASE \E a \in e : a.kind = AppKind
      BY <3>2, DrainErrorApp
    <3> QED
      BY <3>1, <3>2
  <2>2. Fifo!End
    BY <1>2, <2>1 DEF SourceEnd, Endings, nil, Fifo!End, Swapped
  <2> QED
    BY <2>2 DEF Fifo!Next
<1>3. ASSUME NEW c \in Callers, NextReturnsErr(c)
      PROVE  [Fifo!Next]_Fifo!fifoVars
  <2>1. pc = "done" /\ ch = <<>>
    BY <1>3 DEF NextReturnsErr, Endings
  <2>2. err # {}
    <3>1. source \in Ends /\ err = drainError(source)
      BY <2>1 DEF Endings
    <3>2. CASE \A a \in source : a.kind # AppKind
      BY <3>1, <3>2, DrainErrorPlain, EndsAssumption DEF nil
    <3>3. CASE \E a \in source : a.kind = AppKind
      BY <3>1, <3>3, DrainErrorApp
    <3> QED
      BY <3>2, <3>3
  <2>3. Fifo!Report
    BY <1>3, <2>1, <2>2 DEF NextReturnsErr, Fifo!Report, Swapped
  <2> QED
    BY <2>3 DEF Fifo!Next
<1>4. CASE \/ Close
           \/ \E c \in Callers : NextParks(c) \/ NextCancelled(c) \/ NextSeesClosed(c)
           \/ UNCHANGED queueVars
  <2>1. /\ UNCHANGED <<cur, ch, arrived, taken, evicted, err, ends>>
        /\ Swapped' = Swapped
        /\ pc' = pc \/ (pc = "close" /\ pc' = "done")
    BY <1>4 DEF Close, NextParks, NextCancelled, NextSeesClosed, queueVars, Swapped
  <2>2. UNCHANGED Fifo!fifoVars
    BY <2>1 DEF Fifo!fifoVars
  <2> QED
    BY <2>2
<1> QED
  BY <1>1, <1>2, <1>3, <1>4

\* Every behaviour of drain, push and any number of callers of Next is one of
\* LossyFifo, for every capacity.
THEOREM QueueImplementsFifo == QueueSpec => ImplementsLossyFifo
<1>1. Shape /\ Endings /\ [QueueNext]_queueVars => [Fifo!Next]_Fifo!fifoVars
  BY FifoPush, FifoEvict, FifoTakes, FifoOther DEF QueueNext, drain
<1> QED
  BY EndingsInvariance, FifoInit, <1>1, PTL
     DEF QueueSpec, ImplementsLossyFifo, Fifo!Spec

-----------------------------------------------------------------------------
(* QueueStats.  Its two reads may lie far apart, and an item that was      *)
(* queued at the first may have been dropped at the second.  The sum stays *)
(* within the arrivals because push evicts at most once for an arrival: an *)
(* eviction after the depth was read is paid for by an arrival that is not *)
(* in that depth.                                                          *)

\* The arrival in push's hands for which it may still evict.
MayEvict == IF pc \in {"send", "evict"} THEN 1 ELSE 0

StatsInv ==
  /\ phase \in {"idle", "calling", "returned"}
  /\ toRead \subseteq {"queued", "dropped"}
  /\ phase = "idle" => toRead = {"queued", "dropped"}
  /\ phase = "returned" => toRead = {}
  /\ takenBefore \in Nat /\ takenBefore <= Len(taken)
  /\ "queued" \notin toRead =>
       /\ statQueued \in Nat
       /\ takenBefore + statQueued + Len(evicted) + MayEvict <= arrived
  /\ "dropped" \notin toRead =>
       statDropped \in Nat /\ statDropped <= Len(evicted)

\* Where every arrival is, in numbers.
LEMMA Balance ==
  ASSUME Shape, Accounts
  PROVE  /\ Len(taken) \in Nat /\ Len(evicted) \in Nat /\ Len(ch) \in Nat
         /\ arrived \in Nat /\ dropped \in Nat /\ dropped <= Len(evicted)
         /\ MayEvict \in {0, 1} /\ MayEvict <= InHand /\ InHand \in {0, 1}
         /\ Len(taken) + Len(evicted) + Len(ch) + InHand = arrived
<1>1. /\ Len(taken) \in Nat /\ Len(evicted) \in Nat /\ Len(ch) \in Nat
      /\ arrived \in Nat /\ dropped \in Nat /\ InHand \in {0, 1}
  BY ShapeTypes
<1>2. MayEvict \in {0, 1} /\ MayEvict <= InHand
  BY DEF MayEvict, InHand
<1>3. Len(taken) + Len(evicted) = arrived - InHand - Len(ch)
  BY DEF Accounts, ExactlyOnceInOrder, Partition, Departed
<1>4. dropped <= Len(evicted)
  BY <1>1 DEF Accounts, DroppedIsEvicted
<1> QED
  BY <1>1, <1>2, <1>3, <1>4

\* A step of the queue takes nothing back, and an eviction uses up the arrival
\* it was made for.
LEMMA QueueMonotone ==
  ASSUME Shape, [QueueNext]_queueVars
  PROVE  /\ Len(taken') \in Nat /\ Len(evicted') \in Nat /\ arrived' \in Nat
         /\ Len(taken) <= Len(taken') /\ Len(evicted) <= Len(evicted')
         /\ (arrived - Len(evicted)) - MayEvict
              <= (arrived' - Len(evicted')) - MayEvict'
<1>0. /\ taken \in Seq(Nat) /\ evicted \in Seq(Nat) /\ arrived \in Nat
      /\ Len(taken) \in Nat /\ Len(evicted) \in Nat /\ cur \in Nat /\ ch \in Seq(Nat)
  BY ShapeTypes
<1> USE <1>0 DEF MayEvict
<1>1. CASE Recv
  BY <1>1 DEF Recv
<1>2. CASE PushSend \/ PushResend
  <2>1. /\ UNCHANGED <<arrived, evicted>>
        /\ pc \in {"send", "resend"} /\ (pc' \in {"send", "evict"} => pc = "send")
        /\ taken' = taken \/ taken' = Append(taken, cur)
    BY <1>2 DEF PushSend, PushResend, SendOrElse
  <2>2. Len(taken') \in Nat /\ Len(taken) <= Len(taken')
    BY <2>1
  <2> QED
    BY <2>1, <2>2
<1>3. CASE PushEvict
  <2>1. Head(ch) \in Nat
    BY <1>3 DEF PushEvict
  <2>2. Len(evicted') = Len(evicted) + 1 /\ UNCHANGED <<taken, arrived>>
        /\ pc = "evict" /\ pc' = "count"
    BY <1>3, <2>1 DEF PushEvict
  <2> QED
    BY <2>2
<1>4. ASSUME NEW c \in Callers, NextTakes(c)
      PROVE  Len(taken') = Len(taken) + 1 /\ UNCHANGED <<evicted, arrived, pc>>
  <2>1. Head(ch) \in Nat
    BY <1>4 DEF NextTakes
  <2> QED
    BY <1>4, <2>1 DEF NextTakes
<1>5. CASE \/ \E e \in Ends : SourceEnd(e)
           \/ PushEvictNothing \/ PushCount \/ Close \/ UNCHANGED queueVars
           \/ \E c \in Callers : \/ NextParks(c) \/ NextCancelled(c)
                                 \/ NextSeesClosed(c) \/ NextReturnsErr(c)
  <2>1. UNCHANGED <<taken, evicted, arrived>> /\ MayEvict' <= MayEvict
    BY <1>5 DEF SourceEnd, PushEvictNothing, PushCount, Close, queueVars, NextParks,
       NextCancelled, NextSeesClosed, NextReturnsErr
  <2> QED
    BY <2>1
<1> QED
  BY <1>1, <1>2, <1>3, <1>4, <1>5 DEF QueueNext, drain

LEMMA StatsStepIsQueueStep ==
  ASSUME [StatsNext]_statsVars
  PROVE  [QueueNext]_queueVars
BY DEF StatsNext, statsVars, StatsBegin, StatsReadQueued, StatsReadDropped, QueueMoves

LEMMA StatsStep ==
  ASSUME Shape, Accounts, StatsInv, [StatsNext]_statsVars
  PROVE  StatsInv'
<1> USE Balance DEF StatsInv
<1>1. CASE StatsBegin
  BY <1>1 DEF StatsBegin, queueVars, MayEvict
<1>2. CASE StatsReadQueued
  BY <1>2 DEF StatsReadQueued, Finish, queueVars, MayEvict
<1>3. CASE StatsReadDropped
  BY <1>3 DEF StatsReadDropped, Finish, queueVars, MayEvict
<1>4. CASE QueueMoves
  <2>1. UNCHANGED <<phase, toRead, statQueued, statDropped, takenBefore>>
    BY <1>4 DEF QueueMoves
  <2>2. MayEvict \in {0, 1} /\ MayEvict' \in {0, 1}
    BY DEF MayEvict
  <2>3. [QueueNext]_queueVars
    BY <1>4 DEF QueueMoves
  <2>4. /\ Len(taken') \in Nat /\ Len(evicted') \in Nat /\ arrived' \in Nat
        /\ Len(taken) <= Len(taken') /\ Len(evicted) <= Len(evicted')
        /\ (arrived - Len(evicted)) - MayEvict
             <= (arrived' - Len(evicted')) - MayEvict'
    BY <2>3, QueueMonotone
  <2>5. takenBefore <= Len(taken')
    BY <2>4
  <2>6. "queued" \notin toRead =>
          takenBefore + statQueued + Len(evicted') + MayEvict' <= arrived'
    <3> SUFFICES ASSUME "queued" \notin toRead
                 PROVE  takenBefore + statQueued + Len(evicted') + MayEvict' <= arrived'
      OBVIOUS
    <3>1. /\ takenBefore \in Nat /\ statQueued \in Nat /\ Len(evicted) \in Nat
          /\ arrived \in Nat
          /\ takenBefore + statQueued + Len(evicted) + MayEvict <= arrived
      OBVIOUS
    <3>2. takenBefore + statQueued <= (arrived - Len(evicted)) - MayEvict
      BY <2>2, <3>1
    <3> HIDE Balance DEF StatsInv
    <3> QED
      BY <2>2, <2>4, <3>1, <3>2
  <2>7. "dropped" \notin toRead => statDropped <= Len(evicted')
    BY <2>4
  <2> QED
    BY <2>1, <2>5, <2>6, <2>7
<1>5. CASE UNCHANGED statsVars
  BY <1>5 DEF statsVars, statVars, queueVars, MayEvict
<1> QED
  BY <1>1, <1>2, <1>3, <1>4, <1>5 DEF StatsNext

LEMMA StatsInitInv == StatsInit => StatsInv
BY DEF StatsInit, QueueInit, StatsInv

LEMMA StatsInvariance == StatsSpec => [](Shape /\ Accounts /\ StatsInv)
<1>1. StatsInit => Shape /\ Accounts /\ StatsInv
  BY ShapeInit, AccountsInit, StatsInitInv DEF StatsInit
<1>2. Shape /\ Accounts /\ StatsInv /\ [StatsNext]_statsVars =>
        Shape' /\ Accounts' /\ StatsInv'
  BY StatsStepIsQueueStep, ShapeStep, AccountsStep, StatsStep
<1> QED
  BY <1>1, <1>2, PTL DEF StatsSpec

\* The sum of QueueStats' two fields and the items returned before the call never
\* exceeds the arrivals, wherever its reads fall between the steps of push and Next.
THEOREM StatsWithinArrivals == StatsSpec => []StatsNeverOvercount
<1>1. Shape /\ Accounts /\ StatsInv => StatsNeverOvercount
  BY Balance DEF StatsInv, StatsNeverOvercount
<1> QED
  BY <1>1, StatsInvariance, PTL
=============================================================================
