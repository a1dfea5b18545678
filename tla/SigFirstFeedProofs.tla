------------------------- MODULE SigFirstFeedProofs -------------------------
(***************************************************************************)
(* Proofs about SigFirstFeed, for every word size, capacity, number of     *)
(* callers and arrivals, and every extension of the datagrams.             *)
(*                                                                         *)
(* A datagram in flight decodes to what the server put in it, so a step of *)
(* the feed is a step of GapTracker and a step of SigFirstQueue, and their *)
(* invariants hold of the composition.  What joins the two is proved here: *)
(* where each assigned number is, and which arrival carried which item.    *)
(***************************************************************************)
EXTENDS SigFirstFeed, GapTrackerProofs, SigFirstQueueProofs, SequenceTheorems

Beat(highestSeq) ==
  EncodeDGHeartbeat(ServerClock, highestSeq) \o version[DGHeartbeat]

LEMMA PrefixOfConcat ==
  ASSUME NEW s \in Seq(Nat), NEW t \in Seq(Nat)
  PROVE  /\ s \o t \in Seq(Nat)
         /\ Len(s \o t) = Len(s) + Len(t)
         /\ \A i \in 1 .. Len(s) : (s \o t)[i] = s[i]
BY ConcatProperties

LEMMA DecodeSent ==
  ASSUME version \in Versions, NEW n \in Nat
  PROVE  DecodeDatagram(Sent(n)) =
           [type |-> "SigFirst", slot |-> n \div 2, seq |-> n, signature |-> 100 + n]
<1> DEFINE s == EncodeDGSigFirst(ItemOf(n).slot, n, ItemOf(n).signature)
           t == version[DGSigFirst]
<1>1. t \in Seq(Nat)
  BY VersionsAssumption
<1>2. s = <<DGSigFirst, n \div 2, n, 100 + n>> /\ n \div 2 \in Nat
  BY DEF EncodeDGSigFirst, ItemOf
<1>3. /\ s \in Seq(Nat) /\ Len(s) = 4
      /\ s[1] = DGSigFirst /\ s[2] = n \div 2 /\ s[3] = n /\ s[4] = 100 + n
  BY <1>2 DEF DGSigFirst
<1> HIDE DEF s, t
<1>4. /\ s \o t \in Seq(Nat) /\ Len(s \o t) >= 4 /\ s \o t # <<>>
      /\ Head(s \o t) = DGSigFirst
      /\ (s \o t)[1] = DGSigFirst /\ (s \o t)[2] = n \div 2
      /\ (s \o t)[3] = n /\ (s \o t)[4] = 100 + n
  <2>1. /\ s \o t \in Seq(Nat)
        /\ Len(s \o t) = Len(s) + Len(t)
        /\ \A i \in 1 .. Len(s) : (s \o t)[i] = s[i]
    BY <1>1, <1>3, PrefixOfConcat, Zenon
  <2>2. Len(t) \in Nat
    BY <1>1
  <2> QED
    BY <1>3, <2>1, <2>2
<1>5. Sent(n) = s \o t
  BY DEF Sent, s, t
<1> QED
  BY <1>4, <1>5 DEF DecodeDatagram, LongEnough, MinLength, DGSigFirstMin, Parsed

LEMMA DecodeBeat ==
  ASSUME version \in Versions, NEW h \in Nat
  PROVE  DecodeDatagram(Beat(h)) =
           [type |-> "DatagramHeartbeat", serverTsMs |-> ServerClock, highestSeq |-> h]
<1> DEFINE s == EncodeDGHeartbeat(ServerClock, h)
           t == version[DGHeartbeat]
<1>1. t \in Seq(Nat)
  BY VersionsAssumption
<1>2. s = <<DGHeartbeat, ServerClock, h>> /\ ServerClock \in Nat
  BY DEF EncodeDGHeartbeat, ServerClock
<1>3. /\ s \in Seq(Nat) /\ Len(s) = 3
      /\ s[1] = DGHeartbeat /\ s[2] = ServerClock /\ s[3] = h
  BY <1>2 DEF DGHeartbeat
<1> HIDE DEF s, t
<1>4. /\ s \o t \in Seq(Nat) /\ Len(s \o t) >= 3 /\ s \o t # <<>>
      /\ Head(s \o t) = DGHeartbeat
      /\ (s \o t)[1] = DGHeartbeat /\ (s \o t)[2] = ServerClock /\ (s \o t)[3] = h
  <2>1. /\ s \o t \in Seq(Nat)
        /\ Len(s \o t) = Len(s) + Len(t)
        /\ \A i \in 1 .. Len(s) : (s \o t)[i] = s[i]
    BY <1>1, <1>3, PrefixOfConcat, Zenon
  <2>2. Len(t) \in Nat
    BY <1>1
  <2> QED
    BY <1>3, <2>1, <2>2
<1>5. Beat(h) = s \o t
  BY DEF Beat, s, t
<1>6. DGHeartbeat # DGSigFirst
  BY DEF DGHeartbeat, DGSigFirst
<1> QED
  BY <1>4, <1>5, <1>6 DEF DecodeDatagram, LongEnough, MinLength, DGHeartbeatMin, Parsed

-----------------------------------------------------------------------------
(* What is in flight, and where each number and each item is. *)

InFlight ==
  /\ assigned \in 0 .. MaxAssigned
  /\ version \in Versions
  /\ \A d \in net : \/ \E n \in Assigned : d = Sent(n)
                    \/ \E h \in Assigned \cup {NoSeqAssigned} : d = Beat(h)
                    \/ d \in Others

\* An assigned number was seen, was lost, or is on its way.
Whereabouts ==
  /\ seen \subseteq Assigned /\ beats \subseteq Assigned /\ lost \subseteq Assigned
  /\ \A n \in Assigned : n \in seen \/ n \in lost \/ Sent(n) \in net

\* Arrivals carry the items that were sent, and a number is seen only by one.
Carried ==
  /\ received \in Seq({ItemOf(n) : n \in Nat})
  /\ Len(received) = arrived
  /\ \A n \in seen : \E i \in 1 .. arrived : received[i] = ItemOf(n)

FeedInv == InFlight /\ Whereabouts /\ Carried

LEMMA AssignedAreWords ==
  ASSUME InFlight
  PROVE  /\ assigned \in Nat /\ Assigned \subseteq U64 /\ Assigned \subseteq Nat
         /\ NoSeqAssigned \notin Assigned /\ NoSeqAssigned \in Nat
         /\ Assigned \cup {NoSeqAssigned} \subseteq U64
BY MaxU64Assumption, MaxAssignedAssumption DEF InFlight, Assigned, U64, NoSeqAssigned

\* A datagram in flight decodes to what the server put in it.
LEMMA FlightDecodes ==
  ASSUME InFlight, NEW d \in net
  PROVE  /\ DecodeDatagram(d).type = "SigFirst" =>
              \E n \in Assigned :
                /\ d = Sent(n)
                /\ DecodeDatagram(d).seq = n
                /\ [slot |-> DecodeDatagram(d).slot, seq |-> DecodeDatagram(d).seq,
                    signature |-> DecodeDatagram(d).signature] = ItemOf(n)
         /\ DecodeDatagram(d).type = "DatagramHeartbeat" =>
              DecodeDatagram(d).highestSeq \in Assigned \cup {NoSeqAssigned}
         /\ DecodeDatagram(d).type # "SigFirst" => \A n \in Assigned : d # Sent(n)
<1>0. version \in Versions
  BY DEF InFlight
<1>1. ASSUME NEW n \in Assigned, d = Sent(n)
      PROVE  /\ DecodeDatagram(d).type = "SigFirst"
             /\ DecodeDatagram(d).seq = n
             /\ [slot |-> DecodeDatagram(d).slot, seq |-> DecodeDatagram(d).seq,
                 signature |-> DecodeDatagram(d).signature] = ItemOf(n)
  <2>1. DecodeDatagram(d) =
           [type |-> "SigFirst", slot |-> n \div 2, seq |-> n, signature |-> 100 + n]
    BY <1>0, <1>1, AssignedAreWords, DecodeSent
  <2> QED
    BY <2>1 DEF ItemOf
<1>2. ASSUME NEW h \in Assigned \cup {NoSeqAssigned}, d = Beat(h)
      PROVE  /\ DecodeDatagram(d).type = "DatagramHeartbeat"
             /\ DecodeDatagram(d).highestSeq = h
  <2>1. DecodeDatagram(d) =
          [type |-> "DatagramHeartbeat", serverTsMs |-> ServerClock, highestSeq |-> h]
    BY <1>0, <1>2, AssignedAreWords, DecodeBeat
  <2> QED
    BY <2>1
<1>3. ASSUME d \in Others
      PROVE  DecodeDatagram(d).type \notin {"SigFirst", "DatagramHeartbeat"}
  BY <1>3, OthersAssumption
<1> QED
  BY <1>1, <1>2, <1>3 DEF InFlight

LEMMA FeedInitInv == FeedInit => FeedInv
<1> SUFFICES ASSUME FeedInit PROVE FeedInv
  OBVIOUS
<1>1. Assigned = {}
  BY DEF FeedInit, Assigned
<1>2. InFlight
  BY MaxAssignedAssumption DEF FeedInit, InFlight
<1>3. Whereabouts
  BY <1>1 DEF FeedInit, GapInit, Whereabouts
<1>4. Carried
  BY DEF FeedInit, GapInit, QueueInit, Carried
<1> QED
  BY <1>2, <1>3, <1>4 DEF FeedInv

-----------------------------------------------------------------------------
(* A step of the feed is a step of each of its parts. *)

LEMMA FeedStepParts ==
  ASSUME FeedInv, [FeedNext]_feedVars
  PROVE  [GapNext]_gapVars /\ [QueueNext]_queueVars
<1> USE DEF FeedInv
<1>1. CASE UNCHANGED feedVars
  BY <1>1 DEF feedVars
<1>2. CASE ServerSends \/ ServerBeats \/ ServerSendsOther
  BY <1>2 DEF ServerSends, ServerBeats, ServerSendsOther
<1>3. ASSUME NEW d \in net, Lose(d) \/ SkipDatagram(d)
      PROVE  UNCHANGED <<gapVars, queueVars>>
  BY <1>3 DEF Lose, SkipDatagram
<1>4. ASSUME NEW d \in net, ReceiveItem(d)
      PROVE  GapNext /\ QueueNext
  <2>1. Recv /\ ObserveItem(DecodeDatagram(d).seq)
    BY <1>4 DEF ReceiveItem
  <2>2. DecodeDatagram(d).seq \in U64
    BY <1>4, FlightDecodes, AssignedAreWords DEF ReceiveItem
  <2> QED
    BY <2>1, <2>2 DEF GapNext, QueueNext
<1>5. ASSUME NEW d \in net, ReceiveHeartbeat(d)
      PROVE  GapNext /\ UNCHANGED queueVars
  <2>1. ObserveHeartbeat(DecodeDatagram(d).highestSeq) /\ UNCHANGED queueVars
    BY <1>5 DEF ReceiveHeartbeat
  <2>2. DecodeDatagram(d).highestSeq \in U64
    BY <1>5, FlightDecodes, AssignedAreWords DEF ReceiveHeartbeat
  <2> QED
    BY <2>1, <2>2 DEF GapNext
<1>6. CASE QueueOnly
  BY <1>6 DEF QueueOnly, QueueNext
<1> QED
  BY <1>1, <1>2, <1>3, <1>4, <1>5, <1>6 DEF FeedNext

-----------------------------------------------------------------------------
(* Every step preserves the invariant of the feed. *)

\* Steps that touch neither the items received nor the numbers observed.
LEMMA OutsideSteps ==
  ASSUME FeedInv, \/ UNCHANGED feedVars
                  \/ ServerSends \/ ServerBeats \/ ServerSendsOther
                  \/ \E d \in net : Lose(d) \/ SkipDatagram(d)
                  \/ QueueOnly
  PROVE  FeedInv'
<1> USE MaxAssignedAssumption, AssignedAreWords DEF FeedInv
<1>1. CASE ServerSends
  <2>0. /\ assigned' = assigned + 1 /\ net' = net \cup {Sent(assigned)}
        /\ UNCHANGED <<queueVars, gapVars, version, lost, received>>
        /\ assigned \in Nat /\ assigned' \in 0 .. MaxAssigned
    BY <1>1 DEF ServerSends, InFlight
  <2>1. Assigned' = Assigned \cup {assigned}
    BY <2>0 DEF Assigned
  <2>2. \A n : Sent(n)' = Sent(n) /\ Beat(n)' = Beat(n)
    BY <2>0 DEF Sent, Beat
  <2>3. InFlight'
    BY <2>0, <2>1, <2>2 DEF InFlight
  <2>4. Whereabouts'
    BY <2>0, <2>1, <2>2 DEF Whereabouts, gapVars
  <2>5. Carried'
    BY <2>0 DEF Carried, gapVars, queueVars
  <2> QED
    BY <2>3, <2>4, <2>5
<1>2. CASE ServerBeats \/ ServerSendsOther
  <2>0. /\ UNCHANGED <<queueVars, gapVars, assigned, version, lost, received>>
        /\ net \subseteq net'
    BY <1>2 DEF ServerBeats, ServerSendsOther
  <2>1. Assigned' = Assigned /\ \A n : Sent(n)' = Sent(n) /\ Beat(n)' = Beat(n)
    BY <2>0 DEF Assigned, Sent, Beat
  <2>2. \A d \in net' : \/ d \in net \/ d \in Others
                        \/ \E h \in Assigned \cup {NoSeqAssigned} : d = Beat(h)
    <3>1. CASE ServerBeats
      <4> DEFINE h == IF assigned = 0 THEN NoSeqAssigned ELSE assigned - 1
      <4>1. net' = net \cup {Beat(h)}
        BY <3>1 DEF ServerBeats, Beat
      <4>2. h \in Assigned \cup {NoSeqAssigned}
        BY DEF Assigned
      <4> QED
        BY <4>1, <4>2
    <3>2. CASE ServerSendsOther
      BY <3>2 DEF ServerSendsOther
    <3> QED
      BY <1>2, <3>1, <3>2
  <2>3. InFlight'
    BY <2>0, <2>1, <2>2 DEF InFlight
  <2>4. Whereabouts' /\ Carried'
    BY <2>0, <2>1 DEF Whereabouts, Carried, gapVars, queueVars
  <2> QED
    BY <2>3, <2>4
<1>3. ASSUME NEW d \in net, Lose(d) \/ SkipDatagram(d)
      PROVE  FeedInv'
  <2>0. /\ UNCHANGED <<queueVars, gapVars, assigned, version, received>>
        /\ net' = net \ {d}
    BY <1>3 DEF Lose, SkipDatagram
  <2>1. Assigned' = Assigned /\ \A n : Sent(n)' = Sent(n) /\ Beat(n)' = Beat(n)
    BY <2>0 DEF Assigned, Sent, Beat
  <2>2. InFlight'
    BY <2>0, <2>1 DEF InFlight
  <2>3. /\ lost' \subseteq Assigned /\ lost \subseteq lost'
        /\ \A n \in Assigned : d = Sent(n) => n \in lost'
    <3>1. CASE Lose(d)
      BY <3>1 DEF Lose, Whereabouts
    <3>2. CASE SkipDatagram(d)
      <4>1. DecodeDatagram(d).type # "SigFirst" /\ lost' = lost
        BY <3>2 DEF SkipDatagram
      <4> QED
        BY <4>1, FlightDecodes DEF Whereabouts
    <3> QED
      BY <1>3, <3>1, <3>2
  <2>4. Whereabouts'
    BY <2>0, <2>1, <2>3 DEF Whereabouts, gapVars
  <2>5. Carried'
    BY <2>0 DEF Carried, gapVars, queueVars
  <2> QED
    BY <2>2, <2>4, <2>5
<1>4. CASE QueueOnly \/ UNCHANGED feedVars
  <2>0. UNCHANGED <<gapVars, assigned, net, version, lost, received, arrived>>
    BY <1>4 DEF QueueOnly, feedVars, queueVars, SourceEnd, drain, PushSend, PushEvict,
       PushEvictNothing, PushCount, PushResend, Close, NextTakes, NextParks,
       NextCancelled, NextSeesClosed, NextReturnsErr
  <2>1. Assigned' = Assigned /\ \A n : Sent(n)' = Sent(n) /\ Beat(n)' = Beat(n)
    BY <2>0 DEF Assigned, Sent, Beat
  <2> QED
    BY <2>0, <2>1 DEF InFlight, Whereabouts, Carried, gapVars
<1> QED
  BY <1>1, <1>2, <1>3, <1>4

\* Steps of drain that consume a datagram it understands.
LEMMA ReceiveSteps ==
  ASSUME FeedInv, NEW d \in net, ReceiveItem(d) \/ ReceiveHeartbeat(d)
  PROVE  FeedInv'
<1> USE AssignedAreWords DEF FeedInv
<1>0. UNCHANGED <<assigned, version, lost>> /\ net' = net \ {d}
  BY DEF ReceiveItem, ReceiveHeartbeat
<1>1. Assigned' = Assigned /\ \A n : Sent(n)' = Sent(n) /\ Beat(n)' = Beat(n)
  BY <1>0 DEF Assigned, Sent, Beat
<1>2. InFlight'
  BY <1>0, <1>1 DEF InFlight
<1>3. CASE ReceiveItem(d)
  <2>1. PICK n \in Assigned :
          /\ d = Sent(n) /\ DecodeDatagram(d).seq = n
          /\ [slot |-> DecodeDatagram(d).slot, seq |-> DecodeDatagram(d).seq,
              signature |-> DecodeDatagram(d).signature] = ItemOf(n)
    BY <1>3, FlightDecodes DEF ReceiveItem
  <2>2. /\ Recv /\ seen' = seen \cup {n} /\ beats' = beats
        /\ received' = Append(received, ItemOf(n))
    BY <1>3, <2>1 DEF ReceiveItem, ObserveItem, recordItem
  <2>3. \A m \in Assigned : Sent(m) = d => m = n
    <3> SUFFICES ASSUME NEW m \in Assigned, Sent(m) = d PROVE m = n
      OBVIOUS
    <3>1. DecodeDatagram(Sent(m)).seq = m
      <4>1. m \in Nat /\ version \in Versions
        BY DEF InFlight
      <4> QED
        BY <4>1, DecodeSent
    <3> QED
      BY <2>1, <3>1
  <2>4. Whereabouts'
    BY <1>0, <1>1, <2>2, <2>3 DEF Whereabouts
  <2>5. Carried'
    <3>1. /\ arrived' = arrived + 1 /\ Len(received) = arrived /\ arrived \in Nat
          /\ n \in Nat /\ received \in Seq({ItemOf(m) : m \in Nat})
      BY <2>2 DEF Recv, Carried
    <3>2. /\ received' \in Seq({ItemOf(m) : m \in Nat})
          /\ Len(received') = arrived' /\ received'[arrived'] = ItemOf(n)
          /\ \A i \in 1 .. arrived : received'[i] = received[i]
          /\ arrived' \in 1 .. arrived' /\ 1 .. arrived \subseteq 1 .. arrived'
      BY <2>2, <3>1
    <3>3. ASSUME NEW m \in seen'
          PROVE  \E i \in 1 .. arrived' : received'[i] = ItemOf(m)
      BY <2>2, <3>2, <3>3 DEF Carried
    <3>4. (ItemOf(0))' = ItemOf(0) /\ \A m : ItemOf(m)' = ItemOf(m)
      BY DEF ItemOf
    <3> QED
      BY <3>2, <3>3, <3>4 DEF Carried
  <2> QED
    BY <1>2, <2>4, <2>5
<1>4. CASE ReceiveHeartbeat(d)
  <2>1. /\ DecodeDatagram(d).highestSeq \in Assigned \cup {NoSeqAssigned}
        /\ \A n \in Assigned : d # Sent(n)
    BY <1>4, FlightDecodes DEF ReceiveHeartbeat
  <2>2. /\ seen' = seen /\ beats' \subseteq Assigned
        /\ UNCHANGED <<received, arrived>>
    BY <1>4, <2>1 DEF ReceiveHeartbeat, ObserveHeartbeat, recordHeartbeat, history,
       queueVars, Whereabouts
  <2>3. Whereabouts' /\ Carried'
    BY <1>0, <1>1, <2>1, <2>2 DEF Whereabouts, Carried
  <2> QED
    BY <1>2, <2>3
<1> QED
  BY <1>3, <1>4

LEMMA FeedStepInv == FeedInv /\ [FeedNext]_feedVars => FeedInv'
BY OutsideSteps, ReceiveSteps DEF FeedNext

\* The feed's own invariant and those of its parts.
LEMMA FeedInvariance == FeedSpec => [](FeedInv /\ GapInv /\ Shape /\ Accounts)
<1>1. FeedInit => FeedInv /\ GapInv /\ Shape /\ Accounts
  BY FeedInitInv, GapInitInv, ShapeInit, AccountsInit DEF FeedInit
<1>2. FeedInv /\ GapInv /\ Shape /\ Accounts /\ [FeedNext]_feedVars =>
        FeedInv' /\ GapInv' /\ Shape' /\ Accounts'
  BY FeedStepInv, FeedStepParts, GapNextInv, ShapeStep, AccountsStep
<1> QED
  BY <1>1, <1>2, PTL DEF FeedSpec

-----------------------------------------------------------------------------
(* What the parts promise together. *)

\* An item seen is buffered, in hand, taken or evicted.
LEMMA SeenIsKeptOrEvicted ==
  ASSUME FeedInv, Shape, Accounts, NEW n \in seen \ Kept
  PROVE  \E j \in 1 .. Len(evicted) : received[evicted[j]] = ItemOf(n)
<1>1. PICK i \in 1 .. arrived : received[i] = ItemOf(n)
  BY DEF FeedInv, Carried
<1>2. i \notin Deliverable
  BY <1>1 DEF Kept, FeedInv, Whereabouts
<1>3. i \in Elements(evicted)
  <2>1. /\ Departed = arrived - InHand - Len(ch) /\ Departed \in Nat
        /\ Elements(taken) \cup Elements(evicted) = 1 .. Departed
        /\ \A j \in 1 .. Len(ch) : ch[j] = Departed + j
        /\ Len(ch) \in Nat /\ arrived \in Nat /\ InHand \in {0, 1}
    BY ShapeTypes DEF Accounts, ExactlyOnceInOrder, Partition, Contiguous, Departed
  <2>2. CASE i <= Departed
    BY <1>2, <2>1, <2>2 DEF Deliverable
  <2>3. CASE i > Departed /\ i <= Departed + Len(ch)
    <3>1. i - Departed \in 1 .. Len(ch) /\ ch[i - Departed] = i
      BY <2>1, <2>3
    <3> QED
      BY <1>2, <3>1 DEF Deliverable, Elements
  <2>4. CASE i > Departed + Len(ch)
    <3>1. InHand = 1 /\ i = cur
      BY <2>1, <2>4 DEF Shape
    <3> QED
      BY <1>2, <3>1 DEF Deliverable
  <2> QED
    BY <2>1, <2>2, <2>3, <2>4
<1> QED
  BY <1>1, <1>3 DEF Elements

\* No loss in the window is silent, for any word size, capacity, callers and
\* datagrams: what noteItemSeq and noteHeartbeatSeq count as missing and what push
\* counts as dropped cover every number in the window that callers do not get.
THEOREM LossNeverSilent == FeedSpec => []NoSilentLoss
<1>1. FeedInv /\ GapInv /\ Shape /\ Accounts => NoSilentLoss
  <2> SUFFICES ASSUME FeedInv, GapInv, Shape, Accounts, haveLast
               PROVE  Cardinality(Window \ Kept)
                        <= gaps + dropped + (IF pc = "count" THEN 1 ELSE 0)
    BY DEF NoSilentLoss
  <2> DEFINE gone == seen \ Kept
             m    == Len(evicted)
  <2>1. /\ m \in Nat /\ dropped \in Nat
        /\ dropped + (IF pc = "count" THEN 1 ELSE 0) = m
    BY ShapeTypes DEF Accounts, DroppedIsEvicted
  <2>2. IsFiniteSet(gone) /\ Cardinality(gone) \in Nat /\ Cardinality(gone) <= m
    <3> DEFINE D == {j \in 1 .. m : \E n \in gone : received[evicted[j]] = ItemOf(n)}
               f == [j \in D |-> received[evicted[j]].seq]
    <3>1. IsFiniteSet(1 .. m) /\ Cardinality(1 .. m) = m
      <4>1. 1 \in Int /\ m \in Int
        BY <2>1
      <4>2. /\ IsFiniteSet(1 .. m)
            /\ Cardinality(1 .. m) = IF 1 > m THEN 0 ELSE m - 1 + 1
        <5> HIDE DEF m
        <5> QED
          BY <4>1, FS_Interval
      <4> HIDE DEF m
      <4> QED
        BY <2>1, <4>2
    <3>2. IsFiniteSet(D) /\ Cardinality(D) <= m
      <4>1. D \in SUBSET (1 .. m)
        OBVIOUS
      <4> QED
        BY <3>1, <4>1, FS_Subset
    <3>3. f \in Surjection(D, gone)
      <4>1. ASSUME NEW j \in D
            PROVE  f[j] \in gone
        <5>1. PICK n \in gone : received[evicted[j]] = ItemOf(n)
          OBVIOUS
        <5>2. ItemOf(n).seq = n
          BY DEF ItemOf
        <5>3. f[j] = n
          BY <5>1, <5>2
        <5> QED
          BY <5>3
      <4>2. ASSUME NEW n \in gone
            PROVE  \E j \in D : f[j] = n
        <5>1. PICK j \in 1 .. m : received[evicted[j]] = ItemOf(n)
          BY SeenIsKeptOrEvicted
        <5> QED
          BY <5>1 DEF ItemOf
      <4> QED
        BY <4>1, <4>2 DEF Surjection
    <3>4. IsFiniteSet(gone) /\ Cardinality(gone) <= Cardinality(D)
      <4> HIDE DEF D, f, gone
      <4> QED
        BY <3>2, <3>3, FS_Surjection
    <3>5. Cardinality(gone) \in Nat /\ Cardinality(D) \in Nat
      <4> HIDE DEF D, gone
      <4> QED
        BY <3>2, <3>4, FS_CardinalityType
    <3> QED
      BY <2>1, <3>2, <3>4, <3>5
  <2>3. /\ IsFiniteSet(Missing) /\ Cardinality(Missing) \in Nat
        /\ Cardinality(late) \in Nat
        /\ gaps = Cardinality(Missing) + Cardinality(late)
    BY ChargeFits DEF GapInv, GapsAccounting
  <2>4. Window \ Kept \subseteq Missing \cup gone
    BY DEF Missing
  <2>5. Cardinality(Window \ Kept) <= Cardinality(Missing) + Cardinality(gone)
    <3> HIDE DEF gone
    <3>1. /\ IsFiniteSet(Missing \cup gone)
          /\ Cardinality(Missing \cup gone) =
               Cardinality(Missing) + Cardinality(gone) - Cardinality(Missing \cap gone)
      BY <2>2, <2>3, FS_Union
    <3>2. /\ IsFiniteSet(Window \ Kept)
          /\ Cardinality(Window \ Kept) <= Cardinality(Missing \cup gone)
      BY <2>4, <3>1, FS_Subset
    <3>3. IsFiniteSet(Missing \cap gone)
      BY <2>2, FS_Subset
    <3>4. /\ Cardinality(Missing \cap gone) \in Nat /\ Cardinality(Window \ Kept) \in Nat
          /\ Cardinality(Missing \cup gone) \in Nat
      BY <3>1, <3>2, <3>3, FS_CardinalityType
    <3> QED
      BY <2>2, <2>3, <3>1, <3>2, <3>4
  <2>6. Cardinality(Window \ Kept) \in Nat /\ gaps \in Nat
    <3>1. IsFiniteSet(Window \ Kept)
      <4>1. IsFiniteSet(Missing \cup gone)
        BY <2>2, <2>3, FS_Union
      <4> QED
        BY <2>4, <4>1, FS_Subset
    <3> QED
      BY <2>3, <3>1, FS_CardinalityType
  <2> HIDE DEF gone, m
  <2> QED
    BY <2>1, <2>2, <2>3, <2>5, <2>6
<1> QED
  BY <1>1, FeedInvariance, PTL

\* Each unit of Gaps() is a number that was lost, is still on its way, or came
\* after the watermark: no sentinel and no reordering is taken for loss.
THEOREM GapsOnlyLosses == FeedSpec => []GapsAreLosses
<1>1. FeedInv /\ GapInv => GapsAreLosses
  <2> SUFFICES ASSUME FeedInv, GapInv, haveLast
               PROVE  gaps <= Cardinality(lost \cup late \cup
                                          {n \in Assigned : Sent(n) \in net})
    BY DEF GapsAreLosses
  <2> DEFINE S == lost \cup late \cup {n \in Assigned : Sent(n) \in net}
  <2>1. /\ assigned \in Nat /\ late \subseteq seen /\ lastSeq \in Assigned
        /\ seen \subseteq Assigned
    BY AssignedAreWords
       DEF FeedInv, GapInv, LateInWindow, Whereabouts, WatermarkIsMax, Observed
  <2>2. Missing \subseteq Assigned
    BY <2>1 DEF Missing, Window, Assigned, GapInv, GapTypeOK, U64
  <2>3. Missing \cup late \subseteq S /\ Missing \cap late = {}
    BY <2>1, <2>2 DEF FeedInv, Whereabouts, Missing
  <2>4. IsFiniteSet(S)
    <3>1. IsFiniteSet(Assigned)
      BY <2>1, FS_Interval DEF Assigned
    <3>2. S \in SUBSET Assigned
      BY <2>1 DEF FeedInv, Whereabouts
    <3> QED
      BY <3>1, <3>2, FS_Subset
  <2>5. /\ IsFiniteSet(Missing) /\ IsFiniteSet(late)
        /\ Cardinality(Missing) \in Nat /\ Cardinality(late) \in Nat
        /\ gaps = Cardinality(Missing) + Cardinality(late)
    BY ChargeFits DEF GapInv, GapsAccounting
  <2> HIDE DEF S
  <2>6. Cardinality(Missing \cup late) = gaps
    BY <2>3, <2>5, CardinalityDisjointUnion
  <2>7. Cardinality(Missing \cup late) <= Cardinality(S)
    BY <2>3, <2>4, FS_Subset
  <2> QED
    BY <2>6, <2>7 DEF S
<1> QED
  BY <1>1, FeedInvariance, PTL

\* Neither the datagrams nor the callers disturb either accounting: a behaviour
\* of the composition is one of GapTracker and one of SigFirstQueue.
THEOREM PartsAsSpecified == FeedSpec => PartsUndisturbed
<1>1. FeedInit => GapInit /\ QueueInit
  BY DEF FeedInit
<1>2. FeedInv /\ [FeedNext]_feedVars => [GapNext]_gapVars /\ [QueueNext]_queueVars
  BY FeedStepParts
<1> QED
  BY <1>1, <1>2, FeedInvariance, PTL DEF FeedSpec, GapSpec, QueueSpec, PartsUndisturbed
=============================================================================
