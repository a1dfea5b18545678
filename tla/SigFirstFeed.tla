---------------------------- MODULE SigFirstFeed ----------------------------
(***************************************************************************)
(* A sig-first subscription end to end: a server numbers the items it      *)
(* sends, QUIC datagrams may be lost or reordered, the drain goroutine     *)
(* decodes each one and folds it into the gap tracker and the handoff      *)
(* queue, and callers take items with Next.  It composes DatagramCodec,    *)
(* GapTracker and SigFirstQueue.                                           *)
(*                                                                         *)
(* The server and the network are outside the repository: a server assigns *)
(* consecutive numbers from 0 and its heartbeats name the highest one.  A  *)
(* later server may append fields to a datagram and send types of its own; *)
(* datagrams that do not decode may arrive too.                            *)
(***************************************************************************)
EXTENDS GapTracker, SigFirstQueue, DatagramCodec

CONSTANTS
  MaxAssigned,  \* bound on the numbers the server assigns
  Versions,     \* servers: the fields each appends to the datagrams of a type
  Others        \* datagrams of unknown type, too short, or empty

ASSUME MaxAssignedAssumption == MaxAssigned \in Nat /\ MaxAssigned <= MaxU64
ASSUME VersionsAssumption == Versions \subseteq [{DGSigFirst, DGHeartbeat} -> Seq(Nat)]
ASSUME OthersAssumption ==
  \A d \in Others : DecodeDatagram(d).type \in {"ErrBadFrame", "UnknownDatagram"}

VARIABLES
  assigned,  \* the server has assigned 0 .. assigned - 1
  net,       \* datagrams in flight, in no order
  version,   \* this server
  lost,      \* numbers whose item never reached drain
  received   \* the SigFirstItem of each item drain received

feedVars == <<queueVars, gapVars, assigned, net, version, lost, received>>

\* What the server sends for a number: several items share a slot.
ItemOf(seq) == [slot |-> seq \div 2, seq |-> seq, signature |-> 100 + seq]
ServerClock == 50

Assigned == 0 .. assigned - 1
Sent(seq) ==
  EncodeDGSigFirst(ItemOf(seq).slot, seq, ItemOf(seq).signature) \o version[DGSigFirst]

-----------------------------------------------------------------------------
\* Mutants: plausible bugs, each caught by a property below.

ReceiveItemChargesFull(d) ==  \* a full queue is taken for a gap
  LET v == DecodeDatagram(d)
  IN  /\ v.type = "SigFirst"
      /\ Recv
      /\ gaps' = IF HasRoom THEN gaps ELSE AddU64(gaps, 1)
      /\ lastSeq' = v.seq
      /\ haveLast' = TRUE
      /\ recordItem(v.seq)
      /\ net' = net \ {d}
      /\ received' = Append(received, ItemOf(v.seq))
      /\ UNCHANGED <<assigned, version, lost>>

-----------------------------------------------------------------------------
\* The server.
ServerSends ==
  /\ assigned < MaxAssigned
  /\ net' = net \cup {Sent(assigned)}
  /\ assigned' = assigned + 1
  /\ UNCHANGED <<queueVars, gapVars, version, lost, received>>

ServerBeats ==
  /\ net' = net \cup {EncodeDGHeartbeat(ServerClock,
                IF assigned = 0 THEN NoSeqAssigned ELSE assigned - 1)
                          \o version[DGHeartbeat]}
  /\ net' # net
  /\ UNCHANGED <<queueVars, gapVars, assigned, version, lost, received>>

ServerSendsOther ==  \* one at a time, which bounds net
  /\ net \cap Others = {}
  /\ \E d \in Others : net' = net \cup {d}
  /\ UNCHANGED <<queueVars, gapVars, assigned, version, lost, received>>

\* A datagram is lost on the way or dropped from quic-go's full buffer.
Lose(d) ==
  /\ net' = net \ {d}
  /\ lost' = lost \cup {n \in Assigned : d = Sent(n)}
  /\ UNCHANGED <<queueVars, gapVars, assigned, version, received>>

\* drain: by what the datagram decodes to.
ReceiveItem(d) ==
  LET v == DecodeDatagram(d)
  IN  /\ v.type = "SigFirst"
      /\ Recv
      /\ ObserveItem(v.seq)
      /\ net' = net \ {d}
      /\ received' = Append(received, [slot |-> v.slot, seq |-> v.seq,
                                       signature |-> v.signature])
      /\ UNCHANGED <<assigned, version, lost>>

ReceiveHeartbeat(d) ==
  LET v == DecodeDatagram(d)
  IN  /\ v.type = "DatagramHeartbeat"
      /\ pc = "recv"
      /\ ObserveHeartbeat(v.highestSeq)
      /\ net' = net \ {d}
      /\ UNCHANGED <<queueVars, assigned, version, lost, received>>

SkipDatagram(d) ==
  /\ DecodeDatagram(d).type \in {"ErrBadFrame", "UnknownDatagram"}
  /\ pc = "recv"
  /\ net' = net \ {d}
  /\ UNCHANGED <<queueVars, gapVars, assigned, version, lost, received>>

\* Everything drain, push and Next do without looking at a datagram.
QueueOnly ==
  /\ \/ \E e \in Ends : SourceEnd(e)
     \/ drain
     \/ \E c \in Callers :
          \/ NextTakes(c) \/ NextParks(c) \/ NextCancelled(c)
          \/ NextSeesClosed(c) \/ NextReturnsErr(c)
  /\ UNCHANGED <<gapVars, assigned, net, version, lost, received>>

FeedInit ==
  /\ GapInit /\ QueueInit
  /\ version \in Versions
  /\ assigned = 0 /\ net = {} /\ lost = {} /\ received = <<>>

FeedNext ==
  \/ ServerSends \/ ServerBeats \/ ServerSendsOther
  \/ \E d \in net : Lose(d) \/ ReceiveItem(d) \/ ReceiveHeartbeat(d) \/ SkipDatagram(d)
  \/ QueueOnly

FeedSpec == FeedInit /\ [][FeedNext]_feedVars

-----------------------------------------------------------------------------
\* Numbers whose item, as the server sent it, the program still has for a
\* caller or has given to one.
Deliverable == Elements(taken) \cup Elements(ch) \cup
               (IF InHand = 1 THEN {cur} ELSE {})
Kept == {n \in Assigned : \E i \in Deliverable : received[i] = ItemOf(n)}

\* No loss in the window is silent: of the numbers above the first one observed,
\* up to the watermark, every one whose item callers have not got, and will not
\* get, intact is counted by Gaps() or by Dropped() (which lags one step).
\* Losses at or below the first number observed are not claimed: the code cannot
\* know of them.
NoSilentLoss ==
  haveLast => Cardinality(Window \ Kept)
                <= gaps + dropped + (IF pc = "count" THEN 1 ELSE 0)

\* Gaps() alleges no loss that did not happen: each unit stands for a number
\* whose item was lost, is still on its way, or came after the watermark had
\* passed it.  So neither the sentinel of an early heartbeat, even one
\* delivered late, nor a datagram of a later version becomes a gap.
GapsAreLosses ==
  haveLast => gaps <= Cardinality(lost \cup late \cup
                                  {n \in Assigned : Sent(n) \in net})

\* The composition runs its parts as they were specified: drain interleaves
\* datagrams with the callers without disturbing either accounting.
PartsUndisturbed == GapSpec /\ QueueSpec
=============================================================================
