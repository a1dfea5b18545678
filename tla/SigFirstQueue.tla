--------------------------- MODULE SigFirstQueue ----------------------------
(***************************************************************************)
(* The sig-first handoff queue of pulse.go: the drain goroutine (drain and *)
(* push) fills a bounded Go channel, evicting the oldest item when it is   *)
(* full, while any number of callers take items with Next.                 *)
(*                                                                         *)
(* Every channel operation, and the atomic add to the drop counter, is one *)
(* step.  A Go channel hands an item directly to a parked receiver, so a   *)
(* parked receiver implies an empty channel; close releases every parked   *)
(* receiver with ok = FALSE.  Items are numbered in order of arrival; only *)
(* datagrams that decode to an item appear here.                           *)
(***************************************************************************)
EXTENDS PulseErrors, Sequences, FiniteSets

CONSTANTS
  Capacity,     \* WithSigQueueCapacity; SigQueueLen unless set
  Callers,      \* goroutines calling Next
  Ends,         \* the errors ReceiveDatagram may end with
  MaxArrivals   \* bound on the items the source delivers

ASSUME CapacityAssumption == Capacity \in Nat \ {0}
ASSUME ArrivalsAssumption == MaxArrivals \in Nat
\* quic-go returns an error, with at most one application error in its chain,
\* and never one of this SDK's own.
ASSUME EndsAssumption ==
  \A e \in Ends :
    /\ e # nil
    /\ ~IsTerminal(e)
    /\ \A a \in e : a.kind = AppKind => a = AppError(a.code)
    /\ \A a, b \in e : a.kind = AppKind /\ b.kind = AppKind => a = b

VARIABLES
  pc,       \* where drain is
  cur,      \* the item push is working on
  ch,       \* the buffered items of s.ch
  closed,   \* s.ch is closed
  err,      \* s.err
  dropped,  \* s.dropped
  call,     \* state of each caller: "idle", "parked" in Next, or "released"
  arrived,  \* history: number of items received
  taken,    \* history: items returned by Next, in order
  evicted,  \* history: items push took back out, in order
  source,   \* history: the error the source ended with
  ends      \* history: the errors Next has returned at the end

queueVars == <<pc, cur, ch, closed, err, dropped, call,
               arrived, taken, evicted, source, ends>>

Parked  == {c \in Callers : call[c] = "parked"}
InHand  == IF pc \in {"send", "evict", "count", "resend"} THEN 1 ELSE 0

QueueInit ==
  /\ pc = "recv" /\ cur = 0
  /\ ch = <<>> /\ closed = FALSE
  /\ err = nil /\ source = nil /\ ends = {}
  /\ dropped = 0
  /\ call = [c \in Callers |-> "idle"]
  /\ arrived = 0 /\ taken = <<>> /\ evicted = <<>>

-----------------------------------------------------------------------------
\* Mutants: plausible bugs, each caught by a property below.

HasRoomOffByOne == Len(ch) <= Capacity

HasRoomReserve == Len(ch) < Capacity - 1

SourceEndForgetsErr(e) ==
  /\ pc = "recv"
  /\ source' = e
  /\ pc' = "close"
  /\ UNCHANGED <<cur, ch, closed, err, dropped, call, arrived, taken, evicted, ends>>

PushSendBlocks ==  \* s.ch <- it without a default
  /\ pc = "send"
  /\ Len(ch) < Capacity \/ Parked # {}
  /\ pc' = "recv"
  /\ \/ \E c \in Parked : /\ call' = [call EXCEPT ![c] = "idle"]
                          /\ taken' = Append(taken, cur)
                          /\ ch' = ch
     \/ /\ Parked = {}
        /\ ch' = Append(ch, cur)
        /\ UNCHANGED <<call, taken>>
  /\ UNCHANGED <<cur, closed, err, dropped, arrived, evicted, source, ends>>

PushEvictNewest ==
  /\ pc = "evict"
  /\ ch # <<>>
  /\ evicted' = Append(evicted, ch[Len(ch)])
  /\ ch' = SubSeq(ch, 1, Len(ch) - 1)
  /\ pc' = "count"
  /\ UNCHANGED <<cur, closed, err, dropped, call, arrived, taken, source, ends>>

PushEvictUncounted ==
  /\ pc = "evict"
  /\ ch # <<>>
  /\ evicted' = Append(evicted, Head(ch))
  /\ ch' = Tail(ch)
  /\ pc' = "resend"
  /\ UNCHANGED <<cur, closed, err, dropped, call, arrived, taken, source, ends>>

PushEvictKeeps ==  \* counts a drop without making room
  /\ pc = "evict"
  /\ ch # <<>>
  /\ pc' = "count"
  /\ UNCHANGED <<cur, ch, closed, err, dropped, call, arrived, taken, evicted,
                 source, ends>>

PushEvictNothingCounts ==  \* the default of the eviction select counts a drop too
  /\ pc = "evict"
  /\ ch = <<>>
  /\ dropped' = dropped + 1
  /\ pc' = "resend"
  /\ UNCHANGED <<cur, ch, closed, err, call, arrived, taken, evicted, source, ends>>

CloseLeavesParked ==
  /\ pc = "close"
  /\ closed' = TRUE
  /\ pc' = "done"
  /\ UNCHANGED <<cur, ch, err, dropped, call, arrived, taken, evicted, source, ends>>

NextSeesClosedEarly(c) ==  \* looks at closed before the buffer
  /\ call[c] = "idle"
  /\ closed
  /\ call' = [call EXCEPT ![c] = "released"]
  /\ UNCHANGED <<pc, cur, ch, closed, err, dropped, arrived, taken, evicted,
                 source, ends>>

-----------------------------------------------------------------------------
\* drain: recv returned bytes that decode to an item.
Recv ==
  /\ pc = "recv"
  /\ arrived < MaxArrivals
  /\ arrived' = arrived + 1
  /\ cur' = arrived + 1
  /\ pc' = "send"
  /\ UNCHANGED <<ch, closed, err, dropped, call, taken, evicted, source, ends>>

drainError(e) == IF e = {EOF} THEN {EOF} ELSE mapTerminalError(e)

\* drain: recv failed; s.err is set, then the deferred close runs.
SourceEnd(e) ==
  /\ pc = "recv"
  /\ source' = e
  /\ err' = drainError(e)
  /\ pc' = "close"
  /\ UNCHANGED <<cur, ch, closed, dropped, call, arrived, taken, evicted, ends>>

Close ==
  /\ pc = "close"
  /\ closed' = TRUE
  /\ call' = [c \in Callers |-> IF call[c] = "parked" THEN "released" ELSE call[c]]
  /\ pc' = "done"
  /\ UNCHANGED <<cur, ch, err, dropped, arrived, taken, evicted, source, ends>>

HasRoom == Len(ch) < Capacity

\* select { case s.ch <- it: default: otherwise }
SendOrElse(otherwise) ==
  \/ \E c \in Parked :
       /\ call' = [call EXCEPT ![c] = "idle"]
       /\ taken' = Append(taken, cur)
       /\ pc' = "recv"
       /\ UNCHANGED <<ch, dropped>>
  \/ /\ Parked = {}
     /\ HasRoom
     /\ ch' = Append(ch, cur)
     /\ pc' = "recv"
     /\ UNCHANGED <<call, taken, dropped>>
  \/ /\ Parked = {}
     /\ ~HasRoom
     /\ otherwise
     /\ UNCHANGED <<ch, call, taken>>

PushSend ==
  /\ pc = "send"
  /\ SendOrElse(pc' = "evict" /\ UNCHANGED dropped)
  /\ UNCHANGED <<cur, closed, err, arrived, evicted, source, ends>>

\* select { case <-s.ch: s.dropped.Add(1) default: }, the receive ...
PushEvict ==
  /\ pc = "evict"
  /\ ch # <<>>
  /\ evicted' = Append(evicted, Head(ch))
  /\ ch' = Tail(ch)
  /\ pc' = "count"
  /\ UNCHANGED <<cur, closed, err, dropped, call, arrived, taken, source, ends>>

\* ... its default, when callers emptied the queue meanwhile ...
PushEvictNothing ==
  /\ pc = "evict"
  /\ ch = <<>>
  /\ pc' = "resend"
  /\ UNCHANGED <<cur, ch, closed, err, dropped, call, arrived, taken, evicted,
                 source, ends>>

\* ... and the count.
PushCount ==
  /\ pc = "count"
  /\ dropped' = dropped + 1
  /\ pc' = "resend"
  /\ UNCHANGED <<cur, ch, closed, err, call, arrived, taken, evicted, source, ends>>

PushResend ==
  /\ pc = "resend"
  /\ SendOrElse(pc' = "recv" /\ dropped' = dropped + 1)
  /\ UNCHANGED <<cur, closed, err, arrived, evicted, source, ends>>

-----------------------------------------------------------------------------
\* Next: the receive case is ready.  A call whose context is already done may
\* return ctx.Err() instead, which changes nothing.
NextTakes(c) ==
  /\ call[c] = "idle"
  /\ ch # <<>>
  /\ taken' = Append(taken, Head(ch))
  /\ ch' = Tail(ch)
  /\ UNCHANGED <<pc, cur, closed, err, dropped, call, arrived, evicted, source, ends>>

NextParks(c) ==
  /\ call[c] = "idle"
  /\ ch = <<>>
  /\ ~closed
  /\ call' = [call EXCEPT ![c] = "parked"]
  /\ UNCHANGED <<pc, cur, ch, closed, err, dropped, arrived, taken, evicted,
                 source, ends>>

\* <-ctx.Done() fires while the caller is parked.
NextCancelled(c) ==
  /\ call[c] = "parked"
  /\ call' = [call EXCEPT ![c] = "idle"]
  /\ UNCHANGED <<pc, cur, ch, closed, err, dropped, arrived, taken, evicted,
                 source, ends>>

NextSeesClosed(c) ==
  /\ call[c] = "idle"
  /\ ch = <<>>
  /\ closed
  /\ call' = [call EXCEPT ![c] = "released"]
  /\ UNCHANGED <<pc, cur, ch, closed, err, dropped, arrived, taken, evicted,
                 source, ends>>

\* !ok: the caller reads s.err and returns it.
NextReturnsErr(c) ==
  /\ call[c] = "released"
  /\ ends' = ends \cup {err}
  /\ call' = [call EXCEPT ![c] = "idle"]
  /\ UNCHANGED <<pc, cur, ch, closed, err, dropped, arrived, taken, evicted, source>>

drain == PushSend \/ PushEvict \/ PushEvictNothing \/ PushCount \/ PushResend \/ Close

QueueNext ==
  \/ Recv
  \/ \E e \in Ends : SourceEnd(e)
  \/ drain
  \/ \E c \in Callers :
       \/ NextTakes(c) \/ NextParks(c) \/ NextCancelled(c)
       \/ NextSeesClosed(c) \/ NextReturnsErr(c)

QueueSpec == QueueInit /\ [][QueueNext]_queueVars

\* The scheduler runs drain and a caller that has been released; nobody owes
\* the program another datagram or another call of Next.
QueueFairSpec ==
  /\ QueueSpec
  /\ WF_queueVars(drain)
  /\ \A c \in Callers : WF_queueVars(NextReturnsErr(c))

-----------------------------------------------------------------------------
\* Every variable keeps its type and the channel never exceeds its capacity.
QueueTypeOK ==
  /\ pc \in {"recv", "send", "evict", "count", "resend", "close", "done"}
  /\ arrived \in 0 .. MaxArrivals
  /\ cur \in 0 .. MaxArrivals
  /\ ch \in Seq(1 .. MaxArrivals) /\ Len(ch) <= Capacity
  /\ closed \in BOOLEAN
  /\ dropped \in Nat
  /\ call \in [Callers -> {"idle", "parked", "released"}]
  /\ taken \in Seq(1 .. MaxArrivals)
  /\ evicted \in Seq(1 .. MaxArrivals)

Increasing(s) == \A i, j \in 1 .. Len(s) : i < j => s[i] < s[j]
Elements(s) == {s[i] : i \in 1 .. Len(s)}

\* The number of items that have left the queue for good.
Departed == arrived - InHand - Len(ch)

\* The buffer is a run of consecutive arrivals that ends with the newest one
\* push has finished with.
Contiguous == \A i \in 1 .. Len(ch) : ch[i] = Departed + i

\* s and t share the numbers 1 .. n out between them, each in order.
Partition(s, t, n) ==
  /\ Increasing(s) /\ Increasing(t)
  /\ Elements(s) \cup Elements(t) = 1 .. n
  /\ Len(s) + Len(t) = n

\* Items leave in arrival order, none twice and none in two ways: every item
\* that arrived is buffered, in push's hands, returned by Next or evicted, and
\* whatever left is older than whatever is buffered.
ExactlyOnceInOrder == Contiguous /\ Partition(taken, evicted, Departed)

\* Dropped counts exactly the evicted items, except while push is between
\* taking one out and adding one to the counter.
DroppedIsEvicted ==
  dropped = Len(evicted) - (IF pc = "count" THEN 1 ELSE 0)

\* push: "This is the only producer, so the retry cannot fail."
RetryCannotFail == pc = "resend" => HasRoom \/ Parked # {}

\* Next reports the end only when every item that arrived was returned or
\* evicted, so nothing buffered at a close is lost.
EndAfterDrain ==
  (ends # {} \/ \E c \in Callers : call[c] = "released") =>
    /\ pc = "done"
    /\ Elements(taken) \cup Elements(evicted) = 1 .. arrived

\* Every caller gets the same error, never nil; it is io.EOF only if the source
\* said so, and an application close keeps its code ("never collapsed to io.EOF").
EndErrorFaithful ==
  \A e \in ends :
    /\ e = err
    /\ e # nil
    /\ EOF \in e => EOF \in source
    /\ \A a \in source : a.kind = AppKind => TerminalError(a.code) \in e

\* A caller is told to retry unchanged exactly after a quota close, and to change
\* its credential exactly after an unauthenticated one (CloseInfo.Retryable).
ReconnectDecision ==
  \A e \in ends :
    /\ Retryable(e) <=> AppError(3) \in source
    /\ NeedsCredentialChange(e) <=> AppError(2) \in source

\* push never waits: whatever callers do, drain gets back to the transport
\* (or finishes), so quic-go's own 128-datagram buffer keeps being emptied.
DrainNeverStalls == pc # "recv" ~> pc \in {"recv", "done"}

\* When the source ends, every caller that is in Next returns.
EndReleasesCallers == \A c \in Callers : pc = "close" ~> (closed /\ call[c] = "idle")

-----------------------------------------------------------------------------
(***************************************************************************)
(* Refinement.  From the moment push has taken the oldest item out (or     *)
(* found none) until it sends again, the abstract queue already holds the  *)
(* new item.                                                               *)
(***************************************************************************)
Swapped == pc \in {"count", "resend"}

Fifo == INSTANCE LossyFifo WITH
  queue   <- IF Swapped THEN Append(ch, cur) ELSE ch,
  put     <- IF pc \in {"send", "evict"} THEN arrived - 1 ELSE arrived,
  out     <- taken,
  lost    <- evicted,
  pressed <- pc = "evict",
  end     <- err,
  told    <- ends

\* The handoff queue is a bounded lossy FIFO: it loses only its oldest item,
\* only to a newer one, and only if it was found full since that one arrived.
ImplementsLossyFifo == Fifo!Spec
=============================================================================
