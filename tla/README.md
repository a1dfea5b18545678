# A verification of pulse-go

TLA+ models of the Pulse QUIC client SDK (`src/`), the TLC runs that check them
on small instances, and TLAPS proofs that extend the safety results to every
capacity, word size, field size and number of callers, options, frames and
transactions.

Line numbers are those of `src/pulse.go` unless another file is named.

## 1. Inventory

pulse-go is a client library.  A program calls `Connect`, makes one initial
subscription on the connection (`SubscribeSigFirst` or `SubscribeFull`), reads
items with `Next`, and may change the filter with `UpdateFilter`.  The server
and quic-go are outside the repository.

| Component | State | Operations | Interacts with |
|---|---|---|---|
| Gap accounting (572-631) | watermark `lastSeq`/`haveLast`, atomic `gaps` | `noteItemSeq`, `noteHeartbeatSeq`, `Gaps` | called by drain for every decoded datagram |
| Sig-first queue (443-558, 633-690) | channel `ch`, atomic `dropped`, `err` | `drain` and `push` (one goroutine), `Next`, `Dropped`, `Queued`, `QueueStats` (any goroutine) | quic-go's datagram buffer, the callers |
| Client and control channel (146-423) | `subscriptionTaken`; one QUIC stream per message | `Connect`, `ConnectWithToken`, `Close`, `claimSubscription`, `controlRoundTrip`, `readAck`, `checkInitialAck`, `checkUpdateAck`, `UpdateFilter` | the server |
| Full-tx stream (692-863) | the receive stream, its read deadline, the last heartbeat | `SubscribeFull`, `verifyPreamble`, `Next`, `Heartbeat` | control channel, frame codec, server |
| Error classification (`errors.go`) | none | `mapTerminalError`, `ClassifyCloseCode`, `CloseInfoFromError`, `Retryable` | every component above |
| Frame codec (`frame.go` 1-531) | the cursor of one call | `DecodeFrame`, `decodeFullTxPrefix`, `parseTLVs`, the encoders | full-tx stream |
| Datagram codec (`frame.go` 533-629) | none | `DecodeDatagram`, the encoders | drain |
| Options and TLS (`options.go`) | configuration; what it keeps of the caller's buffers | `With*`, `applyOptions`, `newTLSConfig` | `Connect` |
| Filter and message (29-109) | none | `Accounts`, `WithVote`, `MarshalJSON` | control channel |
| Derived fields (`derive.go`) | none | `FeePayer`, `ProgramIDs`, `StaticWritableAccounts`, compute-budget readers | the caller |

How they interact.  `SubscribeSigFirst` claims the connection, performs a
control round trip and starts `drain`.  `drain` calls the datagram codec, then
the gap accounting, then `push`; `Next` and the statistics run in the callers'
goroutines and share the channel and three counters with it.  `SubscribeFull`
makes the same claim and round trip, accepts a stream, and leaves all later
reading to the goroutine that calls `Next`.  `UpdateFilter` runs the round trip
again beside all of that.

What is hard, and what makes each part correct:

- **Queue.**  Three non-blocking selects of `push` interleave with receivers
  that park, cancel and take.  Items must leave once, in order; a loss must be
  the oldest item and be counted; the end must follow the last item and carry
  the right error; `drain` must not wait for anybody.
- **Gap accounting.**  Datagrams are lost, reordered and duplicated, heartbeats
  race with items, and the arithmetic is unsigned.  `Gaps()` must be the number
  of missing items (plus the late ones, which are documented never to be
  refunded), must not go back and must not wrap.
- **Control channel.**  Concurrent subscribers; an answer, a close, a deadline
  and a cancellation race; an abandoned message may still be applied.  Success
  must mean acceptance, a refusal must keep its code, a call must return.
- **Full-tx stream.**  The stream may end at any byte, in three ways, under a
  deadline that must exist first and be gone later.
- **Frame codec.**  Counts and lengths come from the frame: no read past the
  end, nothing valid refused, nothing left over.  The encoders narrow numbers
  without a check: a wrapped one must not decode to another transaction.
- **Datagram codec.**  Known types may grow: what is longer must be read, what
  is unknown or too short skipped, and neither may become a gap.
- **Options.**  Some are copied when made, some when applied, and conflicts
  depend on options still to come.  The token must reach a peer verified
  against what the caller gave, and nobody else.
- **Derived fields.**  The header's counts are the sender's: bounds saturate.
  Of several budget instructions the first that sets a value decides it.

`PROJECT.json` lists each hazard at its line with the properties that cover it.

## 2. Modules

| Module | Models | Built on |
|---|---|---|
| `PulseErrors` | errors as the set of errors in their chain; `errors.go` | |
| `GapTracker` | gap accounting over machine words `0 .. MaxU64` | |
| `LossyFifo` | abstract: a bounded FIFO that may lose its oldest item to a newer one | |
| `SigFirstQueue` | drain, push, Next | `PulseErrors`, refines `LossyFifo` |
| `SigFirstStats` | one call of `QueueStats` beside the queue | `SigFirstQueue` |
| `DatagramCodec` | the datagrams of the sig-first tier | |
| `SigFirstFeed` | server, network, datagrams, gap accounting and queue together | `DatagramCodec`, `GapTracker`, `SigFirstQueue` |
| `PulseConnect` | options, TLS configuration, dialling, and the content of messages | |
| `PulseControl` | claim, round trips, acknowledgements, updates, close | `PulseErrors` |
| `FullStream` | the full-tx stream from the acknowledgement on | `PulseErrors` |
| `FrameDecoder` | one call of `DecodeFrame`, read by read | |
| `TxCodec` | the values of transaction frames: encoders and decoders | `TxDerive` |
| `TxDerive` | `derive.go` as operators, with their reference definitions | |
| `GapTrackerProofs`, `SigFirstQueueProofs` (with `SigFirstStats`), `SigFirstFeedProofs`, `PulseControlProofs`, `PulseConnectProofs`, `FullStreamProofs`, `FrameDecoderProofs`, `TxCodecProofs` (with `TxDerive`) | theorems | their component and TLAPS |
| `MC*` | values for TLC | |

Each operator keeps the name of the Go function it stands for; an operator
marked as a mutant is a plausible bug, kept beside the definition it would
replace, that breaks one property.  `PROJECT.json` pairs them.

How state and actions correspond to the code:

- **SigFirstQueue.**  `ch`, `closed`, `err` and `dropped` are the fields of
  `SigFirstSub` (`closed` is the channel's own flag).  `pc` is drain's place:
  `recv`, then the three selects of push (`send`, `evict`, `resend`), the
  counter between them (`count`), the deferred `close`.  A caller of Next is
  `idle`, `parked` in the select, or `released` by the close and about to read
  `s.err`.  As in the Go runtime, a send goes directly to a parked receiver, a
  receiver takes from the buffer first, and a close wakes every parked one.
  `taken`, `evicted`, `arrived`, `source` and `ends` are history.
- **GapTracker.**  One step per datagram.  Go's unsigned operators are `%`
  operators on the word size, so a wrap is a visible wrong value.
- **SigFirstFeed.**  drain's `noteItemSeq` and the start of push are one step,
  since no other goroutine reads the watermark.  A datagram is the sequence of
  its fields and goes through `EncodeDG*` and `DecodeDatagram`; the server may
  append fields to those of one type and send some that drain skips.  Loss also
  stands for datagrams that quic-go dropped.  `lost` is history.
- **DatagramCodec.**  Lengths are counted in fields, not bytes: a datagram cut
  within a field is one that ends before it.
- **PulseConnect.**  `pin`, `pool` and `list` are the program's own variables,
  which it may overwrite; a value the client only points to is `Shared` and is
  read when used, so copying too late, or not at all, shows.  `pc` is `idle`
  (options are made), `dial` (the handshake), `up`, `open` (a message is
  marshalled and its stream being opened) or `failed`.  A peer is a certificate
  with its CA, name and key, and a protocol; hosts and ports are one value.
  `asked`, `pinMade`, `meant` and `msgMeant` are history.  A message is its
  lists as sets, its vote, tier and fields; the nil that the caller may pass for
  the fields is a value of its own.  The claim and the answers are left to
  `PulseControl`.
- **PulseControl.**  A call is `idle`, `open` (OpenStreamSync), `write`, `read`
  or `done`.  One deadline per call (`late`) bounds all three.  The server may
  send every answer that a check of the client distinguishes; it closes with
  the code of its error envelope once it has sent one, as the comment at
  342-354 says.  The connection may be lost at any moment, after that envelope
  too (`ConnectionLost`), and a stream stopped or reset while the connection
  stays up (`StreamFails`).  What can hide the code of a refusal from its call is
  therefore its deadline, the client's own Close, a lost connection and a failed
  stream (`reset`, history): `RefusalKeepsCode` claims it in all other cases.
  Cancellation of the context is seen only while opening, as in the code.
- **FullStream.**  Preamble, prefix and body arrive in two halves each; a frame
  is its kind.  An empty body needs no bytes: it is there with its prefix
  (`After`), and `DecodeFrame` refuses it.  Cancelling the context ends
  SubscribeFull while it accepts the stream (`AcceptCancelled`).  `got` is the progress of `io.ReadFull`.  A stream may end with
  EOF, a transport failure or an application close; after the last two quic-go
  refuses further reads even if data is buffered.
- **FrameDecoder.**  The cursor, the section and the counters of the loops.  A
  byte is chosen when it is read, which is exact because the decoder reads
  every byte once.  Sizes of fields are constants.
- **TxCodec.**  Bytes are digits of a small base, so that two-digit lengths wrap
  within reach.  The decoder is a function of the bytes, in which a read past
  the end moves the cursor beyond it and so fails every later read; the
  stepwise account of the same code is `FrameDecoder`.  The four uint32 fields
  the encoder narrows to a byte come back narrowed, and a versioned byte above
  1 is accepted though never written: the properties say so.  `FullTx` is the Go
  type; lists are read by `reads`, a function of the number of elements.
- **TxDerive.**  Each function has a reference definition: `FeePayerLeads`;
  `WritableIsHeaderSplit`, with the header read as signed integers
  (`WritableIndex`), for the saturating loops; `ProgramsInFirstUseOrder`; and
  `BudgetsAsSet`, the bytes after the discriminator in the first instruction that
  sets the value.  Prices and limits are kept as their bytes.

## 3. Runs

| Run | Question | Bounds |
|---|---|---|
| `gap_tracker` | is the accounting exact in any order of items and heartbeats? | words 0..4: first, middle and last values and the sentinel are all distinct |
| `sig_first_queue` | the ten properties of the queue, with the refinement of `LossyFifo` | capacity 2, two callers, six arrivals: three generations of evictions; one end of each class of error |
| `queue_stats` | can the sum of what `QueueStats` returns exceed what has arrived? | as above, five arrivals |
| `queue_stats_snapshot` | is it "a point-in-time snapshot"? It is not | |
| `sig_first_feed` | is every loss above the first number observed, up to the watermark, counted end to end, and nothing else? | three numbers, capacity 1, one caller: gap, eviction and late arrival occur together; servers that extend items or heartbeats; one skipped datagram in flight at a time |
| `connect` | who gets the token, what is dialled, what do messages say? | two options of twelve kinds and values, two calls of Connect, two messages; six peers, one wrong in each way |
| `tx_codec` | do encoders, decoders and derived fields agree? | base 6: every header with 0 to 3 keys, pairs of sixteen instructions, lists at 36 elements, the cap; every one-byte change, truncation and extension |
| `pulse_control` | claim, acknowledgements, deadlines, updates, failing streams and connections | two subscribers, two updates, two close codes |
| `full_stream` | what does each stream make Next return? | up to three frames of six kinds, two errors |
| `bad_frame_at_boundary`, `oversized_frame` | is ErrBadFrame what its comment says? It is not | two frames, one error |
| `frame_decoder` | does the decoder accept exactly the layout? | frames up to 23 bytes; scaled fields; all counts and lengths 0..2 |

Deadlock checking is off in `pulse_control`, `connect`, `full_stream`,
`frame_decoder` and `tx_codec` only: calls finish, the program's budget of calls
runs out, streams end and a decoder returns, and nothing is left to do.

**Fairness.**  The queue: drain's own steps and a released caller run (the Go
scheduler); nobody owes another datagram or another call.  Control channel:
time passes and a blocking operation whose outcome is decided returns; nothing
is assumed of the server, of stream credit or of flow control, so the deadline
alone makes `EveryCallReturns` true.  Full stream: the same, and nobody need
cancel.  Frame decoder: a
function runs.

**Disagreements between code and comments** (runs that are expected to find a
violation):

1. `QueueStats` (642) is described as a point-in-time snapshot; it reads two
   values at two moments (652-657) and may return a pair that never held.
   An item queued at the one and evicted before the other is in both fields.
   Their sum still never exceeds what has arrived (`queue_stats`), because the
   arrival that pushed the item out is in neither.
2. `ErrBadFrame` (`frame.go` 8) is for bytes that do not match the layout; Next
   also returns it, without its cause, when the connection is lost exactly
   between two frames (832).
3. The same comment names oversized frames; Next reports those by another,
   unrelated error (835-837).

## 4. Proofs

Every safety invariant of section 3 is proved for all values of the constants.
So are the action property (`GapsNeverRetracted`) and the refinements
(`ImplementsLossyFifo`, `PartsUndisturbed`).  Each strengthened invariant was first checked by
TLC on the bounds of its run.

**`GapTrackerProofs`**, for every `MaxU64`: `WatermarkIsMax`, exact accounting
(`GapsAccounting`), monotonicity.  The inductive invariant `GapInv` joins the two
invariants with types and `LateInWindow`: the first number observed was
observed, and late items lie in the window.  `GapsAccounting` alone is not
inductive.  A step's charge is the number of newly missing items only if the
watermark is the maximum of what was observed, and a wrap is excluded only
because missing and late numbers are disjoint parts of a window that is itself
no larger than the word.

**`SigFirstQueueProofs`**, for every capacity of at least one, every set of
callers and every set of ends: the type invariant, the five other safety
invariants, the reconnect decision, and that `SigFirstQueue` implements
`LossyFifo`.  The inductive invariant has three parts, proved one after the
other.  `Shape`: types, what push holds in each of its places, room after an
eviction (the retry cannot fail because the eviction made room and nobody else
sends), and no parked caller beside an item or a close.  `Accounts`: the buffer
is the newest run of arrivals and everything older was returned or evicted,
once.  `Endings`: the error is set before the close, and a caller is released
only on an empty, closed channel.  For the refinement, the abstract queue holds
the new item from the moment push has taken the oldest out, so the eviction is
the abstract replacement and the second send is a stutter.

The same module proves `StatsNeverOvercount` of `QueueStats`.  The two reads are
not atomic, so `StatsInv` must say what the moves between them can do: an
eviction after the depth was read may count as dropped an item that the depth
holds.  It is paid for, because push evicts at most once for an arrival
(`MayEvict`) and that arrival is not in the depth.

**`SigFirstFeedProofs`**, for every word size, capacity and network: `NoSilentLoss`,
`GapsAreLosses`, and that the composition's steps are steps of its two parts
(`PartsUndisturbed`), so that the invariants of both carry over instead of being
proved again.  `FeedInv` adds what joins them: `InFlight` (a datagram on the way
was encoded from a number that was assigned, so it decodes to that number
whatever fields a newer server appended), `Whereabouts` (an assigned number is on
the way, lost, or received) and `Carried` (which arrival of the queue carries
which number).

**`PulseControlProofs`**, for any number of calls and codes: types,
`OneInitialMessage`, `SuccessMeansAccepted`, `RefusalKeepsCode`,
`LastAckIsActive`.  `ControlInv` follows one message through its life:
`Conversation` (an answer only to a message that was written, written only by a
call that got past its stream), `OneClaim` (all subscription calls but the
claimant are over or not begun), `OneCode` (one code per connection, that of the
server's refusal), and `Sequential` (as long as no calls overlapped and none was
given up, the filter is that of the last acknowledged call, or of the one whose
acknowledgement is on the way).  Without `OneCode` a close could arrive with
another code than the envelope that the same call may read first; it also says
that a call which is over in time has its answer, unless its stream or the
connection is down.

**`PulseConnectProofs`**, for every list of options, any number of connections
and messages and every set of peers: `TokenToVerifiedPeer`, `DialledOnlyIfValid`,
`MessageAsBuilt`.  The lemma `LastOptionWins` says what `applyOptions` computes
from a list of any length: the last option of a kind, or the default.
`ConnectInv` then carries it across the program's writes to its own buffers:
`PinIsLast` (the pin was copied when the option was made), `AsAsked` (the TLS
configuration is what the options of that call ask for), `PeerVerified`,
`FilterInv` and `Marshalled` (what a filter and a message copied, and what they
only point to).

**`FullStreamProofs`**, for any stream and any ends: types, `ReaderAccounting`,
`ErrorsHaveCauses`, `CloseKeepsCode`.  `StreamInv` adds `Alignment`: at each call
of Next the client stands at the start of a frame, unless the stream has ended
inside one and the caller was told (`Severed`), or an oversized frame was
refused.  Every other claim rests on it, since a reader out of step could return
anything.  `Reports` counts: every malformed frame that was passed was reported.
`Arrivals` joins them: an empty frame arrives whole (`WholeFrames`), so that no
stream ends within its body.

**`FrameDecoderProofs`**, for frames, fields, counts and lengths of every size:
the cursor stays inside the frame (`TypeOK`), `VerdictIsExact`,
`AllocationBounded`.  `FrameInv` adds `LengthsAgree` (the bytes consumed, those
announced and the counts still due add up to the least length that the verdict
is measured by) and `AllocationCovered` (memory is only allocated for elements
that are behind the cursor or whose least size was seen to be there).

**`TxCodecProofs`**, for every base, field sizes and transactions:
`DerivedFieldsAgree`.  `PrefixReads` shows that whatever `decodeFullTxPrefix`
accepts, from any bytes, is of type `FullTx`: each read that stays inside the
bytes has a value of its type and moves forward, so one check at the end speaks
for all of them.  `DerivedOfAnyTx` then holds of all transactions, also those
whose header counts exceed the keys: the fee payer is the first key, and the
first of the writable accounts if it is a writable signer (`FeePayerFirst`);
`StaticWritableAccounts` is the header's set, account by account; `ProgramIDs` is
in the order of first use; and price and limit are the bytes of the first
instruction that sets each (`BudgetOfFirst`), of a program of that list.

The same module proves that decoding undoes encoding (`RoundTrip`, of
`EncodeThenDecode`) and that the decoder is strict: `CanonicalFrame` for any bytes,
and from it `Canonical` (`BodyIsCanonical`) for the frames a run decodes, those
encoded and those altered in a byte or in their length.  The state part is small: `HistoryInv` says that a frame is
that of its input until a step alters it, and that what was decoded is what the
frame decodes to.  The rest is about the bytes, in two directions.

- What was written is read back.  `Holds(b, off, s)`: the bytes `s` are those of
  `b` from `off` on.  `TakeWritten`, `LengthWritten`, `PartWritten`,
  `InstructionWritten`, `LookupWritten` and `ListWritten` read each kind of
  field from where it is held, `PrefixWritten` the whole body, `TrailerWritten`
  the records.  A length or count wraps only when the body is over the cap,
  because what is held lies within the body, behind its two bytes of length, and
  each element has at least one byte; the same bound passes the test of `count`
  (`Fits`).  That is why `EncodeThenDecode` needs no bound on the input.
- What was read is what would be written.  `Exact(b, off, r, s)`: the read went
  from `off` over exactly the bytes `s`.  `PartExact`, `InstructionExact`,
  `LookupExact` and `ListExact` lead to `PrefixExact`, where `ExactBut` leaves
  out the versioned byte, the only one with several accepted values.

Both need the offset of an element of a list, the sum of the lengths before it:
`FlattenHolds` follows `FlattenSeq` and the bytes at once.  The trailer is read
from its end in the definition of `parseTLVs`; `ParseDefined` shows that the
recursion is defined, and `RecordsWritten` is applied to the second record, then
to the first.

**Induction over data.**  The induction theorems of the library take an operator
as parameter, which the provers cannot instantiate.  What a loop computes
(`configs`, `outs`, `reads`, `parseTLVs`, the library's `FlattenSeq`) is proved by least
counterexample instead, from the well-foundedness of `<` on the naturals
(`LeastElement`, `Induction`).  For this, these loops are recursive functions of
the number of iterations.

**Assumptions.**  Those on constants are named where the constants are declared,
and TLC evaluates each of them: `CapacityAssumption` is what
`WithSigQueueCapacity` enforces; `CallsAssumption` and `CloseCodesAssumption`
separate the two kinds of calls and say that a refusal has a code;
`EndsAssumption` of `FullStream` says that quic-go returns an error with at most
one application error in its chain and none of this SDK's own; `ValuesAssumption`
that nil differs from all values; `VersionsAssumption` and `OthersAssumption`
that a newer server appends fields and that the datagrams drain skips are those
the decoder refuses; `InputsAssumption` that what is encoded has the Go type;
`NoneAssumption` and `BudgetProgramAssumption` that the value for "absent" is not
a key; `ErrBadFrameAssumption` that an error is not a list of records; the others that sizes and bounds are numbers.  Proofs rest on nothing
else.

**Only model-checked.**  Liveness (`DrainNeverStalls`, `EndReleasesCallers`,
`EveryCallReturns`, `CallsReturn`, `DecodeTerminates`), which is out of the
prover's reach.  The three runs that are expected to find a violation are
counterexamples.

## 5. Not modelled

TLS itself (chains, names and ALPN are a predicate on peers), QUIC's own
retransmission and flow control, and the syntax of JSON.  In the control
channel, a partly written message is taken not to have been sent.  In the
full-tx stream, concurrent callers of `FullSub.Next` (not promised by the API)
and reading on after an oversized frame, where the reader is inside a frame and
what it reads is arbitrary; a stream that the server has ended is taken to stay
so, although its connection may close before the end was read.  The two numbers
of a heartbeat frame are checked for width only: the client computes nothing
from them, and one without a `HighestSeq` record reads as 0.  Whether data races
occur on fields that only one goroutine writes is not a question of these
models; the order in which `err` is set and the channel closed is
(`EndErrorFaithful`).  The two programs under `src/examples/` only call the API.

## 6. Plan

The components are modelled and their safety invariants proved.  What could
follow: `FrameDecoder` and `TxCodec` are two accounts of the same decoder, one of
its steps and one of its values.  Each is proved against the code's promises; a
proof that they give the same verdict on the same bytes would join them.
