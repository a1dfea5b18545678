----------------------------- MODULE FullStream -----------------------------
(***************************************************************************)
(* The full-tx stream of a Client, from the acknowledged subscription on:  *)
(* SubscribeFull accepts a unidirectional stream and verifies its preamble *)
(* under one deadline, clears it, and Next then reads length-prefixed      *)
(* frames until a transaction or an error.                                 *)
(*                                                                         *)
(* The stream is counted in halves: the preamble, each frame's length      *)
(* prefix and each frame's body arrive in two halves, so that a stream may *)
(* end before, inside or after each of them; a body of no bytes is there   *)
(* with the prefix that announces it.  What a frame decodes to is its      *)
(* kind; DecodeFrame itself is not part of this module.                    *)
(***************************************************************************)
EXTENDS PulseErrors, Sequences, SequencesExt

CONSTANTS
  MaxFrames,  \* bound on the frames of a stream
  Ends,       \* how a stream may end
  MaxErrors   \* bound on the errors after which the caller goes on calling

ASSUME BoundsAssumption == MaxFrames \in Nat /\ MaxErrors \in Nat \ {0}
\* quic-go returns an error, with at most one application error in its chain,
\* and never one of this SDK's own.
ASSUME EndsAssumption ==
  \A e \in Ends :
    /\ e # nil
    /\ ~IsTerminal(e)
    /\ \A a, b \in e : a.kind = AppKind /\ b.kind = AppKind => a = b

VARIABLES
  frames,     \* the kinds of the frames the server sends, in order
  goodMagic,  \* the server sends the wire-v2 preamble
  opened,     \* the server has opened the stream
  arrived,    \* halves that have arrived
  end,        \* the error the stream ended with, nil while it lasts
  pos,        \* halves the client has consumed
  got,        \* halves the io.ReadFull in progress has consumed
  armed,      \* the stream has a read deadline
  expired,    \* PreambleTimeout has passed since the subscription was accepted
  sub,        \* SubscribeFull: "accept", "preamble", "clear", "live", "failed"
  next,       \* Next: "idle", "header" or "body"
  subErr,     \* the error SubscribeFull returned
  errs,       \* the errors Next has returned, in order
  returned,   \* the frames Next has returned, in order
  heartbeat   \* FullSub.heartbeat: the frame it was stored from, 0 for none

streamVars == <<frames, goodMagic, opened, arrived, end>>
vars == <<streamVars, pos, got, armed, expired, sub, next, subErr, errs, returned, heartbeat>>

\* What DecodeFrame refuses: a body of length zero among it.
Malformed == {"malformed", "empty"}
Kinds == Malformed \cup {"tx", "heartbeat", "unknown", "oversized"}

ErrBadPreamble == Plain("ErrBadPreamble")
TooLarge == Plain("full-tx frame too large")
Deadline == Plain("deadline exceeded")

PreambleLen == 2
FrameLen == 4
Total == PreambleLen + FrameLen * Len(frames)

\* The frame whose first half is next, or is being read.
Current == ((pos - PreambleLen) \div FrameLen) + 1
AtBoundary == (pos - PreambleLen) % FrameLen = 0

\* The end of the half that begins at p.  The last of an empty frame's prefix
\* is the last of the frame.
EndsEmpty(p) ==
  /\ p >= PreambleLen
  /\ (p - PreambleLen) % FrameLen = 1
  /\ frames[((p - PreambleLen) \div FrameLen) + 1] = "empty"
After(p) == IF EndsEmpty(p) THEN p + 3 ELSE p + 1

TypeOK ==
  /\ frames \in Seq(Kinds) /\ Len(frames) <= MaxFrames
  /\ goodMagic \in BOOLEAN /\ opened \in BOOLEAN
  /\ armed \in BOOLEAN /\ expired \in BOOLEAN
  /\ arrived \in 0 .. Total /\ pos \in 0 .. arrived /\ got \in 0 .. 1
  /\ sub \in {"accept", "preamble", "clear", "live", "failed"}
  /\ next \in {"idle", "header", "body"}
  /\ next # "idle" => sub = "live"
  /\ Len(errs) <= MaxErrors
  /\ returned \in Seq(1 .. MaxFrames)
  /\ heartbeat \in 0 .. MaxFrames

Init ==
  /\ frames \in UNION {[1 .. n -> Kinds] : n \in 0 .. MaxFrames}
  /\ goodMagic \in BOOLEAN
  /\ opened = FALSE /\ arrived = 0 /\ end = nil
  /\ pos = 0 /\ got = 0 /\ armed = FALSE /\ expired = FALSE
  /\ sub = "accept" /\ next = "idle"
  /\ subErr = nil /\ errs = <<>>
  /\ returned = <<>> /\ heartbeat = 0

-----------------------------------------------------------------------------
\* The server and the network, external.
PeerOpens ==
  /\ ~opened
  /\ end = nil
  /\ opened' = TRUE
  /\ UNCHANGED <<frames, goodMagic, arrived, end, pos, got, armed, expired, sub, next,
                 subErr, errs, returned, heartbeat>>

Arrive ==
  /\ opened
  /\ end = nil
  /\ arrived < Total
  /\ arrived' = After(arrived)
  /\ UNCHANGED <<frames, goodMagic, opened, end, pos, got, armed, expired, sub, next,
                 subErr, errs, returned, heartbeat>>

StreamEnds(e) ==
  /\ end = nil
  /\ e = {EOF} => opened
  /\ end' = e
  /\ UNCHANGED <<frames, goodMagic, opened, arrived, pos, got, armed, expired, sub, next,
                 subErr, errs, returned, heartbeat>>

TimePasses ==
  /\ ~expired
  /\ expired' = TRUE
  /\ UNCHANGED <<streamVars, pos, got, armed, sub, next, subErr, errs, returned, heartbeat>>

-----------------------------------------------------------------------------
\* The outcomes of one Read.  quic-go refuses every Read once the stream was
\* reset or its connection ended, and delivers all data before a clean end.
DataReady == arrived > pos /\ end \in {nil, {EOF}}

Causes ==
  {e \in {end} \ {nil} : e = {EOF} => pos = arrived} \cup
  (IF armed /\ expired THEN {{Deadline}} ELSE {})

ReadDoneTooLong ==  \* mutant: counts the prefix into the length of the body
  DataReady /\ got = 1 /\ got' = 0 /\ pos' = pos + 2

\* io.ReadFull: one Read for each half; the second completes it.
ReadHalf == DataReady /\ got = 0 /\ got' = 1 /\ pos' = pos + 1
ReadDone == DataReady /\ got = 1 /\ got' = 0 /\ pos' = After(pos)
ReadFails == got' = 0 /\ UNCHANGED pos

CloseInfoOr(cause, otherwise) ==
  IF IsTerminal(mapTerminalError(cause)) THEN mapTerminalError(cause) ELSE otherwise

\* The error of verifyPreamble for a read that failed after n halves.
preambleError(cause, n) ==
  IF IsTerminal(mapTerminalError(cause))
    THEN mapTerminalError(cause) \cup (IF n = 0 THEN {} ELSE {ErrBadPreamble})
    ELSE IF cause = {EOF} THEN {ErrBadPreamble} ELSE cause

\* The errors of nextFrame for a failed read of a length prefix, and of a body.
headerError(cause, n) ==
  IF IsTerminal(mapTerminalError(cause))
    THEN mapTerminalError(cause) \cup (IF n = 0 THEN {} ELSE {ErrBadFrame})
    ELSE IF cause = {EOF} /\ n = 0 THEN {EOF} ELSE {ErrBadFrame}

bodyErrorBareClose(cause) ==  \* mutant: the close alone, as at a boundary
  CloseInfoOr(cause, {ErrBadFrame})

bodyError(cause) == {ErrBadFrame} \cup CloseInfoOr(cause, {})

-----------------------------------------------------------------------------
FailSubscribe(err) ==
  /\ sub' = "failed"
  /\ subErr' = err
  /\ UNCHANGED <<streamVars, armed, expired, next, errs, returned, heartbeat>>

AcceptUniStreamUnarmed ==  \* mutant: no deadline for the preamble
  /\ sub = "accept"
  /\ opened
  /\ sub' = "preamble"
  /\ UNCHANGED <<streamVars, pos, got, armed, expired, next, subErr, errs, returned, heartbeat>>

\* AcceptUniStream, under waitCtx, then SetReadDeadline(deadline).
AcceptUniStream ==
  /\ sub = "accept"
  /\ opened
  /\ sub' = "preamble"
  /\ armed' = TRUE
  /\ UNCHANGED <<streamVars, pos, got, expired, next, subErr, errs, returned, heartbeat>>

AcceptFails ==
  /\ sub = "accept"
  /\ \/ /\ end # nil /\ end # {EOF}
        /\ FailSubscribe(mapTerminalError(end))
     \/ /\ expired
        /\ FailSubscribe({Deadline})
  /\ UNCHANGED <<pos, got>>

\* The caller may cancel ctx; only AcceptUniStream notices.
AcceptCancelled ==
  /\ sub = "accept"
  /\ FailSubscribe({Plain("context canceled")})
  /\ UNCHANGED <<pos, got>>

verifyPreamble ==
  /\ sub = "preamble"
  /\ \/ /\ ReadHalf
        /\ UNCHANGED <<streamVars, armed, expired, sub, next, subErr, errs, returned, heartbeat>>
     \/ /\ ReadDone
        /\ goodMagic
        /\ sub' = "clear"
        /\ UNCHANGED <<streamVars, armed, expired, next, subErr, errs, returned, heartbeat>>
     \/ /\ ReadDone
        /\ ~goodMagic
        /\ FailSubscribe({ErrBadPreamble})
     \/ /\ ReadFails
        /\ \E cause \in Causes : FailSubscribe(preambleError(cause, got))

ClearDeadlineForgotten ==  \* mutant
  /\ sub = "clear"
  /\ sub' = "live"
  /\ UNCHANGED <<streamVars, pos, got, armed, expired, next, subErr, errs, returned, heartbeat>>

ClearDeadline ==  \* SetReadDeadline(time.Time{})
  /\ sub = "clear"
  /\ sub' = "live"
  /\ armed' = FALSE
  /\ UNCHANGED <<streamVars, pos, got, expired, next, subErr, errs, returned, heartbeat>>

SubscribeFull ==
  AcceptUniStream \/ AcceptFails \/ verifyPreamble \/ ClearDeadline

-----------------------------------------------------------------------------
\* Next.  After "too large" the reader is inside a frame and what it reads next
\* is arbitrary, so the caller is taken to stop there.
NextCalled ==
  /\ sub = "live"
  /\ next = "idle"
  /\ Len(errs) < MaxErrors
  /\ ~ Contains(errs, {TooLarge})
  /\ next' = "header"
  /\ UNCHANGED <<streamVars, pos, got, armed, expired, sub, subErr, errs, returned, heartbeat>>

Fail(err) ==
  /\ next' = "idle"
  /\ errs' = Append(errs, err)
  /\ UNCHANGED <<streamVars, armed, expired, sub, subErr, returned, heartbeat>>

ReadMore ==
  /\ next # "idle"
  /\ ReadHalf
  /\ UNCHANGED <<streamVars, armed, expired, sub, next, subErr, errs, returned, heartbeat>>

ReadHeader ==
  /\ next = "header"
  /\ ReadDone
  /\ \/ /\ frames[Current] = "oversized"
        /\ Fail({TooLarge})
     \/ /\ frames[Current] = "empty"  \* the body is read without a Read
        /\ Fail({ErrBadFrame})
     \/ /\ frames[Current] \notin {"oversized", "empty"}
        /\ next' = "body"
        /\ UNCHANGED <<streamVars, armed, expired, sub, subErr, errs, returned, heartbeat>>

HeaderFails ==
  /\ next = "header"
  /\ ReadFails
  /\ \E cause \in Causes : Fail(headerError(cause, got))

ReadBodyHeartbeatReturns ==  \* mutant: a heartbeat is returned like a transaction
  /\ next = "body"
  /\ ReadDone
  /\ next' = "idle"
  /\ returned' = Append(returned, Current)
  /\ heartbeat' = IF frames[Current] = "heartbeat" THEN Current ELSE heartbeat
  /\ UNCHANGED <<streamVars, armed, expired, sub, subErr, errs>>

ReadBody ==
  /\ next = "body"
  /\ ReadDone
  /\ \/ /\ frames[Current] = "tx"
        /\ next' = "idle"
        /\ returned' = Append(returned, Current)
        /\ UNCHANGED <<streamVars, armed, expired, sub, subErr, errs, heartbeat>>
     \/ /\ frames[Current] = "heartbeat"
        /\ next' = "header"
        /\ heartbeat' = Current
        /\ UNCHANGED <<streamVars, armed, expired, sub, subErr, errs, returned>>
     \/ /\ frames[Current] = "unknown"
        /\ next' = "header"
        /\ UNCHANGED <<streamVars, armed, expired, sub, subErr, errs, returned, heartbeat>>
     \/ /\ frames[Current] = "malformed"
        /\ Fail({ErrBadFrame})

BodyFails ==
  /\ next = "body"
  /\ ReadFails
  /\ \E cause \in Causes : Fail(bodyError(cause))

nextFrame == ReadMore \/ ReadHeader \/ HeaderFails \/ ReadBody \/ BodyFails

Next ==
  \/ PeerOpens \/ Arrive \/ TimePasses
  \/ \E e \in Ends : StreamEnds(e)
  \/ SubscribeFull \/ AcceptCancelled
  \/ NextCalled \/ nextFrame

Spec == Init /\ [][Next]_vars

\* Time passes, and a read whose outcome is decided returns.  Nothing is
\* assumed of the server, nor that the caller cancels.
FairSpec == Spec /\ WF_vars(TimePasses) /\ WF_vars(SubscribeFull) /\ WF_vars(nextFrame)

-----------------------------------------------------------------------------
\* The frames read to their end, and those of them DecodeFrame refused.
NumConsumed == IF pos < PreambleLen THEN 0 ELSE (pos - PreambleLen) \div FrameLen
Consumed == 1 .. NumConsumed
NumMalformed == Cardinality({i \in Consumed : frames[i] \in Malformed})

NumReported(err) == Cardinality({j \in 1 .. Len(errs) : errs[j] = err})

\* Next returns every transaction frame it has read past, once and in order,
\* whatever heartbeats, unknown and malformed frames lie between; Heartbeat()
\* is the last heartbeat frame before the reader.
ReaderAccounting ==
  LET beats == {i \in Consumed : frames[i] = "heartbeat"}
  IN  /\ Range(returned) = {i \in Consumed : frames[i] = "tx"}
      /\ \A j, k \in 1 .. Len(returned) : j < k => returned[j] < returned[k]
      /\ heartbeat \in beats \cup {0}
      /\ \A i \in beats : i <= heartbeat

\* Next fails only for a reason in the stream.  While it lasts, every error is
\* that of a frame: the deadline that guarded the preamble does not outlive it,
\* however long the feed is silent.  io.EOF means that the server ended the
\* stream itself, and if it did so inside a frame, the caller was told of the
\* cut frame before: there is one ErrBadFrame more than malformed frames.
ErrorsHaveCauses ==
  /\ end = nil =>
       /\ NumReported({ErrBadFrame}) = NumMalformed
       /\ \A j \in 1 .. Len(errs) : errs[j] \in {{ErrBadFrame}, {TooLarge}}
  /\ Contains(errs, {EOF}) =>
       /\ end = {EOF}
       /\ AtBoundary \/ NumReported({ErrBadFrame}) > NumMalformed

\* The calls that an application close has ended.
Closed == {j \in 1 .. Len(errs) : IsTerminal(errs[j])}

\* An application close reaches every call of Next that it ends, with its code,
\* between frames, inside a length prefix or inside a body.  The call it cuts
\* inside a frame is told of the truncation as well, by ErrBadFrame joined to the
\* close; at a boundary nothing was truncated, and no call is told so, nor is one
\* told twice.  A bare ErrBadFrame is a malformed frame only.
CloseKeepsCode ==
  \A a \in {x \in end : x.kind = AppKind} :
    /\ NumReported({ErrBadFrame}) = NumMalformed
    /\ \A j \in 1 .. Len(errs) : errs[j] \notin {{TooLarge}, {ErrBadFrame}} =>
         CloseInfoFromError(errs[j]) = {TerminalError(a.code)}
    /\ \A j \in Closed :
         ErrBadFrame \in errs[j] <=> ~AtBoundary /\ \A i \in Closed : j <= i

\* PreambleTimeout: SubscribeFull returns, even from a peer that never opens or
\* never writes the stream; and a call of Next returns once the stream has ended.
CallsReturn ==
  /\ <>(sub \in {"live", "failed"})
  /\ (next # "idle" /\ end # nil) ~> next = "idle"

-----------------------------------------------------------------------------
\* frame.go: ErrBadFrame is for bytes that do "not match the documented layout
\* (truncated, oversized, or malformed)".  A stream that ends where a frame would
\* begin, with no malformed frame before, has none.
BadFrameMeansMalformed ==
  AtBoundary /\ NumMalformed = 0 => ~ Contains(errs, {ErrBadFrame})

\* The same comment, the other way: a frame over the limit is an ErrBadFrame.
OversizedIsBadFrame == \A j \in 1 .. Len(errs) : TooLarge \in errs[j] => ErrBadFrame \in errs[j]
=============================================================================
