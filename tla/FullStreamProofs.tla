-------------------------- MODULE FullStreamProofs --------------------------
(***************************************************************************)
(* Proofs about FullStream, for every number of frames, every set of ends  *)
(* and every number of errors after which the caller goes on.              *)
(*                                                                         *)
(* What Next has returned is tied to the bytes consumed, so the invariant  *)
(* has to say where inside a frame the reader is: a call reads on from     *)
(* where the last one stopped, at the beginning of a frame unless the      *)
(* stream ended inside one, or a prefix was refused and the caller stopped.*)
(***************************************************************************)
EXTENDS FullStream, FiniteSetTheorems, SequenceTheorems, TLAPS

ErrorValues ==
  {headerError(c, n) : c \in Ends, n \in 0 .. 1} \cup {bodyError(c) : c \in Ends}
    \cup {{ErrBadFrame}, {TooLarge}}

\* Halves of the current frame that were consumed.
InFrame == (pos - PreambleLen) % FrameLen

\* How far SubscribeFull has read; before it is done, Next has done nothing.
Subscribing ==
  /\ sub = "accept" => pos = 0 /\ got = 0
  /\ sub = "preamble" => pos = got
  /\ sub = "clear" => pos = PreambleLen /\ got = 0
  /\ sub = "failed" => pos <= PreambleLen
  /\ sub = "live" => pos >= PreambleLen /\ ~armed
  /\ sub # "live" => /\ next = "idle" /\ errs = <<>>
                     /\ returned = <<>> /\ heartbeat = 0

\* The stream ended by an application close.
AppClosed == \E a \in end : a.kind = AppKind

\* The stream ended inside a frame, and the caller was told if it ended cleanly
\* or by an application close.
Severed ==
  /\ end # nil
  /\ end = {EOF} => /\ pos = arrived
                    /\ NumReported({ErrBadFrame}) > NumMalformed
  /\ AppClosed => Closed # {}

Alignment ==
  sub = "live" =>
    /\ next = "header" => InFrame = got \/ (got = 0 /\ Severed)
    /\ next = "body" => InFrame = 2 + got
    /\ next = "idle" =>
         got = 0 /\ (InFrame = 0 \/ Severed \/ Contains(errs, {TooLarge}))
    /\ next # "idle" => Len(errs) < MaxErrors /\ ~ Contains(errs, {TooLarge})

Reports ==
  /\ errs \in Seq(ErrorValues)
  /\ end \in Ends \cup {nil}
  /\ NumReported({ErrBadFrame}) >= NumMalformed
  /\ Contains(errs, {EOF}) => pos = arrived
  /\ Closed # {} => AppClosed /\ got = 0 /\ next # "body"

\* Frames and halves of frames arrive whole, so an empty body is never cut.
WholeFrames ==
  \A i \in 1 .. Len(frames) : frames[i] = "empty" =>
    arrived \notin {PreambleLen + FrameLen * (i - 1) + 2, PreambleLen + FrameLen * (i - 1) + 3}

Arrivals == frames \in Seq(Kinds) /\ arrived \in 0 .. Total /\ WholeFrames

StreamInv ==
  /\ TypeOK /\ Subscribing /\ Alignment /\ Reports
  /\ ReaderAccounting /\ ErrorsHaveCauses /\ CloseKeepsCode

-----------------------------------------------------------------------------
\* Counting.
LEMMA CountPart ==
  ASSUME NEW n \in Nat, NEW S \in SUBSET (1 .. n)
  PROVE  IsFiniteSet(S) /\ Cardinality(S) \in Nat
<1>1. IsFiniteSet(1 .. n)
  BY FS_Interval
<1> QED
  BY <1>1, FS_Subset, FS_CardinalityType

LEMMA CountOneMore ==
  ASSUME NEW n \in Nat, NEW S \in SUBSET (1 .. n)
  PROVE  Cardinality(S \cup {n + 1}) = Cardinality(S) + 1
<1>1. n + 1 \notin S
  OBVIOUS
<1> QED
  BY <1>1, CountPart, FS_AddElement

LEMMA ErrorsAreTold ==
  /\ ErrBadFrame # TooLarge /\ ErrBadFrame # EOF /\ EOF # TooLarge
  /\ ErrBadFrame.kind \notin {"TerminalError", AppKind}
  /\ EOF.kind \notin {"TerminalError", AppKind}
  /\ ~ IsTerminal({ErrBadFrame}) /\ ~ IsTerminal({TooLarge}) /\ ~ IsTerminal({EOF})
<1>1. /\ ErrBadFrame # TooLarge /\ ErrBadFrame # EOF /\ EOF # TooLarge
      /\ ErrBadFrame.kind \notin {"TerminalError", AppKind}
      /\ EOF.kind \notin {"TerminalError", AppKind}
  BY DEF ErrBadFrame, TooLarge, EOF, Plain, AppKind
<1>2. TooLarge.kind # "TerminalError"
  BY DEF TooLarge, Plain
<1>3. \A e : IsTerminal({e}) => e.kind = "TerminalError"
  BY DEF IsTerminal
<1> QED
  BY <1>1, <1>2, <1>3

\* The error of a call that the stream's end cut short.  An application close
\* is classified, with the code of the one in the chain; anything else but a
\* clean end at the beginning of a frame is a bad frame.
LEMMA CloseClassified ==
  ASSUME NEW c \in Ends, NEW a \in c, a.kind = AppKind
  PROVE  /\ IsTerminal(mapTerminalError(c))
         /\ mapTerminalError(c) = {TerminalError(a.code), a}
<1> DEFINE app == {e \in c : e.kind = AppKind}
           appErr == CHOOSE e \in app : TRUE
<1>1. appErr \in app
  OBVIOUS
<1>2. appErr = a
  BY <1>1, EndsAssumption
<1>3. ~ IsTerminal(c) /\ app # {}
  BY EndsAssumption
<1>4. mapTerminalError(c) = {TerminalError(appErr.code), appErr}
  BY <1>3 DEF mapTerminalError
<1>5. TerminalError(a.code).kind = "TerminalError"
  BY DEF TerminalError
<1> HIDE DEF appErr
<1> QED
  BY <1>2, <1>4, <1>5 DEF IsTerminal

LEMMA OtherwiseUnclassified ==
  ASSUME NEW c \in Ends, \A a \in c : a.kind # AppKind
  PROVE  mapTerminalError(c) = c /\ ~ IsTerminal(mapTerminalError(c))
BY EndsAssumption DEF mapTerminalError

LEMMA CutErrors ==
  ASSUME NEW c \in Ends, NEW n \in 0 .. 1, NEW err,
         err = headerError(c, n) \/ err = bodyError(c)
  PROVE  /\ err # {TooLarge}
         /\ err = {EOF} => c = {EOF} /\ n = 0 /\ err = headerError(c, n)
         /\ \A a \in {x \in c : x.kind = AppKind} :
              /\ err # {ErrBadFrame} /\ IsTerminal(err)
              /\ CloseInfoFromError(err) = {TerminalError(a.code)}
              /\ err = headerError(c, n) => (ErrBadFrame \in err <=> n # 0)
              /\ err = bodyError(c) => ErrBadFrame \in err
         /\ (\A a \in c : a.kind # AppKind) /\ err # {EOF} => err = {ErrBadFrame}
<1>1. CASE \A a \in c : a.kind # AppKind
  <2>1. headerError(c, n) = IF c = {EOF} /\ n = 0 THEN {EOF} ELSE {ErrBadFrame}
    BY <1>1, OtherwiseUnclassified DEF headerError
  <2>2. bodyError(c) = {ErrBadFrame}
    BY <1>1, OtherwiseUnclassified DEF bodyError, CloseInfoOr
  <2> QED
    BY <1>1, <2>1, <2>2, ErrorsAreTold
<1>2. ASSUME NEW a \in c, a.kind = AppKind
      PROVE  /\ err # {TooLarge} /\ err # {EOF} /\ err # {ErrBadFrame}
             /\ CloseInfoFromError(err) = {TerminalError(a.code)} /\ IsTerminal(err)
             /\ err = headerError(c, n) => (ErrBadFrame \in err <=> n # 0)
             /\ err = bodyError(c) => ErrBadFrame \in err
  <2>1. mapTerminalError(c) = {TerminalError(a.code), a} /\ IsTerminal(mapTerminalError(c))
    BY <1>2, CloseClassified
  <2>2. err = {TerminalError(a.code), a} \/ err = {TerminalError(a.code), a, ErrBadFrame}
    BY <2>1 DEF headerError, bodyError, CloseInfoOr
  <2>3. TerminalError(a.code).kind = "TerminalError" /\ a.kind # "TerminalError"
    BY <1>2 DEF TerminalError, AppKind
  <2>4. TooLarge.kind # "TerminalError"
    BY DEF TooLarge, Plain
  <2>5. ErrBadFrame \notin {TerminalError(a.code), a}
    BY <1>2, <2>3, ErrorsAreTold
  <2>6. err = headerError(c, n) => (ErrBadFrame \in err <=> n # 0)
    BY <2>1, <2>5 DEF headerError
  <2>7. err = bodyError(c) => ErrBadFrame \in err
    BY DEF bodyError
  <2>8. CloseInfoFromError(err) = {TerminalError(a.code)}
    BY <2>2, <2>3, ErrorsAreTold DEF CloseInfoFromError
  <2>9. err # {TooLarge} /\ err # {EOF} /\ err # {ErrBadFrame} /\ IsTerminal(err)
    BY <2>2, <2>3, <2>4, ErrorsAreTold DEF IsTerminal
  <2> QED
    BY <2>6, <2>7, <2>8, <2>9
<1> QED
  BY <1>1, <1>2

-----------------------------------------------------------------------------
\* Where a half of a frame takes the reader.
LEMMA HalvesOfFrames ==
  ASSUME NEW n \in Nat
  PROVE  /\ n % 4 \in 0 .. 3 /\ n \div 4 \in Nat
         /\ n = 4 * (n \div 4) + (n % 4)
         /\ n % 4 < 3 => (n + 1) % 4 = (n % 4) + 1 /\ (n + 1) \div 4 = n \div 4
         /\ n % 4 = 3 => (n + 1) % 4 = 0 /\ (n + 1) \div 4 = n \div 4 + 1
<1>1. n % 4 \in 0 .. 3
  OBVIOUS
<1>2. n \div 4 \in Nat
  OBVIOUS
<1>3. n = 4 * (n \div 4) + (n % 4)
  OBVIOUS
<1>4. n % 4 < 3 => (n + 1) % 4 = (n % 4) + 1 /\ (n + 1) \div 4 = n \div 4
  BY <1>3
<1>5. n % 4 = 3 => (n + 1) % 4 = 0 /\ (n + 1) \div 4 = n \div 4 + 1
  BY <1>3
<1> QED
  BY <1>1, <1>2, <1>3, <1>4, <1>5

LEMMA ReadStep ==
  ASSUME TypeOK, pos >= PreambleLen, DataReady, pos' = pos + 1, UNCHANGED frames
  PROVE  /\ InFrame \in 0 .. 3 /\ NumConsumed \in Nat
         /\ Current = NumConsumed + 1 /\ Current \in 1 .. Len(frames)
         /\ InFrame < 3 => InFrame' = InFrame + 1 /\ NumConsumed' = NumConsumed
         /\ InFrame = 3 => InFrame' = 0 /\ NumConsumed' = Current
<1> USE DEF PreambleLen, FrameLen, InFrame, NumConsumed, Current
<1>1. pos \in Nat /\ pos < arrived /\ arrived <= 2 + 4 * Len(frames)
      /\ arrived \in Nat /\ Len(frames) \in Nat
  BY DEF TypeOK, DataReady, Total
<1>0. pos - 2 \in Nat /\ pos' - 2 = (pos - 2) + 1
  BY <1>1
<1>2. /\ InFrame \in 0 .. 3 /\ NumConsumed \in Nat
      /\ pos = 2 + 4 * NumConsumed + InFrame
      /\ InFrame < 3 => InFrame' = InFrame + 1 /\ NumConsumed' = NumConsumed
      /\ InFrame = 3 => InFrame' = 0 /\ NumConsumed' = NumConsumed + 1
  BY <1>0, <1>1, HalvesOfFrames
<1>3. Current = NumConsumed + 1
  BY <1>1
<1> HIDE DEF InFrame, NumConsumed, Current
<1> QED
  BY <1>1, <1>2, <1>3

\* Where the end of a half takes the reader, or the stream.
LEMMA AfterReader ==
  EndsEmpty(pos) <=> pos >= PreambleLen /\ InFrame = 1 /\ frames[Current] = "empty"
BY DEF EndsEmpty, InFrame, Current

LEMMA AfterInStream ==
  ASSUME frames \in Seq(Kinds), NEW p \in Nat, p < Total
  PROVE  /\ After(p) \in Nat /\ p < After(p) /\ After(p) <= Total
         /\ \/ After(p) = p + 1 /\ ~ EndsEmpty(p)
            \/ \E i \in 1 .. Len(frames) :
                 /\ frames[i] = "empty" /\ p = 2 + 4 * (i - 1) + 1
                 /\ After(p) = 2 + 4 * i
<1> DEFINE q == (p - 2) \div 4
<1>1. Len(frames) \in Nat /\ Total = 2 + 4 * Len(frames)
  BY DEF Total, PreambleLen, FrameLen
<1>2. CASE ~ EndsEmpty(p)
  BY <1>1, <1>2 DEF After
<1>3. CASE EndsEmpty(p)
  <2>1. p >= 2 /\ (p - 2) % 4 = 1 /\ frames[q + 1] = "empty" /\ After(p) = p + 3
    BY <1>3 DEF EndsEmpty, After, PreambleLen, FrameLen
  <2>2. p - 2 \in Nat
    BY <2>1
  <2>3. q \in Nat /\ p - 2 = 4 * q + 1
    BY <2>1, <2>2, HalvesOfFrames
  <2> HIDE DEF q
  <2>4. q + 1 \in 1 .. Len(frames) /\ p = 2 + 4 * q + 1 /\ After(p) = 2 + 4 * (q + 1)
    BY <1>1, <2>1, <2>3
  <2>5. q = (q + 1) - 1
    BY <2>3
  <2>6. \E i \in 1 .. Len(frames) :
          /\ frames[i] = "empty" /\ p = 2 + 4 * (i - 1) + 1 /\ After(p) = 2 + 4 * i
    BY <2>1, <2>4, <2>5
  <2>7. After(p) \in Nat /\ p < After(p) /\ After(p) <= Total
    BY <1>1, <2>1, <2>4
  <2> QED
    BY <2>6, <2>7
<1> QED
  BY <1>2, <1>3

\* The last half of an empty frame's prefix takes the reader past the frame.
LEMMA EmptyRead ==
  ASSUME TypeOK, Arrivals, pos >= PreambleLen, DataReady, InFrame = 1,
         frames[Current] = "empty", pos' = After(pos), UNCHANGED frames
  PROVE  /\ pos' \in 0 .. arrived /\ InFrame' = 0
         /\ NumConsumed \in Nat /\ Current = NumConsumed + 1 /\ Current \in 1 .. Len(frames)
         /\ NumConsumed' = Current
<1>1. pos \in Nat /\ pos < arrived /\ arrived <= 2 + 4 * Len(frames)
      /\ arrived \in Nat /\ Len(frames) \in Nat /\ pos >= 2
  BY DEF TypeOK, DataReady, Total, PreambleLen, FrameLen
<1>2. pos' = pos + 3
  BY AfterReader DEF After
<1> DEFINE n == (pos - 2) \div 4
<1>3. pos - 2 \in Nat /\ n \in Nat /\ pos = 2 + 4 * n + 1
  <2>1. pos - 2 \in Nat /\ (pos - 2) % 4 = 1
    BY <1>1 DEF InFrame, PreambleLen, FrameLen
  <2>2. (pos - 2) = 4 * ((pos - 2) \div 4) + ((pos - 2) % 4) /\ (pos - 2) \div 4 \in Nat
    BY <2>1, HalvesOfFrames
  <2>3. (pos - 2) \div 4 \in Nat /\ pos - 2 = 4 * ((pos - 2) \div 4) + 1
    BY <2>1, <2>2
  <2> QED
    BY <1>1, <2>1, <2>3
<1>4. NumConsumed = n /\ Current = n + 1
  BY <1>1 DEF NumConsumed, Current, PreambleLen, FrameLen
<1> HIDE DEF n
<1>5. n + 1 \in 1 .. Len(frames)
  BY <1>1, <1>3
<1>6. arrived # pos + 1 /\ arrived # pos + 2
  <2>1. frames[n + 1] = "empty" /\ (n + 1) - 1 = n
    BY <1>3, <1>4
  <2>2. arrived \notin {2 + 4 * n + 2, 2 + 4 * n + 3}
    BY <1>5, <2>1 DEF Arrivals, WholeFrames, PreambleLen, FrameLen
  <2> QED
    BY <1>1, <1>3, <2>2
<1>7. pos' \in 0 .. arrived
  BY <1>1, <1>2, <1>6
<1>8. pos' - 2 = 4 * (n + 1) /\ pos' >= 2
  BY <1>1, <1>2, <1>3
<1>9. (pos' - 2) % 4 = 0 /\ (pos' - 2) \div 4 = n + 1
  BY <1>3, <1>8
<1>10. InFrame' = 0 /\ NumConsumed' = n + 1
  <2>1. InFrame' = (pos' - 2) % 4
    BY DEF InFrame, PreambleLen, FrameLen
  <2>2. NumConsumed' = (pos' - 2) \div 4
    BY <1>7, <1>8 DEF NumConsumed, PreambleLen, FrameLen
  <2> QED
    BY <1>9, <2>1, <2>2
<1> QED
  BY <1>3, <1>4, <1>5, <1>7, <1>10

LEMMA ArrivalsStep == Arrivals /\ [Next]_vars => Arrivals'
<1> SUFFICES ASSUME Arrivals, [Next]_vars PROVE Arrivals'
  OBVIOUS
<1>1. CASE Arrive
  <2>1. frames' = frames /\ arrived' = After(arrived) /\ arrived < Total /\ Total \in Nat
        /\ Total' = Total /\ arrived \in Nat /\ Len(frames) \in Nat
    BY <1>1 DEF Arrive, Arrivals, Total, PreambleLen, FrameLen
  <2>2. arrived' \in 0 .. Total'
    BY <2>1, AfterInStream DEF Arrivals
  <2>3. ASSUME NEW i \in 1 .. Len(frames), frames[i] = "empty"
        PROVE  After(arrived) # 2 + 4 * (i - 1) + 2 /\ After(arrived) # 2 + 4 * (i - 1) + 3
    <3>1. arrived # 2 + 4 * (i - 1) + 2 /\ arrived # 2 + 4 * (i - 1) + 3
      BY <2>3 DEF Arrivals, WholeFrames, PreambleLen, FrameLen
    <3>2. CASE After(arrived) = arrived + 1 /\ ~ EndsEmpty(arrived)
      <4>1. arrived # 2 + 4 * (i - 1) + 1
        <5> SUFFICES ASSUME arrived = 2 + 4 * (i - 1) + 1 PROVE FALSE
          OBVIOUS
        <5>1. arrived - 2 = 4 * (i - 1) + 1 /\ i - 1 \in Nat
          OBVIOUS
        <5>2. (arrived - 2) % 4 = 1 /\ (arrived - 2) \div 4 = i - 1
          BY <5>1
        <5>3. ((arrived - 2) \div 4) + 1 = i /\ arrived >= 2
          BY <2>1, <5>1, <5>2
        <5> QED
          BY <2>3, <3>2, <5>2, <5>3 DEF EndsEmpty, PreambleLen, FrameLen
      <4> QED
        BY <2>1, <3>1, <3>2, <4>1
    <3>3. ASSUME NEW j \in 1 .. Len(frames), After(arrived) = 2 + 4 * j
          PROVE  After(arrived) # 2 + 4 * (i - 1) + 2 /\ After(arrived) # 2 + 4 * (i - 1) + 3
      BY <2>1, <3>3
    <3> QED
      BY <2>1, <3>2, <3>3, AfterInStream DEF Arrivals
  <2>4. WholeFrames'
    BY <2>1, <2>3 DEF WholeFrames, PreambleLen, FrameLen
  <2> QED
    BY <2>1, <2>2, <2>4 DEF Arrivals
<1>2. CASE UNCHANGED <<frames, arrived>>
  BY <1>2 DEF Arrivals, WholeFrames, Total
<1>3. Arrive \/ UNCHANGED <<frames, arrived>>
  BY DEF Next, PeerOpens, TimePasses, StreamEnds, SubscribeFull, AcceptUniStream,
         AcceptFails, AcceptCancelled, verifyPreamble, ClearDeadline, FailSubscribe,
         NextCalled, nextFrame, ReadMore, ReadHeader, HeaderFails, ReadBody, BodyFails,
         Fail, vars, streamVars
<1> QED
  BY <1>1, <1>2, <1>3

\* A frame read to its end is one more consumed, and one more refused if it is.
LEMMA ConsumeFrame ==
  ASSUME NumConsumed \in Nat, Current = NumConsumed + 1, UNCHANGED frames
  PROVE  /\ NumMalformed \in Nat
         /\ NumConsumed' = NumConsumed => Consumed' = Consumed /\ NumMalformed' = NumMalformed
         /\ NumConsumed' = Current =>
              /\ Current \notin Consumed /\ Consumed' = Consumed \cup {Current}
              /\ frames[Current] \in Malformed => NumMalformed' = NumMalformed + 1
              /\ frames[Current] \notin Malformed => NumMalformed' = NumMalformed
<1> DEFINE malformed == {i \in Consumed : frames[i] \in Malformed}
<1>2. malformed \in SUBSET (1 .. NumConsumed)
  BY DEF Consumed
<1>3. NumMalformed = Cardinality(malformed) /\ NumMalformed' = Cardinality(malformed')
  BY DEF NumMalformed
<1>4. NumMalformed \in Nat /\ Cardinality(malformed \cup {Current}) = NumMalformed + 1
  BY <1>2, <1>3, CountPart, CountOneMore
<1>5. NumConsumed' = NumConsumed => Consumed' = Consumed /\ malformed' = malformed
  BY DEF Consumed
<1>6. NumConsumed' = Current => Current \notin Consumed /\ Consumed' = Consumed \cup {Current}
  BY DEF Consumed
<1>7. NumConsumed' = Current /\ frames[Current] \in Malformed =>
        malformed' = malformed \cup {Current}
  BY <1>6
<1>8. NumConsumed' = Current /\ frames[Current] \notin Malformed => malformed' = malformed
  BY <1>6
<1> QED
  BY <1>3, <1>4, <1>5, <1>6, <1>7, <1>8

LEMMA ConsumeStep ==
  ASSUME TypeOK, pos >= PreambleLen, DataReady, pos' = pos + 1, UNCHANGED frames
  PROVE  /\ NumMalformed \in Nat
         /\ InFrame < 3 => Consumed' = Consumed /\ NumMalformed' = NumMalformed
         /\ InFrame = 3 =>
              /\ Current \notin Consumed /\ Consumed' = Consumed \cup {Current}
              /\ frames[Current] \in Malformed => NumMalformed' = NumMalformed + 1
              /\ frames[Current] \notin Malformed => NumMalformed' = NumMalformed
BY ReadStep, ConsumeFrame

\* What an error adds to what Next has reported.
LEMMA ReportStep ==
  ASSUME errs \in Seq(ErrorValues), NEW err \in ErrorValues, errs' = Append(errs, err)
  PROVE  /\ errs' \in Seq(ErrorValues) /\ Len(errs) \in Nat /\ Len(errs') = Len(errs) + 1
         /\ \A j \in 1 .. Len(errs) : errs'[j] = errs[j]
         /\ errs'[Len(errs) + 1] = err
         /\ \A x : Contains(errs, x)' <=> Contains(errs, x) \/ x = err
         /\ NumReported({ErrBadFrame}) \in Nat
         /\ err = {ErrBadFrame} =>
              NumReported({ErrBadFrame})' = NumReported({ErrBadFrame}) + 1
         /\ err # {ErrBadFrame} =>
              NumReported({ErrBadFrame})' = NumReported({ErrBadFrame})
<1> DEFINE bad == {j \in 1 .. Len(errs) : errs[j] = {ErrBadFrame}}
<1>1. /\ errs' \in Seq(ErrorValues) /\ Len(errs) \in Nat /\ Len(errs') = Len(errs) + 1
      /\ \A j \in 1 .. Len(errs) : errs'[j] = errs[j]
      /\ errs'[Len(errs) + 1] = err
  OBVIOUS
<1>2. \A x : Contains(errs, x)' <=> Contains(errs, x) \/ x = err
  BY <1>1 DEF Contains
<1>3. bad \in SUBSET (1 .. Len(errs))
  OBVIOUS
<1>4. /\ NumReported({ErrBadFrame}) = Cardinality(bad)
      /\ NumReported({ErrBadFrame})' = Cardinality(bad')
  BY DEF NumReported
<1>5. /\ Cardinality(bad) \in Nat
      /\ Cardinality(bad \cup {Len(errs) + 1}) = Cardinality(bad) + 1
  BY <1>1, <1>3, CountPart, CountOneMore
<1>6. err = {ErrBadFrame} => bad' = bad \cup {Len(errs) + 1}
  BY <1>1
<1>7. err # {ErrBadFrame} => bad' = bad
  BY <1>1
<1> QED
  BY <1>1, <1>2, <1>4, <1>5, <1>6, <1>7

\* What the counts are taken from.
LEMMA SameCounts ==
  /\ UNCHANGED <<frames, pos>> =>
       UNCHANGED <<InFrame, Current, NumConsumed, Consumed, NumMalformed, AtBoundary>>
  /\ UNCHANGED errs =>
       /\ UNCHANGED <<NumReported({ErrBadFrame}), Closed>>
       /\ \A x : Contains(errs, x)' <=> Contains(errs, x)
  /\ UNCHANGED end => (AppClosed' <=> AppClosed)
BY DEF InFrame, Current, NumConsumed, Consumed, NumMalformed, NumReported, Contains,
   AtBoundary, Closed, AppClosed

\* Before the stream is live, nothing has been consumed or reported.
LEMMA NothingYet ==
  ASSUME sub # "live", Subscribing, TypeOK
  PROVE  /\ NumMalformed = 0 /\ NumReported({ErrBadFrame}) = 0
         /\ Consumed = {} /\ errs = <<>> /\ returned = <<>> /\ heartbeat = 0
         /\ \A x : ~ Contains(errs, x)
         /\ Closed = {}
<1>1. errs = <<>> /\ returned = <<>> /\ heartbeat = 0 /\ pos <= PreambleLen /\ pos \in Nat
  BY DEF Subscribing, TypeOK, PreambleLen
<1>2. NumConsumed = 0
  BY <1>1 DEF NumConsumed, PreambleLen, FrameLen
<1>3. Consumed = {} /\ Len(errs) = 0
  BY <1>1, <1>2 DEF Consumed
<1>4. {i \in Consumed : frames[i] \in Malformed} = {}
      /\ {j \in 1 .. Len(errs) : errs[j] = {ErrBadFrame}} = {}
  BY <1>3
<1>5. NumMalformed = 0 /\ NumReported({ErrBadFrame}) = 0
  BY <1>4, FS_EmptySet DEF NumMalformed, NumReported
<1> QED
  BY <1>1, <1>3, <1>5 DEF Contains, Closed

-----------------------------------------------------------------------------
\* The steps.  The server and the clock: nothing the reader knows changes.
LEMMA AccountingKept ==
  ASSUME ReaderAccounting, UNCHANGED <<frames, pos, returned, heartbeat>>
  PROVE  ReaderAccounting'
BY SameCounts DEF ReaderAccounting

LEMMA CausesKept ==
  ASSUME ErrorsHaveCauses, CloseKeepsCode, UNCHANGED <<frames, pos, errs, end>>
  PROVE  ErrorsHaveCauses' /\ CloseKeepsCode'
<1>1. UNCHANGED <<NumReported({ErrBadFrame}), NumMalformed, AtBoundary, Closed>>
      /\ (Contains(errs, {EOF})' <=> Contains(errs, {EOF}))
  BY SameCounts
<1>2. ErrorsHaveCauses'
  BY <1>1 DEF ErrorsHaveCauses
<1>3. CloseKeepsCode'
  BY <1>1 DEF CloseKeepsCode
<1> QED
  BY <1>2, <1>3

LEMMA ServerStep ==
  ASSUME StreamInv, Arrivals, PeerOpens \/ Arrive \/ TimePasses \/ UNCHANGED vars
  PROVE  StreamInv'
<1>1. /\ UNCHANGED <<frames, goodMagic, end, pos, got, armed, sub, next, subErr, errs,
                     returned, heartbeat>>
      /\ opened' \in BOOLEAN /\ expired' \in BOOLEAN
      /\ arrived' = arrived \/ (arrived' = After(arrived) /\ arrived < Total /\ end = nil)
  BY DEF StreamInv, TypeOK, PeerOpens, Arrive, TimePasses, vars, streamVars
<1>2. Total \in Nat /\ Total' = Total
  BY <1>1 DEF StreamInv, TypeOK, Total, PreambleLen, FrameLen
<1>3. TypeOK'
  <2>1. arrived \in Nat /\ arrived' \in 0 .. Total /\ arrived <= arrived'
    BY <1>1, <1>2, AfterInStream DEF Arrivals
  <2> QED
    BY <1>1, <1>2, <2>1 DEF StreamInv, TypeOK
<1>4. Subscribing' /\ ReaderAccounting'
  BY <1>1, AccountingKept DEF StreamInv, Subscribing
<1>5. arrived' = arrived \/ (end = nil /\ ~ Contains(errs, {EOF}))
  BY <1>1 DEF StreamInv, ErrorsHaveCauses, nil
<1>6. Severed' = Severed
  BY <1>1, <1>5, SameCounts DEF Severed
<1>7. Alignment' /\ Reports'
  BY <1>1, <1>5, <1>6, SameCounts DEF StreamInv, Alignment, Reports
<1>8. ErrorsHaveCauses' /\ CloseKeepsCode'
  BY <1>1, CausesKept DEF StreamInv
<1> QED
  BY <1>3, <1>4, <1>7, <1>8 DEF StreamInv

\* The stream ends: what was reported until then was the frames' own fault.
LEMMA EndStep ==
  ASSUME StreamInv, NEW e \in Ends, StreamEnds(e)
  PROVE  StreamInv'
<1>1. /\ UNCHANGED <<frames, goodMagic, opened, arrived, pos, got, armed, expired, sub,
                     next, subErr, errs, returned, heartbeat>>
      /\ end = nil /\ end' = e
  BY DEF StreamEnds
<1>2. /\ NumReported({ErrBadFrame}) = NumMalformed
      /\ \A j \in 1 .. Len(errs) : errs[j] \in {{ErrBadFrame}, {TooLarge}}
      /\ ~ Contains(errs, {EOF})
      /\ Closed = {}
  BY <1>1, ErrorsAreTold DEF StreamInv, ErrorsHaveCauses, nil, Closed
<1>3. TypeOK' /\ Subscribing' /\ ReaderAccounting'
  BY <1>1, AccountingKept DEF StreamInv, TypeOK, Subscribing, Total
<1>4. ~ Severed
  BY <1>1 DEF Severed
<1>5. Alignment' /\ Reports'
  BY <1>1, <1>2, <1>4, SameCounts DEF StreamInv, Alignment, Reports
<1>6. ErrorsHaveCauses' /\ CloseKeepsCode'
  BY <1>1, <1>2, SameCounts, EndsAssumption DEF ErrorsHaveCauses, CloseKeepsCode
<1> QED
  BY <1>3, <1>5, <1>6 DEF StreamInv

\* SubscribeFull reads the preamble only, and Next has not been called.
LEMMA SubscribeStep ==
  ASSUME StreamInv, SubscribeFull \/ AcceptCancelled
  PROVE  StreamInv'
<1>1. sub # "live"
  BY DEF SubscribeFull, AcceptUniStream, AcceptFails, AcceptCancelled, verifyPreamble,
         ClearDeadline
<1>2. pos \in Nat /\ arrived \in Nat /\ got \in 0 .. 1 /\ pos <= arrived
      /\ next = "idle" /\ errs = <<>> /\ returned = <<>> /\ heartbeat = 0
  BY <1>1 DEF StreamInv, TypeOK, Subscribing
<1>3. /\ UNCHANGED <<streamVars, expired, next, errs, returned, heartbeat>>
      /\ sub' \in {"preamble", "clear", "live", "failed"}
      /\ armed' \in BOOLEAN
      /\ pos' \in 0 .. arrived /\ pos' <= PreambleLen /\ got' \in 0 .. 1
      /\ sub' = "preamble" => pos' = got'
      /\ sub' \in {"clear", "live"} => pos' = PreambleLen /\ got' = 0
      /\ sub' = "live" => ~ armed'
  <2>1. CASE AcceptUniStream
    BY <1>2, <2>1 DEF AcceptUniStream, StreamInv, TypeOK, Subscribing, PreambleLen
  <2>2. CASE AcceptFails \/ AcceptCancelled
    <3>1. /\ sub = "accept" /\ sub' = "failed" /\ UNCHANGED <<pos, got, armed>>
          /\ UNCHANGED <<streamVars, expired, next, errs, returned, heartbeat>>
      BY <2>2 DEF AcceptFails, AcceptCancelled, FailSubscribe
    <3>2. armed' \in BOOLEAN
      BY <3>1 DEF StreamInv, TypeOK
    <3>3. pos = 0 /\ got = 0
      BY <3>1 DEF StreamInv, Subscribing
    <3> QED
      BY <1>2, <3>1, <3>2, <3>3 DEF PreambleLen
  <2>3. CASE verifyPreamble
    <3> USE <1>2, <2>3 DEF verifyPreamble, StreamInv, TypeOK, Subscribing, PreambleLen
    <3>1. CASE ReadHalf
      BY <3>1 DEF ReadHalf, ReadDone, ReadFails, DataReady, FailSubscribe
    <3>2. CASE ReadDone
      <4>1. got = 1 /\ pos = 1 /\ pos' = 2
        BY <3>2 DEF ReadDone, After, EndsEmpty
      <4> QED
        BY <3>2, <4>1 DEF ReadHalf, ReadDone, ReadFails, DataReady, FailSubscribe
    <3>3. CASE ReadFails
      BY <3>3 DEF ReadHalf, ReadDone, ReadFails, DataReady, FailSubscribe, After
    <3> QED
      BY <3>1, <3>2, <3>3
  <2>4. CASE ClearDeadline
    <3>1. armed' = FALSE /\ armed' \in BOOLEAN
      BY <2>4 DEF ClearDeadline
    <3>2. ~ armed'
      BY <3>1
    <3> QED
      BY <1>2, <2>4, <3>1, <3>2 DEF ClearDeadline, StreamInv, Subscribing, PreambleLen
  <2> QED
    BY <2>1, <2>2, <2>3, <2>4 DEF SubscribeFull
<1>4. /\ NumMalformed = 0 /\ NumReported({ErrBadFrame}) = 0 /\ Consumed = {}
      /\ \A x : ~ Contains(errs, x)
      /\ Closed = {}
  BY <1>1, NothingYet DEF StreamInv
<1>5. Consumed' = Consumed
  <2>1. pos' \in Nat /\ pos' <= 2
    BY <1>2, <1>3 DEF PreambleLen
  <2>2. NumConsumed' = 0
    <3>1. CASE pos' = 2
      <4>1. (pos' - 2) \div 4 = 0
        BY <3>1
      <4> QED
        BY <3>1, <4>1 DEF NumConsumed, PreambleLen, FrameLen
    <3>2. CASE pos' < 2
      BY <3>2 DEF NumConsumed, PreambleLen
    <3> QED
      BY <2>1, <3>1, <3>2
  <2> QED
    BY <1>4, <2>2 DEF Consumed
<1>6. NumMalformed' = 0 /\ NumReported({ErrBadFrame})' = 0 /\ Consumed' = {}
      /\ \A x : ~ Contains(errs, x)'
      /\ Closed' = {}
  BY <1>3, <1>4, <1>5, SameCounts DEF NumMalformed, streamVars
<1>7. TypeOK'
  BY <1>2, <1>3 DEF StreamInv, TypeOK, streamVars, Total
<1>8. Subscribing'
  BY <1>2, <1>3 DEF Subscribing, PreambleLen
<1>9. Alignment'
  BY <1>2, <1>3 DEF Alignment, InFrame, PreambleLen, FrameLen
<1>10. Reports'
  BY <1>2, <1>3, <1>6 DEF StreamInv, Reports, streamVars
<1>11. ReaderAccounting'
  BY <1>2, <1>3, <1>6 DEF ReaderAccounting, Range
<1>12. ErrorsHaveCauses' /\ CloseKeepsCode'
  <2>1. Len(errs') = 0 /\ ~ Contains(errs, {EOF})'
    BY <1>2, <1>3, <1>6
  <2>2. ErrorsHaveCauses'
    BY <1>6, <2>1 DEF ErrorsHaveCauses
  <2>3. CloseKeepsCode'
    BY <1>6, <2>1 DEF CloseKeepsCode
  <2> QED
    BY <2>2, <2>3
<1> QED
  BY <1>7, <1>8, <1>9, <1>10, <1>11, <1>12 DEF StreamInv

\* A call of Next begins where the last one stopped.
LEMMA NextCalledStep ==
  ASSUME StreamInv, NextCalled
  PROVE  StreamInv'
<1>1. /\ UNCHANGED <<streamVars, pos, got, armed, expired, sub, subErr, errs,
                     returned, heartbeat>>
      /\ sub = "live" /\ next = "idle" /\ next' = "header"
      /\ Len(errs) < MaxErrors /\ ~ Contains(errs, {TooLarge})
  BY DEF NextCalled
<1>2. UNCHANGED <<frames, end, arrived>>
  BY <1>1 DEF streamVars
<1>3. TypeOK' /\ Subscribing' /\ ReaderAccounting'
  BY <1>1, <1>2, AccountingKept DEF StreamInv, TypeOK, Subscribing, Total, streamVars
<1>4. Severed' = Severed /\ InFrame' = InFrame
  BY <1>1, <1>2, SameCounts DEF Severed
<1>5. got = 0 /\ (InFrame = 0 \/ Severed)
  BY <1>1 DEF StreamInv, Alignment
<1>6. Alignment' /\ Reports'
  BY <1>1, <1>2, <1>4, <1>5, SameCounts DEF StreamInv, Alignment, Reports
<1>7. ErrorsHaveCauses' /\ CloseKeepsCode'
  BY <1>1, <1>2, CausesKept DEF StreamInv
<1> QED
  BY <1>3, <1>6, <1>7 DEF StreamInv

-----------------------------------------------------------------------------
\* A read that returns data: the stream has not been cut short, so the reader
\* is where its state says, inside a frame the server sent.
LEMMA Reading ==
  ASSUME StreamInv, next # "idle", DataReady
  PROVE  /\ sub = "live" /\ pos >= PreambleLen /\ pos \in Nat /\ pos + 1 \in 0 .. arrived
         /\ end \in {nil, {EOF}} /\ ~ Contains(errs, {EOF})
         /\ ~ Contains(errs, {TooLarge}) /\ Len(errs) < MaxErrors
         /\ next = "header" => InFrame = got
         /\ next = "body" => InFrame = 2 + got
         /\ next \in {"header", "body"}
         /\ Closed = {}
<1>1. /\ sub = "live" /\ pos \in 0 .. arrived /\ arrived \in Nat
      /\ next \in {"header", "body"}
  BY DEF StreamInv, TypeOK, Total
<1>2. pos \in Nat /\ pos < arrived /\ end \in {nil, {EOF}}
  BY <1>1 DEF DataReady
<1>3. ~ Severed /\ ~ Contains(errs, {EOF})
  BY <1>2 DEF StreamInv, Severed, Reports
<1>4. Closed = {}
  BY <1>2, ErrorsAreTold DEF StreamInv, Reports, AppClosed, nil
<1> QED
  BY <1>1, <1>2, <1>3, <1>4 DEF StreamInv, Subscribing, Alignment

LEMMA WhileReading ==
  ASSUME ErrorsHaveCauses, end \in {nil, {EOF}}, end' = end, Closed = {},
         NumReported({ErrBadFrame}) = NumMalformed =>
           NumReported({ErrBadFrame})' = NumMalformed',
         \A j \in 1 .. Len(errs') :
           \/ errs'[j] \in {{ErrBadFrame}, {TooLarge}}
           \/ j \in 1 .. Len(errs) /\ errs'[j] = errs[j],
         ~ Contains(errs, {EOF})'
  PROVE  ErrorsHaveCauses' /\ CloseKeepsCode' /\ Closed' = {}
<1>1. ErrorsHaveCauses'
  BY DEF ErrorsHaveCauses
<1>2. \A a \in end' : a.kind # AppKind
  BY ErrorsAreTold DEF nil
<1>3. CloseKeepsCode'
  BY <1>2 DEF CloseKeepsCode
<1>4. Closed' = {}
  BY ErrorsAreTold DEF Closed
<1> QED
  BY <1>1, <1>3, <1>4

LEMMA ReadMoreStep ==
  ASSUME StreamInv, ReadMore
  PROVE  StreamInv'
<1>1. /\ UNCHANGED <<streamVars, armed, expired, sub, next, subErr, errs,
                     returned, heartbeat>>
      /\ next # "idle" /\ DataReady /\ pos' = pos + 1 /\ got = 0 /\ got' = 1
  BY DEF ReadMore, ReadHalf
<1>2. UNCHANGED <<frames, end, arrived>>
  BY <1>1 DEF streamVars
<1>3. /\ sub = "live" /\ pos >= PreambleLen /\ pos \in Nat /\ pos + 1 \in 0 .. arrived
      /\ end \in {nil, {EOF}} /\ ~ Contains(errs, {EOF})
      /\ ~ Contains(errs, {TooLarge}) /\ Len(errs) < MaxErrors
      /\ next = "header" => InFrame = got
      /\ next = "body" => InFrame = 2 + got
      /\ next \in {"header", "body"}
      /\ Closed = {}
  BY <1>1, Reading
<1>4. /\ InFrame < 3 /\ InFrame' = InFrame + 1
      /\ Consumed' = Consumed /\ NumMalformed' = NumMalformed
  <2>1. InFrame < 3
    BY <1>1, <1>3
  <2> QED
    BY <1>1, <1>2, <1>3, <2>1, ReadStep, ConsumeStep DEF StreamInv
<1>5. /\ NumReported({ErrBadFrame})' = NumReported({ErrBadFrame})
      /\ \A x : Contains(errs, x)' <=> Contains(errs, x)
  BY <1>1, SameCounts
<1>6. TypeOK'
  BY <1>1, <1>2, <1>3 DEF StreamInv, TypeOK, Total, streamVars
<1>7. Subscribing'
  BY <1>1, <1>3 DEF StreamInv, Subscribing, PreambleLen
<1>8. Alignment'
  BY <1>1, <1>3, <1>4, <1>5 DEF Alignment
<1>9. ReaderAccounting'
  BY <1>1, <1>2, <1>4 DEF StreamInv, ReaderAccounting
<1>10. ErrorsHaveCauses' /\ CloseKeepsCode' /\ Closed' = {}
  BY <1>1, <1>2, <1>3, <1>4, <1>5, WhileReading DEF StreamInv
<1>11. Reports'
  BY <1>1, <1>2, <1>3, <1>4, <1>5, <1>10 DEF StreamInv, Reports
<1> QED
  BY <1>6, <1>7, <1>8, <1>9, <1>10, <1>11 DEF StreamInv

\* A length prefix: the body follows, or the frame is refused.
LEMMA PrefixStep ==
  ASSUME StreamInv, ReadHeader, frames[Current] # "empty"
  PROVE  StreamInv'
<1>1. /\ UNCHANGED <<streamVars, armed, expired, sub, subErr, returned, heartbeat>>
      /\ next = "header" /\ DataReady /\ pos' = pos + 1 /\ got = 1 /\ got' = 0
      /\ \/ next' = "idle" /\ errs' = Append(errs, {TooLarge})
         \/ next' = "body" /\ errs' = errs
  BY AfterReader DEF ReadHeader, ReadDone, Fail, After
<1>2. UNCHANGED <<frames, end, arrived>>
  BY <1>1 DEF streamVars
<1>3. /\ sub = "live" /\ pos >= PreambleLen /\ pos \in Nat /\ pos + 1 \in 0 .. arrived
      /\ end \in {nil, {EOF}} /\ ~ Contains(errs, {EOF})
      /\ ~ Contains(errs, {TooLarge}) /\ Len(errs) < MaxErrors
      /\ InFrame = got
      /\ Closed = {}
  BY <1>1, Reading
<1>4. /\ InFrame < 3 /\ InFrame' = InFrame + 1
      /\ Consumed' = Consumed /\ NumMalformed' = NumMalformed
  <2>1. InFrame < 3
    BY <1>1, <1>3
  <2> QED
    BY <1>1, <1>2, <1>3, <2>1, ReadStep, ConsumeStep DEF StreamInv
<1>5. /\ NumReported({ErrBadFrame})' = NumReported({ErrBadFrame})
      /\ ~ Contains(errs, {EOF})' /\ errs' \in Seq(ErrorValues)
      /\ Len(errs') <= MaxErrors
      /\ next' = "idle" => Contains(errs, {TooLarge})'
      /\ next' = "body" => Len(errs') < MaxErrors /\ ~ Contains(errs, {TooLarge})'
      /\ \A j \in 1 .. Len(errs') :
           \/ errs'[j] \in {{ErrBadFrame}, {TooLarge}}
           \/ j \in 1 .. Len(errs) /\ errs'[j] = errs[j]
  <2>1. errs \in Seq(ErrorValues) /\ MaxErrors \in Nat
    BY BoundsAssumption DEF StreamInv, Reports
  <2>2. CASE next' = "idle" /\ errs' = Append(errs, {TooLarge})
    <3>1. {TooLarge} \in ErrorValues /\ {TooLarge} # {ErrBadFrame} /\ {TooLarge} # {EOF}
      BY ErrorsAreTold DEF ErrorValues
    <3>2. /\ errs' \in Seq(ErrorValues) /\ Len(errs) \in Nat /\ Len(errs') = Len(errs) + 1
          /\ \A j \in 1 .. Len(errs) : errs'[j] = errs[j]
          /\ errs'[Len(errs) + 1] = {TooLarge}
          /\ \A x : Contains(errs, x)' <=> Contains(errs, x) \/ x = {TooLarge}
          /\ NumReported({ErrBadFrame})' = NumReported({ErrBadFrame})
      BY <2>1, <2>2, <3>1, ReportStep
    <3>3. ~ Contains(errs, {EOF})' /\ Contains(errs, {TooLarge})'
      BY <1>3, <3>1, <3>2
    <3>4. \A j \in 1 .. Len(errs') :
             \/ errs'[j] \in {{ErrBadFrame}, {TooLarge}}
             \/ j \in 1 .. Len(errs) /\ errs'[j] = errs[j]
      BY <3>2
    <3> QED
      BY <1>3, <2>1, <2>2, <3>2, <3>3, <3>4
  <2>3. CASE next' = "body" /\ errs' = errs
    BY <1>3, <2>1, <2>3, SameCounts
  <2> QED
    BY <1>1, <2>2, <2>3
<1>6. TypeOK'
  BY <1>1, <1>2, <1>3, <1>5 DEF StreamInv, TypeOK, Total, streamVars
<1>7. Subscribing'
  BY <1>1, <1>3 DEF StreamInv, Subscribing, PreambleLen
<1>8. Alignment'
  BY <1>1, <1>3, <1>4, <1>5 DEF Alignment
<1>9. ReaderAccounting'
  BY <1>1, <1>2, <1>4 DEF StreamInv, ReaderAccounting
<1>10. ErrorsHaveCauses' /\ CloseKeepsCode' /\ Closed' = {}
  BY <1>1, <1>2, <1>3, <1>4, <1>5, WhileReading DEF StreamInv
<1>11. Reports'
  BY <1>1, <1>2, <1>3, <1>4, <1>5, <1>10 DEF StreamInv, Reports
<1> QED
  BY <1>6, <1>7, <1>8, <1>9, <1>10, <1>11 DEF StreamInv

\* A body: its transaction is returned, its heartbeat stored, or it is malformed.
LEMMA ReturnedStep ==
  ASSUME ReaderAccounting, returned \in Seq(1 .. MaxFrames), UNCHANGED <<frames, heartbeat>>,
         NumConsumed \in Nat, Current = NumConsumed + 1, Current \in 1 .. MaxFrames,
         Consumed' = Consumed \cup {Current}, frames[Current] = "tx",
         returned' = Append(returned, Current)
  PROVE  ReaderAccounting' /\ returned' \in Seq(1 .. MaxFrames)
<1>1. /\ returned' \in Seq(1 .. MaxFrames)
      /\ Len(returned) \in Nat /\ Len(returned') = Len(returned) + 1
      /\ \A j \in 1 .. Len(returned) : returned'[j] = returned[j]
      /\ returned'[Len(returned) + 1] = Current
      /\ DOMAIN returned = 1 .. Len(returned) /\ DOMAIN returned' = 1 .. Len(returned) + 1
  OBVIOUS
<1>2. Range(returned') = Range(returned) \cup {Current}
  BY <1>1 DEF Range
<1>3. {i \in Consumed' : frames'[i] = "tx"} = {i \in Consumed : frames[i] = "tx"} \cup {Current}
  OBVIOUS
<1>4. \A j \in 1 .. Len(returned) : returned[j] < Current
  <2>1. \A j \in 1 .. Len(returned) : returned[j] \in Consumed
    BY <1>1 DEF ReaderAccounting, Range
  <2> QED
    BY <2>1 DEF Consumed
<1>5. \A j, k \in 1 .. Len(returned') : j < k => returned'[j] < returned'[k]
  BY <1>1, <1>4 DEF ReaderAccounting
<1>6. {i \in Consumed' : frames'[i] = "heartbeat"} = {i \in Consumed : frames[i] = "heartbeat"}
  OBVIOUS
<1> QED
  BY <1>1, <1>2, <1>3, <1>5, <1>6 DEF ReaderAccounting

LEMMA SkippedStep ==
  ASSUME ReaderAccounting, UNCHANGED <<frames, returned>>, heartbeat \in Nat,
         NumConsumed \in Nat, Current = NumConsumed + 1,
         Consumed' = Consumed \cup {Current}, frames[Current] # "tx",
         heartbeat' = IF frames[Current] = "heartbeat" THEN Current ELSE heartbeat
  PROVE  ReaderAccounting'
<1> DEFINE beats == {i \in Consumed : frames[i] = "heartbeat"}
<1>1. {i \in Consumed' : frames'[i] = "tx"} = {i \in Consumed : frames[i] = "tx"}
  OBVIOUS
<1>2. \A i \in Consumed : i \in Nat /\ i < Current
  BY DEF Consumed
<1>3. heartbeat' \in beats' \cup {0} /\ \A i \in beats' : i <= heartbeat'
  <2>1. heartbeat \in beats \cup {0} /\ \A i \in beats : i <= heartbeat
    BY DEF ReaderAccounting
  <2>2. CASE frames[Current] = "heartbeat"
    <3>1. beats' = beats \cup {Current} /\ heartbeat' = Current
      BY <2>2
    <3> QED
      BY <1>2, <3>1
  <2>3. CASE frames[Current] # "heartbeat"
    <3>1. beats' = beats /\ heartbeat' = heartbeat
      BY <2>3
    <3> QED
      BY <2>1, <3>1
  <2> QED
    BY <2>2, <2>3
<1> QED
  BY <1>1, <1>3 DEF ReaderAccounting, Range

\* A frame of no bytes is refused with its prefix.
LEMMA EmptyFrameStep ==
  ASSUME StreamInv, Arrivals, ReadHeader, frames[Current] = "empty"
  PROVE  StreamInv'
<1>1. /\ UNCHANGED <<streamVars, armed, expired, sub, subErr, returned, heartbeat>>
      /\ next = "header" /\ DataReady /\ pos' = After(pos) /\ got = 1 /\ got' = 0
      /\ next' = "idle" /\ errs' = Append(errs, {ErrBadFrame})
  BY DEF ReadHeader, ReadDone, Fail
<1>2. UNCHANGED <<frames, end, arrived>>
  BY <1>1 DEF streamVars
<1>3. /\ sub = "live" /\ pos >= PreambleLen
      /\ end \in {nil, {EOF}} /\ ~ Contains(errs, {EOF})
      /\ ~ Contains(errs, {TooLarge}) /\ Len(errs) < MaxErrors
      /\ InFrame = 1 /\ Closed = {}
  BY <1>1, Reading
<1>4. /\ pos' \in 0 .. arrived /\ InFrame' = 0
      /\ NumConsumed \in Nat /\ Current = NumConsumed + 1 /\ NumConsumed' = Current
  BY <1>1, <1>2, <1>3, EmptyRead DEF StreamInv
<1>5. /\ Consumed' = Consumed \cup {Current}
      /\ NumMalformed \in Nat /\ NumMalformed' = NumMalformed + 1
  BY <1>2, <1>4, ConsumeFrame DEF Malformed
<1>6. errs \in Seq(ErrorValues) /\ MaxErrors \in Nat /\ {ErrBadFrame} \in ErrorValues
  BY BoundsAssumption DEF StreamInv, Reports, ErrorValues
<1>7. /\ errs' \in Seq(ErrorValues) /\ Len(errs) \in Nat /\ Len(errs') = Len(errs) + 1
      /\ \A j \in 1 .. Len(errs) : errs'[j] = errs[j]
      /\ errs'[Len(errs) + 1] = {ErrBadFrame}
      /\ \A x : Contains(errs, x)' <=> Contains(errs, x) \/ x = {ErrBadFrame}
      /\ NumReported({ErrBadFrame}) \in Nat
      /\ NumReported({ErrBadFrame})' = NumReported({ErrBadFrame}) + 1
  BY <1>1, <1>6, ReportStep
<1>8. /\ ~ Contains(errs, {EOF})' /\ Len(errs') <= MaxErrors
      /\ \A j \in 1 .. Len(errs') :
           \/ errs'[j] \in {{ErrBadFrame}, {TooLarge}}
           \/ j \in 1 .. Len(errs) /\ errs'[j] = errs[j]
  <2>1. {EOF} # {ErrBadFrame}
    BY ErrorsAreTold
  <2>2. ~ Contains(errs, {EOF})' /\ Len(errs') <= MaxErrors
    <3>1. Len(errs') <= MaxErrors
      BY <1>3, <1>6, <1>7
    <3>2. Contains(errs, {EOF})' <=> Contains(errs, {EOF}) \/ {EOF} = {ErrBadFrame}
      BY <1>7
    <3> QED
      BY <1>3, <2>1, <3>1, <3>2
  <2>3. \A j \in 1 .. Len(errs') : j \in 1 .. Len(errs) \/ j = Len(errs) + 1
    BY <1>7
  <2> QED
    BY <1>7, <2>2, <2>3
<1>9. TypeOK' /\ Subscribing' /\ Alignment'
  <2>1. TypeOK'
    BY <1>1, <1>2, <1>3, <1>4, <1>8 DEF StreamInv, TypeOK, Total, streamVars
  <2>2. pos' >= PreambleLen
    BY <1>3, <1>4, EmptyRead, AfterReader, <1>1 DEF After, StreamInv, TypeOK, PreambleLen
  <2>3. Subscribing'
    BY <1>1, <1>3, <2>2 DEF StreamInv, Subscribing, PreambleLen
  <2>4. Alignment'
    BY <1>1, <1>4 DEF Alignment
  <2> QED
    BY <2>1, <2>3, <2>4
<1>10. ReaderAccounting'
  <2>1. heartbeat \in Nat /\ ReaderAccounting
    BY BoundsAssumption DEF StreamInv, TypeOK
  <2>2. frames[Current] # "tx" /\ frames[Current] # "heartbeat"
    OBVIOUS
  <2> QED
    BY <1>1, <1>2, <1>4, <1>5, <2>1, <2>2, SkippedStep
<1>11. ErrorsHaveCauses' /\ CloseKeepsCode' /\ Closed' = {}
  <2>1. NumReported({ErrBadFrame}) = NumMalformed =>
          NumReported({ErrBadFrame})' = NumMalformed'
    BY <1>5, <1>7
  <2> QED
    BY <1>2, <1>3, <1>8, <2>1, WhileReading DEF StreamInv
<1>12. Reports'
  <2>1. NumReported({ErrBadFrame})' >= NumMalformed'
    BY <1>5, <1>7 DEF StreamInv, Reports
  <2> QED
    BY <1>2, <1>7, <1>8, <1>11, <2>1 DEF StreamInv, Reports
<1> QED
  BY <1>9, <1>10, <1>11, <1>12 DEF StreamInv

LEMMA ReadHeaderStep ==
  ASSUME StreamInv, Arrivals, ReadHeader
  PROVE  StreamInv'
BY PrefixStep, EmptyFrameStep

LEMMA ReadBodyStep ==
  ASSUME StreamInv, ReadBody
  PROVE  StreamInv'
<1>0. next = "body" /\ DataReady /\ got = 1 /\ InFrame = 3
  <2>1. next = "body" /\ DataReady /\ got = 1
    BY DEF ReadBody, ReadDone
  <2> QED
    BY <2>1, Reading
<1>1. /\ UNCHANGED <<streamVars, armed, expired, sub, subErr>>
      /\ next = "body" /\ DataReady /\ pos' = pos + 1 /\ got = 1 /\ got' = 0
      /\ frames[Current] # "empty"
      /\ next' \in {"idle", "header"}
      /\ IF frames[Current] = "malformed" THEN errs' = Append(errs, {ErrBadFrame})
                                          ELSE errs' = errs
      /\ IF frames[Current] = "tx" THEN returned' = Append(returned, Current)
                                   ELSE returned' = returned
      /\ heartbeat' = IF frames[Current] = "heartbeat" THEN Current ELSE heartbeat
      /\ next' = "header" => errs' = errs
  BY <1>0, AfterReader DEF ReadBody, ReadDone, Fail, After
<1>2. UNCHANGED <<frames, end, arrived>>
  BY <1>1 DEF streamVars
<1>3. /\ sub = "live" /\ pos >= PreambleLen /\ pos \in Nat /\ pos + 1 \in 0 .. arrived
      /\ end \in {nil, {EOF}} /\ ~ Contains(errs, {EOF})
      /\ ~ Contains(errs, {TooLarge}) /\ Len(errs) < MaxErrors
      /\ InFrame = 3
      /\ Closed = {}
  BY <1>1, Reading
<1>4. /\ InFrame' = 0 /\ NumConsumed \in Nat
      /\ Current = NumConsumed + 1 /\ Current \in 1 .. MaxFrames
      /\ Consumed' = Consumed \cup {Current}
      /\ NumMalformed \in Nat
      /\ frames[Current] = "malformed" => NumMalformed' = NumMalformed + 1
      /\ frames[Current] # "malformed" => NumMalformed' = NumMalformed
  <2>1. TypeOK /\ Len(frames) \in Nat /\ Len(frames) <= MaxFrames
    BY DEF StreamInv, TypeOK
  <2>2. Current \in 1 .. MaxFrames
    BY <1>1, <1>2, <1>3, <2>1, ReadStep, BoundsAssumption
  <2> QED
    BY <1>1, <1>2, <1>3, <2>1, <2>2, ReadStep, ConsumeStep DEF Malformed
<1>5. /\ frames[Current] = "malformed" =>
           NumReported({ErrBadFrame})' = NumReported({ErrBadFrame}) + 1
      /\ frames[Current] # "malformed" =>
           NumReported({ErrBadFrame})' = NumReported({ErrBadFrame})
      /\ NumReported({ErrBadFrame}) \in Nat
      /\ ~ Contains(errs, {EOF})' /\ errs' \in Seq(ErrorValues)
      /\ Len(errs') <= MaxErrors
      /\ next' = "header" => Len(errs') < MaxErrors /\ ~ Contains(errs, {TooLarge})'
      /\ \A j \in 1 .. Len(errs') :
           \/ errs'[j] \in {{ErrBadFrame}, {TooLarge}}
           \/ j \in 1 .. Len(errs) /\ errs'[j] = errs[j]
  <2>1. errs \in Seq(ErrorValues) /\ MaxErrors \in Nat /\ Len(errs) \in Nat
    BY BoundsAssumption DEF StreamInv, Reports
  <2>2. NumReported({ErrBadFrame}) \in Nat
    BY <2>1, CountPart DEF NumReported
  <2>3. CASE frames[Current] = "malformed"
    <3>1. {ErrBadFrame} \in ErrorValues /\ {ErrBadFrame} # {EOF}
      BY ErrorsAreTold DEF ErrorValues
    <3>2. /\ errs' = Append(errs, {ErrBadFrame})
          /\ errs' \in Seq(ErrorValues) /\ Len(errs') = Len(errs) + 1
          /\ \A j \in 1 .. Len(errs) : errs'[j] = errs[j]
          /\ errs'[Len(errs) + 1] = {ErrBadFrame}
          /\ \A x : Contains(errs, x)' <=> Contains(errs, x) \/ x = {ErrBadFrame}
          /\ NumReported({ErrBadFrame})' = NumReported({ErrBadFrame}) + 1
      BY <1>1, <2>1, <2>3, <3>1, ReportStep
    <3>3. ~ Contains(errs, {EOF})' /\ next' # "header"
      <4>1. errs' # errs
        BY <2>1, <3>2
      <4> QED
        BY <1>1, <1>3, <3>1, <3>2, <4>1
    <3>4. \A j \in 1 .. Len(errs') :
             \/ errs'[j] \in {{ErrBadFrame}, {TooLarge}}
             \/ j \in 1 .. Len(errs) /\ errs'[j] = errs[j]
      BY <2>1, <3>2
    <3>5. Len(errs') <= MaxErrors
      BY <1>3, <2>1, <3>2
    <3> QED
      BY <2>2, <2>3, <3>2, <3>3, <3>4, <3>5
  <2>4. CASE frames[Current] # "malformed"
    BY <1>1, <1>3, <2>1, <2>2, <2>4, SameCounts
  <2> QED
    BY <2>3, <2>4
<1>6. heartbeat \in 0 .. MaxFrames /\ returned \in Seq(1 .. MaxFrames) /\ ReaderAccounting
  BY DEF StreamInv, TypeOK
<1>7. ReaderAccounting' /\ returned' \in Seq(1 .. MaxFrames)
  <2>1. CASE frames[Current] = "tx"
    BY <1>1, <1>2, <1>4, <1>6, <2>1, ReturnedStep
  <2>2. CASE frames[Current] # "tx"
    BY <1>1, <1>2, <1>4, <1>6, <2>2, SkippedStep
  <2> QED
    BY <2>1, <2>2
<1>8. TypeOK'
  <2>1. heartbeat' \in 0 .. MaxFrames
    BY <1>1, <1>4, <1>6
  <2> QED
    BY <1>1, <1>2, <1>3, <1>5, <1>7, <2>1 DEF StreamInv, TypeOK, Total, streamVars
<1>9. Subscribing'
  BY <1>1, <1>3 DEF StreamInv, Subscribing, PreambleLen
<1>10. Alignment'
  BY <1>1, <1>3, <1>4, <1>5 DEF Alignment
<1>11. ErrorsHaveCauses' /\ CloseKeepsCode' /\ Closed' = {}
  <2>1. NumReported({ErrBadFrame}) = NumMalformed =>
          NumReported({ErrBadFrame})' = NumMalformed'
    BY <1>4, <1>5
  <2> QED
    BY <1>2, <1>3, <1>5, <2>1, WhileReading DEF StreamInv
<1>12. Reports'
  <2>1. NumReported({ErrBadFrame})' >= NumMalformed'
    BY <1>4, <1>5 DEF StreamInv, Reports
  <2> QED
    BY <1>2, <1>5, <1>11, <2>1 DEF StreamInv, Reports
<1> QED
  BY <1>7, <1>8, <1>9, <1>10, <1>11, <1>12 DEF StreamInv

\* A read that fails: the stream ended here, and the caller is told why.
LEMMA CutStep ==
  ASSUME StreamInv, HeaderFails \/ BodyFails
  PROVE  StreamInv'
<1>1. PICK err :
        /\ UNCHANGED <<streamVars, pos, armed, expired, sub, subErr, returned, heartbeat>>
        /\ next \in {"header", "body"} /\ next' = "idle" /\ got' = 0
        /\ errs' = Append(errs, err) /\ Causes # {}
        /\ \E cause \in Causes : \/ next = "header" /\ err = headerError(cause, got)
                                 \/ next = "body" /\ err = bodyError(cause)
  BY DEF HeaderFails, BodyFails, ReadFails, Fail
<1>2. UNCHANGED <<frames, end, arrived>>
  BY <1>1 DEF streamVars
<1>3. sub = "live" /\ ~ armed /\ pos >= PreambleLen /\ got \in 0 .. 1
      /\ Len(errs) < MaxErrors /\ ~ Contains(errs, {TooLarge})
  BY <1>1 DEF StreamInv, TypeOK, Subscribing, Alignment
<1>4. /\ end # nil /\ end \in Ends /\ (end = {EOF} => pos = arrived)
      /\ \/ next = "header" /\ err = headerError(end, got)
         \/ next = "body" /\ err = bodyError(end)
  <2>1. \A cause \in Causes : cause = end /\ end # nil /\ (end = {EOF} => pos = arrived)
    BY <1>3 DEF Causes
  <2> QED
    BY <1>1, <2>1 DEF StreamInv, Reports
<1>5. /\ err # {TooLarge}
      /\ err = {EOF} => end = {EOF} /\ next = "header" /\ got = 0
      /\ end = {EOF} /\ err # {EOF} => err = {ErrBadFrame}
      /\ \A a \in {x \in end : x.kind = AppKind} :
           /\ err # {ErrBadFrame} /\ IsTerminal(err)
           /\ CloseInfoFromError(err) = {TerminalError(a.code)}
           /\ next = "header" => (ErrBadFrame \in err <=> got # 0)
           /\ next = "body" => ErrBadFrame \in err
      /\ ~ AppClosed => ~ IsTerminal(err)
  <2>1. next = "body" => err # {EOF} /\ ErrBadFrame \in err
    BY <1>4, ErrorsAreTold DEF bodyError
  <2>2. end = {EOF} => \A a \in end : a.kind # AppKind
    BY ErrorsAreTold
  <2>3. ~ AppClosed => err \in {{EOF}, {ErrBadFrame}}
    BY <1>3, <1>4, CutErrors DEF AppClosed
  <2>4. \A a \in {x \in end : x.kind = AppKind} :
          /\ err # {ErrBadFrame} /\ IsTerminal(err)
          /\ CloseInfoFromError(err) = {TerminalError(a.code)}
          /\ next = "header" => (ErrBadFrame \in err <=> got # 0)
    BY <1>3, <1>4, CutErrors
  <2>5. /\ err # {TooLarge}
        /\ err = {EOF} => end = {EOF} /\ next = "header" /\ got = 0
        /\ end = {EOF} /\ err # {EOF} => err = {ErrBadFrame}
    BY <1>3, <1>4, <2>1, <2>2, CutErrors
  <2>6. ~ AppClosed => ~ IsTerminal(err)
    BY <2>3, ErrorsAreTold
  <2> QED
    BY <2>1, <2>4, <2>5, <2>6
<1>6. err \in ErrorValues
  BY <1>3, <1>4 DEF ErrorValues
<1>7. /\ errs' \in Seq(ErrorValues) /\ Len(errs) \in Nat /\ Len(errs') = Len(errs) + 1
      /\ \A j \in 1 .. Len(errs) : errs'[j] = errs[j]
      /\ errs'[Len(errs) + 1] = err
      /\ \A x : Contains(errs, x)' <=> Contains(errs, x) \/ x = err
      /\ NumReported({ErrBadFrame}) \in Nat
      /\ err = {ErrBadFrame} =>
           NumReported({ErrBadFrame})' = NumReported({ErrBadFrame}) + 1
      /\ err # {ErrBadFrame} =>
           NumReported({ErrBadFrame})' = NumReported({ErrBadFrame})
  BY <1>1, <1>6, ReportStep DEF StreamInv, Reports
<1>8. UNCHANGED <<InFrame, NumMalformed, Consumed, AtBoundary>> /\ NumMalformed \in Nat
  <2>1. NumConsumed \in Nat
    BY <1>3, HalvesOfFrames DEF StreamInv, TypeOK, NumConsumed, PreambleLen, FrameLen
  <2>2. NumMalformed \in Nat
    BY <2>1, CountPart DEF NumMalformed, Consumed
  <2> QED
    BY <1>1, <1>2, <2>2, SameCounts
<1>9. NumReported({ErrBadFrame}) >= NumMalformed
  BY DEF StreamInv, Reports
<1>10. /\ NumReported({ErrBadFrame})' >= NumReported({ErrBadFrame})
       /\ NumReported({ErrBadFrame})' >= NumMalformed'
       /\ end = {EOF} /\ err # {EOF} => NumReported({ErrBadFrame})' > NumMalformed'
  BY <1>5, <1>7, <1>8, <1>9
<1>11. TypeOK' /\ Subscribing' /\ ReaderAccounting'
  <2>1. MaxErrors \in Nat
    BY BoundsAssumption
  <2>2. Len(errs') <= MaxErrors
    BY <1>3, <1>7, <2>1
  <2> QED
    BY <1>1, <1>2, <1>3, <2>2, AccountingKept
       DEF StreamInv, TypeOK, Subscribing, Total, streamVars
<1>12. /\ Closed' = Closed \cup (IF IsTerminal(err) THEN {Len(errs) + 1} ELSE {})
       /\ Closed \subseteq 1 .. Len(errs)
  BY <1>7 DEF Closed
<1>13. (AppClosed' <=> AppClosed) /\ (Closed # {} => AppClosed /\ got = 0 /\ next = "header")
       /\ (AppClosed => IsTerminal(err))
  BY <1>1, <1>2, <1>5 DEF StreamInv, Reports, AppClosed
<1>14. Reports'
  <2>1. Closed' # {} => AppClosed'
    BY <1>5, <1>12, <1>13
  <2> QED
    BY <1>1, <1>2, <1>4, <1>5, <1>7, <1>10, <2>1 DEF StreamInv, Reports
<1>15. err = {EOF} => InFrame = 0 \/ Severed
  BY <1>3, <1>5 DEF StreamInv, Alignment
<1>16. Severed => Severed'
  BY <1>1, <1>2, <1>7, <1>8, <1>9, <1>10, <1>12, <1>13 DEF Severed
<1>17. err # {EOF} => Severed'
  BY <1>1, <1>2, <1>4, <1>10, <1>12, <1>13 DEF Severed
<1>18. Alignment'
  BY <1>1, <1>8, <1>15, <1>16, <1>17 DEF Alignment
<1>19. ErrorsHaveCauses'
  <2>1. Contains(errs, {EOF})' =>
          end = {EOF} /\ (AtBoundary' \/ NumReported({ErrBadFrame})' > NumMalformed')
    <3>1. CASE Contains(errs, {EOF})
      BY <1>7, <1>8, <1>9, <1>10, <3>1 DEF StreamInv, ErrorsHaveCauses
    <3>2. CASE err = {EOF}
      BY <1>5, <1>8, <1>7, <1>9, <1>10, <1>15, <3>2 DEF Severed, AtBoundary, InFrame
    <3> QED
      BY <1>7, <3>1, <3>2
  <2> QED
    BY <1>2, <1>4, <2>1 DEF ErrorsHaveCauses
<1>20. CloseKeepsCode'
  <2> SUFFICES ASSUME NEW a \in end, a.kind = AppKind
               PROVE  /\ NumReported({ErrBadFrame})' = NumMalformed'
                      /\ \A j \in 1 .. Len(errs') :
                           errs'[j] \notin {{TooLarge}, {ErrBadFrame}} =>
                             CloseInfoFromError(errs'[j]) = {TerminalError(a.code)}
                      /\ \A j \in Closed' :
                           ErrBadFrame \in errs'[j] <=>
                             ~ AtBoundary /\ \A i \in Closed' : j <= i
    BY <1>2, <1>8 DEF CloseKeepsCode
  <2>1. /\ NumReported({ErrBadFrame}) = NumMalformed
        /\ \A j \in 1 .. Len(errs) : errs[j] \notin {{TooLarge}, {ErrBadFrame}} =>
             CloseInfoFromError(errs[j]) = {TerminalError(a.code)}
        /\ \A j \in Closed :
             ErrBadFrame \in errs[j] <=> ~ AtBoundary /\ \A i \in Closed : j <= i
    BY DEF StreamInv, CloseKeepsCode
  <2>2. err # {ErrBadFrame} /\ CloseInfoFromError(err) = {TerminalError(a.code)}
    BY <1>5
  <2>3. \A j \in 1 .. Len(errs') : j \in 1 .. Len(errs) \/ j = Len(errs) + 1
    BY <1>7
  <2>4. AppClosed /\ IsTerminal(err) /\ Closed' = Closed \cup {Len(errs) + 1}
    BY <1>12, <1>13 DEF AppClosed
  <2>5. \A j \in Closed :
          ErrBadFrame \in errs'[j] <=> ~ AtBoundary /\ \A i \in Closed' : j <= i
    BY <1>7, <1>12, <2>1, <2>4
  <2>6. ErrBadFrame \in err <=> ~ AtBoundary /\ \A i \in Closed : Len(errs) + 1 <= i
    <3>1. CASE Closed = {}
      <4>1. ~ Severed
        BY <2>4, <3>1 DEF Severed
      <4>2. (next = "header" => InFrame = got) /\ (next = "body" => InFrame = 2 + got)
        BY <1>3, <4>1 DEF StreamInv, Alignment
      <4>3. AtBoundary <=> InFrame = 0
        BY DEF AtBoundary, InFrame
      <4>4. next = "header" => (ErrBadFrame \in err <=> got # 0)
        BY <1>5
      <4>5. next = "body" => ErrBadFrame \in err
        BY <1>5
      <4> QED
        BY <1>1, <1>3, <3>1, <4>2, <4>3, <4>4, <4>5
    <3>2. CASE Closed # {}
      <4>1. ErrBadFrame \notin err
        BY <1>5, <1>13, <3>2
      <4>2. PICK i \in Closed : TRUE
        BY <3>2
      <4>3. ~ (Len(errs) + 1 <= i)
        BY <1>7, <1>12, <4>2
      <4> QED
        BY <4>1, <4>2, <4>3
    <3> QED
      BY <3>1, <3>2
  <2>7. \A j \in Closed' :
          ErrBadFrame \in errs'[j] <=> ~ AtBoundary /\ \A i \in Closed' : j <= i
    BY <1>7, <2>4, <2>5, <2>6
  <2> QED
    BY <1>7, <1>8, <2>1, <2>2, <2>3, <2>7
<1> QED
  BY <1>11, <1>14, <1>18, <1>19, <1>20 DEF StreamInv

-----------------------------------------------------------------------------
LEMMA StreamInit == Init => StreamInv
<1> SUFFICES ASSUME Init PROVE StreamInv
  OBVIOUS
<1>1. PICK n \in 0 .. MaxFrames : frames \in [1 .. n -> Kinds]
  BY DEF Init
<1>2. frames \in Seq(Kinds) /\ Len(frames) = n /\ n \in Nat
  BY <1>1, BoundsAssumption
<1>3. TypeOK
  <2>1. 0 \in 0 .. Total
    BY <1>2 DEF Total, PreambleLen, FrameLen
  <2>2. returned \in Seq(1 .. MaxFrames) /\ Len(errs) <= MaxErrors
    BY BoundsAssumption DEF Init
  <2>3. Len(frames) <= MaxFrames /\ 0 \in 0 .. MaxFrames /\ 0 \in 0 .. 1
    BY <1>2, BoundsAssumption
  <2>4. /\ goodMagic \in BOOLEAN /\ opened \in BOOLEAN
        /\ armed \in BOOLEAN /\ expired \in BOOLEAN
    BY DEF Init
  <2>5. arrived \in 0 .. Total /\ pos \in 0 .. arrived
    BY <2>1 DEF Init
  <2> QED
    BY <1>2, <2>2, <2>3, <2>4, <2>5 DEF Init, TypeOK
<1>4. Subscribing
  BY DEF Init, Subscribing, PreambleLen
<1>5. /\ NumMalformed = 0 /\ NumReported({ErrBadFrame}) = 0 /\ Consumed = {}
      /\ \A x : ~ Contains(errs, x)
      /\ Closed = {}
  BY <1>3, <1>4, NothingYet DEF Init
<1>6. Alignment /\ Reports
  BY <1>5 DEF Init, Alignment, Reports
<1>7. ReaderAccounting /\ ErrorsHaveCauses /\ CloseKeepsCode
  BY <1>5 DEF Init, ReaderAccounting, ErrorsHaveCauses, CloseKeepsCode, Range, nil
<1> QED
  BY <1>3, <1>4, <1>6, <1>7 DEF StreamInv

LEMMA StreamStep == StreamInv /\ Arrivals /\ [Next]_vars => StreamInv'
BY ServerStep, EndStep, SubscribeStep, NextCalledStep, ReadMoreStep, ReadHeaderStep,
   ReadBodyStep, CutStep DEF Next, nextFrame

LEMMA ArrivalsInvariance == Spec => []Arrivals
<1>1. Init => Arrivals
  BY StreamInit DEF Init, StreamInv, TypeOK, Arrivals, WholeFrames, PreambleLen, FrameLen
<1> QED
  BY <1>1, ArrivalsStep, PTL DEF Spec

LEMMA StreamInvariance == Spec => []StreamInv
BY StreamInit, StreamStep, ArrivalsInvariance, PTL DEF Spec

\* The state of the stream and of both calls stays within its type.
THEOREM StreamTypes == Spec => []TypeOK
<1>1. StreamInv => TypeOK
  BY DEF StreamInv
<1> QED
  BY <1>1, StreamInvariance, PTL

\* Next has returned the transaction frames it has read past, all of them, once
\* and in order, and Heartbeat() is the last heartbeat frame among them.
THEOREM FramesAccounted == Spec => []ReaderAccounting
<1>1. StreamInv => ReaderAccounting
  BY DEF StreamInv
<1> QED
  BY <1>1, StreamInvariance, PTL

\* Next fails for a reason in the stream only: the preamble's deadline does not
\* outlive it, and io.EOF is the server's end, a cut frame told of before.
THEOREM FailuresHaveCauses == Spec => []ErrorsHaveCauses
<1>1. StreamInv => ErrorsHaveCauses
  BY DEF StreamInv
<1> QED
  BY <1>1, StreamInvariance, PTL

\* An application close reaches every call of Next that it ends with its code,
\* wherever in a frame it falls, joined with ErrBadFrame inside a frame and
\* without it at a boundary.
THEOREM CloseCodeKept == Spec => []CloseKeepsCode
<1>1. StreamInv => CloseKeepsCode
  BY DEF StreamInv
<1> QED
  BY <1>1, StreamInvariance, PTL
=============================================================================
