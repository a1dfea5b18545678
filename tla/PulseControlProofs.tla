------------------------- MODULE PulseControlProofs -------------------------
(***************************************************************************)
(* Proofs about PulseControl, for any number of calls and any close codes. *)
(*                                                                         *)
(* None of its safety properties is inductive: each speaks of finished     *)
(* calls, or of what was written, and rests on how the unfinished ones got *)
(* where they are.  ControlInv says it for every call at every moment.     *)
(***************************************************************************)
EXTENDS PulseControl, TLAPS, FiniteSetTheorems

Refusal(c) == Envelope("error", FALSE, {c}, {})
Answers == {Silence} \cup Acks \cup Refusals \cup OtherAnswers
CloseErrors == {{AppError(c)} : c \in CloseCodes \cup {0}} \cup {{Transport}}

Success(k) == pc[k] = "done" /\ result[k] = nil

\* A message is written on the way to the read and answered at most once.
Conversation ==
  /\ answer \in [Calls -> Answers]
  /\ \A k \in Calls :
       /\ pc[k] \in {"idle", "open", "write"} => k \notin written
       /\ k \notin written => answer[k] = Silence
       /\ k \in inbox => answer[k] = Silence

\* The compare-and-swap lets one call through, and only its success lets an
\* UpdateFilter call exist.
Claimed(k) == pc[k] \in {"open", "write", "read"} \/ k \in written

OneClaim ==
  /\ \A k \in Subscribes : ~subscriptionTaken => pc[k] = "idle"
  /\ \A j, k \in Subscribes : Claimed(j) /\ Claimed(k) => j = k
  /\ \A k \in Updates : pc[k] # "idle" => Subscribed

Accepted ==
  /\ DOMAIN result = Calls
  /\ \A k \in Calls : Success(k) => k \in written /\ answer[k] \in Acks
  /\ \A k \in Subscribes : Success(k) =>
       answer[k] = Envelope("ack", TRUE, {}, {WireVersion})
  /\ \A k \in Updates : Success(k) => answer[k].v \in {{}, {WireVersion}}

\* The server names one code, and closes with it if it closes; a call that is
\* over in time has its answer, unless its stream or the connection is down.
OneCode ==
  /\ connErr \in {nil} \cup CloseErrors
  /\ \A j, k \in Calls : \A c, d \in CloseCodes :
       answer[j] = Refusal(c) /\ answer[k] = Refusal(d) => c = d
  /\ \A k \in Calls : \A c \in CloseCodes :
       answer[k] = Refusal(c) => connErr \in {nil, {AppError(0)}, {Transport}, {AppError(c)}}
  /\ \A k \in Calls :
       (pc[k] = "done" /\ k \in written /\ k \notin late \cup reset /\ connErr = nil) =>
         answer[k] # Silence

\* While every call waits for the one before it, the filter is that of the last
\* success until the one call under way is accepted.
Sequential ==
  quiet =>
    /\ \A j, k \in InProgress : j = k
    /\ \A k \in Calls : pc[k] = "done" => k \notin inbox
    /\ \A k \in InProgress : answer[k] \in Acks => filter = k
    /\ (\A k \in InProgress : answer[k] \notin Acks) => filter = acked

ControlInv ==
  /\ TypeOK /\ Conversation /\ OneClaim /\ Accepted
  /\ OneCode /\ RefusalKeepsCode /\ Sequential

-----------------------------------------------------------------------------
(* What readAck and wrapConnectionError make of an answer. *)

LEMMA AnswersDiffer ==
  /\ Silence \notin Acks
  /\ Silence \notin Refusals \cup OtherAnswers
  /\ \A c : Refusal(c) \notin Acks /\ Refusal(c) # Silence
  /\ \A c, d : Refusal(c) = Refusal(d) => c = d
<1>1. Silence \notin Acks
  BY DEF Silence, Acks, Envelope
<1>2. Silence \notin Refusals \cup OtherAnswers
  BY DEF Silence, Refusals, OtherAnswers, Envelope, Malformed, EndOfStream
<1>3. \A c : Refusal(c) \notin Acks /\ Refusal(c) # Silence
  BY DEF Silence, Acks, Refusal, Envelope
<1>4. \A c, d : Refusal(c) = Refusal(d) => c = d
  BY DEF Refusal, Envelope
<1> QED
  BY <1>1, <1>2, <1>3, <1>4

LEMMA RefusalIsNoOther ==
  ASSUME NEW c \in CloseCodes
  PROVE  Refusal(c) \notin OtherAnswers
<1>1. Refusal(c).type = "error" /\ Refusal(c).code = {c} /\ {c} # {}
  BY DEF Refusal, Envelope
<1>2. Malformed.code = {} /\ EndOfStream.code = {}
  BY DEF Malformed, EndOfStream, Envelope
<1>3. Envelope("ack", FALSE, {}, {}).code = {} /\ Envelope("error", FALSE, {}, {}).code = {}
  BY DEF Envelope
<1>4. Envelope("ack", TRUE, {1}, {}).type = "ack"
  BY DEF Envelope
<1> QED
  BY <1>1, <1>2, <1>3, <1>4 DEF OtherAnswers

\* Only an acknowledgement reads as success, for a subscription only one with v,
\* for an update none with another v.
LEMMA ReadAckSuccess ==
  ASSUME NEW k \in Calls, answer[k] \in Answers, answer[k] # Silence,
         readAck(k) = nil
  PROVE  /\ answer[k] \in Acks
         /\ k \in Subscribes => answer[k] = Envelope("ack", TRUE, {}, {WireVersion})
         /\ k \in Updates => answer[k].v \in {{}, {WireVersion}}
<1>1. answer[k] # EndOfStream /\ answer[k] # Malformed
  BY DEF readAck, nil
<1>2. CASE answer[k] \in Acks
  <2>1. PICK v \in {{}, {WireVersion}, {WireVersion + 1}} :
          answer[k] = Envelope("ack", TRUE, {}, v)
    BY <1>2 DEF Acks
  <2>2. checkAckEnvelope(answer[k]) = nil /\ answer[k].v = v
    BY <2>1 DEF checkAckEnvelope, Envelope
  <2>3. k \in Subscribes => v = {WireVersion}
    BY <1>1, <2>2 DEF readAck, checkInitialAck, nil
  <2>4. k \in Updates => v \in {{}, {WireVersion}}
    BY <1>1, <2>2, CallsAssumption DEF readAck, checkUpdateAck, nil
  <2> QED
    BY <1>2, <2>1, <2>2, <2>3, <2>4
<1>3. CASE answer[k] \in Refusals
  <2>1. PICK c \in CloseCodes : answer[k] = Envelope("error", FALSE, {c}, {})
    BY <1>3 DEF Refusals
  <2>2. checkAckEnvelope(answer[k]) = {TerminalError(c)}
    BY <2>1 DEF checkAckEnvelope, Envelope
  <2> QED
    BY <1>1, <2>2 DEF readAck, checkInitialAck, checkUpdateAck, nil
<1>4. CASE answer[k] \in OtherAnswers
  <2>1. checkAckEnvelope(answer[k]) # nil
    BY <1>1, <1>4 DEF OtherAnswers, checkAckEnvelope, Envelope, nil
  <2> QED
    BY <1>1, <2>1 DEF readAck, checkInitialAck, checkUpdateAck
<1> QED
  BY <1>2, <1>3, <1>4 DEF Answers

\* The code of an error envelope survives the checks.
LEMMA ReadAckRefusal ==
  ASSUME NEW k \in Calls, NEW c \in CloseCodes, answer[k] = Refusal(c)
  PROVE  CloseInfoFromError(readAck(k)) = {TerminalError(c)}
<1>1. answer[k] # EndOfStream /\ answer[k] # Malformed
  <2>1. answer[k].code = {c} /\ {c} # {}
    BY DEF Refusal, Envelope
  <2>2. EndOfStream.code = {} /\ Malformed.code = {}
    BY DEF EndOfStream, Malformed, Envelope
  <2> QED
    BY <2>1, <2>2
<1>2. checkAckEnvelope(answer[k]) = {TerminalError(c)}
  BY DEF checkAckEnvelope, Refusal, Envelope
<1>3. readAck(k) = {TerminalError(c)}
  BY <1>1, <1>2 DEF readAck, checkInitialAck, checkUpdateAck, nil
<1> QED
  BY <1>3 DEF CloseInfoFromError, TerminalError

\* An application close anywhere in the error becomes a terminal one.
LEMMA MapAppError ==
  ASSUME NEW c
  PROVE  CloseInfoFromError(mapTerminalError({AppError(c)})) = {TerminalError(c)}
<1> DEFINE app == {e \in {AppError(c)} : e.kind = AppKind}
<1>1. app = {AppError(c)} /\ ~IsTerminal({AppError(c)})
  BY DEF AppError, AppKind, IsTerminal
<1>2. (CHOOSE e \in app : TRUE) = AppError(c)
  BY <1>1
<1>3. mapTerminalError({AppError(c)}) = {TerminalError(c), AppError(c)}
  BY <1>1, <1>2 DEF mapTerminalError, AppError
<1> QED
  BY <1>3 DEF CloseInfoFromError, TerminalError, AppError, AppKind

LEMMA MapKeepsFailure ==
  ASSUME NEW err, err # nil
  PROVE  mapTerminalError(err) # nil
BY DEF mapTerminalError, nil

-----------------------------------------------------------------------------
(* The steps a call takes, in the four kinds the proofs tell apart. *)

\* A call under way returns: with success only on its own acknowledgement, in
\* time only with an answer or a failed stream or connection, and with the
\* server's code if that was the answer.
Ends(k, err) ==
  /\ pc[k] \in {"open", "write", "read"}
  /\ Finish(k, err)
  /\ UNCHANGED <<subscriptionTaken, late, written, inbox, answer, connErr, filter>>
  /\ reset' \in {reset, reset \cup {k}}
  /\ err = nil =>
       /\ pc[k] = "read" /\ answer[k] \in Acks
       /\ k \in Subscribes => answer[k] = Envelope("ack", TRUE, {}, {WireVersion})
       /\ k \in Updates => answer[k].v \in {{}, {WireVersion}}
  /\ pc[k] = "read" /\ k \notin late \cup reset' =>
       /\ connErr = nil => answer[k] # Silence
       /\ \A c \in CloseCodes :
            answer[k] = Refusal(c) /\ connErr \notin {{AppError(0)}, {Transport}} =>
              CloseInfoFromError(err) = {TerminalError(c)}

LEMMA CallReturns ==
  ASSUME ControlInv, NEW k \in Calls, Returns(k) \/ StreamFails(k) \/ OpenCancelled(k)
  PROVE  \E err : Ends(k, err)
<1> USE DEF ControlInv
<1>0. answer[k] \in Answers
  BY DEF Conversation
<1>1. CASE ReadAnswer(k)
  <2>1. Ends(k, readAck(k))
    BY <1>0, <1>1, ReadAckSuccess, ReadAckRefusal DEF ReadAnswer, Ends, serverVars
  <2> QED
    BY <2>1
<1>2. CASE ConnectionFails(k)
  <2>1. mapTerminalError(connErr) # nil /\ connErr # nil
    BY <1>2, MapKeepsFailure DEF ConnectionFails
  <2>2. ASSUME NEW c \in CloseCodes, answer[k] = Refusal(c),
               connErr \notin {{AppError(0)}, {Transport}}
        PROVE  CloseInfoFromError(mapTerminalError(connErr)) = {TerminalError(c)}
    <3>1. connErr = {AppError(c)}
      BY <2>1, <2>2 DEF OneCode
    <3> QED
      BY <3>1, MapAppError
  <2>3. Ends(k, mapTerminalError(connErr))
    BY <1>2, <2>1, <2>2 DEF ConnectionFails, Ends, serverVars
  <2> QED
    BY <2>3
<1>3. CASE TimesOut(k)
  <2>1. Ends(k, {Plain("deadline exceeded")})
    BY <1>3 DEF TimesOut, Ends, serverVars, nil
  <2> QED
    BY <2>1
<1>4. CASE OpenCancelled(k)
  <2>1. Ends(k, {Plain("context canceled")})
    BY <1>4 DEF OpenCancelled, Ends, serverVars, nil
  <2> QED
    BY <2>1
<1>5. CASE StreamFails(k)
  <2>1. Ends(k, {Transport})
    BY <1>5 DEF StreamFails, Ends, nil
  <2> QED
    BY <2>1
<1> QED
  BY <1>1, <1>2, <1>3, <1>4, <1>5 DEF Returns

\* A Subscribe call after the first fails at once.
Denied(k) ==
  /\ pc[k] = "idle" /\ subscriptionTaken
  /\ Finish(k, {Plain("ErrAlreadySubscribed")})
  /\ UNCHANGED <<subscriptionTaken, late, written, serverVars>>

\* The first Subscribe call, or a call on its subscription, gets under way.
Begins(k) ==
  /\ pc[k] = "idle"
  /\ pc' = [pc EXCEPT ![k] = "open"]
  /\ quiet' = (quiet /\ InProgress = {})
  /\ \/ k \in Subscribes /\ ~subscriptionTaken /\ subscriptionTaken'
     \/ k \in Updates /\ Subscribed /\ UNCHANGED subscriptionTaken
  /\ UNCHANGED <<result, late, written, serverVars, acked>>

\* The connection ends, with a code the server named if it names one.
GoesDown ==
  /\ connErr = nil
  /\ connErr' \in CloseErrors
  /\ \A k \in Calls : \A c \in CloseCodes :
       answer[k] = Refusal(c) => connErr' \in {{AppError(0)}, {Transport}, {AppError(c)}}
  /\ UNCHANGED <<subscriptionTaken, pc, result, late, written, inbox, answer,
                 filter, reset, acked, quiet>>

Answered(k, reply) ==
  /\ Serve(k, reply)
  /\ reply \in Answers \ {Silence}
  /\ \A j \in Calls : \A c, d \in CloseCodes :
       answer[j] = Refusal(c) => reply # Refusal(d)

LEMMA ConnectionEnds ==
  ASSUME ControlInv,
         CloseClient \/ (\E code \in CloseCodes : ServerCloses(code)) \/ ConnectionLost
  PROVE  GoesDown
<1> USE DEF ControlInv
<1>0. ASSUME NEW k \in Calls, NEW c \in CloseCodes, answer[k] = Refusal(c)
      PROVE  c \in Refused
  <2>1. answer[k] \in {answer[j] : j \in Calls} \cap Refusals
    BY <1>0 DEF Refusals, Refusal
  <2>2. answer[k].code = {c}
    BY <1>0 DEF Refusal, Envelope
  <2> QED
    BY <2>1, <2>2 DEF Refused
<1>1. CASE CloseClient
  BY <1>1 DEF CloseClient, GoesDown, CloseErrors
<1>2. CASE \E code \in CloseCodes : ServerCloses(code)
  <2>1. PICK code \in CloseCodes : ServerCloses(code)
    BY <1>2
  <2>2. ASSUME NEW k \in Calls, NEW c \in CloseCodes, answer[k] = Refusal(c)
        PROVE  code = c
    <3>1. code \in Refused
      BY <1>0, <2>1, <2>2 DEF ServerCloses
    <3>2. PICK a \in {answer[j] : j \in Calls} \cap Refusals : code \in a.code
      BY <3>1 DEF Refused
    <3>3. PICK j \in Calls, d \in CloseCodes : a = answer[j] /\ answer[j] = Refusal(d)
      BY <3>2 DEF Refusals, Refusal
    <3>4. code = d
      BY <3>2, <3>3 DEF Refusal, Envelope
    <3> QED
      BY <2>2, <3>3, <3>4 DEF OneCode
  <2> QED
    BY <2>1, <2>2 DEF ServerCloses, GoesDown, CloseErrors
<1>3. CASE ConnectionLost
  BY <1>3 DEF ConnectionLost, GoesDown, CloseErrors
<1> QED
  BY <1>1, <1>2, <1>3

LEMMA ServerAnswers ==
  ASSUME ControlInv, Server
  PROVE  GoesDown \/ \E k \in Calls, reply \in Answers : Answered(k, reply)
<1>1. CASE \E k \in Calls, reply \in Acks \cup OtherAnswers : Serve(k, reply)
  <2>1. PICK k \in Calls, reply \in Acks \cup OtherAnswers : Serve(k, reply)
    BY <1>1
  <2>2. ASSUME NEW c \in CloseCodes
        PROVE  reply # Refusal(c)
    <3>1. Refusal(c) \notin Acks
      BY AnswersDiffer
    <3>2. Refusal(c) \notin OtherAnswers
      BY RefusalIsNoOther
    <3> QED
      BY <2>1, <3>1, <3>2
  <2> QED
    BY <2>1, <2>2, AnswersDiffer DEF Answered, Answers
<1>2. CASE \E k \in Calls, reply \in Refusals : Refused = {} /\ Serve(k, reply)
  <2>1. PICK k \in Calls, reply \in Refusals : Refused = {} /\ Serve(k, reply)
    BY <1>2
  <2>2. ASSUME NEW j \in Calls, NEW c \in CloseCodes, answer[j] = Refusal(c)
        PROVE  FALSE
    <3>1. answer[j] \in {answer[i] : i \in Calls} \cap Refusals
      BY <2>2 DEF Refusals, Refusal
    <3>2. answer[j].code = {c}
      BY <2>2 DEF Refusal, Envelope
    <3> QED
      BY <2>1, <3>1, <3>2 DEF Refused
  <2> QED
    BY <2>1, <2>2, AnswersDiffer DEF Answered, Answers
<1>3. CASE (\E code \in CloseCodes : ServerCloses(code)) \/ ConnectionLost
  BY <1>3, ConnectionEnds
<1> QED
  BY <1>1, <1>2, <1>3 DEF Server

LEMMA StepKinds ==
  ASSUME ControlInv, [Next]_vars
  PROVE  \/ UNCHANGED vars
         \/ GoesDown
         \/ \E k \in Subscribes : Denied(k)
         \/ \E k \in Calls : \/ Begins(k) \/ OpenStream(k) \/ WriteControl(k)
                             \/ Expire(k) \/ (\E err : Ends(k, err))
                             \/ \E reply \in Answers : Answered(k, reply)
<1>1. ASSUME NEW k \in Subscribes, claimSubscription(k)
      PROVE  Denied(k) \/ Begins(k)
  BY <1>1 DEF claimSubscription, Denied, Begins
<1>2. ASSUME NEW k \in Updates, UpdateFilter(k)
      PROVE  Begins(k)
  BY <1>2 DEF UpdateFilter, Begins
<1> QED
  BY <1>1, <1>2, CallReturns, ConnectionEnds, ServerAnswers DEF Next, Calls
-----------------------------------------------------------------------------
(* Every step preserves every part of the invariant. *)

LEMMA TypeStep ==
  ASSUME ControlInv, [Next]_vars
  PROVE  TypeOK'
<1> USE DEF ControlInv, TypeOK, Calls
<1>1. CASE UNCHANGED vars
  BY <1>1 DEF vars, serverVars
<1>2. CASE GoesDown
  BY <1>2 DEF GoesDown
<1>3. ASSUME NEW k \in Subscribes, Denied(k)
      PROVE  TypeOK'
  BY <1>3 DEF Denied, Finish, serverVars
<1>4. ASSUME NEW k \in Calls, Begins(k)
      PROVE  TypeOK'
  BY <1>4 DEF Begins, serverVars
<1>5. ASSUME NEW k \in Calls, OpenStream(k)
      PROVE  TypeOK'
  BY <1>5 DEF OpenStream, serverVars
<1>6. ASSUME NEW k \in Calls, WriteControl(k)
      PROVE  TypeOK'
  BY <1>6 DEF WriteControl
<1>7. ASSUME NEW k \in Calls, Expire(k)
      PROVE  TypeOK'
  BY <1>7 DEF Expire, serverVars
<1>8. ASSUME NEW k \in Calls, NEW err, Ends(k, err)
      PROVE  TypeOK'
  BY <1>8 DEF Ends, Finish, serverVars
<1>9. ASSUME NEW k \in Calls, NEW reply \in Answers, Answered(k, reply)
      PROVE  TypeOK'
  BY <1>9 DEF Answered, Serve
<1> QED
  BY <1>1, <1>2, <1>3, <1>4, <1>5, <1>6, <1>7, <1>8, <1>9, StepKinds

LEMMA ConversationStep ==
  ASSUME ControlInv, [Next]_vars
  PROVE  Conversation'
<1> USE AnswersDiffer DEF ControlInv, TypeOK, Conversation, Calls
<1>1. CASE UNCHANGED vars
  BY <1>1 DEF vars, serverVars
<1>2. CASE GoesDown
  BY <1>2 DEF GoesDown
<1>3. ASSUME NEW k \in Subscribes, Denied(k)
      PROVE  Conversation'
  BY <1>3 DEF Denied, Finish, serverVars
<1>4. ASSUME NEW k \in Calls, Begins(k)
      PROVE  Conversation'
  BY <1>4 DEF Begins, serverVars
<1>5. ASSUME NEW k \in Calls, OpenStream(k)
      PROVE  Conversation'
  BY <1>5 DEF OpenStream, serverVars
<1>6. ASSUME NEW k \in Calls, WriteControl(k)
      PROVE  Conversation'
  BY <1>6 DEF WriteControl
<1>7. ASSUME NEW k \in Calls, Expire(k)
      PROVE  Conversation'
  BY <1>7 DEF Expire, serverVars
<1>8. ASSUME NEW k \in Calls, NEW err, Ends(k, err)
      PROVE  Conversation'
  BY <1>8 DEF Ends, Finish, serverVars
<1>9. ASSUME NEW k \in Calls, NEW reply \in Answers, Answered(k, reply)
      PROVE  Conversation'
  BY <1>9 DEF Answered, Serve
<1> QED
  BY <1>1, <1>2, <1>3, <1>4, <1>5, <1>6, <1>7, <1>8, <1>9, StepKinds

LEMMA AcceptedStep ==
  ASSUME ControlInv, [Next]_vars
  PROVE  Accepted'
<1> USE AnswersDiffer DEF ControlInv, TypeOK, Conversation, Accepted, Success, Calls
<1>1. CASE UNCHANGED vars
  BY <1>1 DEF vars, serverVars
<1>2. CASE GoesDown
  BY <1>2 DEF GoesDown
<1>3. ASSUME NEW k \in Subscribes, Denied(k)
      PROVE  Accepted'
  BY <1>3 DEF Denied, Finish, serverVars, nil
<1>4. ASSUME NEW k \in Calls, Begins(k)
      PROVE  Accepted'
  BY <1>4 DEF Begins, serverVars
<1>5. ASSUME NEW k \in Calls, OpenStream(k)
      PROVE  Accepted'
  BY <1>5 DEF OpenStream, serverVars
<1>6. ASSUME NEW k \in Calls, WriteControl(k)
      PROVE  Accepted'
  BY <1>6 DEF WriteControl
<1>7. ASSUME NEW k \in Calls, Expire(k)
      PROVE  Accepted'
  BY <1>7 DEF Expire, serverVars
<1>8. ASSUME NEW k \in Calls, NEW err, Ends(k, err)
      PROVE  Accepted'
  BY <1>8 DEF Ends, Finish, serverVars
<1>9. ASSUME NEW k \in Calls, NEW reply \in Answers, Answered(k, reply)
      PROVE  Accepted'
  BY <1>9 DEF Answered, Serve
<1> QED
  BY <1>1, <1>2, <1>3, <1>4, <1>5, <1>6, <1>7, <1>8, <1>9, StepKinds

LEMMA OneClaimStep ==
  ASSUME ControlInv, [Next]_vars
  PROVE  OneClaim'
<1> USE CallsAssumption DEF ControlInv, TypeOK, Conversation, Accepted, Success, OneClaim, Claimed, Subscribed, Calls
<1>1. CASE UNCHANGED vars
  BY <1>1 DEF vars, serverVars
<1>2. CASE GoesDown
  BY <1>2 DEF GoesDown
<1>3. ASSUME NEW k \in Subscribes, Denied(k)
      PROVE  OneClaim'
  BY <1>3 DEF Denied, Finish, serverVars
<1>4. ASSUME NEW k \in Calls, Begins(k)
      PROVE  OneClaim'
  BY <1>4 DEF Begins, serverVars
<1>5. ASSUME NEW k \in Calls, OpenStream(k)
      PROVE  OneClaim'
  BY <1>5 DEF OpenStream, serverVars
<1>6. ASSUME NEW k \in Calls, WriteControl(k)
      PROVE  OneClaim'
  BY <1>6 DEF WriteControl
<1>7. ASSUME NEW k \in Calls, Expire(k)
      PROVE  OneClaim'
  BY <1>7 DEF Expire, serverVars
<1>8. ASSUME NEW k \in Calls, NEW err, Ends(k, err)
      PROVE  OneClaim'
  BY <1>8 DEF Ends, Finish, serverVars
<1>9. ASSUME NEW k \in Calls, NEW reply \in Answers, Answered(k, reply)
      PROVE  OneClaim'
  BY <1>9 DEF Answered, Serve
<1> QED
  BY <1>1, <1>2, <1>3, <1>4, <1>5, <1>6, <1>7, <1>8, <1>9, StepKinds

LEMMA OneCodeStep ==
  ASSUME ControlInv, [Next]_vars
  PROVE  OneCode'
<1> USE AnswersDiffer DEF ControlInv, TypeOK, Conversation, OneCode, Calls
<1>1. CASE UNCHANGED vars
  BY <1>1 DEF vars, serverVars
<1>2. CASE GoesDown
  BY <1>2 DEF GoesDown
<1>3. ASSUME NEW k \in Subscribes, Denied(k)
      PROVE  OneCode'
  BY <1>3 DEF Denied, Finish, serverVars
<1>4. ASSUME NEW k \in Calls, Begins(k)
      PROVE  OneCode'
  BY <1>4 DEF Begins, serverVars
<1>5. ASSUME NEW k \in Calls, OpenStream(k)
      PROVE  OneCode'
  BY <1>5 DEF OpenStream, serverVars
<1>6. ASSUME NEW k \in Calls, WriteControl(k)
      PROVE  OneCode'
  BY <1>6 DEF WriteControl
<1>7. ASSUME NEW k \in Calls, Expire(k)
      PROVE  OneCode'
  BY <1>7 DEF Expire, serverVars
<1>8. ASSUME NEW k \in Calls, NEW err, Ends(k, err)
      PROVE  OneCode'
  BY <1>8 DEF Ends, Finish, serverVars
<1>9. ASSUME NEW k \in Calls, NEW reply \in Answers, Answered(k, reply)
      PROVE  OneCode'
  BY <1>9 DEF Answered, Serve
<1> QED
  BY <1>1, <1>2, <1>3, <1>4, <1>5, <1>6, <1>7, <1>8, <1>9, StepKinds

LEMMA RefusalStep ==
  ASSUME ControlInv, [Next]_vars
  PROVE  RefusalKeepsCode'
<1> USE AnswersDiffer DEF ControlInv, TypeOK, Conversation, Accepted, OneCode, RefusalKeepsCode, Refusal, Calls
<1>1. CASE UNCHANGED vars
  BY <1>1 DEF vars, serverVars
<1>2. CASE GoesDown
  BY <1>2 DEF GoesDown, nil
<1>3. ASSUME NEW k \in Subscribes, Denied(k)
      PROVE  RefusalKeepsCode'
  BY <1>3 DEF Denied, Finish, serverVars
<1>4. ASSUME NEW k \in Calls, Begins(k)
      PROVE  RefusalKeepsCode'
  BY <1>4 DEF Begins, serverVars
<1>5. ASSUME NEW k \in Calls, OpenStream(k)
      PROVE  RefusalKeepsCode'
  BY <1>5 DEF OpenStream, serverVars
<1>6. ASSUME NEW k \in Calls, WriteControl(k)
      PROVE  RefusalKeepsCode'
  BY <1>6 DEF WriteControl
<1>7. ASSUME NEW k \in Calls, Expire(k)
      PROVE  RefusalKeepsCode'
  BY <1>7 DEF Expire, serverVars
<1>8. ASSUME NEW k \in Calls, NEW err, Ends(k, err)
      PROVE  RefusalKeepsCode'
  BY <1>8 DEF Ends, Finish, serverVars
<1>9. ASSUME NEW k \in Calls, NEW reply \in Answers, Answered(k, reply)
      PROVE  RefusalKeepsCode'
  BY <1>9 DEF Answered, Serve
<1> QED
  BY <1>1, <1>2, <1>3, <1>4, <1>5, <1>6, <1>7, <1>8, <1>9, StepKinds

LEMMA SequentialStep ==
  ASSUME ControlInv, [Next]_vars
  PROVE  Sequential'
<1> USE AnswersDiffer DEF ControlInv, TypeOK, Conversation, Sequential, InProgress, NotAccepted, Calls
<1>1. CASE UNCHANGED vars
  BY <1>1 DEF vars, serverVars
<1>2. CASE GoesDown
  BY <1>2 DEF GoesDown
<1>3. ASSUME NEW k \in Subscribes, Denied(k)
      PROVE  Sequential'
  BY <1>3 DEF Denied, Finish, serverVars, nil
<1>4. ASSUME NEW k \in Calls, Begins(k)
      PROVE  Sequential'
  BY <1>4 DEF Begins, serverVars
<1>5. ASSUME NEW k \in Calls, OpenStream(k)
      PROVE  Sequential'
  BY <1>5 DEF OpenStream, serverVars
<1>6. ASSUME NEW k \in Calls, WriteControl(k)
      PROVE  Sequential'
  BY <1>6 DEF WriteControl
<1>7. ASSUME NEW k \in Calls, Expire(k)
      PROVE  Sequential'
  BY <1>7 DEF Expire, serverVars
<1>8. ASSUME NEW k \in Calls, NEW err, Ends(k, err)
      PROVE  Sequential'
  BY <1>8 DEF Ends, Finish, serverVars
<1>9. ASSUME NEW k \in Calls, NEW reply \in Answers, Answered(k, reply)
      PROVE  Sequential'
  BY <1>9 DEF Answered, Serve
<1> QED
  BY <1>1, <1>2, <1>3, <1>4, <1>5, <1>6, <1>7, <1>8, <1>9, StepKinds

-----------------------------------------------------------------------------
LEMMA ControlInit == Init => ControlInv
<1> SUFFICES ASSUME Init PROVE ControlInv
  OBVIOUS
<1> USE DEF Init
<1>1. TypeOK
  BY DEF TypeOK
<1>2. Conversation
  BY DEF Conversation, Answers
<1>3. OneClaim
  BY DEF OneClaim, Claimed, Calls
<1>4. Accepted
  BY DEF Accepted, Success, Calls
<1>5. OneCode
  BY AnswersDiffer DEF OneCode
<1>6. RefusalKeepsCode
  BY DEF RefusalKeepsCode
<1>7. Sequential
  BY DEF Sequential, InProgress
<1> QED
  BY <1>1, <1>2, <1>3, <1>4, <1>5, <1>6, <1>7 DEF ControlInv

LEMMA ControlStep == ControlInv /\ [Next]_vars => ControlInv'
BY TypeStep, ConversationStep, OneClaimStep, AcceptedStep, OneCodeStep,
   RefusalStep, SequentialStep DEF ControlInv

LEMMA ControlInvariant == Spec => []ControlInv
BY ControlInit, ControlStep, PTL DEF Spec

\* The variables keep their types, and only written messages are answered or
\* read for.
THEOREM ControlTypes == Spec => []TypeOK
<1>1. ControlInv => TypeOK
  BY DEF ControlInv
<1> QED
  BY <1>1, ControlInvariant, PTL

\* However many Subscribe calls race, at most one writes its initial message,
\* and no update is written before it: claimSubscription and sendControl.
THEOREM InitialMessageOnce == Spec => []OneInitialMessage
<1>1. ControlInv => OneInitialMessage
  <2> SUFFICES ASSUME ControlInv PROVE OneInitialMessage
    OBVIOUS
  <2>1. Cardinality(written \cap Subscribes) <= 1
    <3>1. CASE written \cap Subscribes = {}
      BY <3>1, FS_EmptySet
    <3>2. CASE written \cap Subscribes # {}
      <4>1. PICK k : k \in written \cap Subscribes
        BY <3>2
      <4>2. written \cap Subscribes = {k}
        BY <4>1 DEF ControlInv, OneClaim, Claimed
      <4> QED
        BY <4>2, FS_Singleton
    <3> QED
      BY <3>1, <3>2
  <2>2. written \cap Updates # {} => written \cap Subscribes # {}
    BY DEF ControlInv, Conversation, OneClaim, Accepted, Success, Subscribed, Calls
  <2> QED
    BY <2>1, <2>2 DEF OneInitialMessage
<1> QED
  BY <1>1, ControlInvariant, PTL

\* A call that returns success was accepted by the server, a subscription with
\* wire v2 by name and an update by no other version: readAck, checkInitialAck
\* and checkUpdateAck.
THEOREM SuccessIsAccepted == Spec => []SuccessMeansAccepted
<1>1. ControlInv => SuccessMeansAccepted
  BY DEF ControlInv, Conversation, OneClaim, Accepted, Success, SuccessMeansAccepted, Calls
<1> QED
  BY <1>1, ControlInvariant, PTL

\* A refused call in time reports the server's code, whether the envelope or
\* the close reaches it first, unless its stream was reset or the connection
\* lost: checkAckEnvelope and wrapConnectionError.
THEOREM RefusalCodeKept == Spec => []RefusalKeepsCode
<1>1. ControlInv => RefusalKeepsCode
  BY DEF ControlInv
<1> QED
  BY <1>1, ControlInvariant, PTL

\* A caller that makes one call at a time and loses none to a timeout knows the
\* filter the server applies: UpdateFilter waits for its acknowledgement.
THEOREM LastAckActive == Spec => []LastAckIsActive
<1>1. ControlInv => LastAckIsActive
  BY DEF ControlInv, Sequential, LastAckIsActive
<1> QED
  BY <1>1, ControlInvariant, PTL
=============================================================================
