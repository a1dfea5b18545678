---------------------------- MODULE PulseControl ----------------------------
(***************************************************************************)
(* The control channel of a Client: the claim of its one subscription and  *)
(* the round trips of SubscribeSigFirst, SubscribeFull and UpdateFilter,   *)
(* which open a stream, write one control message and read one             *)
(* acknowledgement, all before a single deadline.                          *)
(*                                                                         *)
(* Calls run concurrently.  A round trip that gives up leaves its stream   *)
(* alone, so the server may still act on the message afterwards.  The      *)
(* server is outside the repository: it may answer anything the client has *)
(* a check for, answer late or never, reset a stream and close the         *)
(* connection, which may also be lost.                                     *)
(***************************************************************************)
EXTENDS PulseErrors, FiniteSets

CONSTANTS
  Subscribes,  \* calls of SubscribeSigFirst and SubscribeFull
  Updates,     \* calls of UpdateFilter on the subscription
  CloseCodes   \* application codes the server closes with

ASSUME CallsAssumption == Subscribes \cap Updates = {}
ASSUME CloseCodesAssumption == CloseCodes \subseteq Nat \ {0}

VARIABLES
  subscriptionTaken,  \* Client.subscriptionTaken
  pc,       \* where each call is
  result,   \* the error a finished call returned, nil for success
  late,     \* calls whose deadline (AckTimeout, or ctx's if sooner) has passed
  written,  \* history: calls that have written their control message
  inbox,    \* messages the server has not acted on
  answer,   \* what the server wrote on each call's stream
  connErr,  \* the error the connection ended with, nil while it is up
  filter,   \* the call whose filter the server applies
  reset,    \* history: calls that failed with their stream, not the connection
  acked,    \* history: the last call that returned success
  quiet     \* history: no call overlapped another, or failed although the
            \* server has accepted its message or may yet do so

vars == <<subscriptionTaken, pc, result, late, written, inbox, answer, connErr,
          filter, reset, acked, quiet>>

serverVars == <<inbox, answer, connErr, filter, reset>>

Calls == Subscribes \cup Updates
NoCall == "no call"

WireVersion == 2

\* What may be read from a control stream: an envelope whose optional code and
\* v are sets of at most one element, bytes that are no envelope, or its end.
Envelope(type, ok, code, v) == [type |-> type, ok |-> ok, code |-> code, v |-> v]
Silence   == Envelope("nothing yet", FALSE, {}, {})
Malformed == Envelope("malformed", FALSE, {}, {})
EndOfStream == Envelope("end of stream", FALSE, {}, {})

Acks == {Envelope("ack", TRUE, {}, v) : v \in {{}, {WireVersion}, {WireVersion + 1}}}
Refusals == {Envelope("error", FALSE, {c}, {}) : c \in CloseCodes}
OtherAnswers == {Envelope("ack", FALSE, {}, {}), Envelope("ack", TRUE, {1}, {}),
                 Envelope("error", FALSE, {}, {}), Malformed, EndOfStream}

InProgress == {k \in Calls : pc[k] \notin {"idle", "done"}}
Subscribed == \E k \in Subscribes : pc[k] = "done" /\ result[k] = nil

Init ==
  /\ subscriptionTaken = FALSE
  /\ pc = [k \in Calls |-> "idle"]
  /\ result = [k \in Calls |-> nil]
  /\ late = {} /\ written = {} /\ inbox = {}
  /\ answer = [k \in Calls |-> Silence]
  /\ connErr = nil /\ reset = {}
  /\ filter = NoCall /\ acked = NoCall
  /\ quiet = TRUE

-----------------------------------------------------------------------------
checkAckEnvelopeNoCode(ack) ==  \* mutant: an error envelope is a rejection
  IF ack.type = "error" \/ ~ack.ok THEN {Plain("RejectedError")} ELSE nil

checkAckEnvelope(ack) ==
  IF ack.type = "error" /\ ack.code # {}
    THEN {TerminalError(c) : c \in ack.code}
  ELSE IF ack.type # "ack" \/ ack.code # {} THEN {ErrBadFrame}
  ELSE IF ~ack.ok THEN {Plain("RejectedError")} ELSE nil

checkInitialAckLenient(ack) ==  \* mutant: a missing v is taken for ours
  IF checkAckEnvelope(ack) = nil /\ ack.v \notin {{}, {WireVersion}}
    THEN {Plain("VersionMismatchError")} ELSE checkAckEnvelope(ack)

checkInitialAck(ack) ==
  IF checkAckEnvelope(ack) # nil THEN checkAckEnvelope(ack)
  ELSE IF ack.v = {} THEN {Plain("ErrMissingNegotiatedVersion")}
  ELSE IF ack.v # {WireVersion} THEN {Plain("VersionMismatchError")}
  ELSE nil

checkUpdateAck(ack) ==
  IF checkAckEnvelope(ack) # nil THEN checkAckEnvelope(ack)
  ELSE IF ack.v \notin {{}, {WireVersion}} THEN {Plain("VersionMismatchError")}
  ELSE nil

\* readAck and the phase-specific check: what the call makes of the answer.
\* Neither rewrites a terminal error, and neither wraps one away.
readAck(k) ==
  LET ack == answer[k]
  IN  IF ack = EndOfStream THEN {EOF}
      ELSE IF ack = Malformed THEN {ErrBadFrame}
      ELSE IF k \in Subscribes THEN checkInitialAck(ack)
      ELSE checkUpdateAck(ack)

-----------------------------------------------------------------------------
\* The server has refused the message, or never had it.
NotAccepted(k) == k \notin inbox /\ answer[k] \notin Acks

Finish(k, err) ==
  /\ pc' = [pc EXCEPT ![k] = "done"]
  /\ result' = [result EXCEPT ![k] = err]
  /\ acked' = IF err = nil THEN k ELSE acked
  /\ quiet' = (quiet /\ (err = nil \/ NotAccepted(k)))

claimSubscriptionOnSuccess(k) ==  \* mutant: looks now, sets once subscribed
  /\ pc[k] = "idle"
  /\ \/ /\ Subscribed
        /\ Finish(k, {Plain("ErrAlreadySubscribed")})
        /\ UNCHANGED subscriptionTaken
     \/ /\ ~Subscribed
        /\ subscriptionTaken' = TRUE
        /\ pc' = [pc EXCEPT ![k] = "open"]
        /\ quiet' = (quiet /\ InProgress = {})
        /\ UNCHANGED <<result, acked>>
  /\ UNCHANGED <<late, written, serverVars>>

\* Subscribe*: the compare-and-swap, then sendControl.
claimSubscription(k) ==
  /\ pc[k] = "idle"
  /\ \/ /\ subscriptionTaken
        /\ Finish(k, {Plain("ErrAlreadySubscribed")})
        /\ UNCHANGED subscriptionTaken
     \/ /\ ~subscriptionTaken
        /\ subscriptionTaken' = TRUE
        /\ pc' = [pc EXCEPT ![k] = "open"]
        /\ quiet' = (quiet /\ InProgress = {})
        /\ UNCHANGED <<result, acked>>
  /\ UNCHANGED <<late, written, serverVars>>

\* UpdateFilter is a method of a subscription, so one must have been returned.
UpdateFilter(k) ==
  /\ pc[k] = "idle"
  /\ Subscribed
  /\ pc' = [pc EXCEPT ![k] = "open"]
  /\ quiet' = (quiet /\ InProgress = {})
  /\ UNCHANGED <<subscriptionTaken, result, late, written, serverVars, acked>>

OpenStreamSkipsWrite(k) ==  \* mutant: waits for an answer to nothing
  /\ pc[k] = "open"
  /\ connErr = nil
  /\ pc' = [pc EXCEPT ![k] = "read"]
  /\ UNCHANGED <<subscriptionTaken, result, late, written, serverVars, acked, quiet>>

\* OpenStreamSync returns a stream; the peer decides when there is credit.
OpenStream(k) ==
  /\ pc[k] = "open"
  /\ connErr = nil
  /\ pc' = [pc EXCEPT ![k] = "write"]
  /\ UNCHANGED <<subscriptionTaken, result, late, written, serverVars, acked, quiet>>

WriteControlFireAndForget(k) ==  \* mutant: does not wait for the answer
  /\ pc[k] = "write"
  /\ connErr = nil
  /\ written' = written \cup {k}
  /\ inbox' = inbox \cup {k}
  /\ Finish(k, nil)
  /\ UNCHANGED <<subscriptionTaken, late, answer, connErr, filter, reset>>

\* Write of the message, Close of the write side, SetReadDeadline.  A failure
\* between them cannot be told from one in the read that follows.
WriteControl(k) ==
  /\ pc[k] = "write"
  /\ connErr = nil
  /\ pc' = [pc EXCEPT ![k] = "read"]
  /\ written' = written \cup {k}
  /\ inbox' = inbox \cup {k}
  /\ UNCHANGED <<subscriptionTaken, result, late, answer, connErr, filter, reset,
                 acked, quiet>>

ReadAnswer(k) ==
  /\ pc[k] = "read"
  /\ answer[k] # Silence
  /\ Finish(k, readAck(k))
  /\ UNCHANGED <<subscriptionTaken, late, written, serverVars>>

\* wrapConnectionError: any blocking operation fails with the connection, even
\* a read whose answer has arrived.
ConnectionFails(k) ==
  /\ pc[k] \in {"open", "write", "read"}
  /\ connErr # nil
  /\ Finish(k, mapTerminalError(connErr))
  /\ UNCHANGED <<subscriptionTaken, late, written, serverVars>>

\* The peer may stop a stream, which fails Write or Close, or reset it, which
\* fails the read even if the answer has arrived.  Nothing in the error's chain
\* is an application close.
StreamFails(k) ==
  /\ pc[k] \in {"write", "read"}
  /\ connErr = nil
  /\ Finish(k, {Transport})
  /\ reset' = reset \cup {k}
  /\ UNCHANGED <<subscriptionTaken, late, written, inbox, answer, connErr, filter>>

TimesOutUnlessReading(k) ==  \* mutant: SetReadDeadline is missing
  /\ pc[k] \in {"open", "write"}
  /\ k \in late
  /\ Finish(k, {Plain("deadline exceeded")})
  /\ UNCHANGED <<subscriptionTaken, late, written, serverVars>>

\* roundTripCtx, SetWriteDeadline and SetReadDeadline carry the same deadline.
TimesOut(k) ==
  /\ pc[k] \in {"open", "write", "read"}
  /\ k \in late
  /\ Finish(k, {Plain("deadline exceeded")})
  /\ UNCHANGED <<subscriptionTaken, late, written, serverVars>>

\* A cancelled context is observed by OpenStreamSync only; write and read are
\* bounded by the deadline alone.
OpenCancelled(k) ==
  /\ pc[k] = "open"
  /\ Finish(k, {Plain("context canceled")})
  /\ UNCHANGED <<subscriptionTaken, late, written, serverVars>>

Expire(k) ==
  /\ pc[k] \in {"open", "write", "read"}
  /\ k \notin late
  /\ late' = late \cup {k}
  /\ UNCHANGED <<subscriptionTaken, pc, result, written, serverVars, acked, quiet>>

\* Client.Close.
CloseClient ==
  /\ connErr = nil
  /\ connErr' = {AppError(0)}
  /\ UNCHANGED <<subscriptionTaken, pc, result, late, written, inbox, answer,
                 filter, reset, acked, quiet>>

-----------------------------------------------------------------------------
\* The server, external.  It takes messages in any order, since each is on its
\* own stream, and applies the filter of a message it accepts.
Serve(k, reply) ==
  /\ k \in inbox
  /\ connErr = nil
  /\ inbox' = inbox \ {k}
  /\ answer' = [answer EXCEPT ![k] = reply]
  /\ filter' = IF reply \in Acks THEN k ELSE filter
  /\ UNCHANGED <<subscriptionTaken, pc, result, late, written, connErr, reset, acked,
                 quiet>>

\* After an error envelope the server closes with the code it named.
Refused == UNION {a.code : a \in {answer[k] : k \in Calls} \cap Refusals}

ServerCloses(code) ==
  /\ connErr = nil
  /\ Refused # {} => code \in Refused
  /\ connErr' = {AppError(code)}
  /\ UNCHANGED <<subscriptionTaken, pc, result, late, written, inbox, answer,
                 filter, reset, acked, quiet>>

\* Idle timeout or stateless reset, at any moment.
ConnectionLost ==
  /\ connErr = nil
  /\ connErr' = {Transport}
  /\ UNCHANGED <<subscriptionTaken, pc, result, late, written, inbox, answer,
                 filter, reset, acked, quiet>>

Server ==
  \/ \E k \in Calls, reply \in Acks \cup OtherAnswers : Serve(k, reply)
  \/ \E k \in Calls, reply \in Refusals : Refused = {} /\ Serve(k, reply)
  \/ \E code \in CloseCodes : ServerCloses(code)
  \/ ConnectionLost

Returns(k) == ReadAnswer(k) \/ ConnectionFails(k) \/ TimesOut(k)

Next ==
  \/ \E k \in Subscribes : claimSubscription(k)
  \/ \E k \in Updates : UpdateFilter(k)
  \/ \E k \in Calls : OpenStream(k) \/ WriteControl(k) \/ Returns(k)
                        \/ StreamFails(k) \/ OpenCancelled(k) \/ Expire(k)
  \/ CloseClient
  \/ Server

Spec == Init /\ [][Next]_vars

\* Time passes, and a blocking operation whose outcome is decided returns.
\* Nothing is assumed of the server, of stream credit or of flow control.
FairSpec ==
  Spec /\ \A k \in Calls : WF_vars(Expire(k)) /\ WF_vars(Returns(k))

-----------------------------------------------------------------------------
TypeOK ==
  /\ subscriptionTaken \in BOOLEAN
  /\ pc \in [Calls -> {"idle", "open", "write", "read", "done"}]
  /\ late \subseteq Calls /\ written \subseteq Calls
  /\ inbox \subseteq written /\ reset \subseteq Calls
  /\ filter \in Calls \cup {NoCall} /\ acked \in Calls \cup {NoCall}
  /\ quiet \in BOOLEAN
  /\ \A k \in Calls : pc[k] = "read" => k \in written

\* However many Subscribe* calls race, at most one initial control message (the
\* one with the token) is ever written, and it is written before any update.
OneInitialMessage ==
  /\ Cardinality(written \cap Subscribes) <= 1
  /\ written \cap Updates # {} => written \cap Subscribes # {}

\* Success means the server accepted that very call: none mistakes a rejection,
\* an error, the end of its stream or another call's answer for its own
\* acknowledgement.  A subscription moreover needs wire v2 by name (sig-first
\* datagrams carry no other proof of it); an update must not be told of another
\* version, and needs a subscription.
SuccessMeansAccepted ==
  /\ \A k \in Calls : pc[k] = "done" /\ result[k] = nil => answer[k] \in Acks
  /\ \A k \in Subscribes : pc[k] = "done" /\ result[k] = nil =>
       answer[k] = Envelope("ack", TRUE, {}, {WireVersion})
  /\ \A k \in Updates : pc[k] = "done" /\ result[k] = nil =>
       answer[k].v \in {{}, {WireVersion}}
  /\ written \cap Updates # {} => Subscribed

\* checkAckEnvelope: a refused call reports the server's code, whether it reads
\* the envelope or the connection's close first.  What can hide the code is the
\* call's deadline, the client's own Close, a connection that was lost rather
\* than closed, and a reset of the call's stream.
RefusalKeepsCode ==
  \A k \in Calls : \A c \in CloseCodes :
    (/\ pc[k] = "done"
     /\ k \in written
     /\ answer[k] = Envelope("error", FALSE, {c}, {})
     /\ k \notin late
     /\ k \notin reset
     /\ connErr \notin {{AppError(0)}, {Transport}}) => CloseInfoFromError(result[k]) = {TerminalError(c)}

\* A program that makes one call at a time, none of which gave up on a message
\* the server accepted or may yet accept, knows the active filter: that of its
\* last success.
LastAckIsActive ==
  quiet /\ InProgress = {} /\ acked # NoCall => filter = acked

\* AckTimeout: no call blocks for ever, not even on a healthy connection to a
\* peer that neither answers nor closes.
EveryCallReturns == \A k \in Calls : pc[k] = "open" ~> pc[k] = "done"
=============================================================================
