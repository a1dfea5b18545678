--------------------------- MODULE SigFirstStats ----------------------------
(***************************************************************************)
(* One call of QueueStats beside a running SigFirstQueue.  The call reads  *)
(* len(s.ch) and s.dropped separately; Go does not order len against the   *)
(* method call, so either read may come first.                             *)
(***************************************************************************)
EXTENDS SigFirstQueue

VARIABLES
  phase,        \* "idle", "calling" or "returned"
  toRead,       \* the fields the call has still to read
  statQueued,   \* QueueStats.Queued
  statDropped,  \* QueueStats.Dropped
  takenBefore,  \* history: items Next had returned when the call began
  moments       \* history: the pairs (depth, drops) that held during the call

statVars  == <<phase, toRead, statQueued, statDropped, takenBefore, moments>>
statsVars == <<queueVars, statVars>>

StatsInit ==
  /\ QueueInit
  /\ phase = "idle" /\ toRead = {"queued", "dropped"}
  /\ statQueued = 0 /\ statDropped = 0
  /\ takenBefore = 0
  /\ moments = {}

StatsBegin ==
  /\ phase = "idle"
  /\ phase' = "calling"
  /\ takenBefore' = Len(taken)
  /\ moments' = {<<Len(ch), dropped>>}
  /\ UNCHANGED <<queueVars, toRead, statQueued, statDropped>>

Finish(field) ==
  /\ phase = "calling"
  /\ field \in toRead
  /\ toRead' = toRead \ {field}
  /\ phase' = IF toRead' = {} THEN "returned" ELSE "calling"

StatsReadQueued ==
  /\ Finish("queued")
  /\ statQueued' = Len(ch)
  /\ UNCHANGED <<queueVars, statDropped, takenBefore, moments>>

StatsReadDropped ==
  /\ Finish("dropped")
  /\ statDropped' = dropped
  /\ UNCHANGED <<queueVars, statQueued, takenBefore, moments>>

\* The queue moves on during the call.
QueueMoves ==
  /\ QueueNext
  /\ moments' = IF phase = "calling" THEN moments \cup {<<Len(ch'), dropped'>>}
                                     ELSE moments
  /\ UNCHANGED <<phase, toRead, statQueued, statDropped, takenBefore>>

StatsNext == StatsBegin \/ StatsReadQueued \/ StatsReadDropped \/ QueueMoves

StatsSpec == StatsInit /\ [][StatsNext]_statsVars

-----------------------------------------------------------------------------
\* A monitor that adds up the items returned before the call and the two fields
\* of QueueStats never gets more than have arrived.  The reads are not atomic: an
\* item that is queued at the one and evicted before the other is in both fields,
\* but the arrival that pushed it out is then in neither.
StatsNeverOvercount ==
  phase = "returned" => takenBefore + statQueued + statDropped <= arrived

\* QueueStats: "a point-in-time snapshot of the bounded sig-first handoff
\* queue".  At some moment of the call both fields held together.
StatsPointInTime ==
  phase = "returned" => <<statQueued, statDropped>> \in moments
=============================================================================
