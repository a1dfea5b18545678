-------------------------- MODULE MCSigFirstStats ---------------------------
(***************************************************************************)
(* SigFirstStats with a source that only ends cleanly: the call of         *)
(* QueueStats does not depend on the error.                                *)
(***************************************************************************)
EXTENDS SigFirstStats

MCEnds == {{EOF}}
=============================================================================
