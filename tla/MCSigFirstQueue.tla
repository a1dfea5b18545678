-------------------------- MODULE MCSigFirstQueue ---------------------------
(***************************************************************************)
(* SigFirstQueue with one end of each kind.                                *)
(***************************************************************************)
EXTENDS SigFirstQueue

\* A clean end, a lost connection, and application closes: one that needs a
\* credential, one for quota and one with a code the SDK does not know.
MCEnds == {{EOF}, {Transport}, {AppError(2)}, {AppError(3)}, {AppError(9)}}
=============================================================================
