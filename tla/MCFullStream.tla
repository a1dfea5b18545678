---------------------------- MODULE MCFullStream ----------------------------
(***************************************************************************)
(* FullStream with one end of each kind: a clean one, a lost connection or *)
(* reset stream, and an application close.                                 *)
(***************************************************************************)
EXTENDS FullStream

MCEnds == {{EOF}, {Transport}, {AppError(5)}}
=============================================================================
