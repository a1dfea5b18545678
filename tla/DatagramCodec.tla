---------------------------- MODULE DatagramCodec ----------------------------
(***************************************************************************)
(* The typed datagrams of the sig-first tier (frame.go).                   *)
(*                                                                         *)
(* A datagram is the sequence of its fields, type tag first, each field    *)
(* one number; lengths are counted in fields, so a datagram cut within a   *)
(* field is one that ends before it.  The width of the fields is abstract: *)
(* no datagram is long enough for it to matter.                            *)
(***************************************************************************)
EXTENDS Naturals, Sequences

DGSigFirst  == 1
DGHeartbeat == 2

DGSigFirstMin  == 4  \* type, slot, seq, signature
DGHeartbeatMin == 3  \* type, server_ts_ms, highest_seq

EncodeDGSigFirst(slot, seq, sig) == <<DGSigFirst, slot, seq, sig>>

EncodeDGHeartbeat(serverTsMs, highestSeq) == <<DGHeartbeat, serverTsMs, highestSeq>>

-----------------------------------------------------------------------------
\* Mutants: plausible bugs, each caught by a property of SigFirstFeed.

LongEnoughExact(src, min) == Len(src) = min  \* refuses a later version's fields

-----------------------------------------------------------------------------
\* Each type declares a minimum length; what follows it is ignored.
LongEnough(src, min) == Len(src) >= min

MinLength(type) == IF type = DGSigFirst THEN DGSigFirstMin ELSE DGHeartbeatMin

Parsed(src) ==
  IF src[1] = DGSigFirst
  THEN [type |-> "SigFirst", slot |-> src[2], seq |-> src[3], signature |-> src[4]]
  ELSE [type |-> "DatagramHeartbeat", serverTsMs |-> src[2], highestSeq |-> src[3]]

\* The decoded datagram, of type "ErrBadFrame" when DecodeDatagram fails.
DecodeDatagram(src) ==
  CASE src = <<>> -> [type |-> "ErrBadFrame"]
    [] src # <<>> /\ Head(src) \notin {DGSigFirst, DGHeartbeat}
         -> [type |-> "UnknownDatagram", tag |-> Head(src)]
    [] OTHER -> IF LongEnough(src, MinLength(Head(src)))
                THEN Parsed(src) ELSE [type |-> "ErrBadFrame"]
=============================================================================
