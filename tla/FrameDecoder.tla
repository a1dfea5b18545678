---------------------------- MODULE FrameDecoder ----------------------------
(***************************************************************************)
(* DecodeFrame of frame.go: one call on one frame, a step for each element *)
(* of the positional transaction body and for each record of the TLV       *)
(* trailer.                                                                *)
(*                                                                         *)
(* The frame's length is fixed at the start, its bytes are not: the        *)
(* decoder reads every byte at most once and never goes back, so a count,  *)
(* length or type that is chosen when it is read is one that an arbitrary  *)
(* frame held from the start.  Bytes that are only copied are left out.    *)
(***************************************************************************)
EXTENDS Integers, Sequences

CONSTANTS
  MaxFrame,    \* bound on the length of a frame
  MaxFullTxBody,
  MaxU16,      \* largest count or length; 65535 on the wire
  HeaderSize,  \* slot, four header bytes and blockhash; 44 on the wire
  SigSize,     \* 64
  KeySize,     \* 32, also the size of a loaded address
  U64Size,     \* 8
  TlvTypes     \* TLV types that occur: the four known ones and others

ASSUME SizesAssumption ==
  /\ MaxFrame \in Nat /\ MaxFullTxBody \in Nat /\ MaxU16 \in Nat
  /\ HeaderSize \in Nat \ {0} /\ U64Size \in Nat \ {0}
  /\ SigSize \in Nat \ {0} /\ KeySize \in Nat \ {0}

VARIABLES
  size,       \* len(src)
  msgType,    \* src[0]
  flags,      \* src[1]: 0, FlagAltIncomplete, or a value with a reserved bit
  off,        \* the cursor, as an offset into src
  stage,      \* what is decoded next
  section,    \* index of the body section being decoded
  left,       \* elements of the section still to decode
  parts,      \* length-prefixed parts of the element still to decode
  tlvs,       \* the records parseTLVs has collected
  result,     \* what DecodeFrame returned
  need,       \* history: the least length of a frame that starts as read so far
  allocated   \* history: wire bytes of the elements memory was allocated for

input == <<size, msgType, flags>>
vars == <<input, off, stage, section, left, parts, tlvs, result, need, allocated>>

TLVLoadedWritable == 1
TLVLoadedReadonly == 2
TLVServerTsMs == 3
TLVHighestSeq == 4

FlagAltIncomplete == 1
ReservedFlag == 2

U16 == 0 .. MaxU16
U16Size == 2
TlvHeader == 1 + U16Size

\* The body after its header: each section is a count and that many elements,
\* an element some fixed bytes and up to two parts that carry their length.
Sections == <<"Signatures", "AccountKeys", "Instructions", "AddressTableLookups">>

Fixed == <<SigSize, KeySize, 1, KeySize>>
Parts == <<0, 0, 2, 2>>

\* The least a whole element takes on the wire.
ElementSize(s) == Fixed[s] + Parts[s] * U16Size

minElemTooWide == <<SigSize, KeySize, 5, KeySize + 6>>  \* mutant: a third length

\* The arguments of the four calls of count.
minElem == <<SigSize, KeySize, 5, KeySize + 4>>

Init ==
  /\ size \in 0 .. MaxFrame
  /\ msgType \in {"MsgTx", "MsgHeartbeat", "other"}
  /\ flags \in {0, FlagAltIncomplete, ReservedFlag}
  /\ off = 0 /\ stage = "frame"
  /\ section = 1 /\ left = 0 /\ parts = 0
  /\ tlvs = <<>> /\ result = "none"
  /\ need = 2 /\ allocated = 0

-----------------------------------------------------------------------------
Return(r) == result' = r /\ stage' = "done"

Fits(n) == off + n <= size

\* decoder.take, and every read built on it.
takeWithinCap(n) ==  \* mutant: checks the cap in place of the buffer
  /\ off + n <= MaxFullTxBody + 2
  /\ off' = off + n

take(n) ==
  /\ Fits(n)
  /\ off' = off + n

TruncatedRetries(n) ==  \* mutant: a short read is tried again
  /\ ~ Fits(n)
  /\ UNCHANGED <<off, stage, result>>

Truncated(n) ==
  /\ ~ Fits(n)
  /\ Return("ErrBadFrame")
  /\ UNCHANGED off

StartFrame ==
  /\ stage = "frame"
  /\ \/ /\ size < 2
        /\ Return("ErrBadFrame")
        /\ UNCHANGED <<off, need>>
     \/ /\ size >= 2
        /\ msgType = "other"
        /\ Return("UnknownFrame")
        /\ UNCHANGED <<off, need>>
     \/ /\ size >= 2
        /\ msgType = "MsgTx"
        /\ off' = 2
        /\ need' = 2 + HeaderSize + Len(Sections) * U16Size
        /\ IF flags = ReservedFlag \/ size - 2 > MaxFullTxBody
             THEN Return("ErrBadFrame")
             ELSE stage' = "header" /\ UNCHANGED result
     \/ /\ size >= 2
        /\ msgType = "MsgHeartbeat"
        /\ off' = 2
        /\ IF flags # 0
             THEN Return("ErrBadFrame")
             ELSE stage' = "tlv" /\ UNCHANGED result
        /\ UNCHANGED need
  /\ UNCHANGED <<input, section, left, parts, tlvs, allocated>>

-----------------------------------------------------------------------------
\* decodeFullTxPrefix.
DecodeHeader ==
  /\ stage = "header"
  /\ \/ take(HeaderSize) /\ stage' = "count" /\ UNCHANGED result
     \/ Truncated(HeaderSize)
  /\ UNCHANGED <<input, section, left, parts, tlvs, need, allocated>>

countUnchecked ==  \* mutant: allocates before it looks at what is left
  /\ stage = "count"
  /\ \/ /\ take(U16Size)
        /\ \E n \in U16 :
             /\ need' = need + n * ElementSize(section)
             /\ stage' = "element" /\ left' = n
             /\ allocated' = allocated + n * ElementSize(section)
             /\ UNCHANGED result
     \/ Truncated(U16Size) /\ UNCHANGED <<left, need, allocated>>
  /\ UNCHANGED <<input, section, parts, tlvs>>

count ==
  /\ stage = "count"
  /\ \/ /\ take(U16Size)
        /\ \E n \in U16 :
             /\ need' = need + n * ElementSize(section)
             /\ IF n > (size - off') \div minElem[section]
                  THEN /\ Return("ErrBadFrame")
                       /\ UNCHANGED <<left, allocated>>
                  ELSE /\ stage' = "element" /\ left' = n
                       /\ allocated' = allocated + n * ElementSize(section)
                       /\ UNCHANGED result
     \/ Truncated(U16Size) /\ UNCHANGED <<left, need, allocated>>
  /\ UNCHANGED <<input, section, parts, tlvs>>

DecodeElement ==
  /\ stage = "element"
  /\ left > 0
  /\ \/ /\ take(Fixed[section])
        /\ left' = left - 1
        /\ parts' = Parts[section]
        /\ stage' = IF parts' = 0 THEN "element" ELSE "part"
        /\ UNCHANGED result
     \/ Truncated(Fixed[section]) /\ UNCHANGED <<left, parts>>
  /\ UNCHANGED <<input, section, tlvs, need, allocated>>

DecodePart ==
  /\ stage = "part"
  /\ \/ /\ Fits(U16Size)
        /\ \E l \in U16 :
             /\ need' = need + l
             /\ \/ /\ take(U16Size + l)
                   /\ parts' = parts - 1
                   /\ stage' = IF parts' = 0 THEN "element" ELSE "part"
                   /\ UNCHANGED result
                \/ Truncated(U16Size + l) /\ UNCHANGED parts
     \/ Truncated(U16Size) /\ UNCHANGED <<parts, need>>
  /\ UNCHANGED <<input, section, left, tlvs, allocated>>

EndSection ==
  /\ stage = "element"
  /\ left = 0
  /\ IF section < Len(Sections)
       THEN section' = section + 1 /\ stage' = "count"
       ELSE UNCHANGED section /\ stage' = "tlv"
  /\ UNCHANGED <<input, off, left, parts, tlvs, result, need, allocated>>

decodeFullTxPrefix == DecodeHeader \/ count \/ DecodeElement \/ DecodePart \/ EndSection

-----------------------------------------------------------------------------
Types == {tlvs[i].typ : i \in 1 .. Len(tlvs)}

\* One record: its header, its bounds, then the search for a duplicate.
parseTLVs ==
  /\ stage = "tlv"
  /\ off < size
  /\ \/ /\ Fits(TlvHeader)
        /\ \E t \in TlvTypes, l \in U16 :
             /\ need' = need + TlvHeader + l
             /\ \/ /\ take(TlvHeader + l)
                   /\ tlvs' = Append(tlvs, [typ |-> t, len |-> l])
                   /\ IF t \in Types THEN Return("ErrBadFrame")
                                     ELSE UNCHANGED <<stage, result>>
                \/ Truncated(TlvHeader + l) /\ UNCHANGED tlvs
     \/ Truncated(TlvHeader) /\ need' = need + TlvHeader /\ UNCHANGED tlvs
  /\ UNCHANGED <<input, section, left, parts, allocated>>

\* unflatten32 of the loaded addresses, or the widths of the heartbeat's numbers.
WellFormed(e) ==
  /\ msgType = "MsgTx" /\ e.typ \in {TLVLoadedWritable, TLVLoadedReadonly} =>
       e.len % KeySize = 0
  /\ msgType = "MsgHeartbeat" /\ e.typ \in {TLVServerTsMs, TLVHighestSeq} =>
       e.len = U64Size

FoldTLVs ==
  /\ stage = "tlv"
  /\ off = size
  /\ IF \A i \in 1 .. Len(tlvs) : WellFormed(tlvs[i])
       THEN Return(IF msgType = "MsgTx" THEN "FullTxV2" ELSE "FrameHeartbeat")
       ELSE Return("ErrBadFrame")
  /\ UNCHANGED <<input, off, section, left, parts, tlvs, need, allocated>>

Next == StartFrame \/ decodeFullTxPrefix \/ parseTLVs \/ FoldTLVs

Spec == Init /\ [][Next]_vars

\* The decoder is a plain function: it runs.
FairSpec == Spec /\ WF_vars(Next)

-----------------------------------------------------------------------------
\* The cursor never leaves the frame, so no slice expression can panic, and
\* every value stays of its type.
TypeOK ==
  /\ size \in 0 .. MaxFrame /\ off \in 0 .. size
  /\ stage \in {"frame", "header", "count", "element", "part", "tlv", "done"}
  /\ section \in 1 .. Len(Sections)
  /\ left \in U16 /\ parts \in 0 .. 2
  /\ tlvs \in Seq([typ : TlvTypes, len : U16])
  /\ result \in {"none", "ErrBadFrame", "UnknownFrame", "FullTxV2", "FrameHeartbeat"}
  /\ need \in Nat /\ allocated \in Nat

Distinct == \A i, j \in 1 .. Len(tlvs) : tlvs[i].typ = tlvs[j].typ => i = j
AllWellFormed == \A i \in 1 .. Len(tlvs) : WellFormed(tlvs[i])

\* A frame is accepted only if its counts and lengths account for every byte of
\* it, its trailer repeats no type, and its known records have their widths; and
\* it is rejected only for a reason.  Its counts and lengths ask for more bytes
\* than it has (in particular, the minimum that count divides by never turns a
\* frame away that would have fitted), or it breaks one of those rules.
VerdictIsExact ==
  /\ result \in {"FullTxV2", "FrameHeartbeat"} =>
       /\ need = size
       /\ Distinct /\ AllWellFormed
       /\ flags # ReservedFlag
       /\ result = "FrameHeartbeat" => flags = 0
       /\ result = "FullTxV2" => size - 2 <= MaxFullTxBody
  /\ result = "ErrBadFrame" =>
       \/ need > size
       \/ msgType = "MsgTx" /\ (flags = ReservedFlag \/ size - 2 > MaxFullTxBody)
       \/ msgType = "MsgHeartbeat" /\ flags # 0
       \/ ~Distinct
       \/ ~AllWellFormed

\* count: "rejects it before allocating if that many elements ... cannot fit in
\* the remaining frame".  All elements ever allocated fit in the frame together.
AllocationBounded == allocated <= size

\* Every frame is decoded or rejected, whatever its bytes.
DecodeTerminates == <>(stage = "done")
=============================================================================
