------------------------- MODULE FrameDecoderProofs -------------------------
(***************************************************************************)
(* Proofs about FrameDecoder, for frames, counts and element sizes of any  *)
(* size.                                                                   *)
(*                                                                         *)
(* The verdict is exact because at every point need, the least length of a *)
(* frame that starts as read so far, is the cursor plus what the counts    *)
(* and lengths already read still ask for.  Once the trailer is reached    *)
(* nothing is asked for, so a frame accepted at its end has length need;   *)
(* and a read that does not fit shows need to be past the end.             *)
(***************************************************************************)
EXTENDS FrameDecoder, TLAPS

\* The bytes of the counts of section s and of those after it.
CountsFrom(s) == (Len(Sections) + 1 - s) * U16Size

\* The bytes the elements and parts already announced take at least.
Announced ==
  left * ElementSize(section) + (IF stage = "part" THEN parts * U16Size ELSE 0)

InBody == stage \in {"element", "part"}

LengthsAgree ==
  /\ stage = "frame" => need = 2 /\ off = 0
  /\ stage = "header" => need = off + HeaderSize + CountsFrom(section)
  /\ stage = "count" => need = off + CountsFrom(section)
  /\ InBody => need = off + Announced + CountsFrom(section + 1)
  /\ stage = "tlv" => need = off
  /\ stage \in {"frame", "header"} => section = 1
  /\ stage = "part" => parts > 0

\* Elements that memory was allocated for are behind the cursor or announced.
AllocationCovered ==
  /\ allocated <= size
  /\ stage \in {"frame", "header"} => allocated = 0
  /\ stage \in {"count", "tlv"} => allocated <= off
  /\ InBody => allocated <= off + Announced

\* What StartFrame has checked of the bytes that are read once.
Admitted ==
  \/ msgType = "MsgTx" /\ flags # ReservedFlag /\ size - 2 <= MaxFullTxBody
  \/ msgType = "MsgHeartbeat" /\ flags = 0 /\ stage \in {"tlv", "done"}

Undecided ==
  /\ result = "none" <=> stage # "done"
  /\ stage \notin {"frame", "done"} => Admitted
  /\ stage # "done" => Distinct

FrameInv ==
  TypeOK /\ LengthsAgree /\ AllocationCovered /\ Undecided /\ VerdictIsExact

-----------------------------------------------------------------------------
(* Element sizes and the count check. *)

LEMMA SectionSizes ==
  /\ Len(Sections) = 4
  /\ \A s \in 1 .. 4 :
       /\ Fixed[s] \in Nat \ {0} /\ Parts[s] \in {0, 2}
       /\ ElementSize(s) = Fixed[s] + Parts[s] * U16Size
       /\ ElementSize(s) \in Nat \ {0}
       /\ minElem[s] = ElementSize(s)
<1>1. Len(Sections) = 4
  BY DEF Sections
<1>2. ASSUME NEW s \in 1 .. 4
      PROVE  /\ Fixed[s] \in Nat \ {0} /\ Parts[s] \in {0, 2}
             /\ minElem[s] = Fixed[s] + Parts[s] * U16Size
  <2>1. s = 1 \/ s = 2 \/ s = 3 \/ s = 4
    OBVIOUS
  <2> QED
    BY <2>1, SizesAssumption DEF Fixed, Parts, minElem, U16Size
<1>3. ASSUME NEW s \in 1 .. 4
      PROVE  ElementSize(s) \in Nat \ {0}
  BY <1>2 DEF ElementSize, U16Size
<1> QED
  BY <1>1, <1>2, <1>3 DEF ElementSize

\* Dividing what is left by the least size of an element is the exact test of
\* whether that many elements can fit: count neither overallocates nor turns a
\* frame away that would have fitted.
LEMMA CountCheck ==
  ASSUME NEW n \in Nat, NEW d \in Nat, NEW e \in Nat \ {0}
  PROVE  n > d \div e <=> n * e > d
<1> DEFINE q == d \div e
<1>1. q \in Nat /\ e * q <= d /\ d < e * q + e
  OBVIOUS
<1> HIDE DEF q
<1>2. CASE n <= q
  <2>1. n * e <= q * e
    BY <1>1, <1>2
  <2> QED
    BY <1>1, <1>2, <2>1 DEF q
<1>3. CASE n >= q + 1
  <2>1. n * e >= (q + 1) * e
    BY <1>1, <1>3
  <2>2. (q + 1) * e = e * q + e
    BY <1>1
  <2>3. n * e > d
    BY <1>1, <2>1, <2>2
  <2> QED
    BY <1>1, <1>3, <2>3 DEF q
<1> QED
  BY <1>1, <1>2, <1>3

LEMMA CountsAhead ==
  ASSUME NEW s \in 1 .. 4
  PROVE  /\ CountsFrom(s) = U16Size + CountsFrom(s + 1)
         /\ CountsFrom(s) \in Nat /\ CountsFrom(s + 1) \in Nat
         /\ CountsFrom(5) = 0
BY SectionSizes DEF CountsFrom, U16Size

LEMMA ProductNat ==
  ASSUME NEW a \in Nat, NEW b \in Nat
  PROVE  a * b \in Nat
OBVIOUS

-----------------------------------------------------------------------------
(* Every step preserves the invariant. *)

\* A step that rejects the frame with a reason.
LEMMA Rejects ==
  ASSUME FrameInv, stage # "done", Return("ErrBadFrame"),
         UNCHANGED <<input, section, left, parts, allocated>>,
         off' \in 0 .. size, need' \in Nat,
         tlvs' \in Seq([typ : TlvTypes, len : U16]),
         need' > size \/ ~Distinct'
  PROVE  FrameInv'
<1> USE DEF FrameInv, TypeOK, Return, input
<1>1. TypeOK'
  OBVIOUS
<1>2. LengthsAgree'
  BY DEF LengthsAgree, InBody
<1>3. AllocationCovered'
  BY DEF AllocationCovered, InBody
<1>4. Undecided'
  BY DEF Undecided
<1>5. VerdictIsExact'
  BY DEF VerdictIsExact
<1> QED
  BY <1>1, <1>2, <1>3, <1>4, <1>5

LEMMA StartFrameStep ==
  ASSUME FrameInv, StartFrame
  PROVE  FrameInv'
<1> USE SizesAssumption, SectionSizes
    DEF FrameInv, TypeOK, StartFrame, Return, input, U16Size
<1>1. TypeOK'
  OBVIOUS
<1>2. LengthsAgree'
  BY DEF LengthsAgree, CountsFrom, InBody
<1>3. AllocationCovered'
  BY DEF AllocationCovered, LengthsAgree, InBody
<1>4. Undecided'
  BY DEF Undecided, Admitted, Distinct
<1>5. VerdictIsExact'
  BY DEF VerdictIsExact, Undecided, LengthsAgree
<1> QED
  BY <1>1, <1>2, <1>3, <1>4, <1>5

LEMMA HeaderStep ==
  ASSUME FrameInv, DecodeHeader
  PROVE  FrameInv'
<1> USE SizesAssumption, CountsAhead
    DEF FrameInv, TypeOK, DecodeHeader, LengthsAgree, take, Fits, input
<1>1. CASE Truncated(HeaderSize)
  BY <1>1, Rejects DEF Truncated
<1>2. CASE take(HeaderSize) /\ stage' = "count" /\ UNCHANGED result
  <2>1. TypeOK'
    BY <1>2
  <2>2. LengthsAgree'
    BY <1>2 DEF CountsFrom, InBody
  <2>3. AllocationCovered'
    BY <1>2 DEF AllocationCovered, InBody
  <2>4. Undecided' /\ VerdictIsExact'
    BY <1>2 DEF Undecided, Admitted, Distinct, VerdictIsExact
  <2> QED
    BY <2>1, <2>2, <2>3, <2>4
<1> QED
  BY <1>1, <1>2

LEMMA CountStep ==
  ASSUME FrameInv, count
  PROVE  FrameInv'
<1> DEFINE e == ElementSize(section)
<1>0. /\ section \in 1 .. 4 /\ e \in Nat \ {0} /\ minElem[section] = e
      /\ off \in 0 .. size /\ size \in Nat /\ need \in Nat /\ stage = "count"
      /\ need = off + U16Size + CountsFrom(section + 1)
      /\ CountsFrom(section + 1) \in Nat
  <2>1. /\ section \in 1 .. 4 /\ stage = "count"
        /\ off \in 0 .. size /\ size \in Nat /\ need \in Nat
    BY SizesAssumption, SectionSizes DEF FrameInv, TypeOK, count
  <2>2. need = off + CountsFrom(section)
    BY <2>1 DEF FrameInv, LengthsAgree
  <2> QED
    BY <2>1, <2>2, SectionSizes, CountsAhead DEF U16Size
<1>1. CASE Truncated(U16Size) /\ UNCHANGED <<left, need, allocated>>
  BY <1>0, <1>1, Rejects DEF FrameInv, TypeOK, Truncated, Fits, count, U16Size
<1>2. CASE take(U16Size) /\ ~UNCHANGED stage
  <2>0. PICK n \in U16 :
          /\ need' = need + n * e
          /\ IF n > (size - off') \div minElem[section]
               THEN /\ Return("ErrBadFrame")
                    /\ UNCHANGED <<left, allocated>>
               ELSE /\ stage' = "element" /\ left' = n
                    /\ allocated' = allocated + n * e
                    /\ UNCHANGED result
    BY <1>0, <1>2 DEF count, Truncated, take
  <2>1. /\ n \in Nat /\ n * e \in Nat /\ off' = off + U16Size
        /\ off' \in 0 .. size /\ size - off' \in Nat
        /\ UNCHANGED <<input, section, parts, tlvs>>
    BY <1>0, <1>2, <2>0, ProductNat, SizesAssumption DEF U16, U16Size, take, Fits, count
  <2>2. n > (size - off') \div e <=> n * e > size - off'
    BY <1>0, <2>1, CountCheck
  <2> HIDE DEF e
  <2>3. CASE n * e > size - off'
    <3>1. need' \in Nat /\ need' > size
      BY <1>0, <2>0, <2>1, <2>3 DEF U16Size
    <3> QED
      BY <1>0, <2>0, <2>1, <2>2, <2>3, <3>1, Rejects DEF FrameInv, TypeOK
  <2>4. CASE n * e <= size - off'
    <3>0. /\ stage' = "element" /\ left' = n /\ UNCHANGED result
          /\ allocated' = allocated + n * e /\ need' = need + n * e
      BY <1>0, <2>0, <2>1, <2>2, <2>4
    <3>1. Announced' = n * e
      BY <2>1, <3>0, <1>0 DEF Announced, e, ElementSize
    <3>2. TypeOK'
      <4>1. allocated \in Nat
        BY DEF FrameInv, TypeOK
      <4>2. need' \in Nat /\ allocated' \in Nat /\ left' \in U16
        BY <1>0, <2>1, <3>0, <4>1
      <4> QED
        BY <2>1, <3>0, <4>2 DEF FrameInv, TypeOK, input
    <3>3. LengthsAgree'
      BY <1>0, <2>0, <2>1, <3>0, <3>1 DEF LengthsAgree, InBody, CountsFrom
    <3>4. AllocationCovered'
      BY <1>0, <2>1, <2>4, <3>0, <3>1 DEF FrameInv, TypeOK, AllocationCovered, InBody, input, U16Size
    <3>5. Undecided' /\ VerdictIsExact'
      BY <1>0, <2>1, <3>0 DEF FrameInv, Undecided, Admitted, Distinct, VerdictIsExact, input
    <3> QED
      BY <3>2, <3>3, <3>4, <3>5 DEF FrameInv
  <2> QED
    BY <1>0, <2>1, <2>3, <2>4
<1> QED
  BY <1>0, <1>1, <1>2 DEF count, Return

LEMMA ElementStep ==
  ASSUME FrameInv, DecodeElement
  PROVE  FrameInv'
<1> DEFINE e == ElementSize(section)
           f == Fixed[section]
           tail == CountsFrom(section + 1)
<1>0. /\ off \in 0 .. size /\ size \in Nat /\ need \in Nat /\ stage = "element"
      /\ section \in 1 .. 4 /\ left \in U16 /\ left \in Nat \ {0}
      /\ UNCHANGED <<input, section, tlvs, need, allocated>>
  BY SizesAssumption, SectionSizes DEF FrameInv, TypeOK, DecodeElement, U16
<1>1. /\ e \in Nat \ {0} /\ f \in Nat \ {0} /\ Parts[section] \in {0, 2}
      /\ e = f + Parts[section] * U16Size /\ tail \in Nat
  BY <1>0, SectionSizes, CountsAhead
<1>2. need = off + left * e + tail /\ allocated <= off + left * e
  <2>1. need = off + Announced + tail /\ allocated <= off + Announced
    BY <1>0 DEF FrameInv, LengthsAgree, AllocationCovered, InBody
  <2>2. Announced = left * e
    BY <1>0, <1>1, ProductNat DEF Announced
  <2> QED
    BY <2>1, <2>2
<1> HIDE DEF e, f, tail
<1>3. left * e = (left - 1) * e + e /\ (left - 1) * e \in Nat
  <2>1. (left - 1) * e \in Nat
    BY <1>0, <1>1, ProductNat
  <2> QED
    BY <1>0, <1>1, <2>1
<1>4. CASE Truncated(f) /\ UNCHANGED <<left, parts>>
  <2>1. need > size
    BY <1>0, <1>1, <1>2, <1>3, <1>4 DEF Truncated, Fits, U16Size
  <2> QED
    BY <1>0, <1>4, <2>1, Rejects DEF FrameInv, TypeOK, Truncated
<1>5. CASE take(f) /\ ~UNCHANGED left
  <2>1. /\ off' = off + f /\ off' \in 0 .. size
        /\ left' = left - 1 /\ parts' = Parts[section] /\ UNCHANGED result
        /\ stage' = IF parts' = 0 THEN "element" ELSE "part"
    BY <1>0, <1>1, <1>5 DEF take, Fits, DecodeElement, Truncated, f
  <2>2. Announced' = (left - 1) * e + Parts[section] * U16Size
    <3>1. Announced' = (left - 1) * ElementSize(section)'
                       + (IF stage' = "part" THEN parts' * U16Size ELSE 0)
      BY <2>1 DEF Announced, ElementSize
    <3>2. ElementSize(section)' = e
      BY <1>0 DEF e, ElementSize
    <3>3. (IF stage' = "part" THEN parts' * U16Size ELSE 0) = Parts[section] * U16Size
      BY <1>1, <2>1 DEF U16Size
    <3> QED
      BY <3>1, <3>2, <3>3
  <2>3. off' + Announced' = off + left * e
    <3>1. Parts[section] * U16Size \in Nat
      BY <1>1 DEF U16Size
    <3> QED
      BY <1>0, <1>1, <1>3, <2>1, <2>2, <3>1
  <2>4. TypeOK'
    <3>1. left' \in U16 /\ parts' \in 0 .. 2 /\ stage' \in {"element", "part"}
      BY <1>0, <1>1, <2>1, SizesAssumption DEF U16
    <3> QED
      BY <1>0, <2>1, <3>1 DEF FrameInv, TypeOK, input
  <2>5. LengthsAgree'
    <3>1. need' = off' + Announced' + CountsFrom(section + 1)'
      BY <1>0, <1>2, <2>3 DEF CountsFrom, tail
    <3> QED
      BY <1>0, <1>1, <2>1, <3>1 DEF LengthsAgree, InBody
  <2>6. AllocationCovered'
    <3>1. allocated' <= off' + Announced'
      BY <1>0, <1>2, <2>3
    <3> QED
      BY <1>0, <2>1, <3>1 DEF FrameInv, AllocationCovered, InBody, input
  <2>7. Undecided' /\ VerdictIsExact'
    BY <1>0, <2>1 DEF FrameInv, Undecided, Admitted, Distinct, VerdictIsExact, input
  <2> QED
    BY <2>4, <2>5, <2>6, <2>7 DEF FrameInv
<1> QED
  BY <1>0, <1>4, <1>5 DEF DecodeElement, f

LEMMA PartStep ==
  ASSUME FrameInv, DecodePart
  PROVE  FrameInv'
<1> DEFINE m == left * ElementSize(section)
           tail == CountsFrom(section + 1)
<1>0. /\ off \in 0 .. size /\ size \in Nat /\ need \in Nat /\ stage = "part"
      /\ section \in 1 .. 4 /\ left \in Nat /\ parts \in 1 .. 2
      /\ UNCHANGED <<input, section, left, tlvs, allocated>>
  BY SizesAssumption, SectionSizes DEF FrameInv, TypeOK, DecodePart, U16, LengthsAgree
<1>1. m \in Nat /\ tail \in Nat
  BY <1>0, SectionSizes, CountsAhead, ProductNat
<1>2. need = off + m + parts * U16Size + tail /\ allocated <= off + m + parts * U16Size
  <2>1. need = off + Announced + tail /\ allocated <= off + Announced
    BY <1>0 DEF FrameInv, LengthsAgree, AllocationCovered, InBody
  <2> QED
    BY <1>0, <1>1, <2>1 DEF Announced, U16Size
<1> HIDE DEF m, tail
<1>3. CASE Truncated(U16Size) /\ UNCHANGED <<parts, need>>
  <2>1. need > size
    BY <1>0, <1>1, <1>2, <1>3 DEF Truncated, Fits, U16Size
  <2> QED
    BY <1>0, <1>3, <2>1, Rejects DEF FrameInv, TypeOK, Truncated
<1>4. ASSUME NEW l \in U16, need' = need + l, Truncated(U16Size + l), UNCHANGED parts
      PROVE  FrameInv'
  <2>1. need' \in Nat /\ need' > size
    BY <1>0, <1>1, <1>2, <1>4 DEF Truncated, Fits, U16Size, U16
  <2> QED
    BY <1>0, <1>4, <2>1, Rejects DEF FrameInv, TypeOK, Truncated
<1>5. ASSUME NEW l \in U16, need' = need + l, take(U16Size + l), parts' = parts - 1,
             stage' = IF parts' = 0 THEN "element" ELSE "part", UNCHANGED result
      PROVE  FrameInv'
  <2>1. off' = off + U16Size + l /\ off' \in 0 .. size /\ need' \in Nat /\ l \in Nat
    BY <1>0, <1>5 DEF take, Fits, U16Size, U16
  <2>2. Announced' = m + (parts - 1) * U16Size
    <3>1. m' = m
      BY <1>0 DEF m, ElementSize
    <3> QED
      BY <1>0, <1>1, <1>5, <3>1 DEF Announced, U16Size, m
  <2>3. off' + Announced' = off + m + parts * U16Size + l
    BY <1>0, <1>1, <2>1, <2>2 DEF U16Size
  <2>4. TypeOK'
    BY <1>0, <1>5, <2>1 DEF FrameInv, TypeOK, input
  <2>5. LengthsAgree'
    <3>1. need' = off' + Announced' + tail
      BY <1>0, <1>1, <1>2, <1>5, <2>1, <2>3 DEF U16Size
    <3>2. tail = CountsFrom(section + 1)'
      BY <1>0 DEF CountsFrom, tail
    <3> QED
      BY <1>0, <1>5, <3>1, <3>2 DEF LengthsAgree, InBody
  <2>6. AllocationCovered'
    <3>1. allocated' <= off' + Announced'
      BY <1>0, <1>1, <1>2, <2>1, <2>3 DEF FrameInv, TypeOK, U16Size
    <3> QED
      BY <1>0, <1>5, <3>1 DEF FrameInv, AllocationCovered, InBody, input
  <2>7. Undecided' /\ VerdictIsExact'
    BY <1>0, <1>5 DEF FrameInv, Undecided, Admitted, Distinct, VerdictIsExact, input
  <2> QED
    BY <2>4, <2>5, <2>6, <2>7 DEF FrameInv
<1> QED
  BY <1>3, <1>4, <1>5 DEF DecodePart

LEMMA EndSectionStep ==
  ASSUME FrameInv, EndSection
  PROVE  FrameInv'
<1>0. /\ section \in 1 .. 4 /\ left = 0 /\ stage = "element" /\ off \in Nat
      /\ ElementSize(section) \in Nat
      /\ UNCHANGED <<input, off, left, parts, tlvs, result, need, allocated>>
      /\ section' \in 1 .. 4 /\ stage' \in {"count", "tlv"}
  BY SizesAssumption, SectionSizes DEF FrameInv, TypeOK, EndSection
<1>1. Announced = 0
  BY <1>0 DEF Announced
<1>2. need = off + CountsFrom(section + 1) /\ allocated <= off
  BY <1>0, <1>1, CountsAhead DEF FrameInv, TypeOK, LengthsAgree, AllocationCovered, InBody
<1>3. TypeOK'
  BY <1>0, SectionSizes DEF FrameInv, TypeOK, input
<1>4. LengthsAgree'
  <2>1. CASE section < 4
    BY <1>0, <1>2, <2>1, SectionSizes DEF EndSection, LengthsAgree, InBody, CountsFrom
  <2>2. CASE section = 4
    BY <1>0, <1>2, <2>2, SectionSizes, CountsAhead DEF EndSection, LengthsAgree, InBody
  <2> QED
    BY <1>0, <2>1, <2>2
<1>5. AllocationCovered'
  BY <1>0, <1>2 DEF FrameInv, AllocationCovered, InBody, input
<1>6. Undecided' /\ VerdictIsExact'
  BY <1>0 DEF FrameInv, Undecided, Admitted, Distinct, VerdictIsExact, input
<1> QED
  BY <1>3, <1>4, <1>5, <1>6 DEF FrameInv

LEMMA TlvStep ==
  ASSUME FrameInv, parseTLVs
  PROVE  FrameInv'
<1>0. /\ off \in 0 .. size /\ size \in Nat /\ need = off /\ stage = "tlv"
      /\ tlvs \in Seq([typ : TlvTypes, len : U16]) /\ Distinct
      /\ UNCHANGED <<input, section, left, parts, allocated>>
  BY SizesAssumption DEF FrameInv, TypeOK, LengthsAgree, Undecided, parseTLVs
<1>1. CASE Truncated(TlvHeader) /\ need' = need + TlvHeader /\ UNCHANGED tlvs
  <2>1. need' \in Nat /\ need' > size
    BY <1>0, <1>1 DEF Truncated, Fits, TlvHeader, U16Size
  <2> QED
    BY <1>0, <1>1, <2>1, Rejects DEF Truncated
<1>2. ASSUME NEW l \in U16, need' = need + TlvHeader + l, Truncated(TlvHeader + l),
             UNCHANGED tlvs
      PROVE  FrameInv'
  <2>1. need' \in Nat /\ need' > size
    BY <1>0, <1>2 DEF Truncated, Fits, TlvHeader, U16Size, U16
  <2> QED
    BY <1>0, <1>2, <2>1, Rejects DEF Truncated
<1>3. ASSUME NEW t \in TlvTypes, NEW l \in U16, need' = need + TlvHeader + l,
             take(TlvHeader + l), tlvs' = Append(tlvs, [typ |-> t, len |-> l]),
             IF t \in Types THEN Return("ErrBadFrame") ELSE UNCHANGED <<stage, result>>
      PROVE  FrameInv'
  <2>1. /\ off' = need' /\ off' \in 0 .. size /\ need' \in Nat /\ off <= off'
    BY <1>0, <1>3 DEF take, Fits, TlvHeader, U16Size, U16
  <2>2. /\ tlvs' \in Seq([typ : TlvTypes, len : U16])
        /\ Len(tlvs') = Len(tlvs) + 1 /\ Len(tlvs) \in Nat
        /\ tlvs'[Len(tlvs) + 1] = [typ |-> t, len |-> l]
        /\ \A i \in 1 .. Len(tlvs) : tlvs'[i] = tlvs[i]
    BY <1>0, <1>3
  <2>3. CASE t \in Types
    <3>1. PICK i \in 1 .. Len(tlvs) : tlvs[i].typ = t
      BY <2>3 DEF Types
    <3>2. /\ i \in 1 .. Len(tlvs') /\ Len(tlvs) + 1 \in 1 .. Len(tlvs')
          /\ tlvs'[i].typ = tlvs'[Len(tlvs) + 1].typ /\ i # Len(tlvs) + 1
      BY <2>2, <3>1
    <3>3. ~Distinct'
      BY <3>2 DEF Distinct
    <3> QED
      BY <1>0, <1>3, <2>1, <2>2, <2>3, <3>3, Rejects
  <2>4. CASE t \notin Types
    <3>1. UNCHANGED <<stage, result>>
      BY <1>3, <2>4
    <3>2. TypeOK'
      BY <1>0, <2>1, <2>2, <3>1 DEF FrameInv, TypeOK, input
    <3>3. LengthsAgree'
      BY <1>0, <2>1, <3>1 DEF LengthsAgree, InBody
    <3>4. AllocationCovered'
      BY <1>0, <2>1, <3>1 DEF FrameInv, TypeOK, AllocationCovered, InBody, input
    <3>5. Distinct'
      <4>1. \A i \in 1 .. Len(tlvs) : tlvs[i].typ # t
        BY <2>4 DEF Types
      <4>2. ASSUME NEW i \in 1 .. Len(tlvs) + 1, NEW j \in 1 .. Len(tlvs) + 1,
                   tlvs'[i].typ = tlvs'[j].typ
            PROVE  i = j
        <5>1. tlvs'[Len(tlvs) + 1].typ = t
          BY <2>2
        <5>2. CASE i = Len(tlvs) + 1 \/ j = Len(tlvs) + 1
          BY <2>2, <4>1, <4>2, <5>1, <5>2
        <5>3. CASE i \in 1 .. Len(tlvs) /\ j \in 1 .. Len(tlvs)
          BY <1>0, <2>2, <4>2, <5>3 DEF Distinct
        <5> QED
          BY <2>2, <5>2, <5>3
      <4> QED
        BY <2>2, <4>2 DEF Distinct
    <3>6. Undecided' /\ VerdictIsExact'
      BY <1>0, <3>1, <3>5 DEF FrameInv, Undecided, Admitted, VerdictIsExact, input
    <3> QED
      BY <3>2, <3>3, <3>4, <3>6 DEF FrameInv
  <2> QED
    BY <2>3, <2>4
<1> QED
  BY <1>1, <1>2, <1>3 DEF parseTLVs

LEMMA FoldStep ==
  ASSUME FrameInv, FoldTLVs
  PROVE  FrameInv'
<1> USE DEF FrameInv, FoldTLVs, Return
<1>1. TypeOK'
  BY DEF TypeOK, input
<1>2. LengthsAgree'
  BY DEF LengthsAgree, InBody
<1>3. AllocationCovered'
  BY DEF AllocationCovered, InBody, input
<1>4. Undecided'
  BY DEF Undecided
<1>5. VerdictIsExact'
  <2>1. /\ need = size /\ Distinct /\ Admitted
        /\ UNCHANGED <<input, tlvs, need>>
    BY DEF LengthsAgree, Undecided
  <2>2. Distinct' /\ (AllWellFormed' <=> AllWellFormed)
    BY <2>1 DEF Distinct, AllWellFormed, WellFormed, input
  <2>3. CASE AllWellFormed
    <3>1. result' = IF msgType = "MsgTx" THEN "FullTxV2" ELSE "FrameHeartbeat"
      BY <2>3 DEF AllWellFormed
    <3> QED
      BY <2>1, <2>2, <2>3, <3>1 DEF VerdictIsExact, Admitted, input, ReservedFlag
  <2>4. CASE ~AllWellFormed
    <3>1. result' = "ErrBadFrame"
      BY <2>4 DEF AllWellFormed
    <3> QED
      BY <2>2, <2>4, <3>1 DEF VerdictIsExact
  <2> QED
    BY <2>3, <2>4
<1> QED
  BY <1>1, <1>2, <1>3, <1>4, <1>5

-----------------------------------------------------------------------------
LEMMA FrameInit == Init => FrameInv
<1> SUFFICES ASSUME Init PROVE FrameInv
  OBVIOUS
<1> USE SizesAssumption, SectionSizes DEF Init
<1>1. TypeOK
  BY DEF TypeOK, U16
<1>2. LengthsAgree /\ AllocationCovered
  BY DEF LengthsAgree, AllocationCovered, InBody
<1>3. Undecided /\ VerdictIsExact
  BY DEF Undecided, Distinct, VerdictIsExact
<1> QED
  BY <1>1, <1>2, <1>3 DEF FrameInv

LEMMA FrameStep == FrameInv /\ [Next]_vars => FrameInv'
<1>1. ASSUME FrameInv, UNCHANGED vars
      PROVE  FrameInv'
  BY <1>1 DEF vars, input, FrameInv, TypeOK, LengthsAgree, CountsFrom, Announced,
     ElementSize, InBody, AllocationCovered, Undecided, Admitted, Distinct,
     VerdictIsExact, AllWellFormed, WellFormed
<1> QED
  BY <1>1, StartFrameStep, HeaderStep, CountStep, ElementStep, PartStep,
     EndSectionStep, TlvStep, FoldStep DEF Next, decodeFullTxPrefix

LEMMA FrameInvariant == Spec => []FrameInv
BY FrameInit, FrameStep, PTL DEF Spec

\* decoder.take: the cursor never leaves the frame, whatever its bytes say.
THEOREM CursorInFrame == Spec => []TypeOK
<1>1. FrameInv => TypeOK
  BY DEF FrameInv
<1> QED
  BY <1>1, FrameInvariant, PTL

\* DecodeFrame accepts exactly the frames whose counts and lengths account for
\* every byte, with the known trailer records well formed and none repeated.
THEOREM VerdictExact == Spec => []VerdictIsExact
<1>1. FrameInv => VerdictIsExact
  BY DEF FrameInv
<1> QED
  BY <1>1, FrameInvariant, PTL

\* count: the elements memory is ever allocated for fit in the frame together.
THEOREM AllocationInFrame == Spec => []AllocationBounded
<1>1. FrameInv => AllocationBounded
  BY DEF FrameInv, AllocationCovered, AllocationBounded
<1> QED
  BY <1>1, FrameInvariant, PTL
=============================================================================
