------------------------------- MODULE TxCodec -------------------------------
(***************************************************************************)
(* The values of transaction frames: EncodeFrameTx builds a frame from a   *)
(* transaction, DecodeFrame reads one.  A run encodes a transaction,       *)
(* perhaps alters a byte or the length on the way, and decodes.            *)
(*                                                                         *)
(* Bytes are digits of a base, 256 in the code, so that lengths of two     *)
(* digits and fields of one digit wrap on small values.  How the decoder   *)
(* stays within the frame is in FrameDecoder; here a read past the end     *)
(* moves the cursor beyond the end, where every later read fails.          *)
(***************************************************************************)
EXTENDS TxDerive

CONSTANTS
  Base,          \* values of a byte
  SlotSize, HashSize, SigSize, KeySize,  \* bytes: 8, 32, 64 and 32
  ErrBadFrame,
  OtherFrame,    \* a frame without a transaction
  Inputs         \* the calls of EncodeFrameTx: transaction, flag, loaded addresses

ASSUME CodecSizes ==
  /\ Base \in Nat /\ Base > 4
  /\ SlotSize \in Nat /\ HashSize \in Nat
  /\ SigSize \in Nat \ {0} /\ KeySize \in Nat \ {0}

Byte == 0 .. Base - 1
Bytes == Seq(Byte)
Word(n) == [1 .. n -> Byte]  \* the type [n]byte

Instruction == [ProgramIDIndex : Nat, Accounts : Bytes, Data : Bytes]
AddressTableLookup == [AccountKey : Word(KeySize), WritableIndexes : Bytes, ReadonlyIndexes : Bytes]

FullTx ==
  [Slot : Word(SlotSize), NumRequiredSignatures : Nat, NumReadonlySignedAccounts : Nat,
   NumReadonlyUnsignedAccount : Nat, Versioned : BOOLEAN, RecentBlockhash : Word(HashSize),
   Signatures : Seq(Word(SigSize)), AccountKeys : Seq(Word(KeySize)),
   Instructions : Seq(Instruction), AddressTableLookups : Seq(AddressTableLookup)]

ASSUME InputsAssumption ==
  Inputs \subseteq [Tx : FullTx, AltIncomplete : BOOLEAN,
                    LoadedWritable : Seq(Word(KeySize)), LoadedReadonly : Seq(Word(KeySize))]
ASSUME NoneAssumption == None \notin Bytes
\* An error is not a list of records, as in Go, where it is a value of its own.
ASSUME ErrBadFrameAssumption == ErrBadFrame \notin Seq([typ : Byte, value : Bytes])

VARIABLES
  input,    \* the arguments of EncodeFrameTx
  wire,     \* the frame
  altered,  \* it is not what EncodeFrameTx returned
  decoded   \* what DecodeFrame returned

vars == <<input, wire, altered, decoded>>

WiderCap == 2 * Base * Base  \* mutant: a cap beyond what two digits count

MaxFullTxBody == Base * Base

MsgTx == 1
FlagAltIncomplete == 1
TLVLoadedWritable == 1
TLVLoadedReadonly == 2

-----------------------------------------------------------------------------
\* Encoding.  Numbers are narrowed to their width without a check.
put8(n) == <<n % Base>>
put16(n) == <<n % Base, (n \div Base) % Base>>
putPart(bytes) == put16(Len(bytes)) \o bytes
putList(elems) == put16(Len(elems)) \o FlattenSeq(elems)

putInstruction(ix) == put8(ix.ProgramIDIndex) \o putPart(ix.Accounts) \o putPart(ix.Data)
putLookup(l) == l.AccountKey \o putPart(l.WritableIndexes) \o putPart(l.ReadonlyIndexes)

EncodeFullTx(ft) ==
  ft.Slot \o put8(ft.NumRequiredSignatures) \o put8(ft.NumReadonlySignedAccounts)
    \o put8(ft.NumReadonlyUnsignedAccount) \o (IF ft.Versioned THEN <<1>> ELSE <<0>>)
    \o ft.RecentBlockhash
    \o putList(ft.Signatures) \o putList(ft.AccountKeys)
    \o putList([i \in DOMAIN ft.Instructions |-> putInstruction(ft.Instructions[i])])
    \o putList([i \in DOMAIN ft.AddressTableLookups |-> putLookup(ft.AddressTableLookups[i])])

putTLV(type, addrs) == IF addrs = <<>> THEN <<>> ELSE <<type>> \o putPart(FlattenSeq(addrs))

EncodeFrameTx(in) ==
  <<MsgTx, IF in.AltIncomplete THEN FlagAltIncomplete ELSE 0>> \o EncodeFullTx(in.Tx)
    \o putTLV(TLVLoadedWritable, in.LoadedWritable)
    \o putTLV(TLVLoadedReadonly, in.LoadedReadonly)

-----------------------------------------------------------------------------
\* Decoding.  Every read returns the cursor after it, and its value.
Read(off, val) == [off |-> off, val |-> val]
Bad(b) == Read(Len(b) + 1, <<>>)
Ok(b, r) == r.off <= Len(b)

take(b, off, n) ==
  IF off + n <= Len(b) THEN Read(off + n, SubSeq(b, off + 1, off + n)) ELSE Bad(b)

u8(b, off) == LET t == take(b, off, 1) IN IF Ok(b, t) THEN Read(t.off, t.val[1]) ELSE Bad(b)

u16BigEndian(b, off) ==  \* mutant
  LET t == take(b, off, 2)
  IN  Read(t.off, IF Ok(b, t) THEN Base * t.val[1] + t.val[2] ELSE 0)

u16(b, off) ==
  LET t == take(b, off, 2)
  IN  Read(t.off, IF Ok(b, t) THEN t.val[1] + Base * t.val[2] ELSE 0)

part(b, off) == LET n == u16(b, off) IN take(b, n.off, n.val)

\* A count, refused if that many elements of minElem bytes cannot fit.
count(b, off, minElem) ==
  LET n == u16(b, off)
  IN  IF n.val > (Len(b) - n.off) \div minElem THEN Bad(b) ELSE n

\* Where a read may start; the last is beyond the end.
Cursors(b) == 0 .. Len(b) + 1

\* n.val elements, one after the other: elem[off] is the one read at off.
reads(n, elem) ==
  LET read[i \in 0 .. n.val] ==
        IF i = 0 THEN Read(n.off, <<>>)
        ELSE LET before == read[i - 1]
                 e == elem[before.off]
             IN  Read(e.off, Append(before.val, e.val))
  IN  read

elements(b, n, elem) == IF Ok(b, n) THEN reads(n, elem)[n.val] ELSE n

instruction(b, off) ==
  LET pid == u8(b, off)
      acc == part(b, pid.off)
      dat == part(b, acc.off)
  IN  Read(dat.off, [ProgramIDIndex |-> pid.val, Accounts |-> acc.val, Data |-> dat.val])

lookup(b, off) ==
  LET key == take(b, off, KeySize)
      w   == part(b, key.off)
      r   == part(b, w.off)
  IN  Read(r.off, [AccountKey |-> key.val, WritableIndexes |-> w.val, ReadonlyIndexes |-> r.val])

decodeFullTxPrefix(b) ==
  LET slot   == take(b, 0, SlotSize)
      header == take(b, slot.off, 4)
      hash   == take(b, header.off, HashSize)
      sigs   == elements(b, count(b, hash.off, SigSize), [o \in Cursors(b) |-> take(b, o, SigSize)])
      keys   == elements(b, count(b, sigs.off, KeySize), [o \in Cursors(b) |-> take(b, o, KeySize)])
      ixs    == elements(b, count(b, keys.off, 5), [o \in Cursors(b) |-> instruction(b, o)])
      alts   == elements(b, count(b, ixs.off, KeySize + 4), [o \in Cursors(b) |-> lookup(b, o)])
  IN  IF Len(b) > MaxFullTxBody \/ ~Ok(b, alts) THEN Bad(b)
      ELSE Read(alts.off,
             [Slot |-> slot.val, NumRequiredSignatures |-> header.val[1],
              NumReadonlySignedAccounts |-> header.val[2],
              NumReadonlyUnsignedAccount |-> header.val[3],
              Versioned |-> header.val[4] # 0, RecentBlockhash |-> hash.val,
              Signatures |-> sigs.val, AccountKeys |-> keys.val,
              Instructions |-> ixs.val, AddressTableLookups |-> alts.val])

\* A body on its own, which must end where its positional part does.
DecodeFullTx(b) ==
  LET body == decodeFullTxPrefix(b)
  IN  IF Ok(b, body) /\ body.off = Len(b) THEN body.val ELSE ErrBadFrame

\* The records of the trailer from the cursor on.
parseTLVs(b, off) ==
  LET from[o \in off .. Len(b)] ==
        IF o = Len(b) THEN <<>>
        ELSE LET t    == u8(b, o)
                 v    == part(b, t.off)
                 rest == from[v.off]
             IN  IF ~Ok(b, v) THEN ErrBadFrame
                 ELSE IF rest = ErrBadFrame THEN ErrBadFrame
                 ELSE IF \E i \in DOMAIN rest : rest[i].typ = t.val THEN ErrBadFrame
                 ELSE <<[typ |-> t.val, value |-> v.val]>> \o rest
  IN  from[off]

\* The value of the record of a type, <<>> if there is none.
TLV(tlvs, type) == FlattenSeq([i \in DOMAIN tlvs |-> IF tlvs[i].typ = type THEN tlvs[i].value ELSE <<>>])

unflatten32(v) == [i \in 1 .. Len(v) \div KeySize |-> SubSeq(v, (i - 1) * KeySize + 1, i * KeySize)]

decodeTx(flags, rest) ==
  LET body == decodeFullTxPrefix(rest)
      tlvs == parseTLVs(rest, body.off)
      w    == TLV(tlvs, TLVLoadedWritable)
      r    == TLV(tlvs, TLVLoadedReadonly)
  IN  IF flags \notin {0, FlagAltIncomplete} \/ ~Ok(rest, body) THEN ErrBadFrame
      ELSE IF tlvs = ErrBadFrame THEN ErrBadFrame
      ELSE IF Len(w) % KeySize # 0 \/ Len(r) % KeySize # 0 THEN ErrBadFrame
      ELSE [Tx |-> body.val, AltIncomplete |-> flags = FlagAltIncomplete,
            LoadedWritable |-> unflatten32(w), LoadedReadonly |-> unflatten32(r)]

\* DecodeFrame; a heartbeat's records are in FrameDecoder.
DecodeFrame(src) ==
  IF Len(src) < 2 THEN ErrBadFrame
  ELSE IF src[1] # MsgTx THEN OtherFrame
  ELSE decodeTx(src[2], SubSeq(src, 3, Len(src)))

-----------------------------------------------------------------------------
Init ==
  /\ input \in Inputs
  /\ wire = EncodeFrameTx(input) /\ altered = FALSE
  /\ decoded = None

\* The peer may send any bytes; those one change away from a frame say most.
Alter ==
  /\ ~altered
  /\ decoded = None
  /\ \/ \E i \in DOMAIN wire, x \in 0 .. Base - 1 : wire' = [wire EXCEPT ![i] = x]
     \/ \E n \in 0 .. Len(wire) - 1 : wire' = SubSeq(wire, 1, n)
     \/ \E x \in 0 .. Base - 1 : wire' = Append(wire, x)
  /\ wire' # wire
  /\ altered' = TRUE
  /\ UNCHANGED <<input, decoded>>

Decode ==
  /\ decoded = None
  /\ decoded' = DecodeFrame(wire)
  /\ UNCHANGED <<input, wire, altered>>

Next == Alter \/ Decode

Spec == Init /\ [][Next]_vars

-----------------------------------------------------------------------------
\* A transaction with its one-byte fields narrowed, as Go's conversions do.
NarrowedInstruction(ix) == [ix EXCEPT !.ProgramIDIndex = @ % Base]

Narrowed(ft) ==
  [ft EXCEPT !.NumRequiredSignatures = @ % Base,
             !.NumReadonlySignedAccounts = @ % Base,
             !.NumReadonlyUnsignedAccount = @ % Base,
             !.Instructions = [i \in DOMAIN @ |-> NarrowedInstruction(@[i])]]

Accepted == decoded \notin {None, ErrBadFrame, OtherFrame}

\* EncodeFullTx, putTLV: decoding an encoded frame, or an encoded body on its own,
\* gives back what was encoded, up to the narrowing of the four uint32 fields, or
\* fails because it is over the cap.  In particular a count or length that its two
\* bytes cannot hold is never read back as a smaller one: whatever wraps is over
\* the cap as well.
EncodeThenDecode ==
  ~altered /\ decoded # None =>
    /\ decoded = IF Len(wire) - 2 > MaxFullTxBody THEN ErrBadFrame
                 ELSE [input EXCEPT !.Tx = Narrowed(@)]
    /\ LET body == EncodeFullTx(input.Tx)
       IN  DecodeFullTx(body) = IF Len(body) > MaxFullTxBody THEN ErrBadFrame
                                ELSE Narrowed(input.Tx)

\* The decoder is strict: of the bytes of a body it accepts, only the versioned byte
\* has several forms, so two bodies that decode alike differ there or nowhere; and
\* DecodeFullTx takes the body alone, never with bytes after it.
BodyIsCanonical ==
  Accepted =>
    LET body == EncodeFullTx(decoded.Tx)
        v    == SlotSize + 4
    IN  /\ 2 + Len(body) <= Len(wire)
        /\ \A i \in DOMAIN body : i # v => wire[2 + i] = body[i]
        /\ (wire[2 + v] # 0) = decoded.Tx.Versioned
        /\ DecodeFullTx(SubSeq(wire, 3, Len(wire))) =
             IF Len(wire) = 2 + Len(body) THEN decoded.Tx ELSE ErrBadFrame

\* The derived fields agree with their definitions on every transaction that is
\* decoded, its header consistent or not: the fee payer, the programs, the static
\* writable accounts, and the values of the price and the limit.
DerivedFieldsAgree ==
  Accepted =>
    /\ FeePayerLeads(decoded.Tx)
    /\ WritableIsHeaderSplit(decoded.Tx)
    /\ ProgramsInFirstUseOrder(decoded.Tx)
    /\ BudgetsAsSet(decoded.Tx)
=============================================================================
