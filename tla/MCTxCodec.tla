------------------------------ MODULE MCTxCodec ------------------------------
(***************************************************************************)
(* TxCodec with one-byte fields.  The transactions vary the header, the    *)
(* instructions, and the lists; some fields are too wide for their bytes.  *)
(***************************************************************************)
EXTENDS TxCodec

Budget == <<2>>

Plain ==
  [Slot |-> <<4>>, NumRequiredSignatures |-> 1, NumReadonlySignedAccounts |-> 0,
   NumReadonlyUnsignedAccount |-> 0, Versioned |-> FALSE, RecentBlockhash |-> <<5>>,
   Signatures |-> <<>>, AccountKeys |-> <<<<1>>, <<2>>>>, Instructions |-> <<>>,
   AddressTableLookups |-> <<>>]

Ix(pid, accounts, data) ==
  [ProgramIDIndex |-> pid, Accounts |-> accounts, Data |-> data]

Lookup(w, r) == [AccountKey |-> <<3>>, WritableIndexes |-> w, ReadonlyIndexes |-> r]

Zeros(n) == [i \in 1 .. n |-> 0]

\* Bytes that read as the end of a transaction and one trailer record, should
\* their own length be read as zero.
Tail36 == <<0, 0, 5, 3, 5>> \o Zeros(31)

Headers ==
  {[Plain EXCEPT !.NumRequiredSignatures = s, !.NumReadonlySignedAccounts = rs,
                 !.NumReadonlyUnsignedAccount = ru,
                 !.AccountKeys = SubSeq(<<<<1>>, <<2>>, <<3>>>>, 1, n)] :
     s \in {0, 1, 2, 4, Base + 1}, rs \in 0 .. 2, ru \in {0, 1, 4}, n \in 0 .. 3}

Ixs == {Ix(p, <<>>, d) : p \in {0, 1, 2, Base}, d \in {<<>>, <<3, 4>>, <<2>>}}
         \cup {Ix(0, <<5>>, <<>>), Ix(1, <<>>, Tail36)}
         \cup {Ix(1, <<>>, <<3, 5>>), Ix(1, <<>>, <<2, 4>>)}

Programs == {[Plain EXCEPT !.Instructions = s] : s \in UNION {[1 .. n -> Ixs] : n \in 0 .. 2}}

Lists ==
  {[Plain EXCEPT !.Versioned = TRUE, !.Signatures = s, !.AddressTableLookups = l] :
     s \in {<<>>, <<<<1>>, <<2>>>>, [i \in 1 .. Base * Base |-> <<0>>]},
     l \in {<<>>, <<Lookup(<<1>>, <<>>)>>, <<Lookup(<<>>, Tail36)>>}}

In(tx, alt, w, r) ==
  [Tx |-> tx, AltIncomplete |-> alt, LoadedWritable |-> w, LoadedReadonly |-> r]

MCInputs ==
  {In(tx, FALSE, <<>>, <<>>) : tx \in Headers \cup Programs \cup Lists} \cup
  {In(Plain, alt, w, r) : alt \in BOOLEAN, w \in {<<>>, <<<<1>>>>, <<<<2>>, <<2>>>>},
                          r \in {<<>>, <<<<4>>>>, [i \in 1 .. Base * Base |-> <<0>>]}}
=============================================================================
