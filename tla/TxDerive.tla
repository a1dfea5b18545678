------------------------------ MODULE TxDerive ------------------------------
(***************************************************************************)
(* derive.go: what a caller computes from a decoded transaction.  A        *)
(* transaction need not be a valid Solana one: header counts may exceed the *)
(* account keys, and a program index may point past them.                  *)
(***************************************************************************)
EXTENDS Integers, Sequences, FiniteSets, SequencesExt, FiniteSetsExt

CONSTANTS
  computeBudgetProgramID,
  PriceSize, LimitSize,  \* 8 and 4 bytes
  None

ASSUME BudgetProgramAssumption == computeBudgetProgramID # None
ASSUME BudgetSizes == PriceSize \in Nat /\ LimitSize \in Nat

FeePayer(tx) == IF tx.AccountKeys = <<>> THEN None ELSE tx.AccountKeys[1]

\* The program of an instruction, None if its index is out of range.
program(tx, ix) ==
  IF ix.ProgramIDIndex < Len(tx.AccountKeys) THEN tx.AccountKeys[ix.ProgramIDIndex + 1] ELSE None

\* out after each iteration of ProgramIDs's loop.
outs(tx) ==
  LET out[n \in 0 .. Len(tx.Instructions)] ==
        IF n = 0 THEN <<>>
        ELSE LET before == out[n - 1]
                 k == program(tx, tx.Instructions[n])
             IN  IF k = None \/ Contains(before, k) THEN before ELSE Append(before, k)
  IN  out

ProgramIDs(tx) == outs(tx)[Len(tx.Instructions)]

minInt(a, b) == IF a < b THEN a ELSE b
satSubInt(a, b) == IF a < b THEN 0 ELSE a - b

StaticWritableSkipsReadonly(tx) ==  \* mutant: unsigned accounts follow the writable signers
  LET n == Len(tx.AccountKeys)
      signedWritableEnd ==
        minInt(satSubInt(tx.NumRequiredSignatures, tx.NumReadonlySignedAccounts), n)
  IN  SubSeq(tx.AccountKeys, 1, signedWritableEnd) \o
      SubSeq(tx.AccountKeys, signedWritableEnd + 1, satSubInt(n, tx.NumReadonlyUnsignedAccount))

StaticWritableAccounts(tx) ==
  LET n   == Len(tx.AccountKeys)
      nrs == tx.NumRequiredSignatures
      signedWritableEnd == minInt(satSubInt(nrs, tx.NumReadonlySignedAccounts), n)
      unsignedStart     == minInt(nrs, n)
      unsignedEnd       == satSubInt(n, tx.NumReadonlyUnsignedAccount)
  IN  SubSeq(tx.AccountKeys, 1, signedWritableEnd) \o
      SubSeq(tx.AccountKeys, unsignedStart + 1, unsignedEnd)

computeBudgetIxLast(tx, discriminator) ==  \* mutant: a later instruction overrides
  LET hits == {i \in DOMAIN tx.Instructions :
                 LET ix == tx.Instructions[i]
                 IN  /\ program(tx, ix) = computeBudgetProgramID
                     /\ ix.Data # <<>> /\ ix.Data[1] = discriminator}
  IN  IF hits = {} THEN None ELSE Tail(tx.Instructions[Max(hits)].Data)

\* The data after the discriminator in the first such instruction.
computeBudgetIx(tx, discriminator) ==
  LET hits == {i \in DOMAIN tx.Instructions :
                 LET ix == tx.Instructions[i]
                 IN  /\ program(tx, ix) = computeBudgetProgramID
                     /\ ix.Data # <<>> /\ ix.Data[1] = discriminator}
  IN  IF hits = {} THEN None ELSE Tail(tx.Instructions[Min(hits)].Data)

budgetValue(tx, discriminator, width) ==
  LET d == computeBudgetIx(tx, discriminator)
  IN  IF d = None THEN None ELSE IF Len(d) < width THEN None ELSE SubSeq(d, 1, width)

ComputeUnitPrice(tx) == budgetValue(tx, 3, PriceSize)
ComputeUnitLimit(tx) == budgetValue(tx, 2, LimitSize)

-----------------------------------------------------------------------------
\* The header read as signed integers: account i, from 0, is writable if it is one of
\* the first nrs - nrsa, or not a signer and not one of the last nrua.
WritableIndex(tx, i) ==
  \/ i < tx.NumRequiredSignatures - tx.NumReadonlySignedAccounts
  \/ /\ i >= tx.NumRequiredSignatures
     /\ i < Len(tx.AccountKeys) - tx.NumReadonlyUnsignedAccount

\* StaticWritableAccounts: exactly the writable accounts of the header, each once
\* and in order, whatever its counts; no saturation loses or repeats one.
WritableIsHeaderSplit(tx) ==
  LET out == StaticWritableAccounts(tx)
      W   == {j \in DOMAIN tx.AccountKeys : WritableIndex(tx, j - 1)}
      rank(j) == Cardinality({k \in W : k <= j})
  IN  /\ Len(out) = Cardinality(W)
      /\ \A j \in W : out[rank(j)] = tx.AccountKeys[j]

\* ProgramIDs: every program invoked, once, in the order of first use.
ProgramsInFirstUseOrder(tx) ==
  LET ids == ProgramIDs(tx)
      FirstUse(p) == Min({i \in DOMAIN tx.Instructions : program(tx, tx.Instructions[i]) = p})
  IN  /\ ToSet(ids) = {program(tx, ix) : ix \in ToSet(tx.Instructions)} \ {None}
      /\ \A i, j \in DOMAIN ids : i < j => FirstUse(ids[i]) < FirstUse(ids[j])

\* FeePayer: the first key, if there is one; and where the header makes that key a
\* writable signer, as it does in a valid transaction, the first writable account.
FeePayerLeads(tx) ==
  LET keys == tx.AccountKeys
      out  == StaticWritableAccounts(tx)
  IN  /\ FeePayer(tx) = None <=> keys = <<>>
      /\ keys # <<>> => FeePayer(tx) = Head(keys)
      /\ keys # <<>> /\ tx.NumRequiredSignatures > tx.NumReadonlySignedAccounts =>
           Len(out) > 0 /\ out[1] = FeePayer(tx)

\* Instruction i is one of the compute-budget program, with the discriminator.
SetsBudget(tx, i, discriminator) ==
  LET ix == tx.Instructions[i]
  IN  /\ program(tx, ix) = computeBudgetProgramID
      /\ ix.Data # <<>> /\ ix.Data[1] = discriminator

\* The value is the bytes after the discriminator in the first instruction that has
\* it, none if there is none or it is too short, even if a later one is not.
BudgetIsFirstSet(tx, value, discriminator, width) ==
  LET sets == {i \in DOMAIN tx.Instructions : SetsBudget(tx, i, discriminator)}
  IN  /\ sets = {} => value = None
      /\ \A i \in sets : (\A j \in sets : i <= j) =>
           LET data == tx.Instructions[i].Data
           IN  value = IF Len(data) <= width THEN None
                       ELSE [k \in 1 .. width |-> data[k + 1]]

\* ComputeUnitPrice, ComputeUnitLimit: SetComputeUnitPrice is 3, SetComputeUnitLimit
\* is 2, and either is that of a program the transaction invokes.
BudgetsAsSet(tx) ==
  /\ BudgetIsFirstSet(tx, ComputeUnitPrice(tx), 3, PriceSize)
  /\ BudgetIsFirstSet(tx, ComputeUnitLimit(tx), 2, LimitSize)
  /\ ComputeUnitPrice(tx) # None \/ ComputeUnitLimit(tx) # None =>
       Contains(ProgramIDs(tx), computeBudgetProgramID)
=============================================================================
