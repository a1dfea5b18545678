---------------------------- MODULE TxCodecProofs ----------------------------
(***************************************************************************)
(* Proofs about TxCodec and TxDerive, for every base, size of field and    *)
(* set of transactions.  In this order:                                    *)
(*  - what derive.go computes from any transaction is what its header and  *)
(*    its instructions say, consistent or not;                             *)
(*  - what the decoder accepts is a transaction (Reads), what the encoder  *)
(*    makes is bytes;                                                      *)
(*  - decoding undoes encoding, where the bytes are those that were        *)
(*    written (Holds); and the bytes that were read are those that would   *)
(*    be written (Exact), but for the versioned byte (ExactBut);           *)
(*  - the trailer's records, and the frame with both.                      *)
(*                                                                         *)
(* Lists are read and written one element after the other, so the proofs   *)
(* are by induction on their lengths, by least counterexample.             *)
(***************************************************************************)
EXTENDS TxCodec, FiniteSetTheorems, SequenceTheorems, WellFoundedInduction, TLAPS

\* What derive.go may rely on.
IsTx(tx, Keys) ==
  /\ None \notin Keys
  /\ tx.AccountKeys \in Seq(Keys)
  /\ tx.NumRequiredSignatures \in Nat
  /\ tx.NumReadonlySignedAccounts \in Nat
  /\ tx.NumReadonlyUnsignedAccount \in Nat
  /\ Len(tx.Instructions) \in Nat
  /\ tx.Instructions = [i \in 1 .. Len(tx.Instructions) |-> tx.Instructions[i]]
  /\ \A i \in 1 .. Len(tx.Instructions) : tx.Instructions[i].ProgramIDIndex \in Nat

-----------------------------------------------------------------------------
\* Writable accounts.

LEMMA TwoIntervals ==
  ASSUME NEW a \in Nat, NEW b \in Nat, NEW c \in Nat, a <= b
  PROVE  Cardinality((1 .. a) \cup (b + 1 .. c)) = a + (IF b < c THEN c - b ELSE 0)
<1>1. /\ IsFiniteSet(1 .. a) /\ Cardinality(1 .. a) = a
      /\ IsFiniteSet(b + 1 .. c)
      /\ Cardinality(b + 1 .. c) = IF b < c THEN c - b ELSE 0
  <2>1. \A x, y \in Int : /\ IsFiniteSet(x .. y)
                          /\ Cardinality(x .. y) = IF x > y THEN 0 ELSE y - x + 1
    BY FS_Interval
  <2> QED
    BY <2>1
<1>2. (1 .. a) \cap (b + 1 .. c) = {}
  OBVIOUS
<1>3. Cardinality((1 .. a) \cap (b + 1 .. c)) = 0
  BY <1>2, FS_EmptySet
<1>4. Cardinality((1 .. a) \cup (b + 1 .. c))
        = Cardinality(1 .. a) + Cardinality(b + 1 .. c)
            - Cardinality((1 .. a) \cap (b + 1 .. c))
  BY <1>1, FS_Union
<1> QED
  BY <1>1, <1>3, <1>4

\* The saturating bounds cut the keys into two runs, which are what the header says.
LEMMA HeaderSplits ==
  ASSUME NEW Keys, NEW tx, IsTx(tx, Keys)
  PROVE  WritableIsHeaderSplit(tx)
<1> DEFINE keys == tx.AccountKeys
           n == Len(keys)
           nrs == tx.NumRequiredSignatures
           nrsa == tx.NumReadonlySignedAccounts
           nrua == tx.NumReadonlyUnsignedAccount
           a == minInt(satSubInt(nrs, nrsa), n)
           b == minInt(nrs, n)
           c == satSubInt(n, nrua)
           out == StaticWritableAccounts(tx)
           W == {j \in DOMAIN keys : WritableIndex(tx, j - 1)}
           upTo(j) == {k \in W : k <= j}
<1>1. /\ keys \in Seq(Keys) /\ n \in Nat /\ DOMAIN keys = 1 .. n
      /\ nrs \in Nat /\ nrsa \in Nat /\ nrua \in Nat
  BY DEF IsTx
<1>2. /\ a \in Nat /\ b \in Nat /\ c \in Nat /\ a <= b /\ b <= n /\ c <= n
  BY <1>1 DEF minInt, satSubInt
<1>3. \A j \in 1 .. n : WritableIndex(tx, j - 1) <=> j <= a \/ (b < j /\ j <= c)
  <2> TAKE j \in 1 .. n
  <2>1. j - 1 < nrs - nrsa <=> j <= a
    BY <1>1 DEF minInt, satSubInt
  <2>2. j - 1 >= nrs <=> b < j
    BY <1>1 DEF minInt, satSubInt
  <2>3. j - 1 < n - nrua <=> j <= c
    BY <1>1 DEF minInt, satSubInt
  <2> QED
    BY <2>1, <2>2, <2>3 DEF WritableIndex
<1>4. out = SubSeq(keys, 1, a) \o SubSeq(keys, b + 1, c)
  BY DEF StaticWritableAccounts
<1> DEFINE first == SubSeq(keys, 1, a)
           rest == SubSeq(keys, b + 1, c)
<1> HIDE DEF n, nrs, nrsa, nrua, a, b, c, out, W, keys
<1>5. /\ first \in Seq(Keys) /\ Len(first) = a
      /\ rest \in Seq(Keys) /\ Len(rest) = IF b < c THEN c - b ELSE 0
      /\ \A i \in 1 .. a : first[i] = keys[i]
      /\ \A i \in 1 .. Len(rest) : rest[i] = keys[b + i]
  <2>1. first \in Seq(Keys) /\ Len(first) = a /\ \A i \in 1 .. a : first[i] = keys[i]
    <3>1. \A i \in 1 .. a : i \in 1 .. n
      BY <1>1, <1>2
    <3> QED
      BY <1>1, <1>2, <3>1 DEF n
  <2>2. CASE b < c
    <3>1. \A i \in b + 1 .. c : i \in 1 .. n
      BY <1>1, <1>2
    <3> QED
      BY <1>1, <1>2, <2>1, <2>2, <3>1 DEF n
  <2>3. CASE ~ (b < c)
    BY <1>1, <1>2, <2>1, <2>3 DEF n
  <2> QED
    BY <2>2, <2>3
<1> HIDE DEF first, rest
<1>6. /\ Len(out) = a + Len(rest)
      /\ \A i \in 1 .. a : out[i] = keys[i]
      /\ \A i \in 1 .. Len(rest) : out[a + i] = keys[b + i]
  <2>1. out = first \o rest
    BY <1>4 DEF first, rest
  <2>2. /\ Len(out) = Len(first) + Len(rest)
        /\ \A i \in 1 .. Len(first) + Len(rest) :
             out[i] = IF i <= Len(first) THEN first[i] ELSE rest[i - Len(first)]
    BY <1>5, <2>1, ConcatProperties
  <2>3. Len(rest) \in Nat
    BY <1>5
  <2>4. ASSUME NEW i \in 1 .. Len(rest)
        PROVE  out[a + i] = keys[b + i]
    <3>1. a + i \in 1 .. a + Len(rest) /\ ~ (a + i <= a) /\ a + i - a = i
      BY <1>2, <2>3
    <3>2. out[a + i] = rest[a + i - a]
      BY <1>5, <2>2, <3>1
    <3>3. rest[i] = keys[b + i]
      BY <1>5
    <3> QED
      BY <3>1, <3>2, <3>3
  <2>5. \A i \in 1 .. a : i \in 1 .. a + Len(rest)
    BY <1>2, <2>3
  <2> QED
    BY <1>5, <2>2, <2>4, <2>5
<1>7. W = (1 .. a) \cup (b + 1 .. c)
  BY <1>1, <1>2, <1>3 DEF W
<1>8. Len(out) = Cardinality(W)
  <2>1. Cardinality(W) = a + (IF b < c THEN c - b ELSE 0)
    BY <1>2, <1>7, TwoIntervals
  <2> QED
    BY <1>5, <1>6, <2>1
<1>9. ASSUME NEW j \in W
      PROVE  out[Cardinality(upTo(j))] = keys[j]
  <2>1. CASE j <= a
    <3>1. upTo(j) = (1 .. j) \cup (b + 1 .. 0)
      BY <1>2, <1>7, <2>1
    <3>2. j \in Nat /\ j <= b
      BY <1>2, <1>7, <2>1
    <3>3. Cardinality(upTo(j)) = j
      BY <1>2, <3>1, <3>2, TwoIntervals
    <3> QED
      BY <1>2, <1>6, <1>7, <2>1, <3>3
  <2>2. CASE j > a
    <3>1. j \in b + 1 .. c
      BY <1>2, <1>7, <2>2
    <3>2. upTo(j) = (1 .. a) \cup (b + 1 .. j)
      BY <1>2, <1>7, <3>1
    <3>3. Cardinality(upTo(j)) = a + (j - b)
      <4>1. j \in Nat /\ b < j
        BY <1>2, <3>1
      <4> QED
        BY <1>2, <3>2, <4>1, TwoIntervals
    <3>4. j - b \in 1 .. Len(rest) /\ b + (j - b) = j
      BY <1>2, <1>5, <3>1
    <3> QED
      BY <1>6, <3>3, <3>4
  <2>3. j \in Nat
    BY <1>2, <1>7
  <2> QED
    BY <1>2, <2>1, <2>2, <2>3
<1> QED
  BY <1>8, <1>9 DEF WritableIsHeaderSplit, out, W, keys
-----------------------------------------------------------------------------
\* Recursion over the instructions, by induction on their number.

LEMMA LeastElement ==
  ASSUME NEW T \in SUBSET Nat, T # {}
  PROVE  \E x \in T : \A y \in T : x <= y
<1> DEFINE R == OpToRel(<, Nat)
<1>1. IsWellFoundedOn(R, Nat)
  BY NatLessThanWellFounded
<1>2. \A x, y \in Nat : y < x => <<y, x>> \in R
  BY DEF OpToRel
<1> HIDE DEF R
<1>3. PICK x \in T : \A y \in T : ~ (<<y, x>> \in R)
  BY <1>1, WFMin
<1>4. \A y \in T : ~ (y < x)
  BY <1>2, <1>3
<1>5. \A y \in T : x <= y
  BY <1>4
<1> QED
  BY <1>5

\* A set that holds 0, and with a number below n the next, holds all up to n.
LEMMA Induction ==
  ASSUME NEW n \in Nat, NEW S, 0 \in S, \A i \in 1 .. n : i - 1 \in S => i \in S
  PROVE  \A i \in 0 .. n : i \in S
<1> DEFINE T == {i \in 0 .. n : i \notin S}
<1> SUFFICES ASSUME T # {} PROVE FALSE
  OBVIOUS
<1>1. T \in SUBSET Nat
  OBVIOUS
<1>2. PICK m \in T : \A k \in T : m <= k
  BY <1>1, LeastElement
<1>3. m \in 1 .. n /\ m - 1 \in 0 .. n
  BY <1>2
<1>4. m - 1 \in S
  BY <1>2, <1>3
<1> QED
  BY <1>3, <1>4

\* What ProgramIDs's loop makes of out at instruction i.
AddProgram(tx, before, i) ==
  LET k == program(tx, tx.Instructions[i])
  IN  IF k = None \/ Contains(before, k) THEN before ELSE Append(before, k)

\* outs(tx) is what its recursive definition says.
LEMMA OutsDefined ==
  ASSUME NEW tx, Len(tx.Instructions) \in Nat
  PROVE  outs(tx) =
           [i \in 0 .. Len(tx.Instructions) |->
              IF i = 0 THEN <<>> ELSE AddProgram(tx, outs(tx)[i - 1], i)]
<1> DEFINE n == Len(tx.Instructions)
           IsUpTo(m, g) == g = [i \in 0 .. m |-> IF i = 0 THEN <<>>
                                                ELSE AddProgram(tx, g[i - 1], i)]
           S == {m \in 0 .. n : \E g : IsUpTo(m, g)}
<1>1. 0 \in S
  <2>1. IsUpTo(0, [i \in 0 .. 0 |-> <<>>])
    OBVIOUS
  <2> HIDE DEF IsUpTo
  <2> QED
    BY <2>1
<1>2. ASSUME NEW m \in 1 .. n, m - 1 \in S
      PROVE  m \in S
  <2>1. PICK g : IsUpTo(m - 1, g)
    BY <1>2
  <2> DEFINE h == [i \in 0 .. m |-> IF i = m THEN AddProgram(tx, g[m - 1], m) ELSE g[i]]
  <2>2. \A i \in 0 .. m : h[i] = IF i = 0 THEN <<>>
                                ELSE AddProgram(tx, h[i - 1], i)
    <3> SUFFICES ASSUME NEW i \in 0 .. m
                 PROVE  h[i] = IF i = 0 THEN <<>>
                               ELSE AddProgram(tx, h[i - 1], i)
      OBVIOUS
    <3>1. CASE i = m
      BY <3>1
    <3>2. CASE i # m
      <4>1. i \in 0 .. m - 1 /\ h[i] = g[i]
        BY <3>2
      <4>2. i # 0 => h[i - 1] = g[i - 1]
        BY <3>2
      <4>3. g[i] = IF i = 0 THEN <<>> ELSE AddProgram(tx, g[i - 1], i)
        BY <2>1, <4>1
      <4> QED
        BY <4>1, <4>2, <4>3
    <3> QED
      BY <3>1, <3>2
  <2>3. IsUpTo(m, h)
    BY <2>2
  <2> HIDE DEF IsUpTo, h
  <2> QED
    BY <2>3
<1>3. n \in S
  <2> HIDE DEF S, n
  <2>1. n \in Nat
    BY DEF n
  <2>2. \A i \in 1 .. n : i - 1 \in S => i \in S
    BY <1>2
  <2>3. \A i \in 0 .. n : i \in S
    BY <1>1, <2>1, <2>2, Induction
  <2> QED
    BY <2>1, <2>3
<1>4. \E g : IsUpTo(n, g)
  BY <1>3
<1>5. outs(tx) = CHOOSE g : IsUpTo(n, g)
  BY DEF outs, AddProgram
<1> HIDE DEF IsUpTo
<1>6. IsUpTo(n, outs(tx))
  BY <1>4, <1>5
<1> QED
  BY <1>6 DEF IsUpTo


-----------------------------------------------------------------------------
\* Programs.

\* The instructions that invoke a program, of the first n.
Uses(tx, p, n) == {i \in 1 .. n : program(tx, tx.Instructions[i]) = p}

LEMMA FirstUse ==
  ASSUME NEW tx, NEW p, NEW n \in Nat, Uses(tx, p, n) # {}
  PROVE  /\ Min(Uses(tx, p, n)) \in Uses(tx, p, n)
         /\ \A i \in Uses(tx, p, n) : Min(Uses(tx, p, n)) <= i
<1> DEFINE T == Uses(tx, p, n)
<1>1. T \in SUBSET Nat
  BY DEF Uses
<1> HIDE DEF T
<1>2. \E x \in T : \A y \in T : x <= y
  BY <1>1, LeastElement DEF T
<1>3. Min(T) \in T /\ \A y \in T : Min(T) <= y
  BY <1>2 DEF Min
<1> QED
  BY <1>3 DEF T

LEMMA ProgramInKeys ==
  ASSUME NEW Keys, NEW tx, IsTx(tx, Keys), NEW i \in 1 .. Len(tx.Instructions)
  PROVE  program(tx, tx.Instructions[i]) \in Keys \cup {None}
BY DEF IsTx, program

\* After n instructions, out holds the programs of those, in the order of first use.
ProgramsOf(tx, n, Keys) ==
  LET out == outs(tx)[n]
  IN  /\ out \in Seq(Keys)
      /\ \A p : Contains(out, p) <=> p # None /\ Uses(tx, p, n) # {}
      /\ \A i, j \in 1 .. Len(out) : i < j =>
           Min(Uses(tx, out[i], Len(tx.Instructions)))
             < Min(Uses(tx, out[j], Len(tx.Instructions)))

LEMMA OneMoreProgram ==
  ASSUME NEW Keys, NEW tx, IsTx(tx, Keys), NEW n \in 1 .. Len(tx.Instructions),
         ProgramsOf(tx, n - 1, Keys)
  PROVE  ProgramsOf(tx, n, Keys)
<1> DEFINE m == Len(tx.Instructions)
           k == program(tx, tx.Instructions[n])
           before == outs(tx)[n - 1]
           out == outs(tx)[n]
           first(p) == Min(Uses(tx, p, m))
<1>1. m \in Nat /\ n \in Nat /\ None \notin Keys
  BY DEF IsTx
<1>2. out = IF k = None \/ Contains(before, k) THEN before ELSE Append(before, k)
  <2>1. outs(tx)[n] = AddProgram(tx, outs(tx)[n - 1], n)
    <3>1. n \in 0 .. m /\ n # 0
      BY <1>1
    <3> QED
      BY <1>1, <3>1, OutsDefined
  <2> QED
    BY <2>1 DEF AddProgram
<1>3. /\ before \in Seq(Keys)
      /\ \A p : Contains(before, p) <=> p # None /\ Uses(tx, p, n - 1) # {}
      /\ \A i, j \in 1 .. Len(before) : i < j => first(before[i]) < first(before[j])
  BY DEF ProgramsOf
<1>4. \A p : Uses(tx, p, n) = Uses(tx, p, n - 1) \cup (IF p = k THEN {n} ELSE {})
  BY <1>1 DEF Uses
<1>5. k \in Keys \cup {None}
  BY ProgramInKeys
<1> HIDE DEF m, k, before, out, first
<1>6. CASE k = None \/ Contains(before, k)
  <2>1. out = before
    BY <1>2, <1>6
  <2>2. \A p : Contains(before, p) <=> p # None /\ Uses(tx, p, n) # {}
    BY <1>3, <1>4, <1>6
  <2> QED
    BY <1>3, <2>1, <2>2 DEF ProgramsOf, out, first, m
<1>7. CASE k # None /\ ~ Contains(before, k)
  <2>1. /\ out \in Seq(Keys) /\ Len(out) = Len(before) + 1 /\ Len(before) \in Nat
        /\ out[Len(out)] = k
        /\ \A i \in 1 .. Len(before) : out[i] = before[i]
    BY <1>2, <1>3, <1>5, <1>7
  <2>2. \A p : Contains(out, p) <=> Contains(before, p) \/ p = k
    BY <2>1 DEF Contains
  <2>3. \A p : Contains(out, p) <=> p # None /\ Uses(tx, p, n) # {}
    <3> TAKE p
    <3>1. CASE p = k
      BY <1>4, <1>7, <2>2, <3>1
    <3>2. CASE p # k
      BY <1>3, <1>4, <2>2, <3>2
    <3> QED
      BY <3>1, <3>2
  <2>4. ASSUME NEW i \in 1 .. Len(before)
        PROVE  first(before[i]) < first(k)
    <3>1. Contains(before, before[i])
      BY <2>1 DEF Contains
    <3>2. PICK u \in Uses(tx, before[i], n - 1) : TRUE
      BY <1>3, <3>1
    <3>3. u \in Uses(tx, before[i], m) /\ u <= n - 1
      BY <1>1, <3>2 DEF Uses, m
    <3>4. first(before[i]) \in Nat /\ first(before[i]) <= u
      <4>1. /\ first(before[i]) \in Uses(tx, before[i], m)
            /\ \A v \in Uses(tx, before[i], m) : first(before[i]) <= v
        BY <1>1, <3>3, FirstUse DEF first
      <4> QED
        BY <3>3, <4>1 DEF Uses
    <3>5. Uses(tx, k, n - 1) = {} /\ n \in Uses(tx, k, m)
      BY <1>1, <1>3, <1>7 DEF Uses, k, m
    <3>6. first(k) \in Uses(tx, k, m)
      BY <1>1, <3>5, FirstUse DEF first
    <3>7. first(k) \in Nat /\ first(k) >= n
      BY <1>1, <3>5, <3>6 DEF Uses
    <3> QED
      BY <1>1, <3>3, <3>4, <3>7 DEF Uses
  <2>5. ASSUME NEW i \in 1 .. Len(out), NEW j \in 1 .. Len(out), i < j
        PROVE  first(out[i]) < first(out[j])
    <3>1. i \in 1 .. Len(before) /\ out[i] = before[i]
      BY <2>1, <2>5
    <3>2. CASE j = Len(out)
      BY <2>1, <2>4, <3>1, <3>2
    <3>3. CASE j # Len(out)
      BY <1>3, <2>1, <2>5, <3>1, <3>3
    <3> QED
      BY <3>2, <3>3
  <2> QED
    BY <2>1, <2>3, <2>5 DEF ProgramsOf, out, first, m
<1> QED
  BY <1>6, <1>7

LEMMA AllPrograms ==
  ASSUME NEW Keys, NEW tx, IsTx(tx, Keys)
  PROVE  ProgramsOf(tx, Len(tx.Instructions), Keys)
<1> DEFINE m == Len(tx.Instructions)
           S == {n \in 0 .. m : ProgramsOf(tx, n, Keys)}
<1>1. m \in Nat
  BY DEF IsTx
<1>2. 0 \in S
  <2>1. outs(tx)[0] = <<>>
    BY <1>1, OutsDefined
  <2>2. \A p : ~ Contains(<<>>, p)
    BY DEF Contains
  <2>3. \A p : Uses(tx, p, 0) = {}
    BY DEF Uses
  <2>4. ProgramsOf(tx, 0, Keys)
    BY <2>1, <2>2, <2>3 DEF ProgramsOf
  <2> QED
    BY <1>1, <2>4
<1>3. \A n \in 1 .. m : n - 1 \in S => n \in S
  BY <1>1, OneMoreProgram
<1> HIDE DEF S, m
<1>4. \A n \in 0 .. m : n \in S
  BY <1>1, <1>2, <1>3, Induction
<1>5. m \in S
  BY <1>1, <1>4
<1> QED
  BY <1>5 DEF S, m

LEMMA ProgramsInOrder ==
  ASSUME NEW Keys, NEW tx, IsTx(tx, Keys)
  PROVE  ProgramsInFirstUseOrder(tx)
<1> DEFINE m == Len(tx.Instructions)
           ids == ProgramIDs(tx)
<1>1. m \in Nat /\ DOMAIN tx.Instructions = 1 .. m
  BY DEF IsTx
<1>2. \A p : {i \in DOMAIN tx.Instructions : program(tx, tx.Instructions[i]) = p} = Uses(tx, p, m)
  BY <1>1 DEF Uses
<1>3. /\ ids \in Seq(Keys)
      /\ \A p : Contains(ids, p) <=> p # None /\ Uses(tx, p, m) # {}
      /\ \A i, j \in 1 .. Len(ids) : i < j => Min(Uses(tx, ids[i], m)) < Min(Uses(tx, ids[j], m))
  BY AllPrograms DEF ProgramsOf, ProgramIDs
<1> HIDE DEF m, ids
<1>4. ToSet(ids) = {p : p \in {program(tx, tx.Instructions[i]) : i \in 1 .. m} \ {None}}
  <2>1. DOMAIN ids = 1 .. Len(ids)
    BY <1>3
  <2>2. \A p : p \in ToSet(ids) <=> Contains(ids, p)
    BY <2>1 DEF ToSet, Contains
  <2> QED
    BY <1>3, <2>2 DEF Uses
<1>5. {program(tx, ix) : ix \in ToSet(tx.Instructions)}
        = {program(tx, tx.Instructions[i]) : i \in 1 .. m}
  BY <1>1 DEF ToSet
<1>6. DOMAIN ids = 1 .. Len(ids)
  BY <1>3
<1> QED
  <2>1. ToSet(ids) = {program(tx, ix) : ix \in ToSet(tx.Instructions)} \ {None}
    BY <1>4, <1>5
  <2>2. \A i, j \in DOMAIN ids : i < j =>
          Min({x \in DOMAIN tx.Instructions : program(tx, tx.Instructions[x]) = ids[i]})
            < Min({x \in DOMAIN tx.Instructions : program(tx, tx.Instructions[x]) = ids[j]})
    <3> TAKE i, j \in DOMAIN ids
    <3> HAVE i < j
    <3>1. Min(Uses(tx, ids[i], m)) < Min(Uses(tx, ids[j], m))
      BY <1>3, <1>6
    <3>2. /\ {x \in DOMAIN tx.Instructions : program(tx, tx.Instructions[x]) = ids[i]}
               = Uses(tx, ids[i], m)
          /\ {x \in DOMAIN tx.Instructions : program(tx, tx.Instructions[x]) = ids[j]}
               = Uses(tx, ids[j], m)
      BY <1>2
    <3> QED
      BY <3>1, <3>2, Zenon
  <2> QED
    BY <2>1, <2>2 DEF ProgramsInFirstUseOrder, ids

\* A budget that was read belongs to an instruction of the compute-budget program.
LEMMA BudgetOfProgram ==
  ASSUME NEW Keys, NEW tx, IsTx(tx, Keys),
         ComputeUnitPrice(tx) # None \/ ComputeUnitLimit(tx) # None
  PROVE  Contains(ProgramIDs(tx), computeBudgetProgramID)
<1> DEFINE m == Len(tx.Instructions)
<1>1. m \in Nat /\ DOMAIN tx.Instructions = 1 .. m
  BY DEF IsTx
<1>2. PICK d : computeBudgetIx(tx, d) # None
  BY DEF ComputeUnitPrice, ComputeUnitLimit, budgetValue
<1>3. PICK i \in 1 .. m : program(tx, tx.Instructions[i]) = computeBudgetProgramID
  BY <1>1, <1>2 DEF computeBudgetIx
<1>4. Uses(tx, computeBudgetProgramID, m) # {}
  BY <1>3 DEF Uses
<1> QED
  BY <1>4, AllPrograms, BudgetProgramAssumption DEF ProgramsOf, ProgramIDs

\* It is the first one's, and its value the bytes after the discriminator.
LEMMA BudgetOfFirst ==
  ASSUME NEW tx, NEW d, NEW width \in Nat, NEW T, None \notin Seq(T),
         Len(tx.Instructions) \in Nat, DOMAIN tx.Instructions = 1 .. Len(tx.Instructions),
         \A i \in DOMAIN tx.Instructions : tx.Instructions[i].Data \in Seq(T)
  PROVE  BudgetIsFirstSet(tx, budgetValue(tx, d, width), d, width)
<1> DEFINE sets == {i \in DOMAIN tx.Instructions : SetsBudget(tx, i, d)}
           value == budgetValue(tx, d, width)
<1>1. computeBudgetIx(tx, d) =
        IF sets = {} THEN None ELSE Tail(tx.Instructions[Min(sets)].Data)
  BY DEF computeBudgetIx, SetsBudget
<1>2. sets = {} => value = None
  BY <1>1 DEF budgetValue
<1>3. ASSUME NEW i \in sets, \A j \in sets : i <= j
      PROVE  value = IF Len(tx.Instructions[i].Data) <= width THEN None
                     ELSE [k \in 1 .. width |-> tx.Instructions[i].Data[k + 1]]
  <2>1. Min(sets) = i
    <3>1. sets \subseteq Nat
      OBVIOUS
    <3>2. \A j \in sets : (\A k \in sets : j <= k) => j = i
      BY <1>3, <3>1
    <3> QED
      BY <1>3, <3>2 DEF Min
  <2> DEFINE data == tx.Instructions[i].Data
             rest == Tail(data)
  <2>2. data \in Seq(T) /\ data # <<>>
    BY DEF SetsBudget
  <2>3. /\ rest \in Seq(T) /\ Len(rest) = Len(data) - 1 /\ Len(data) \in Nat \ {0}
        /\ \A k \in 1 .. Len(data) - 1 : rest[k] = data[k + 1]
    BY <2>2
  <2>4. computeBudgetIx(tx, d) = rest
    BY <1>1, <1>3, <2>1
  <2>5. rest # None
    BY <2>3
  <2>6. value = IF Len(rest) < width THEN None ELSE SubSeq(rest, 1, width)
    BY <2>4, <2>5 DEF budgetValue
  <2> HIDE DEF data, rest, value
  <2>8. CASE Len(data) <= width
    BY <2>3, <2>6, <2>8 DEF data
  <2>9. CASE ~ (Len(data) <= width)
    <3>1. ~ (Len(rest) < width) /\ width <= Len(data) - 1
      BY <2>3, <2>9
    <3>2. \A k \in 1 .. width : k \in 1 .. Len(rest) /\ rest[k] = data[k + 1]
      BY <2>3, <3>1
    <3>3. \A k \in 1 .. width : rest[k] \in T
      BY <2>3, <3>2
    <3>4. /\ SubSeq(rest, 1, width) \in Seq(T)
          /\ Len(SubSeq(rest, 1, width)) = IF 1 <= width THEN width - 1 + 1 ELSE 0
          /\ \A k \in 1 .. width - 1 + 1 : SubSeq(rest, 1, width)[k] = rest[1 + k - 1]
      <4>1. 1 \in Int /\ width \in Int
        OBVIOUS
      <4> QED
        BY <3>3, <4>1, SubSeqProperties
    <3> DEFINE taken == SubSeq(rest, 1, width)
    <3>5. taken \in Seq(T) /\ Len(taken) = width /\ \A k \in 1 .. width : taken[k] = rest[k]
      BY <2>3, <3>4
    <3> HIDE DEF taken
    <3>6. taken = [k \in 1 .. width |-> taken[k]]
      BY <3>5
    <3>7. taken = [k \in 1 .. width |-> data[k + 1]]
      BY <3>2, <3>5, <3>6
    <3> QED
      BY <2>6, <2>9, <3>1, <3>7 DEF data, taken
  <2> QED
    BY <2>8, <2>9
<1> HIDE DEF value
<1> QED
  BY <1>2, <1>3 DEF BudgetIsFirstSet, value

\* The first key, if it is a writable signer, is the first of the writable accounts.
LEMMA FeePayerFirst ==
  ASSUME NEW Keys, NEW tx, IsTx(tx, Keys)
  PROVE  FeePayerLeads(tx)
<1> DEFINE keys == tx.AccountKeys
           out == StaticWritableAccounts(tx)
           W == {j \in DOMAIN keys : WritableIndex(tx, j - 1)}
<1>1. keys \in Seq(Keys) /\ None \notin Keys
  BY DEF IsTx
<1>2. FeePayer(tx) = None <=> keys = <<>>
  BY <1>1 DEF FeePayer
<1>3. keys # <<>> => FeePayer(tx) = Head(keys)
  BY <1>1 DEF FeePayer
<1>4. ASSUME keys # <<>>, tx.NumRequiredSignatures > tx.NumReadonlySignedAccounts
      PROVE  Len(out) > 0 /\ out[1] = FeePayer(tx)
  <2>1. /\ Len(out) = Cardinality(W)
        /\ \A j \in W : out[Cardinality({k \in W : k <= j})] = keys[j]
    BY HeaderSplits DEF WritableIsHeaderSplit
  <2>2. 1 \in DOMAIN keys /\ DOMAIN keys = 1 .. Len(keys) /\ Len(keys) \in Nat
    BY <1>1, <1>4
  <2>3. WritableIndex(tx, 1 - 1)
    BY <1>4 DEF WritableIndex, IsTx
  <2>4. 1 \in W /\ W \subseteq 1 .. Len(keys)
    BY <2>2, <2>3
  <2> HIDE DEF W, out
  <2>5. {k \in W : k <= 1} = {1}
    BY <2>2, <2>4
  <2>6. Cardinality({1}) = 1
    BY FS_Singleton
  <2>7. out[1] = keys[1]
    BY <2>1, <2>4, <2>5, <2>6
  <2>8. Cardinality(W) > 0
    <3>1. IsFiniteSet(1 .. Len(keys))
      BY <2>2, FS_Interval
    <3>2. IsFiniteSet(W)
      BY <2>4, <3>1, FS_Subset
    <3>3. Cardinality(W) \in Nat /\ Cardinality(W) # 0
      BY <2>4, <3>2, FS_EmptySet, FS_CardinalityType
    <3> QED
      BY <3>3
  <2> QED
    BY <1>1, <1>4, <2>1, <2>7, <2>8 DEF FeePayer, out
<1> QED
  BY <1>2, <1>3, <1>4 DEF FeePayerLeads

-----------------------------------------------------------------------------
\* Reading.  A read that is still within the bytes moved forward and has a value
\* of its type.
Reads(b, off, r, T) ==
  /\ r.off \in Cursors(b)
  /\ Ok(b, r) => off <= r.off /\ r.val \in T

LEMMA BadIsBad ==
  ASSUME NEW b \in Bytes
  PROVE  Bad(b).off = Len(b) + 1 /\ Bad(b).off \in Cursors(b) /\ ~ Ok(b, Bad(b))
BY DEF Bad, Read, Ok, Cursors, Bytes

LEMMA Slice ==
  ASSUME NEW S, NEW s, NEW m \in Nat, NEW n \in Nat, n - m + 1 \in Nat,
         \A i \in m .. n : s[i] \in S
  PROVE  /\ SubSeq(s, m, n) \in Seq(S)
         /\ Len(SubSeq(s, m, n)) = n - m + 1
         /\ \A i \in 1 .. n - m + 1 : SubSeq(s, m, n)[i] = s[m + i - 1]
<1>1. /\ SubSeq(s, m, n) \in Seq(S)
      /\ Len(SubSeq(s, m, n)) = IF m <= n THEN n - m + 1 ELSE 0
      /\ \A i \in 1 .. n - m + 1 : SubSeq(s, m, n)[i] = s[m + i - 1]
  BY SubSeqProperties
<1> QED
  BY <1>1

LEMMA TakeReads ==
  ASSUME NEW b \in Bytes, NEW off \in Cursors(b), NEW n \in Nat
  PROVE  Reads(b, off, take(b, off, n), Word(n))
<1>1. Len(b) \in Nat /\ off \in Nat /\ \A i \in 1 .. Len(b) : b[i] \in Byte
  BY DEF Bytes, Cursors
<1>2. CASE off + n <= Len(b)
  <2> DEFINE first == off + 1
             last == off + n
             v == SubSeq(b, first, last)
  <2>1. /\ first \in Nat /\ last \in Nat /\ last - first + 1 = n
        /\ \A i \in first .. last : b[i] \in Byte
    BY <1>1, <1>2
  <2> HIDE DEF first, last
  <2>2. v \in Seq(Byte) /\ Len(v) = n
    BY <2>1, Slice
  <2> HIDE DEF v
  <2>3. v = [i \in 1 .. Len(v) |-> v[i]] /\ \A i \in 1 .. Len(v) : v[i] \in Byte
    BY <2>2
  <2>4. SubSeq(b, off + 1, off + n) \in Word(n)
    BY <2>2, <2>3 DEF Word, v, first, last
  <2>5. take(b, off, n) = [off |-> off + n, val |-> SubSeq(b, off + 1, off + n)]
    BY <1>2 DEF take, Read
  <2>6. off + n \in Cursors(b) /\ off <= off + n
    BY <1>1, <1>2 DEF Cursors
  <2> QED
    BY <2>4, <2>5, <2>6 DEF Reads
<1>3. CASE ~ (off + n <= Len(b))
  <2>1. take(b, off, n) = Bad(b)
    BY <1>3 DEF take
  <2> QED
    BY <2>1, BadIsBad DEF Reads
<1> QED
  BY <1>2, <1>3

LEMMA ByteReads ==
  ASSUME NEW b \in Bytes, NEW off \in Cursors(b)
  PROVE  Reads(b, off, u8(b, off), Byte)
<1> DEFINE t == take(b, off, 1)
<1>1. Reads(b, off, t, Word(1))
  BY TakeReads
<1>2. u8(b, off) = IF Ok(b, t) THEN [off |-> t.off, val |-> t.val[1]] ELSE Bad(b)
  BY DEF u8, Read
<1> HIDE DEF t
<1>3. CASE Ok(b, t)
  BY <1>1, <1>2, <1>3 DEF Reads, Word, Ok
<1>4. CASE ~ Ok(b, t)
  BY <1>2, <1>4, BadIsBad DEF Reads
<1> QED
  BY <1>3, <1>4

LEMMA LengthReads ==
  ASSUME NEW b \in Bytes, NEW off \in Cursors(b)
  PROVE  Reads(b, off, u16(b, off), Nat) /\ u16(b, off).val \in Nat
<1> DEFINE t == take(b, off, 2)
           v == IF Ok(b, t) THEN t.val[1] + Base * t.val[2] ELSE 0
<1>1. Reads(b, off, t, Word(2))
  BY TakeReads
<1>2. u16(b, off) = [off |-> t.off, val |-> v]
  BY DEF u16, Read
<1>3. v \in Nat
  <2>1. CASE Ok(b, t)
    <3>1. t.val[1] \in Nat /\ t.val[2] \in Nat
      BY <1>1, <2>1, CodecSizes DEF Reads, Word, Byte
    <3>2. \A x, y, z \in Nat : x + y * z \in Nat
      OBVIOUS
    <3> HIDE DEF t
    <3> QED
      BY <2>1, <3>1, <3>2, CodecSizes
  <2> QED
    BY <2>1
<1> HIDE DEF t, v
<1> QED
  BY <1>1, <1>2, <1>3 DEF Reads, Ok

LEMMA PartReads ==
  ASSUME NEW b \in Bytes, NEW off \in Cursors(b)
  PROVE  Reads(b, off, part(b, off), Bytes)
<1> DEFINE n == u16(b, off)
           r == take(b, n.off, n.val)
<1>1. Reads(b, off, n, Nat) /\ n.val \in Nat
  BY LengthReads
<1>2. part(b, off) = r
  BY DEF part
<1> HIDE DEF n
<1>3. Reads(b, n.off, r, Word(n.val))
  BY <1>1, TakeReads DEF Reads
<1> HIDE DEF r
<1>4. Word(n.val) \subseteq Bytes
  BY <1>1 DEF Word, Bytes
<1>5. Ok(b, r) => Ok(b, n)
  BY <1>1, <1>3 DEF Reads, Ok, Cursors, Bytes
<1>6. Ok(b, r) => off <= r.off
  BY <1>1, <1>3, <1>5 DEF Reads, Cursors
<1> QED
  BY <1>2, <1>3, <1>4, <1>6 DEF Reads

\* Reads one after the other: the last says whether all of them were good.
LEMMA Then ==
  ASSUME NEW b \in Bytes, NEW off \in Cursors(b), NEW r, NEW s, NEW S, NEW T,
         Reads(b, off, r, S), Reads(b, r.off, s, T)
  PROVE  /\ r.off \in Cursors(b) /\ s.off \in Cursors(b)
         /\ Ok(b, s) => Ok(b, r) /\ off <= s.off /\ r.val \in S /\ s.val \in T
BY DEF Reads, Ok, Cursors, Bytes

LEMMA InstructionReads ==
  ASSUME NEW b \in Bytes, NEW off \in Cursors(b)
  PROVE  Reads(b, off, instruction(b, off), Instruction)
<1> DEFINE pid == u8(b, off)
           acc == part(b, pid.off)
           dat == part(b, acc.off)
<1>1. Reads(b, off, pid, Byte)
  BY ByteReads
<1>2. Reads(b, pid.off, acc, Bytes)
  BY <1>1, PartReads DEF Reads
<1>3. Reads(b, acc.off, dat, Bytes)
  BY <1>2, PartReads DEF Reads
<1>4. instruction(b, off)
        = [off |-> dat.off,
           val |-> [ProgramIDIndex |-> pid.val, Accounts |-> acc.val, Data |-> dat.val]]
  BY DEF instruction, Read
<1> HIDE DEF pid, acc, dat
<1>5. Ok(b, dat) => /\ off <= dat.off
                    /\ pid.val \in Byte /\ acc.val \in Bytes /\ dat.val \in Bytes
  <2>1. pid.off \in Cursors(b) /\ acc.off \in Cursors(b) /\ dat.off \in Cursors(b)
    BY <1>1, <1>2, <1>3 DEF Reads
  <2>2. Ok(b, dat) => Ok(b, acc) /\ pid.off <= dat.off
    BY <1>2, <1>3, <2>1, Then
  <2>3. Ok(b, acc) => Ok(b, pid)
    BY <1>1, <1>2, Then
  <2>4. Ok(b, pid) => off <= pid.off
    BY <1>1 DEF Reads
  <2>5. off \in Nat /\ pid.off \in Nat /\ dat.off \in Nat
    BY <2>1 DEF Cursors, Bytes
  <2> QED
    BY <1>1, <1>2, <1>3, <2>2, <2>3, <2>4, <2>5 DEF Reads
<1>6. Byte \subseteq Nat
  BY CodecSizes DEF Byte
<1>7. ASSUME Ok(b, dat)
      PROVE  instruction(b, off).val \in Instruction
  <2>1. pid.val \in Nat /\ acc.val \in Bytes /\ dat.val \in Bytes
    BY <1>5, <1>6, <1>7
  <2>2. instruction(b, off).val
          = [ProgramIDIndex |-> pid.val, Accounts |-> acc.val, Data |-> dat.val]
    BY <1>4
  <2> QED
    BY <2>1, <2>2 DEF Instruction
<1> QED
  BY <1>3, <1>4, <1>5, <1>7 DEF Reads, Ok

LEMMA LookupReads ==
  ASSUME NEW b \in Bytes, NEW off \in Cursors(b)
  PROVE  Reads(b, off, lookup(b, off), AddressTableLookup)
<1> DEFINE key == take(b, off, KeySize)
           w == part(b, key.off)
           r == part(b, w.off)
<1>1. Reads(b, off, key, Word(KeySize))
  BY TakeReads, CodecSizes
<1>2. Reads(b, key.off, w, Bytes)
  BY <1>1, PartReads DEF Reads
<1>3. Reads(b, w.off, r, Bytes)
  BY <1>2, PartReads DEF Reads
<1>4. lookup(b, off)
        = [off |-> r.off, val |-> [AccountKey |-> key.val, WritableIndexes |-> w.val,
                                   ReadonlyIndexes |-> r.val]]
  BY DEF lookup, Read
<1> HIDE DEF key, w, r
<1>5. Ok(b, r) => /\ off <= r.off
                  /\ key.val \in Word(KeySize) /\ w.val \in Bytes /\ r.val \in Bytes
  <2>1. key.off \in Cursors(b) /\ w.off \in Cursors(b) /\ r.off \in Cursors(b)
    BY <1>1, <1>2, <1>3 DEF Reads
  <2>2. Ok(b, r) => Ok(b, w) /\ key.off <= r.off
    BY <1>2, <1>3, <2>1, Then
  <2>3. Ok(b, w) => Ok(b, key)
    BY <1>1, <1>2, Then
  <2>4. Ok(b, key) => off <= key.off
    BY <1>1 DEF Reads
  <2>5. off \in Nat /\ key.off \in Nat /\ r.off \in Nat
    BY <2>1 DEF Cursors, Bytes
  <2> QED
    BY <1>1, <1>2, <1>3, <2>2, <2>3, <2>4, <2>5 DEF Reads
<1> QED
  BY <1>3, <1>4, <1>5 DEF Reads, Ok, AddressTableLookup

-----------------------------------------------------------------------------
\* Lists, by induction on the number of elements read.

ReadNext(elem, before) ==
  Read(elem[before.off].off, Append(before.val, elem[before.off].val))

\* reads(n, elem) is what its recursive definition says.
LEMMA ReadsDefined ==
  ASSUME NEW n, NEW elem, n.val \in Nat
  PROVE  reads(n, elem) =
           [i \in 0 .. n.val |->
              IF i = 0 THEN Read(n.off, <<>>) ELSE ReadNext(elem, reads(n, elem)[i - 1])]
<1> DEFINE IsUpTo(m, g) == g = [i \in 0 .. m |-> IF i = 0 THEN Read(n.off, <<>>)
                                                ELSE ReadNext(elem, g[i - 1])]
           S == {m \in 0 .. n.val : \E g : IsUpTo(m, g)}
<1>1. 0 \in S
  <2>1. IsUpTo(0, [i \in 0 .. 0 |-> Read(n.off, <<>>)])
    OBVIOUS
  <2> HIDE DEF IsUpTo
  <2> QED
    BY <2>1
<1>2. ASSUME NEW m \in 1 .. n.val, m - 1 \in S
      PROVE  m \in S
  <2>1. PICK g : IsUpTo(m - 1, g)
    BY <1>2
  <2> DEFINE h == [i \in 0 .. m |-> IF i = m THEN ReadNext(elem, g[m - 1]) ELSE g[i]]
  <2>2. \A i \in 0 .. m : h[i] = IF i = 0 THEN Read(n.off, <<>>)
                                ELSE ReadNext(elem, h[i - 1])
    <3> SUFFICES ASSUME NEW i \in 0 .. m
                 PROVE  h[i] = IF i = 0 THEN Read(n.off, <<>>)
                               ELSE ReadNext(elem, h[i - 1])
      OBVIOUS
    <3>1. CASE i = m
      BY <3>1
    <3>2. CASE i # m
      <4>1. i \in 0 .. m - 1 /\ h[i] = g[i]
        BY <3>2
      <4>2. i # 0 => h[i - 1] = g[i - 1]
        BY <3>2
      <4>3. g[i] = IF i = 0 THEN Read(n.off, <<>>) ELSE ReadNext(elem, g[i - 1])
        BY <2>1, <4>1
      <4> QED
        BY <4>1, <4>2, <4>3
    <3> QED
      BY <3>1, <3>2
  <2>3. IsUpTo(m, h)
    BY <2>2
  <2> HIDE DEF IsUpTo, h
  <2> QED
    BY <2>3
<1>3. n.val \in S
  <2> HIDE DEF S
  <2>1. \A i \in 1 .. n.val : i - 1 \in S => i \in S
    BY <1>2
  <2>2. \A i \in 0 .. n.val : i \in S
    BY <1>1, <2>1, Induction
  <2> QED
    BY <2>2
<1>4. \E g : IsUpTo(n.val, g)
  BY <1>3
<1>5. reads(n, elem) = CHOOSE g : IsUpTo(n.val, g)
  BY DEF reads, ReadNext
<1> HIDE DEF IsUpTo
<1>6. IsUpTo(n.val, reads(n, elem))
  BY <1>4, <1>5
<1> QED
  BY <1>6 DEF IsUpTo

LEMMA CountReads ==
  ASSUME NEW b \in Bytes, NEW off \in Cursors(b), NEW minElem
  PROVE  Reads(b, off, count(b, off, minElem), Nat)
<1>1. Reads(b, off, u16(b, off), Nat)
  BY LengthReads
<1>2. count(b, off, minElem) \in {Bad(b), u16(b, off)}
  BY DEF count
<1>3. Reads(b, off, Bad(b), Nat)
  BY BadIsBad DEF Reads
<1> QED
  BY <1>1, <1>2, <1>3

LEMMA ElementsRead ==
  ASSUME NEW b \in Bytes, NEW off \in Cursors(b), NEW n, Reads(b, off, n, Nat),
         NEW T, NEW elem, \A o \in Cursors(b) : Reads(b, o, elem[o], T)
  PROVE  Reads(b, off, elements(b, n, elem), Seq(T))
<1>1. CASE ~ Ok(b, n)
  <2>1. elements(b, n, elem) = n
    BY <1>1 DEF elements
  <2> QED
    BY <1>1, <2>1 DEF Reads
<1>2. CASE Ok(b, n)
  <2>1. n.val \in Nat /\ n.off \in Cursors(b) /\ off <= n.off
    BY <1>2 DEF Reads
  <2> DEFINE r == reads(n, elem)
             S == {i \in 0 .. n.val : Reads(b, n.off, r[i], Seq(T))}
  <2>2. /\ r[0] = [off |-> n.off, val |-> <<>>]
        /\ \A i \in 1 .. n.val :
             r[i] = [off |-> elem[r[i - 1].off].off,
                     val |-> Append(r[i - 1].val, elem[r[i - 1].off].val)]
    <3>1. \A i \in 0 .. n.val :
            r[i] = IF i = 0 THEN Read(n.off, <<>>) ELSE ReadNext(elem, r[i - 1])
      BY <2>1, ReadsDefined
    <3>2. r[0] = [off |-> n.off, val |-> <<>>]
      BY <2>1, <3>1 DEF Read
    <3>3. \A i \in 1 .. n.val : i \in 0 .. n.val /\ i # 0
      BY <2>1
    <3> HIDE DEF r
    <3>4. \A i \in 1 .. n.val : r[i] = ReadNext(elem, r[i - 1])
      BY <3>1, <3>3
    <3> QED
      BY <3>2, <3>4 DEF Read, ReadNext
  <2> HIDE DEF r
  <2>3. 0 \in S
    <3>1. r[0].off = n.off /\ r[0].val = <<>>
      BY <2>2
    <3>2. <<>> \in Seq(T) /\ n.off <= n.off
      BY <2>1 DEF Cursors, Bytes
    <3>3. Reads(b, n.off, r[0], Seq(T))
      BY <2>1, <3>1, <3>2 DEF Reads
    <3> QED
      BY <2>1, <3>3
  <2>4. ASSUME NEW i \in 1 .. n.val, i - 1 \in S
        PROVE  i \in S
    <3> DEFINE p == r[i - 1]
               e == elem[p.off]
    <3>1. Reads(b, n.off, p, Seq(T))
      BY <2>4
    <3>2. Reads(b, p.off, e, T)
      BY <3>1 DEF Reads
    <3>3. r[i] = [off |-> e.off, val |-> Append(p.val, e.val)]
      BY <2>2
    <3> HIDE DEF p, e
    <3>4. /\ e.off \in Cursors(b)
          /\ Ok(b, e) => Ok(b, p) /\ n.off <= e.off /\ p.val \in Seq(T) /\ e.val \in T
      BY <2>1, <3>1, <3>2, Then
    <3>5. Ok(b, e) => Append(p.val, e.val) \in Seq(T)
      BY <3>4
    <3>6. Reads(b, n.off, r[i], Seq(T))
      BY <3>3, <3>4, <3>5 DEF Reads, Ok
    <3> QED
      BY <3>6
  <2>5. \A i \in 0 .. n.val : i \in S
    <3> HIDE DEF S
    <3>1. \A i \in 1 .. n.val : i - 1 \in S => i \in S
      BY <2>4
    <3> QED
      BY <2>1, <2>3, <3>1, Induction
  <2>6. Reads(b, n.off, r[n.val], Seq(T))
    BY <2>1, <2>5
  <2>7. elements(b, n, elem) = r[n.val]
    BY <1>2 DEF elements, r
  <2> QED
    BY <2>1, <2>6, <2>7 DEF Reads, Cursors, Bytes
<1> QED
  BY <1>1, <1>2

\* A body that was decoded is a transaction.
LEMMA PrefixReads ==
  ASSUME NEW b \in Bytes
  PROVE  Reads(b, 0, decodeFullTxPrefix(b), FullTx)
<1> DEFINE slot   == take(b, 0, SlotSize)
           header == take(b, slot.off, 4)
           hash   == take(b, header.off, HashSize)
           sigs   == elements(b, count(b, hash.off, SigSize),
                              [o \in Cursors(b) |-> take(b, o, SigSize)])
           keys   == elements(b, count(b, sigs.off, KeySize),
                              [o \in Cursors(b) |-> take(b, o, KeySize)])
           ixs    == elements(b, count(b, keys.off, 5),
                              [o \in Cursors(b) |-> instruction(b, o)])
           alts   == elements(b, count(b, ixs.off, KeySize + 4),
                              [o \in Cursors(b) |-> lookup(b, o)])
           tx     == [Slot |-> slot.val, NumRequiredSignatures |-> header.val[1],
                      NumReadonlySignedAccounts |-> header.val[2],
                      NumReadonlyUnsignedAccount |-> header.val[3],
                      Versioned |-> header.val[4] # 0, RecentBlockhash |-> hash.val,
                      Signatures |-> sigs.val, AccountKeys |-> keys.val,
                      Instructions |-> ixs.val, AddressTableLookups |-> alts.val]
<1>1. 0 \in Cursors(b)
  BY DEF Cursors, Bytes
<1>2. decodeFullTxPrefix(b)
        = IF Len(b) > MaxFullTxBody \/ ~ Ok(b, alts) THEN Bad(b)
          ELSE [off |-> alts.off, val |-> tx]
  BY DEF decodeFullTxPrefix, Read
<1>3. Reads(b, 0, slot, Word(SlotSize))
  BY <1>1, TakeReads, CodecSizes
<1> HIDE DEF slot
<1>4. Reads(b, slot.off, header, Word(4))
  BY <1>3, TakeReads DEF Reads
<1> HIDE DEF header
<1>5. Reads(b, header.off, hash, Word(HashSize))
  BY <1>4, TakeReads, CodecSizes DEF Reads
<1> HIDE DEF hash
<1>6. Reads(b, hash.off, sigs, Seq(Word(SigSize)))
  <2>1. hash.off \in Cursors(b)
    BY <1>5 DEF Reads
  <2>2. \A o \in Cursors(b) : Reads(b, o, [x \in Cursors(b) |-> take(b, x, SigSize)][o], Word(SigSize))
    BY TakeReads, CodecSizes
  <2> QED
    BY <2>1, <2>2, CountReads, ElementsRead
<1> HIDE DEF sigs
<1>7. Reads(b, sigs.off, keys, Seq(Word(KeySize)))
  <2>1. sigs.off \in Cursors(b)
    BY <1>6 DEF Reads
  <2>2. \A o \in Cursors(b) : Reads(b, o, [x \in Cursors(b) |-> take(b, x, KeySize)][o], Word(KeySize))
    BY TakeReads, CodecSizes
  <2> QED
    BY <2>1, <2>2, CountReads, ElementsRead
<1> HIDE DEF keys
<1>8. Reads(b, keys.off, ixs, Seq(Instruction))
  <2>1. keys.off \in Cursors(b)
    BY <1>7 DEF Reads
  <2>2. \A o \in Cursors(b) : Reads(b, o, [x \in Cursors(b) |-> instruction(b, x)][o], Instruction)
    BY InstructionReads
  <2> QED
    BY <2>1, <2>2, CountReads, ElementsRead
<1> HIDE DEF ixs
<1>9. Reads(b, ixs.off, alts, Seq(AddressTableLookup))
  <2>1. ixs.off \in Cursors(b)
    BY <1>8 DEF Reads
  <2>2. \A o \in Cursors(b) : Reads(b, o, [x \in Cursors(b) |-> lookup(b, x)][o], AddressTableLookup)
    BY LookupReads
  <2> QED
    BY <2>1, <2>2, CountReads, ElementsRead
<1> HIDE DEF alts
<1>10. CASE Len(b) > MaxFullTxBody \/ ~ Ok(b, alts)
  BY <1>2, <1>10, BadIsBad DEF Reads
<1>11. CASE ~ (Len(b) > MaxFullTxBody) /\ Ok(b, alts)
  <2>1. /\ slot.off \in Cursors(b) /\ header.off \in Cursors(b) /\ hash.off \in Cursors(b)
        /\ sigs.off \in Cursors(b) /\ keys.off \in Cursors(b) /\ ixs.off \in Cursors(b)
        /\ alts.off \in Cursors(b)
    BY <1>3, <1>4, <1>5, <1>6, <1>7, <1>8, <1>9 DEF Reads
  <2>2. Ok(b, ixs) /\ alts.val \in Seq(AddressTableLookup)
    BY <1>8, <1>9, <1>11, <2>1, Then
  <2>3. Ok(b, keys) /\ ixs.val \in Seq(Instruction)
    BY <1>7, <1>8, <2>1, <2>2, Then
  <2>4. Ok(b, sigs) /\ keys.val \in Seq(Word(KeySize))
    BY <1>6, <1>7, <2>1, <2>3, Then
  <2>5. Ok(b, hash) /\ sigs.val \in Seq(Word(SigSize))
    BY <1>5, <1>6, <2>1, <2>4, Then
  <2>6. Ok(b, header) /\ hash.val \in Word(HashSize)
    <3>1. hash.val \in Word(HashSize)
      BY <1>5, <2>5 DEF Reads
    <3>2. Ok(b, header)
      BY <1>4, <1>5, <2>1, <2>5, Then
    <3> QED
      BY <3>1, <3>2
  <2>7. Ok(b, slot) /\ header.val \in Word(4)
    BY <1>3, <1>4, <1>1, <2>6, Then
  <2>8. slot.val \in Word(SlotSize)
    BY <1>3, <2>7 DEF Reads
  <2>9. header.val[1] \in Nat /\ header.val[2] \in Nat /\ header.val[3] \in Nat
    BY <2>7, CodecSizes DEF Word, Byte
  <2>10. tx \in FullTx
    BY <2>2, <2>3, <2>4, <2>5, <2>6, <2>8, <2>9 DEF FullTx
  <2>11. alts.off >= 0
    BY <2>1 DEF Cursors
  <2> HIDE DEF tx
  <2> QED
    BY <1>2, <1>11, <2>1, <2>10, <2>11 DEF Reads
<1> QED
  BY <1>10, <1>11

-----------------------------------------------------------------------------
\* What is encoded is bytes.

\* FlattenSeq appends one element after the other.
LEMMA FlattenSteps ==
  ASSUME NEW T, NEW seqs \in Seq(Seq(T))
  PROVE  \E f : /\ f[0] = <<>>
                /\ \A i \in 1 .. Len(seqs) : f[i] = f[i - 1] \o seqs[i]
                /\ FlattenSeq(seqs) = f[Len(seqs)]
<1> DEFINE n == Len(seqs)
           IsUpTo(m, g) == g = [i \in 1 .. m |-> IF i = 1 THEN seqs[i] ELSE g[i - 1] \o seqs[i]]
           S == {m \in 0 .. n : \E g : IsUpTo(m, g)}
<1>1. n \in Nat /\ \A i \in 1 .. n : seqs[i] \in Seq(T)
  OBVIOUS
<1>2. 0 \in S
  <2>1. IsUpTo(0, [i \in 1 .. 0 |-> <<>>])
    OBVIOUS
  <2> HIDE DEF IsUpTo, n
  <2> QED
    BY <1>1, <2>1
<1>3. ASSUME NEW m \in 1 .. n, m - 1 \in S
      PROVE  m \in S
  <2>1. PICK g : IsUpTo(m - 1, g)
    BY <1>3
  <2> DEFINE h == [i \in 1 .. m |-> IF i = 1 THEN seqs[i] ELSE g[i - 1] \o seqs[i]]
  <2> HIDE DEF n
  <2>2. ASSUME NEW i \in 1 .. m - 1
        PROVE  h[i] = g[i]
    <3>1. i \in 1 .. m
      BY <1>1
    <3>2. g[i] = IF i = 1 THEN seqs[i] ELSE g[i - 1] \o seqs[i]
      BY <2>1
    <3> QED
      BY <3>1, <3>2
  <2>3. \A i \in 1 .. m : i # 1 => i - 1 \in 1 .. m - 1
    BY <1>1
  <2>4. h = [i \in 1 .. m |-> IF i = 1 THEN seqs[i] ELSE h[i - 1] \o seqs[i]]
    BY <2>2, <2>3
  <2>5. IsUpTo(m, h)
    BY <2>4
  <2> HIDE DEF IsUpTo, h
  <2> QED
    BY <2>5
<1>4. \E g : IsUpTo(n, g)
  <2> HIDE DEF S, n
  <2>1. \A i \in 1 .. n : i - 1 \in S => i \in S
    BY <1>3
  <2>2. \A i \in 0 .. n : i \in S
    BY <1>1, <1>2, <2>1, Induction
  <2>3. n \in S
    BY <1>1, <2>2
  <2> QED
    BY <2>3 DEF S
<1> DEFINE flatten == CHOOSE g : IsUpTo(n, g)
           f == [i \in 0 .. n |-> IF i = 0 THEN <<>> ELSE flatten[i]]
<1>5. FlattenSeq(seqs) = IF n = 0 THEN seqs ELSE flatten[n]
  BY DEF FlattenSeq
<1>6. IsUpTo(n, flatten)
  <2> HIDE DEF IsUpTo
  <2> QED
    BY <1>4
<1> HIDE DEF flatten, n
<1>7. f[0] = <<>> /\ FlattenSeq(seqs) = f[n]
  BY <1>1, <1>5 DEF n
<1>8. ASSUME NEW i \in 1 .. n
      PROVE  f[i] = f[i - 1] \o seqs[i]
  <2>1. flatten[i] = IF i = 1 THEN seqs[i] ELSE flatten[i - 1] \o seqs[i]
    BY <1>6
  <2>2. CASE i = 1
    <3>1. f[i] = seqs[i] /\ f[i - 1] = <<>>
      BY <1>1, <2>1, <2>2
    <3>2. <<>> \o seqs[i] = seqs[i]
      BY <1>1, ConcatEmptySeq
    <3> QED
      BY <3>1, <3>2
  <2>3. CASE i # 1
    <3>1. f[i] = flatten[i] /\ f[i - 1] = flatten[i - 1]
      BY <1>1, <2>3
    <3> QED
      BY <2>1, <2>3, <3>1
  <2> QED
    BY <2>2, <2>3
<1> HIDE DEF f
<1> QED
  BY <1>7, <1>8 DEF n

LEMMA FlattenBytes ==
  ASSUME NEW seqs \in Seq(Bytes)
  PROVE  FlattenSeq(seqs) \in Bytes
<1>1. PICK f : /\ f[0] = <<>>
               /\ \A i \in 1 .. Len(seqs) : f[i] = f[i - 1] \o seqs[i]
               /\ FlattenSeq(seqs) = f[Len(seqs)]
  BY FlattenSteps DEF Bytes
<1> DEFINE S == {i \in 0 .. Len(seqs) : f[i] \in Bytes}
<1>2. Len(seqs) \in Nat /\ 0 \in S
  <2>1. <<>> \in Bytes
    BY DEF Bytes
  <2> QED
    BY <1>1, <2>1
<1>3. \A i \in 1 .. Len(seqs) : i - 1 \in S => i \in S
  <2> TAKE i \in 1 .. Len(seqs)
  <2> HAVE i - 1 \in S
  <2>1. f[i - 1] \in Bytes /\ seqs[i] \in Bytes
    OBVIOUS
  <2>2. f[i] \in Bytes
    BY <1>1, <2>1, ConcatProperties DEF Bytes
  <2> QED
    BY <2>2
<1> HIDE DEF S
<1>4. \A i \in 0 .. Len(seqs) : i \in S
  BY <1>2, <1>3, Induction
<1> QED
  BY <1>1, <1>2, <1>4 DEF S

LEMMA WordsAreBytes == \A n \in Nat : Word(n) \subseteq Bytes
BY DEF Word, Bytes

LEMMA NumbersAreBytes ==
  ASSUME NEW n \in Nat
  PROVE  put8(n) \in Bytes /\ put16(n) \in Bytes
<1>1. /\ n % Base \in Byte
      /\ (n \div Base) % Base \in Byte
  BY CodecSizes DEF Byte
<1> QED
  BY <1>1 DEF put8, put16, Bytes

LEMMA PartsAreBytes ==
  ASSUME NEW bytes \in Bytes
  PROVE  putPart(bytes) \in Bytes
<1>1. put16(Len(bytes)) \in Bytes
  BY NumbersAreBytes DEF Bytes
<1> QED
  BY <1>1 DEF putPart, Bytes

LEMMA ListsAreBytes ==
  ASSUME NEW elems \in Seq(Bytes)
  PROVE  putList(elems) \in Bytes
<1>1. put16(Len(elems)) \in Bytes /\ FlattenSeq(elems) \in Bytes
  BY NumbersAreBytes, FlattenBytes
<1> QED
  BY <1>1 DEF putList, Bytes

LEMMA ConcatBytes ==
  ASSUME NEW s \in Bytes, NEW t \in Bytes
  PROVE  s \o t \in Bytes /\ Len(s \o t) = Len(s) + Len(t)
BY ConcatProperties DEF Bytes

\* The elements of a body's lists.
LEMMA PartLength ==
  ASSUME NEW s \in Bytes
  PROVE  Len(putPart(s)) >= 2
<1>1. Len(put16(Len(s))) = 2 /\ put16(Len(s)) \in Bytes /\ Len(s) \in Nat
  BY NumbersAreBytes DEF put16, Bytes
<1>2. Len(putPart(s)) = Len(put16(Len(s))) + Len(s)
  BY <1>1, ConcatBytes DEF putPart
<1> QED
  BY <1>1, <1>2

LEMMA InstructionIsBytes ==
  ASSUME NEW ix \in Instruction
  PROVE  putInstruction(ix) \in Bytes /\ 5 <= Len(putInstruction(ix))
<1> DEFINE pid == put8(ix.ProgramIDIndex)
           acc == putPart(ix.Accounts)
           dat == putPart(ix.Data)
<1>1. /\ pid \in Bytes /\ acc \in Bytes /\ dat \in Bytes
      /\ ix.Accounts \in Bytes /\ ix.Data \in Bytes
  BY NumbersAreBytes, PartsAreBytes DEF Instruction
<1>2. Len(pid) = 1
  BY DEF put8
<1>4. Len(acc) >= 2 /\ Len(dat) >= 2
  BY <1>1, PartLength
<1>5. putInstruction(ix) = pid \o acc \o dat
  BY DEF putInstruction
<1> HIDE DEF pid, acc, dat
<1>6. pid \o acc \in Bytes /\ Len(pid \o acc) = Len(pid) + Len(acc)
  BY <1>1, ConcatBytes
<1>7. putInstruction(ix) \in Bytes /\ Len(putInstruction(ix)) = Len(pid \o acc) + Len(dat)
  BY <1>1, <1>5, <1>6, ConcatBytes
<1>8. Len(pid) \in Nat /\ Len(acc) \in Nat /\ Len(dat) \in Nat
  BY <1>1 DEF Bytes
<1> QED
  BY <1>2, <1>4, <1>6, <1>7, <1>8

LEMMA LookupIsBytes ==
  ASSUME NEW l \in AddressTableLookup
  PROVE  putLookup(l) \in Bytes /\ KeySize + 4 <= Len(putLookup(l))
<1> DEFINE key == l.AccountKey
           w == putPart(l.WritableIndexes)
           r == putPart(l.ReadonlyIndexes)
<1>1. /\ key \in Word(KeySize) /\ KeySize \in Nat /\ w \in Bytes /\ r \in Bytes
      /\ l.WritableIndexes \in Bytes /\ l.ReadonlyIndexes \in Bytes
  BY PartsAreBytes, CodecSizes DEF AddressTableLookup
<1>2. key \in Bytes /\ Len(key) = KeySize
  <2>1. key \in Bytes
    BY <1>1, WordsAreBytes
  <2>2. Len(key) = KeySize
    BY <1>1 DEF Word
  <2> QED
    BY <2>1, <2>2
<1>4. Len(w) >= 2 /\ Len(r) >= 2
  BY <1>1, PartLength
<1>5. putLookup(l) = key \o w \o r
  BY DEF putLookup
<1> HIDE DEF key, w, r
<1>6. key \o w \in Bytes /\ Len(key \o w) = Len(key) + Len(w)
  BY <1>1, <1>2, ConcatBytes
<1>7. putLookup(l) \in Bytes /\ Len(putLookup(l)) = Len(key \o w) + Len(r)
  BY <1>1, <1>5, <1>6, ConcatBytes
<1>8. Len(w) \in Nat /\ Len(r) \in Nat
  BY <1>1 DEF Bytes
<1> QED
  BY <1>1, <1>2, <1>4, <1>6, <1>7, <1>8

LEMMA BodyParts ==
  ASSUME NEW ft \in FullTx
  PROVE  /\ ft.Slot \in Bytes /\ Len(ft.Slot) = SlotSize
         /\ ft.RecentBlockhash \in Bytes /\ Len(ft.RecentBlockhash) = HashSize
         /\ put8(ft.NumRequiredSignatures) \in Bytes
         /\ put8(ft.NumReadonlySignedAccounts) \in Bytes
         /\ put8(ft.NumReadonlyUnsignedAccount) \in Bytes
         /\ (IF ft.Versioned THEN <<1>> ELSE <<0>>) \in Bytes
         /\ putList(ft.Signatures) \in Bytes /\ putList(ft.AccountKeys) \in Bytes
         /\ putList([i \in DOMAIN ft.Instructions |-> putInstruction(ft.Instructions[i])]) \in Bytes
         /\ putList([i \in DOMAIN ft.AddressTableLookups
                       |-> putLookup(ft.AddressTableLookups[i])]) \in Bytes
<1>1. /\ ft.Slot \in Word(SlotSize) /\ ft.RecentBlockhash \in Word(HashSize)
      /\ ft.NumRequiredSignatures \in Nat /\ ft.NumReadonlySignedAccounts \in Nat
      /\ ft.NumReadonlyUnsignedAccount \in Nat
      /\ ft.Signatures \in Seq(Word(SigSize)) /\ ft.AccountKeys \in Seq(Word(KeySize))
      /\ ft.Instructions \in Seq(Instruction)
      /\ ft.AddressTableLookups \in Seq(AddressTableLookup)
  BY DEF FullTx
<1>2. /\ ft.Slot \in Bytes /\ Len(ft.Slot) = SlotSize
      /\ ft.RecentBlockhash \in Bytes /\ Len(ft.RecentBlockhash) = HashSize
  <2>1. \A n \in Nat : \A w \in Word(n) : Len(w) = n
    BY DEF Word
  <2> QED
    BY <1>1, <2>1, WordsAreBytes, CodecSizes
<1>3. /\ put8(ft.NumRequiredSignatures) \in Bytes
      /\ put8(ft.NumReadonlySignedAccounts) \in Bytes
      /\ put8(ft.NumReadonlyUnsignedAccount) \in Bytes
  BY <1>1, NumbersAreBytes
<1>4. (IF ft.Versioned THEN <<1>> ELSE <<0>>) \in Bytes
  <2>1. 0 \in Byte /\ 1 \in Byte
    BY CodecSizes DEF Byte
  <2> QED
    BY <2>1 DEF Bytes
<1>5. putList(ft.Signatures) \in Bytes /\ putList(ft.AccountKeys) \in Bytes
  <2>1. Word(SigSize) \subseteq Bytes /\ Word(KeySize) \subseteq Bytes
    BY WordsAreBytes, CodecSizes
  <2>2. ft.Signatures \in Seq(Bytes) /\ ft.AccountKeys \in Seq(Bytes)
    BY <1>1, <2>1
  <2> QED
    BY <2>2, ListsAreBytes
<1>6. putList([i \in DOMAIN ft.Instructions |-> putInstruction(ft.Instructions[i])]) \in Bytes
  <2>1. \A ixs \in Seq(Instruction) : [i \in DOMAIN ixs |-> putInstruction(ixs[i])] \in Seq(Bytes)
    BY InstructionIsBytes
  <2> QED
    BY <1>1, <2>1, ListsAreBytes
<1>7. putList([i \in DOMAIN ft.AddressTableLookups
                 |-> putLookup(ft.AddressTableLookups[i])]) \in Bytes
  <2>1. \A alts \in Seq(AddressTableLookup) : [i \in DOMAIN alts |-> putLookup(alts[i])] \in Seq(Bytes)
    BY LookupIsBytes
  <2> QED
    BY <1>1, <2>1, ListsAreBytes
<1> QED
  BY <1>2, <1>3, <1>4, <1>5, <1>6, <1>7

LEMMA BodyIsBytes ==
  ASSUME NEW ft \in FullTx
  PROVE  EncodeFullTx(ft) \in Bytes
<1> DEFINE ixs  == putList([i \in DOMAIN ft.Instructions |-> putInstruction(ft.Instructions[i])])
           alts == putList([i \in DOMAIN ft.AddressTableLookups
                              |-> putLookup(ft.AddressTableLookups[i])])
           ver  == IF ft.Versioned THEN <<1>> ELSE <<0>>
<1>1. \A x, y \in Bytes : x \o y \in Bytes
  BY DEF Bytes
<1>2. EncodeFullTx(ft)
        = ft.Slot \o put8(ft.NumRequiredSignatures) \o put8(ft.NumReadonlySignedAccounts)
            \o put8(ft.NumReadonlyUnsignedAccount) \o ver \o ft.RecentBlockhash
            \o putList(ft.Signatures) \o putList(ft.AccountKeys) \o ixs \o alts
  BY DEF EncodeFullTx
<1>3. /\ ft.Slot \in Bytes /\ ft.RecentBlockhash \in Bytes
      /\ put8(ft.NumRequiredSignatures) \in Bytes
      /\ put8(ft.NumReadonlySignedAccounts) \in Bytes
      /\ put8(ft.NumReadonlyUnsignedAccount) \in Bytes
      /\ putList(ft.Signatures) \in Bytes /\ putList(ft.AccountKeys) \in Bytes
      /\ ver \in Bytes /\ ixs \in Bytes /\ alts \in Bytes
  BY BodyParts
<1> HIDE DEF ixs, alts, ver
<1> QED
  BY <1>1, <1>2, <1>3

LEMMA TrailerIsBytes ==
  ASSUME NEW type \in {TLVLoadedWritable, TLVLoadedReadonly}, NEW addrs \in Seq(Word(KeySize))
  PROVE  putTLV(type, addrs) \in Bytes
<1>1. <<>> \in Bytes /\ <<type>> \in Bytes
  <2>1. type \in Byte
    BY CodecSizes DEF Byte, TLVLoadedWritable, TLVLoadedReadonly
  <2> QED
    BY <2>1 DEF Bytes
<1>2. addrs \in Seq(Bytes)
  BY WordsAreBytes, CodecSizes
<1>3. putPart(FlattenSeq(addrs)) \in Bytes
  BY <1>2, FlattenBytes, PartsAreBytes
<1> QED
  BY <1>1, <1>3 DEF putTLV, Bytes

LEMMA FrameIsBytes ==
  ASSUME NEW in \in Inputs
  PROVE  EncodeFrameTx(in) \in Bytes
<1>1. /\ in.Tx \in FullTx
      /\ in.LoadedWritable \in Seq(Word(KeySize)) /\ in.LoadedReadonly \in Seq(Word(KeySize))
  BY InputsAssumption
<1> DEFINE start == <<MsgTx, IF in.AltIncomplete THEN FlagAltIncomplete ELSE 0>>
<1>2. start \in Bytes
  <2>1. MsgTx \in Byte /\ FlagAltIncomplete \in Byte /\ 0 \in Byte
    BY CodecSizes DEF Byte, MsgTx, FlagAltIncomplete
  <2> QED
    BY <2>1 DEF Bytes
<1>3. /\ EncodeFullTx(in.Tx) \in Bytes
      /\ putTLV(TLVLoadedWritable, in.LoadedWritable) \in Bytes
      /\ putTLV(TLVLoadedReadonly, in.LoadedReadonly) \in Bytes
  BY <1>1, BodyIsBytes, TrailerIsBytes
<1>4. EncodeFrameTx(in) = start \o EncodeFullTx(in.Tx)
                            \o putTLV(TLVLoadedWritable, in.LoadedWritable)
                            \o putTLV(TLVLoadedReadonly, in.LoadedReadonly)
  BY DEF EncodeFrameTx
<1>5. \A x, y \in Bytes : x \o y \in Bytes
  BY DEF Bytes
<1> HIDE DEF start
<1> QED
  BY <1>2, <1>3, <1>4, <1>5

-----------------------------------------------------------------------------
\* What a step does, for every frame.

CodecInv ==
  /\ wire \in Bytes
  /\ Accepted => decoded.Tx \in FullTx

LEMMA CodecInit == Init => CodecInv
<1> SUFFICES ASSUME Init
             PROVE  CodecInv
  OBVIOUS
<1>1. wire \in Bytes
  BY FrameIsBytes DEF Init
<1> QED
  BY <1>1 DEF Init, CodecInv, Accepted

\* Whatever the bytes are, a frame that is accepted holds a transaction.
LEMMA AcceptedIsTx ==
  ASSUME NEW src \in Bytes
  PROVE  DecodeFrame(src) \in {ErrBadFrame, OtherFrame} \/ DecodeFrame(src).Tx \in FullTx
<1> SUFFICES ASSUME DecodeFrame(src) \notin {ErrBadFrame, OtherFrame}
             PROVE  DecodeFrame(src).Tx \in FullTx
  OBVIOUS
<1> DEFINE rest == SubSeq(src, 3, Len(src))
           body == decodeFullTxPrefix(rest)
<1>1. Len(src) \in Nat /\ Len(src) >= 2
  BY DEF DecodeFrame, Bytes
<1>2. rest \in Bytes
  <2>1. Len(src) - 3 + 1 \in Nat /\ \A i \in 3 .. Len(src) : src[i] \in Byte
    BY <1>1 DEF Bytes
  <2> QED
    BY <1>1, <2>1, Slice DEF Bytes
<1>3. DecodeFrame(src) = decodeTx(src[2], rest)
  BY DEF DecodeFrame
<1> HIDE DEF rest
<1>4. /\ Ok(rest, body)
      /\ DecodeFrame(src).Tx = body.val
  BY <1>3 DEF decodeTx
<1> HIDE DEF body
<1>5. Reads(rest, 0, body, FullTx)
  BY <1>2, PrefixReads DEF body
<1> QED
  BY <1>4, <1>5 DEF Reads

LEMMA CodecStep == CodecInv /\ [Next]_vars => CodecInv'
<1> SUFFICES ASSUME CodecInv, [Next]_vars
             PROVE  CodecInv'
  OBVIOUS
<1>1. CASE Alter
  <2>1. CASE \E i \in DOMAIN wire, x \in 0 .. Base - 1 : wire' = [wire EXCEPT ![i] = x]
    BY <1>1, <2>1 DEF Alter, CodecInv, Accepted, Bytes, Byte
  <2>2. CASE \E n \in 0 .. Len(wire) - 1 : wire' = SubSeq(wire, 1, n)
    <3>1. PICK n \in 0 .. Len(wire) - 1 : wire' = SubSeq(wire, 1, n)
      BY <2>2
    <3>2. /\ n \in Nat /\ 1 \in Nat /\ n - 1 + 1 \in Nat
          /\ \A i \in 1 .. n : wire[i] \in Byte
      BY DEF CodecInv, Bytes
    <3>3. wire' \in Bytes
      BY <3>1, <3>2, Slice DEF Bytes
    <3> QED
      BY <1>1, <3>3 DEF Alter, CodecInv, Accepted
  <2>3. CASE \E x \in 0 .. Base - 1 : wire' = Append(wire, x)
    BY <1>1, <2>3 DEF Alter, CodecInv, Accepted, Bytes, Byte
  <2> QED
    BY <1>1, <2>1, <2>2, <2>3 DEF Alter
<1>2. CASE Decode
  <2>1. decoded' = DecodeFrame(wire) /\ wire' = wire /\ wire \in Bytes
    BY <1>2 DEF Decode, CodecInv
  <2> QED
    BY <2>1, AcceptedIsTx DEF CodecInv, Accepted
<1>3. CASE UNCHANGED vars
  BY <1>3 DEF vars, CodecInv, Accepted
<1> QED
  BY <1>1, <1>2, <1>3 DEF Next

\* derive.go on any transaction, whatever its header counts and indexes: the fee payer
\* is the first key, and leads the writable accounts if the header makes it a writable
\* signer; those are the ones of the header, each once and in order; the programs are
\* those invoked, once and in the order of first use; the price and the limit are the
\* bytes that follow 3 and 2 in the first instruction of the compute-budget program
\* that has them, and there are none if it is too short.
THEOREM DerivedOfAnyTx ==
  ASSUME NEW tx \in FullTx
  PROVE  /\ FeePayerLeads(tx) /\ WritableIsHeaderSplit(tx)
         /\ ProgramsInFirstUseOrder(tx) /\ BudgetsAsSet(tx)
<1>1. /\ tx.Instructions \in Seq(Instruction)
      /\ tx.AccountKeys \in Seq(Word(KeySize))
      /\ tx.NumRequiredSignatures \in Nat
      /\ tx.NumReadonlySignedAccounts \in Nat
      /\ tx.NumReadonlyUnsignedAccount \in Nat
  BY DEF FullTx
<1>2. None \notin Word(KeySize)
  BY NoneAssumption, WordsAreBytes, CodecSizes
<1>3. \A ix \in Instruction : ix.ProgramIDIndex \in Nat
  BY DEF Instruction
<1>4. IsTx(tx, Word(KeySize))
  BY <1>1, <1>2, <1>3 DEF IsTx
<1>5. /\ Len(tx.Instructions) \in Nat /\ DOMAIN tx.Instructions = 1 .. Len(tx.Instructions)
      /\ \A i \in DOMAIN tx.Instructions : tx.Instructions[i].Data \in Seq(Byte)
  <2>1. /\ Len(tx.Instructions) \in Nat
        /\ DOMAIN tx.Instructions = 1 .. Len(tx.Instructions)
        /\ \A i \in DOMAIN tx.Instructions : tx.Instructions[i] \in Instruction
    BY <1>1
  <2>2. \A ix \in Instruction : ix.Data \in Seq(Byte)
    BY DEF Instruction, Bytes
  <2> QED
    BY <2>1, <2>2
<1>6. None \notin Seq(Byte) /\ PriceSize \in Nat /\ LimitSize \in Nat
  BY NoneAssumption, BudgetSizes DEF Bytes
<1>7. BudgetIsFirstSet(tx, budgetValue(tx, 3, PriceSize), 3, PriceSize)
  BY <1>5, <1>6, BudgetOfFirst
<1>8. BudgetIsFirstSet(tx, budgetValue(tx, 2, LimitSize), 2, LimitSize)
  BY <1>5, <1>6, BudgetOfFirst
<1>9. BudgetsAsSet(tx)
  BY <1>4, <1>7, <1>8, BudgetOfProgram DEF BudgetsAsSet, ComputeUnitPrice, ComputeUnitLimit
<1> QED
  BY <1>4, <1>9, FeePayerFirst, HeaderSplits, ProgramsInOrder

\* DecodeFrame, derive.go: the derived fields of every transaction that is accepted,
\* from an encoded frame or from one altered in a byte or in its length, agree with
\* their definitions.
THEOREM DerivedFieldsCorrect == Spec => []DerivedFieldsAgree
<1>1. CodecInv => DerivedFieldsAgree
  BY DerivedOfAnyTx DEF CodecInv, DerivedFieldsAgree
<1> QED
  BY <1>1, CodecInit, CodecStep, PTL DEF Spec

-----------------------------------------------------------------------------
\* Numbers of one and two digits: what put8 and put16 keep, u8 and u16 read back.
LEMMA QuotientIsUnique ==
  ASSUME NEW base \in Nat, base > 0, NEW x \in Nat, x < base, NEW y \in Nat
  PROVE  /\ x + base * y \in Nat
         /\ (x + base * y) % base = x
         /\ (x + base * y) \div base = y
<1>1. \A i, j, k \in Nat : i + j * k \in Nat
  OBVIOUS
<1>2. PICK n \in Nat : n = x + base * y
  BY <1>1
<1>3. PICK q \in Int : q = n \div base
  OBVIOUS
<1>4. PICK r \in Nat : r = n % base /\ r < base /\ n = base * q + r
  BY <1>3
<1>5. PICK d \in Int : d = y - q
  OBVIOUS
<1>6. base * d = r - x
  BY <1>2, <1>4, <1>5
<1>7. d < 1
  <2>1. d >= 1 => base * d >= base
    OBVIOUS
  <2> QED
    BY <1>4, <1>6, <2>1
<1>8. d > 0 - 1
  <2>1. d <= 0 - 1 => base * d <= 0 - base
    OBVIOUS
  <2> QED
    BY <1>4, <1>6, <2>1
<1>9. q = y /\ r = x
  BY <1>2, <1>4, <1>5, <1>7, <1>8
<1> QED
  BY <1>2, <1>3, <1>4, <1>9

LEMMA Quotient ==
  ASSUME NEW base \in Nat, base > 0, NEW n \in Nat, n < base * base
  PROVE  /\ n % base \in 0 .. base - 1
         /\ n \div base \in 0 .. base - 1
         /\ n = (n % base) + base * (n \div base)
<1>1. PICK q \in Int : q = n \div base
  OBVIOUS
<1>2. PICK r \in Nat : r = n % base /\ r < base /\ n = base * q + r
  BY <1>1
<1>3. q >= 0
  <2>1. q <= 0 - 1 => base * q <= 0 - base
    OBVIOUS
  <2> QED
    BY <1>2, <2>1
<1>4. q < base
  <2>1. q >= base => base * q >= base * base
    OBVIOUS
  <2> QED
    BY <1>2, <2>1
<1> QED
  BY <1>1, <1>2, <1>3, <1>4

LEMMA SmallRemainder ==
  ASSUME NEW base \in Nat, base > 0, NEW x \in 0 .. base - 1
  PROVE  x % base = x
OBVIOUS

LEMMA Digits ==
  ASSUME NEW x \in Byte, NEW y \in Byte
  PROVE  /\ x + Base * y \in Nat
         /\ put8(x) = <<x>>
         /\ put16(x + Base * y) = <<x, y>>
<1>1. Base \in Nat /\ Base > 0 /\ x \in Nat /\ x < Base /\ y \in Nat
  BY CodecSizes DEF Byte
<1>2. /\ x + Base * y \in Nat
      /\ (x + Base * y) % Base = x
      /\ (x + Base * y) \div Base = y
  BY <1>1, QuotientIsUnique
<1>3. x % Base = x /\ y % Base = y
  BY <1>1, SmallRemainder DEF Byte
<1> QED
  BY <1>2, <1>3 DEF put8, put16

LEMMA TwoDigits ==
  ASSUME NEW n \in Nat, n < Base * Base
  PROVE  \E x, y \in Byte : put16(n) = <<x, y>> /\ n = x + Base * y
<1>1. Base \in Nat /\ Base > 0
  BY CodecSizes
<1>2. /\ n % Base \in Byte
      /\ n \div Base \in Byte
      /\ n = (n % Base) + Base * (n \div Base)
  BY <1>1, Quotient DEF Byte
<1>3. (n \div Base) % Base = n \div Base
  BY <1>1, <1>2, SmallRemainder DEF Byte
<1> QED
  BY <1>2, <1>3 DEF put16

LEMMA OneDigit ==
  ASSUME NEW n \in Nat
  PROVE  n % Base \in Byte /\ put8(n) = <<n % Base>>
BY CodecSizes DEF put8, Byte

-----------------------------------------------------------------------------
\* The bytes s are those of b from off on.
Holds(b, off, s) ==
  /\ s \in Bytes
  /\ off \in Nat
  /\ off + Len(s) <= Len(b)
  /\ \A i \in 1 .. Len(s) : b[off + i] = s[i]

LEMMA HoldsConcat ==
  ASSUME NEW b \in Bytes, NEW off \in Nat, NEW s \in Bytes, NEW t \in Bytes
  PROVE  /\ s \o t \in Bytes /\ Len(s \o t) = Len(s) + Len(t)
         /\ Holds(b, off, s \o t) <=> Holds(b, off, s) /\ Holds(b, off + Len(s), t)
<1> DEFINE u == s \o t
<1>1. /\ u \in Bytes
      /\ Len(u) = Len(s) + Len(t)
      /\ \A i \in 1 .. Len(s) + Len(t) : u[i] = IF i <= Len(s) THEN s[i] ELSE t[i - Len(s)]
  BY ConcatProperties DEF Bytes
<1>2. Len(s) \in Nat /\ Len(t) \in Nat /\ Len(b) \in Nat
  BY DEF Bytes
<1> HIDE DEF u
<1>3. /\ \A i \in 1 .. Len(s) : i \in 1 .. Len(u) /\ u[i] = s[i]
      /\ \A i \in 1 .. Len(t) : /\ Len(s) + i \in 1 .. Len(u) /\ u[Len(s) + i] = t[i]
                                /\ off + (Len(s) + i) = (off + Len(s)) + i
  BY <1>1, <1>2
<1>4. Holds(b, off, u) => Holds(b, off, s) /\ Holds(b, off + Len(s), t)
  <2> SUFFICES ASSUME Holds(b, off, u)
               PROVE  Holds(b, off, s) /\ Holds(b, off + Len(s), t)
    OBVIOUS
  <2>1. off + Len(u) <= Len(b) /\ \A i \in 1 .. Len(u) : b[off + i] = u[i]
    BY DEF Holds
  <2>2. \A i \in 1 .. Len(s) : b[off + i] = s[i]
    BY <1>3, <2>1
  <2>3. \A i \in 1 .. Len(t) : b[(off + Len(s)) + i] = t[i]
    BY <1>3, <2>1
  <2>4. off + Len(s) \in Nat /\ off + Len(s) <= Len(b) /\ off + Len(s) + Len(t) <= Len(b)
    BY <1>1, <1>2, <2>1
  <2> QED
    BY <2>2, <2>3, <2>4 DEF Holds
<1>5. Holds(b, off, s) /\ Holds(b, off + Len(s), t) => Holds(b, off, u)
  <2> SUFFICES ASSUME Holds(b, off, s), Holds(b, off + Len(s), t)
               PROVE  Holds(b, off, u)
    OBVIOUS
  <2>1. /\ \A i \in 1 .. Len(s) : b[off + i] = s[i]
        /\ \A i \in 1 .. Len(t) : b[(off + Len(s)) + i] = t[i]
        /\ (off + Len(s)) + Len(t) <= Len(b)
    BY DEF Holds
  <2>2. ASSUME NEW i \in 1 .. Len(u)
        PROVE  b[off + i] = u[i]
    <3>1. CASE i <= Len(s)
      BY <1>1, <1>2, <2>1, <3>1
    <3>2. CASE ~ (i <= Len(s))
      <4>1. PICK j \in 1 .. Len(t) : i = Len(s) + j
        <5>1. i - Len(s) \in 1 .. Len(t) /\ i = Len(s) + (i - Len(s))
          BY <1>1, <1>2, <3>2
        <5> QED
          BY <5>1
      <4> QED
        BY <1>3, <2>1, <4>1
    <3> QED
      BY <3>1, <3>2
  <2>3. off + Len(u) <= Len(b)
    BY <1>1, <1>2, <2>1
  <2> QED
    BY <1>1, <2>2, <2>3 DEF Holds
<1> QED
  BY <1>1, <1>4, <1>5 DEF u

LEMMA Split ==
  ASSUME NEW b \in Bytes, NEW off \in Nat, NEW s \in Bytes, NEW t \in Bytes,
         Holds(b, off, s \o t)
  PROVE  Holds(b, off, s) /\ Holds(b, off + Len(s), t)
BY HoldsConcat

LEMMA Join ==
  ASSUME NEW b \in Bytes, NEW off \in Nat, NEW s \in Bytes, NEW t \in Bytes,
         Holds(b, off, s), Holds(b, off + Len(s), t)
  PROVE  Holds(b, off, s \o t)
BY HoldsConcat

\* A read takes exactly the bytes at the cursor, and takes back what was put there.
LEMMA TakeExact ==
  ASSUME NEW b \in Bytes, NEW off \in Cursors(b), NEW n \in Nat, Ok(b, take(b, off, n))
  PROVE  /\ take(b, off, n).off = off + n
         /\ take(b, off, n).val \in Word(n)
         /\ Len(take(b, off, n).val) = n
         /\ Holds(b, off, take(b, off, n).val)
<1>1. Len(b) \in Nat /\ off \in Nat /\ \A i \in 1 .. Len(b) : b[i] \in Byte
  BY DEF Bytes, Cursors
<1>2. off + n <= Len(b)
  <2>1. ~ (off + n <= Len(b)) => take(b, off, n) = Bad(b)
    BY DEF take
  <2> QED
    BY <2>1, BadIsBad
<1> DEFINE first == off + 1
           last == off + n
           v == SubSeq(b, first, last)
<1>3. take(b, off, n) = [off |-> off + n, val |-> v]
  BY <1>2 DEF take, Read
<1>4. /\ first \in Nat /\ last \in Nat /\ last - first + 1 = n
      /\ \A i \in first .. last : b[i] \in Byte
  BY <1>1, <1>2
<1> HIDE DEF first, last
<1>5. v \in Seq(Byte) /\ Len(v) = n /\ \A i \in 1 .. n : v[i] = b[first + i - 1]
  BY <1>4, Slice
<1> HIDE DEF v
<1>6. \A i \in 1 .. n : b[off + i] = v[i]
  <2>1. \A i \in 1 .. n : first + i - 1 = off + i
    BY <1>1 DEF first
  <2> QED
    BY <1>5, <2>1
<1>7. Holds(b, off, v)
  BY <1>1, <1>2, <1>5, <1>6 DEF Holds, Bytes
<1>8. v \in Word(n)
  <2>1. v = [i \in 1 .. Len(v) |-> v[i]] /\ \A i \in 1 .. Len(v) : v[i] \in Byte
    BY <1>5
  <2> QED
    BY <1>5, <2>1 DEF Word
<1> QED
  BY <1>3, <1>5, <1>7, <1>8

LEMMA TakeWritten ==
  ASSUME NEW b \in Bytes, NEW off, NEW s, Holds(b, off, s)
  PROVE  take(b, off, Len(s)) = Read(off + Len(s), s)
<1>1. /\ Len(b) \in Nat /\ off \in Nat /\ Len(s) \in Nat /\ s \in Bytes
      /\ off + Len(s) <= Len(b)
      /\ off \in Cursors(b)
  BY DEF Holds, Bytes, Cursors
<1> DEFINE r == take(b, off, Len(s))
<1>2. r = Read(off + Len(s), SubSeq(b, off + 1, off + Len(s)))
  BY <1>1 DEF take
<1>3. Ok(b, r)
  BY <1>1, <1>2 DEF Ok, Read
<1>4. Len(r.val) = Len(s) /\ Holds(b, off, r.val)
  BY <1>1, <1>3, TakeExact
<1>5. r = Read(off + Len(s), r.val)
  BY <1>2 DEF Read
<1> HIDE DEF r
<1>6. r.val = s
  <2>1. r.val \in Bytes /\ \A i \in 1 .. Len(s) : r.val[i] = s[i]
    BY <1>4 DEF Holds
  <2> QED
    BY <1>1, <1>4, <2>1 DEF Bytes
<1> QED
  BY <1>5, <1>6 DEF r

\* Reading what was written.
LEMMA ByteWritten ==
  ASSUME NEW b \in Bytes, NEW off, NEW n \in Nat, Holds(b, off, put8(n))
  PROVE  u8(b, off) = Read(off + 1, n % Base)
<1>1. put8(n) = <<n % Base>> /\ Len(put8(n)) = 1
  BY DEF put8
<1>2. take(b, off, 1) = Read(off + 1, put8(n))
  BY <1>1, TakeWritten
<1>3. Ok(b, take(b, off, 1))
  BY <1>1, <1>2 DEF Holds, Ok, Read
<1> QED
  BY <1>1, <1>2, <1>3 DEF u8, Read

LEMMA LengthWritten ==
  ASSUME NEW b \in Bytes, NEW off, NEW n \in Nat, n < Base * Base, Holds(b, off, put16(n))
  PROVE  u16(b, off) = Read(off + 2, n)
<1>1. PICK x, y \in Byte : put16(n) = <<x, y>> /\ n = x + Base * y
  BY TwoDigits
<1>2. Len(put16(n)) = 2 /\ put16(n)[1] = x /\ put16(n)[2] = y
  BY <1>1
<1>3. take(b, off, 2) = Read(off + 2, put16(n))
  BY <1>2, TakeWritten
<1>4. Ok(b, take(b, off, 2))
  BY <1>2, <1>3 DEF Holds, Ok, Read
<1>5. u16(b, off) = Read(off + 2, put16(n)[1] + Base * put16(n)[2])
  BY <1>3, <1>4 DEF u16, Read
<1> QED
  BY <1>1, <1>2, <1>5

LEMMA PartWritten ==
  ASSUME NEW b \in Bytes, Len(b) <= Base * Base, NEW off, NEW s \in Bytes,
         Holds(b, off, putPart(s))
  PROVE  part(b, off) = Read(off + Len(putPart(s)), s)
<1>1. Len(s) \in Nat /\ Len(b) \in Nat /\ off \in Nat /\ Base * Base \in Nat
  BY CodecSizes DEF Holds, Bytes
<1>2. Len(put16(Len(s))) = 2
  BY DEF put16
<1>3. put16(Len(s)) \in Bytes
  BY <1>1, NumbersAreBytes
<1>4. /\ Len(putPart(s)) = 2 + Len(s)
      /\ Holds(b, off, put16(Len(s))) /\ Holds(b, off + 2, s)
  <2>1. putPart(s) = put16(Len(s)) \o s
    BY DEF putPart
  <2>2. Len(putPart(s)) = 2 + Len(s)
    BY <1>2, <1>3, <2>1, ConcatBytes
  <2>3. Holds(b, off, put16(Len(s))) /\ Holds(b, off + Len(put16(Len(s))), s)
    BY <1>1, <1>3, <2>1, Split
  <2> QED
    BY <1>2, <2>2, <2>3
<1>5. Len(s) < Base * Base
  <2> HIDE DEF Holds
  <2>1. off + 2 + Len(s) <= Len(b)
    BY <1>4 DEF Holds
  <2> QED
    BY <1>1, <2>1
<1>6. u16(b, off) = Read(off + 2, Len(s))
  BY <1>1, <1>4, <1>5, LengthWritten
<1>7. part(b, off) = take(b, off + 2, Len(s))
  BY <1>6 DEF part, Read
<1>8. take(b, off + 2, Len(s)) = Read((off + 2) + Len(s), s)
  BY <1>4, TakeWritten
<1>9. (off + 2) + Len(s) = off + Len(putPart(s))
  BY <1>1, <1>4
<1> QED
  BY <1>7, <1>8, <1>9

LEMMA InstructionWritten ==
  ASSUME NEW b \in Bytes, Len(b) <= Base * Base, NEW off, NEW ix \in Instruction,
         Holds(b, off, putInstruction(ix))
  PROVE  instruction(b, off)
           = Read(off + Len(putInstruction(ix)), [ix EXCEPT !.ProgramIDIndex = @ % Base])
<1> DEFINE pid == put8(ix.ProgramIDIndex)
           acc == putPart(ix.Accounts)
           dat == putPart(ix.Data)
<1>1. /\ ix.ProgramIDIndex \in Nat /\ ix.Accounts \in Bytes /\ ix.Data \in Bytes
      /\ ix = [ProgramIDIndex |-> ix.ProgramIDIndex, Accounts |-> ix.Accounts, Data |-> ix.Data]
  BY DEF Instruction
<1>2. off \in Nat /\ pid \in Bytes /\ acc \in Bytes /\ dat \in Bytes /\ Len(pid) = 1
  <2>1. Len(pid) = 1
    BY DEF put8
  <2> QED
    BY <1>1, <2>1, NumbersAreBytes, PartsAreBytes DEF Holds
<1>3. putInstruction(ix) = pid \o acc \o dat
  BY DEF putInstruction
<1> HIDE DEF pid, acc, dat
<1>4. /\ pid \o acc \in Bytes /\ Len(pid \o acc) = 1 + Len(acc)
      /\ Len(putInstruction(ix)) = 1 + Len(acc) + Len(dat)
      /\ Holds(b, off, pid \o acc) /\ Holds(b, off + (1 + Len(acc)), dat)
  <2>1. pid \o acc \in Bytes /\ Len(pid \o acc) = 1 + Len(acc)
    <3>1. pid \o acc \in Bytes /\ Len(pid \o acc) = Len(pid) + Len(acc)
      BY <1>2, ConcatBytes
    <3> QED
      BY <1>2, <3>1
  <2>2. Len(putInstruction(ix)) = Len(pid \o acc) + Len(dat)
    BY <1>2, <1>3, <2>1, ConcatBytes
  <2>3. Holds(b, off, pid \o acc) /\ Holds(b, off + Len(pid \o acc), dat)
    BY <1>2, <1>3, <2>1, Split
  <2> QED
    BY <2>1, <2>2, <2>3
<1>5. Holds(b, off, pid) /\ Holds(b, off + 1, acc)
  BY <1>2, <1>4, Split
<1>6. u8(b, off) = Read(off + 1, ix.ProgramIDIndex % Base)
  BY <1>1, <1>5, ByteWritten DEF pid
<1>7. part(b, off + 1) = Read((off + 1) + Len(acc), ix.Accounts)
  BY <1>1, <1>5, PartWritten DEF acc
<1>8. part(b, off + (1 + Len(acc))) = Read((off + (1 + Len(acc))) + Len(dat), ix.Data)
  BY <1>1, <1>4, PartWritten DEF dat
<1>9. /\ (off + 1) + Len(acc) = off + (1 + Len(acc))
      /\ (off + (1 + Len(acc))) + Len(dat) = off + Len(putInstruction(ix))
  BY <1>2, <1>4 DEF Bytes
<1>10. instruction(b, off)
         = Read(off + Len(putInstruction(ix)),
                [ProgramIDIndex |-> ix.ProgramIDIndex % Base, Accounts |-> ix.Accounts,
                 Data |-> ix.Data])
  BY <1>6, <1>7, <1>8, <1>9 DEF instruction, Read
<1>11. [ix EXCEPT !.ProgramIDIndex = @ % Base]
         = [ProgramIDIndex |-> ix.ProgramIDIndex % Base, Accounts |-> ix.Accounts,
            Data |-> ix.Data]
  BY <1>1
<1> QED
  BY <1>10, <1>11

LEMMA LookupWritten ==
  ASSUME NEW b \in Bytes, Len(b) <= Base * Base, NEW off, NEW l \in AddressTableLookup,
         Holds(b, off, putLookup(l))
  PROVE  lookup(b, off) = Read(off + Len(putLookup(l)), l)
<1> DEFINE key == l.AccountKey
           w == putPart(l.WritableIndexes)
           r == putPart(l.ReadonlyIndexes)
<1>1. /\ key \in Word(KeySize) /\ l.WritableIndexes \in Bytes /\ l.ReadonlyIndexes \in Bytes
      /\ l = [AccountKey |-> key, WritableIndexes |-> l.WritableIndexes,
              ReadonlyIndexes |-> l.ReadonlyIndexes]
  BY DEF AddressTableLookup
<1>2. /\ off \in Nat /\ key \in Bytes /\ w \in Bytes /\ r \in Bytes
      /\ Len(key) = KeySize /\ KeySize \in Nat
  <2>1. key \in Bytes /\ KeySize \in Nat
    BY <1>1, WordsAreBytes, CodecSizes
  <2>2. Len(key) = KeySize
    BY <1>1, <2>1 DEF Word
  <2> QED
    BY <1>1, <2>1, <2>2, PartsAreBytes DEF Holds
<1>3. putLookup(l) = key \o w \o r
  BY DEF putLookup
<1> HIDE DEF key, w, r
<1>4. /\ key \o w \in Bytes /\ Len(key \o w) = KeySize + Len(w)
      /\ Len(putLookup(l)) = KeySize + Len(w) + Len(r)
      /\ Holds(b, off, key \o w) /\ Holds(b, off + (KeySize + Len(w)), r)
  <2>1. key \o w \in Bytes /\ Len(key \o w) = KeySize + Len(w)
    BY <1>2, ConcatBytes
  <2>2. Len(putLookup(l)) = Len(key \o w) + Len(r)
    BY <1>2, <1>3, <2>1, ConcatBytes
  <2>3. Holds(b, off, key \o w) /\ Holds(b, off + Len(key \o w), r)
    BY <1>2, <1>3, <2>1, Split
  <2> QED
    BY <2>1, <2>2, <2>3
<1>5. Holds(b, off, key) /\ Holds(b, off + KeySize, w)
  BY <1>2, <1>4, Split
<1>6. take(b, off, KeySize) = Read(off + KeySize, key)
  BY <1>2, <1>5, TakeWritten
<1>7. part(b, off + KeySize) = Read((off + KeySize) + Len(w), l.WritableIndexes)
  BY <1>1, <1>5, PartWritten DEF w
<1>8. part(b, off + (KeySize + Len(w)))
        = Read((off + (KeySize + Len(w))) + Len(r), l.ReadonlyIndexes)
  BY <1>1, <1>4, PartWritten DEF r
<1>9. /\ (off + KeySize) + Len(w) = off + (KeySize + Len(w))
      /\ (off + (KeySize + Len(w))) + Len(r) = off + Len(putLookup(l))
  BY <1>2, <1>4 DEF Bytes
<1>10. lookup(b, off)
         = Read(off + Len(putLookup(l)),
                [AccountKey |-> key, WritableIndexes |-> l.WritableIndexes,
                 ReadonlyIndexes |-> l.ReadonlyIndexes])
  BY <1>6, <1>7, <1>8, <1>9 DEF lookup, Read
<1> QED
  BY <1>1, <1>10

-----------------------------------------------------------------------------
\* A read that went from off over the bytes s.
Exact(b, off, r, s) ==
  /\ Holds(b, off, s)
  /\ r.off = off + Len(s)

LEMMA ExactThen ==
  ASSUME NEW b \in Bytes, NEW off, NEW r, NEW q, NEW s, NEW t,
         Exact(b, off, r, s), Exact(b, r.off, q, t)
  PROVE  Exact(b, off, q, s \o t)
<1>1. /\ off \in Nat /\ s \in Bytes /\ t \in Bytes
      /\ Holds(b, off, s) /\ Holds(b, off + Len(s), t)
      /\ q.off = (off + Len(s)) + Len(t)
  BY DEF Exact, Holds
<1>2. Holds(b, off, s \o t) /\ Len(s \o t) = Len(s) + Len(t)
  BY <1>1, Join, ConcatBytes
<1>3. Len(s) \in Nat /\ Len(t) \in Nat
  BY <1>1 DEF Bytes
<1> QED
  BY <1>1, <1>2, <1>3 DEF Exact

\* The two forms of a good read: what was written is read, what is read is there.
LEMMA ByteExact ==
  ASSUME NEW b \in Bytes, NEW off \in Cursors(b), Ok(b, u8(b, off))
  PROVE  /\ u8(b, off).val \in Byte
         /\ Exact(b, off, u8(b, off), put8(u8(b, off).val))
<1> DEFINE t == take(b, off, 1)
<1>1. Ok(b, t)
  <2>1. ~ Ok(b, t) => u8(b, off) = Bad(b)
    BY DEF u8
  <2> QED
    BY <2>1, BadIsBad
<1>2. u8(b, off).off = t.off /\ u8(b, off).val = t.val[1]
  BY <1>1 DEF u8, Read
<1>3. t.off = off + 1 /\ t.val \in Word(1) /\ Len(t.val) = 1 /\ Holds(b, off, t.val)
  BY <1>1, TakeExact
<1> HIDE DEF t
<1>4. t.val \in Bytes /\ t.val[1] \in Byte
  BY <1>3 DEF Holds, Word
<1>5. t.val = <<t.val[1]>>
  BY <1>3, <1>4 DEF Bytes
<1>6. put8(t.val[1]) = <<t.val[1]>>
  <2>1. 0 \in Byte
    BY CodecSizes DEF Byte
  <2> QED
    BY <1>4, <2>1, Digits
<1> QED
  BY <1>2, <1>3, <1>4, <1>5, <1>6 DEF Exact

LEMMA LengthExact ==
  ASSUME NEW b \in Bytes, NEW off \in Cursors(b), Ok(b, u16(b, off))
  PROVE  Exact(b, off, u16(b, off), put16(u16(b, off).val))
<1> DEFINE t == take(b, off, 2)
<1>1. Ok(b, t) /\ u16(b, off).off = t.off
  BY DEF u16, Ok, Read
<1>2. u16(b, off).val = t.val[1] + Base * t.val[2]
  BY <1>1 DEF u16, Read
<1>3. t.off = off + 2 /\ t.val \in Word(2) /\ Len(t.val) = 2 /\ Holds(b, off, t.val)
  BY <1>1, TakeExact
<1> HIDE DEF t
<1>4. t.val \in Bytes /\ t.val[1] \in Byte /\ t.val[2] \in Byte
  BY <1>3 DEF Holds, Word
<1>5. t.val = <<t.val[1], t.val[2]>>
  BY <1>3, <1>4 DEF Bytes
<1>6. put16(t.val[1] + Base * t.val[2]) = <<t.val[1], t.val[2]>>
  BY <1>4, Digits
<1> QED
  BY <1>1, <1>2, <1>3, <1>5, <1>6 DEF Exact

LEMMA TakeIsExact ==
  ASSUME NEW b \in Bytes, NEW off \in Cursors(b), NEW n \in Nat, Ok(b, take(b, off, n))
  PROVE  Exact(b, off, take(b, off, n), take(b, off, n).val)
BY TakeExact DEF Exact

LEMMA PartExact ==
  ASSUME NEW b \in Bytes, NEW off \in Cursors(b), Ok(b, part(b, off))
  PROVE  Exact(b, off, part(b, off), putPart(part(b, off).val))
<1> DEFINE n == u16(b, off)
           r == take(b, n.off, n.val)
<1>1. Reads(b, off, n, Nat) /\ n.val \in Nat /\ n.off \in Cursors(b)
  BY LengthReads DEF Reads
<1>2. part(b, off) = r
  BY DEF part
<1> HIDE DEF n
<1>3. Ok(b, r)
  BY <1>2
<1>4. Exact(b, n.off, r, r.val) /\ Len(r.val) = n.val
  BY <1>1, <1>3, TakeIsExact, TakeExact
<1>5. Ok(b, n)
  <2>1. Reads(b, n.off, r, Word(n.val))
    BY <1>1, TakeReads
  <2> HIDE DEF r
  <2> QED
    BY <1>1, <1>3, <2>1, Then
<1>6. Exact(b, off, n, put16(n.val))
  BY <1>5, LengthExact DEF n
<1>7. Exact(b, off, r, put16(n.val) \o r.val)
  <2> HIDE DEF r
  <2> QED
    BY <1>4, <1>6, ExactThen
<1> QED
  BY <1>2, <1>4, <1>7 DEF putPart

LEMMA InstructionExact ==
  ASSUME NEW b \in Bytes, NEW off \in Cursors(b), Ok(b, instruction(b, off))
  PROVE  Exact(b, off, instruction(b, off), putInstruction(instruction(b, off).val))
<1> DEFINE pid == u8(b, off)
           acc == part(b, pid.off)
           dat == part(b, acc.off)
<1>1. Reads(b, off, pid, Byte) /\ pid.off \in Cursors(b)
  BY ByteReads DEF Reads
<1>2. Reads(b, pid.off, acc, Bytes) /\ acc.off \in Cursors(b)
  BY <1>1, PartReads DEF Reads
<1>3. Reads(b, acc.off, dat, Bytes)
  BY <1>2, PartReads DEF Reads
<1>4. instruction(b, off)
        = [off |-> dat.off,
           val |-> [ProgramIDIndex |-> pid.val, Accounts |-> acc.val, Data |-> dat.val]]
  BY DEF instruction, Read
<1>5. Ok(b, dat)
  <2> HIDE DEF dat
  <2> QED
    BY <1>4 DEF Ok
<1> HIDE DEF dat
<1>6. Ok(b, acc)
  <2> HIDE DEF acc
  <2> QED
    BY <1>1, <1>2, <1>3, <1>5, Then
<1> HIDE DEF acc
<1>7. Ok(b, pid)
  <2> HIDE DEF pid
  <2> QED
    BY <1>1, <1>2, <1>6, Then
<1> HIDE DEF pid
<1>8. Exact(b, off, pid, put8(pid.val))
  BY <1>7, ByteExact DEF pid
<1>9. Exact(b, pid.off, acc, putPart(acc.val))
  BY <1>1, <1>6, PartExact DEF acc
<1>10. Exact(b, acc.off, dat, putPart(dat.val))
  BY <1>2, <1>5, PartExact DEF dat
<1>11. Exact(b, off, acc, put8(pid.val) \o putPart(acc.val))
  BY <1>8, <1>9, ExactThen
<1>12. Exact(b, off, dat, put8(pid.val) \o putPart(acc.val) \o putPart(dat.val))
  BY <1>10, <1>11, ExactThen
<1> QED
  BY <1>4, <1>12 DEF Exact, putInstruction

LEMMA LookupExact ==
  ASSUME NEW b \in Bytes, NEW off \in Cursors(b), Ok(b, lookup(b, off))
  PROVE  Exact(b, off, lookup(b, off), putLookup(lookup(b, off).val))
<1> DEFINE key == take(b, off, KeySize)
           w == part(b, key.off)
           r == part(b, w.off)
<1>1. Reads(b, off, key, Word(KeySize)) /\ key.off \in Cursors(b)
  BY TakeReads, CodecSizes DEF Reads
<1>2. Reads(b, key.off, w, Bytes) /\ w.off \in Cursors(b)
  BY <1>1, PartReads DEF Reads
<1>3. Reads(b, w.off, r, Bytes)
  BY <1>2, PartReads DEF Reads
<1>4. lookup(b, off)
        = [off |-> r.off, val |-> [AccountKey |-> key.val, WritableIndexes |-> w.val,
                                   ReadonlyIndexes |-> r.val]]
  BY DEF lookup, Read
<1>5. Ok(b, r)
  <2> HIDE DEF r
  <2> QED
    BY <1>4 DEF Ok
<1> HIDE DEF r
<1>6. Ok(b, w)
  <2> HIDE DEF w
  <2> QED
    BY <1>1, <1>2, <1>3, <1>5, Then
<1> HIDE DEF w
<1>7. Ok(b, key)
  <2> HIDE DEF key
  <2> QED
    BY <1>1, <1>2, <1>6, Then
<1> HIDE DEF key
<1>8. Exact(b, off, key, key.val)
  BY <1>7, TakeIsExact, CodecSizes DEF key
<1>9. Exact(b, key.off, w, putPart(w.val))
  BY <1>1, <1>6, PartExact DEF w
<1>10. Exact(b, w.off, r, putPart(r.val))
  BY <1>2, <1>5, PartExact DEF r
<1>11. Exact(b, off, w, key.val \o putPart(w.val))
  BY <1>8, <1>9, ExactThen
<1>12. Exact(b, off, r, key.val \o putPart(w.val) \o putPart(r.val))
  BY <1>10, <1>11, ExactThen
<1> DEFINE l == lookup(b, off).val
<1>13. /\ lookup(b, off).off = r.off
       /\ l.AccountKey = key.val /\ l.WritableIndexes = w.val /\ l.ReadonlyIndexes = r.val
  BY <1>4
<1> HIDE DEF l
<1>14. putLookup(l) = key.val \o putPart(w.val) \o putPart(r.val)
  BY <1>13 DEF putLookup
<1>15. Exact(b, off, lookup(b, off), putLookup(l))
  BY <1>12, <1>13, <1>14 DEF Exact
<1> QED
  BY <1>15 DEF l

-----------------------------------------------------------------------------
\* Lists.
LEMMA FlattenEmpty == FlattenSeq(<<>>) = <<>>
<1>1. <<>> \in Seq(Seq({})) /\ Len(<<>>) = 0
  OBVIOUS
<1> QED
  BY <1>1, FlattenSteps

LEMMA FlattenAppend ==
  ASSUME NEW seqs \in Seq(Bytes), NEW s \in Bytes
  PROVE  FlattenSeq(Append(seqs, s)) = FlattenSeq(seqs) \o s
<1> DEFINE n == Len(seqs)
           more == Append(seqs, s)
<1>1. /\ n \in Nat
      /\ more \in Seq(Bytes) /\ Len(more) = n + 1 /\ more[n + 1] = s
      /\ \A i \in 1 .. n : more[i] = seqs[i]
  OBVIOUS
<1>2. PICK f : /\ f[0] = <<>>
               /\ \A i \in 1 .. n : f[i] = f[i - 1] \o seqs[i]
               /\ FlattenSeq(seqs) = f[n]
  BY FlattenSteps DEF Bytes
<1> HIDE DEF more, n
<1>3. PICK g : /\ g[0] = <<>>
               /\ \A i \in 1 .. n + 1 : g[i] = g[i - 1] \o more[i]
               /\ FlattenSeq(more) = g[n + 1]
  <2>1. more \in Seq(Seq(Byte))
    BY <1>1 DEF Bytes
  <2>2. \E g : /\ g[0] = <<>>
               /\ \A i \in 1 .. Len(more) : g[i] = g[i - 1] \o more[i]
               /\ FlattenSeq(more) = g[Len(more)]
    BY <2>1, FlattenSteps
  <2> QED
    BY <1>1, <2>2
<1> DEFINE S == {i \in 0 .. n : g[i] = f[i]}
<1>4. 0 \in S
  BY <1>1, <1>2, <1>3
<1>5. \A i \in 1 .. n : i - 1 \in S => i \in S
  <2> TAKE i \in 1 .. n
  <2> HAVE i - 1 \in S
  <2>1. i \in 1 .. n + 1 /\ i \in 0 .. n
    BY <1>1
  <2>2. g[i] = g[i - 1] \o more[i] /\ f[i] = f[i - 1] \o seqs[i] /\ more[i] = seqs[i]
    BY <1>1, <1>2, <1>3, <2>1
  <2>3. g[i - 1] = f[i - 1]
    OBVIOUS
  <2>4. g[i] = f[i]
    BY <2>2, <2>3
  <2> QED
    BY <2>1, <2>4
<1>6. \A i \in 0 .. n : i \in S
  <2> HIDE DEF S
  <2> QED
    BY <1>1, <1>4, <1>5, Induction
<1>7. g[n] = f[n]
  BY <1>1, <1>6
<1>8. g[n + 1] = g[n] \o s
  <2>1. n + 1 \in 1 .. n + 1 /\ (n + 1) - 1 = n
    BY <1>1
  <2> QED
    BY <1>1, <1>3, <2>1
<1> QED
  BY <1>2, <1>3, <1>7, <1>8 DEF more

\* Of the flattened elements each is where the ones before it end.
LEMMA FlattenHolds ==
  ASSUME NEW b \in Bytes, NEW off \in Nat, NEW seqs \in Seq(Bytes), NEW f,
         f[0] = <<>>,
         \A i \in 1 .. Len(seqs) : f[i] = f[i - 1] \o seqs[i],
         Holds(b, off, f[Len(seqs)])
  PROVE  /\ \A i \in 0 .. Len(seqs) : f[i] \in Bytes
         /\ \A i \in 1 .. Len(seqs) : /\ Len(f[i]) = Len(f[i - 1]) + Len(seqs[i])
                                      /\ Holds(b, off + Len(f[i - 1]), seqs[i])
<1> DEFINE n == Len(seqs)
           S == {i \in 0 .. n : f[i] \in Bytes}
           H == {k \in 0 .. n : Holds(b, off, f[n - k])}
<1>1. n \in Nat /\ \A i \in 1 .. n : seqs[i] \in Bytes
  OBVIOUS
<1> HIDE DEF n
<1>2. \A i \in 1 .. n : f[i] = f[i - 1] \o seqs[i]
  BY DEF n
<1>3. \A i \in 0 .. n : f[i] \in Bytes
  <2>1. 0 \in S
    <3>1. <<>> \in Bytes
      BY DEF Bytes
    <3> QED
      BY <1>1, <3>1
  <2>2. \A i \in 1 .. n : i - 1 \in S => i \in S
    <3> TAKE i \in 1 .. n
    <3> HAVE i - 1 \in S
    <3>1. f[i - 1] \in Bytes /\ seqs[i] \in Bytes /\ f[i] = f[i - 1] \o seqs[i]
      BY <1>1, <1>2
    <3>2. f[i] \in Bytes
      BY <3>1, ConcatBytes
    <3> QED
      BY <1>1, <3>2
  <2>3. \A i \in 0 .. n : i \in S
    <3> HIDE DEF S
    <3> QED
      BY <1>1, <2>1, <2>2, Induction
  <2> QED
    BY <2>3
<1>4. ASSUME NEW i \in 1 .. n
      PROVE  /\ i - 1 \in 0 .. n /\ f[i - 1] \in Bytes /\ seqs[i] \in Bytes
             /\ Len(f[i]) = Len(f[i - 1]) + Len(seqs[i])
             /\ Holds(b, off, f[i]) => /\ Holds(b, off, f[i - 1])
                                       /\ Holds(b, off + Len(f[i - 1]), seqs[i])
  <2>1. i - 1 \in 0 .. n /\ f[i - 1] \in Bytes /\ seqs[i] \in Bytes
    BY <1>1, <1>3
  <2>2. f[i] = f[i - 1] \o seqs[i]
    BY <1>2
  <2>3. Len(f[i]) = Len(f[i - 1]) + Len(seqs[i])
    BY <2>1, <2>2, ConcatBytes
  <2>4. Holds(b, off, f[i - 1] \o seqs[i]) => /\ Holds(b, off, f[i - 1])
                                              /\ Holds(b, off + Len(f[i - 1]), seqs[i])
    BY <2>1, Split
  <2> QED
    BY <2>1, <2>2, <2>3, <2>4
<1>5. \A k \in 0 .. n : k \in H
  <2>1. 0 \in H
    BY <1>1 DEF n
  <2>2. \A k \in 1 .. n : k - 1 \in H => k \in H
    <3> TAKE k \in 1 .. n
    <3> HAVE k - 1 \in H
    <3> DEFINE i == n - (k - 1)
    <3>1. i \in 1 .. n /\ i - 1 = n - k /\ k \in 0 .. n
      BY <1>1
    <3>2. Holds(b, off, f[i])
      OBVIOUS
    <3> HIDE DEF i
    <3>3. Holds(b, off, f[i - 1])
      BY <1>4, <3>1, <3>2
    <3> QED
      BY <3>1, <3>3
  <2>3. \A k \in 0 .. n : k \in H
    <3> HIDE DEF H
    <3> QED
      BY <1>1, <2>1, <2>2, Induction
  <2> QED
    BY <2>3
<1>6. ASSUME NEW i \in 1 .. n
      PROVE  Holds(b, off, f[i])
  <2>1. n - i \in 0 .. n /\ n - (n - i) = i
    BY <1>1
  <2>2. Holds(b, off, f[n - (n - i)])
    BY <1>5, <2>1
  <2> QED
    BY <2>1, <2>2
<1> QED
  BY <1>3, <1>4, <1>6 DEF n

\* FlattenSeq is at least as long as that many of its shortest elements.
LEMMA FlattenLength ==
  ASSUME NEW seqs \in Seq(Bytes), NEW m \in Nat, \A i \in 1 .. Len(seqs) : m <= Len(seqs[i])
  PROVE  Len(seqs) * m <= Len(FlattenSeq(seqs))
<1> DEFINE n == Len(seqs)
<1>1. n \in Nat /\ \A i \in 1 .. n : seqs[i] \in Bytes /\ Len(seqs[i]) \in Nat
  BY DEF Bytes
<1>2. PICK f : /\ f[0] = <<>>
               /\ \A i \in 1 .. n : f[i] = f[i - 1] \o seqs[i]
               /\ FlattenSeq(seqs) = f[n]
  BY FlattenSteps DEF Bytes
<1> HIDE DEF n
<1> DEFINE S == {i \in 0 .. n : f[i] \in Bytes /\ i * m <= Len(f[i])}
<1>3. 0 \in S
  <2>1. <<>> \in Bytes /\ Len(<<>>) = 0 /\ 0 * m = 0
    BY DEF Bytes
  <2> QED
    BY <1>1, <1>2, <2>1
<1>4. \A i \in 1 .. n : i - 1 \in S => i \in S
  <2> TAKE i \in 1 .. n
  <2> HAVE i - 1 \in S
  <2>1. f[i - 1] \in Bytes /\ (i - 1) * m <= Len(f[i - 1]) /\ Len(f[i - 1]) \in Nat
    BY DEF Bytes
  <2>2. f[i] = f[i - 1] \o seqs[i] /\ m <= Len(seqs[i]) /\ Len(seqs[i]) \in Nat
    BY <1>1, <1>2 DEF n
  <2>3. f[i] \in Bytes /\ Len(f[i]) = Len(f[i - 1]) + Len(seqs[i])
    BY <1>1, <2>1, <2>2, ConcatBytes
  <2>4. i * m = (i - 1) * m + m /\ i \in 0 .. n /\ i * m \in Nat /\ (i - 1) * m \in Nat
    BY <1>1
  <2>5. i * m <= Len(f[i])
    <3> DEFINE a == Len(f[i - 1])
               c == Len(seqs[i])
               p == (i - 1) * m
               q == i * m
    <3>1. p <= a /\ m <= c /\ q = p + m /\ Len(f[i]) = a + c
      BY <2>1, <2>2, <2>3, <2>4
    <3>2. a \in Nat /\ c \in Nat /\ p \in Nat /\ q \in Nat
      BY <2>1, <2>2, <2>4
    <3> HIDE DEF a, c, p, q
    <3>3. q <= Len(f[i])
      BY <3>1, <3>2
    <3> QED
      BY <3>3 DEF q
  <2> QED
    BY <2>3, <2>4, <2>5
<1>5. \A i \in 0 .. n : i \in S
  <2> HIDE DEF S
  <2> QED
    BY <1>1, <1>3, <1>4, Induction
<1>6. n * m <= Len(f[n])
  BY <1>1, <1>5
<1> QED
  BY <1>2, <1>6 DEF n

LEMMA ReadsSteps ==
  ASSUME NEW n, NEW elem, n.val \in Nat
  PROVE  /\ reads(n, elem)[0] = Read(n.off, <<>>)
         /\ \A i \in 1 .. n.val : reads(n, elem)[i] = ReadNext(elem, reads(n, elem)[i - 1])
<1> DEFINE r == reads(n, elem)
<1>1. \A i \in 0 .. n.val :
        r[i] = IF i = 0 THEN Read(n.off, <<>>) ELSE ReadNext(elem, r[i - 1])
  BY ReadsDefined
<1>2. 0 \in 0 .. n.val /\ \A i \in 1 .. n.val : i \in 0 .. n.val /\ i # 0
  OBVIOUS
<1> HIDE DEF r
<1> QED
  BY <1>1, <1>2 DEF r

LEMMA PrefixAppend ==
  ASSUME NEW V, NEW vals \in Seq(V), NEW i \in 1 .. Len(vals)
  PROVE  Append([j \in 1 .. i - 1 |-> vals[j]], vals[i]) = [j \in 1 .. i |-> vals[j]]
<1> DEFINE p == [j \in 1 .. i - 1 |-> vals[j]]
<1>1. i - 1 \in Nat /\ \A j \in 1 .. i - 1 : vals[j] \in V
  OBVIOUS
<1>2. p \in Seq(V) /\ Len(p) = i - 1
  BY <1>1
<1>3. Append(p, vals[i]) = [j \in 1 .. (i - 1) + 1 |-> IF j = (i - 1) + 1 THEN vals[i] ELSE p[j]]
  <2> HIDE DEF p
  <2> QED
    BY <1>2
<1> QED
  BY <1>3

\* A list that was written is within the count that is checked, and read back.
LEMMA Fits ==
  ASSUME NEW n \in Nat, NEW m \in Nat \ {0}, NEW l \in Nat, n * m <= l
  PROVE  ~ (n > l \div m)
<1>1. PICK q \in Int : q = l \div m
  OBVIOUS
<1>2. PICK r \in Nat : r < m /\ l = m * q + r
  BY <1>1
<1>3. q + 1 <= n => m * (q + 1) <= m * n
  OBVIOUS
<1>4. m * (q + 1) = m * q + m /\ m * n = n * m
  OBVIOUS
<1> QED
  BY <1>1, <1>2, <1>3, <1>4

LEMMA ListWritten ==
  ASSUME NEW b \in Bytes, Len(b) <= Base * Base, NEW off,
         NEW elems \in Seq(Bytes), Holds(b, off, putList(elems)),
         NEW V, NEW vals \in Seq(V), Len(vals) = Len(elems),
         NEW minElem \in Nat \ {0}, \A i \in 1 .. Len(elems) : minElem <= Len(elems[i]),
         NEW elem,
         \A i \in 1 .. Len(elems) : \A o :
           Holds(b, o, elems[i]) => elem[o] = Read(o + Len(elems[i]), vals[i])
  PROVE  elements(b, count(b, off, minElem), elem) = Read(off + Len(putList(elems)), vals)
<1> DEFINE len == Len(elems)
           flat == FlattenSeq(elems)
           start == off + 2
<1>1. /\ len \in Nat /\ Len(b) \in Nat /\ off \in Nat /\ start \in Nat /\ flat \in Bytes
      /\ Base * Base \in Nat /\ Len(flat) \in Nat
  BY FlattenBytes, CodecSizes DEF Holds, Bytes
<1>2. /\ Len(putList(elems)) = 2 + Len(flat)
      /\ Holds(b, off, put16(len)) /\ Holds(b, start, flat)
  <2>1. putList(elems) = put16(len) \o flat /\ Len(put16(len)) = 2
    BY DEF putList, put16
  <2>2. put16(len) \in Bytes
    BY <1>1, NumbersAreBytes
  <2> HIDE DEF flat, len
  <2>3. Len(putList(elems)) = Len(put16(len)) + Len(flat)
    BY <1>1, <2>1, <2>2, ConcatBytes
  <2>4. Holds(b, off, put16(len)) /\ Holds(b, off + Len(put16(len)), flat)
    BY <1>1, <2>1, <2>2, Split
  <2> QED
    BY <2>1, <2>3, <2>4
<1>3. len * minElem <= Len(flat) /\ start + Len(flat) <= Len(b)
  <2>1. len * minElem <= Len(flat)
    BY FlattenLength
  <2> QED
    BY <1>2, <2>1 DEF Holds
<1> HIDE DEF flat
<1>4. len < Base * Base /\ len * minElem \in Nat /\ len * minElem <= Len(b) - start
      /\ Len(b) - start \in Nat
  <2> HIDE DEF len
  <2>1. len <= len * minElem /\ len * minElem \in Nat
    BY <1>1
  <2> DEFINE p == len * minElem
             w == Base * Base
  <2>2. len <= p /\ p \in Nat /\ p <= Len(flat) /\ w \in Nat /\ Len(b) <= w
    BY <1>1, <1>3, <2>1
  <2> HIDE DEF p, w
  <2>3. len < w /\ p <= Len(b) - start /\ Len(b) - start \in Nat
    BY <1>1, <1>3, <2>2
  <2> QED
    BY <2>1, <2>3 DEF p, w
<1> DEFINE n == Read(start, len)
           r == reads(n, elem)
<1>5. u16(b, off) = n
  BY <1>1, <1>2, <1>4, LengthWritten
<1>6. count(b, off, minElem) = n
  <2>1. ~ (len > (Len(b) - start) \div minElem)
    <3> HIDE DEF len, start
    <3> QED
      BY <1>1, <1>4, Fits
  <2> QED
    BY <1>5, <2>1 DEF count, Read
<1>7. n.off = start /\ n.val = len /\ Ok(b, n)
  BY <1>1, <1>3 DEF Read, Ok
<1>8. PICK f : /\ f[0] = <<>>
               /\ \A i \in 1 .. len : f[i] = f[i - 1] \o elems[i]
               /\ flat = f[len]
  BY FlattenSteps DEF Bytes, flat
<1>9. /\ \A i \in 0 .. len : f[i] \in Bytes
      /\ \A i \in 1 .. len : /\ Len(f[i]) = Len(f[i - 1]) + Len(elems[i])
                             /\ Holds(b, start + Len(f[i - 1]), elems[i])
  <2>1. Holds(b, start, f[len])
    BY <1>2, <1>8
  <2> HIDE DEF start
  <2> QED
    BY <1>1, <1>8, <2>1, FlattenHolds
<1>10. r[0] = Read(start, <<>>) /\ \A i \in 1 .. len : r[i] = ReadNext(elem, r[i - 1])
  <2>1. n.val \in Nat
    BY <1>1, <1>7
  <2> HIDE DEF n, len
  <2> QED
    BY <1>7, <2>1, ReadsSteps
<1> HIDE DEF n, r, len, start
<1> DEFINE prefix(i) == [j \in 1 .. i |-> vals[j]]
           S == {i \in 0 .. len : r[i] = Read(start + Len(f[i]), prefix(i))}
<1>11. 0 \in S
  <2>1. prefix(0) = <<>> /\ start + Len(f[0]) = start
    BY <1>1, <1>8
  <2> HIDE DEF prefix
  <2>2. r[0] = Read(start + Len(f[0]), prefix(0))
    BY <1>10, <2>1
  <2> QED
    BY <1>1, <2>2
<1>12. \A i \in 1 .. len : i - 1 \in S => i \in S
  <2> TAKE i \in 1 .. len
  <2> HAVE i - 1 \in S
  <2> DEFINE o == start + Len(f[i - 1])
  <2>1. r[i - 1] = Read(o, prefix(i - 1))
    OBVIOUS
  <2>2. /\ i - 1 \in 0 .. len /\ i \in 0 .. len /\ f[i - 1] \in Bytes /\ elems[i] \in Bytes
        /\ Holds(b, o, elems[i])
        /\ Len(f[i]) = Len(f[i - 1]) + Len(elems[i])
        /\ Len(f[i - 1]) \in Nat /\ Len(elems[i]) \in Nat
    <3>1. i - 1 \in 0 .. len /\ i \in 0 .. len
      BY <1>1
    <3>2. elems[i] \in Bytes /\ f[i - 1] \in Bytes
      BY <1>9, <3>1 DEF len
    <3>3. Len(f[i - 1]) \in Nat /\ Len(elems[i]) \in Nat
      BY <3>2 DEF Bytes
    <3>4. /\ Len(f[i]) = Len(f[i - 1]) + Len(elems[i])
          /\ Holds(b, start + Len(f[i - 1]), elems[i])
      BY <1>9
    <3> QED
      BY <3>1, <3>2, <3>3, <3>4
  <2>3. elem[o] = Read(o + Len(elems[i]), vals[i])
    BY <2>2 DEF len
  <2>4. o + Len(elems[i]) = start + Len(f[i])
    <3> DEFINE x == Len(f[i - 1])
               y == Len(elems[i])
    <3>1. x \in Nat /\ y \in Nat /\ Len(f[i]) = x + y
      BY <2>2
    <3> HIDE DEF x, y
    <3>2. (start + x) + y = start + Len(f[i])
      BY <1>1, <3>1
    <3> QED
      BY <3>2 DEF x, y
  <2>5. Append(prefix(i - 1), vals[i]) = prefix(i)
    BY PrefixAppend DEF len
  <2> HIDE DEF o, prefix
  <2>6. r[i] = ReadNext(elem, r[i - 1])
    BY <1>10
  <2>7. r[i] = Read(start + Len(f[i]), prefix(i))
    <3>1. r[i - 1].off = o /\ r[i - 1].val = prefix(i - 1)
      BY <2>1 DEF Read
    <3>2. elem[o].off = start + Len(f[i]) /\ elem[o].val = vals[i]
      BY <2>3, <2>4 DEF Read
    <3> QED
      BY <2>5, <2>6, <3>1, <3>2 DEF ReadNext
  <2> QED
    BY <2>2, <2>7
<1>13. \A i \in 0 .. len : i \in S
  <2> HIDE DEF S
  <2> QED
    BY <1>1, <1>11, <1>12, Induction
<1>14. r[len] = Read(start + Len(f[len]), prefix(len))
  BY <1>1, <1>13
<1>15. prefix(len) = vals
  BY DEF len
<1>16. start + Len(flat) = off + Len(putList(elems))
  BY <1>1, <1>2 DEF start
<1> HIDE DEF prefix
<1> QED
  BY <1>6, <1>7, <1>8, <1>14, <1>15, <1>16 DEF elements, r

\* A list that was read is there, element by element.
Encoded(enc, vals) == [i \in DOMAIN vals |-> enc[vals[i]]]

LEMMA EncodedAppend ==
  ASSUME NEW T, NEW enc \in [T -> Bytes], NEW vals \in Seq(T), NEW v \in T
  PROVE  /\ Encoded(enc, vals) \in Seq(Bytes)
         /\ Encoded(enc, Append(vals, v)) = Append(Encoded(enc, vals), enc[v])
<1> DEFINE e == Encoded(enc, vals)
           more == Append(vals, v)
<1>1. /\ Len(vals) \in Nat /\ DOMAIN vals = 1 .. Len(vals)
      /\ \A i \in 1 .. Len(vals) : vals[i] \in T
      /\ more \in Seq(T) /\ Len(more) = Len(vals) + 1 /\ DOMAIN more = 1 .. Len(vals) + 1
      /\ \A i \in 1 .. Len(vals) + 1 : more[i] = IF i = Len(vals) + 1 THEN v ELSE vals[i]
  OBVIOUS
<1>2. /\ e = [i \in 1 .. Len(vals) |-> enc[vals[i]]]
      /\ Encoded(enc, more) = [i \in 1 .. Len(vals) + 1 |-> enc[more[i]]]
  BY <1>1 DEF Encoded
<1> HIDE DEF e, more
<1>3. e \in Seq(Bytes) /\ Len(e) = Len(vals)
  BY <1>1, <1>2
<1>4. Append(e, enc[v])
        = [i \in 1 .. Len(vals) + 1 |-> IF i = Len(vals) + 1 THEN enc[v] ELSE e[i]]
  BY <1>1, <1>3
<1>5. Encoded(enc, more) = Append(e, enc[v])
  BY <1>1, <1>2, <1>4
<1> QED
  BY <1>3, <1>5 DEF e, more

LEMMA ListExact ==
  ASSUME NEW b \in Bytes, NEW off \in Cursors(b), NEW minElem, NEW T, NEW enc \in [T -> Bytes],
         NEW elem,
         \A o \in Cursors(b) : /\ Reads(b, o, elem[o], T)
                               /\ Ok(b, elem[o]) => Exact(b, o, elem[o], enc[elem[o].val]),
         NEW list, list = elements(b, count(b, off, minElem), elem),
         Ok(b, list)
  PROVE  Exact(b, off, list, putList(Encoded(enc, list.val)))
<1> DEFINE n == count(b, off, minElem)
           r == reads(n, elem)
<1>1. Ok(b, n) /\ list = r[n.val]
  BY DEF elements
<1>2. n = u16(b, off)
  <2>1. n \in {Bad(b), u16(b, off)}
    BY DEF count
  <2> HIDE DEF n
  <2> QED
    BY <1>1, <2>1, BadIsBad
<1> HIDE DEF n
<1>3. /\ n.val \in Nat /\ n.off \in Cursors(b) /\ Exact(b, off, n, put16(n.val))
      /\ n.off \in Nat /\ n.off <= Len(b) /\ Len(b) \in Nat
  <2>1. n.val \in Nat /\ n.off \in Cursors(b)
    BY <1>2, LengthReads DEF Reads
  <2>2. Exact(b, off, n, put16(n.val))
    BY <1>1, <1>2, LengthExact
  <2> QED
    BY <1>1, <2>1, <2>2 DEF Ok, Cursors, Bytes
<1>4. r[0] = Read(n.off, <<>>) /\ \A i \in 1 .. n.val : r[i] = ReadNext(elem, r[i - 1])
  BY <1>3, ReadsSteps
<1> HIDE DEF r
<1> DEFINE Good(i) == /\ r[i].off \in Cursors(b)
                      /\ Ok(b, r[i]) => /\ r[i].val \in Seq(T) /\ Len(r[i].val) = i
                                        /\ Exact(b, n.off, r[i], FlattenSeq(Encoded(enc, r[i].val)))
           S == {i \in 0 .. n.val : Good(i)}
<1>5. 0 \in S
  <2>1. r[0].off = n.off /\ r[0].val = <<>>
    BY <1>4 DEF Read
  <2>2. <<>> \in Seq(T) /\ Len(<<>>) = 0 /\ <<>> \in Bytes
    BY DEF Bytes
  <2>3. Encoded(enc, <<>>) = <<>>
    BY DEF Encoded
  <2>4. FlattenSeq(Encoded(enc, r[0].val)) = <<>>
    BY <2>1, <2>3, FlattenEmpty
  <2>5. Exact(b, n.off, r[0], <<>>)
    BY <1>3, <2>1, <2>2 DEF Exact, Holds
  <2>6. Good(0)
    BY <1>3, <2>1, <2>2, <2>4, <2>5
  <2> HIDE DEF Good
  <2> QED
    BY <1>3, <2>6
<1>6. \A i \in 1 .. n.val : i - 1 \in S => i \in S
  <2> TAKE i \in 1 .. n.val
  <2> HAVE i - 1 \in S
  <2> DEFINE p == r[i - 1]
             e == elem[p.off]
  <2>1. /\ p.off \in Cursors(b)
        /\ Ok(b, p) => /\ p.val \in Seq(T) /\ Len(p.val) = i - 1
                       /\ Exact(b, n.off, p, FlattenSeq(Encoded(enc, p.val)))
    OBVIOUS
  <2> HIDE DEF p
  <2>2. r[i].off = e.off /\ r[i].val = Append(p.val, e.val)
    <3>1. r[i] = ReadNext(elem, p)
      BY <1>4 DEF p
    <3> QED
      BY <3>1 DEF ReadNext, Read
  <2>3. Reads(b, p.off, e, T) /\ (Ok(b, e) => Exact(b, p.off, e, enc[e.val]))
    BY <2>1
  <2> HIDE DEF e
  <2>4. e.off \in Cursors(b)
    BY <2>3 DEF Reads
  <2>5. ASSUME Ok(b, e)
        PROVE  /\ r[i].val \in Seq(T) /\ Len(r[i].val) = i
               /\ Exact(b, n.off, r[i], FlattenSeq(Encoded(enc, r[i].val)))
    <3>1. e.val \in T /\ p.off <= e.off
      BY <2>3, <2>5 DEF Reads
    <3>2. Ok(b, p)
      BY <2>1, <2>4, <2>5, <3>1 DEF Ok, Cursors, Bytes
    <3>3. p.val \in Seq(T) /\ Len(p.val) = i - 1
      BY <2>1, <3>2
    <3>4. r[i].val \in Seq(T) /\ Len(r[i].val) = i
      BY <2>2, <3>1, <3>3
    <3>5. /\ Encoded(enc, p.val) \in Seq(Bytes)
          /\ Encoded(enc, r[i].val) = Append(Encoded(enc, p.val), enc[e.val])
      BY <2>2, <3>1, <3>3, EncodedAppend
    <3>6. enc[e.val] \in Bytes
      BY <3>1
    <3>7. FlattenSeq(Encoded(enc, r[i].val)) = FlattenSeq(Encoded(enc, p.val)) \o enc[e.val]
      BY <3>5, <3>6, FlattenAppend
    <3>8. Exact(b, n.off, p, FlattenSeq(Encoded(enc, p.val))) /\ Exact(b, p.off, e, enc[e.val])
      BY <2>1, <2>3, <2>5, <3>2
    <3>9. Exact(b, n.off, e, FlattenSeq(Encoded(enc, p.val)) \o enc[e.val])
      BY <3>8, ExactThen
    <3>10. Exact(b, n.off, r[i], FlattenSeq(Encoded(enc, r[i].val)))
      BY <2>2, <3>7, <3>9 DEF Exact
    <3> QED
      BY <3>4, <3>10
  <2>6. r[i].off \in Cursors(b) /\ (Ok(b, r[i]) <=> Ok(b, e))
    BY <2>2, <2>4 DEF Ok
  <2>7. Good(i) /\ i \in 0 .. n.val
    BY <1>3, <2>5, <2>6
  <2> HIDE DEF Good
  <2> QED
    BY <2>7
<1>7. Good(n.val)
  <2>1. \A i \in 0 .. n.val : i \in S
    <3> HIDE DEF S
    <3> QED
      BY <1>3, <1>5, <1>6, Induction
  <2> HIDE DEF Good
  <2> QED
    BY <1>3, <2>1
<1>8. /\ Len(list.val) = n.val /\ list.val \in Seq(T)
      /\ Exact(b, n.off, list, FlattenSeq(Encoded(enc, list.val)))
  BY <1>1, <1>7
<1> HIDE DEF Good
<1>9. Len(Encoded(enc, list.val)) = n.val
  BY <1>3, <1>8 DEF Encoded
<1>10. Exact(b, off, list, put16(n.val) \o FlattenSeq(Encoded(enc, list.val)))
  BY <1>3, <1>8, ExactThen
<1> QED
  BY <1>9, <1>10 DEF putList

-----------------------------------------------------------------------------
\* The beginning of b is s, but for one byte, and r reads to where it ends.
ExactBut(b, v, r, s) ==
  /\ s \in Bytes
  /\ Len(s) <= Len(b)
  /\ \A i \in 1 .. Len(s) : i # v => b[i] = s[i]
  /\ r.off = Len(s)

LEMMA ButThen ==
  ASSUME NEW b \in Bytes, NEW v, NEW r, NEW s, ExactBut(b, v, r, s),
         NEW q, NEW t \in Bytes,
         q.off = r.off + Len(t), r.off + Len(t) <= Len(b),
         \A i \in 1 .. Len(t) : r.off + i # v => b[r.off + i] = t[i]
  PROVE  ExactBut(b, v, q, s \o t)
<1> DEFINE u == s \o t
<1>1. /\ s \in Bytes /\ Len(s) <= Len(b) /\ r.off = Len(s)
      /\ \A i \in 1 .. Len(s) : i # v => b[i] = s[i]
  BY DEF ExactBut
<1>2. /\ u \in Bytes
      /\ Len(u) = Len(s) + Len(t)
      /\ \A i \in 1 .. Len(s) + Len(t) : u[i] = IF i <= Len(s) THEN s[i] ELSE t[i - Len(s)]
  BY <1>1, ConcatProperties DEF Bytes
<1>3. Len(s) \in Nat /\ Len(t) \in Nat /\ Len(b) \in Nat
  BY <1>1 DEF Bytes
<1> HIDE DEF u
<1>4. ASSUME NEW i \in 1 .. Len(u), i # v
      PROVE  b[i] = u[i]
  <2>1. CASE i <= Len(s)
    <3>1. i \in 1 .. Len(s) /\ u[i] = s[i]
      BY <1>2, <1>3, <2>1
    <3> QED
      BY <1>1, <1>4, <3>1
  <2>2. CASE ~ (i <= Len(s))
    <3>1. i - Len(s) \in 1 .. Len(t) /\ Len(s) + (i - Len(s)) = i
      BY <1>2, <1>3, <2>2
    <3>2. u[i] = t[i - Len(s)]
      BY <1>2, <1>3, <2>2
    <3>3. b[Len(s) + (i - Len(s))] = t[i - Len(s)]
      BY <1>1, <1>4, <3>1
    <3> QED
      BY <3>1, <3>2, <3>3
  <2> QED
    BY <2>1, <2>2
<1> QED
  BY <1>1, <1>2, <1>3, <1>4 DEF ExactBut, u

LEMMA ButExact ==
  ASSUME NEW b \in Bytes, NEW v, NEW r, NEW s, ExactBut(b, v, r, s),
         NEW q, NEW t, Exact(b, r.off, q, t)
  PROVE  ExactBut(b, v, q, s \o t)
<1>1. /\ t \in Bytes /\ q.off = r.off + Len(t) /\ r.off + Len(t) <= Len(b)
      /\ \A i \in 1 .. Len(t) : b[r.off + i] = t[i]
  BY DEF Exact, Holds
<1> QED
  BY <1>1, ButThen

\* The lists of a body that is accepted.
LEMMA WordsExact ==
  ASSUME NEW b \in Bytes, NEW off \in Cursors(b), NEW size \in Nat, NEW list,
         list = elements(b, count(b, off, size), [o \in Cursors(b) |-> take(b, o, size)])
  PROVE  /\ Reads(b, off, list, Seq(Word(size)))
         /\ Ok(b, list) => Exact(b, off, list, putList(list.val))
<1> DEFINE T == Word(size)
           enc == [x \in T |-> x]
           elem == [o \in Cursors(b) |-> take(b, o, size)]
<1>1. \A o \in Cursors(b) : Reads(b, o, elem[o], T)
  BY TakeReads
<1>2. Reads(b, off, list, Seq(T))
  BY <1>1, CountReads, ElementsRead
<1>3. ASSUME NEW o \in Cursors(b), Ok(b, elem[o])
      PROVE  Exact(b, o, elem[o], enc[elem[o].val])
  <2>1. elem[o] = take(b, o, size)
    OBVIOUS
  <2> HIDE DEF elem
  <2>2. elem[o].val \in T /\ Exact(b, o, elem[o], elem[o].val)
    BY <1>1, <1>3, <2>1, TakeIsExact DEF Reads
  <2> QED
    BY <2>2
<1>4. enc \in [T -> Bytes]
  BY WordsAreBytes
<1>5. ASSUME Ok(b, list)
      PROVE  Exact(b, off, list, putList(list.val))
  <2>1. list.val \in Seq(T)
    BY <1>2, <1>5 DEF Reads
  <2>2. list = elements(b, count(b, off, size), elem)
    OBVIOUS
  <2> HIDE DEF enc, elem, T
  <2>3. Exact(b, off, list, putList(Encoded(enc, list.val)))
    BY <1>1, <1>3, <1>4, <1>5, <2>2, ListExact
  <2>4. \A s \in Seq(T) : Encoded(enc, s) = s
    <3> TAKE s \in Seq(T)
    <3>1. \A i \in DOMAIN s : enc[s[i]] = s[i]
      BY DEF enc
    <3>2. s = [i \in DOMAIN s |-> s[i]]
      OBVIOUS
    <3> QED
      BY <3>1, <3>2 DEF Encoded
  <2> QED
    BY <2>1, <2>3, <2>4
<1> QED
  BY <1>2, <1>5

LEMMA InstructionsExact ==
  ASSUME NEW b \in Bytes, NEW off \in Cursors(b), NEW list,
         list = elements(b, count(b, off, 5), [o \in Cursors(b) |-> instruction(b, o)])
  PROVE  /\ Reads(b, off, list, Seq(Instruction))
         /\ Ok(b, list) => Exact(b, off, list, putList([i \in DOMAIN list.val |-> putInstruction(list.val[i])]))
<1> DEFINE T == Instruction
           enc == [x \in T |-> putInstruction(x)]
           elem == [o \in Cursors(b) |-> instruction(b, o)]
<1>1. \A o \in Cursors(b) : Reads(b, o, elem[o], T)
  BY InstructionReads
<1>2. Reads(b, off, list, Seq(T))
  BY <1>1, CountReads, ElementsRead
<1>3. ASSUME NEW o \in Cursors(b), Ok(b, elem[o])
      PROVE  Exact(b, o, elem[o], enc[elem[o].val])
  <2>1. elem[o] = instruction(b, o)
    OBVIOUS
  <2> HIDE DEF elem
  <2>2. elem[o].val \in T /\ Exact(b, o, elem[o], putInstruction(elem[o].val))
    BY <1>1, <1>3, <2>1, InstructionExact DEF Reads
  <2> QED
    BY <2>2
<1>4. enc \in [T -> Bytes]
  BY InstructionIsBytes
<1>5. ASSUME Ok(b, list)
      PROVE  Exact(b, off, list, putList([i \in DOMAIN list.val |-> putInstruction(list.val[i])]))
  <2>1. list.val \in Seq(T)
    BY <1>2, <1>5 DEF Reads
  <2>2. list = elements(b, count(b, off, 5), elem)
    OBVIOUS
  <2> HIDE DEF enc, elem, T
  <2>3. Exact(b, off, list, putList(Encoded(enc, list.val)))
    BY <1>1, <1>3, <1>4, <1>5, <2>2, ListExact
  <2>4. Encoded(enc, list.val) = [i \in DOMAIN list.val |-> putInstruction(list.val[i])]
    BY <2>1 DEF Encoded, enc
  <2> QED
    BY <2>3, <2>4
<1> QED
  BY <1>2, <1>5

LEMMA LookupsExact ==
  ASSUME NEW b \in Bytes, NEW off \in Cursors(b), NEW list,
         list = elements(b, count(b, off, KeySize + 4), [o \in Cursors(b) |-> lookup(b, o)])
  PROVE  /\ Reads(b, off, list, Seq(AddressTableLookup))
         /\ Ok(b, list) => Exact(b, off, list, putList([i \in DOMAIN list.val |-> putLookup(list.val[i])]))
<1> DEFINE T == AddressTableLookup
           enc == [x \in T |-> putLookup(x)]
           elem == [o \in Cursors(b) |-> lookup(b, o)]
<1>1. \A o \in Cursors(b) : Reads(b, o, elem[o], T)
  BY LookupReads
<1>2. Reads(b, off, list, Seq(T))
  BY <1>1, CountReads, ElementsRead
<1>3. ASSUME NEW o \in Cursors(b), Ok(b, elem[o])
      PROVE  Exact(b, o, elem[o], enc[elem[o].val])
  <2>1. elem[o] = lookup(b, o)
    OBVIOUS
  <2> HIDE DEF elem
  <2>2. elem[o].val \in T /\ Exact(b, o, elem[o], putLookup(elem[o].val))
    BY <1>1, <1>3, <2>1, LookupExact DEF Reads
  <2> QED
    BY <2>2
<1>4. enc \in [T -> Bytes]
  BY LookupIsBytes
<1>5. ASSUME Ok(b, list)
      PROVE  Exact(b, off, list, putList([i \in DOMAIN list.val |-> putLookup(list.val[i])]))
  <2>1. list.val \in Seq(T)
    BY <1>2, <1>5 DEF Reads
  <2>2. list = elements(b, count(b, off, KeySize + 4), elem)
    OBVIOUS
  <2> HIDE DEF enc, elem, T
  <2>3. Exact(b, off, list, putList(Encoded(enc, list.val)))
    BY <1>1, <1>3, <1>4, <1>5, <2>2, ListExact
  <2>4. Encoded(enc, list.val) = [i \in DOMAIN list.val |-> putLookup(list.val[i])]
    BY <2>1 DEF Encoded, enc
  <2> QED
    BY <2>3, <2>4
<1> QED
  BY <1>2, <1>5

\* A body that is accepted is its transaction's encoding, but for the versioned byte.
LEMMA PrefixExact ==
  ASSUME NEW b \in Bytes, Ok(b, decodeFullTxPrefix(b))
  PROVE  LET body == decodeFullTxPrefix(b)
             v    == SlotSize + 4
         IN  /\ ExactBut(b, v, body, EncodeFullTx(body.val))
             /\ v \in 1 .. Len(b)
             /\ (b[v] # 0) = body.val.Versioned
<1> DEFINE slot   == take(b, 0, SlotSize)
           header == take(b, slot.off, 4)
           hash   == take(b, header.off, HashSize)
           sigs   == elements(b, count(b, hash.off, SigSize),
                              [o \in Cursors(b) |-> take(b, o, SigSize)])
           keys   == elements(b, count(b, sigs.off, KeySize),
                              [o \in Cursors(b) |-> take(b, o, KeySize)])
           ixs    == elements(b, count(b, keys.off, 5),
                              [o \in Cursors(b) |-> instruction(b, o)])
           alts   == elements(b, count(b, ixs.off, KeySize + 4),
                              [o \in Cursors(b) |-> lookup(b, o)])
           tx     == [Slot |-> slot.val, NumRequiredSignatures |-> header.val[1],
                      NumReadonlySignedAccounts |-> header.val[2],
                      NumReadonlyUnsignedAccount |-> header.val[3],
                      Versioned |-> header.val[4] # 0, RecentBlockhash |-> hash.val,
                      Signatures |-> sigs.val, AccountKeys |-> keys.val,
                      Instructions |-> ixs.val, AddressTableLookups |-> alts.val]
           body   == decodeFullTxPrefix(b)
           v      == SlotSize + 4
<1>1. /\ 0 \in Cursors(b) /\ SlotSize \in Nat /\ HashSize \in Nat /\ 4 \in Nat
      /\ SigSize \in Nat /\ KeySize \in Nat
  BY CodecSizes DEF Cursors, Bytes
<1>2. body = IF Len(b) > MaxFullTxBody \/ ~ Ok(b, alts) THEN Bad(b)
             ELSE [off |-> alts.off, val |-> tx]
  BY DEF decodeFullTxPrefix, Read
<1>3. Ok(b, body)
  OBVIOUS
<1> HIDE DEF body
<1>4. Reads(b, 0, slot, Word(SlotSize)) /\ slot.off \in Cursors(b)
  BY <1>1, TakeReads DEF Reads
<1>5. Ok(b, slot) => Exact(b, 0, slot, slot.val) /\ slot.off = SlotSize
  BY <1>1, TakeExact, TakeIsExact
<1> HIDE DEF slot
<1>6. Reads(b, slot.off, header, Word(4)) /\ header.off \in Cursors(b)
  BY <1>1, <1>4, TakeReads DEF Reads
<1>7. Ok(b, header) => /\ Holds(b, slot.off, header.val) /\ header.val \in Word(4)
                       /\ Len(header.val) = 4 /\ header.off = slot.off + 4
  BY <1>1, <1>4, TakeExact
<1> HIDE DEF header
<1>8. Reads(b, header.off, hash, Word(HashSize)) /\ hash.off \in Cursors(b)
  BY <1>1, <1>6, TakeReads DEF Reads
<1>9. Ok(b, hash) => Exact(b, header.off, hash, hash.val)
  BY <1>1, <1>6, TakeIsExact
<1> HIDE DEF hash
<1>10. /\ Reads(b, hash.off, sigs, Seq(Word(SigSize))) /\ sigs.off \in Cursors(b)
       /\ Ok(b, sigs) => Exact(b, hash.off, sigs, putList(sigs.val))
  <2>1. /\ Reads(b, hash.off, sigs, Seq(Word(SigSize)))
        /\ Ok(b, sigs) => Exact(b, hash.off, sigs, putList(sigs.val))
    BY <1>1, <1>8, WordsExact
  <2> HIDE DEF sigs
  <2> QED
    BY <2>1 DEF Reads
<1> HIDE DEF sigs
<1>11. /\ Reads(b, sigs.off, keys, Seq(Word(KeySize))) /\ keys.off \in Cursors(b)
       /\ Ok(b, keys) => Exact(b, sigs.off, keys, putList(keys.val))
  <2>1. /\ Reads(b, sigs.off, keys, Seq(Word(KeySize)))
        /\ Ok(b, keys) => Exact(b, sigs.off, keys, putList(keys.val))
    BY <1>1, <1>10, WordsExact
  <2> HIDE DEF keys
  <2> QED
    BY <2>1 DEF Reads
<1> HIDE DEF keys
<1> DEFINE putIxs  == putList([i \in DOMAIN ixs.val |-> putInstruction(ixs.val[i])])
           putAlts == putList([i \in DOMAIN alts.val |-> putLookup(alts.val[i])])
<1>12. /\ Reads(b, keys.off, ixs, Seq(Instruction)) /\ ixs.off \in Cursors(b)
       /\ Ok(b, ixs) => Exact(b, keys.off, ixs, putIxs)
  <2>1. /\ Reads(b, keys.off, ixs, Seq(Instruction))
        /\ Ok(b, ixs) => Exact(b, keys.off, ixs, putIxs)
    BY <1>11, InstructionsExact
  <2> HIDE DEF ixs
  <2> QED
    BY <2>1 DEF Reads
<1> HIDE DEF ixs
<1>13. /\ Reads(b, ixs.off, alts, Seq(AddressTableLookup)) /\ alts.off \in Cursors(b)
       /\ Ok(b, alts) => Exact(b, ixs.off, alts, putAlts)
  <2>1. /\ Reads(b, ixs.off, alts, Seq(AddressTableLookup))
        /\ Ok(b, alts) => Exact(b, ixs.off, alts, putAlts)
    BY <1>12, LookupsExact
  <2> HIDE DEF alts
  <2> QED
    BY <2>1 DEF Reads
<1> HIDE DEF alts, putIxs, putAlts, tx, v
<1>14. Ok(b, alts) /\ body.off = alts.off /\ body.val = tx
  BY <1>2, <1>3, BadIsBad
<1>15. Ok(b, ixs)
  BY <1>11, <1>12, <1>13, <1>14, Then
<1>16. Ok(b, keys)
  BY <1>10, <1>11, <1>12, <1>15, Then
<1>17. Ok(b, sigs)
  BY <1>8, <1>10, <1>11, <1>16, Then
<1>18. Ok(b, hash)
  BY <1>6, <1>8, <1>10, <1>17, Then
<1>19. Ok(b, header)
  BY <1>4, <1>6, <1>8, <1>18, Then
<1>20. Ok(b, slot)
  BY <1>1, <1>4, <1>6, <1>19, Then
<1> DEFINE at(k) == [off |-> SlotSize + k]
           put(k) == put8(header.val[k])
           ver == IF tx.Versioned THEN <<1>> ELSE <<0>>
<1>21. /\ Len(b) \in Nat /\ SlotSize + 4 <= Len(b)
       /\ \A k \in 1 .. 4 : header.val[k] \in Byte /\ b[SlotSize + k] = header.val[k]
  <2>1. Holds(b, SlotSize, header.val) /\ Len(header.val) = 4 /\ header.val \in Word(4)
    BY <1>5, <1>7, <1>19, <1>20
  <2>2. Len(b) \in Nat /\ SlotSize + 4 <= Len(b) /\ \A k \in 1 .. 4 : b[SlotSize + k] = header.val[k]
    BY <2>1 DEF Holds, Bytes
  <2>3. \A k \in 1 .. 4 : header.val[k] \in Byte
    BY <2>1 DEF Word
  <2> QED
    BY <2>2, <2>3
<1>22. ExactBut(b, v, at(0), slot.val)
  <2>1. Exact(b, 0, slot, slot.val) /\ slot.off = SlotSize
    BY <1>5, <1>20
  <2>2. /\ slot.val \in Bytes /\ Len(slot.val) = SlotSize /\ Len(slot.val) <= Len(b)
        /\ \A i \in 1 .. Len(slot.val) : b[0 + i] = slot.val[i]
    BY <1>1, <2>1 DEF Exact, Holds, Bytes
  <2>3. \A i \in 1 .. Len(slot.val) : 0 + i = i
    BY <1>1, <2>2
  <2> QED
    BY <1>1, <2>2, <2>3 DEF ExactBut
<1>23. ASSUME NEW k \in 1 .. 3
       PROVE  Exact(b, at(k - 1).off, at(k), put(k))
  <2>1. header.val[k] \in Byte /\ 0 \in Byte /\ b[SlotSize + k] = header.val[k]
    BY <1>21, CodecSizes DEF Byte
  <2>2. put(k) = <<header.val[k]>>
    BY <2>1, Digits
  <2>3. put(k) \in Bytes /\ Len(put(k)) = 1 /\ put(k)[1] = header.val[k]
    BY <2>1, <2>2 DEF Bytes
  <2>4. /\ SlotSize + (k - 1) \in Nat /\ (SlotSize + (k - 1)) + 1 = SlotSize + k
        /\ SlotSize + k <= Len(b)
    BY <1>1, <1>21
  <2> HIDE DEF put
  <2>5. Holds(b, SlotSize + (k - 1), put(k))
    BY <2>1, <2>3, <2>4 DEF Holds
  <2> QED
    BY <2>3, <2>4, <2>5 DEF Exact
<1>24. ExactBut(b, v, at(3), slot.val \o put(1) \o put(2) \o put(3))
  <2> HIDE DEF at, put
  <2>1. ExactBut(b, v, at(1), slot.val \o put(1))
    BY <1>22, <1>23, ButExact
  <2>2. ExactBut(b, v, at(2), slot.val \o put(1) \o put(2))
    BY <1>23, <2>1, ButExact
  <2> QED
    BY <1>23, <2>2, ButExact
<1>25. ExactBut(b, v, header, slot.val \o put(1) \o put(2) \o put(3) \o ver)
  <2>1. ver \in Bytes /\ Len(ver) = 1
    <3>1. 0 \in Byte /\ 1 \in Byte
      BY CodecSizes DEF Byte
    <3> QED
      BY <3>1 DEF Bytes
  <2>2. header.off = at(3).off + Len(ver) /\ at(3).off + Len(ver) <= Len(b)
    BY <1>1, <1>5, <1>7, <1>19, <1>20, <1>21, <2>1
  <2>3. \A i \in 1 .. Len(ver) : at(3).off + i = v
    BY <1>1, <2>1 DEF v
  <2> HIDE DEF ver, at, put
  <2> QED
    BY <1>24, <2>1, <2>2, <2>3, ButThen
<1>26. ExactBut(b, v, hash, slot.val \o put(1) \o put(2) \o put(3) \o ver \o hash.val)
  BY <1>9, <1>18, <1>25, ButExact
<1>27. ExactBut(b, v, keys, slot.val \o put(1) \o put(2) \o put(3) \o ver \o hash.val
                              \o putList(sigs.val) \o putList(keys.val))
  BY <1>10, <1>11, <1>16, <1>17, <1>26, ButExact
<1>28. ExactBut(b, v, alts, slot.val \o put(1) \o put(2) \o put(3) \o ver \o hash.val
                              \o putList(sigs.val) \o putList(keys.val) \o putIxs \o putAlts)
  BY <1>12, <1>13, <1>14, <1>15, <1>27, ButExact
<1>29. EncodeFullTx(tx)
         = slot.val \o put(1) \o put(2) \o put(3) \o ver \o hash.val
             \o putList(sigs.val) \o putList(keys.val) \o putIxs \o putAlts
  BY DEF EncodeFullTx, tx, putIxs, putAlts
<1>30. tx.Versioned = (b[v] # 0)
  BY <1>21 DEF tx, v
<1>31. ExactBut(b, v, body, EncodeFullTx(body.val)) /\ (b[v] # 0) = body.val.Versioned
  <2> HIDE DEF ver, put
  <2> QED
    BY <1>14, <1>28, <1>29, <1>30 DEF ExactBut
<1>32. v \in 1 .. Len(b)
  BY <1>1, <1>21 DEF v
<1> QED
  BY <1>31, <1>32 DEF body, v

\* The bytes of a frame after its type and flags.
LEMMA RestOfFrame ==
  ASSUME NEW src \in Bytes, Len(src) >= 2
  PROVE  LET rest == SubSeq(src, 3, Len(src))
         IN  /\ rest \in Bytes
             /\ Len(rest) = Len(src) - 2
             /\ \A i \in 1 .. Len(rest) : rest[i] = src[2 + i]
<1> DEFINE n == Len(src)
           rest == SubSeq(src, 3, n)
<1>1. n \in Nat /\ 3 \in Nat /\ n - 3 + 1 \in Nat /\ \A i \in 3 .. n : src[i] \in Byte
  BY DEF Bytes
<1> HIDE DEF n
<1>2. /\ rest \in Bytes /\ Len(rest) = n - 3 + 1
      /\ \A i \in 1 .. n - 3 + 1 : rest[i] = src[3 + i - 1]
  BY <1>1, Slice DEF Bytes
<1> HIDE DEF rest
<1>3. Len(rest) = n - 2 /\ \A i \in 1 .. Len(rest) : 3 + i - 1 = 2 + i
  BY <1>1, <1>2
<1> QED
  BY <1>2, <1>3 DEF n, rest

\* decodeFullTxPrefix, DecodeFullTx, for all bytes: the body of a transaction frame
\* that is accepted is the encoding of what was decoded, except for the value of its
\* versioned byte, and it is accepted on its own exactly when nothing follows it.
THEOREM CanonicalFrame ==
  ASSUME NEW src \in Bytes, DecodeFrame(src) \notin {ErrBadFrame, OtherFrame}
  PROVE  LET tx   == DecodeFrame(src).Tx
             body == EncodeFullTx(tx)
             v    == SlotSize + 4
         IN  /\ 2 + Len(body) <= Len(src)
             /\ \A i \in DOMAIN body : i # v => src[2 + i] = body[i]
             /\ (src[2 + v] # 0) = tx.Versioned
             /\ DecodeFullTx(SubSeq(src, 3, Len(src))) =
                  IF Len(src) = 2 + Len(body) THEN tx ELSE ErrBadFrame
<1> DEFINE rest == SubSeq(src, 3, Len(src))
           read == decodeFullTxPrefix(rest)
           tx   == DecodeFrame(src).Tx
           body == EncodeFullTx(tx)
           v    == SlotSize + 4
<1>1. Len(src) \in Nat /\ Len(src) >= 2 /\ DecodeFrame(src) = decodeTx(src[2], rest)
  BY DEF DecodeFrame, Bytes
<1>2. /\ rest \in Bytes /\ Len(rest) = Len(src) - 2
      /\ \A i \in 1 .. Len(rest) : rest[i] = src[2 + i]
  BY <1>1, RestOfFrame
<1> HIDE DEF rest
<1>3. Ok(rest, read) /\ tx = read.val
  BY <1>1 DEF decodeTx
<1>4. /\ ExactBut(rest, v, read, body)
      /\ v \in 1 .. Len(rest)
      /\ (rest[v] # 0) = tx.Versioned
  BY <1>2, <1>3, PrefixExact
<1> HIDE DEF read, tx, body
<1>6. /\ body \in Bytes /\ Len(body) <= Len(rest) /\ read.off = Len(body)
      /\ \A i \in 1 .. Len(body) : i # v => rest[i] = body[i]
  BY <1>4 DEF ExactBut
<1>7. Len(body) \in Nat /\ DOMAIN body = 1 .. Len(body)
  BY <1>6 DEF Bytes
<1>8. 2 + Len(body) <= Len(src) /\ (Len(src) = 2 + Len(body) <=> read.off = Len(rest))
  BY <1>1, <1>2, <1>6, <1>7
<1>9. \A i \in DOMAIN body : i # v => src[2 + i] = body[i]
  <2>1. \A i \in 1 .. Len(body) : i \in 1 .. Len(rest)
    BY <1>1, <1>2, <1>6, <1>7
  <2> QED
    BY <1>2, <1>6, <1>7, <2>1
<1>10. (src[2 + v] # 0) = tx.Versioned
  BY <1>2, <1>4, <1>7
<1>11. DecodeFullTx(rest) = IF Len(src) = 2 + Len(body) THEN tx ELSE ErrBadFrame
  BY <1>3, <1>8 DEF DecodeFullTx, read
<1> QED
  BY <1>8, <1>9, <1>10, <1>11 DEF rest, tx, body, v

-----------------------------------------------------------------------------
\* Reading the lists of a body that was written.
LEMMA WordsWritten ==
  ASSUME NEW b \in Bytes, Len(b) <= Base * Base, NEW off, NEW size \in Nat \ {0},
         NEW words \in Seq(Word(size)), Holds(b, off, putList(words))
  PROVE  elements(b, count(b, off, size), [o \in Cursors(b) |-> take(b, o, size)])
           = Read(off + Len(putList(words)), words)
<1> DEFINE elem == [o \in Cursors(b) |-> take(b, o, size)]
<1>1. words \in Seq(Bytes) /\ \A i \in 1 .. Len(words) : words[i] \in Word(size)
  BY WordsAreBytes
<1>2. \A w \in Word(size) : Len(w) = size
  BY DEF Word
<1>3. ASSUME NEW i \in 1 .. Len(words), NEW o, Holds(b, o, words[i])
      PROVE  elem[o] = Read(o + Len(words[i]), words[i])
  <2>1. o \in Cursors(b)
    BY <1>3 DEF Holds, Cursors, Bytes
  <2>2. take(b, o, Len(words[i])) = Read(o + Len(words[i]), words[i])
    BY <1>3, TakeWritten
  <2>3. Len(words[i]) = size
    BY <1>1, <1>2
  <2> QED
    BY <2>1, <2>2, <2>3
<1>4. \A i \in 1 .. Len(words) : size <= Len(words[i])
  BY <1>1, <1>2
<1> HIDE DEF elem
<1>5. elements(b, count(b, off, size), elem) = Read(off + Len(putList(words)), words)
  BY <1>1, <1>3, <1>4, ListWritten
<1> QED
  BY <1>5 DEF elem

LEMMA InstructionsWritten ==
  ASSUME NEW b \in Bytes, Len(b) <= Base * Base, NEW off, NEW ixs \in Seq(Instruction),
         Holds(b, off, putList([i \in DOMAIN ixs |-> putInstruction(ixs[i])]))
  PROVE  elements(b, count(b, off, 5), [o \in Cursors(b) |-> instruction(b, o)])
           = Read(off + Len(putList([i \in DOMAIN ixs |-> putInstruction(ixs[i])])),
                  [i \in DOMAIN ixs |-> NarrowedInstruction(ixs[i])])
<1> DEFINE elem == [o \in Cursors(b) |-> instruction(b, o)]
           elems == [i \in DOMAIN ixs |-> putInstruction(ixs[i])]
           vals == [i \in DOMAIN ixs |-> NarrowedInstruction(ixs[i])]
           V == {NarrowedInstruction(ix) : ix \in Instruction}
<1>1. DOMAIN ixs = 1 .. Len(ixs) /\ Len(ixs) \in Nat /\ \A i \in 1 .. Len(ixs) : ixs[i] \in Instruction
  OBVIOUS
<1>2. /\ elems \in Seq(Bytes) /\ Len(elems) = Len(ixs)
      /\ \A i \in 1 .. Len(ixs) : 5 <= Len(elems[i])
  BY <1>1, InstructionIsBytes
<1>3. vals \in Seq(V) /\ Len(vals) = Len(ixs)
  BY <1>1
<1>4. ASSUME NEW i \in 1 .. Len(ixs), NEW o, Holds(b, o, elems[i])
      PROVE  elem[o] = Read(o + Len(elems[i]), vals[i])
  <2>1. o \in Cursors(b)
    BY <1>4 DEF Holds, Cursors, Bytes
  <2>2. elems[i] = putInstruction(ixs[i]) /\ vals[i] = NarrowedInstruction(ixs[i])
    BY <1>1
  <2> HIDE DEF elems, vals
  <2>3. instruction(b, o) = Read(o + Len(elems[i]), vals[i])
    BY <1>1, <1>4, <2>2, InstructionWritten DEF NarrowedInstruction
  <2> QED
    BY <2>1, <2>3
<1> HIDE DEF elem, elems, vals, V
<1>5. Holds(b, off, putList(elems))
  BY DEF elems
<1>6. 5 \in Nat \ {0}
  OBVIOUS
<1>7. elements(b, count(b, off, 5), elem) = Read(off + Len(putList(elems)), vals)
  BY <1>2, <1>3, <1>4, <1>5, <1>6, ListWritten
<1> QED
  BY <1>7 DEF elem, elems, vals

LEMMA LookupsWritten ==
  ASSUME NEW b \in Bytes, Len(b) <= Base * Base, NEW off, NEW alts \in Seq(AddressTableLookup),
         Holds(b, off, putList([i \in DOMAIN alts |-> putLookup(alts[i])]))
  PROVE  elements(b, count(b, off, KeySize + 4), [o \in Cursors(b) |-> lookup(b, o)])
           = Read(off + Len(putList([i \in DOMAIN alts |-> putLookup(alts[i])])), alts)
<1> DEFINE elem == [o \in Cursors(b) |-> lookup(b, o)]
           elems == [i \in DOMAIN alts |-> putLookup(alts[i])]
<1>1. /\ DOMAIN alts = 1 .. Len(alts) /\ Len(alts) \in Nat
      /\ \A i \in 1 .. Len(alts) : alts[i] \in AddressTableLookup
  OBVIOUS
<1>2. /\ elems \in Seq(Bytes) /\ Len(elems) = Len(alts)
      /\ \A i \in 1 .. Len(alts) : KeySize + 4 <= Len(elems[i])
  BY <1>1, LookupIsBytes
<1>3. ASSUME NEW i \in 1 .. Len(alts), NEW o, Holds(b, o, elems[i])
      PROVE  elem[o] = Read(o + Len(elems[i]), alts[i])
  <2>1. o \in Cursors(b)
    BY <1>3 DEF Holds, Cursors, Bytes
  <2>2. elems[i] = putLookup(alts[i])
    BY <1>1
  <2> HIDE DEF elems
  <2>3. lookup(b, o) = Read(o + Len(elems[i]), alts[i])
    BY <1>1, <1>3, <2>2, LookupWritten
  <2> QED
    BY <2>1, <2>3
<1> HIDE DEF elem, elems
<1>4. Holds(b, off, putList(elems))
  BY DEF elems
<1>5. KeySize + 4 \in Nat \ {0}
  BY CodecSizes
<1>6. elements(b, count(b, off, KeySize + 4), elem) = Read(off + Len(putList(elems)), alts)
  BY <1>2, <1>3, <1>4, <1>5, ListWritten
<1> QED
  BY <1>6 DEF elem, elems

LEMMA Peel ==
  ASSUME NEW b \in Bytes, NEW s \in Bytes, NEW t \in Bytes, Holds(b, 0, s \o t)
  PROVE  Holds(b, 0, s) /\ Holds(b, Len(s), t) /\ Len(s \o t) = Len(s) + Len(t)
<1>1. Holds(b, 0, s) /\ Holds(b, 0 + Len(s), t) /\ Len(s \o t) = Len(s) + Len(t)
  BY Split, ConcatBytes
<1>2. 0 + Len(s) = Len(s)
  BY DEF Bytes
<1> QED
  BY <1>1, <1>2

\* A body that was written is read back, its fields of one byte narrowed.
LEMMA PrefixWritten ==
  ASSUME NEW b \in Bytes, Len(b) <= MaxFullTxBody,
         NEW ft \in FullTx, Holds(b, 0, EncodeFullTx(ft))
  PROVE  decodeFullTxPrefix(b) = Read(Len(EncodeFullTx(ft)), Narrowed(ft))
<1> DEFINE slotBytes == ft.Slot
           hashBytes == ft.RecentBlockhash
           n1   == ft.NumRequiredSignatures
           n2   == ft.NumReadonlySignedAccounts
           n3   == ft.NumReadonlyUnsignedAccount
           ver  == IF ft.Versioned THEN <<1>> ELSE <<0>>
           putSigs == putList(ft.Signatures)
           putKeys == putList(ft.AccountKeys)
           putIxs  == putList([i \in DOMAIN ft.Instructions |-> putInstruction(ft.Instructions[i])])
           putAlts == putList([i \in DOMAIN ft.AddressTableLookups
                                 |-> putLookup(ft.AddressTableLookups[i])])
           s1 == slotBytes \o put8(n1)
           s2 == s1 \o put8(n2)
           s3 == s2 \o put8(n3)
           s4 == s3 \o ver
           s5 == s4 \o hashBytes
           s6 == s5 \o putSigs
           s7 == s6 \o putKeys
           s8 == s7 \o putIxs
           s9 == s8 \o putAlts
<1>1. EncodeFullTx(ft) = s9
  BY DEF EncodeFullTx
<1>2. /\ slotBytes \in Bytes /\ Len(slotBytes) = SlotSize
      /\ hashBytes \in Bytes /\ Len(hashBytes) = HashSize
      /\ put8(n1) \in Bytes /\ put8(n2) \in Bytes /\ put8(n3) \in Bytes /\ ver \in Bytes
      /\ putSigs \in Bytes /\ putKeys \in Bytes /\ putIxs \in Bytes /\ putAlts \in Bytes
  BY BodyParts
<1>3. /\ n1 \in Nat /\ n2 \in Nat /\ n3 \in Nat /\ ft.Versioned \in BOOLEAN
      /\ ft.Signatures \in Seq(Word(SigSize)) /\ ft.AccountKeys \in Seq(Word(KeySize))
      /\ ft.Instructions \in Seq(Instruction)
      /\ ft.AddressTableLookups \in Seq(AddressTableLookup)
  BY DEF FullTx
<1>4. Len(b) <= Base * Base /\ SlotSize \in Nat /\ HashSize \in Nat /\ Len(b) \in Nat
      /\ SigSize \in Nat \ {0} /\ KeySize \in Nat \ {0}
  BY CodecSizes DEF MaxFullTxBody, Bytes
<1> HIDE DEF slotBytes, hashBytes, n1, n2, n3, ver, putSigs, putKeys, putIxs, putAlts
<1>5. s1 \in Bytes /\ s2 \in Bytes /\ s3 \in Bytes /\ s4 \in Bytes
  <2>1. s1 \in Bytes
    BY <1>2, ConcatBytes
  <2> HIDE DEF s1
  <2>2. s2 \in Bytes
    BY <1>2, <2>1, ConcatBytes
  <2> HIDE DEF s2
  <2>3. s3 \in Bytes
    BY <1>2, <2>2, ConcatBytes
  <2> HIDE DEF s3
  <2> QED
    BY <1>2, <2>1, <2>2, <2>3, ConcatBytes
<1> HIDE DEF s1, s2, s3, s4
<1>6. s5 \in Bytes /\ s6 \in Bytes /\ s7 \in Bytes /\ s8 \in Bytes /\ s9 \in Bytes
  <2>1. s5 \in Bytes
    BY <1>2, <1>5, ConcatBytes
  <2> HIDE DEF s5
  <2>2. s6 \in Bytes
    BY <1>2, <2>1, ConcatBytes
  <2> HIDE DEF s6
  <2>3. s7 \in Bytes
    BY <1>2, <2>2, ConcatBytes
  <2> HIDE DEF s7
  <2>4. s8 \in Bytes
    BY <1>2, <2>3, ConcatBytes
  <2> HIDE DEF s8
  <2> QED
    BY <1>2, <2>1, <2>2, <2>3, <2>4, ConcatBytes
<1> HIDE DEF s5, s6, s7, s8, s9
<1>7. Holds(b, 0, s8) /\ Holds(b, Len(s8), putAlts) /\ Len(s9) = Len(s8) + Len(putAlts)
  BY <1>1, <1>2, <1>6, Peel DEF s9
<1>8. Holds(b, 0, s7) /\ Holds(b, Len(s7), putIxs) /\ Len(s8) = Len(s7) + Len(putIxs)
  BY <1>2, <1>6, <1>7, Peel DEF s8
<1>9. Holds(b, 0, s6) /\ Holds(b, Len(s6), putKeys) /\ Len(s7) = Len(s6) + Len(putKeys)
  BY <1>2, <1>6, <1>8, Peel DEF s7
<1>10. Holds(b, 0, s5) /\ Holds(b, Len(s5), putSigs) /\ Len(s6) = Len(s5) + Len(putSigs)
  BY <1>2, <1>6, <1>9, Peel DEF s6
<1>11. Holds(b, 0, s4) /\ Holds(b, Len(s4), hashBytes) /\ Len(s5) = Len(s4) + HashSize
  <2>1. /\ Holds(b, 0, s4) /\ Holds(b, Len(s4), hashBytes)
        /\ Len(s5) = Len(s4) + Len(hashBytes)
    <3>1. hashBytes \in Bytes /\ s4 \in Bytes /\ Holds(b, 0, s4 \o hashBytes)
      BY <1>2, <1>5, <1>10 DEF s5
    <3>2. s5 = s4 \o hashBytes
      BY DEF s5
    <3> QED
      BY <3>1, <3>2, Peel
  <2> QED
    BY <1>2, <2>1
<1>12. Holds(b, 0, s3) /\ Holds(b, Len(s3), ver) /\ Len(s4) = Len(s3) + Len(ver)
  BY <1>2, <1>5, <1>11, Peel DEF s4
<1>13. Holds(b, 0, s2) /\ Holds(b, Len(s2), put8(n3)) /\ Len(s3) = Len(s2) + Len(put8(n3))
  BY <1>2, <1>5, <1>12, Peel DEF s3
<1>14. Holds(b, 0, s1) /\ Holds(b, Len(s1), put8(n2)) /\ Len(s2) = Len(s1) + Len(put8(n2))
  BY <1>2, <1>5, <1>13, Peel DEF s2
<1>15. Holds(b, 0, slotBytes) /\ Holds(b, SlotSize, put8(n1)) /\ Len(s1) = SlotSize + Len(put8(n1))
  <2>1. /\ Holds(b, 0, slotBytes) /\ Holds(b, Len(slotBytes), put8(n1))
        /\ Len(s1) = Len(slotBytes) + Len(put8(n1))
    <3>1. slotBytes \in Bytes /\ put8(n1) \in Bytes /\ Holds(b, 0, slotBytes \o put8(n1))
      BY <1>2, <1>14 DEF s1
    <3>2. s1 = slotBytes \o put8(n1)
      BY DEF s1
    <3> QED
      BY <3>1, <3>2, Peel
  <2> QED
    BY <1>2, <2>1
<1>16. Len(s1) = SlotSize + 1 /\ Len(s2) = SlotSize + 2 /\ Len(s3) = SlotSize + 3
       /\ Len(s4) = SlotSize + 4
  <2>1. Len(put8(n1)) = 1 /\ Len(put8(n2)) = 1 /\ Len(put8(n3)) = 1 /\ Len(ver) = 1
    BY DEF put8, ver
  <2> QED
    BY <1>4, <1>12, <1>13, <1>14, <1>15, <2>1
<1> DEFINE slot   == take(b, 0, SlotSize)
           header == take(b, slot.off, 4)
           hash   == take(b, header.off, HashSize)
           sigs   == elements(b, count(b, hash.off, SigSize),
                              [o \in Cursors(b) |-> take(b, o, SigSize)])
           keys   == elements(b, count(b, sigs.off, KeySize),
                              [o \in Cursors(b) |-> take(b, o, KeySize)])
           ixs    == elements(b, count(b, keys.off, 5),
                              [o \in Cursors(b) |-> instruction(b, o)])
           alts   == elements(b, count(b, ixs.off, KeySize + 4),
                              [o \in Cursors(b) |-> lookup(b, o)])
           tx     == [Slot |-> slot.val, NumRequiredSignatures |-> header.val[1],
                      NumReadonlySignedAccounts |-> header.val[2],
                      NumReadonlyUnsignedAccount |-> header.val[3],
                      Versioned |-> header.val[4] # 0, RecentBlockhash |-> hash.val,
                      Signatures |-> sigs.val, AccountKeys |-> keys.val,
                      Instructions |-> ixs.val, AddressTableLookups |-> alts.val]
<1>17. decodeFullTxPrefix(b)
         = IF Len(b) > MaxFullTxBody \/ ~ Ok(b, alts) THEN Bad(b) ELSE Read(alts.off, tx)
  BY DEF decodeFullTxPrefix
<1>18. slot.off = SlotSize /\ slot.val = slotBytes
  <2>1. take(b, 0, Len(slotBytes)) = Read(0 + Len(slotBytes), slotBytes)
    BY <1>15, TakeWritten
  <2> QED
    BY <1>2, <1>4, <2>1 DEF Read
<1> HIDE DEF slot
<1>19. /\ header.off = SlotSize + 4
       /\ header.val[1] = n1 % Base /\ header.val[2] = n2 % Base /\ header.val[3] = n3 % Base
       /\ (header.val[4] # 0) = ft.Versioned
  <2>1. SlotSize + 4 <= Len(b)
    BY <1>11, <1>16 DEF Holds
  <2>2. header = Read(SlotSize + 4, SubSeq(b, SlotSize + 1, SlotSize + 4))
    BY <1>18, <2>1 DEF take
  <2>3. Ok(b, header) /\ header.off = SlotSize + 4
    BY <2>1, <2>2 DEF Ok, Read
  <2>4. SlotSize \in Cursors(b) /\ 4 \in Nat
    BY <1>4, <2>1 DEF Cursors
  <2>5. Len(header.val) = 4 /\ Holds(b, SlotSize, header.val)
    BY <1>18, <2>3, <2>4, TakeExact
  <2> HIDE DEF header
  <2>6. \A k \in 1 .. 4 : header.val[k] = b[SlotSize + k]
    BY <2>5 DEF Holds
  <2>7. /\ b[SlotSize + 1] = n1 % Base
        /\ b[(SlotSize + 1) + 1] = n2 % Base
        /\ b[(SlotSize + 2) + 1] = n3 % Base
    BY <1>13, <1>14, <1>15, <1>16 DEF Holds, put8
  <2>8. b[(SlotSize + 3) + 1] = IF ft.Versioned THEN 1 ELSE 0
    BY <1>12, <1>16 DEF Holds, ver
  <2>9. /\ (SlotSize + 1) + 1 = SlotSize + 2 /\ (SlotSize + 2) + 1 = SlotSize + 3
        /\ (SlotSize + 3) + 1 = SlotSize + 4
    BY <1>4
  <2>10. header.val[1] = n1 % Base /\ header.val[2] = n2 % Base /\ header.val[3] = n3 % Base
    BY <2>6, <2>7, <2>9
  <2>11. header.val[4] = IF ft.Versioned THEN 1 ELSE 0
    BY <2>6, <2>8, <2>9
  <2>12. (header.val[4] # 0) = ft.Versioned
    BY <1>3, <2>11
  <2> QED
    BY <2>3, <2>10, <2>12
<1> HIDE DEF header
<1>20. hash.off = Len(s5) /\ hash.val = hashBytes
  <2>1. take(b, Len(s4), HashSize) = Read(Len(s4) + HashSize, hashBytes)
    BY <1>2, <1>11, TakeWritten
  <2> QED
    BY <1>11, <1>16, <1>19, <2>1 DEF Read
<1> HIDE DEF hash
<1>21. sigs.off = Len(s6) /\ sigs.val = ft.Signatures
  <2>1. elements(b, count(b, Len(s5), SigSize), [o \in Cursors(b) |-> take(b, o, SigSize)])
          = Read(Len(s5) + Len(putSigs), ft.Signatures)
    BY <1>3, <1>4, <1>10, WordsWritten DEF putSigs
  <2> QED
    BY <1>10, <1>20, <2>1 DEF Read
<1> HIDE DEF sigs
<1>22. keys.off = Len(s7) /\ keys.val = ft.AccountKeys
  <2>1. elements(b, count(b, Len(s6), KeySize), [o \in Cursors(b) |-> take(b, o, KeySize)])
          = Read(Len(s6) + Len(putKeys), ft.AccountKeys)
    BY <1>3, <1>4, <1>9, WordsWritten DEF putKeys
  <2> QED
    BY <1>9, <1>21, <2>1 DEF Read
<1> HIDE DEF keys
<1>23. /\ ixs.off = Len(s8)
       /\ ixs.val = [i \in DOMAIN ft.Instructions |-> NarrowedInstruction(ft.Instructions[i])]
  <2>1. elements(b, count(b, Len(s7), 5), [o \in Cursors(b) |-> instruction(b, o)])
          = Read(Len(s7) + Len(putIxs),
                 [i \in DOMAIN ft.Instructions |-> NarrowedInstruction(ft.Instructions[i])])
    BY <1>3, <1>4, <1>8, InstructionsWritten DEF putIxs
  <2> QED
    BY <1>8, <1>22, <2>1 DEF Read
<1> HIDE DEF ixs
<1>24. alts.off = Len(s9) /\ alts.val = ft.AddressTableLookups
  <2>1. elements(b, count(b, Len(s8), KeySize + 4), [o \in Cursors(b) |-> lookup(b, o)])
          = Read(Len(s8) + Len(putAlts), ft.AddressTableLookups)
    BY <1>3, <1>4, <1>7, LookupsWritten DEF putAlts
  <2> QED
    BY <1>7, <1>23, <2>1 DEF Read
<1> HIDE DEF alts
<1>25. Ok(b, alts)
  BY <1>1, <1>4, <1>6, <1>24 DEF Ok, Holds, Bytes
<1>26. tx = Narrowed(ft)
  <2>1. tx = [Slot |-> ft.Slot, NumRequiredSignatures |-> n1 % Base,
              NumReadonlySignedAccounts |-> n2 % Base,
              NumReadonlyUnsignedAccount |-> n3 % Base,
              Versioned |-> ft.Versioned, RecentBlockhash |-> ft.RecentBlockhash,
              Signatures |-> ft.Signatures, AccountKeys |-> ft.AccountKeys,
              Instructions |-> [i \in DOMAIN ft.Instructions |-> NarrowedInstruction(ft.Instructions[i])],
              AddressTableLookups |-> ft.AddressTableLookups]
    BY <1>18, <1>19, <1>20, <1>21, <1>22, <1>23, <1>24 DEF slotBytes, hashBytes
  <2>2. Narrowed(ft)
          = [Slot |-> ft.Slot, NumRequiredSignatures |-> n1 % Base,
             NumReadonlySignedAccounts |-> n2 % Base,
             NumReadonlyUnsignedAccount |-> n3 % Base,
             Versioned |-> ft.Versioned, RecentBlockhash |-> ft.RecentBlockhash,
             Signatures |-> ft.Signatures, AccountKeys |-> ft.AccountKeys,
             Instructions |-> [i \in DOMAIN ft.Instructions |-> NarrowedInstruction(ft.Instructions[i])],
             AddressTableLookups |-> ft.AddressTableLookups]
    <3>1. ft = [Slot |-> ft.Slot, NumRequiredSignatures |-> n1,
                NumReadonlySignedAccounts |-> n2, NumReadonlyUnsignedAccount |-> n3,
                Versioned |-> ft.Versioned, RecentBlockhash |-> ft.RecentBlockhash,
                Signatures |-> ft.Signatures, AccountKeys |-> ft.AccountKeys,
                Instructions |-> ft.Instructions, AddressTableLookups |-> ft.AddressTableLookups]
      BY DEF FullTx, n1, n2, n3
    <3> DEFINE ixVals == [i \in DOMAIN ft.Instructions |-> NarrowedInstruction(ft.Instructions[i])]
               f1 == [ft EXCEPT !.NumRequiredSignatures = n1 % Base]
               f2 == [f1 EXCEPT !.NumReadonlySignedAccounts = n2 % Base]
               f3 == [f2 EXCEPT !.NumReadonlyUnsignedAccount = n3 % Base]
    <3>2. Narrowed(ft) = [f3 EXCEPT !.Instructions = ixVals]
      BY DEF Narrowed, n1, n2, n3
    <3>3. f1 = [Slot |-> ft.Slot, NumRequiredSignatures |-> n1 % Base,
                NumReadonlySignedAccounts |-> n2, NumReadonlyUnsignedAccount |-> n3,
                Versioned |-> ft.Versioned, RecentBlockhash |-> ft.RecentBlockhash,
                Signatures |-> ft.Signatures, AccountKeys |-> ft.AccountKeys,
                Instructions |-> ft.Instructions, AddressTableLookups |-> ft.AddressTableLookups]
      BY <3>1
    <3> HIDE DEF f1
    <3>4. f2 = [Slot |-> ft.Slot, NumRequiredSignatures |-> n1 % Base,
                NumReadonlySignedAccounts |-> n2 % Base, NumReadonlyUnsignedAccount |-> n3,
                Versioned |-> ft.Versioned, RecentBlockhash |-> ft.RecentBlockhash,
                Signatures |-> ft.Signatures, AccountKeys |-> ft.AccountKeys,
                Instructions |-> ft.Instructions, AddressTableLookups |-> ft.AddressTableLookups]
      BY <3>3
    <3> HIDE DEF f2
    <3>5. f3 = [Slot |-> ft.Slot, NumRequiredSignatures |-> n1 % Base,
                NumReadonlySignedAccounts |-> n2 % Base, NumReadonlyUnsignedAccount |-> n3 % Base,
                Versioned |-> ft.Versioned, RecentBlockhash |-> ft.RecentBlockhash,
                Signatures |-> ft.Signatures, AccountKeys |-> ft.AccountKeys,
                Instructions |-> ft.Instructions, AddressTableLookups |-> ft.AddressTableLookups]
      BY <3>4
    <3> HIDE DEF f3, ixVals
    <3>6. Narrowed(ft) = [Slot |-> ft.Slot, NumRequiredSignatures |-> n1 % Base,
                          NumReadonlySignedAccounts |-> n2 % Base, NumReadonlyUnsignedAccount |-> n3 % Base,
                          Versioned |-> ft.Versioned, RecentBlockhash |-> ft.RecentBlockhash,
                          Signatures |-> ft.Signatures, AccountKeys |-> ft.AccountKeys,
                          Instructions |-> ixVals, AddressTableLookups |-> ft.AddressTableLookups]
      BY <3>2, <3>5
    <3> QED
      BY <3>6 DEF ixVals
  <2> QED
    BY <2>1, <2>2
<1> HIDE DEF tx
<1>27. ~ (Len(b) > MaxFullTxBody)
  <2> DEFINE w == Base * Base
  <2>1. w \in Nat /\ MaxFullTxBody = w
    BY CodecSizes DEF MaxFullTxBody
  <2> HIDE DEF w
  <2> QED
    BY <1>4, <2>1
<1> QED
  BY <1>1, <1>17, <1>24, <1>25, <1>26, <1>27

-----------------------------------------------------------------------------
\* The trailer.  parseTLVs by its recursive definition: from[o] in terms of from
\* further on.
NextTLV(b, o, from) ==
  IF o = Len(b) THEN <<>>
  ELSE LET t    == u8(b, o)
           v    == part(b, t.off)
           rest == from[v.off]
       IN  IF ~Ok(b, v) THEN ErrBadFrame
           ELSE IF rest = ErrBadFrame THEN ErrBadFrame
           ELSE IF \E i \in DOMAIN rest : rest[i].typ = t.val THEN ErrBadFrame
           ELSE <<[typ |-> t.val, value |-> v.val]>> \o rest

LEMMA NextIsFurther ==
  ASSUME NEW b \in Bytes, NEW o \in 0 .. Len(b), NEW f, NEW g,
         \A i \in o + 1 .. Len(b) : f[i] = g[i]
  PROVE  NextTLV(b, o, f) = NextTLV(b, o, g)
<1> DEFINE t == u8(b, o)
           v == part(b, t.off)
<1>1. o \in Cursors(b) /\ Len(b) \in Nat
  BY DEF Cursors, Bytes
<1>2. Reads(b, o, t, Byte) /\ (Ok(b, t) => t.off = o + 1)
  <2>1. Ok(b, t) => Exact(b, o, t, put8(t.val)) /\ Len(put8(t.val)) = 1
    BY <1>1, ByteExact DEF put8
  <2> QED
    BY <1>1, <2>1, ByteReads DEF Exact
<1> HIDE DEF t
<1>3. Reads(b, t.off, v, Bytes)
  BY <1>2, PartReads DEF Reads
<1> HIDE DEF v
<1>4. Ok(b, v) => v.off \in o + 1 .. Len(b)
  <2>1. Ok(b, v) => Ok(b, t)
    BY <1>1, <1>2, <1>3, Then
  <2> QED
    BY <1>1, <1>2, <1>3, <2>1 DEF Reads, Ok, Cursors
<1>5. Ok(b, v) => f[v.off] = g[v.off]
  BY <1>4
<1>6. ASSUME NEW h
      PROVE  NextTLV(b, o, h) =
               IF o = Len(b) THEN <<>>
               ELSE IF ~Ok(b, v) THEN ErrBadFrame
               ELSE IF h[v.off] = ErrBadFrame THEN ErrBadFrame
               ELSE IF \E i \in DOMAIN h[v.off] : h[v.off][i].typ = t.val THEN ErrBadFrame
               ELSE <<[typ |-> t.val, value |-> v.val]>> \o h[v.off]
  BY DEF NextTLV, t, v
<1> QED
  BY <1>5, <1>6

LEMMA ParseDefined ==
  ASSUME NEW b \in Bytes, NEW off \in 0 .. Len(b)
  PROVE  \E from : /\ \A o \in off .. Len(b) : from[o] = NextTLV(b, o, from)
                   /\ parseTLVs(b, off) = from[off]
<1> DEFINE n == Len(b)
           IsFrom(m, g) == g = [o \in m .. n |-> NextTLV(b, o, g)]
           S == {k \in 0 .. n - off : \E g : IsFrom(n - k, g)}
<1>1. n \in Nat /\ off \in Nat /\ n - off \in Nat
  BY DEF Bytes
<1>2. 0 \in S
  <2>1. \A f, g : NextTLV(b, n, f) = NextTLV(b, n, g)
    BY DEF NextTLV
  <2> DEFINE h == [o \in n .. n |-> NextTLV(b, n, <<>>)]
  <2> HIDE DEF n
  <2>2. h = [o \in n .. n |-> NextTLV(b, o, h)]
    <3>1. \A o \in n .. n : o = n
      BY <1>1
    <3>2. NextTLV(b, n, <<>>) = NextTLV(b, n, h)
      BY <2>1
    <3> QED
      BY <3>1, <3>2
  <2>3. IsFrom(n - 0, h)
    BY <1>1, <2>2
  <2> HIDE DEF IsFrom, h
  <2> QED
    BY <1>1, <2>3
<1>3. ASSUME NEW k \in 1 .. n - off, k - 1 \in S
      PROVE  k \in S
  <2> DEFINE m == n - k
  <2>1. PICK g : IsFrom(n - (k - 1), g)
    BY <1>3
  <2> HIDE DEF n
  <2>2. /\ m \in 0 .. n /\ n - (k - 1) = m + 1 /\ k \in 0 .. n - off
        /\ \A o \in m + 1 .. n : o \in 0 .. n
    BY <1>1
  <2> HIDE DEF m
  <2> DEFINE h == [o \in m .. n |-> IF o = m THEN NextTLV(b, m, g) ELSE g[o]]
  <2>3. \A o \in m + 1 .. n : h[o] = g[o]
    BY <1>1, <2>2
  <2>4. ASSUME NEW o \in m .. n
        PROVE  h[o] = NextTLV(b, o, h)
    <3>1. o \in 0 .. Len(b) /\ \A i \in o + 1 .. Len(b) : i \in m + 1 .. n
      BY <1>1, <2>2 DEF n
    <3>2. \A i \in o + 1 .. Len(b) : h[i] = g[i]
      BY <2>3, <3>1
    <3>3. NextTLV(b, o, h) = NextTLV(b, o, g)
      <4> HIDE DEF h
      <4> QED
        BY <3>1, <3>2, NextIsFurther
    <3>4. CASE o = m
      BY <3>3, <3>4
    <3>5. CASE o # m
      <4>1. o \in m + 1 .. n
        BY <1>1, <2>2, <3>5
      <4>2. g = [i \in m + 1 .. n |-> NextTLV(b, i, g)]
        BY <2>1, <2>2
      <4>3. g[o] = NextTLV(b, o, g)
        BY <4>1, <4>2
      <4> QED
        BY <2>3, <3>3, <4>1, <4>3
    <3> QED
      BY <3>4, <3>5
  <2>5. h = [o \in m .. n |-> NextTLV(b, o, h)]
    <3>1. h = [o \in m .. n |-> h[o]]
      OBVIOUS
    <3> HIDE DEF h
    <3> QED
      BY <2>4, <3>1
  <2>6. IsFrom(m, h)
    BY <2>5
  <2> HIDE DEF IsFrom, h
  <2> QED
    BY <2>2, <2>6 DEF m
<1>4. \E g : IsFrom(off, g)
  <2> HIDE DEF S, n
  <2>1. \A k \in 0 .. n - off : k \in S
    BY <1>1, <1>2, <1>3, Induction
  <2>2. n - off \in S /\ n - (n - off) = off
    BY <1>1, <2>1
  <2> HIDE DEF IsFrom
  <2> QED
    BY <2>2 DEF S
<1> DEFINE from == CHOOSE g : IsFrom(off, g)
<1>5. parseTLVs(b, off) = from[off]
  BY DEF parseTLVs, NextTLV
<1>6. IsFrom(off, from)
  <2> HIDE DEF IsFrom
  <2> QED
    BY <1>4
<1> HIDE DEF from
<1>7. \A o \in off .. Len(b) : from[o] = NextTLV(b, o, from)
  BY <1>6
<1> QED
  BY <1>5, <1>7

\* The records of a trailer that was written.
TLVRecord == [typ : Byte, value : Bytes]

Records(type, addrs) ==
  IF addrs = <<>> THEN <<>> ELSE <<[typ |-> type, value |-> FlattenSeq(addrs)]>>

\* At off is the record that was put, and after it are records of other types.
RecordAt(b, off, type, addrs, from, rest) ==
  /\ b \in Bytes /\ off \in Nat /\ type \in Byte /\ addrs \in Seq(Word(KeySize))
  /\ Len(b) <= Base * Base
  /\ Holds(b, off, putTLV(type, addrs))
  /\ from[off] = NextTLV(b, off, from)
  /\ rest = from[off + Len(putTLV(type, addrs))]
  /\ rest \in Seq(TLVRecord)
  /\ \A i \in DOMAIN rest : rest[i].typ # type

RecordsFollow(off, type, addrs, from, rest) == from[off] = Records(type, addrs) \o rest

LEMMA RecordsWritten ==
  ASSUME NEW b, NEW off, NEW type, NEW addrs, NEW from, NEW rest,
         RecordAt(b, off, type, addrs, from, rest)
  PROVE  RecordsFollow(off, type, addrs, from, rest)
<1> SUFFICES ASSUME b \in Bytes, off \in Nat, type \in Byte, addrs \in Seq(Word(KeySize))
             PROVE  from[off] = Records(type, addrs) \o rest
  BY DEF RecordAt, RecordsFollow
<1> USE DEF RecordAt
<1> DEFINE end == off + Len(putTLV(type, addrs))
<1>1. rest = from[end]
  OBVIOUS
<1>2. CASE addrs = <<>>
  <2>1. putTLV(type, addrs) = <<>> /\ Records(type, addrs) = <<>>
    BY <1>2 DEF putTLV, Records
  <2>2. end = off
    BY <2>1 DEF Holds
  <2>3. <<>> \o rest = rest
    BY ConcatEmptySeq
  <2> QED
    BY <1>2, <1>1, <2>1, <2>2, <2>3
<1>3. CASE addrs # <<>>
  <2> DEFINE value == FlattenSeq(addrs)
             tag == <<type>>
             rec == [typ |-> type, value |-> value]
             t == u8(b, off)
             v == part(b, t.off)
  <2>1. putTLV(type, addrs) = tag \o putPart(value) /\ Records(type, addrs) = <<rec>>
    BY <1>3 DEF putTLV, Records
  <2>2. type \in Byte /\ off \in Nat
    BY DEF Holds
  <2>3. tag \in Bytes /\ Len(tag) = 1 /\ put8(type) = tag
    <3>1. 0 \in Byte
      BY CodecSizes DEF Byte
    <3> QED
      BY <2>2, <3>1, Digits DEF Bytes
  <2>4. value \in Bytes /\ putPart(value) \in Bytes /\ Len(putPart(value)) \in Nat
        /\ Len(putPart(value)) >= 2
    <3>1. addrs \in Seq(Bytes)
      BY WordsAreBytes, CodecSizes
    <3>2. value \in Bytes
      BY <3>1, FlattenBytes
    <3> HIDE DEF value
    <3>3. putPart(value) \in Bytes
      BY <3>2, PartsAreBytes
    <3> QED
      BY <3>2, <3>3, PartLength DEF Bytes
  <2> HIDE DEF value, tag
  <2>5. /\ Holds(b, off, tag) /\ Holds(b, off + 1, putPart(value))
        /\ end = (off + 1) + Len(putPart(value)) /\ end <= Len(b)
    <3>1. Holds(b, off, tag \o putPart(value))
      BY <2>1
    <3>2. /\ Holds(b, off, tag) /\ Holds(b, off + Len(tag), putPart(value))
          /\ Len(tag \o putPart(value)) = Len(tag) + Len(putPart(value))
      BY <2>2, <2>3, <2>4, <3>1, Split, ConcatBytes
    <3>3. end <= Len(b)
      BY <2>1 DEF Holds
    <3> QED
      BY <2>1, <2>2, <2>3, <2>4, <3>2, <3>3
  <2>6. t.off = off + 1 /\ t.val = type
    <3>1. type \in Nat /\ Holds(b, off, put8(type))
      BY <2>2, <2>3, <2>5, CodecSizes DEF Byte
    <3>2. t = Read(off + 1, type % Base)
      BY <3>1, ByteWritten
    <3>3. type % Base = type
      <4>1. Base \in Nat /\ Base > 0 /\ type \in 0 .. Base - 1
        BY <2>2, CodecSizes DEF Byte
      <4> QED
        BY <4>1, SmallRemainder
    <3> QED
      BY <3>2, <3>3 DEF Read
  <2> HIDE DEF t
  <2>7. v.off = end /\ v.val = value
    BY <2>4, <2>5, <2>6, PartWritten DEF Read
  <2> HIDE DEF v
  <2>8. Ok(b, v) /\ off # Len(b)
    BY <2>2, <2>4, <2>5, <2>7 DEF Ok
  <2>9. rest # ErrBadFrame
    BY ErrBadFrameAssumption DEF TLVRecord
  <2>10. from[off] = IF off = Len(b) THEN <<>>
                     ELSE IF ~Ok(b, v) THEN ErrBadFrame
                     ELSE IF from[v.off] = ErrBadFrame THEN ErrBadFrame
                     ELSE IF \E i \in DOMAIN from[v.off] : from[v.off][i].typ = t.val THEN ErrBadFrame
                     ELSE <<[typ |-> t.val, value |-> v.val]>> \o from[v.off]
    BY DEF NextTLV, t, v
  <2>11. from[off] = <<rec>> \o rest
    BY <1>1, <2>6, <2>7, <2>8, <2>9, <2>10
  <2> HIDE DEF rec
  <2> QED
    BY <2>1, <2>11
<1> QED
  BY <1>2, <1>3

\* The value of a type's record is what was put under it, flattened.
LEMMA FlattenOne ==
  ASSUME NEW s \in Bytes
  PROVE  FlattenSeq(<<s>>) = s
<1>1. <<>> \in Seq(Bytes) /\ <<s>> = Append(<<>>, s)
  OBVIOUS
<1>2. FlattenSeq(<<s>>) = <<>> \o s
  BY <1>1, FlattenAppend, FlattenEmpty
<1> QED
  BY <1>2, ConcatEmptySeq DEF Bytes

LEMMA FlattenTwo ==
  ASSUME NEW s \in Bytes, NEW t \in Bytes
  PROVE  FlattenSeq(<<s, t>>) = s \o t
<1>1. <<s>> \in Seq(Bytes) /\ <<s, t>> = Append(<<s>>, t)
  OBVIOUS
<1> QED
  BY <1>1, FlattenAppend, FlattenOne

LEMMA TLVsOfRecords ==
  ASSUME NEW w \in Seq(Word(KeySize)), NEW r \in Seq(Word(KeySize)), NEW tlvs,
         tlvs = Records(TLVLoadedWritable, w) \o Records(TLVLoadedReadonly, r)
  PROVE  /\ TLV(tlvs, TLVLoadedWritable) = FlattenSeq(w)
         /\ TLV(tlvs, TLVLoadedReadonly) = FlattenSeq(r)
<1> DEFINE fw == FlattenSeq(w)
           fr == FlattenSeq(r)
           recW == [typ |-> 1, value |-> fw]
           recR == [typ |-> 2, value |-> fr]
           Value(type) == [i \in DOMAIN tlvs |-> IF tlvs[i].typ = type THEN tlvs[i].value ELSE <<>>]
<1>1. /\ fw \in Bytes /\ fr \in Bytes /\ <<>> \in Bytes
      /\ (w = <<>> => fw = <<>>) /\ (r = <<>> => fr = <<>>)
  <2>1. w \in Seq(Bytes) /\ r \in Seq(Bytes)
    BY WordsAreBytes, CodecSizes
  <2>2. <<>> \in Bytes
    BY DEF Bytes
  <2> QED
    BY <2>1, <2>2, FlattenBytes, FlattenEmpty
<1>2. /\ Records(TLVLoadedWritable, w) = IF w = <<>> THEN <<>> ELSE <<recW>>
      /\ Records(TLVLoadedReadonly, r) = IF r = <<>> THEN <<>> ELSE <<recR>>
  BY DEF Records, TLVLoadedWritable, TLVLoadedReadonly
<1>3. TLV(tlvs, TLVLoadedWritable) = FlattenSeq(Value(1))
      /\ TLV(tlvs, TLVLoadedReadonly) = FlattenSeq(Value(2))
  BY DEF TLV, TLVLoadedWritable, TLVLoadedReadonly
<1>4. /\ recW.typ = 1 /\ recW.value = fw
      /\ recR.typ = 2 /\ recR.value = fr
  OBVIOUS
<1> HIDE DEF fw, fr, recW, recR
<1>5. \A s \in Bytes : FlattenSeq(<<s>>) = s /\ s \o <<>> = s /\ <<>> \o s = s
  BY FlattenOne, ConcatEmptySeq DEF Bytes
<1>6. CASE w = <<>> /\ r = <<>>
  <2>1. tlvs = <<>>
    BY <1>2, <1>6, ConcatEmptySeq
  <2>2. Value(1) = <<>> /\ Value(2) = <<>>
    BY <2>1
  <2> HIDE DEF Value
  <2> QED
    BY <1>1, <1>3, <1>6, <2>2, FlattenEmpty DEF fw, fr
<1>7. CASE w = <<>> /\ r # <<>>
  <2>1. tlvs = <<recR>>
    BY <1>2, <1>7, ConcatEmptySeq
  <2>2. Value(1) = <<<<>>>> /\ Value(2) = <<fr>>
    BY <1>4, <2>1
  <2> HIDE DEF Value
  <2> QED
    BY <1>1, <1>3, <1>5, <1>7, <2>2 DEF fw, fr
<1>8. CASE w # <<>> /\ r = <<>>
  <2>1. tlvs = <<recW>>
    BY <1>2, <1>8, ConcatEmptySeq
  <2>2. Value(1) = <<fw>> /\ Value(2) = <<<<>>>>
    BY <1>4, <2>1
  <2> HIDE DEF Value
  <2> QED
    BY <1>1, <1>3, <1>5, <1>8, <2>2 DEF fw, fr
<1>9. CASE w # <<>> /\ r # <<>>
  <2>1. tlvs = <<recW, recR>>
    <3> DEFINE S == {recW, recR}
               u == <<recW>> \o <<recR>>
    <3>1. <<recW>> \in Seq(S) /\ <<recR>> \in Seq(S)
      OBVIOUS
    <3>2. u \in Seq(S) /\ Len(u) = 2 /\ u[1] = recW /\ u[2] = recR
      BY <3>1, ConcatProperties
    <3> HIDE DEF u, S
    <3>3. u = <<recW, recR>>
      BY <3>2
    <3> QED
      BY <1>2, <1>9, <3>3 DEF u
  <2>2. Value(1) = <<fw, <<>>>> /\ Value(2) = <<<<>>, fr>>
    BY <1>4, <2>1
  <2> HIDE DEF Value
  <2>3. FlattenSeq(Value(1)) = fw \o <<>> /\ FlattenSeq(Value(2)) = <<>> \o fr
    BY <1>1, <2>2, FlattenTwo
  <2> QED
    BY <1>1, <1>3, <1>5, <2>3 DEF fw, fr
<1> QED
  BY <1>6, <1>7, <1>8, <1>9

\* Addresses that were flattened are cut at the same places.
LEMMA Unflattened ==
  ASSUME NEW addrs \in Seq(Word(KeySize))
  PROVE  /\ Len(FlattenSeq(addrs)) % KeySize = 0
         /\ unflatten32(FlattenSeq(addrs)) = addrs
<1> DEFINE v == FlattenSeq(addrs)
           n == Len(addrs)
<1>1. /\ addrs \in Seq(Bytes) /\ n \in Nat /\ v \in Bytes /\ KeySize \in Nat \ {0}
      /\ addrs = [i \in 1 .. n |-> addrs[i]]
      /\ \A i \in 1 .. n : Len(addrs[i]) = KeySize
  <2>1. \A w \in Word(KeySize) : Len(w) = KeySize
    BY CodecSizes DEF Word
  <2>2. addrs \in Seq(Bytes)
    BY WordsAreBytes, CodecSizes
  <2> QED
    BY <2>1, <2>2, FlattenBytes, CodecSizes
<1>2. PICK f : /\ f[0] = <<>>
               /\ \A i \in 1 .. n : f[i] = f[i - 1] \o addrs[i]
               /\ v = f[n]
  BY <1>1, FlattenSteps DEF Bytes
<1> HIDE DEF v
<1>3. Holds(v, 0, f[n])
  BY <1>1, <1>2 DEF Holds, Bytes
<1>4. \A i \in 1 .. n : /\ Len(f[i]) = Len(f[i - 1]) + KeySize
                        /\ Holds(v, 0 + Len(f[i - 1]), addrs[i])
  <2>1. addrs \in Seq(Bytes) /\ v \in Bytes /\ 0 \in Nat
    BY <1>1
  <2>2. \A i \in 1 .. n : /\ Len(f[i]) = Len(f[i - 1]) + Len(addrs[i])
                          /\ Holds(v, 0 + Len(f[i - 1]), addrs[i])
    BY <1>2, <1>3, <2>1, FlattenHolds
  <2> QED
    BY <1>1, <2>2
<1> HIDE DEF n
<1> DEFINE S == {i \in 0 .. n : Len(f[i]) = i * KeySize}
<1>5. 0 \in S
  BY <1>1, <1>2
<1>6. \A i \in 1 .. n : i - 1 \in S => i \in S
  <2> TAKE i \in 1 .. n
  <2> HAVE i - 1 \in S
  <2>1. (i - 1) * KeySize + KeySize = i * KeySize /\ i \in 0 .. n
    BY <1>1
  <2>2. Len(f[i]) = i * KeySize
    BY <1>4, <2>1
  <2> QED
    BY <2>1, <2>2
<1>7. \A i \in 0 .. n : Len(f[i]) = i * KeySize
  <2>1. \A i \in 0 .. n : i \in S
    <3> HIDE DEF S
    <3> QED
      BY <1>1, <1>5, <1>6, Induction
  <2> QED
    BY <2>1
<1>8. Len(v) = n * KeySize
  BY <1>1, <1>2, <1>7
<1>9. Len(v) % KeySize = 0 /\ Len(v) \div KeySize = n
  <2>1. 0 + KeySize * n = n * KeySize
    BY <1>1
  <2>2. KeySize \in Nat /\ KeySize > 0 /\ 0 \in Nat /\ 0 < KeySize /\ n \in Nat
    BY <1>1
  <2>3. (0 + KeySize * n) % KeySize = 0 /\ (0 + KeySize * n) \div KeySize = n
    BY <2>2, QuotientIsUnique
  <2> QED
    BY <1>8, <2>1, <2>3
<1>10. ASSUME NEW i \in 1 .. n
       PROVE  SubSeq(v, (i - 1) * KeySize + 1, i * KeySize) = addrs[i]
  <2> DEFINE o == (i - 1) * KeySize
  <2>1. o \in Nat /\ i - 1 \in 0 .. n /\ o + KeySize = i * KeySize
    BY <1>1
  <2> HIDE DEF o
  <2>2. Holds(v, o, addrs[i])
    <3>1. Len(f[i - 1]) = o
      BY <1>7, <2>1 DEF o
    <3> QED
      BY <1>4, <2>1, <3>1
  <2>3. take(v, o, KeySize) = Read(o + KeySize, addrs[i])
    <3>1. Len(addrs[i]) = KeySize
      BY <1>1
    <3> QED
      BY <1>1, <2>2, <3>1, TakeWritten
  <2>4. take(v, o, KeySize) = Read(o + KeySize, SubSeq(v, o + 1, o + KeySize))
    <3>1. o + KeySize <= Len(v)
      BY <1>1, <2>2 DEF Holds
    <3> QED
      BY <3>1 DEF take
  <2>5. SubSeq(v, o + 1, o + KeySize) = addrs[i]
    BY <2>3, <2>4 DEF Read
  <2> QED
    BY <2>1, <2>5 DEF o
<1>11. unflatten32(v) = [i \in 1 .. n |-> addrs[i]]
  BY <1>9, <1>10 DEF unflatten32
<1> QED
  BY <1>1, <1>9, <1>11 DEF v

LEMMA SelfHolds ==
  ASSUME NEW b \in Bytes
  PROVE  Holds(b, 0, b)
BY DEF Holds, Bytes

\* The trailer of a frame that was written, after its body.
TrailerAt(b, off, mid, w, r) ==
  /\ Len(b) <= Base * Base
  /\ Holds(b, off, putTLV(TLVLoadedWritable, w))
  /\ mid = off + Len(putTLV(TLVLoadedWritable, w))
  /\ Holds(b, mid, putTLV(TLVLoadedReadonly, r))
  /\ Len(b) = mid + Len(putTLV(TLVLoadedReadonly, r))

LEMMA TrailerWritten ==
  ASSUME NEW b \in Bytes, NEW off \in Nat, NEW mid \in Nat,
         NEW w \in Seq(Word(KeySize)), NEW r \in Seq(Word(KeySize)),
         TrailerAt(b, off, mid, w, r)
  PROVE  parseTLVs(b, off) = Records(TLVLoadedWritable, w) \o Records(TLVLoadedReadonly, r)
<1> DEFINE recsW == Records(TLVLoadedWritable, w)
           recsR == Records(TLVLoadedReadonly, r)
<1>0. TLVLoadedWritable \in Byte /\ TLVLoadedReadonly \in Byte
  BY CodecSizes DEF Byte, TLVLoadedWritable, TLVLoadedReadonly
<1>1. /\ Len(b) \in Nat /\ off <= mid /\ mid <= Len(b)
  BY DEF TrailerAt, Holds, Bytes
<1>2. PICK from : /\ \A o \in off .. Len(b) : from[o] = NextTLV(b, o, from)
                  /\ parseTLVs(b, off) = from[off]
  <2>1. off \in 0 .. Len(b)
    BY <1>1
  <2> QED
    BY <2>1, ParseDefined
<1>3. /\ from[off] = NextTLV(b, off, from) /\ from[mid] = NextTLV(b, mid, from)
      /\ from[Len(b)] = NextTLV(b, Len(b), from)
  BY <1>1, <1>2
<1>4. from[Len(b)] = <<>>
  BY <1>3 DEF NextTLV
<1>5. recsR \in Seq(TLVRecord) /\ \A i \in DOMAIN recsR : recsR[i].typ = 2
  <2>1. r \in Seq(Bytes) /\ 2 \in Byte
    BY WordsAreBytes, CodecSizes DEF Byte
  <2>2. FlattenSeq(r) \in Bytes
    BY <2>1, FlattenBytes
  <2> DEFINE value == FlattenSeq(r)
             rec == [typ |-> 2, value |-> value]
  <2>3. recsR = IF r = <<>> THEN <<>> ELSE <<rec>>
    BY DEF Records, TLVLoadedReadonly
  <2> HIDE DEF value, recsR
  <2>4. rec \in TLVRecord /\ rec.typ = 2
    BY <2>1, <2>2 DEF TLVRecord, value
  <2> HIDE DEF rec
  <2> QED
    BY <2>3, <2>4
<1>6. from[mid] = recsR
  <2> DEFINE end == Len(b)
  <2>1. end = mid + Len(putTLV(TLVLoadedReadonly, r)) /\ from[end] = <<>>
    BY <1>4 DEF TrailerAt
  <2>2. from[end] \in Seq(TLVRecord) /\ \A i \in DOMAIN from[end] : from[end][i].typ # TLVLoadedReadonly
    BY <2>1
  <2>3. RecordAt(b, mid, TLVLoadedReadonly, r, from, from[end])
    BY <1>0, <1>3, <2>1, <2>2 DEF RecordAt, TrailerAt
  <2> HIDE DEF end
  <2>4. from[mid] = Records(TLVLoadedReadonly, r) \o from[end]
    <3>1. RecordsFollow(mid, TLVLoadedReadonly, r, from, from[end])
      BY <2>3, RecordsWritten
    <3> QED
      BY <3>1 DEF RecordsFollow
  <2>5. recsR \o <<>> = recsR
    BY <1>5, ConcatEmptySeq
  <2> QED
    BY <2>1, <2>4, <2>5
<1>7. from[off] = recsW \o recsR
  <2>1. /\ from[mid] \in Seq(TLVRecord)
        /\ \A i \in DOMAIN from[mid] : from[mid][i].typ # TLVLoadedWritable
    BY <1>5, <1>6 DEF TLVLoadedWritable
  <2>2. RecordAt(b, off, TLVLoadedWritable, w, from, from[mid])
    BY <1>0, <1>3, <2>1 DEF RecordAt, TrailerAt
  <2>3. from[off] = Records(TLVLoadedWritable, w) \o from[mid]
    BY <2>2, RecordsWritten DEF RecordsFollow
  <2> QED
    BY <1>6, <2>3
<1> QED
  BY <1>2, <1>7

-----------------------------------------------------------------------------
\* A frame that was written.
LEMMA RestHolds ==
  ASSUME NEW src \in Bytes, Len(src) >= 2, NEW off \in Nat, NEW s, Holds(src, 2 + off, s)
  PROVE  Holds(SubSeq(src, 3, Len(src)), off, s)
<1> DEFINE rest == SubSeq(src, 3, Len(src))
<1>1. /\ rest \in Bytes
      /\ Len(rest) = Len(src) - 2
      /\ \A i \in 1 .. Len(rest) : rest[i] = src[2 + i]
  BY RestOfFrame
<1> HIDE DEF rest
<1>2. /\ s \in Bytes
      /\ (2 + off) + Len(s) <= Len(src)
      /\ \A i \in 1 .. Len(s) : src[(2 + off) + i] = s[i]
  BY DEF Holds
<1>3. Len(s) \in Nat /\ Len(src) \in Nat
  BY <1>2 DEF Bytes
<1>4. off + Len(s) <= Len(rest)
  BY <1>1, <1>2, <1>3
<1>5. ASSUME NEW i \in 1 .. Len(s)
      PROVE  rest[off + i] = s[i]
  <2>1. off + i \in 1 .. Len(rest) /\ 2 + (off + i) = (2 + off) + i
    BY <1>3, <1>4
  <2> QED
    BY <1>1, <1>2, <2>1
<1> QED
  BY <1>2, <1>4, <1>5 DEF Holds, rest

\* What follows the two bytes of a frame's type and flags.
RestAt(rest, in) ==
  LET body == EncodeFullTx(in.Tx)
      w    == putTLV(TLVLoadedWritable, in.LoadedWritable)
      r    == putTLV(TLVLoadedReadonly, in.LoadedReadonly)
  IN  /\ Holds(rest, 0, body)
      /\ Holds(rest, Len(body), w)
      /\ Holds(rest, Len(body) + Len(w), r)
      /\ Len(rest) = (Len(body) + Len(w)) + Len(r)

LEMMA FrameParts ==
  ASSUME NEW in \in Inputs
  PROVE  LET src == EncodeFrameTx(in)
         IN  /\ src \in Bytes /\ Len(src) >= 2
             /\ src[1] = MsgTx
             /\ src[2] = IF in.AltIncomplete THEN FlagAltIncomplete ELSE 0
             /\ RestAt(SubSeq(src, 3, Len(src)), in)
<1> DEFINE src == EncodeFrameTx(in)
           flag == IF in.AltIncomplete THEN FlagAltIncomplete ELSE 0
           start == <<MsgTx, flag>>
           body == EncodeFullTx(in.Tx)
           w == putTLV(TLVLoadedWritable, in.LoadedWritable)
           r == putTLV(TLVLoadedReadonly, in.LoadedReadonly)
           rest == SubSeq(src, 3, Len(src))
           u == start \o body
           v == u \o w
<1>1. start \in Bytes /\ Len(start) = 2 /\ start[1] = MsgTx /\ start[2] = flag
  <2>1. MsgTx \in Byte /\ FlagAltIncomplete \in Byte /\ 0 \in Byte
    BY CodecSizes DEF Byte, MsgTx, FlagAltIncomplete
  <2> QED
    BY <2>1 DEF Bytes
<1>2. body \in Bytes /\ w \in Bytes /\ r \in Bytes
  <2>1. /\ in.Tx \in FullTx
        /\ in.LoadedWritable \in Seq(Word(KeySize)) /\ in.LoadedReadonly \in Seq(Word(KeySize))
    BY InputsAssumption
  <2> QED
    BY <2>1, BodyIsBytes, TrailerIsBytes
<1>3. src \in Bytes /\ src = v \o r
  BY FrameIsBytes DEF EncodeFrameTx
<1> HIDE DEF src, start, body, w, r
<1>4. /\ u \in Bytes /\ Len(u) = 2 + Len(body)
      /\ v \in Bytes /\ Len(v) = (2 + Len(body)) + Len(w)
      /\ Len(body) \in Nat /\ Len(w) \in Nat /\ Len(r) \in Nat
  <2>1. u \in Bytes /\ Len(u) = 2 + Len(body)
    BY <1>1, <1>2, ConcatBytes
  <2> HIDE DEF u
  <2>2. v \in Bytes /\ Len(v) = (2 + Len(body)) + Len(w)
    BY <1>2, <2>1, ConcatBytes
  <2> QED
    BY <1>2, <2>1, <2>2 DEF Bytes, u
<1>5. /\ Holds(src, 0, v) /\ Holds(src, Len(v), r) /\ Len(src) = Len(v) + Len(r)
  <2> HIDE DEF v
  <2>1. Holds(src, 0, v \o r)
    BY <1>3, SelfHolds
  <2>2. src \in Bytes /\ v \in Bytes /\ r \in Bytes
    BY <1>2, <1>3, <1>4
  <2> QED
    <3>1. Holds(src, 0, v) /\ Holds(src, Len(v), r) /\ Len(v \o r) = Len(v) + Len(r)
      BY <2>1, <2>2, Peel
    <3> QED
      BY <1>3, <3>1
<1>6. Holds(src, 0, u) /\ Holds(src, Len(u), w)
  <2> HIDE DEF u
  <2> QED
    BY <1>2, <1>3, <1>4, <1>5, Peel
<1>7. Holds(src, 0, start) /\ Holds(src, 2, body)
  BY <1>1, <1>2, <1>3, <1>6, Peel
<1> HIDE DEF u, v
<1>8. src[1] = MsgTx /\ src[2] = flag
  <2>1. \A i \in 1 .. 2 : src[0 + i] = start[i]
    BY <1>1, <1>7 DEF Holds
  <2> QED
    BY <1>1, <2>1
<1>9. Len(src) >= 2 /\ Len(src) = ((2 + Len(body)) + Len(w)) + Len(r) /\ Len(src) \in Nat
  BY <1>4, <1>5
<1>10. RestAt(rest, in)
  <2>1. Len(rest) = Len(src) - 2
    BY <1>3, <1>9, RestOfFrame
  <2>2. Holds(rest, 0, body)
    <3>1. Holds(src, 2 + 0, body)
      BY <1>7
    <3> QED
      BY <1>3, <1>9, <3>1, RestHolds
  <2>3. Holds(rest, Len(body), w)
    BY <1>3, <1>4, <1>6, <1>9, RestHolds
  <2>4. Holds(rest, Len(body) + Len(w), r)
    <3>1. /\ Len(v) = 2 + (Len(body) + Len(w))
          /\ Len(body) + Len(w) \in Nat
      BY <1>4
    <3> QED
      BY <1>3, <1>5, <1>9, <3>1, RestHolds
  <2> HIDE DEF rest
  <2>5. Len(rest) = (Len(body) + Len(w)) + Len(r)
    BY <1>4, <1>9, <2>1
  <2> QED
    BY <2>2, <2>3, <2>4, <2>5 DEF RestAt, body, w, r
<1> QED
  BY <1>3, <1>8, <1>9, <1>10 DEF src

LEMMA OverCap ==
  ASSUME NEW b \in Bytes, Len(b) > MaxFullTxBody
  PROVE  ~ Ok(b, decodeFullTxPrefix(b))
<1>1. decodeFullTxPrefix(b) = Bad(b)
  BY DEF decodeFullTxPrefix
<1> QED
  BY <1>1, BadIsBad

LEMMA RestWritten ==
  ASSUME NEW b \in Bytes, NEW in \in Inputs, RestAt(b, in), Len(b) <= MaxFullTxBody
  PROVE  decodeTx(IF in.AltIncomplete THEN FlagAltIncomplete ELSE 0, b)
           = [in EXCEPT !.Tx = Narrowed(@)]
<1> DEFINE flag == IF in.AltIncomplete THEN FlagAltIncomplete ELSE 0
           body == EncodeFullTx(in.Tx)
           w == in.LoadedWritable
           r == in.LoadedReadonly
           read == decodeFullTxPrefix(b)
           off == Len(body)
           mid == off + Len(putTLV(TLVLoadedWritable, w))
           tlvs == parseTLVs(b, off)
           valueW == TLV(tlvs, TLVLoadedWritable)
           valueR == TLV(tlvs, TLVLoadedReadonly)
<1>1. /\ in.Tx \in FullTx /\ in.AltIncomplete \in BOOLEAN
      /\ w \in Seq(Word(KeySize)) /\ r \in Seq(Word(KeySize))
      /\ in = [Tx |-> in.Tx, AltIncomplete |-> in.AltIncomplete,
               LoadedWritable |-> w, LoadedReadonly |-> r]
  BY InputsAssumption
<1>2. /\ Holds(b, 0, body)
      /\ Holds(b, off, putTLV(TLVLoadedWritable, w))
      /\ Holds(b, mid, putTLV(TLVLoadedReadonly, r))
      /\ Len(b) = mid + Len(putTLV(TLVLoadedReadonly, r))
      /\ off \in Nat /\ mid \in Nat
  BY DEF RestAt, Holds
<1>3. read = Read(off, Narrowed(in.Tx))
  BY <1>1, <1>2, PrefixWritten
<1>4. off <= Len(b)
  <2>1. Len(body) \in Nat /\ Len(b) \in Nat /\ 0 + Len(body) <= Len(b)
    BY <1>2 DEF Holds, Bytes
  <2> QED
    BY <2>1
<1> HIDE DEF body, w, r
<1>5. Ok(b, read) /\ read.off = off /\ read.val = Narrowed(in.Tx)
  <2> HIDE DEF read
  <2> QED
    BY <1>3, <1>4 DEF Read, Ok
<1> HIDE DEF read
<1>6. tlvs = Records(TLVLoadedWritable, w) \o Records(TLVLoadedReadonly, r)
  <2>1. TrailerAt(b, off, mid, w, r)
    BY <1>2 DEF TrailerAt, MaxFullTxBody
  <2> HIDE DEF off, mid
  <2> QED
    BY <1>1, <1>2, <2>1, TrailerWritten
<1> HIDE DEF off, mid
<1>7. valueW = FlattenSeq(w) /\ valueR = FlattenSeq(r)
  <2> HIDE DEF tlvs
  <2> QED
    BY <1>1, <1>6, TLVsOfRecords
<1>8. tlvs # ErrBadFrame
  <2>1. \A type \in {TLVLoadedWritable, TLVLoadedReadonly}, addrs \in Seq(Word(KeySize)) :
          Records(type, addrs) \in Seq(TLVRecord)
    <3> TAKE type \in {TLVLoadedWritable, TLVLoadedReadonly}, addrs \in Seq(Word(KeySize))
    <3>1. addrs \in Seq(Bytes) /\ type \in Byte
      BY WordsAreBytes, CodecSizes DEF Byte, TLVLoadedWritable, TLVLoadedReadonly
    <3>2. FlattenSeq(addrs) \in Bytes
      BY <3>1, FlattenBytes
    <3>3. [typ |-> type, value |-> FlattenSeq(addrs)] \in TLVRecord
      BY <3>1, <3>2 DEF TLVRecord
    <3> QED
      BY <3>3 DEF Records
  <2>2. Records(TLVLoadedWritable, w) \in Seq(TLVRecord)
        /\ Records(TLVLoadedReadonly, r) \in Seq(TLVRecord)
    BY <1>1, <2>1
  <2>3. tlvs \in Seq(TLVRecord)
    <3> HIDE DEF tlvs
    <3> QED
      BY <1>6, <2>2, ConcatProperties
  <2> HIDE DEF tlvs
  <2> QED
    BY <2>3, ErrBadFrameAssumption DEF TLVRecord
<1>9. /\ Len(valueW) % KeySize = 0 /\ unflatten32(valueW) = w
      /\ Len(valueR) % KeySize = 0 /\ unflatten32(valueR) = r
  <2> HIDE DEF valueW, valueR
  <2> QED
    BY <1>1, <1>7, Unflattened
<1>10. flag \in {0, FlagAltIncomplete} /\ (flag = FlagAltIncomplete) = in.AltIncomplete
  BY <1>1 DEF FlagAltIncomplete
<1>11. decodeTx(flag, b) =
         IF flag \notin {0, FlagAltIncomplete} \/ ~Ok(b, read) THEN ErrBadFrame
         ELSE IF tlvs = ErrBadFrame THEN ErrBadFrame
         ELSE IF Len(valueW) % KeySize # 0 \/ Len(valueR) % KeySize # 0 THEN ErrBadFrame
         ELSE [Tx |-> read.val, AltIncomplete |-> flag = FlagAltIncomplete,
               LoadedWritable |-> unflatten32(valueW), LoadedReadonly |-> unflatten32(valueR)]
  <2> HIDE DEF flag, off
  <2> QED
    BY <1>5 DEF decodeTx, read
<1> HIDE DEF flag, tlvs, valueW, valueR
<1>12. decodeTx(flag, b) = [Tx |-> Narrowed(in.Tx), AltIncomplete |-> in.AltIncomplete,
                            LoadedWritable |-> w, LoadedReadonly |-> r]
  BY <1>5, <1>8, <1>9, <1>10, <1>11
<1>13. [in EXCEPT !.Tx = Narrowed(@)]
         = [Tx |-> Narrowed(in.Tx), AltIncomplete |-> in.AltIncomplete,
            LoadedWritable |-> w, LoadedReadonly |-> r]
  BY <1>1
<1> QED
  BY <1>12, <1>13 DEF flag

LEMMA FrameWritten ==
  ASSUME NEW in \in Inputs
  PROVE  DecodeFrame(EncodeFrameTx(in)) =
           IF Len(EncodeFrameTx(in)) - 2 > MaxFullTxBody THEN ErrBadFrame
           ELSE [in EXCEPT !.Tx = Narrowed(@)]
<1> DEFINE src == EncodeFrameTx(in)
           flag == IF in.AltIncomplete THEN FlagAltIncomplete ELSE 0
           rest == SubSeq(src, 3, Len(src))
           out == [in EXCEPT !.Tx = Narrowed(@)]
<1>1. /\ src \in Bytes /\ Len(src) >= 2 /\ src[1] = MsgTx /\ src[2] = flag
      /\ RestAt(rest, in)
  BY FrameParts
<1> HIDE DEF src, flag
<1>2. rest \in Bytes /\ Len(rest) = Len(src) - 2
  BY <1>1, RestOfFrame
<1>3. DecodeFrame(src) = decodeTx(flag, rest)
  <2>1. ~ (Len(src) < 2)
    BY <1>1 DEF Bytes
  <2> QED
    BY <1>1, <2>1 DEF DecodeFrame
<1> HIDE DEF rest
<1>4. MaxFullTxBody \in Nat /\ Len(rest) \in Nat
  BY <1>2, CodecSizes DEF MaxFullTxBody, Bytes
<1>5. CASE Len(rest) > MaxFullTxBody
  <2>1. ~ Ok(rest, decodeFullTxPrefix(rest))
    BY <1>2, <1>5, OverCap
  <2>2. decodeTx(flag, rest) = ErrBadFrame
    BY <2>1 DEF decodeTx
  <2> QED
    BY <1>2, <1>3, <1>5, <2>2 DEF src
<1>6. CASE ~ (Len(rest) > MaxFullTxBody)
  <2>1. Len(rest) <= MaxFullTxBody
    BY <1>4, <1>6
  <2> HIDE DEF out
  <2>2. decodeTx(flag, rest) = out
    BY <1>1, <1>2, <2>1, RestWritten DEF flag, out
  <2>3. DecodeFrame(src) = IF Len(src) - 2 > MaxFullTxBody THEN ErrBadFrame ELSE out
    BY <1>2, <1>3, <1>6, <2>2
  <2> QED
    BY <2>3 DEF src, out
<1> QED
  BY <1>5, <1>6

LEMMA BodyAlone ==
  ASSUME NEW ft \in FullTx
  PROVE  DecodeFullTx(EncodeFullTx(ft)) =
           IF Len(EncodeFullTx(ft)) > MaxFullTxBody THEN ErrBadFrame ELSE Narrowed(ft)
<1> DEFINE b == EncodeFullTx(ft)
           read == decodeFullTxPrefix(b)
<1>1. b \in Bytes /\ Len(b) \in Nat /\ MaxFullTxBody \in Nat /\ Holds(b, 0, b)
  BY BodyIsBytes, SelfHolds, CodecSizes DEF MaxFullTxBody, Bytes
<1>2. CASE Len(b) > MaxFullTxBody
  <2>1. ~ Ok(b, read)
    BY <1>1, <1>2, OverCap
  <2> QED
    BY <1>2, <2>1 DEF DecodeFullTx
<1>3. CASE ~ (Len(b) > MaxFullTxBody)
  <2>1. Len(b) <= MaxFullTxBody
    BY <1>1, <1>3
  <2>2. read = Read(Len(b), Narrowed(ft))
    BY <1>1, <2>1, PrefixWritten
  <2>3. Ok(b, read) /\ read.off = Len(b) /\ read.val = Narrowed(ft)
    <3> HIDE DEF read, b
    <3> QED
      BY <1>1, <2>2 DEF Read, Ok
  <2>4. DecodeFullTx(b) = Narrowed(ft)
    BY <2>3 DEF DecodeFullTx
  <2> QED
    BY <1>3, <2>4
<1> QED
  BY <1>2, <1>3

-----------------------------------------------------------------------------
\* What the variables keep of the calls: the frame is that of the input unless a
\* step altered it, and what was decoded is what the frame decodes to.
HistoryInv ==
  /\ wire \in Bytes
  /\ input \in Inputs
  /\ ~altered => wire = EncodeFrameTx(input)
  /\ decoded # None => decoded = DecodeFrame(wire)

LEMMA HistoryInit == Init => HistoryInv
<1> SUFFICES ASSUME Init
             PROVE  HistoryInv
  OBVIOUS
<1>1. wire \in Bytes
  BY FrameIsBytes DEF Init
<1> QED
  BY <1>1 DEF Init, HistoryInv

LEMMA HistoryStep == HistoryInv /\ CodecInv' /\ [Next]_vars => HistoryInv'
<1> SUFFICES ASSUME HistoryInv, CodecInv', [Next]_vars
             PROVE  HistoryInv'
  OBVIOUS
<1>1. wire' \in Bytes
  BY DEF CodecInv
<1>2. CASE Alter
  BY <1>1, <1>2 DEF Alter, HistoryInv
<1>3. CASE Decode
  BY <1>1, <1>3 DEF Decode, HistoryInv
<1>4. CASE UNCHANGED vars
  BY <1>4 DEF vars, HistoryInv
<1> QED
  BY <1>2, <1>3, <1>4 DEF Next

\* EncodeFullTx, putTLV, decodeTx, parseTLVs, DecodeFullTx: whatever the transaction,
\* its lists, parts and loaded addresses, what EncodeFrameTx wrote and what
\* EncodeFullTx wrote decode to what was encoded, up to the fields that are narrowed
\* to a byte, or to ErrBadFrame because they are over the cap; no count or length
\* that wrapped is ever read back.
THEOREM RoundTrip == Spec => []EncodeThenDecode
<1>1. HistoryInv => EncodeThenDecode
  <2> SUFFICES ASSUME HistoryInv, ~altered, decoded # None
               PROVE  EncodeThenDecode
    BY DEF EncodeThenDecode
  <2>1. input \in Inputs /\ wire = EncodeFrameTx(input) /\ decoded = DecodeFrame(wire)
    BY DEF HistoryInv
  <2>2. input.Tx \in FullTx
    BY <2>1, InputsAssumption
  <2>3. decoded = IF Len(wire) - 2 > MaxFullTxBody THEN ErrBadFrame
                  ELSE [input EXCEPT !.Tx = Narrowed(@)]
    BY <2>1, FrameWritten
  <2>4. DecodeFullTx(EncodeFullTx(input.Tx)) =
          IF Len(EncodeFullTx(input.Tx)) > MaxFullTxBody THEN ErrBadFrame ELSE Narrowed(input.Tx)
    BY <2>2, BodyAlone
  <2> QED
    BY <2>3, <2>4 DEF EncodeThenDecode
<1>2. CodecInv /\ HistoryInv /\ [Next]_vars => (CodecInv /\ HistoryInv)'
  BY CodecStep, HistoryStep
<1> QED
  BY <1>1, <1>2, CodecInit, HistoryInit, PTL DEF Spec

\* CanonicalFrame, for the frames a run decodes: what EncodeFrameTx returned, and that
\* with one byte changed, cut short, or with a byte added.
THEOREM Canonical == Spec => []BodyIsCanonical
<1>1. HistoryInv => BodyIsCanonical
  <2> SUFFICES ASSUME HistoryInv, Accepted
               PROVE  BodyIsCanonical
    BY DEF BodyIsCanonical
  <2>1. wire \in Bytes /\ decoded = DecodeFrame(wire)
        /\ DecodeFrame(wire) \notin {ErrBadFrame, OtherFrame}
    BY DEF HistoryInv, Accepted
  <2> QED
    BY <2>1, CanonicalFrame DEF BodyIsCanonical
<1>2. CodecInv /\ HistoryInv /\ [Next]_vars => (CodecInv /\ HistoryInv)'
  BY CodecStep, HistoryStep
<1> QED
  BY <1>1, <1>2, CodecInit, HistoryInit, PTL DEF Spec
=============================================================================
