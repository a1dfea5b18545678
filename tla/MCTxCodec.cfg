SPECIFICATION Spec
CONSTANTS
  Base = 6
  SlotSize = 1
  HashSize = 1
  SigSize = 1
  KeySize = 1
  PriceSize = 1
  LimitSize = 1
  computeBudgetProgramID <- Budget
  None = None
  ErrBadFrame = ErrBadFrame
  OtherFrame = OtherFrame
  Inputs <- MCInputs
INVARIANTS EncodeThenDecode BodyIsCanonical DerivedFieldsAgree
CHECK_DEADLOCK FALSE
