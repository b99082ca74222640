\* Words of four bits.
SPECIFICATION Spec
CONSTANTS
  Width = 4
  Pow2 <- Powers
  BytesPerWord = 4
  Undefined_p = 13
INVARIANTS TypeOK SumsExact ChainsExact ProductsExact LengthsAgree
