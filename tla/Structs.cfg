SPECIFICATION Spec
CONSTANTS
  Objects = {o1, o2}
  Nil = Nil
  Null = Null
  zero = zero
  one = one
  many = many
  light = light
  Numbers <- MCNumbers
  Truths = {}
  Pointers <- MCPointers
  Texts = {}
  SizeOf <- MCSizeOf
  Zero <- MCZero
  Rounded <- MCRounded
  Layouts <- AllLayouts
  Signatures <- MCSignatures
  Indices <- MCIndices
  MaxCalls = 6
INVARIANTS CinteropTypeOK FieldsHold MemoryIsSafe
SYMMETRY ObjectsAlike
CHECK_DEADLOCK FALSE
