SPECIFICATION Spec
CONSTANTS
  io = io
  files = files
  reader = reader
  file = file
  plain = plain
  read = read
  free = free
  import_fn = import_fn
  other = other
  None = None
  Names = {read, free, import_fn, other}
  ImportFn = import_fn
  AtomValues = 4
  Types = {reader, file}
  Methods <- MCMethods
  Libraries = {io, files}
  Contains <- MCContains
  Plain = {plain}
  MaxStates = 2
  MaxCalls = 6
INVARIANTS
  LazyTypesTypeOK
  AtomsAreNames
  MethodsAreFound
  CompilerSeesTypes
PROPERTIES
  TagsStay
CHECK_DEADLOCK FALSE
