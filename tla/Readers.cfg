SPECIFICATION StreamsSpec
CONSTANTS
  Readers = {r1, r2}
  Writers = {w1, w2}
  Newline = "nl"
  Contents <- MCContents
  Chunks <- MCChunks
  Delimiters <- MCDelimiters
  Counts <- MCCounts
  Offsets <- MCOffsets
  MaxLength = 6
  MaxCalls = 6
INVARIANTS ScriptsKnowWhereTheyAre WritesArrive
CHECK_DEADLOCK FALSE
SYMMETRY Alike
