----------------------------- MODULE MCCinterop -----------------------------
(***************************************************************************)
(* Instances of Cinterop.  `one` fits every type, `many` is beyond a char. *)
(* Pair has an array, at its end; the fields of Mixed overlap and one ends *)
(* beyond its size; Wide does not fit a register.                          *)
(***************************************************************************)
EXTENDS Cinterop, TLC

CONSTANTS zero, one, many, light

At(type, offset, array) == [type |-> type, memory_offset |-> offset, array_size |-> array]
Pair == [size |-> 4, fields |-> [a |-> At("short", <<0>>, <<>>), b |-> At("char", <<2>>, <<2>>)]]
Mixed == [size |-> 2, fields |-> [a |-> At("char", <<0>>, <<2>>), b |-> At("short", <<1>>, <<>>)]]
Link == [size |-> 8, fields |-> [a |-> At("void*", <<0>>, <<>>)]]
Text == [size |-> 8, fields |-> [a |-> At("char*", <<0>>, <<>>)]]
Wide == [size |-> 12, fields |-> [a |-> At("short", <<8>>, <<>>)]]
NoOffset == [size |-> 2, fields |-> [a |-> At("short", <<>>, <<>>)]]

MCNumbers == {zero, one, many}
MCPointers == {light}
MCSizeOf ==
  [t \in Types |-> CASE t \in {"char", "uchar", "bool"} -> 1
                     [] t \in {"short", "ushort"} -> 2
                     [] t \in {"int", "uint", "long", "ulong", "float"} -> 4
                     [] t \in {"double", "void*", "char*"} -> 8
                     [] t = "void" -> 0]
MCZero ==
  [t \in Types |-> IF t \in Numeric THEN zero ELSE IF t = "void*" THEN Null ELSE Nil]
MCRounded ==
  [t \in Numeric |-> [v \in MCNumbers |->
     IF t \in {"char", "uchar"} /\ v = many THEN {zero, one} ELSE {v}]]

Named(type) == [type |-> type, info |-> 0]
Earliest == [type |-> "struct", info |-> 1]
MCSignatures ==
  {<<Named("void"), Earliest, Named("char")>>, <<Earliest, Named("void*")>>,
   <<Named("char"), Named("nil")>>, <<Named("int"), Named("void")>>}

AllLayouts == {Pair, Mixed, Link, Text, Wide, NoOffset}
MCIndices == -1 .. 2
ObjectsAlike == Permutations(Objects)
=============================================================================
