------------------------------ MODULE Cinterop ------------------------------
(***************************************************************************)
(* C structs and C functions in scripts (Std/Cinterop): struct_info        *)
(* describes a struct, its instances are userdata whose memory get_field   *)
(* and set_field access, and bind_fn makes a C function callable through   *)
(* dyncall.  Its call VM is reset when a call begins, and left out.        *)
(*                                                                         *)
(* Memory is a function of addresses within an object.  A byte is blank or *)
(* the k-th of a value of a type; how values are made of bytes is left     *)
(* out.  An object of a script, or a light pointer, is its own address.    *)
(***************************************************************************)
EXTENDS Integers, Sequences

Numeric == {"int", "uint", "short", "ushort", "long", "ulong", "char", "uchar", "float", "double"}
Types == Numeric \cup {"bool", "void", "void*", "char*"}

CONSTANTS
  Objects,      \* userdata that new_instance can return
  Nil, Null,    \* the value that is none, and the null pointer
  Numbers, Truths, Pointers, Texts,   \* the script values of each type
  SizeOf,       \* sizeof, and 0 for void
  Zero,         \* what zero bytes are read as
  Rounded,      \* what a cast may make of a number: any value where C++ leaves it undefined
  Layouts,      \* arguments of struct_info
  Signatures,   \* arguments of bind_fn, with names of types; a struct is one made before
  Indices,      \* array indices
  MaxCalls      \* bound: calls by scripts

Values == {Nil, Null} \cup Numbers \cup Truths \cup Pointers \cup Texts

ASSUME CinteropAssumption ==
  /\ Nil \notin Objects /\ Objects \cap Values = {}
  /\ SizeOf \in [Types -> Nat] /\ Zero \in [Types -> Values]
  /\ Rounded \in [Numeric -> [Numbers -> SUBSET Numbers]]
  /\ \A t \in Numeric : \A x \in Numbers : \A v \in Rounded[t][x] : v \in Rounded[t][v]
  /\ \A layout \in Layouts :
       /\ layout.size \in Nat
       /\ \A x \in DOMAIN layout.fields :
            layout.fields[x].memory_offset \in Seq(Int) /\ layout.fields[x].array_size \in Seq(Int)
  /\ Signatures \subseteq Seq([type : STRING, info : Nat]) \ {<<>>}
  /\ Indices \subseteq Int /\ MaxCalls \in Nat

VARIABLES
  infos,      \* the struct_info objects: size and fields
  objects,    \* the instances: info and memory
  bindings,   \* what bind_fn has made: the type of the result and of each parameter
  phase,      \* "running", "aborted" by an assertion, or which access was undefined
  calls,
  stored,     \* history: per object and element, the value stored last
  broken      \* history: the rules that scripts have broken and nothing checks

vars == <<infos, objects, bindings, phase, calls, stored, broken>>

\* The rules: the elements of a struct are within its size and apart; data is an instance of
\* the struct it is used with; no index of get_field is negative; a function returns a struct
\* only if it fits a register; a type is not nil.
Rules == {"layout", "instance", "index", "result", "type"}
Wild == {"wild write", "wild read", "wild copy", "wild result", "wild type"}
-----------------------------------------------------------------------------
\* to_field_info: an offset is needed, an array size is not.
Described(field) == field.type \in Types /\ field.memory_offset # <<>>
to_field_info(field) ==
  [type |-> field.type, offset |-> field.memory_offset[1],
   count |-> IF field.array_size = <<>> THEN 1 ELSE field.array_size[1]]
Address(f, n) == f.offset + n * SizeOf[f.type]

\* The elements of a struct's fields, and those that have memory for themselves.
Elements(info) ==
  {e \in (DOMAIN info.fields) \X Indices : 0 <= e[2] /\ e[2] < info.fields[e[1]].count}
Field(info, e) == info.fields[e[1]]
Begin(info, e) == Address(Field(info, e), e[2])
End(info, e) == Begin(info, e) + SizeOf[Field(info, e).type]
Sound(info) ==
  /\ \A e \in Elements(info) : 0 <= Begin(info, e) /\ End(info, e) <= info.size
  /\ \A d, e \in Elements(info) : d # e => End(info, d) <= Begin(info, e) \/ End(info, e) <= Begin(info, d)

\* Bytes, and what an object holds.
Span(size) == 0 .. size - 1
Blank == [type |-> "void", value |-> Nil, byte |-> 0]
Byte(type, value, k) == [type |-> type, value |-> value, byte |-> k]
Made == {o \in Objects : objects[o].info # 0}
InfoOf(o) == infos[objects[o].info]
Within(o, f, n) ==
  o \in Made /\ 0 <= Address(f, n) /\ Address(f, n) + SizeOf[f.type] <= InfoOf(o).size
Holds(memory, f, n, value) ==
  \A k \in Span(SizeOf[f.type]) : memory[Address(f, n) + k] = Byte(f.type, value, k)
IsBlank(memory, f, n) ==
  \A k \in Span(SizeOf[f.type]) : memory[Address(f, n) + k] = Blank
OverwrittenBeyond(memory, f, n, value) ==   \* mutant
  [a \in DOMAIN memory |->
     IF Address(f, n) <= a /\ a <= Address(f, n) + SizeOf[f.type]
     THEN Byte(f.type, value, a - Address(f, n)) ELSE memory[a]]
Overwritten(memory, f, n, value) ==
  [a \in DOMAIN memory |->
     IF Address(f, n) <= a /\ a < Address(f, n) + SizeOf[f.type]
     THEN Byte(f.type, value, a - Address(f, n)) ELSE memory[a]]
-----------------------------------------------------------------------------
Call == phase = "running" /\ calls < MaxCalls /\ calls' = calls + 1
Refused == UNCHANGED <<infos, objects, bindings, phase, stored>>
GoesWild(how) == phase' = how /\ UNCHANGED <<infos, objects, bindings, stored>>
Breaks(rule, how) == broken' = broken \cup (IF how THEN {rule} ELSE {})

\* create_struct_info: dyncall asserts that it knows the types of all fields, where
\* assertions are compiled in.
struct_info(layout) ==
  LET names == DOMAIN layout.fields
      info == [size |-> layout.size, fields |-> [x \in names |-> to_field_info(layout.fields[x])]]
  IN /\ Call
     /\ IF \E x \in names : ~Described(layout.fields[x]) THEN Refused /\ UNCHANGED broken
        ELSE /\ infos' = Append(infos, info)
             /\ phase' \in {"running"} \cup
                  (IF \E x \in names : layout.fields[x].type \in {"void", "char*"} THEN {"aborted"} ELSE {})
             /\ Breaks("layout", ~Sound(info))
             /\ UNCHANGED <<objects, bindings, stored>>

Cleared(info) == [a \in Span(info.size) |-> Blank]
newinstance(o, s, memory, values) ==
  /\ o \notin Made
  /\ objects' = [objects EXCEPT ![o] = [info |-> s, memory |-> memory]]
  /\ stored' = [stored EXCEPT ![o] = values]
Zeroes(info) == [e \in Elements(info) |-> Zero[Field(info, e).type]]
new_instance(s) ==
  /\ Call
  /\ \E o \in Objects : newinstance(o, s, Cleared(infos[s]), Zeroes(infos[s]))
  /\ UNCHANGED <<infos, bindings, phase, broken>>

\* Nothing checks that the data is an instance of the struct.
Foreign(s, data) == data \notin Made \/ objects[data].info # s

\* get_field and push_field, which does not look at negative indices; void has no memory.
get_field(s, data, key, n) ==
  /\ Call
  /\ IF key \notin DOMAIN infos[s].fields \/ n >= infos[s].fields[key].count
     THEN Refused /\ UNCHANGED broken
     ELSE LET f == infos[s].fields[key]
          IN /\ broken' = broken \cup (IF n < 0 THEN {"index"} ELSE {})
                                 \cup (IF Foreign(s, data) THEN {"instance"} ELSE {})
             /\ IF f.type = "void" \/ Within(data, f, n) THEN UNCHANGED phase
                                                       ELSE phase' = "wild read"
             /\ UNCHANGED <<infos, objects, bindings, stored>>

\* set_field: what each type makes of a script value, nothing if it is an error.
Taken(type, value) ==
  CASE type \in Numeric -> IF value \in Numbers THEN Rounded[type][value] ELSE {}
    [] type = "bool" -> {value} \cap Truths
    [] type = "void*" -> {IF value \in Pointers THEN value ELSE Null}
    [] type \in {"void", "char*"} -> {}
Store(o, key, n, value) ==
  LET f == InfoOf(o).fields[key]
  IN /\ objects' = [objects EXCEPT ![o].memory = Overwritten(@, f, n, value)]
     /\ stored' = [stored EXCEPT ![o][<<key, n>>] = value]
StoreForeign(o, f, n, value) ==
  objects' = [objects EXCEPT ![o].memory = Overwritten(@, f, n, value)] /\ UNCHANGED stored
OutOfRangeAbove(f, n) == n >= f.count   \* mutant
OutOfRangeLate(f, n) == n < 0 \/ n > f.count   \* mutant
OutOfRange(f, n) == n < 0 \/ n >= f.count
set_field(s, data, key, value, n) ==
  /\ Call
  /\ IF \/ key \notin DOMAIN infos[s].fields \/ OutOfRange(infos[s].fields[key], n)
        \/ Taken(infos[s].fields[key].type, value) = {}
     THEN Refused /\ UNCHANGED broken
     ELSE LET f == infos[s].fields[key]
          IN /\ Breaks("instance", Foreign(s, data))
             /\ IF Within(data, f, n)
                THEN /\ \E v \in Taken(f.type, value) :
                          IF Foreign(s, data) THEN StoreForeign(data, f, n, v) ELSE Store(data, key, n, v)
                     /\ UNCHANGED <<infos, bindings, phase>>
                ELSE GoesWild("wild write")
-----------------------------------------------------------------------------
\* A type in a signature: the name of one, or a struct_info.
Struct(t) == t.type = "struct"
Known(t) == t.type \in Types \/ (Struct(t) /\ t.info \in DOMAIN infos)

\* new_function_binding.  To learn whether an argument is a struct_info, its metatable is
\* compared with that of the type: before the first struct_info there is none, and a nil
\* that is also the last argument is taken for one.  (The name of the function comes after
\* the type of its result.)
Misread(signature, i) ==
  /\ signature[i].type = "nil" /\ infos = <<>>
  /\ Len(signature) > 1 /\ signature[Len(signature)].type = "nil"
Wrong(signature) ==
  {i \in DOMAIN signature : ~Known(signature[i]) \/ (i > 1 /\ signature[i].type = "void")}
First(S) == CHOOSE i \in S : \A j \in S : i <= j
InRegister(size) == size \in {1, 2, 4, 8}
HasNil(signature) == \E i \in DOMAIN signature : signature[i].type = "nil"
ReturnsWide(signature) ==
  Struct(signature[1]) /\ Known(signature[1]) /\ ~InRegister(infos[signature[1].info].size)
bind_fn(signature) ==
  /\ Call
  /\ \A i \in DOMAIN signature : Struct(signature[i]) => Known(signature[i])
  /\ broken' = broken \cup (IF HasNil(signature) THEN {"type"} ELSE {})
                      \cup (IF ReturnsWide(signature) THEN {"result"} ELSE {})
  /\ \/ /\ Wrong(signature) = {}
        /\ bindings' = Append(bindings, signature)
        /\ UNCHANGED <<infos, objects, phase, stored>>
     \/ /\ Wrong(signature) # {} /\ Misread(signature, First(Wrong(signature)))
        /\ GoesWild("wild type")
     \/ /\ Wrong(signature) # {} /\ ~Misread(signature, First(Wrong(signature)))
        /\ Refused

\* call_binding.  What an argument may become for the function; a struct is copied.
Prefix(memory, size) == [a \in Span(size) |-> memory[a]]
Readable(t, data) == data \in Made /\ infos[t.info].size <= InfoOf(data).size
Pushed(t, value) ==
  CASE Struct(t) -> IF Readable(t, value) THEN {Prefix(objects[value].memory, infos[t.info].size)} ELSE {}
    [] t.type = "char*" -> {value} \cap (Texts \cup Numbers)
    [] t.type = "void*" -> {value} \cap (Pointers \cup Made)
    [] OTHER -> Taken(t.type, value)

\* The first argument that cannot be pushed ends the call: with an error, or, if it is to be
\* copied, by reading memory it does not have.
Parameters(b) == Len(bindings[b]) - 1
Meant(b, args) == [i \in 1 .. Parameters(b) |-> Pushed(bindings[b][i + 1], args[i])]
Failing(b, args) == {i \in 1 .. Parameters(b) : Meant(b, args)[i] = {}}
AnyForeign(b, args) ==
  \E i \in 1 .. Parameters(b) :
    Struct(bindings[b][i + 1]) /\ Foreign(bindings[b][i + 1].info, args[i])

call_fails(b, args) ==
  /\ Call /\ Failing(b, args) # {}
  /\ Breaks("instance", AnyForeign(b, args))
  /\ IF Struct(bindings[b][First(Failing(b, args)) + 1]) THEN GoesWild("wild copy") ELSE Refused

\* A C function may store into the objects that it is given by address.
Handed(b, args) == {args[i] : i \in {j \in 1 .. Parameters(b) : bindings[b][j + 1].type = "void*"}} \cap Made
CalleeStores(b, args) ==
  \/ UNCHANGED <<objects, stored>>
  \/ \E o \in Handed(b, args) : \E e \in Elements(InfoOf(o)) :
       LET f == Field(InfoOf(o), e)
       IN Within(o, f, e[2]) /\ \E x \in Values : \E v \in Taken(f.type, x) : Store(o, e[1], e[2], v)

call(b, args) ==
  /\ Call /\ ~Struct(bindings[b][1]) /\ Failing(b, args) = {}
  /\ Breaks("instance", AnyForeign(b, args))
  /\ CalleeStores(b, args)
  /\ UNCHANGED <<infos, bindings, phase>>

\* The struct that a function returns: all zeroes, or something in one of its elements.  If
\* it does not fit a register, the function expects its address before its arguments, which
\* dcBeginCallAggr would have put there; as nothing calls that, it stores the struct through
\* its first argument and takes each of the others for the one before it.
call_struct(b, args) ==
  LET s == bindings[b][1].info
  IN /\ Call /\ Struct(bindings[b][1]) /\ Failing(b, args) = {}
     /\ Breaks("instance", AnyForeign(b, args))
     /\ IF ~InRegister(infos[s].size) THEN GoesWild("wild result")
        ELSE /\ \E o \in Objects :
                  \/ newinstance(o, s, Cleared(infos[s]), Zeroes(infos[s]))
                  \/ \E e \in Elements(infos[s]) : \E x \in Values :
                       LET f == Field(infos[s], e)
                       IN /\ 0 <= Begin(infos[s], e) /\ End(infos[s], e) <= infos[s].size
                          /\ \E v \in Taken(f.type, x) :
                               newinstance(o, s, Overwritten(Cleared(infos[s]), f, e[2], v),
                                           [Zeroes(infos[s]) EXCEPT ![e] = v])
             /\ UNCHANGED <<infos, bindings, phase>>
-----------------------------------------------------------------------------
Init ==
  /\ infos = <<>> /\ bindings = <<>>
  /\ objects = [o \in Objects |-> [info |-> 0, memory |-> <<>>]]
  /\ phase = "running" /\ calls = 0 /\ broken = {}
  /\ stored = [o \in Objects |-> <<>>]

Data == Made \cup {Nil}
Keys == UNION {DOMAIN layout.fields : layout \in Layouts}
Arguments == Values \cup Made

Next ==
  \/ \E layout \in Layouts : struct_info(layout)
  \/ \E s \in DOMAIN infos :
       \/ new_instance(s)
       \/ \E data \in Data, key \in Keys, n \in Indices :
            get_field(s, data, key, n) \/ \E value \in Values : set_field(s, data, key, value, n)
  \/ \E signature \in Signatures : bind_fn(signature)
  \/ \E b \in DOMAIN bindings : \E args \in [1 .. Parameters(b) -> Arguments] :
       call_fails(b, args) \/ call(b, args) \/ call_struct(b, args)

Spec == Init /\ [][Next]_vars
-----------------------------------------------------------------------------
\* Types: a byte of an object is blank or of a value that its type can have, and objects,
\* bindings and histories belong to struct_infos that exist.
Bytes == {Blank} \cup {Byte(t, v, k) : t \in Types, v \in Values, k \in Nat}
CinteropTypeOK ==
  /\ phase \in {"running", "aborted"} \cup Wild /\ calls \in 0 .. MaxCalls /\ broken \subseteq Rules
  /\ \A o \in Made : /\ objects[o].info \in DOMAIN infos
                     /\ DOMAIN objects[o].memory = Span(InfoOf(o).size)
                     /\ DOMAIN stored[o] = Elements(InfoOf(o))
  /\ \A o \in Made : \A a \in DOMAIN objects[o].memory :
       LET c == objects[o].memory[a]
       IN c = Blank \/ (c.value \in Taken(c.type, c.value) /\ c.byte \in Span(SizeOf[c.type]))
  /\ \A b \in DOMAIN bindings : \A i \in DOMAIN bindings[b] : Known(bindings[b][i])

Tidy == broken \cap {"layout", "instance"} = {}

\* An element of an instance is read as what was stored in it last, by a script or by a C
\* function, or as zero, whatever is stored in other elements and objects in between
\* (Struct_info.cpp:53-149): as long as fields do not overlap and accesses use the
\* struct_info of the instance.  Negative indices and calls that fail do not matter.
FieldsHold ==
  Tidy /\ phase = "running" => \A o \in Made : \A e \in Elements(InfoOf(o)) :
    LET f == Field(InfoOf(o), e)
    IN \/ Holds(objects[o].memory, f, e[2], stored[o][e])
       \/ stored[o][e] = Zero[f.type] /\ IsBlank(objects[o].memory, f, e[2])

\* Each access that leaves the memory of an object has a reason that nothing checks, and
\* which: a store only a struct or an instance that is not what it should be, whatever the
\* indices (Struct_info.cpp:53-100); a load also a negative index (102-104); an argument
\* only a foreign instance, even of a struct whose fields overlap (binding.cpp:81-83); a
\* result only a function bound to return a wide struct (132-137); a type only nil
\* (165-189).  It claims nothing of scripts that have given such a reason.
MemoryIsSafe ==
  /\ phase = "wild write" => ~Tidy
  /\ phase = "wild read" => ~Tidy \/ "index" \in broken
  /\ phase = "wild copy" => "instance" \in broken
  /\ phase = "wild result" => "result" \in broken
  /\ phase = "wild type" => "type" \in broken
=============================================================================
