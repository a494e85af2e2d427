--------------------------- MODULE CinteropProofs ---------------------------
(***************************************************************************)
(* No struct access leaves an object without its reason, and elements keep *)
(* what was stored in them, for all layouts, sizes, values and numbers of  *)
(* objects.                                                                *)
(*                                                                         *)
(* The invariant says of each object that it is as long as its struct, and *)
(* that its bytes are of values of their types and what was stored last;   *)
(* of each struct that its elements are within its size and apart, while   *)
(* no script broke the rules on layouts and instances.                     *)
(***************************************************************************)
EXTENDS Cinterop, SequenceLemmas

Fields == [type : Types, offset : Int, count : Int]
FieldMaps == UNION {[D -> Fields] : D \in SUBSET Keys}
Infos == [size : Nat, fields : FieldMaps]
\* A byte of a value that its type can have.
Sane(type, v) == v \in Values /\ v \in Taken(type, v)
SaneBytes ==
  {Blank} \cup {c \in Bytes : Sane(c.type, c.value) /\ c.byte \in Span(SizeOf[c.type])}
Memories == UNION {[Span(n) -> SaneBytes] : n \in Nat}
StoredMaps == UNION {[E -> Values] : E \in SUBSET (Keys \X Indices)}

Keeps(info, memory, values) ==
  \A e \in Elements(info) :
    LET f == Field(info, e)
    IN \/ Holds(memory, f, e[2], values[e])
       \/ values[e] = Zero[f.type] /\ IsBlank(memory, f, e[2])

InfosInv == infos \in Seq(Infos) /\ (Tidy => \A s \in DOMAIN infos : Sound(infos[s]))
ObjectsInv ==
  /\ objects \in [Objects -> [info : Nat, memory : Memories]]
  /\ stored \in [Objects -> StoredMaps]
  /\ \A o \in Made : /\ objects[o].info \in DOMAIN infos
                     /\ objects[o].memory \in [Span(InfoOf(o).size) -> SaneBytes]
                     /\ stored[o] \in [Elements(InfoOf(o)) -> Values]
  /\ Tidy => \A o \in Made : Keeps(InfoOf(o), objects[o].memory, stored[o])
BindingsInv ==
  /\ bindings \in Seq(Signatures)
  /\ \A b \in DOMAIN bindings :
       /\ \A i \in DOMAIN bindings[b] : Known(bindings[b][i])
       /\ ReturnsWide(bindings[b]) => "result" \in broken
SafeInv ==
  /\ broken \subseteq Rules /\ phase \in {"running", "aborted"} \cup Wild /\ calls \in 0 .. MaxCalls
  /\ MemoryIsSafe

Inv == InfosInv /\ ObjectsInv /\ BindingsInv /\ SafeInv

\* A rule that was broken stays broken.
MoreBroken == broken \subseteq broken' /\ broken' \subseteq Rules /\ (Tidy' => Tidy)
LEMMA Breaking ==
  ASSUME Inv, NEW R \in SUBSET Rules, broken' = broken \cup R
  PROVE  MoreBroken
BY DEF Inv, SafeInv, MoreBroken, Tidy
LEMMA BreakingOne ==
  ASSUME Inv, NEW rule \in Rules, NEW how, Breaks(rule, how)
  PROVE  MoreBroken /\ (how => rule \in broken')
<1>1. (IF how THEN {rule} ELSE {}) \in SUBSET Rules
  OBVIOUS
<1> QED
  BY <1>1, Breaking DEF Breaks
LEMMA NothingBroken ==
  ASSUME Inv, UNCHANGED broken
  PROVE  MoreBroken
BY DEF Inv, SafeInv, MoreBroken, Tidy
-----------------------------------------------------------------------------
LEMMA ElementFacts ==
  ASSUME NEW info \in Infos, NEW e \in Elements(info)
  PROVE  /\ Field(info, e) \in Fields /\ e[2] \in Int /\ e = <<e[1], e[2]>>
         /\ Begin(info, e) \in Int /\ Address(Field(info, e), e[2]) = Begin(info, e)
         /\ SizeOf[Field(info, e).type] \in Nat
         /\ End(info, e) = Begin(info, e) + SizeOf[Field(info, e).type]
<1>1. e[1] \in DOMAIN info.fields /\ e[2] \in Indices /\ e = <<e[1], e[2]>>
  BY DEF Elements
<1>2. e[2] \in Int
  BY <1>1, CinteropAssumption
<1>3. Field(info, e) \in Fields
  BY <1>1 DEF Field, Infos, FieldMaps
<1>4. SizeOf[Field(info, e).type] \in Nat
  BY <1>3, CinteropAssumption DEF Fields
<1>5. Begin(info, e) \in Int
  BY <1>2, <1>3, <1>4 DEF Begin, Address, Fields
<1> QED
  BY <1>1, <1>2, <1>3, <1>4, <1>5 DEF Begin, End

\* Where a write ends up, and what it leaves alone.
LEMMA OverwrittenType ==
  ASSUME NEW D, NEW memory \in [D -> SaneBytes], D \subseteq Int, NEW f \in Fields, NEW n,
         Address(f, n) \in Int, NEW v, Sane(f.type, v)
  PROVE  Overwritten(memory, f, n, v) \in [D -> SaneBytes]
<1>1. ASSUME NEW a \in D, Address(f, n) <= a, a < Address(f, n) + SizeOf[f.type]
      PROVE  Byte(f.type, v, a - Address(f, n)) \in SaneBytes
  <2> DEFINE c == Byte(f.type, v, a - Address(f, n))
  <2>1. f.type \in Types /\ SizeOf[f.type] \in Nat
    BY CinteropAssumption DEF Fields
  <2>2. a - Address(f, n) \in Nat /\ a - Address(f, n) \in Span(SizeOf[f.type])
    BY <1>1, <2>1 DEF Span
  <2>3. c \in Bytes
    BY <2>1, <2>2 DEF Bytes, Sane
  <2>4. c.type = f.type /\ c.value = v /\ c.byte = a - Address(f, n)
    BY DEF Byte
  <2> HIDE DEF c
  <2>5. Sane(c.type, c.value) /\ c.byte \in Span(SizeOf[c.type])
    BY <2>2, <2>4
  <2> QED
    BY <2>3, <2>5 DEF SaneBytes, c
<1> HIDE DEF SaneBytes
<1> QED
  BY <1>1 DEF Overwritten

LEMMA SpanInt ==
  ASSUME NEW n \in Nat
  PROVE  Span(n) \subseteq Int
BY DEF Span

LEMMA KeepsAfterStore ==
  ASSUME NEW info \in Infos, Sound(info), NEW memory \in [Span(info.size) -> SaneBytes],
         NEW values \in [Elements(info) -> Values], Keeps(info, memory, values),
         NEW e \in Elements(info), NEW v \in Values
  PROVE  Keeps(info, Overwritten(memory, Field(info, e), e[2], v), [values EXCEPT ![e] = v])
<1> DEFINE f == Field(info, e)
           m == Overwritten(memory, f, e[2], v)
<1>1. /\ Begin(info, e) \in Int /\ Address(f, e[2]) = Begin(info, e)
      /\ SizeOf[f.type] \in Nat /\ End(info, e) = Begin(info, e) + SizeOf[f.type]
      /\ 0 <= Begin(info, e) /\ End(info, e) <= info.size
  BY ElementFacts DEF Sound
<1>2. info.size \in Nat /\ DOMAIN m = Span(info.size)
  BY DEF Infos, Overwritten
<1>3. \A k \in Span(SizeOf[f.type]) : m[Begin(info, e) + k] = Byte(f.type, v, k)
  <2> SUFFICES ASSUME NEW k \in Span(SizeOf[f.type])
               PROVE  m[Begin(info, e) + k] = Byte(f.type, v, k)
    OBVIOUS
  <2> DEFINE a == Begin(info, e) + k
  <2>1. k \in Int /\ 0 <= k /\ k < SizeOf[f.type]
    BY <1>1 DEF Span
  <2>2. a \in Span(info.size) /\ Begin(info, e) <= a /\ a < Begin(info, e) + SizeOf[f.type]
        /\ a - Begin(info, e) = k
    BY <1>1, <1>2, <2>1 DEF Span
  <2> QED
    BY <1>1, <2>2 DEF Overwritten
<1>4. ASSUME NEW d \in Elements(info), d # e, NEW k \in Span(SizeOf[Field(info, d).type])
      PROVE  m[Begin(info, d) + k] = memory[Begin(info, d) + k]
  <2> DEFINE a == Begin(info, d) + k
  <2>1. /\ Begin(info, d) \in Int /\ SizeOf[Field(info, d).type] \in Nat
        /\ End(info, d) = Begin(info, d) + SizeOf[Field(info, d).type]
        /\ 0 <= Begin(info, d) /\ End(info, d) <= info.size
        /\ End(info, d) <= Begin(info, e) \/ End(info, e) <= Begin(info, d)
    BY <1>4, ElementFacts DEF Sound
  <2>2. k \in Int /\ 0 <= k /\ k < SizeOf[Field(info, d).type]
    BY <2>1 DEF Span
  <2>3. a \in Span(info.size) /\ ~(Begin(info, e) <= a /\ a < Begin(info, e) + SizeOf[f.type])
    BY <1>1, <1>2, <2>1, <2>2 DEF Span
  <2> QED
    BY <1>1, <2>3 DEF Overwritten
<1> HIDE DEF m
<1> SUFFICES ASSUME NEW d \in Elements(info)
             PROVE  \/ Holds(m, Field(info, d), d[2], [values EXCEPT ![e] = v][d])
                    \/ /\ [values EXCEPT ![e] = v][d] = Zero[Field(info, d).type]
                       /\ IsBlank(m, Field(info, d), d[2])
  BY DEF Keeps, m
<1>5. CASE d = e
  BY <1>1, <1>3, <1>5 DEF Holds
<1>6. CASE d # e
  <2>1. [values EXCEPT ![e] = v][d] = values[d]
    BY <1>6
  <2>2. Address(Field(info, d), d[2]) = Begin(info, d)
    BY ElementFacts
  <2>3. CASE Holds(memory, Field(info, d), d[2], values[d])
    BY <1>4, <1>6, <2>1, <2>2, <2>3 DEF Holds
  <2>4. CASE values[d] = Zero[Field(info, d).type] /\ IsBlank(memory, Field(info, d), d[2])
    BY <1>4, <1>6, <2>1, <2>2, <2>4 DEF IsBlank
  <2> QED
    BY <2>3, <2>4 DEF Keeps
<1> QED
  BY <1>5, <1>6

LEMMA KeepsFresh ==
  ASSUME NEW info \in Infos
  PROVE  /\ Cleared(info) \in [Span(info.size) -> SaneBytes]
         /\ Zeroes(info) \in [Elements(info) -> Values]
         /\ Sound(info) => Keeps(info, Cleared(info), Zeroes(info))
<1>1. Cleared(info) \in [Span(info.size) -> SaneBytes]
  BY DEF Cleared, SaneBytes
<1>2. Zeroes(info) \in [Elements(info) -> Values]
  BY ElementFacts, CinteropAssumption DEF Zeroes, Fields
<1>3. ASSUME Sound(info), NEW e \in Elements(info)
      PROVE  IsBlank(Cleared(info), Field(info, e), e[2])
  <2>1. /\ Begin(info, e) \in Int /\ Address(Field(info, e), e[2]) = Begin(info, e)
        /\ SizeOf[Field(info, e).type] \in Nat
        /\ End(info, e) = Begin(info, e) + SizeOf[Field(info, e).type]
        /\ 0 <= Begin(info, e) /\ End(info, e) <= info.size /\ info.size \in Nat
    BY <1>3, ElementFacts DEF Sound, Infos
  <2>2. ASSUME NEW k \in Span(SizeOf[Field(info, e).type])
        PROVE  Begin(info, e) + k \in Span(info.size)
    BY <2>1, <2>2 DEF Span
  <2> QED
    BY <2>1, <2>2 DEF IsBlank, Cleared
<1> QED
  BY <1>1, <1>2, <1>3 DEF Keeps, Zeroes

\* What a script value becomes in memory is a value that stays what it is.
LEMMA TakenValues ==
  ASSUME NEW type \in Types, NEW value \in Values, NEW v \in Taken(type, value)
  PROVE  Sane(type, v)
<1>1. CASE type \in Numeric
  <2>1. value \in Numbers /\ v \in Rounded[type][value]
    BY <1>1 DEF Taken, Numeric
  <2>2. v \in Numbers /\ v \in Rounded[type][v]
    BY <1>1, <2>1, CinteropAssumption
  <2> QED
    BY <1>1, <2>2 DEF Taken, Values, Sane, Numeric
<1>2. CASE type = "bool"
  BY <1>2 DEF Taken, Values, Sane, Numeric
<1>3. CASE type = "void*"
  BY <1>3 DEF Taken, Values, Sane, Numeric
<1>4. CASE type \in {"void", "char*"}
  BY <1>4 DEF Taken, Numeric
<1> QED
  BY <1>1, <1>2, <1>3, <1>4 DEF Types

-----------------------------------------------------------------------------
\* The parts of the invariant, under the steps that touch them.
LEMMA InfoOfMade ==
  ASSUME Inv, NEW o \in Made
  PROVE  /\ InfoOf(o) \in Infos /\ objects[o].info \in DOMAIN infos
         /\ objects[o] \in [info : Nat, memory : Memories] /\ o \in Objects
         /\ objects[o].memory \in [Span(InfoOf(o).size) -> SaneBytes]
         /\ stored[o] \in [Elements(InfoOf(o)) -> Values]
         /\ Tidy => /\ Sound(InfoOf(o))
                         /\ Keeps(InfoOf(o), objects[o].memory, stored[o])
BY DEF Inv, InfosInv, ObjectsInv, InfoOf, Made

LEMMA InMaps ==
  ASSUME NEW info \in Infos
  PROVE  /\ [Span(info.size) -> SaneBytes] \subseteq Memories
         /\ [Elements(info) -> Values] \subseteq StoredMaps
<1>1. info.size \in Nat
  BY DEF Infos
<1>2. info.fields \in FieldMaps
  BY DEF Infos
<1>3. DOMAIN info.fields \subseteq Keys
  BY <1>2 DEF FieldMaps
<1>4. Elements(info) \subseteq Keys \X Indices
  BY <1>3 DEF Elements
<1> QED
  BY <1>1, <1>4 DEF Memories, StoredMaps

LEMMA MemoryExcept ==
  ASSUME NEW object \in [info : Nat, memory : Memories], NEW m
  PROVE  [object EXCEPT !.memory = m] = [info |-> object.info, memory |-> m]
OBVIOUS

\* An object o gets the memory m and the values w, the others stay.
LEMMA ObjectChanges ==
  ASSUME Inv, UNCHANGED infos, Tidy' => Tidy, NEW o \in Objects, NEW s \in DOMAIN infos,
         NEW m \in [Span(infos[s].size) -> SaneBytes], NEW w \in [Elements(infos[s]) -> Values],
         objects' = [objects EXCEPT ![o] = [info |-> s, memory |-> m]],
         stored' = [stored EXCEPT ![o] = w],
         Tidy' => Keeps(infos[s], m, w)
  PROVE  ObjectsInv'
<1>1. infos[s] \in Infos /\ s \in Nat
  BY DEF Inv, InfosInv
<1>2. objects' \in [Objects -> [info : Nat, memory : Memories]]
  BY <1>1, InMaps DEF Inv, ObjectsInv
<1>3. stored' \in [Objects -> StoredMaps]
  BY <1>1, InMaps DEF Inv, ObjectsInv
<1>4. ASSUME NEW p \in Made'
      PROVE  /\ objects'[p].info \in DOMAIN infos
             /\ objects'[p].memory \in [Span(InfoOf(p)'.size) -> SaneBytes]
             /\ stored'[p] \in [Elements(InfoOf(p)') -> Values]
             /\ Tidy' => Keeps(InfoOf(p)', objects'[p].memory, stored'[p])
  <2>1. CASE p = o
    <3>1. objects'[p] = [info |-> s, memory |-> m] /\ stored'[p] = w
      BY <2>1 DEF Inv, ObjectsInv
    <3> QED
      BY <3>1 DEF InfoOf
  <2>2. CASE p # o
    <3>1. p \in Objects /\ objects'[p] = objects[p] /\ stored'[p] = stored[p] /\ InfoOf(p)' = InfoOf(p)
      BY <2>2 DEF Inv, ObjectsInv, Made, InfoOf
    <3>2. p \in Made
      BY <1>4, <3>1 DEF Made
    <3> QED
      BY <3>1, <3>2, InfoOfMade
  <2> QED
    BY <2>1, <2>2
<1> QED
  BY <1>2, <1>3, <1>4 DEF ObjectsInv

LEMMA StoreStep ==
  ASSUME Inv, UNCHANGED infos, Tidy' => Tidy, NEW o \in Made, NEW key, NEW n,
         <<key, n>> \in Elements(InfoOf(o)), NEW v, Sane(Field(InfoOf(o), <<key, n>>).type, v),
         Store(o, key, n, v)
  PROVE  ObjectsInv'
<1> DEFINE info == InfoOf(o)
           e == <<key, n>>
           m == Overwritten(objects[o].memory, Field(info, e), n, v)
           w == [stored[o] EXCEPT ![e] = v]
<1>1. /\ info \in Infos /\ objects[o].info \in DOMAIN infos /\ o \in Objects
      /\ objects[o] \in [info : Nat, memory : Memories]
      /\ objects[o].memory \in [Span(info.size) -> SaneBytes]
      /\ stored[o] \in [Elements(info) -> Values]
      /\ Tidy => Sound(info) /\ Keeps(info, objects[o].memory, stored[o])
  BY InfoOfMade
<1>2. e \in Elements(info) /\ e[2] = n /\ info.fields[key] = Field(info, e)
  BY DEF Field
<1>3. /\ objects' = [objects EXCEPT ![o].memory = m]
      /\ stored' = [stored EXCEPT ![o][e] = v]
  BY <1>1, <1>2 DEF Store, Inv, ObjectsInv
<1>4. Field(info, e) \in Fields /\ Address(Field(info, e), n) \in Int
  BY <1>1, <1>2, ElementFacts
<1>5. m \in [Span(info.size) -> SaneBytes]
  <2>1. Span(info.size) \subseteq Int
    BY <1>1 DEF Span
  <2> QED
    BY <1>1, <1>4, <2>1, OverwrittenType
<1>6. w \in [Elements(info) -> Values]
  BY <1>1, <1>2 DEF Sane
<1>7. Tidy' => Keeps(info, m, w)
  BY <1>1, <1>2, KeepsAfterStore DEF Sane
<1>8. objects' = [objects EXCEPT ![o] = [info |-> objects[o].info, memory |-> m]]
  <2> HIDE DEF m
  <2> QED
    BY <1>1, <1>3, MemoryExcept
<1>9. stored' = [stored EXCEPT ![o] = w]
  BY <1>3
<1>10. infos[objects[o].info] = info
  BY DEF InfoOf
<1> HIDE DEF m, w, e, info
<1> QED
  BY <1>1, <1>5, <1>6, <1>7, <1>8, <1>9, <1>10, ObjectChanges

LEMMA ForeignStoreStep ==
  ASSUME Inv, UNCHANGED infos, ~Tidy', NEW o \in Made, NEW f \in Fields, NEW n,
         Address(f, n) \in Int, NEW v, Sane(f.type, v), StoreForeign(o, f, n, v)
  PROVE  ObjectsInv'
<1> DEFINE m == Overwritten(objects[o].memory, f, n, v)
<1>1. /\ InfoOf(o) \in Infos /\ objects[o].info \in DOMAIN infos /\ o \in Objects
      /\ objects[o] \in [info : Nat, memory : Memories]
      /\ objects[o].memory \in [Span(InfoOf(o).size) -> SaneBytes]
      /\ stored[o] \in [Elements(InfoOf(o)) -> Values]
  BY InfoOfMade
<1>2. m \in [Span(InfoOf(o).size) -> SaneBytes]
  BY <1>1, SpanInt, OverwrittenType DEF Infos
<1>3. objects' = [objects EXCEPT ![o].memory = m]
  BY DEF StoreForeign
<1>4. objects' = [objects EXCEPT ![o] = [info |-> objects[o].info, memory |-> m]]
  <2> HIDE DEF m
  <2> QED
    BY <1>1, <1>3, MemoryExcept
<1>5. stored' = [stored EXCEPT ![o] = stored[o]]
  BY DEF StoreForeign, Inv, ObjectsInv
<1>6. infos[objects[o].info] = InfoOf(o)
  BY DEF InfoOf
<1> HIDE DEF m
<1> QED
  BY <1>1, <1>2, <1>4, <1>5, <1>6, ObjectChanges

LEMMA NewObjectStep ==
  ASSUME Inv, UNCHANGED infos, Tidy' => Tidy, NEW o \in Objects, NEW s \in DOMAIN infos,
         NEW m \in [Span(infos[s].size) -> SaneBytes], NEW w \in [Elements(infos[s]) -> Values],
         newinstance(o, s, m, w), Tidy => Keeps(infos[s], m, w)
  PROVE  ObjectsInv'
BY ObjectChanges DEF newinstance

LEMMA SameObjects ==
  ASSUME Inv, UNCHANGED <<objects, stored>>, Tidy' => Tidy,
         DOMAIN infos \subseteq DOMAIN infos', \A s \in DOMAIN infos : infos'[s] = infos[s]
  PROVE  ObjectsInv'
<1>1. Made' = Made
  BY DEF Made
<1>2. ASSUME NEW p \in Made
      PROVE  InfoOf(p)' = InfoOf(p) /\ objects[p].info \in DOMAIN infos'
  BY DEF InfoOf, Inv, ObjectsInv
<1> QED
  BY <1>1, <1>2 DEF Inv, ObjectsInv

LEMMA OtherParts ==
  ASSUME Inv, UNCHANGED infos, MoreBroken
  PROVE  InfosInv' /\ (UNCHANGED bindings => BindingsInv')
<1>1. InfosInv'
  BY DEF Inv, InfosInv, MoreBroken
<1>2. ASSUME UNCHANGED bindings
      PROVE  BindingsInv'
  <2>1. ASSUME NEW t
        PROVE  Known(t)' = Known(t) /\ ReturnsWide(t)' = ReturnsWide(t)
    BY DEF Known, Struct, ReturnsWide
  <2> QED
    BY <1>2, <2>1 DEF Inv, BindingsInv, MoreBroken
<1> QED
  BY <1>1, <1>2

\* The parts that are not data, under a call.
LEMMA SafeStep ==
  ASSUME Inv, Call, MoreBroken, phase' \in {"running", "aborted"} \cup Wild, MemoryIsSafe'
  PROVE  SafeInv'
<1>1. calls' \in 0 .. MaxCalls
  BY CinteropAssumption DEF Inv, SafeInv, Call
<1> QED
  BY <1>1 DEF SafeInv, MoreBroken
LEMMA RunningIsSafe ==
  ASSUME Call, UNCHANGED phase
  PROVE  MemoryIsSafe' /\ phase' \in {"running", "aborted"} \cup Wild
BY DEF Call, MemoryIsSafe

\* Calls that change no object.
LEMMA QuietStep ==
  ASSUME Inv, UNCHANGED <<infos, objects, bindings, stored>>, MoreBroken, Call,
         phase' \in {"running", "aborted"} \cup Wild, MemoryIsSafe'
  PROVE  Inv'
<1>1. InfosInv' /\ BindingsInv'
  BY OtherParts
<1>2. ObjectsInv'
  BY SameObjects DEF MoreBroken
<1>3. SafeInv'
  BY SafeStep
<1> QED
  BY <1>1, <1>2, <1>3 DEF Inv

LEMMA RefusedStep ==
  ASSUME Inv, Call, Refused, MoreBroken
  PROVE  Inv'
BY QuietStep, RunningIsSafe DEF Refused

LEMMA WildStep ==
  ASSUME Inv, Call, NEW how \in Wild, GoesWild(how), MoreBroken, MemoryIsSafe'
  PROVE  Inv'
BY QuietStep DEF GoesWild

LEMMA FieldFacts ==
  ASSUME Inv, NEW s \in DOMAIN infos, NEW key \in DOMAIN infos[s].fields, NEW n \in Indices
  PROVE  LET f == infos[s].fields[key]
         IN /\ infos[s] \in Infos /\ f \in Fields /\ n \in Int /\ Address(f, n) \in Int
            /\ SizeOf[f.type] \in Nat
            /\ 0 <= n /\ n < f.count => <<key, n>> \in Elements(infos[s])
<1> DEFINE f == infos[s].fields[key]
<1>1. infos[s] \in Infos
  BY DEF Inv, InfosInv
<1>2. f \in Fields
  BY <1>1 DEF Infos, FieldMaps
<1>3. n \in Int /\ SizeOf[f.type] \in Nat
  BY <1>2, CinteropAssumption DEF Fields
<1>4. Address(f, n) \in Int
  BY <1>2, <1>3 DEF Address, Fields
<1>5. 0 <= n /\ n < f.count => <<key, n>> \in Elements(infos[s])
  BY DEF Elements
<1> QED
  BY <1>1, <1>2, <1>3, <1>4, <1>5

\* An access to an element of an object's own struct stays within it.
LEMMA InRange ==
  ASSUME Inv, Tidy, NEW o \in Made, NEW e \in Elements(InfoOf(o))
  PROVE  Within(o, Field(InfoOf(o), e), e[2])
BY InfoOfMade, ElementFacts DEF Within, Sound
-----------------------------------------------------------------------------
LEMMA StructInfoStep ==
  ASSUME Inv, NEW layout \in Layouts, struct_info(layout)
  PROVE  Inv'
<1> DEFINE names == DOMAIN layout.fields
           info == [size |-> layout.size, fields |-> [x \in names |-> to_field_info(layout.fields[x])]]
<1>1. CASE \E x \in names : ~Described(layout.fields[x])
  BY <1>1, RefusedStep, NothingBroken DEF struct_info
<1>2. CASE \A x \in names : Described(layout.fields[x])
  <2>0. Breaks("layout", ~Sound(info)) /\ "layout" \in Rules
    BY <1>2 DEF struct_info, Rules
  <2>1. /\ infos' = Append(infos, info) /\ MoreBroken /\ (~Sound(info) => ~Tidy')
        /\ phase' \in {"running", "aborted"} /\ UNCHANGED <<objects, bindings, stored>> /\ Call
    <3> HIDE DEF info
    <3>1. MoreBroken /\ (~Sound(info) => "layout" \in broken')
      BY <2>0, BreakingOne
    <3> QED
      BY <1>2, <3>1 DEF struct_info, Tidy, info
  <2>2. ASSUME NEW x \in names
        PROVE  to_field_info(layout.fields[x]) \in Fields
    <3>1. /\ layout.fields[x].type \in Types /\ layout.fields[x].memory_offset # <<>>
          /\ layout.fields[x].memory_offset \in Seq(Int) /\ layout.fields[x].array_size \in Seq(Int)
      BY <1>2, CinteropAssumption DEF Described
    <3>2. /\ layout.fields[x].memory_offset[1] \in Int
          /\ layout.fields[x].array_size # <<>> => layout.fields[x].array_size[1] \in Int
      BY <3>1
    <3> QED
      BY <3>1, <3>2 DEF to_field_info, Fields
  <2>3. info \in Infos
    <3>1. names \subseteq Keys
      BY DEF Keys
    <3>2. info.fields \in FieldMaps
      BY <2>2, <3>1 DEF FieldMaps
    <3> QED
      BY <3>2, CinteropAssumption DEF Infos
  <2> HIDE DEF info
  <2>4. infos' \in Seq(Infos) /\ DOMAIN infos' = 1 .. Len(infos) + 1 /\ infos \in Seq(Infos)
        /\ \A s \in DOMAIN infos : s \in DOMAIN infos' /\ infos'[s] = infos[s]
    BY <2>1, <2>3 DEF Inv, InfosInv
  <2>5. \A s \in DOMAIN infos' : s \in DOMAIN infos \/ infos'[s] = info
    BY <2>1, <2>3, <2>4
  <2>6. InfosInv'
    BY <2>1, <2>4, <2>5 DEF InfosInv, Inv, MoreBroken
  <2>7. ObjectsInv'
    BY <2>1, <2>4, SameObjects DEF MoreBroken
  <2>8. BindingsInv'
    <3>1. ASSUME NEW t, Known(t)
          PROVE  Known(t)' /\ (Struct(t) => infos'[t.info] = infos[t.info])
      BY <2>4, <3>1 DEF Known, Struct, Types, Numeric
    <3>2. \A b \in DOMAIN bindings : bindings[b] # <<>> /\ bindings[b] \in Seq([type : STRING, info : Nat])
      BY CinteropAssumption DEF Inv, BindingsInv
    <3>3. \A b \in DOMAIN bindings : Known(bindings[b][1])
      BY <3>2 DEF Inv, BindingsInv
    <3>4. ASSUME NEW b \in DOMAIN bindings, ReturnsWide(bindings[b])'
          PROVE  "result" \in broken'
      <4>1. ReturnsWide(bindings[b])
        BY <2>1, <3>1, <3>3, <3>4 DEF ReturnsWide, Struct
      <4> QED
        BY <2>1, <4>1 DEF Inv, BindingsInv, MoreBroken
    <3> QED
      BY <2>1, <3>1, <3>4 DEF Inv, BindingsInv
  <2>9. SafeInv'
    <3>1. MemoryIsSafe'
      BY <2>1 DEF MemoryIsSafe
    <3> QED
      BY <2>1, <3>1, SafeStep
  <2> QED
    BY <2>6, <2>7, <2>8, <2>9 DEF Inv
<1> QED
  BY <1>1, <1>2

LEMMA NewInstanceStep ==
  ASSUME Inv, NEW s \in DOMAIN infos, new_instance(s)
  PROVE  Inv'
<1>1. PICK o \in Objects : newinstance(o, s, Cleared(infos[s]), Zeroes(infos[s]))
  BY DEF new_instance
<1>2. UNCHANGED <<infos, bindings, phase>> /\ Call /\ MoreBroken
  BY NothingBroken DEF new_instance
<1>3. infos[s] \in Infos /\ (Tidy => Sound(infos[s]))
  BY DEF Inv, InfosInv
<1>4. ObjectsInv'
  BY <1>1, <1>2, <1>3, KeepsFresh, NewObjectStep DEF MoreBroken
<1>5. SafeInv'
  BY <1>2, SafeStep, RunningIsSafe
<1> QED
  BY <1>2, <1>4, <1>5, OtherParts DEF Inv

LEMMA GetStep ==
  ASSUME Inv, NEW s \in DOMAIN infos, NEW data, NEW key, NEW n \in Indices, get_field(s, data, key, n)
  PROVE  Inv'
<1>1. CASE key \notin DOMAIN infos[s].fields \/ n >= infos[s].fields[key].count
  BY <1>1, RefusedStep, NothingBroken DEF get_field
<1>2. CASE ~(key \notin DOMAIN infos[s].fields \/ n >= infos[s].fields[key].count)
  <2> DEFINE f == infos[s].fields[key]
           R == (IF n < 0 THEN {"index"} ELSE {}) \cup (IF Foreign(s, data) THEN {"instance"} ELSE {})
  <2>1. /\ broken' = broken \cup R
        /\ IF f.type = "void" \/ Within(data, f, n) THEN UNCHANGED phase ELSE phase' = "wild read"
        /\ UNCHANGED <<infos, objects, bindings, stored>> /\ phase = "running" /\ Call
    BY <1>2 DEF get_field, Call
  <2>0. MoreBroken /\ (n < 0 => "index" \in broken') /\ (Foreign(s, data) => "instance" \in broken')
    <3>1. R \in SUBSET Rules /\ (n < 0 => "index" \in R) /\ (Foreign(s, data) => "instance" \in R)
      BY DEF Rules
    <3> HIDE DEF R
    <3> QED
      BY <2>1, <3>1, Breaking
  <2>2. ASSUME Tidy', "index" \notin broken'
        PROVE  Within(data, f, n)
    <3>1. data \in Made /\ InfoOf(data) = infos[s] /\ Tidy /\ ~(n < 0)
      BY <2>0, <2>2 DEF Foreign, InfoOf, MoreBroken, Tidy
    <3>2. key \in DOMAIN infos[s].fields
      BY <1>2
    <3>3. f \in Fields /\ n \in Int
      BY <3>2, FieldFacts
    <3>4. f.count \in Int
      BY <3>3 DEF Fields
    <3>5. 0 <= n /\ n < f.count
      BY <1>2, <3>1, <3>3, <3>4
    <3>6. <<key, n>> \in Elements(InfoOf(data))
      BY <3>1, <3>2, <3>5, FieldFacts
    <3>7. Field(InfoOf(data), <<key, n>>) = f
      BY <3>1 DEF Field
    <3> QED
      BY <3>1, <3>6, <3>7, InRange
  <2>3. MemoryIsSafe'
    BY <2>1, <2>2 DEF MemoryIsSafe
  <2> QED
    BY <2>0, <2>1, <2>3, QuietStep DEF Wild
<1> QED
  BY <1>1, <1>2

LEMMA SetStep ==
  ASSUME Inv, NEW s \in DOMAIN infos, NEW data, NEW key, NEW value \in Values, NEW n \in Indices,
         set_field(s, data, key, value, n)
  PROVE  Inv'
<1> DEFINE f == infos[s].fields[key]
           bad == \/ key \notin DOMAIN infos[s].fields \/ OutOfRange(f, n)
                  \/ Taken(f.type, value) = {}
<1>1. CASE bad
  BY <1>1, RefusedStep, NothingBroken DEF set_field
<1>2. CASE ~bad
  <2>0. Breaks("instance", Foreign(s, data)) /\ "instance" \in Rules
    BY <1>2 DEF set_field, Rules
  <2>1. /\ MoreBroken /\ (Foreign(s, data) => ~Tidy') /\ Call
        /\ key \in DOMAIN infos[s].fields /\ ~OutOfRange(f, n)
    BY <1>2, <2>0, BreakingOne DEF set_field, Call, Tidy
  <2>2. f \in Fields /\ n \in Int /\ Address(f, n) \in Int /\ infos[s] \in Infos
    BY <2>1, FieldFacts
  <2>3. 0 <= n /\ n < f.count
    BY <2>1, <2>2 DEF OutOfRange, Fields
  <2>4. <<key, n>> \in Elements(infos[s])
    BY <2>1, <2>3, FieldFacts
  <2>5. ASSUME ~Foreign(s, data)
        PROVE  data \in Made /\ InfoOf(data) = infos[s]
    BY <2>5 DEF Foreign, InfoOf
  <2>6. CASE Within(data, f, n)
    <3>1. PICK v \in Taken(f.type, value) :
            IF Foreign(s, data) THEN StoreForeign(data, f, n, v) ELSE Store(data, key, n, v)
      BY <1>2, <2>6 DEF set_field
    <3>2. UNCHANGED <<infos, bindings, phase>>
      BY <1>2, <2>6 DEF set_field
    <3>3. Sane(f.type, v) /\ data \in Made
      BY <2>2, <2>6, TakenValues DEF Within, Fields
    <3>4. ObjectsInv'
      <4>1. CASE Foreign(s, data)
        BY <2>1, <2>2, <3>1, <3>2, <3>3, <4>1, ForeignStoreStep
      <4>2. CASE ~Foreign(s, data)
        <5>1. Field(InfoOf(data), <<key, n>>) = f
          BY <2>5, <4>2 DEF Field
        <5> QED
          BY <2>1, <2>4, <2>5, <3>1, <3>2, <3>3, <4>2, <5>1, StoreStep DEF MoreBroken
      <4> QED
        BY <4>1, <4>2
    <3>5. SafeInv'
      BY <2>1, <3>2, SafeStep, RunningIsSafe
    <3> QED
      BY <2>1, <3>2, <3>4, <3>5, OtherParts DEF Inv
  <2>7. CASE ~Within(data, f, n)
    <3>1. GoesWild("wild write")
      BY <1>2, <2>7 DEF set_field
    <3>2. ~Tidy'
      <4> SUFFICES ASSUME Tidy, ~Foreign(s, data)
                   PROVE  FALSE
        BY <2>1 DEF MoreBroken
      <4>1. Field(InfoOf(data), <<key, n>>) = f
        BY <2>5 DEF Field
      <4> QED
        BY <2>4, <2>5, <2>7, <4>1, InRange
    <3>3. MemoryIsSafe'
      BY <3>1, <3>2 DEF GoesWild, MemoryIsSafe
    <3> QED
      BY <2>1, <3>1, <3>3, WildStep DEF Wild
  <2> QED
    BY <2>6, <2>7
<1> QED
  BY <1>1, <1>2

LEMMA BindStep ==
  ASSUME Inv, NEW signature \in Signatures, bind_fn(signature)
  PROVE  Inv'
<1> DEFINE R == (IF HasNil(signature) THEN {"type"} ELSE {})
                  \cup (IF ReturnsWide(signature) THEN {"result"} ELSE {})
<1>1. broken' = broken \cup R /\ Call
  BY DEF bind_fn
<1>2. /\ MoreBroken /\ (HasNil(signature) => "type" \in broken')
      /\ ReturnsWide(signature) => "result" \in broken'
  <2>1. /\ R \in SUBSET Rules /\ (HasNil(signature) => "type" \in R)
        /\ ReturnsWide(signature) => "result" \in R
    BY DEF Rules
  <2> HIDE DEF R
  <2> QED
    BY <1>1, <2>1, Breaking
<1> HIDE DEF R
<1>3. CASE Wrong(signature) = {}
  <2>1. bindings' = Append(bindings, signature) /\ UNCHANGED <<infos, objects, phase, stored>>
    BY <1>3 DEF bind_fn
  <2>2. \A i \in DOMAIN signature : Known(signature[i])
    BY <1>3 DEF Wrong
  <2>3. /\ bindings' \in Seq(Signatures)
        /\ \A b \in DOMAIN bindings' : (b \in DOMAIN bindings /\ bindings'[b] = bindings[b]) \/ bindings'[b] = signature
    BY <2>1 DEF Inv, BindingsInv
  <2>4. ASSUME NEW t
        PROVE  Known(t)' = Known(t) /\ ReturnsWide(t)' = ReturnsWide(t)
    BY <2>1 DEF Known, Struct, ReturnsWide
  <2>5. BindingsInv'
    BY <1>2, <2>2, <2>3, <2>4 DEF Inv, BindingsInv, MoreBroken
  <2>6. ObjectsInv' /\ InfosInv'
    BY <1>2, <2>1, SameObjects, OtherParts DEF MoreBroken
  <2> QED
    BY <1>1, <1>2, <2>1, <2>5, <2>6, SafeStep, RunningIsSafe DEF Inv
<1>4. CASE Wrong(signature) # {} /\ Misread(signature, First(Wrong(signature)))
  <2>1. GoesWild("wild type")
    BY <1>4 DEF bind_fn
  <2>2. HasNil(signature)
    <3>1. Wrong(signature) \subseteq Nat /\ Wrong(signature) \subseteq DOMAIN signature
      BY CinteropAssumption DEF Wrong
    <3>2. First(Wrong(signature)) \in Wrong(signature)
      BY <1>4, <3>1, LeastOf DEF First
    <3> QED
      BY <1>4, <3>1, <3>2 DEF Misread, HasNil
  <2>3. MemoryIsSafe'
    BY <1>2, <2>1, <2>2 DEF GoesWild, MemoryIsSafe
  <2> QED
    BY <1>1, <1>2, <2>1, <2>3, WildStep DEF Wild
<1>5. CASE Wrong(signature) # {} /\ ~Misread(signature, First(Wrong(signature)))
  BY <1>1, <1>2, <1>5, RefusedStep DEF bind_fn
<1> QED
  BY <1>3, <1>4, <1>5

LEMMA PushedStruct ==
  ASSUME NEW t, NEW value, Struct(t)
  PROVE  Pushed(t, value) =
           IF Readable(t, value) THEN {Prefix(objects[value].memory, infos[t.info].size)} ELSE {}
<1>1. t.type = "struct" /\ t.type # "char*" /\ t.type # "void*"
  BY DEF Struct
<1> QED
  BY <1>1 DEF Pushed

\* An argument that cannot be pushed, or is copied, though it is an instance of its struct.
LEMMA OwnIsReadable ==
  ASSUME Inv, NEW b \in DOMAIN bindings, NEW args, NEW i \in 1 .. Parameters(b),
         Struct(bindings[b][i + 1]), Pushed(bindings[b][i + 1], args[i]) = {}
  PROVE  AnyForeign(b, args)
<1> DEFINE t == bindings[b][i + 1]
<1>1. t.info \in DOMAIN infos
  <2>1. i + 1 \in DOMAIN bindings[b]
    BY CinteropAssumption DEF Inv, BindingsInv, Parameters
  <2> QED
    BY <2>1 DEF Inv, BindingsInv, Known, Struct, Types, Numeric
<1>2. infos[t.info] \in Infos /\ infos[t.info].size \in Nat
  <2>1. infos[t.info] \in Infos
    BY <1>1 DEF Inv, InfosInv
  <2> QED
    BY <2>1 DEF Infos
<1>3. Struct(t)
  OBVIOUS
<1>4. Pushed(t, args[i]) =
        IF Readable(t, args[i]) THEN {Prefix(objects[args[i]].memory, infos[t.info].size)} ELSE {}
  BY <1>3, PushedStruct
<1>5. Pushed(t, args[i]) = {}
  OBVIOUS
<1>6. ~Readable(t, args[i])
  BY <1>4, <1>5
<1>7. Foreign(t.info, args[i])
  BY <1>2, <1>6 DEF Foreign, Readable, InfoOf
<1> QED
  BY <1>3, <1>7 DEF AnyForeign

LEMMA CallFailsStep ==
  ASSUME Inv, NEW b \in DOMAIN bindings, NEW args, call_fails(b, args)
  PROVE  Inv'
<1> DEFINE i == First(Failing(b, args))
<1>1. i \in Failing(b, args)
  <2>1. Failing(b, args) # {}
    BY DEF call_fails
  <2>2. Failing(b, args) \subseteq Nat
    BY DEF Failing
  <2> QED
    BY <2>1, <2>2, LeastOf DEF First
<1>2. i \in 1 .. Parameters(b) /\ Pushed(bindings[b][i + 1], args[i]) = {}
  BY <1>1 DEF Failing, Meant
<1> HIDE DEF i
<1>3. MoreBroken /\ (AnyForeign(b, args) => "instance" \in broken') /\ Call
  BY BreakingOne DEF call_fails, Rules
<1>4. CASE Struct(bindings[b][i + 1])
  <2>1. GoesWild("wild copy")
    BY <1>4 DEF call_fails, i
  <2>2. "instance" \in broken'
    BY <1>2, <1>3, <1>4, OwnIsReadable
  <2>3. MemoryIsSafe'
    BY <2>1, <2>2 DEF GoesWild, MemoryIsSafe
  <2> QED
    BY <1>3, <2>1, <2>3, WildStep DEF Wild
<1>5. CASE ~Struct(bindings[b][i + 1])
  <2>1. Refused
    BY <1>5 DEF call_fails, i
  <2> QED
    BY <1>3, <2>1, RefusedStep
<1> QED
  BY <1>4, <1>5

LEMMA CallStep ==
  ASSUME Inv, NEW b \in DOMAIN bindings, NEW args, call(b, args)
  PROVE  Inv'
<1>1. MoreBroken /\ UNCHANGED <<infos, bindings, phase>> /\ Call /\ CalleeStores(b, args)
  BY BreakingOne DEF call, Rules
<1>2. ObjectsInv'
  <2>1. CASE UNCHANGED <<objects, stored>>
    BY <1>1, <2>1, SameObjects DEF MoreBroken
  <2>2. CASE \E o \in Handed(b, args) : \E e \in Elements(InfoOf(o)) :
               LET f == Field(InfoOf(o), e)
               IN Within(o, f, e[2]) /\ \E x \in Values : \E v \in Taken(f.type, x) : Store(o, e[1], e[2], v)
    <3>1. PICK o \in Handed(b, args) : \E e \in Elements(InfoOf(o)) : \E x \in Values :
            \E v \in Taken(Field(InfoOf(o), e).type, x) : Store(o, e[1], e[2], v)
      BY <2>2
    <3>2. o \in Made
      BY DEF Handed
    <3>3. PICK e \in Elements(InfoOf(o)), x \in Values :
            \E v \in Taken(Field(InfoOf(o), e).type, x) : Store(o, e[1], e[2], v)
      BY <3>1
    <3>4. PICK v \in Taken(Field(InfoOf(o), e).type, x) : Store(o, e[1], e[2], v)
      BY <3>3
    <3>5. InfoOf(o) \in Infos
      BY <3>2, InfoOfMade
    <3>6. Field(InfoOf(o), e).type \in Types /\ e = <<e[1], e[2]>>
      BY <3>5, ElementFacts DEF Fields
    <3>7. Sane(Field(InfoOf(o), e).type, v)
      BY <3>6, TakenValues
    <3> QED
      BY <1>1, <3>2, <3>4, <3>6, <3>7, StoreStep DEF MoreBroken
  <2> QED
    BY <1>1, <2>1, <2>2 DEF CalleeStores
<1>3. SafeInv'
  BY <1>1, SafeStep, RunningIsSafe
<1> QED
  BY <1>1, <1>2, <1>3, OtherParts DEF Inv

LEMMA CallStructStep ==
  ASSUME Inv, NEW b \in DOMAIN bindings, NEW args, call_struct(b, args)
  PROVE  Inv'
<1> DEFINE s == bindings[b][1].info
<1>1. MoreBroken /\ Struct(bindings[b][1]) /\ Call
  BY BreakingOne DEF call_struct, Rules
<1>2. s \in DOMAIN infos /\ Known(bindings[b][1])
  <2>1. 1 \in DOMAIN bindings[b]
    BY CinteropAssumption DEF Inv, BindingsInv
  <2> QED
    BY <1>1, <2>1 DEF Inv, BindingsInv, Known, Struct, Types, Numeric
<1>3. infos[s] \in Infos /\ (Tidy => Sound(infos[s]))
  BY <1>2 DEF Inv, InfosInv
<1>4. CASE ~InRegister(infos[s].size)
  <2>1. GoesWild("wild result")
    BY <1>4 DEF call_struct
  <2>2. "result" \in broken'
    BY <1>1, <1>2, <1>4 DEF ReturnsWide, Inv, BindingsInv, MoreBroken
  <2>3. MemoryIsSafe'
    BY <2>1, <2>2 DEF GoesWild, MemoryIsSafe
  <2> QED
    BY <1>1, <2>1, <2>3, WildStep DEF Wild
<1>5. CASE InRegister(infos[s].size)
  <2>1. UNCHANGED <<infos, bindings, phase>>
    BY <1>5 DEF call_struct
  <2>2. PICK o \in Objects :
          \/ newinstance(o, s, Cleared(infos[s]), Zeroes(infos[s]))
          \/ \E e \in Elements(infos[s]) : \E x \in Values :
               \E v \in Taken(Field(infos[s], e).type, x) :
                 newinstance(o, s, Overwritten(Cleared(infos[s]), Field(infos[s], e), e[2], v),
                             [Zeroes(infos[s]) EXCEPT ![e] = v])
    BY <1>5 DEF call_struct
  <2> HIDE DEF s
  <2>3. /\ Cleared(infos[s]) \in [Span(infos[s].size) -> SaneBytes]
        /\ Zeroes(infos[s]) \in [Elements(infos[s]) -> Values]
        /\ Tidy => Keeps(infos[s], Cleared(infos[s]), Zeroes(infos[s]))
    BY <1>3, KeepsFresh
  <2>4. ASSUME newinstance(o, s, Cleared(infos[s]), Zeroes(infos[s]))
        PROVE  ObjectsInv'
    BY <1>1, <1>2, <2>1, <2>3, <2>4, NewObjectStep DEF MoreBroken
  <2>5. ASSUME NEW e \in Elements(infos[s]), NEW x \in Values, NEW v \in Taken(Field(infos[s], e).type, x),
               newinstance(o, s, Overwritten(Cleared(infos[s]), Field(infos[s], e), e[2], v),
                           [Zeroes(infos[s]) EXCEPT ![e] = v])
        PROVE  ObjectsInv'
    <3> DEFINE f == Field(infos[s], e)
               m == Overwritten(Cleared(infos[s]), f, e[2], v)
               w == [Zeroes(infos[s]) EXCEPT ![e] = v]
    <3>1. f \in Fields /\ Address(f, e[2]) \in Int
      BY <1>3, ElementFacts
    <3>2. Sane(f.type, v)
      BY <3>1, TakenValues DEF Fields
    <3>3. Span(infos[s].size) \subseteq Int
      BY <1>3 DEF Span, Infos
    <3>4. newinstance(o, s, m, w)
      BY <2>5
    <3>5. w \in [Elements(infos[s]) -> Values]
      BY <2>3, <3>2 DEF Sane
    <3>6. Tidy => Keeps(infos[s], m, w)
      BY <1>3, <2>3, <3>2, KeepsAfterStore DEF Sane
    <3>7. m \in [Span(infos[s].size) -> SaneBytes]
      <4> HIDE DEF f
      <4> QED
        BY <2>3, <3>1, <3>2, <3>3, OverwrittenType
    <3> HIDE DEF m, w
    <3> QED
      BY <1>1, <1>2, <2>1, <3>4, <3>5, <3>6, <3>7, NewObjectStep DEF MoreBroken
  <2>6. ObjectsInv'
    BY <2>2, <2>4, <2>5
  <2>7. SafeInv'
    BY <1>1, <2>1, SafeStep, RunningIsSafe
  <2> QED
    BY <1>1, <2>1, <2>6, <2>7, OtherParts DEF Inv
<1> QED
  BY <1>4, <1>5
-----------------------------------------------------------------------------
LEMMA InvInitially ==
  ASSUME Init
  PROVE  Inv
<1>1. Made = {}
  BY DEF Init, Made
<1>2. InfosInv /\ BindingsInv /\ SafeInv
  <2>1. InfosInv
    BY DEF Init, InfosInv
  <2>2. BindingsInv
    BY DEF Init, BindingsInv
  <2>3. 0 \in 0 .. MaxCalls
    BY CinteropAssumption
  <2>4. SafeInv
    BY <2>3 DEF Init, SafeInv, MemoryIsSafe
  <2> QED
    BY <2>1, <2>2, <2>4
<1>3. ObjectsInv
  <2>1. <<>> \in [Span(0) -> SaneBytes] /\ <<>> \in [{} -> Values]
    BY DEF Span
  <2>2. <<>> \in Memories /\ <<>> \in StoredMaps
    BY <2>1 DEF Memories, StoredMaps
  <2> QED
    BY <1>1, <2>2 DEF Init, ObjectsInv
<1> QED
  BY <1>2, <1>3 DEF Inv

LEMMA InvStep ==
  ASSUME Inv, [Next]_vars
  PROVE  Inv'
<1>1. CASE \E layout \in Layouts : struct_info(layout)
  BY <1>1, StructInfoStep
<1>2. CASE \E s \in DOMAIN infos : new_instance(s)
  BY <1>2, NewInstanceStep
<1>3. CASE \E s \in DOMAIN infos : \E data \in Data, key \in Keys, n \in Indices : get_field(s, data, key, n)
  BY <1>3, GetStep
<1>4. CASE \E s \in DOMAIN infos : \E data \in Data, key \in Keys, n \in Indices, value \in Values :
             set_field(s, data, key, value, n)
  BY <1>4, SetStep
<1>5. CASE \E signature \in Signatures : bind_fn(signature)
  BY <1>5, BindStep
<1>6. CASE \E b \in DOMAIN bindings : \E args \in [1 .. Parameters(b) -> Arguments] :
             call_fails(b, args) \/ call(b, args) \/ call_struct(b, args)
  BY <1>6, CallFailsStep, CallStep, CallStructStep
<1>7. CASE UNCHANGED vars
  <2>0. MoreBroken
    BY <1>7, NothingBroken DEF vars
  <2>1. InfosInv' /\ BindingsInv'
    BY <1>7, <2>0, OtherParts DEF vars
  <2>2. ObjectsInv'
    BY <1>7, <2>0, SameObjects DEF vars, MoreBroken
  <2> QED
    BY <1>7, <2>1, <2>2 DEF vars, Inv, SafeInv, MemoryIsSafe, Tidy
<1> QED
  BY <1>1, <1>2, <1>3, <1>4, <1>5, <1>6, <1>7 DEF Next

\* Bytes are of values that their types can have, and every object, binding and history
\* belongs to a struct_info that exists (Struct_info.hpp, binding.hpp).
THEOREM CinteropTypeCorrect == Spec => []CinteropTypeOK
<1>1. Init => Inv
  BY InvInitially
<1>2. Inv /\ [Next]_vars => Inv'
  BY InvStep
<1>3. Inv => CinteropTypeOK
  <2> SUFFICES ASSUME Inv
               PROVE  CinteropTypeOK
    OBVIOUS
  <2>1. ASSUME NEW o \in Made
        PROVE  /\ objects[o].info \in DOMAIN infos
               /\ DOMAIN objects[o].memory = Span(InfoOf(o).size)
               /\ DOMAIN stored[o] = Elements(InfoOf(o))
    BY InfoOfMade
  <2>2. ASSUME NEW o \in Made, NEW a \in DOMAIN objects[o].memory, objects[o].memory[a] # Blank
        PROVE  LET c == objects[o].memory[a]
               IN c.value \in Taken(c.type, c.value) /\ c.byte \in Span(SizeOf[c.type])
    <3>1. objects[o].memory[a] \in SaneBytes
      BY InfoOfMade
    <3> QED
      BY <2>2, <3>1 DEF SaneBytes, Sane
  <2> QED
    BY <2>1, <2>2 DEF CinteropTypeOK, Inv, SafeInv, BindingsInv
<1> QED
  BY <1>1, <1>2, <1>3, PTL DEF Spec

\* Whatever structs scripts describe, whatever they pass for instances, indices and types,
\* and whatever functions return: an access that leaves an object has the reason that is its
\* own, and a store never leaves it for its index (Struct_info.cpp:53-149,
\* binding.cpp:26-196).
THEOREM MemoryIsSafeCorrect == Spec => []MemoryIsSafe
<1>1. Init => Inv
  BY InvInitially
<1>2. Inv /\ [Next]_vars => Inv'
  BY InvStep
<1>3. Inv => MemoryIsSafe
  BY DEF Inv, SafeInv
<1> QED
  BY <1>1, <1>2, <1>3, PTL DEF Spec

\* Elements hold what was stored in them last, whatever scripts and C functions store
\* elsewhere (Struct_info.cpp:53-149).
THEOREM FieldsHoldCorrect == Spec => []FieldsHold
<1>1. Init => Inv
  BY InvInitially
<1>2. Inv /\ [Next]_vars => Inv'
  BY InvStep
<1>3. Inv => FieldsHold
  BY DEF Inv, ObjectsInv, FieldsHold, Keeps
<1> QED
  BY <1>1, <1>2, <1>3, PTL DEF Spec
=============================================================================
