-------------------------- MODULE LazyTypesProofs --------------------------
(***************************************************************************)
(* Method calls run the method of their name, for all types, libraries and *)
(* numbers of lua_States, if there are no more names than values of an     *)
(* atom; the compiler knows all types, and tags stay, without conditions.  *)
(*                                                                         *)
(* The invariant says that no name gets two atoms, hence no atom two names *)
(* until the counter has gone round, and that a library whose functions a  *)
(* metatable has knows all methods of the type by their atoms.             *)
(***************************************************************************)
EXTENDS LazyTypes, FiniteSetTheorems, SequenceTheorems, TLAPS

Single(names) == \A i, j \in DOMAIN names : names[i] = names[j] => i = j

\* What init_namecalls leaves behind.
Complete(found, type, names) ==
  /\ Methods[type] \subseteq Known(names)
  /\ DOMAIN found = {Atom(names, n) : n \in Methods[type]}
  /\ \A n \in Methods[type] : found[Atom(names, n)] = n

AtomInv == registered \in Seq(Names) /\ Single(registered)
CodeInv ==
  /\ DOMAIN namecalls = Libraries /\ \A l \in Libraries : DOMAIN namecalls[l] = Types
  /\ \A l \in Libraries, t \in Types :
       DOMAIN namecalls[l][t] = {} \/ Complete(namecalls[l][t], t, registered)
TableInv ==
  /\ metatables \in [1 .. MaxStates -> [Types -> Libraries \cup {None}]]
  /\ \A s \in 1 .. MaxStates, t \in Types :
       metatables[s][t] # None => Complete(namecalls[metatables[s][t]][t], t, registered)
ImportInv ==
  /\ states \in Nat
  /\ states > 0 => ImportFn \in Known(registered) /\ import_fn_atom = Atom(registered, ImportFn)
Inv == AtomInv /\ CodeInv /\ TableInv /\ ImportInv /\ MethodsAreFound

\* Atoms may be added, and no name loses its own.
AtomsKept ==
  AtomInv' /\ \A n \in Known(registered) :
    n \in Known(registered') /\ Atom(registered', n) = Atom(registered, n)
-----------------------------------------------------------------------------
\* The counter takes all its values before it takes one again.
LEMMA WrappedOnce ==
  ASSUME NEW i \in 1 .. AtomValues, NEW j \in 1 .. AtomValues, Wrapped(i) = Wrapped(j)
  PROVE  i = j
<1> DEFINE v == AtomValues
           h == v \div 2
<1>1. v \in Nat \ {0} /\ h \in Nat /\ h + h = v
  BY LazyTypesAssumption
<1>2. \A k \in 1 .. v : (k + h) % v = IF k + h < v THEN k + h ELSE k + h - v
  <2>1. ASSUME NEW k \in 1 .. v, k + h < v
        PROVE  (k + h) % v = k + h
    BY <1>1, <2>1
  <2>2. ASSUME NEW k \in 1 .. v, ~(k + h < v), k + h < v + v
        PROVE  (k + h) % v = k + h - v
    BY <1>1, <2>2
  <2> QED
    BY <1>1, <2>1, <2>2
<1>3. (i + h) % v = (j + h) % v
  BY <1>1, <1>2 DEF Wrapped
<1> QED
  BY <1>1, <1>2, <1>3

LEMMA UpTo ==
  ASSUME NEW n \in Nat
  PROVE  IsFiniteSet(1 .. n) /\ Cardinality(1 .. n) = n
<1>1. IsFiniteSet(1 .. n) /\ Cardinality(1 .. n) = IF 1 > n THEN 0 ELSE n - 1 + 1
  BY FS_Interval
<1> QED
  BY <1>1

LEMMA FewNames ==
  ASSUME NEW names \in Seq(Names), Single(names)
  PROVE  Len(names) <= Cardinality(Names)
<1>1. names \in Injection(1 .. Len(names), Names)
  BY DEF Single, Injection, IsInjective
<1>2. Cardinality(1 .. Len(names)) = Len(names) /\ IsFiniteSet(1 .. Len(names))
  BY UpTo
<1> QED
  BY <1>1, <1>2, FS_Injection, LazyTypesAssumption

LEMMA AtomOfName ==
  ASSUME NEW names \in Seq(Names), Single(names), NEW i \in DOMAIN names
  PROVE  Atom(names, names[i]) = Wrapped(i)
<1>1. (CHOOSE j \in DOMAIN names : names[j] = names[i]) = i
  BY DEF Single
<1> QED
  BY <1>1 DEF Atom

\* No two positions, hence no two names, have the same atom.
LEMMA AtomsDiffer ==
  ASSUME NEW names \in Seq(Names), Single(names), Cardinality(Names) <= AtomValues
  PROVE  /\ \A i, j \in DOMAIN names : Wrapped(i) = Wrapped(j) => i = j
         /\ \A m, n \in Known(names) : Atom(names, m) = Atom(names, n) => m = n
<1>1. Len(names) <= AtomValues
  BY FewNames, LazyTypesAssumption, FS_CardinalityType
<1>2. \A i \in DOMAIN names : i \in 1 .. AtomValues
  BY <1>1, LazyTypesAssumption
<1>3. \A i, j \in DOMAIN names : Wrapped(i) = Wrapped(j) => i = j
  BY <1>2, WrappedOnce
<1>4. ASSUME NEW i \in DOMAIN names, NEW j \in DOMAIN names,
             Atom(names, names[i]) = Atom(names, names[j])
      PROVE  names[i] = names[j]
  BY <1>3, <1>4, AtomOfName
<1> QED
  BY <1>3, <1>4 DEF Known

\* The elements of a concatenation are those of the first and those of the second.
LEMMA Concatenated ==
  ASSUME NEW a \in Seq(Names), NEW b \in Seq(Names)
  PROVE  /\ a \o b \in Seq(Names)
         /\ \A i \in DOMAIN a : i \in DOMAIN (a \o b) /\ (a \o b)[i] = a[i]
         /\ \A i \in DOMAIN b : Len(a) + i \in DOMAIN (a \o b) /\ (a \o b)[Len(a) + i] = b[i]
         /\ \A i \in DOMAIN (a \o b) :
              i \in DOMAIN a \/ (i - Len(a) \in DOMAIN b /\ (a \o b)[i] = b[i - Len(a)])
<1>1. /\ a \o b \in Seq(Names) /\ Len(a \o b) = Len(a) + Len(b)
      /\ \A i \in 1 .. Len(a) + Len(b) :
           (a \o b)[i] = IF i <= Len(a) THEN a[i] ELSE b[i - Len(a)]
  BY ConcatProperties
<1>2. Len(a) \in Nat /\ Len(b) \in Nat /\ DOMAIN a = 1 .. Len(a) /\ DOMAIN b = 1 .. Len(b)
  BY LenProperties
<1>3. DOMAIN (a \o b) = 1 .. Len(a) + Len(b)
  BY <1>1, LenProperties
<1> DEFINE c == a \o b
<1> HIDE DEF c
<1>4. /\ c \in Seq(Names) /\ DOMAIN c = 1 .. Len(a) + Len(b)
      /\ \A i \in 1 .. Len(a) + Len(b) : c[i] = IF i <= Len(a) THEN a[i] ELSE b[i - Len(a)]
  BY <1>1, <1>3 DEF c
<1>5. \A i \in DOMAIN a : i \in DOMAIN c /\ c[i] = a[i]
  BY <1>2, <1>4
<1>6. \A i \in DOMAIN b : Len(a) + i \in DOMAIN c /\ c[Len(a) + i] = b[i]
  <2> SUFFICES ASSUME NEW i \in 1 .. Len(b)
               PROVE  Len(a) + i \in 1 .. Len(a) + Len(b) /\ c[Len(a) + i] = b[i]
    BY <1>2, <1>4
  <2>1. Len(a) + i \in 1 .. Len(a) + Len(b) /\ ~(Len(a) + i <= Len(a)) /\ (Len(a) + i) - Len(a) = i
    BY <1>2
  <2> QED
    BY <1>4, <2>1
<1>7. \A i \in DOMAIN c : i \in DOMAIN a \/ (i - Len(a) \in DOMAIN b /\ c[i] = b[i - Len(a)])
  BY <1>2, <1>4
<1> QED
  BY <1>4, <1>5, <1>6, <1>7 DEF c

\* Asking for atoms: new names are added, each once, and old atoms stay.
LEMMA AtomsAdded ==
  ASSUME NEW S \in SUBSET Names, AtomInv, registered' \in WithAtoms(S)
  PROVE  /\ registered' \in Seq(Names) /\ Single(registered')
         /\ Known(registered') = Known(registered) \cup S
         /\ \A n \in Known(registered) : Atom(registered', n) = Atom(registered, n)
<1> DEFINE new == S \ Known(registered)
<1>1. PICK q \in Orders(new) : registered' = registered \o q
  BY DEF WithAtoms
<1>2. IsFiniteSet(new) /\ Cardinality(new) \in Nat
  BY LazyTypesAssumption, FS_Subset, FS_CardinalityType
<1>3. q \in [1 .. Cardinality(new) -> new] /\ Single(q)
  BY <1>1 DEF Orders, Single
<1>4. q \in Seq(Names) /\ Len(q) = Cardinality(new)
  <2>1. new \subseteq Names
    OBVIOUS
  <2> HIDE DEF new
  <2>2. q \in [1 .. Cardinality(new) -> Names]
    BY <1>3, <2>1
  <2> QED
    BY <1>2, <2>2
<1>5. \A n \in new : \E i \in DOMAIN q : q[i] = n
  <2>1. q \in Injection(1 .. Cardinality(new), new)
    BY <1>3 DEF Single, Injection, IsInjective
  <2>2. Cardinality(1 .. Cardinality(new)) = Cardinality(new)
    BY <1>2, UpTo
  <2>3. q \in Surjection(1 .. Cardinality(new), new)
    BY <1>2, <2>1, <2>2, FS_Injection
  <2> QED
    BY <1>3, <2>3 DEF Surjection
<1> DEFINE old == registered
           both == registered'
<1>6. old \in Seq(Names) /\ Single(old)
  BY DEF AtomInv
<1>both. both = old \o q
  BY <1>1
<1> HIDE DEF new, old, both
<1>7. /\ both \in Seq(Names)
      /\ \A i \in DOMAIN old : i \in DOMAIN both /\ both[i] = old[i]
      /\ \A i \in DOMAIN q : Len(old) + i \in DOMAIN both /\ both[Len(old) + i] = q[i]
      /\ \A i \in DOMAIN both :
           i \in DOMAIN old \/ (i - Len(old) \in DOMAIN q /\ both[i] = q[i - Len(old)])
  BY <1>both, <1>4, <1>6, Concatenated
<1>8. \A i \in DOMAIN q : q[i] \in S /\ q[i] \notin Known(old)
  <2>1. \A i \in DOMAIN q : q[i] \in new
    BY <1>3
  <2> QED
    BY <2>1 DEF new, old
<1>9. Single(both)
  <2> SUFFICES ASSUME NEW i \in DOMAIN both, NEW j \in DOMAIN both, both[i] = both[j]
               PROVE  i = j
    BY DEF Single
  <2>1. CASE i \in DOMAIN old /\ j \in DOMAIN old
    BY <1>6, <1>7, <2>1 DEF Single
  <2>2. CASE i \notin DOMAIN old /\ j \notin DOMAIN old
    <3>1. i - Len(old) = j - Len(old)
      BY <1>3, <1>7, <2>2 DEF Single
    <3> QED
      BY <1>6, <1>7, <3>1
  <2>3. CASE i \in DOMAIN old /\ j \notin DOMAIN old
    BY <1>7, <1>8, <2>3 DEF Known
  <2>4. CASE i \notin DOMAIN old /\ j \in DOMAIN old
    BY <1>7, <1>8, <2>4 DEF Known
  <2> QED
    BY <2>1, <2>2, <2>3, <2>4
<1>10. Known(both) = Known(old) \cup S
  <2>1. ASSUME NEW n \in Known(both)
        PROVE  n \in Known(old) \cup S
    BY <1>7, <1>8 DEF Known
  <2>2. ASSUME NEW n \in Known(old)
        PROVE  n \in Known(both)
    BY <1>7 DEF Known
  <2>3. ASSUME NEW n \in S, n \notin Known(old)
        PROVE  n \in Known(both)
    <3>1. n \in new
      BY <2>3 DEF new, old
    <3>2. PICK i \in DOMAIN q : q[i] = n
      BY <1>5, <3>1
    <3> QED
      BY <1>7, <3>2 DEF Known
  <2> QED
    BY <2>1, <2>2, <2>3
<1>11. ASSUME NEW n \in Known(old)
       PROVE  Atom(both, n) = Atom(old, n)
  <2>1. PICK i \in DOMAIN old : old[i] = n
    BY DEF Known
  <2> QED
    BY <1>6, <1>7, <1>9, <2>1, AtomOfName
<1> QED
  BY <1>7, <1>9, <1>10, <1>11 DEF old, both

LEMMA AtomsAreKept ==
  /\ \A S \in SUBSET Names : AtomInv /\ registered' \in WithAtoms(S) => AtomsKept /\ S \subseteq Known(registered')
  /\ AtomInv /\ registered' = registered => AtomsKept
<1>1. ASSUME NEW S \in SUBSET Names, AtomInv, registered' \in WithAtoms(S)
      PROVE  AtomsKept /\ S \subseteq Known(registered')
  <2>1. /\ registered' \in Seq(Names) /\ Single(registered')
        /\ Known(registered') = Known(registered) \cup S
        /\ \A n \in Known(registered) : Atom(registered', n) = Atom(registered, n)
    BY <1>1, AtomsAdded
  <2> QED
    BY <2>1 DEF AtomsKept, AtomInv
<1>2. ASSUME AtomInv, registered' = registered
      PROVE  AtomsKept
  BY <1>2 DEF AtomsKept, AtomInv
<1> QED
  BY <1>1, <1>2

LEMMA CompleteStays ==
  ASSUME NEW found, NEW type \in Types, AtomsKept, Complete(found, type, registered)
  PROVE  Complete(found, type, registered')
<1>1. \A n \in Methods[type] : Atom(registered', n) = Atom(registered, n)
  BY DEF Complete, AtomsKept
<1>2. {Atom(registered', n) : n \in Methods[type]} = {Atom(registered, n) : n \in Methods[type]}
  BY <1>1
<1> QED
  BY <1>1, <1>2 DEF Complete, AtomsKept

LEMMA CodesStay ==
  ASSUME CodeInv, TableInv, AtomsKept, UNCHANGED lazy_vars
  PROVE  CodeInv' /\ TableInv'
<1>1. namecalls' = namecalls /\ metatables' = metatables
  BY DEF lazy_vars
<1>3. ASSUME NEW l \in Libraries, NEW t \in Types
      PROVE  DOMAIN namecalls[l][t] = {} \/ Complete(namecalls[l][t], t, registered')
  BY CompleteStays DEF CodeInv
<1>4. ASSUME NEW s \in 1 .. MaxStates, NEW t \in Types, metatables[s][t] # None
      PROVE  Complete(namecalls[metatables[s][t]][t], t, registered')
  BY <1>4, CompleteStays DEF TableInv
<1> QED
  BY <1>1, <1>3, <1>4 DEF CodeInv, TableInv

LEMMA ImportStays ==
  ASSUME ImportInv, AtomsKept, UNCHANGED <<states, import_fn_atom>>
  PROVE  ImportInv'
BY DEF ImportInv, AtomsKept

\* The first instance of a type in a lua_State: its methods are known by their atoms.
LEMMA MethodsGetAtoms ==
  ASSUME NEW lib \in Libraries, NEW type \in Types, CodeInv, AtomInv,
         Cardinality(Names) <= AtomValues, init_namecalls(lib, type)
  PROVE  /\ AtomsKept /\ DOMAIN namecalls' = Libraries
         /\ \A l \in Libraries : DOMAIN namecalls'[l] = Types
         /\ \A l \in Libraries, t \in Types : <<l, t>> # <<lib, type>> => namecalls'[l][t] = namecalls[l][t]
         /\ Complete(namecalls'[lib][type], type, registered')
<1> DEFINE old == namecalls[lib][type]
           atoms == {Atom(registered', n) : n \in Methods[type]}
           method(a) == CHOOSE n \in Methods[type] : Atom(registered', n) = a
           new == [a \in DOMAIN old \cup atoms |-> IF a \in DOMAIN old THEN old[a] ELSE method(a)]
<1>1. AtomsKept /\ Methods[type] \subseteq Known(registered')
  BY AtomsAreKept, LazyTypesAssumption DEF init_namecalls
<1>2. namecalls' = [namecalls EXCEPT ![lib][type] = new]
  BY DEF init_namecalls
<1> HIDE DEF new
<1>3. /\ DOMAIN namecalls' = Libraries /\ \A l \in Libraries : DOMAIN namecalls'[l] = Types
      /\ \A l \in Libraries, t \in Types : <<l, t>> # <<lib, type>> => namecalls'[l][t] = namecalls[l][t]
      /\ namecalls'[lib][type] = new
  BY <1>2 DEF CodeInv
<1>4. Complete(new, type, registered')
  <2>1. CASE DOMAIN old = {}
    <3>1. \A m, n \in Known(registered') : Atom(registered', m) = Atom(registered', n) => m = n
      BY <1>1, AtomsDiffer DEF AtomsKept, AtomInv
    <3>2. \A n \in Methods[type] : method(Atom(registered', n)) = n
      BY <1>1, <3>1
    <3> QED
      BY <1>1, <2>1, <3>2 DEF Complete, new
  <2>2. CASE Complete(old, type, registered)
    <3>1. Complete(old, type, registered')
      BY <1>1, <2>2, CompleteStays
    <3> QED
      BY <3>1 DEF Complete, new
  <2> QED
    BY <2>1, <2>2 DEF CodeInv
<1> QED
  BY <1>1, <1>3, <1>4

\* A method is found by its atom, and nothing by other atoms.
LEMMA FoundByAtom ==
  ASSUME NEW found, NEW type \in Types, NEW name \in Known(registered'),
         AtomsKept, Cardinality(Names) <= AtomValues, Complete(found, type, registered')
  PROVE  /\ name \in Methods[type] => /\ Atom(registered', name) \in DOMAIN found
                                      /\ found[Atom(registered', name)] = name
         /\ name \notin Methods[type] => Atom(registered', name) \notin DOMAIN found
<1>1. \A m, n \in Known(registered') : Atom(registered', m) = Atom(registered', n) => m = n
  BY AtomsDiffer DEF AtomsKept, AtomInv
<1> QED
  BY <1>1 DEF Complete
-----------------------------------------------------------------------------
LEMMA InvInitially == Init => Inv
<1> SUFFICES ASSUME Init PROVE Inv
  OBVIOUS
<1>1. AtomInv
  BY DEF Init, AtomInv, Single
<1>2. CodeInv
  BY DEF Init, CodeInv
<1>3. TableInv
  BY DEF Init, TableInv
<1>4. ImportInv /\ MethodsAreFound
  BY DEF Init, ImportInv, MethodsAreFound, MethodsOf
<1> QED
  BY <1>1, <1>2, <1>3, <1>4 DEF Inv

LEMMA StateKeepsInv ==
  ASSUME Inv, new_state
  PROVE  Inv'
<1>1. AtomsKept /\ ImportFn \in Known(registered')
  <2>1. registered' \in WithAtoms({ImportFn}) /\ {ImportFn} \in SUBSET Names
    BY LazyTypesAssumption DEF new_state
  <2> QED
    BY <2>1, AtomsAreKept DEF Inv
<1>2. CodeInv' /\ TableInv'
  BY <1>1, CodesStay DEF Inv, new_state
<1>3. ImportInv'
  BY <1>1 DEF Inv, ImportInv, new_state
<1>4. MethodsAreFound'
  BY DEF Inv, MethodsAreFound, new_state
<1> QED
  BY <1>1, <1>2, <1>3, <1>4 DEF Inv, AtomsKept

LEMMA AtomKeepsInv ==
  ASSUME Inv, NEW name \in Names, stringatom(name)
  PROVE  Inv'
<1>1. AtomsKept
  <2>1. registered' \in WithAtoms({name}) /\ {name} \in SUBSET Names
    BY DEF stringatom
  <2> QED
    BY <2>1, AtomsAreKept DEF Inv
<1>2. CodeInv' /\ TableInv' /\ ImportInv'
  BY <1>1, CodesStay, ImportStays DEF Inv, stringatom
<1>3. MethodsAreFound'
  BY DEF Inv, MethodsAreFound, stringatom
<1> QED
  BY <1>1, <1>2, <1>3 DEF Inv, AtomsKept

LEMMA InstanceKeepsInv ==
  ASSUME Inv, Cardinality(Names) <= AtomValues,
         NEW s \in 1 .. MaxStates, NEW type \in Types, NEW lib \in Libraries, push_metatable(lib, type, s)
  PROVE  Inv'
<1>1. MethodsAreFound'
  BY DEF Inv, MethodsAreFound, push_metatable
<1>2. CASE FirstMetatable(s, type)
  <2>1. init_namecalls(lib, type)
    BY <1>2 DEF push_metatable
  <2>2. /\ AtomsKept /\ DOMAIN namecalls' = Libraries
        /\ \A l \in Libraries : DOMAIN namecalls'[l] = Types
        /\ \A l \in Libraries, t \in Types : <<l, t>> # <<lib, type>> => namecalls'[l][t] = namecalls[l][t]
        /\ Complete(namecalls'[lib][type], type, registered')
    BY <2>1, MethodsGetAtoms DEF Inv
  <2>3. ASSUME NEW l \in Libraries, NEW t \in Types
        PROVE  DOMAIN namecalls'[l][t] = {} \/ Complete(namecalls'[l][t], t, registered')
    <3>1. CASE <<l, t>> = <<lib, type>>
      BY <2>2, <3>1
    <3>2. CASE <<l, t>> # <<lib, type>>
      BY <2>2, <3>2, CompleteStays DEF Inv, CodeInv
    <3> QED
      BY <3>1, <3>2
  <2>4. /\ metatables' \in [1 .. MaxStates -> [Types -> Libraries \cup {None}]]
        /\ metatables'[s][type] = lib
        /\ \A r \in 1 .. MaxStates, t \in Types :
             <<r, t>> # <<s, type>> => metatables'[r][t] = metatables[r][t]
    BY <1>2 DEF push_metatable, FirstMetatable, Inv, TableInv
  <2>5. ASSUME NEW r \in 1 .. MaxStates, NEW t \in Types, metatables'[r][t] # None
        PROVE  Complete(namecalls'[metatables'[r][t]][t], t, registered')
    <3> DEFINE l == metatables'[r][t]
    <3>1. l \in Libraries
      BY <2>4, <2>5
    <3>2. CASE <<l, t>> = <<lib, type>>
      BY <2>2, <3>2
    <3>3. CASE <<l, t>> # <<lib, type>>
      <4>1. <<r, t>> # <<s, type>>
        BY <2>4, <3>3
      <4>2. Complete(namecalls[l][t], t, registered)
        BY <2>4, <2>5, <4>1 DEF Inv, TableInv
      <4> QED
        BY <2>2, <3>1, <3>3, <4>2, CompleteStays
    <3> QED
      BY <3>2, <3>3
  <2>6. ImportInv'
    BY <2>2, ImportStays DEF Inv, push_metatable
  <2> QED
    BY <1>1, <2>2, <2>3, <2>4, <2>5, <2>6 DEF Inv, CodeInv, TableInv, AtomsKept
<1>3. CASE ~FirstMetatable(s, type)
  <2>1. UNCHANGED <<registered, namecalls>>
    BY <1>3 DEF push_metatable
  <2>2. metatables' = metatables
    BY <1>3 DEF push_metatable, FirstMetatable, Inv, TableInv
  <2>3. AtomsKept
    BY <2>1, AtomsAreKept DEF Inv
  <2> QED
    BY <1>1, <2>1, <2>2, <2>3, CodesStay, ImportStays DEF Inv, AtomsKept, lazy_vars, push_metatable
<1> QED
  BY <1>2, <1>3

LEMMA CallKeepsInv ==
  ASSUME Inv, Cardinality(Names) <= AtomValues,
         NEW s \in 1 .. MaxStates, NEW type \in Types, NEW name \in Names, namecall(s, type, name)
  PROVE  Inv'
<1>1. AtomsKept /\ name \in Known(registered')
  <2>1. registered' \in WithAtoms({name}) /\ {name} \in SUBSET Names
    BY DEF namecall
  <2> QED
    BY <2>1, AtomsAreKept DEF Inv
<1>2. CodeInv' /\ TableInv' /\ ImportInv'
  BY <1>1, CodesStay, ImportStays DEF Inv, namecall
<1> DEFINE found == namecalls[metatables[s][type]][type]
           atom == Atom(registered', name)
<1>3. Complete(found, type, registered')
  BY <1>1, CompleteStays DEF Inv, TableInv, namecall
<1>4. called' = [type |-> type, name |-> name, method |-> IF atom \in DOMAIN found THEN found[atom] ELSE None]
  BY DEF namecall
<1>5. /\ name \in Methods[type] => atom \in DOMAIN found /\ found[atom] = name
      /\ name \notin Methods[type] => atom \notin DOMAIN found
  BY <1>1, <1>3, FoundByAtom
<1>6. MethodsAreFound'
  BY <1>4, <1>5, LazyTypesAssumption DEF MethodsAreFound, MethodsOf
<1> QED
  BY <1>1, <1>2, <1>6 DEF Inv, AtomsKept

LEMMA ImportKeepsInv ==
  ASSUME Inv, Cardinality(Names) <= AtomValues, NEW name \in Names, dlmodule_namecall(name)
  PROVE  Inv'
<1>1. AtomsKept /\ name \in Known(registered')
  <2>1. registered' \in WithAtoms({name}) /\ {name} \in SUBSET Names
    BY DEF dlmodule_namecall
  <2> QED
    BY <2>1, AtomsAreKept DEF Inv
<1>2. CodeInv' /\ TableInv' /\ ImportInv'
  BY <1>1, CodesStay, ImportStays DEF Inv, dlmodule_namecall
<1>3. import_fn_atom = Atom(registered', ImportFn) /\ ImportFn \in Known(registered')
  BY <1>1 DEF Inv, ImportInv, AtomsKept, dlmodule_namecall
<1>4. Atom(registered', name) = import_fn_atom <=> name = ImportFn
  BY <1>1, <1>3, AtomsDiffer DEF AtomsKept, AtomInv
<1>5. MethodsAreFound'
  BY <1>4 DEF MethodsAreFound, MethodsOf, dlmodule_namecall
<1> QED
  BY <1>1, <1>2, <1>5 DEF Inv, AtomsKept

\* Steps that concern types only, and stuttering.
LEMMA OthersKeepInv ==
  ASSUME Inv, UNCHANGED <<atom_vars, states, lazy_vars, called>>
  PROVE  Inv'
<1>1. AtomsKept
  BY AtomsAreKept DEF Inv, atom_vars
<1>2. CodeInv' /\ TableInv' /\ ImportInv'
  BY <1>1, CodesStay, ImportStays DEF Inv, atom_vars
<1>3. MethodsAreFound'
  BY DEF Inv, MethodsAreFound
<1> QED
  BY <1>1, <1>2, <1>3 DEF Inv, AtomsKept

LEMMA NextKeepsInv ==
  ASSUME Inv, Cardinality(Names) <= AtomValues, [Next]_vars
  PROVE  Inv'
<1>1. CASE new_state
  BY <1>1, StateKeepsInv
<1>2. CASE newuserdatatag
  BY <1>2, OthersKeepInv DEF newuserdatatag
<1>3. ASSUME NEW name \in Names, stringatom(name) \/ dlmodule_namecall(name)
      PROVE  Inv'
  BY <1>3, AtomKeepsInv, ImportKeepsInv
<1>4. ASSUME NEW name \in TypeNames, registertype(name) \/ registertypetagged(name)
      PROVE  Inv'
  BY <1>4, OthersKeepInv DEF registertype, registertypetagged
<1>5. ASSUME NEW s \in 1 .. MaxStates, NEW type \in Types, NEW lib \in Libraries, push_metatable(lib, type, s)
      PROVE  Inv'
  BY <1>5, InstanceKeepsInv
<1>6. ASSUME NEW s \in 1 .. MaxStates, NEW type \in Types, NEW name \in Names, namecall(s, type, name)
      PROVE  Inv'
  BY <1>6, CallKeepsInv
<1>7. CASE UNCHANGED vars
  BY <1>7, OthersKeepInv DEF vars
<1> QED
  BY <1>1, <1>2, <1>3, <1>4, <1>5, <1>6, <1>7 DEF Next

\* A method call runs the method of its name (Lazy_type.hpp:103-137, dlmodule.cpp:30-42), for
\* all libraries, types and lua_States, if an atom has as many values as there are names.
THEOREM MethodsAreFoundCorrect ==
  ASSUME Cardinality(Names) <= AtomValues
  PROVE  Spec => []MethodsAreFound
<1>1. Inv /\ [Next]_vars => Inv'
  BY NextKeepsInv
<1>2. Inv => MethodsAreFound
  BY DEF Inv
<1> QED
  BY <1>1, <1>2, InvInitially, PTL DEF Spec

\* No two names have the same atom, and no name has two (string_atom.cpp:12-25), under the
\* same condition.
THEOREM AtomsAreNamesCorrect ==
  ASSUME Cardinality(Names) <= AtomValues
  PROVE  Spec => []AtomsAreNames
<1>1. Inv /\ [Next]_vars => Inv'
  BY NextKeepsInv
<1>2. Inv => AtomsAreNames
  BY AtomsDiffer DEF Inv, AtomInv, AtomsAreNames, Single
<1> QED
  BY <1>1, <1>2, InvInitially, PTL DEF Spec
-----------------------------------------------------------------------------
\* What the compiler is told and the tags do not depend on atoms.
ListInv == zarray.at \in Nat /\ CompilerSeesTypes
TagInv ==
  /\ registry \subseteq TypeNames /\ tags \in [TypeNames -> Nat] /\ curr_type_tag \in Nat \ {0}
  /\ \A n \in TypeNames \ registry : tags[n] = 0
  /\ \A n \in registry : tags[n] < curr_type_tag
  /\ \A m, n \in registry : m # n /\ tags[m] = tags[n] => tags[n] = 0
TypeInv == ListInv /\ TagInv
TagStep ==
  /\ \A n \in registry : tags'[n] = tags[n]
  /\ \A m, n \in registry' : m # n /\ tags'[m] = tags'[n] => tags'[n] = 0
  /\ \A n \in registry' : tags'[n] < curr_type_tag'

\* A name is added: the array may move, and userdataTypes follows it.
LEMMA ListIsSynced ==
  ASSUME ListInv, NEW name, registry' = registry \cup {name}, sync_containers(registry')
  PROVE  ListInv'
<1>1. PICK at \in Places : zarray' = [at |-> at, names |-> registry']
  BY DEF sync_containers
<1>2. at \in Nat \ {0}
  BY DEF Places, ListInv
<1> QED
  BY <1>1, <1>2 DEF sync_containers, ListInv, CompilerSeesTypes

LEMMA AddKeepsTypeInv ==
  ASSUME TypeInv, NEW name \in TypeNames, name \notin registry, add(name)
  PROVE  TypeInv' /\ TagStep
<1>1. ListInv'
  BY ListIsSynced DEF TypeInv, add
<1>2. registry' = registry \cup {name} /\ tags' = tags /\ curr_type_tag' = curr_type_tag
  BY DEF add
<1>3. TagInv'
  BY <1>2 DEF TypeInv, TagInv
<1> QED
  BY <1>1, <1>2, <1>3 DEF TypeInv, TagInv, TagStep

LEMMA AddTaggedKeepsTypeInv ==
  ASSUME TypeInv, NEW name \in TypeNames, name \notin registry, add_tagged(name)
  PROVE  TypeInv' /\ TagStep
<1>1. ListInv'
  BY ListIsSynced DEF TypeInv, add_tagged
<1>2. /\ registry' = registry \cup {name} /\ curr_type_tag' = curr_type_tag + 1
      /\ tags' = [tags EXCEPT ![name] = curr_type_tag]
  BY DEF add_tagged, NewTag
<1>3. /\ tags' \in [TypeNames -> Nat] /\ tags'[name] = curr_type_tag
      /\ \A n \in registry : tags'[n] = tags[n]
  BY <1>2 DEF TypeInv, TagInv
<1>4. TagInv'
  BY <1>2, <1>3 DEF TypeInv, TagInv
<1> QED
  BY <1>1, <1>3, <1>4 DEF TypeInv, TagInv, TagStep

\* Tags that are given away, and steps that have nothing to do with types.
LEMMA CountingKeepsTypeInv ==
  ASSUME TypeInv, UNCHANGED <<registry, tags, zarray, userdataTypes>>,
         curr_type_tag' \in {curr_type_tag, curr_type_tag + 1}
  PROVE  TypeInv' /\ TagStep
<1>1. ListInv'
  BY DEF TypeInv, ListInv, CompilerSeesTypes
<1>2. TagInv'
  BY DEF TypeInv, TagInv
<1> QED
  BY <1>1, <1>2 DEF TypeInv, TagInv, TagStep

LEMMA NextKeepsTypeInv ==
  ASSUME TypeInv, [Next]_vars
  PROVE  TypeInv' /\ TagStep
<1>1. ASSUME UNCHANGED type_vars
      PROVE  TypeInv' /\ TagStep
  BY <1>1, CountingKeepsTypeInv DEF type_vars
<1>2. CASE newuserdatatag
  BY <1>2, CountingKeepsTypeInv DEF newuserdatatag
<1>3. ASSUME NEW name \in TypeNames, registertype(name)
      PROVE  TypeInv' /\ TagStep
  BY <1>1, <1>3, AddKeepsTypeInv DEF registertype, Registered
<1>4. ASSUME NEW name \in TypeNames, registertypetagged(name)
      PROVE  TypeInv' /\ TagStep
  BY <1>1, <1>4, AddTaggedKeepsTypeInv DEF registertypetagged, Registered
<1>5. ASSUME NEW s \in 1 .. MaxStates, NEW type \in Types, NEW lib \in Libraries, push_metatable(lib, type, s)
      PROVE  TypeInv' /\ TagStep
  <2>1. type \in TypeNames
    BY DEF TypeNames
  <2> QED
    BY <1>1, <1>5, <2>1, AddKeepsTypeInv DEF push_metatable, Registered
<1>6. CASE new_state
  BY <1>1, <1>6 DEF new_state
<1>7. ASSUME NEW name \in Names, stringatom(name) \/ dlmodule_namecall(name)
      PROVE  TypeInv' /\ TagStep
  BY <1>1, <1>7 DEF stringatom, dlmodule_namecall
<1>8. ASSUME NEW s \in 1 .. MaxStates, NEW type \in Types, NEW name \in Names, namecall(s, type, name)
      PROVE  TypeInv' /\ TagStep
  BY <1>1, <1>8 DEF namecall
<1>9. CASE UNCHANGED vars
  BY <1>1, <1>9 DEF vars
<1> QED
  BY <1>2, <1>3, <1>4, <1>5, <1>6, <1>7, <1>8, <1>9 DEF Next

LEMMA TypeInvInitially == Init => TypeInv
<1> SUFFICES ASSUME Init PROVE TypeInv
  OBVIOUS
<1>1. ListInv
  BY DEF Init, ListInv, CompilerSeesTypes
<1>2. TagInv
  BY DEF Init, TagInv
<1> QED
  BY <1>1, <1>2 DEF TypeInv

\* The compiler is pointed to the list of all types at all times (type_related.cpp:37-45, 51-63).
THEOREM CompilerSeesTypesCorrect == Spec => []CompilerSeesTypes
<1>1. TypeInv /\ [Next]_vars => TypeInv'
  BY NextKeepsTypeInv
<1>2. TypeInv => CompilerSeesTypes
  BY DEF TypeInv, ListInv
<1> QED
  BY <1>1, <1>2, TypeInvInitially, PTL DEF Spec

\* Types have a tag of their own or none, and keep it (type_related.cpp:10-13, 57-67, 94-98).
THEOREM TagsStayCorrect == Spec => TagsStay
<1>1. TypeInv /\ [Next]_vars => TypeInv'
  BY NextKeepsTypeInv
<1>2. TypeInv /\ [Next]_vars => [TagStep]_vars
  BY NextKeepsTypeInv
<1>3. TagsStay <=> [][TagStep]_vars
  BY DEF TagsStay, TagStep
<1> QED
  BY <1>1, <1>2, <1>3, TypeInvInitially, PTL DEF Spec
-----------------------------------------------------------------------------
\* Nor do the types: whose functions a metatable has, and what is found in them.
CountInv == calls \in 0 .. MaxCalls /\ states \in 0 .. MaxStates
FoundInv ==
  /\ DOMAIN namecalls = Libraries /\ \A l \in Libraries : DOMAIN namecalls[l] = Types
  /\ \A l \in Libraries, t \in Types : \A a \in DOMAIN namecalls[l][t] : namecalls[l][t][a] \in Methods[t]
OwnerInv ==
  /\ metatables \in [1 .. MaxStates -> [Types -> Libraries \cup {None}]]
  /\ \A s \in 1 .. MaxStates, t \in Types :
       metatables[s][t] # None => s <= states /\ t \in Contains[metatables[s][t]] /\ t \in registry
SortInv == AtomInv /\ CountInv /\ FoundInv /\ OwnerInv

LEMMA AtomsAsked ==
  ASSUME AtomInv, NEW S \in SUBSET Names, registered' \in WithAtoms(S)
  PROVE  AtomInv'
BY AtomsAreKept DEF AtomsKept

LEMMA CallCounts ==
  ASSUME CountInv, Call, UNCHANGED states
  PROVE  CountInv'
BY LazyTypesAssumption DEF CountInv, Call

\* There may be more states, and more types, but the metatables are the same.
LEMMA SortStays ==
  ASSUME SortInv, AtomInv', CountInv', states <= states', registry \subseteq registry', UNCHANGED lazy_vars
  PROVE  SortInv'
<1>1. FoundInv'
  BY DEF SortInv, FoundInv, lazy_vars
<1>2. OwnerInv'
  <2> SUFFICES ASSUME NEW s \in 1 .. MaxStates, NEW t \in Types, metatables[s][t] # None
               PROVE  s <= states' /\ t \in Contains[metatables[s][t]] /\ t \in registry'
    BY DEF SortInv, OwnerInv, lazy_vars
  <2>1. s <= states /\ t \in Contains[metatables[s][t]] /\ t \in registry
    BY DEF SortInv, OwnerInv
  <2>2. s \in Int /\ states \in Int /\ states' \in Int
    BY DEF SortInv, CountInv
  <2> QED
    BY <2>1, <2>2
<1> QED
  BY <1>1, <1>2 DEF SortInv

LEMMA SameAtoms ==
  ASSUME SortInv, UNCHANGED <<atom_vars, states, lazy_vars>>, Call \/ UNCHANGED calls,
         registry \subseteq registry'
  PROVE  SortInv'
<1>1. AtomInv'
  BY DEF SortInv, AtomInv, atom_vars
<1>2. CountInv'
  BY CallCounts DEF SortInv, CountInv
<1>3. states <= states'
  BY DEF SortInv, CountInv
<1> QED
  BY <1>1, <1>2, <1>3, SortStays

LEMMA InstanceKeepsSorts ==
  ASSUME SortInv, NEW s \in 1 .. MaxStates, NEW type \in Types, NEW lib \in Libraries,
         push_metatable(lib, type, s)
  PROVE  SortInv'
<1>1. registry' = registry \cup {type}
  BY DEF push_metatable, Registered, type_vars, add
<1>2. CountInv' /\ s <= states /\ UNCHANGED states /\ type \in Contains[lib]
  BY CallCounts, LazyTypesAssumption DEF push_metatable, SortInv, CountInv
<1>3. OwnerInv'
  <2>1. metatables' = [metatables EXCEPT ![s][type] = IF @ = None THEN lib ELSE @]
    BY DEF push_metatable
  <2>2. /\ metatables' \in [1 .. MaxStates -> [Types -> Libraries \cup {None}]]
        /\ metatables'[s][type] = (IF metatables[s][type] = None THEN lib ELSE metatables[s][type])
        /\ \A r \in 1 .. MaxStates, t \in Types :
             <<r, t>> # <<s, type>> => metatables'[r][t] = metatables[r][t]
    BY <2>1 DEF SortInv, OwnerInv
  <2> SUFFICES ASSUME NEW r \in 1 .. MaxStates, NEW t \in Types, metatables'[r][t] # None
               PROVE  r <= states' /\ t \in Contains[metatables'[r][t]] /\ t \in registry'
    BY <2>2 DEF OwnerInv
  <2>3. CASE metatables'[r][t] = metatables[r][t]
    BY <1>1, <1>2, <2>3 DEF SortInv, OwnerInv
  <2>4. CASE metatables'[r][t] # metatables[r][t]
    BY <1>1, <1>2, <2>2, <2>4
  <2> QED
    BY <2>3, <2>4
<1>4. AtomInv' /\ FoundInv'
  <2>1. CASE FirstMetatable(s, type)
    <3> DEFINE old == namecalls[lib][type]
               atoms == {Atom(registered', n) : n \in Methods[type]}
               method(a) == CHOOSE n \in Methods[type] : Atom(registered', n) = a
               new == [a \in DOMAIN old \cup atoms |-> IF a \in DOMAIN old THEN old[a] ELSE method(a)]
    <3>1. /\ registered' \in WithAtoms(Methods[type])
          /\ namecalls' = [namecalls EXCEPT ![lib][type] = new]
      BY <2>1 DEF push_metatable, init_namecalls
    <3>2. AtomInv'
      BY <3>1, AtomsAsked, LazyTypesAssumption DEF SortInv
    <3>3. \A a \in DOMAIN new : new[a] \in Methods[type]
      <4>1. \A a \in atoms : method(a) \in Methods[type]
        OBVIOUS
      <4>2. \A a \in DOMAIN old : old[a] \in Methods[type]
        BY DEF SortInv, FoundInv
      <4> QED
        BY <4>1, <4>2
    <3> HIDE DEF new
    <3>4. FoundInv'
      BY <3>1, <3>3 DEF SortInv, FoundInv
    <3> QED
      BY <3>2, <3>4
  <2>2. CASE ~FirstMetatable(s, type)
    BY <2>2 DEF push_metatable, SortInv, AtomInv, FoundInv
  <2> QED
    BY <2>1, <2>2
<1> QED
  BY <1>2, <1>3, <1>4 DEF SortInv

LEMMA NextKeepsSorts ==
  ASSUME SortInv, [Next]_vars
  PROVE  SortInv'
<1>1. CASE new_state
  <2>1. AtomInv'
    BY <1>1, AtomsAsked, LazyTypesAssumption DEF new_state, SortInv
  <2>2. CountInv' /\ states <= states'
    BY <1>1, LazyTypesAssumption DEF new_state, SortInv, CountInv
  <2> QED
    BY <1>1, <2>1, <2>2, SortStays DEF new_state, type_vars
<1>2. CASE newuserdatatag
  BY <1>2, SameAtoms DEF newuserdatatag
<1>3. ASSUME NEW name \in Names, stringatom(name) \/ dlmodule_namecall(name)
      PROVE  SortInv'
  <2>1. AtomInv' /\ CountInv'
    BY <1>3, AtomsAsked, CallCounts DEF stringatom, dlmodule_namecall, SortInv
  <2>2. states' = states /\ states <= states' /\ registry' = registry /\ UNCHANGED lazy_vars
    BY <1>3 DEF stringatom, dlmodule_namecall, type_vars, SortInv, CountInv
  <2> QED
    BY <2>1, <2>2, SortStays
<1>4. ASSUME NEW name \in TypeNames, registertype(name) \/ registertypetagged(name)
      PROVE  SortInv'
  <2>1. registry \subseteq registry'
    BY <1>4 DEF registertype, registertypetagged, type_vars, add, add_tagged
  <2> QED
    BY <1>4, <2>1, SameAtoms DEF registertype, registertypetagged
<1>5. ASSUME NEW s \in 1 .. MaxStates, NEW type \in Types, NEW lib \in Libraries, push_metatable(lib, type, s)
      PROVE  SortInv'
  BY <1>5, InstanceKeepsSorts
<1>6. ASSUME NEW s \in 1 .. MaxStates, NEW type \in Types, NEW name \in Names, namecall(s, type, name)
      PROVE  SortInv'
  <2>1. AtomInv' /\ CountInv'
    BY <1>6, AtomsAsked, CallCounts DEF namecall, SortInv
  <2>2. states' = states /\ states <= states' /\ registry' = registry /\ UNCHANGED lazy_vars
    BY <1>6 DEF namecall, type_vars, SortInv, CountInv
  <2> QED
    BY <2>1, <2>2, SortStays
<1>7. CASE UNCHANGED vars
  BY <1>7, SameAtoms DEF vars, type_vars
<1> QED
  BY <1>1, <1>2, <1>3, <1>4, <1>5, <1>6, <1>7 DEF Next

LEMMA SortsInitially == Init => SortInv
<1> SUFFICES ASSUME Init PROVE SortInv
  OBVIOUS
<1>1. AtomInv
  BY DEF Init, AtomInv, Single
<1>2. CountInv
  BY LazyTypesAssumption DEF Init, CountInv
<1>3. FoundInv
  BY DEF Init, FoundInv
<1>4. OwnerInv
  BY DEF Init, OwnerInv
<1> QED
  BY <1>1, <1>2, <1>3, <1>4 DEF SortInv

\* A metatable has functions of a library that contains the type, of a registered type, in a
\* lua_State there has been, and what it finds is a method of the type (Lazy_type.hpp:103-137).
THEOREM LazyTypesTypeCorrect == Spec => []LazyTypesTypeOK
<1>1. TypeInv /\ [Next]_vars => TypeInv'
  BY NextKeepsTypeInv
<1>2. SortInv /\ [Next]_vars => SortInv'
  BY NextKeepsSorts
<1>3. TypeInv /\ SortInv => LazyTypesTypeOK
  BY DEF TypeInv, TagInv, SortInv, AtomInv, CountInv, FoundInv, OwnerInv, LazyTypesTypeOK
<1> QED
  BY <1>1, <1>2, <1>3, TypeInvInitially, SortsInitially, PTL DEF Spec
=============================================================================
