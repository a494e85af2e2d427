----------------------------- MODULE LazyTypes -----------------------------
(***************************************************************************)
(* The names that libraries and scripts share: string atoms, the types of  *)
(* userdata that the compiler knows, their tags, and the metatables of     *)
(* Lazy_type, through which a method is found by the atom of its name.     *)
(*                                                                         *)
(* Std is linked statically, so each library has statics of its own for    *)
(* the types it contains, while a lua_State has one metatable per type, of *)
(* the library that needed it first.  The statics outlive lua_States.      *)
(***************************************************************************)
EXTENDS Integers, Sequences, FiniteSets

CONSTANTS
  Names,        \* strings whose atom is asked for
  ImportFn,     \* "import_fn", the only method of a dlmodule
  AtomValues,   \* how many values an atom can have, 2^16
  Types,        \* full names of Lazy_types
  Methods,      \* init_info.namecall of each
  Libraries,
  Contains,     \* the types that are linked into a library
  Plain,        \* names that libraries register on their own account
  None,
  MaxStates,    \* bound: lua_States of the process
  MaxCalls      \* bound: calls by libraries and scripts

ASSUME LazyTypesAssumption ==
  /\ IsFiniteSet(Names) /\ ImportFn \in Names
  /\ AtomValues \in Nat \ {0} /\ AtomValues % 2 = 0
  /\ Methods \in [Types -> SUBSET Names] /\ Contains \in [Libraries -> SUBSET Types]
  /\ IsFiniteSet(Types \cup Plain) /\ "dlmodule" \notin Types
  /\ None \notin Names \cup Libraries
  /\ MaxStates \in Nat /\ MaxCalls \in Nat

VARIABLES
  registered,      \* stringatom_registry: the names that have an atom, in the order they got it
  import_fn_atom,
  states,          \* how many lua_States there have been
  registry,        \* the names of types in Userdata_type_registry
  tags,            \* 0 for none
  curr_type_tag,
  zarray,          \* where the array is, and the types it lists
  userdataTypes,   \* where compile_options points, 0 for null
  namecalls,       \* namecall_ of each library and type
  metatables,      \* per lua_State and type the library whose functions it has
  called,          \* the last method call: type, name, and the method that ran
  calls

atom_vars == <<registered, import_fn_atom>>
type_vars == <<registry, tags, curr_type_tag, zarray, userdataTypes>>
lazy_vars == <<namecalls, metatables>>
vars == <<atom_vars, states, type_vars, lazy_vars, called, calls>>

TypeNames == Types \cup Plain
Call == calls < MaxCalls /\ calls' = calls + 1
-----------------------------------------------------------------------------
\* ++ of the counter, from 0, wraps like an int16_t.
Wrapped(i) == ((i + AtomValues \div 2) % AtomValues) - AtomValues \div 2
Known(names) == {names[i] : i \in DOMAIN names}
Atom(names, name) == Wrapped(CHOOSE i \in DOMAIN names : names[i] = name)

\* default_useratom, for each of a set of names.  The order in which the methods of a type
\* get their atoms is left open.
Orders(S) ==
  {q \in [1 .. Cardinality(S) -> S] : \A i, j \in 1 .. Cardinality(S) : q[i] = q[j] => i = j}
WithAtomsAgain(names) == {registered \o q : q \in Orders(names)}   \* mutant
WithAtoms(names) == {registered \o q : q \in Orders(names \ Known(registered))}

\* dluau_stringatom, dluau_lstringatom, lua_tostringatom
stringatom(name) ==
  /\ Call /\ states > 0
  /\ registered' \in WithAtoms({name})
  /\ UNCHANGED <<import_fn_atom, states, type_vars, lazy_vars, called>>

\* setup_state, which ends with dluau_Dlmodule::init
new_state ==
  /\ states < MaxStates /\ states' = states + 1
  /\ registered' \in WithAtoms({ImportFn})
  /\ import_fn_atom' = Atom(registered', ImportFn)
  /\ UNCHANGED <<type_vars, lazy_vars, called, calls>>
-----------------------------------------------------------------------------
\* sync_containers after a name was added: resize may move the array, and the caller has
\* compile_options follow it.
Places == IF zarray.at = 0 THEN {1} ELSE {zarray.at, zarray.at + 1}
sync_containersOnce(names) ==   \* mutant
  /\ \E at \in Places : zarray' = [at |-> at, names |-> names]
  /\ userdataTypes' = IF userdataTypes = 0 THEN zarray'.at ELSE userdataTypes
sync_containers(names) ==
  /\ \E at \in Places : zarray' = [at |-> at, names |-> names]
  /\ userdataTypes' = zarray'.at

add(name) ==
  /\ registry' = registry \cup {name} /\ sync_containers(registry')
  /\ UNCHANGED <<tags, curr_type_tag>>
NewTagCounted(name) ==   \* mutant
  tags' = [tags EXCEPT ![name] = Cardinality(registry) + 1] /\ UNCHANGED curr_type_tag
NewTag(name) ==
  tags' = [tags EXCEPT ![name] = curr_type_tag] /\ curr_type_tag' = curr_type_tag + 1
add_tagged(name) ==
  registry' = registry \cup {name} /\ sync_containers(registry') /\ NewTag(name)

\* dluau_registertype, dluau_registertypetagged and dluau_newuserdatatag.
RegisteredAny(name) == registry # {}   \* mutant
Registered(name) == name \in registry
registertype(name) ==
  /\ Call
  /\ \/ Registered(name) /\ UNCHANGED type_vars
     \/ ~Registered(name) /\ add(name)
  /\ UNCHANGED <<atom_vars, states, lazy_vars, called>>
registertypetagged(name) ==
  /\ Call
  /\ \/ Registered(name) /\ UNCHANGED type_vars
     \/ ~Registered(name) /\ add_tagged(name)
  /\ UNCHANGED <<atom_vars, states, lazy_vars, called>>
newuserdatatag ==
  /\ Call /\ curr_type_tag' = curr_type_tag + 1
  /\ UNCHANGED <<atom_vars, states, registry, tags, zarray, userdataTypes, lazy_vars, called>>
-----------------------------------------------------------------------------
\* emplace: the atoms of the type's methods, and the methods.
init_namecalls(lib, type) ==
  /\ registered' \in WithAtoms(Methods[type])
  /\ LET old == namecalls[lib][type]
         atoms == {Atom(registered', n) : n \in Methods[type]}
     IN namecalls' = [namecalls EXCEPT ![lib][type] =
          [a \in DOMAIN old \cup atoms |->
             IF a \in DOMAIN old THEN old[a]
             ELSE CHOOSE n \in Methods[type] : Atom(registered', n) = a]]

\* A library pushes an instance: push_metatable.
FirstMetatableOnce(s, type) == \A r \in 1 .. s : metatables[r][type] = None   \* mutant
FirstMetatable(s, type) == metatables[s][type] = None
push_metatable(lib, type, s) ==
  /\ Call /\ type \in Contains[lib] /\ s \in 1 .. states
  /\ metatables' = [metatables EXCEPT ![s][type] = IF @ = None THEN lib ELSE @]
  /\ IF FirstMetatable(s, type) THEN init_namecalls(lib, type) ELSE UNCHANGED <<registered, namecalls>>
  /\ \/ Registered(type) /\ UNCHANGED type_vars
     \/ ~Registered(type) /\ add(type)
  /\ UNCHANGED <<import_fn_atom, states, called>>

\* metamethod_namecall: the VM asks for the atom of the name first.
namecall(s, type, name) ==
  /\ Call /\ s \in 1 .. states /\ metatables[s][type] # None
  /\ registered' \in WithAtoms({name})
  /\ LET found == namecalls[metatables[s][type]][type]
         atom == Atom(registered', name)
     IN called' = [type |-> type, name |-> name,
                   method |-> IF atom \in DOMAIN found THEN found[atom] ELSE None]
  /\ UNCHANGED <<import_fn_atom, states, type_vars, lazy_vars>>

\* namecall of a dlmodule
dlmodule_namecall(name) ==
  /\ Call /\ states > 0
  /\ registered' \in WithAtoms({name})
  /\ called' = [type |-> "dlmodule", name |-> name,
                method |-> IF Atom(registered', name) = import_fn_atom THEN ImportFn ELSE None]
  /\ UNCHANGED <<import_fn_atom, states, type_vars, lazy_vars>>
-----------------------------------------------------------------------------
Init ==
  /\ registered = <<>> /\ import_fn_atom = -1 /\ states = 0
  /\ registry = {} /\ tags = [n \in TypeNames |-> 0] /\ curr_type_tag = 1
  /\ zarray = [at |-> 0, names |-> {}] /\ userdataTypes = 0
  /\ namecalls = [l \in Libraries |-> [t \in Types |-> <<>>]]
  /\ metatables = [s \in 1 .. MaxStates |-> [t \in Types |-> None]]
  /\ called = [type |-> "dlmodule", name |-> ImportFn, method |-> ImportFn] /\ calls = 0

Next ==
  \/ new_state
  \/ newuserdatatag
  \/ \E name \in Names : stringatom(name) \/ dlmodule_namecall(name)
  \/ \E name \in TypeNames : registertype(name) \/ registertypetagged(name)
  \/ \E s \in 1 .. MaxStates, type \in Types :
       \/ \E lib \in Libraries : push_metatable(lib, type, s)
       \/ \E name \in Names : namecall(s, type, name)

Spec == Init /\ [][Next]_vars
-----------------------------------------------------------------------------
\* Types: metatables are of states there have been, of a library that contains the type and
\* of a type that is registered; what is found by an atom is a method of its type.
LazyTypesTypeOK ==
  /\ registered \in Seq(Names) /\ calls \in 0 .. MaxCalls /\ states \in 0 .. MaxStates
  /\ registry \subseteq TypeNames /\ tags \in [TypeNames -> Nat] /\ curr_type_tag \in Nat
  /\ \A l \in Libraries, t \in Types : \A a \in DOMAIN namecalls[l][t] : namecalls[l][t][a] \in Methods[t]
  /\ \A s \in 1 .. MaxStates, t \in Types :
       metatables[s][t] # None => s <= states /\ t \in Contains[metatables[s][t]] /\ t \in registry

\* An atom stands for one name (string_atom.cpp:12-25), as long as there are no more names
\* than values of an int16_t.
AtomsAreNames ==
  \A i, j \in DOMAIN registered :
    Wrapped(i) = Wrapped(j) \/ registered[i] = registered[j] => i = j

\* A method call runs the method of that name, and is refused if the type has none, whichever
\* library made the object or its metatable, and in whichever lua_State of the process
\* (Lazy_type.hpp:103-137, 163-171, dlmodule.cpp:30-42).
MethodsOf(type) == IF type = "dlmodule" THEN {ImportFn} ELSE Methods[type]
MethodsAreFound ==
  called.method = IF called.name \in MethodsOf(called.type) THEN called.name ELSE None

\* The compiler is pointed to the list of all the types registered so far
\* (type_related.cpp:37-45, 51-63, 94-102).
CompilerSeesTypes ==
  userdataTypes = zarray.at /\ zarray.names = registry /\ (registry # {} => userdataTypes # 0)

\* Types have a tag of their own or none, and what a library was told once stays true
\* (type_related.cpp:10-13, 57-67, 94-98).
TagsStay ==
  [][/\ \A n \in registry : tags'[n] = tags[n]
     /\ \A m, n \in registry' : m # n /\ tags'[m] = tags'[n] => tags'[n] = 0
     /\ \A n \in registry' : tags'[n] < curr_type_tag']_vars
=============================================================================
