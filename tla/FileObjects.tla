---------------------------- MODULE FileObjects ----------------------------
(***************************************************************************)
(* The objects that std.fs gives scripts for files, directories and        *)
(* symbolic links (Std/Fs).  An object is a path and no handle: what it    *)
(* stands for is whatever its path leads to when it is used, while the     *)
(* script moves, removes and makes entries through other objects, through  *)
(* paths, and through the object itself.                                   *)
(*                                                                         *)
(* A path is the sequence of its names below the working directory, which  *)
(* stays; absolute and relative paths differ only as the target of a link. *)
(* The file system is external and is modelled by what Std/Fs uses of it.  *)
(***************************************************************************)
EXTENDS Naturals, Sequences, FiniteSets, SequencesExt

CONSTANTS
  Names,       \* of entries
  Trees,       \* what may be there at first: every entry but the first in a directory
  Given,       \* the paths that scripts write
  Links,       \* the targets they give links
  MaxDepth,    \* bound: names in the path of an entry
  MaxHops,     \* bound: links followed for one path
  MaxObjects,  \* bound: objects made by scripts
  MaxCalls     \* bound: calls by scripts

VARIABLES
  tree,       \* per path of an entry its kind and identity, and the target of a link
  objects,    \* the userdata: type and path
  iterators,  \* the closures of each_child and each_descendant
  unbuilt,    \* whether a userdata awaits its destructor, but was never constructed
  undefined,  \* whether such a destructor has run
  calls,
  origin      \* history: per object what it was made for, and what has led it astray

vars == <<tree, objects, iterators, unbuilt, undefined, calls, origin>>

Paths == UNION {[1 .. n -> Names] : n \in 0 .. MaxDepth}
Kinds == {"file", "directory", "symlink", "other"}
NoTarget == [absolute |-> TRUE, steps |-> <<>>]
Targets == [absolute : BOOLEAN, steps : Paths]
Nowhere == [call |-> 0, path |-> <<>>]
Ids == [call : 0 .. MaxCalls, path : Paths]

ASSUME FileObjectsAssumption ==
  /\ IsFiniteSet(Names) /\ MaxDepth \in Nat /\ MaxHops \in Nat
  /\ MaxObjects \in Nat /\ MaxCalls \in Nat
  /\ Given \subseteq Paths /\ Links \subseteq Targets
  /\ \A t \in Trees :
       /\ DOMAIN t \subseteq Paths /\ <<>> \in DOMAIN t /\ t[<<>>].kind = "directory"
       /\ \A q \in DOMAIN t :
            /\ t[q] \in [kind : Kinds, id : {[call |-> 0, path |-> q]}, target : Targets]
            /\ q # <<>> => Front(q) \in DOMAIN t /\ t[Front(q)].kind = "directory"
-----------------------------------------------------------------------------
\* Where a path leads: Place to the entry of that name, Landing through it if it is a link.
FirstSteps(p, n) == SubSeq(p, 1, n)
LinksOn(p) ==
  {n \in 1 .. Len(p) : FirstSteps(p, n) \in DOMAIN tree /\ tree[FirstSteps(p, n)].kind = "symlink"}
Target(link) ==
  IF tree[link].target.absolute THEN tree[link].target.steps
                                ELSE Front(link) \o tree[link].target.steps
Hop(p) ==
  IF LinksOn(p) = {} THEN p
  ELSE LET n == CHOOSE m \in LinksOn(p) : \A k \in LinksOn(p) : m <= k
       IN Target(FirstSteps(p, n)) \o SubSeq(p, n + 1, Len(p))
Hops(p) == LET h[n \in 0 .. MaxHops] == IF n = 0 THEN p ELSE Hop(h[n - 1]) IN h
Landing(p) == Hops(p)[MaxHops]
Place(p) == IF p = <<>> THEN p ELSE Append(Landing(Front(p)), Last(p))

Found(p) == p \in DOMAIN tree
Exists(p) == Found(Landing(p)) /\ tree[Landing(p)].kind # "symlink"
Kind(p) == IF Exists(p) THEN tree[Landing(p)].kind ELSE "none"
IsDirectory(q) == Found(q) /\ tree[q].kind = "directory"
Under(p) == {q \in DOMAIN tree : IsPrefix(p, q)}
Children(p) == {q \in Under(p) : Len(q) = Len(p) + 1}

\* An entry can be made, or moved, to a place: the directory is there, the place is free.
Entry(kind, q, target) ==
  [kind |-> kind, id |-> [call |-> calls + 1, path |-> q], target |-> target]
Free(q) == q # <<>> /\ Len(q) <= MaxDepth /\ ~Found(q) /\ IsDirectory(Front(q))
Put(q, entry) == tree' = [p \in DOMAIN tree \cup {q} |-> IF p = q THEN entry ELSE tree[p]]
Drop(paths) == tree' = [p \in DOMAIN tree \ paths |-> tree[p]]

\* rename replaces what is no directory by what is none.
Movable(from, to) ==
  /\ from # <<>> /\ Found(from)
  /\ ~IsStrictPrefix(from, to) /\ to # <<>> /\ IsDirectory(Front(to))
  /\ \A q \in Under(from) : Len(to) + Len(q) - Len(from) <= MaxDepth
  /\ Found(to) /\ to # from =>
       tree[from].kind # "directory" /\ tree[to].kind # "directory"
Replaced(from, to) == IF from = to THEN {} ELSE Under(from) \cup ({to} \cap DOMAIN tree)
Move(from, to) ==
  LET below == {SubSeq(q, Len(from) + 1, Len(q)) : q \in Under(from)}
      stay == DOMAIN tree \ Under(from)
  IN tree' = [p \in stay \cup {to \o s : s \in below} |->
                IF IsPrefix(to, p) /\ SubSeq(p, Len(to) + 1, Len(p)) \in below
                THEN tree[from \o SubSeq(p, Len(to) + 1, Len(p))] ELSE tree[p]]
-----------------------------------------------------------------------------
\* The history.  The entries that leading a path uses, the entry an object leads to, and
\* what loses its way, or may, when entries are moved, replaced or removed: objects, and
\* what an iteration would have given, all of it if the path of a deep one is disturbed.
Uses(p) == {q \in DOMAIN tree : \E i \in 0 .. MaxHops : IsPrefix(q, Hops(p)[i])}
EntryOf(type, p) == IF type = "symlink" THEN Place(p) ELSE Landing(p)
IdAt(q) == IF Found(q) THEN tree[q].id ELSE Nowhere
IsAt(id, q) == Found(q) /\ tree[q].id = id
Leads(type, p) == IdAt(EntryOf(type, p))
UsedBy(o) ==
  IF objects[o].type = "symlink" /\ objects[o].path # <<>>
  THEN Uses(Front(objects[o].path)) \cup {Place(objects[o].path)} ELSE Uses(objects[o].path)
Disturbed(o, gone) == UsedBy(o) \cap gone # {}
Astray(o, why) == [origin[o] EXCEPT !.astray = @ \cup {why}]
Disturb(gone) ==
  origin' = [o \in DOMAIN origin |-> IF Disturbed(o, gone) THEN Astray(o, "moved") ELSE origin[o]]
IdsOf(gone) == {tree[q].id : q \in gone}
Lost(it, gone) == IF it.deep /\ Uses(it.path) \cap gone # {} THEN it.there ELSE IdsOf(gone)
StillThere(gone) ==
  iterators' = [i \in DOMAIN iterators |->
                  [iterators[i] EXCEPT !.there = @ \ Lost(iterators[i], gone)]]

Call == calls < MaxCalls /\ calls' = calls + 1
Fails == UNCHANGED <<tree, objects, iterators, unbuilt, undefined, origin>>
SameEntries == UNCHANGED <<tree, iterators, unbuilt, undefined>>

\* T::make and T::create: a userdata with a path; it is made for what its path leads to.
Made(type, p, id, astray) ==
  /\ Len(objects) < MaxObjects
  /\ objects' = Append(objects, [type |-> type, path |-> p])
  /\ origin' = Append(origin, [id |-> id, astray |-> astray])
-----------------------------------------------------------------------------
\* fs.make_file, fs.make_directory and fs.make_symlink; paths are kept as they are given.
create_new_file(p) ==
  IF Exists(p) \/ ~Free(Landing(p)) THEN Fails
  ELSE /\ Put(Landing(p), Entry("file", Landing(p), NoTarget))
       /\ Made("file", p, Entry("file", Landing(p), NoTarget).id, {})
       /\ UNCHANGED <<iterators, unbuilt, undefined>>
make_file(p) == Call /\ create_new_file(p)

create_directory(p) ==
  IF ~Free(Place(p)) THEN Fails
  ELSE /\ Put(Place(p), Entry("directory", Place(p), NoTarget))
       /\ Made("directory", p, Entry("directory", Place(p), NoTarget).id, {})
       /\ UNCHANGED <<iterators, unbuilt, undefined>>
make_directory(p) == Call /\ create_directory(p)

make_symlink(target, p) ==
  /\ Call
  /\ IF ~Free(Place(p)) THEN Fails
     ELSE /\ Put(Place(p), Entry("symlink", Place(p), target))
          /\ Made("symlink", p, Entry("symlink", Place(p), target).id, {})
          /\ UNCHANGED <<iterators, unbuilt, undefined>>

\* fs.open_file and fs.open_directory: nothing is looked up.
open_unseen(type, p) ==
  Call /\ Made(type, p, Leads(type, p), {"unseen"}) /\ SameEntries

\* fs.remove, of what is no directory or an empty one, and fs.remove_all, which may stop
\* half-way: its result, -1 then, is not told from a number of entries.
Unlink(gone) ==
  Drop(gone) /\ Disturb(gone) /\ StillThere(gone) /\ UNCHANGED <<objects, unbuilt, undefined>>
remove(p) ==
  /\ Call
  /\ IF p # <<>> /\ Under(Place(p)) = {Place(p)} THEN Unlink({Place(p)}) ELSE Fails
PartsOf(p) == {S \in SUBSET Under(Place(p)) : \A q \in S : Under(q) \subseteq S}
remove_all(p) ==
  /\ Call
  /\ IF p # <<>> /\ Found(Place(p)) THEN \E gone \in PartsOf(p) : Unlink(gone) ELSE Fails

\* fs.copy of a file, or of a directory with what is in it, all of it or only its files.
\* What is there already is an error, is kept or is written anew; after an error part of
\* the copies are there.
CopiedFile(from, to) == IF Kind(to) = "directory" THEN Append(to, Last(from)) ELSE to
PairsOf(from, to, options) ==
  IF Kind(from) = "file" THEN {<<Landing(from), Landing(CopiedFile(from, to))>>}
  ELSE IF options \notin {{}, {"recursive"}, {"recursive", "skip existing"}} THEN {}
  ELSE {<<q, Landing(to) \o SubSeq(q, Len(Landing(from)) + 1, Len(q))>> :
          q \in {r \in Under(Landing(from)) :
                   \/ r = Landing(from) \/ "recursive" \in options
                   \/ r \in Children(Landing(from)) /\ tree[r].kind = "file"}}
Clash(pair) == Found(pair[2]) /\ tree[pair[1]].kind = "file"
Differ(pair) == Found(pair[2]) /\ tree[pair[2]].kind # tree[pair[1]].kind
TooDeep(pair) == ~Found(pair[2]) /\ Len(pair[2]) > MaxDepth
Copyable(from, to) ==
  /\ from # <<>> /\ to # <<>> /\ Kind(from) \in {"file", "directory"}
  /\ Landing(from) # Landing(to)
  /\ Kind(to) \in {"file", "directory"} \/ ~Found(Landing(to))
  /\ Kind(from) = "directory" =>
       Kind(to) # "file" /\ ~IsPrefix(Landing(from), Landing(to)) /\ Len(Landing(to)) <= MaxDepth
       /\ \A q \in Under(Landing(from)) : tree[q].kind \in {"file", "directory"}   \* bound
PutAll(pairs) ==
  LET new == {pair \in pairs : ~Found(pair[2])}
      places == {pair[2] : pair \in new}
      source == [q \in places |-> (CHOOSE pair \in new : pair[2] = q)[1]]
  IN tree' = [q \in DOMAIN tree \cup places |->
                IF Found(q) THEN tree[q] ELSE Entry(tree[source[q]].kind, q, NoTarget)]
HaveDirectories(pairs) ==
  \A pair \in pairs :
    \/ IsDirectory(Front(pair[2]))
    \/ \E above \in pairs : above[2] = Front(pair[2]) /\ IsDirectory(above[1])
PutSome(pairs) == \E part \in SUBSET pairs : HaveDirectories(part) /\ PutAll(part)
copy(from, to, options) ==
  /\ Call
  /\ LET pairs == PairsOf(from, to, options)
         kept == options \cap {"skip existing", "overwrite existing"} # {}
     IN IF ~Copyable(from, to) \/ \E pair \in pairs : Differ(pair) \/ TooDeep(pair)   \* bound
        THEN Fails
        ELSE IF pairs = {} /\ ~Exists(to) THEN Fails
        ELSE IF (\E pair \in pairs : Clash(pair) /\ ~kept) \/ ~HaveDirectories(pairs)
        THEN PutSome(pairs) /\ UNCHANGED <<objects, iterators, unbuilt, undefined, origin>>
        ELSE /\ PutAll(pairs)
             /\ LET type == IF Kind(to) = "directory" THEN "directory" ELSE Kind(from)
                    there == Landing(to)
                IN Made(type, to, IF Found(there) THEN IdAt(there) ELSE Entry(type, there, NoTarget).id, {})
             /\ UNCHANGED <<iterators, unbuilt, undefined>>
-----------------------------------------------------------------------------
\* Methods and properties of the object o.
Is(o, type) == o \in DOMAIN objects /\ objects[o].type = type
PathOf(o) == objects[o].path
IsAstray(o) == origin[o].astray # {}
weakly_canonical(p) == IF Exists(p) THEN Landing(p) ELSE Place(p)

directory_make_file(o, name) ==
  Call /\ Is(o, "directory") /\ create_new_file(weakly_canonical(Append(PathOf(o), name)))
directory_make_directory(o, name) ==
  Call /\ Is(o, "directory") /\ create_directory(weakly_canonical(Append(PathOf(o), name)))

\* open_file and open_directory of a directory object: what the path leads to is looked at.
\* mutant: whatever is there is opened.
MutOpenAny(o, name, type) ==
  /\ Call /\ Is(o, "directory")
  /\ LET p == weakly_canonical(Append(PathOf(o), name))
     IN IF ~Exists(p) THEN Fails ELSE Made(type, p, Leads(type, p), {}) /\ SameEntries
directory_open(o, name, type) ==
  /\ Call /\ Is(o, "directory")
  /\ LET p == weakly_canonical(Append(PathOf(o), name))
     IN IF Kind(p) # type THEN Fails ELSE Made(type, p, Leads(type, p), {}) /\ SameEntries

\* The property parent of any object; nothing is looked up.
index_parent(o) ==
  /\ Call /\ o \in DOMAIN objects /\ PathOf(o) # <<>>
  /\ LET p == Front(PathOf(o))
     IN Made("directory", p, Leads("directory", p), IF IsAstray(o) THEN {"unseen"} ELSE {})
  /\ SameEntries

\* The method open of a link: its target is taken as it is written in the link, so that a
\* relative one is looked up from the working directory and not from where the link is.
symlink_open(o) ==
  /\ Call /\ Is(o, "symlink")
  /\ LET link == Place(PathOf(o))
     IN IF ~Found(link) \/ tree[link].kind # "symlink" THEN Fails
        ELSE LET p == tree[link].target.steps
                 away == ~tree[link].target.absolute /\ Len(link) > 1
             IN IF Kind(p) \in {"file", "directory"}
                THEN /\ Made(Kind(p), p, IdAt(Landing(link)),
                             IF away THEN {"relative"} ELSE IF ~Exists(link) THEN {"unseen"} ELSE {})
                     /\ SameEntries
                ELSE Fails

\* newindex_parent: the object's entry is moved, and so is the object.  Nothing is looked
\* up if the new parent is an object.
\* mutant: the object stays where it was, as after setting its name.
MutParentKept(o, parent) ==
  LET from == Place(PathOf(o))
      to == Place(Append(parent, Last(PathOf(o))))
      gone == Replaced(from, to)
      kept == EntryOf(objects[o].type, PathOf(o)) = from /\ Uses(parent) \cap gone = {}
  IN IF ~Movable(from, to) THEN Fails
     ELSE /\ Move(from, to) /\ StillThere(gone) /\ UNCHANGED <<objects, unbuilt, undefined>>
          /\ origin' = [x \in DOMAIN origin |->
               IF IF x = o THEN kept ELSE ~Disturbed(x, gone) THEN origin[x] ELSE Astray(x, "moved")]
newindex_parent(o, parent) ==
  LET newpath == Append(parent, Last(PathOf(o)))
      from == Place(PathOf(o))
      to == Place(newpath)
      gone == Replaced(from, to)
      kept == EntryOf(objects[o].type, PathOf(o)) = from /\ Uses(parent) \cap gone = {}
  IN IF ~Movable(from, to) THEN Fails
     ELSE /\ Move(from, to) /\ StillThere(gone)
          /\ objects' = [objects EXCEPT ![o].path = newpath]
          /\ origin' = [x \in DOMAIN origin |->
               IF IF x = o THEN kept ELSE ~Disturbed(x, gone) THEN origin[x] ELSE Astray(x, "moved")]
          /\ UNCHANGED <<unbuilt, undefined>>
set_parent(o) ==
  /\ Call /\ o \in DOMAIN objects /\ PathOf(o) # <<>>
  /\ \/ \E d \in DOMAIN objects : Is(d, "directory") /\ newindex_parent(o, PathOf(d))
     \/ \E p \in Given : Kind(p) = "directory" /\ newindex_parent(o, p)

\* The property name of any object: its entry is renamed, its path stays as it is.
set_name(o, name) ==
  /\ Call /\ o \in DOMAIN objects /\ PathOf(o) # <<>>
  /\ LET from == Place(PathOf(o))
         to == Place(Append(Front(PathOf(o)), name))
         gone == Replaced(from, to)
     IN IF ~Movable(from, to) THEN Fails
        ELSE /\ Move(from, to) /\ StillThere(gone) /\ Disturb(gone)
             /\ UNCHANGED <<objects, unbuilt, undefined>>
-----------------------------------------------------------------------------
\* Iterators.  Their entries are read from the system as the iteration goes on: one that
\* was removed in between may be given or not, one that was made in between is not (bound).
Entries(q, p) ==
  {[path |-> p \o <<Last(r)>>, kind |-> tree[r].kind, id |-> tree[r].id] : r \in Children(q)}
Below(q, deep) ==
  {tree[r].id : r \in {x \in Under(q) \ {q} : (deep \/ Len(x) = Len(q) + 1)
                                              /\ tree[x].kind # "other"}}
Opened(p, deep) ==
  /\ iterators' = Append(iterators,
       [path |-> p, deep |-> deep, todo |-> Entries(Landing(p), p), state |-> "open", given |-> {},
        there |-> Below(Landing(p), deep)])
  /\ UNCHANGED <<tree, objects, unbuilt, undefined, origin>>

\* fs.each_child and fs.each_descendant, and the methods of a directory object.  The latter
\* make the userdata, with its destructor, before its constructor may throw.
each_of(p, deep) == Call /\ (IF Kind(p) = "directory" THEN Opened(p, deep) ELSE Fails)
directory_each_of(o, deep) ==
  /\ Call /\ Is(o, "directory")
  /\ IF Kind(PathOf(o)) = "directory" THEN Opened(PathOf(o), deep)
     ELSE unbuilt' = TRUE /\ UNCHANGED <<tree, objects, iterators, undefined, origin>>

\* fs_iterator: entries that are no file, directory or link are passed over within one call.
\* A deep iteration goes down into a directory in the call that gives it, and if it cannot,
\* fails and does not give it.
Passed(it, e, rest) ==
  /\ e \in it.todo /\ rest \subseteq it.todo \ {e}
  /\ \A s \in it.todo \ (rest \cup {e}) : s.kind = "other" \/ s.id \notin it.there
Supported(e) == e.kind # "other"
Gives(i, e, rest) ==
  LET it == iterators[i]
      goes_down == it.deep /\ e.kind = "directory"
      more == IF goes_down THEN Entries(Landing(e.path), e.path) ELSE {}
      seen == IsAt(e.id, EntryOf(e.kind, e.path))
  IN /\ Passed(it, e, rest) /\ Supported(e)
     /\ IF goes_down /\ Kind(e.path) # "directory"
        THEN iterators' = [iterators EXCEPT ![i].state = "failed"] /\ UNCHANGED <<objects, origin>>
        ELSE /\ Made(e.kind, e.path, e.id, IF seen THEN {} ELSE {"moved"})
             /\ iterators' = [iterators EXCEPT ![i].todo = rest \cup more, ![i].given = @ \cup {e.id}]
\* mutant: the iteration stops at the first entry of another kind.
MutStopsAtOther(i) ==
  /\ iterators[i].todo = {} \/ \E e \in iterators[i].todo : e.kind = "other"
  /\ iterators' = [iterators EXCEPT ![i].state = "ended", ![i].todo = {}]
  /\ UNCHANGED <<objects, origin>>
Ends(i) ==
  /\ \A e \in iterators[i].todo : e.kind = "other" \/ e.id \notin iterators[i].there
  /\ iterators' = [iterators EXCEPT ![i].state = "ended", ![i].todo = {}]
  /\ UNCHANGED <<objects, origin>>
fs_iterator(i) ==
  /\ iterators[i].state = "open"
  /\ \/ Ends(i)
     \/ \E e \in iterators[i].todo, rest \in SUBSET iterators[i].todo : Gives(i, e, rest)
  /\ UNCHANGED <<tree, unbuilt, undefined, calls>>

\* The garbage collector runs the destructor of a userdata that was never constructed.
Collect ==
  /\ unbuilt /\ unbuilt' = FALSE /\ undefined' = TRUE
  /\ UNCHANGED <<tree, objects, iterators, calls, origin>>
-----------------------------------------------------------------------------
Init ==
  /\ tree \in Trees /\ objects = <<>> /\ iterators = <<>> /\ origin = <<>>
  /\ unbuilt = FALSE /\ undefined = FALSE /\ calls = 0

ByPath ==
  \/ \E p \in Given :
       \/ make_file(p) \/ make_directory(p) \/ remove(p) \/ remove_all(p)
       \/ \E target \in Links : make_symlink(target, p)
       \/ \E type \in {"file", "directory"} : open_unseen(type, p)
       \/ \E deep \in BOOLEAN : each_of(p, deep)
  \/ \E from, to \in Given, options \in SUBSET {"recursive", "skip existing"} : copy(from, to, options)
ByObject ==
  \E o \in DOMAIN objects :
    \/ index_parent(o) \/ symlink_open(o) \/ set_parent(o)
    \/ \E deep \in BOOLEAN : directory_each_of(o, deep)
    \/ \E name \in Names :
         \/ directory_make_file(o, name) \/ directory_make_directory(o, name) \/ set_name(o, name)
         \/ \E type \in {"file", "directory"} : directory_open(o, name, type)
Next ==
  ~undefined /\ (ByPath \/ ByObject \/ Collect \/ \E i \in DOMAIN iterators : fs_iterator(i))
Spec == Init /\ [][Next]_vars
-----------------------------------------------------------------------------
\* The type invariant.
FilesTypeOK ==
  /\ DOMAIN tree \subseteq Paths /\ <<>> \in DOMAIN tree
  /\ \A q \in DOMAIN tree : tree[q] \in [kind : Kinds, id : Ids, target : Targets]
  /\ \A q \in DOMAIN tree \ {<<>>} : IsDirectory(Front(q))
  /\ DOMAIN objects = DOMAIN origin /\ Len(objects) <= MaxObjects
  /\ \A o \in DOMAIN objects : objects[o].type \in {"file", "directory", "symlink"}
  /\ unbuilt \in BOOLEAN /\ undefined \in BOOLEAN /\ calls \in 0 .. MaxCalls

\* An object leads to the entry that it was made for, and that is of the object's type, also
\* after the script has moved the entry by setting the object's parent (util.cpp:6-22), as
\* long as no entry on its path was moved or removed otherwise.  Not kept by: objects made of
\* paths that were not looked at, links with a relative target (Symlink.cpp:11), and the
\* property name, which leaves the object where it was (Directory.cpp:77-85, File.cpp:89).
ObjectsLeadHome ==
  \A o \in DOMAIN objects : ~IsAstray(o) =>
    LET q == EntryOf(objects[o].type, PathOf(o))
    IN IsAt(origin[o].id, q) /\ tree[q].kind = objects[o].type

\* An iteration that ended without an error has given every file, directory and link that
\* was there from its beginning to its end (fs.hpp:39-65), whatever was moved, removed or
\* made meanwhile.
IterationsAreComplete ==
  \A i \in DOMAIN iterators :
    iterators[i].state = "ended" => iterators[i].there \subseteq iterators[i].given

\* A destructor runs on memory that was never constructed (Directory.cpp:12, 18) only in a
\* script that has a directory object astray: one that has lost its directory, or was made
\* of a path that was not looked at.
OnlyStaleDirectoriesBreak ==
  unbuilt \/ undefined => \E o \in DOMAIN objects : Is(o, "directory") /\ IsAstray(o)
=============================================================================
