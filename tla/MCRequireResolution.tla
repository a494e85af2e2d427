------------------------ MODULE MCRequireResolution ------------------------
(***************************************************************************)
(* Instances of ScriptTexts for TLC:       a working directory /p/q, and   *)
(* names that may stand for files and directories in it, or above it.      *)
(***************************************************************************)
EXTENDS ScriptTexts

Extensions == <<".luau", ".lua">>
At(stem, ext) == [stem |-> stem, ext |-> ext]
Plain(stem) == At(stem, "")
P == <<Plain("p")>>
PQ == Append(P, Plain("q"))
A == Plain("a")

\* What may be in a directory under the name a: files, directories, and init files in them.
Contents(dir) ==
  {own \cup {<<Append(Append(dir, d), At("init", e)), "file">> :
               d \in {s \in {A, At("a", ".luau")} : <<Append(dir, s), "dir">> \in own},
               e \in inits} :
     inits \in {{}, {".lua"}, {".luau", ".lua"}},
     own \in {x \cup y \cup z :
                x \in {{}} \cup {{<<Append(dir, A), kind>>} : kind \in {"file", "dir"}},
                y \in {{}} \cup {{<<Append(dir, At("a", ".luau")), kind>>} :
                                   kind \in {"file", "dir"}},
                z \in {{}, {<<Append(dir, At("a", ".lua")), "file">>}}}}

Tree(entries) ==
  LET all == entries \cup {<<<<>>, "dir">>, <<P, "dir">>, <<PQ, "dir">>}
  IN [path \in {e[1] : e \in all} |-> (CHOOSE e \in all : e[1] = path)[2]]

Entry(key, start, steps) == [key |-> key, value |-> [start |-> start, steps |-> steps]]
UserEntry == [dir \in {P} |-> Readable(<<Entry("lib", "user", <<>>),
                                         Entry("n", "no string", <<>>)>>)]
Configurations ==
  {UserEntry,
   [dir \in {PQ} |-> Malformed], [dir \in {P} |-> Unreadable],
   [dir \in {<<>>} |-> Readable(<<Entry("lib", "absolute", PQ)>>)],
   [dir \in {P, PQ} |-> Readable(<<IF dir = PQ THEN Entry("lib", "relative", <<Up>>)
                                   ELSE Entry("lib", "absolute", PQ)>>)],
   [dir \in {P} |-> Readable(<<Entry("a", "no string", <<>>), Entry("lib", "relative", <<>>)>>)]}

Around(entries, configs, home) ==
  [tree |-> Tree(entries), cwd |-> PQ, home |-> home, configs |-> configs]
SmallWorlds ==
  {Around(entries, configs, <<PQ>>) : entries \in Contents(PQ), configs \in Configurations}
  \cup {Around(entries, UserEntry, <<>>) : entries \in Contents(PQ)}

Name(start, steps) == [start |-> start, steps |-> steps]
ScriptNames ==
  {Name("relative", <<A>>), Name("relative", <<At("a", ".luau")>>),
   Name("relative", <<Up, Plain("q"), A>>), Name("user", <<A>>), Name("lib", <<A>>)}
TwoBases == {PQ, P}

\* Texts of up to two calls, some of them of members, in three of the file systems.
Word == Token("word")
Call(fname, name) == Called(Spelling(fname), Named(name))
Local == Name("relative", <<A>>)
Uses ==
  {Call("require", Local), Call("dlrequire", Local), Call("dlload", Name("lib", <<A>>)),
   Call("require", Name("lib", <<Plain("b")>>)),
   <<Token("dlload"), Open>> \o Call("dlsearch", Local) \o <<Close>>,
   <<Token("nameof"), Open, Word, Close>>,
   <<Token("require"), Quote, Named(Local), Quote>>}
Leads == {<<>>, <<Blank>>, <<Word, Dot>>, <<Word, Blank, Dot, Blank>>}
Pieces == {<<>>} \cup {before \o use : before \in Leads, use \in Uses}
FewWorlds ==
  {Around({<<Append(PQ, A), "dir">>, <<PQ \o <<A, At("init", ".lua")>>, "file">>,
           <<Append(P, At("a", ".luau")), "file">>}, configs, <<PQ>>) :
     configs \in {UserEntry, [dir \in {P} |-> Malformed],
                  [dir \in {PQ} |-> Readable(<<Entry("lib", "relative", <<Up>>)>>)]}}
WorldsOfTexts == SmallWorlds \cup FewWorlds
SomeTexts ==
  [w \in WorldsOfTexts |->
     IF w \in FewWorlds THEN {one \o more : one \in Pieces, more \in {<<>>} \cup Uses} ELSE {<<>>}]
Search == [name \in {Local} |-> PQ \o <<At("a", ".dll")>>]
=============================================================================
