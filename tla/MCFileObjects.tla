--------------------------- MODULE MCFileObjects ---------------------------
(* Two names and two levels: a directory with a file and a device in it, a file beside it, *)
(* and a directory with a file and a link to it, whose target is relative.                 *)
EXTENDS FileObjects, TLC

A == <<"a">>
B == <<"b">>
AA == <<"a", "a">>
AB == <<"a", "b">>

MCNames == {"a", "b"}
MCGiven == {A, B, AA, AB}
MCLinks ==
  {[absolute |-> FALSE, steps |-> A], [absolute |-> TRUE, steps |-> A], [absolute |-> TRUE, steps |-> AB]}

OfKind(kind, p) == [kind |-> kind, id |-> [call |-> 0, path |-> p], target |-> NoTarget]
Tree(kinds) == [p \in DOMAIN kinds |-> OfKind(kinds[p], p)]
Root == <<>> :> "directory"
Tree1 == Tree(Root @@ A :> "directory" @@ AA :> "file" @@ AB :> "other" @@ B :> "file")
Tree2 == [Tree(Root @@ A :> "directory" @@ AA :> "file" @@ AB :> "symlink")
            EXCEPT ![AB].target = [absolute |-> FALSE, steps |-> A]]
MCTrees == {Tree1, Tree2}
=============================================================================
