----------------------------- MODULE MCLoading -----------------------------
(***************************************************************************)
(* Instances of CommandLine, and so of Loading, for TLC.                   *)
(***************************************************************************)
EXTENDS CommandLine

CONSTANTS a, b, c, lib

NoText == [call \in Calls |-> <<>>]

\* a requires up to two scripts, b one, and it names the library, c none.
Graphs ==
  {[f \in Files |-> CASE f = a -> [NoText EXCEPT !["require"] = ra]
                      [] f = b -> [[call \in Calls |-> <<lib>>] EXCEPT !["require"] = rb, !["std"] = <<>>]
                      [] OTHER -> NoText] :
     ra \in {<<>>, <<b>>, <<b, c>>, <<c, b>>}, rb \in {<<a>>, <<c>>}}

Source(kind, names) == [kind |-> kind, option |-> "none", names |-> names, list |-> names]
File(f) == Source("file", <<f>>)
Directory(names) == Source("directory", names)
CutInto(arg, list) == [arg EXCEPT !.list = list]
Option(o) == [Source("other", <<>>) EXCEPT !.option = o]

\* c does not compile, and `a,b.luau` is a name that is cut into those of others.
Lines ==
  {<<>>, <<File(a)>>, <<File(a), File(c)>>, <<Directory(<<a, b>>), Option("O")>>,
   <<Directory(<<b, a>>), Option("D"), Option("bad D")>>,
   <<Directory(<<>>)>>, <<Directory(<<>>), File(a)>>, <<CutInto(File(c), <<a, b>>)>>,
   <<CutInto(Directory(<<b>>), <<c, b>>)>>,
   <<Option("O"), File(a)>>, <<File(a), Source("no directory", <<>>)>>,
   <<File(b), Option("bad O"), Option("O")>>, <<[File(a) EXCEPT !.option = "bad D"]>>,
   <<Option("none")>>}
NoArguments == {}
=============================================================================
