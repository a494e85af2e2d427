-------------------------- MODULE MCPreprocessing --------------------------
(***************************************************************************)
(* Instances of Preprocessing for TLC.                                     *)
(***************************************************************************)
EXTENDS Preprocessing

CONSTANTS a, b, c, lib

NoText == [call \in Calls |-> <<>>]
Upto(n, S) == UNION {[1 .. k -> S] : k \in 0 .. n}

\* Scripts that require up to two others, and name the library by one call at most.
LibraryUses == {NoText} \cup {[NoText EXCEPT ![call] = <<lib>>] : call \in Calls \ {"require"}}
ScriptTexts(n, targets) ==
  {[use EXCEPT !["require"] = r] : use \in LibraryUses, r \in Upto(n, targets)}

\* a requires up to two scripts, b one or something unknown, c none; b is no library.
Graphs ==
  {[f \in Files |-> CASE f = a -> ta [] f = b -> tb [] f = c -> tc [] OTHER -> NoText] :
     ta \in ScriptTexts(2, {a, b, c}), tb \in ScriptTexts(1, {a, b, c, Unresolved}),
     tc \in {NoText, [NoText EXCEPT !.dlload = <<lib>>], [NoText EXCEPT !.std = <<b>>],
            [NoText EXCEPT !.dlload = <<lib, b>>]}}

OneOrTwoScripts == {<<a>>, <<b, a>>}
=============================================================================
