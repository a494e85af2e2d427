----------------------------- MODULE ScriptTexts -----------------------------
(***************************************************************************)
(* How preprocess_script (Core/preprocessing.cpp) rewrites the text of a   *)
(* script: five passes, each with a pattern of its own, the last three of  *)
(* which resolve the names that they find.  Its script is the first to be  *)
(* preprocessed; other scripts resolve names after it.                     *)
(*                                                                         *)
(* A text is a sequence of tokens.  A dot stands for a colon too, a quote  *)
(* for both kinds, and `dlrequire` is two tokens, as the pattern for       *)
(* `require` sees it; brackets as quotes are left out.                     *)
(***************************************************************************)
EXTENDS RequireResolution, FiniteSets

CONSTANTS
  Texts,       \* per file system: what the script may consist of
  ScriptDir,   \* the directory it is in
  Searched     \* per name: the path that search_path finds for it

VARIABLES
  original,    \* the text in the file
  source,      \* what has become of it
  pass,        \* the pass under way, 0 before the first
  pending,     \* the matches of it that are not replaced yet
  recorded,    \* per call: expanded_sources, the arguments found
  rejected     \* preprocess_script has failed

text_vars == <<original, source, pass, pending, recorded, rejected>>

NoName == [start |-> "message", steps |-> <<>>]
Token(kind) == [kind |-> kind, name |-> NoName]
Blank == Token("blank")   Dot == Token("dot")    Quote == Token("quote")
Open == Token("open")     Close == Token("close")
Named(name) == [kind |-> "name", name |-> name]
Keywords == {"nameof", "dlsearch", "require", "dlload", "dl"}
Letters == Keywords \cup {"word", "name"}
Kinds == Letters \cup {"blank", "dot", "quote", "open", "close"}
Tokens == {Token(kind) : kind \in Kinds \ {"name"}}
          \cup [kind : {"name"}, name : [start : STRING, steps : Seq(Steps)]]

ASSUME TextsAssumption ==
  /\ ScriptDir \in Seq(Steps) /\ {"absolute", "message"} \subseteq STRING
  /\ \A w \in Worlds : Texts[w] \subseteq Seq(Tokens)
  /\ \A name \in DOMAIN Searched :
       name \in [start : STRING, steps : Seq(Steps)] /\ Searched[name] \in Seq(Steps)

Passes == <<"nameof", "dlsearch", "require", "dlload", "dlrequire">>
Resolving == {"require", "dlload", "dlrequire"}
Spelling(fname) == IF fname = "dlrequire" THEN <<Token("dl"), Token("require")>> ELSE <<Token(fname)>>
-----------------------------------------------------------------------------
\* Where a pattern matches at i, if it does: the place, the one behind the match, and
\* the group.
After(t, i, kinds) ==
  CHOOSE k \in i .. Len(t) + 1 :
    /\ k = Len(t) + 1 \/ t[k].kind \notin kinds
    /\ \A j \in i .. k - 1 : t[j].kind \in kinds
Begins(t, i, word) == SubSeq(t, i, i + Len(word) - 1) = word
Boundary(t, i) == i = 1 \/ t[i - 1].kind \notin Letters

\* The group is as short as can be, and what follows it may be absent: it is empty.
nameof_at(t, i) ==
  IF t[i] = Token("nameof") /\ Boundary(t, i)
  THEN {[first |-> i, past |-> After(t, After(t, i + 1, {"open"}), {"close"}), group |-> <<>>]}
  ELSE {}

dlsearch_at(t, i) ==
  LET open == After(t, i + 1, {"open"})
      close == After(t, open, (Letters \cup {"blank", "dot", "quote", "open"}))
  IN IF t[i] = Token("dlsearch") /\ Boundary(t, i) /\ close <= Len(t)
     THEN {[first |-> i, past |-> After(t, close, {"close"}),
            group |-> SubSeq(t, open, close - 1)]}
     ELSE {}

MutCloseKept(t, i, fname) ==   \* mutant: a closing parenthesis is not part of the match
  LET open == After(t, i + Len(Spelling(fname)), {"blank", "open"})
      close == After(t, open + 1, Letters \cup {"blank", "dot", "open"})
  IN IF /\ i + Len(Spelling(fname)) <= Len(t) /\ Begins(t, i, Spelling(fname))
        /\ open < Len(t) /\ t[open] = Quote
        /\ open + 1 < close /\ close <= Len(t) /\ t[close] = Quote
     THEN {[first |-> i, past |-> close + 1, group |-> SubSeq(t, open + 1, close - 1)]}
     ELSE {}
specifier_at(t, i, fname) ==
  LET open == After(t, i + Len(Spelling(fname)), {"blank", "open"})
      close == After(t, open + 1, Letters \cup {"blank", "dot", "open"})
      behind == After(t, close + 1, {"blank"})
  IN IF /\ i + Len(Spelling(fname)) <= Len(t) /\ Begins(t, i, Spelling(fname))
        /\ open < Len(t) /\ t[open] = Quote
        /\ open + 1 < close /\ close <= Len(t) /\ t[close] = Quote
     THEN {[first |-> i, group |-> SubSeq(t, open + 1, close - 1),
            past |-> IF behind <= Len(t) /\ t[behind] = Close THEN behind + 1 ELSE behind]}
     ELSE {}

match_at(t, i, fname) ==
  CASE fname = "nameof" -> nameof_at(t, i)
    [] fname = "dlsearch" -> dlsearch_at(t, i)
    [] OTHER -> specifier_at(t, i, fname)

\* Only blanks before the match: the character read is in front of the text.
MutMembersToo(t, first, beyond) == first = 1 \/ t[first - 1] # Dot   \* mutant
is_global_scope(t, first, beyond) ==
  LET k == Max({0} \cup {j \in 1 .. first - 1 : t[j] # Blank})
  IN first = 1 \/ (IF k = 0 THEN beyond ELSE t[k] # Dot)

\* The matches in scope from left to right; none begins within another, in scope or not.
TheMatch(t, i, fname) == CHOOSE match \in match_at(t, i, fname) : TRUE
MatchesHere(t, i, fname, scope) ==
  IF i \in scope /\ match_at(t, i, fname) # {} THEN <<TheMatch(t, i, fname)>> ELSE <<>>
BehindHere(t, i, fname) ==
  IF match_at(t, i, fname) = {} THEN i + 1 ELSE TheMatch(t, i, fname).past
Matches(t, fname, scope) ==
  LET from[i \in 1 .. Len(t) + 1] ==
        IF i > Len(t) THEN <<>>
        ELSE MatchesHere(t, i, fname, scope) \o from[BehindHere(t, i, fname)]
  IN from[1]

\* What replaces a match of the first two passes, if anything does.
Called(word, token) == word \o <<Open, Quote, token, Quote, Close>>
SearchedFor(group) ==
  {Called(<<>>, Named(Written(Path(Searched[name])))) :
     name \in {n \in DOMAIN Searched :
                 \E i \in DOMAIN group : /\ group[i] = Named(n)
                                        /\ \A j \in DOMAIN group \ {i} : group[j] = Quote}}
to_string(fname, group) ==
  IF fname = "nameof" THEN {<<Open, Quote, Quote, Close>>} ELSE SearchedFor(group)
-----------------------------------------------------------------------------
Prepared == pass = Len(Passes) /\ pending = <<>> /\ ~rejected

\* replace_meta_specifiers collects the matches of a pass in the text as it is,
BeginPass ==
  /\ pass < Len(Passes) /\ pending = <<>> /\ ~rejected
  /\ pass' = pass + 1
  /\ \E beyond \in BOOLEAN :
       pending' = Matches(source, Passes[pass + 1],
                          {i \in DOMAIN source : is_global_scope(source, i, beyond)})
  /\ UNCHANGED <<vars, original, source, recorded, rejected>>

\* and replaces them from the last to the first.
MutFromTheFirst(match) == pending # <<>> /\ match = Head(pending) /\ pending' = Tail(pending)
InTurn(match) == pending # <<>> /\ match = Last(pending) /\ pending' = Front(pending)
Replace(match, new) ==
  source' = SubSeq(source, 1, match.first - 1) \o new \o SubSeq(source, match.past, Len(source))
Reject == rejected' = TRUE /\ UNCHANGED <<source, recorded>>

ReplaceSpecifier ==
  /\ ~rejected /\ pass > 0 /\ Passes[pass] \notin Resolving
  /\ \E i \in DOMAIN pending :
       /\ InTurn(pending[i])
       /\ LET new == to_string(Passes[pass], pending[i].group)
          IN IF new = {} THEN Reject
             ELSE /\ \E text \in new : Replace(pending[i], text)
                  /\ UNCHANGED <<recorded, rejected>>
  /\ UNCHANGED <<vars, original, pass>>

NameIn(group) == IF Len(group) = 1 /\ group[1].kind = "name" THEN group[1].name ELSE NoName
ExpandSpecifier ==
  /\ ~rejected /\ pass > 0 /\ Passes[pass] \in Resolving
  /\ \E i \in DOMAIN pending :
       /\ InTurn(pending[i])
       /\ resolve_require_path(ScriptDir, NameIn(pending[i].group))
       /\ LET fname == Passes[pass]
              outcome == (CHOOSE answer \in answers' : answer.call = calls').outcome
          IN IF outcome.kind \in {"failure", "exception"} THEN Reject
             ELSE /\ Replace(pending[i], Called(Spelling(fname), Named(Written(outcome))))
                  /\ recorded' = [recorded EXCEPT ![fname] = Append(@, Written(outcome))]
                  /\ UNCHANGED rejected
  /\ UNCHANGED <<original, pass>>

OtherScripts == (Prepared \/ rejected) /\ Next /\ UNCHANGED text_vars

TextInit ==
  /\ Init
  /\ original \in Texts[world] /\ source = original
  /\ pass = 0 /\ pending = <<>> /\ rejected = FALSE
  /\ recorded = [fname \in Resolving |-> <<>>]
TextNext == BeginPass \/ ReplaceSpecifier \/ ExpandSpecifier \/ OtherScripts
TextSpec == TextInit /\ [][TextNext]_<<vars, text_vars>>
-----------------------------------------------------------------------------
Member(t, i) ==
  \E k \in 1 .. i - 1 : t[k] = Dot /\ \A j \in k + 1 .. i - 1 : t[j] = Blank
Asked(t, fname) ==
  LET matches == Matches(t, fname, {i \in DOMAIN t : ~Member(t, i)})
  IN [i \in DOMAIN matches |-> NameIn(matches[i].group)]

\* What a prepared text asks for, by require, dlload or dlrequire with a name that is
\* written out, is what preprocessing has recorded, the last first, no more and no less,
\* and a member called like these asks for nothing (preprocessing.cpp:35-66, 133-151): of
\* dlrequire the pattern for require sees the end only, after which it is no member.  With
\* nothing but blanks before its first call a text may be prepared otherwise; so may one
\* that asks for what is no name, if the configuration's problem is taken for its path, or
\* that finds a directory called like a source, which dlrequire resolves a second time.
PathsLast ==
  \A answer \in answers : answer.outcome.kind = "path" => ~IsDirectory(answer.outcome.path)
NamesOnly == \A answer \in answers : answer.name # NoName
RecordedIsWritten ==
  Prepared /\ (original = <<>> \/ original[1] # Blank) /\ PathsLast /\ NamesOnly =>
    \A fname \in Resolving : recorded[fname] = Reverse(Asked(source, fname))

\* A text in which all these calls are written in the usual way keeps its tokens, each in
\* its place, but for what the names become (preprocessing.cpp:50-66, 134).
WrittenPlainly(t) ==
  \A i \in DOMAIN t :
    /\ t[i].kind \notin {"nameof", "dlsearch"}
    /\ t[i].kind \in {"require", "dlload"} =>
         /\ i + 5 <= Len(t) /\ t[i + 3].kind = "name"
         /\ SubSeq(t, i, i + 5) = Called(<<t[i]>>, t[i + 3])
Outline(t) == [i \in DOMAIN t |-> IF t[i].kind = "name" THEN Token("name") ELSE t[i]]
RestIsKept == Prepared /\ WrittenPlainly(original) => Outline(source) = Outline(original)

\* nameof is replaced by the name of the variable that it is given (README.md:8,
\* lsp/dluau-core_docs.json:3).
NameofIsTheName ==
  Prepared => \A i \in 1 .. Len(original) - 3 :
    /\ original[i] = Token("nameof") /\ original[i + 1] = Open
    /\ original[i + 2].kind = "word" /\ original[i + 3] = Close
    => \E j \in DOMAIN source :
         IsPrefix(Called(<<>>, original[i + 2]), SubSeq(source, j, Len(source)))
=============================================================================
