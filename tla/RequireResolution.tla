------------------------- MODULE RequireResolution -------------------------
(***************************************************************************)
(* What a name given to require, dlload or dlrequire resolves to           *)
(* (Core/require_logic.cpp, normalize_path in Core/include/common.hpp).    *)
(*                                                                         *)
(* A path is the sequence of its steps from the root, a step a stem and an *)
(* extension.  A name has a start ("absolute", "relative", "user" for ~,   *)
(* or else the alias after an @) and the steps that follow it.  The files  *)
(* do not change meanwhile: all this happens before any script runs.       *)
(***************************************************************************)
EXTENDS Integers, Sequences, SequencesExt

CONSTANTS
  Worlds,       \* the file systems under consideration
  Bases,        \* the directories of the scripts that name something
  Names,        \* what is written in them
  FileExts,     \* def_file_exts, the extensions that may be left out, in order
  SearchDepth,  \* how many parents of the working directory find_config_file visits
  MaxCalls      \* bound: calls of resolve_require_path

Steps == [stem : STRING, ext : STRING]

ASSUME DepthAssumption == SearchDepth \in Nat /\ MaxCalls \in Nat
ASSUME PathsAssumption ==
  /\ Bases \subseteq Seq(Steps) /\ FileExts \in Seq(STRING) /\ "init" \in STRING
  /\ \A name \in Names : name.steps \in Seq(Steps)
  /\ \A w \in Worlds :
       /\ w.cwd \in Seq(Steps) /\ (w.home # <<>> => w.home[1] \in Seq(Steps))
       /\ \A dir \in DOMAIN w.configs :
            w.configs[dir].entries \in Seq([key : STRING, value : [start : STRING, steps : Seq(Steps)]])

VARIABLES
  world,        \* tree: "file" or "dir" per existing path; cwd; home: <<>> or <<path>>;
                \* configs: per directory with a configuration file what is in it
  aliases,      \* static
  config_file_initialized,   \* static
  calls,        \* how often resolve_require_path has been called
  answers       \* which call asked for what, and what it returned

vars == <<world, aliases, config_file_initialized, calls, answers>>

Up == [stem |-> "..", ext |-> ""]
Readable(entries) == [state |-> "readable", entries |-> entries]
Unreadable == [state |-> "unreadable", entries |-> <<>>]
Malformed == [state |-> "malformed", entries |-> <<>>]
-----------------------------------------------------------------------------
normalize_path(p) ==
  FoldLeft(LAMBDA q, s : IF s # Up THEN Append(q, s) ELSE IF q = <<>> THEN q ELSE Front(q),
           <<>>, p)

Exists(p) == normalize_path(p) \in DOMAIN world.tree
IsDirectory(p) == Exists(p) /\ world.tree[normalize_path(p)] = "dir"

\* What resolve_require_path can return.  A Message is an error's text in the place of
\* a path: `return loaded.error()` makes a value of it.  json::parse throws.
Path(p) == [kind |-> "path", path |-> normalize_path(p)]
Message == [kind |-> "message", path |-> <<>>]
Failure == [kind |-> "failure", path |-> <<>>]
Exception == [kind |-> "exception", path |-> <<>>]

\* find_source.
FirstOfUnseen(candidates) == Path(candidates[1])   \* mutant
FirstOf(candidates) ==
  IF \E p \in ToSet(candidates) : Exists(p)
  THEN Path(candidates[SelectInSeq(candidates, Exists)]) ELSE Failure
WithExtension(p) == [i \in DOMAIN FileExts |-> [p EXCEPT ![Len(p)].ext = FileExts[i]]]
InitIn(p) == [i \in DOMAIN FileExts |-> Append(p, [stem |-> "init", ext |-> FileExts[i]])]
find_source(p) ==
  CASE ~Exists(p) /\ Last(p).ext # "" -> Failure
    [] ~Exists(p) /\ Last(p).ext = "" -> FirstOf(WithExtension(p))
    [] IsDirectory(p) -> FirstOf(InitIn(p))
    [] OTHER -> Path(p)

\* A path with the user's folder or the given directory before it.
substitute_user_folder(steps) == world.home[1] \o steps
NoUserFolder(name) == name.start = "user" /\ world.home = <<>>
FromAlwaysJoined(directory, name) ==   \* mutant
  IF name.start = "user" THEN substitute_user_folder(name.steps) ELSE directory \o name.steps
From(directory, name) ==
  CASE name.start = "absolute" -> name.steps
    [] name.start = "user" -> substitute_user_folder(name.steps)
    [] OTHER -> directory \o name.steps

\* find_config_file and load_aliases.  An entry has a key and a value, a name or "no string".
Ancestor(p, n) == SubSeq(p, 1, IF n < Len(p) THEN Len(p) - n ELSE 0)
Found == {n \in 0 .. SearchDepth : Ancestor(world.cwd, n) \in DOMAIN world.configs}
find_config_file ==
  world.configs[Ancestor(world.cwd, CHOOSE n \in Found : \A m \in Found : n <= m)]

Usable(entry) == entry.value.start # "no string" /\ ~NoUserFolder(entry.value)
Emplaced(entries) ==
  {entries[i] : i \in {j \in DOMAIN entries : \A k \in 1 .. j : Usable(entries[k])}}
AliasesOf(entries) ==
  [key \in {e.key : e \in Emplaced(entries)} |->
     normalize_path(From(world.cwd, (CHOOSE e \in Emplaced(entries) : e.key = key).value))]

NoAliases == [key \in {} |-> <<>>]
load_aliases ==
  IF Found = {} THEN [aliases |-> NoAliases, problem |-> <<>>]
  ELSE CASE find_config_file = Unreadable -> [aliases |-> NoAliases, problem |-> <<Message>>]
         [] find_config_file = Malformed -> [aliases |-> NoAliases, problem |-> <<Exception>>]
         [] OTHER ->
              LET entries == find_config_file.entries
              IN [aliases |-> AliasesOf(entries),
                  problem |-> IF \A e \in ToSet(entries) : Usable(e) THEN <<>> ELSE <<Message>>]
-----------------------------------------------------------------------------
Starts == {"absolute", "relative", "user", "message"}
HasAlias(name) == name.start \notin Starts

\* The part of resolve_require_path after the aliases are loaded.  That an absolute path
\* of a .luau file is not looked up makes no difference to what is returned.
Answer(known, base, name) ==
  CASE name.start = "message" \/ NoUserFolder(name) -> Failure
    [] HasAlias(name) /\ name.start \notin DOMAIN known -> Message
    [] HasAlias(name) /\ name.start \in DOMAIN known -> find_source(known[name.start] \o name.steps)
    [] OTHER -> find_source(From(base, name))

Known == IF config_file_initialized THEN aliases ELSE load_aliases.aliases
Problem == IF config_file_initialized THEN <<>> ELSE load_aliases.problem

resolve_require_pathLoadsLate(base, name) ==   \* mutant
  /\ calls < MaxCalls
  /\ calls' = calls + 1
  /\ config_file_initialized' = TRUE
  /\ aliases' = Known
  /\ answers' = answers \cup
       {[call |-> calls', base |-> base, name |-> name, outcome |-> Answer(aliases, base, name)]}
  /\ UNCHANGED world
resolve_require_path(base, name) ==
  /\ calls < MaxCalls
  /\ calls' = calls + 1
  /\ config_file_initialized' = TRUE
  /\ aliases' = Known
  /\ answers' = answers \cup
       {[call |-> calls', base |-> base, name |-> name,
         outcome |-> IF Problem # <<>> THEN Problem[1] ELSE Answer(Known, base, name)]}
  /\ UNCHANGED world

\* The argument of a dlrequire is expanded by the pattern for require, and what that
\* wrote into the text by the pattern for dlrequire.
Written(outcome) ==
  [start |-> IF outcome.kind = "path" THEN "absolute" ELSE "message", steps |-> outcome.path]
ExpandOnce == \E base \in Bases, name \in Names : resolve_require_path(base, name)
ExpandAgain ==
  \E answer \in answers :
    /\ answer.call = calls /\ answer.outcome.kind \in {"path", "message"}
    /\ resolve_require_path(answer.base, Written(answer.outcome))

Init ==
  /\ world \in Worlds
  /\ aliases = NoAliases /\ config_file_initialized = FALSE
  /\ calls = 0 /\ answers = {}
Next == ExpandOnce \/ ExpandAgain
Spec == Init /\ [][Next]_vars
-----------------------------------------------------------------------------
Outcomes == {Message, Failure, Exception} \cup {Path(p) : p \in DOMAIN world.tree}

\* Type correctness: what is returned for a path is the canonical path of what exists.
ResolutionTypeOK ==
  /\ config_file_initialized \in BOOLEAN /\ calls \in 0 .. MaxCalls
  /\ \A answer \in answers : answer.call \in 1 .. calls /\ answer.outcome \in Outcomes
  /\ \A key \in DOMAIN aliases : aliases[key] = normalize_path(aliases[key])

\* What is written into a text as the path of a source (preprocessing.cpp:137-143) leads
\* to the same source again, from the directory of whatever script: dlrequire's argument
\* is expanded twice, and run time looks modules up by this text.  Only for a directory
\* that is called like a source, as `a.luau/`, does it not.
ResolvesToItself ==
  \A answer \in answers :
    LET found == answer.outcome
    IN found.kind = "path" /\ ~IsDirectory(found.path) =>
         \A base \in Bases : Answer(aliases, base, Written(found)) = found

\* One name in one directory has one answer, whenever it is asked for: scripts that
\* require the same module get the same module.  Only the first call, if it reports a
\* problem with the configuration file (require_logic.cpp:103), answers something else,
\* although the aliases it leaves are the ones all later calls use.
AnswersAreStable ==
  \A one, other \in answers :
    /\ one.base = other.base /\ one.name = other.name
    /\ load_aliases.problem = <<>> \/ (one.call > 1 /\ other.call > 1)
    => one.outcome = other.outcome
=============================================================================
