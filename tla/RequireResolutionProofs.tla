---------------------- MODULE RequireResolutionProofs ----------------------
(***************************************************************************)
(* Names keep their meaning while a process lives, what stands for a       *)
(* source in a text leads to it, and a text that is prepared asks for what *)
(* has been recorded of it: in every file system, with any aliases, for    *)
(* paths and texts of any length and for any sequence of calls.            *)
(*                                                                         *)
(* normalize_path is a fold.  IsTrace follows it step by step, by which a  *)
(* normalized path has no steps up, and one without these stays as it is.  *)
(* Matches is a recursive function.  Scan is the whole of it, by which two *)
(* texts that differ in one call are compared place by place, from the end *)
(* to the beginning.                                                       *)
(***************************************************************************)
EXTENDS ScriptTexts, SequenceLemmas

\* What the aliases are once a call has been made does not depend on which it was, and
\* every call answers from these, except a first one that reports a problem.
ResolutionInv ==
  /\ calls \in Nat
  /\ config_file_initialized \in BOOLEAN
  /\ config_file_initialized <=> calls > 0
  /\ config_file_initialized => aliases = load_aliases.aliases
  /\ \A answer \in answers :
       /\ answer.call \in 1 .. calls
       /\ load_aliases.problem = <<>> \/ answer.call > 1 =>
            answer.outcome = Answer(load_aliases.aliases, answer.base, answer.name)

LEMMA InitialResolution == Init => ResolutionInv
<1> SUFFICES ASSUME Init
             PROVE  ResolutionInv
  OBVIOUS
<1>1. calls \in Nat /\ ~(calls > 0) /\ answers = {} /\ config_file_initialized = FALSE
  BY DEF Init
<1> QED
  BY <1>1, Zenon DEF ResolutionInv

\* load_aliases and Answer read no variable but the file system, which no call changes.
LEMMA SameWorld ==
  ASSUME UNCHANGED world
  PROVE  /\ load_aliases' = load_aliases
         /\ \A known, base, name : Answer(known, base, name)' = Answer(known, base, name)
<1>1. /\ Found' = Found /\ find_config_file' = find_config_file
      /\ \A name : NoUserFolder(name)' = NoUserFolder(name)
      /\ \A directory, name : From(directory, name)' = From(directory, name)
  BY DEF Found, find_config_file, NoUserFolder, From, substitute_user_folder
<1>2. load_aliases' = load_aliases
  BY <1>1 DEF load_aliases, AliasesOf, Emplaced, Usable, NoUserFolder, From,
              substitute_user_folder, Found, find_config_file
<1>3. \A known, base, name : Answer(known, base, name)' = Answer(known, base, name)
  BY <1>1 DEF Answer, find_source, FirstOf, Exists, IsDirectory, InitIn, WithExtension, Path,
              From, NoUserFolder, substitute_user_folder
<1> QED
  BY <1>2, <1>3

LEMMA ResolutionStep ==
  ASSUME ResolutionInv, NEW base, NEW name, resolve_require_path(base, name)
  PROVE  ResolutionInv'
<1>1. /\ load_aliases' = load_aliases
      /\ \A k, b, n : Answer(k, b, n)' = Answer(k, b, n)
  BY SameWorld DEF resolve_require_path
<1>2. calls' = calls + 1 /\ calls' \in Nat /\ calls' > 0 /\ config_file_initialized' = TRUE
  BY DEF resolve_require_path, ResolutionInv
<1>3. Known = load_aliases.aliases /\ aliases' = load_aliases.aliases
  BY DEF resolve_require_path, ResolutionInv, Known
<1>4. calls' > 1 \/ load_aliases.problem = <<>> => Problem = <<>>
  BY <1>2 DEF ResolutionInv, Problem
<1>5. ASSUME NEW answer \in answers'
      PROVE  /\ answer.call \in 1 .. calls'
             /\ load_aliases.problem = <<>> \/ answer.call > 1 =>
                  answer.outcome = Answer(load_aliases.aliases, answer.base, answer.name)
  <2>1. CASE answer \in answers
    BY <2>1, <1>2 DEF ResolutionInv
  <2>2. CASE answer \notin answers
    <3>1. answer = [call |-> calls', base |-> base, name |-> name,
                    outcome |-> IF Problem # <<>> THEN Problem[1]
                                ELSE Answer(Known, base, name)]
      BY <2>2 DEF resolve_require_path
    <3> QED
      BY <3>1, <1>2, <1>3, <1>4
  <2> QED
    BY <2>1, <2>2
<1> QED
  BY <1>1, <1>2, <1>3, <1>5 DEF ResolutionInv

LEMMA ResolutionInductive == ResolutionInv /\ [Next]_vars => ResolutionInv'
<1> SUFFICES ASSUME ResolutionInv, [Next]_vars
             PROVE  ResolutionInv'
  OBVIOUS
<1>1. CASE ExpandOnce
  BY <1>1, ResolutionStep DEF ExpandOnce
<1>2. CASE ExpandAgain
  BY <1>2, ResolutionStep DEF ExpandAgain
<1>3. CASE UNCHANGED vars
  BY <1>3, SameWorld DEF vars, ResolutionInv
<1> QED
  BY <1>1, <1>2, <1>3 DEF Next

LEMMA StableByInv == ResolutionInv => AnswersAreStable
BY DEF ResolutionInv, AnswersAreStable

\* Scripts that give the same name in the same directory get the same module, whenever
\* they ask, in a process that resolves any names in any order.
THEOREM AnswersAreStableCorrect == Spec => []AnswersAreStable
BY InitialResolution, ResolutionInductive, StableByInv, PTL DEF Spec
-----------------------------------------------------------------------------
\* normalize_path: what a fold makes of a path, step by step.
Paths == Seq(Steps)
Canonical == Seq(Steps \ {Up})
Followed(q, s) == IF s # Up THEN Append(q, s) ELSE IF q = <<>> THEN q ELSE Front(q)
IsTable(g, p) ==
  g = [s \in SUBSET DOMAIN p |-> IF s = {} THEN <<>> ELSE Followed(g[s \ {Max(s)}], p[Max(s)])]

LEMMA CanonicalPaths == Canonical \subseteq Paths
BY DEF Canonical, Paths

LEMMA FollowedCanonical ==
  ASSUME NEW q \in Canonical, NEW s \in Steps
  PROVE  Followed(q, s) \in Canonical
<1>1. CASE s # Up
  BY <1>1 DEF Followed, Canonical
<1>2. CASE s = Up /\ q # <<>>
  <2>1. /\ Len(q) \in Nat /\ Len(q) # 0 /\ \A i \in 1 .. Len(q) : q[i] \in Steps \ {Up}
    BY <1>2, EmptySeq, LenProperties, ElementOfSeq DEF Canonical
  <2>2. SubSeq(q, 1, Len(q) - 1) \in Seq(Steps \ {Up})
    BY <2>1, SubSeqProperties DEF Canonical
  <2> QED
    BY <1>2, <2>2 DEF Followed, Front, Canonical
<1> QED
  BY <1>1, <1>2 DEF Followed

LEMMA TableOfPath ==
  ASSUME NEW p \in Paths
  PROVE  \E g : IsTable(g, p)
<1> DEFINE step == [x \in Canonical \X Steps |-> Followed(x[1], x[2])]
<1>1. step \in [Canonical \X Steps -> Canonical]
  BY FollowedCanonical
<1>2. Len(p) \in Nat /\ DOMAIN p = 1 .. Len(p) /\ p \in [1 .. Len(p) -> Steps] /\ <<>> \in Canonical
  BY LenProperties DEF Paths, Canonical
<1>3. PICK g : FoldTable(g, Canonical, step, <<>>, p, Len(p))
  <2> HIDE DEF step
  <2> QED
    BY <1>1, <1>2, TableExists
<1>4. ASSUME NEW s \in SUBSET (1 .. Len(p)), s # {}
      PROVE  g[s] = Followed(g[s \ {Max(s)}], p[Max(s)])
  <2>1. Max(s) \in 1 .. Len(p)
    BY <1>2, <1>4, MaxOf
  <2>2. g[s \ {Max(s)}] \in Canonical /\ p[Max(s)] \in Steps
    BY <1>2, <1>3, <2>1 DEF FoldTable
  <2> QED
    BY <1>3, <1>4, <2>2 DEF FoldTable
<1>5. IsTable(g, p)
  BY <1>2, <1>3, <1>4 DEF IsTable, FoldTable
<1> QED
  BY <1>5

\* The path after each of its steps.
IsTrace(r, p) ==
  /\ r \in [0 .. Len(p) -> Canonical] /\ r[0] = <<>>
  /\ \A k \in 1 .. Len(p) : r[k] = Followed(r[k - 1], p[k])
  /\ normalize_path(p) = r[Len(p)]

LEMMA TraceOfPath ==
  ASSUME NEW p \in Paths
  PROVE  \E r : IsTrace(r, p)
<1> DEFINE g == CHOOSE g : IsTable(g, p)
           r == [k \in 0 .. Len(p) |-> g[1 .. k]]
<1>1. Len(p) \in Nat /\ DOMAIN p = 1 .. Len(p) /\ \A k \in 1 .. Len(p) : p[k] \in Steps
  BY LenProperties, ElementOfSeq DEF Paths
<1>2. IsTable(g, p)
  BY TableOfPath
<1>3. normalize_path(p) = g[1 .. Len(p)]
  BY <1>1 DEF normalize_path, FoldLeft, MapThenFoldSet, IsTable, Followed
<1> HIDE DEF g
<1>4. r[0] = <<>>
  <2>1. 1 .. 0 = {} /\ {} \in SUBSET DOMAIN p
    OBVIOUS
  <2>2. g[{}] = <<>>
    BY <1>2, <2>1 DEF IsTable
  <2> QED
    BY <1>1, <2>1, <2>2
<1>5. ASSUME NEW k \in 1 .. Len(p)
      PROVE  r[k] = Followed(r[k - 1], p[k])
  <2>1. Max(1 .. k) = k /\ (1 .. k) \ {k} = 1 .. k - 1 /\ 1 .. k # {} /\ 1 .. k \in SUBSET DOMAIN p
    BY <1>1, MaxUpTo
  <2>2. g[1 .. k] = Followed(g[1 .. k - 1], p[k])
    BY <1>2, <2>1 DEF IsTable
  <2>3. k \in 0 .. Len(p) /\ k - 1 \in 0 .. Len(p)
    BY <1>1
  <2> QED
    BY <2>2, <2>3
<1>6. r \in [0 .. Len(p) -> Canonical]
  <2> DEFINE S == {k \in 0 .. Len(p) : r[k] \in Canonical}
  <2> HIDE DEF r
  <2>1. 0 \in S
    <3>1. <<>> \in Canonical /\ 0 \in 0 .. Len(p)
      BY <1>1 DEF Canonical
    <3> QED
      BY <1>4, <3>1
  <2>2. \A k \in 1 .. Len(p) : k - 1 \in S => k \in S
    BY <1>1, <1>5, FollowedCanonical
  <2>3. 0 .. Len(p) \subseteq S
    <3> HIDE DEF S
    <3> QED
      BY <1>1, <2>1, <2>2, Upward
  <2> QED
    BY <2>3 DEF r
<1>7. normalize_path(p) = r[Len(p)]
  BY <1>1, <1>3
<1> HIDE DEF r
<1> QED
  BY <1>4, <1>5, <1>6, <1>7 DEF IsTrace

LEMMA NormalIsCanonical ==
  ASSUME NEW p \in Paths
  PROVE  normalize_path(p) \in Canonical
BY TraceOfPath, LenProperties DEF IsTrace, Paths

LEMMA CanonicalIsNormal ==
  ASSUME NEW p \in Canonical
  PROVE  normalize_path(p) = p
<1>1. p \in Paths /\ Len(p) \in Nat /\ \A k \in 1 .. Len(p) : p[k] \in Steps \ {Up}
  BY CanonicalPaths, LenProperties, ElementOfSeq DEF Canonical
<1>2. PICK r : IsTrace(r, p)
  BY <1>1, TraceOfPath
<1> DEFINE S == {k \in 0 .. Len(p) : r[k] = SubSeq(p, 1, k)}
<1>3. 0 \in S
  <2>1. r[0] = <<>> /\ SubSeq(p, 1, 0) = <<>> /\ 0 \in 0 .. Len(p)
    BY <1>1, <1>2, SubSeqEmpty DEF IsTrace, Canonical
  <2> QED
    BY <2>1
<1>4. ASSUME NEW k \in 1 .. Len(p), k - 1 \in S
      PROVE  k \in S
  <2>1. r[k] = Append(SubSeq(p, 1, k - 1), p[k])
    BY <1>1, <1>2, <1>4 DEF IsTrace, Followed
  <2>2. Append(SubSeq(p, 1, k - 1), p[k]) = SubSeq(p, 1, k)
    BY <1>1 DEF Canonical
  <2> QED
    BY <2>1, <2>2
<1>5. 0 .. Len(p) \subseteq S
  <2> HIDE DEF S
  <2> QED
    BY <1>1, <1>3, <1>4, Upward
<1>6. r[Len(p)] = SubSeq(p, 1, Len(p))
  BY <1>1, <1>5
<1>7. SubSeq(p, 1, Len(p)) = p
  BY SubSeqFull DEF Canonical
<1> QED
  BY <1>2, <1>6, <1>7 DEF IsTrace
-----------------------------------------------------------------------------
\* What resolve_require_path returns: an error, or the canonical path of what exists.
Answered(outcome) ==
  \/ outcome \in {Message, Failure, Exception}
  \/ outcome.path \in Canonical \cap DOMAIN world.tree /\ outcome = Path(outcome.path)

LEMMA ExistingPath ==
  ASSUME NEW p \in Paths, Exists(p)
  PROVE  Answered(Path(p))
<1>1. normalize_path(p) \in Canonical \cap DOMAIN world.tree
  BY NormalIsCanonical DEF Exists
<1>2. Path(p).path = normalize_path(p)
  BY DEF Path
<1>3. normalize_path(normalize_path(p)) = normalize_path(p)
  BY <1>1, CanonicalIsNormal
<1> QED
  BY <1>1, <1>2, <1>3 DEF Answered, Path

LEMMA FirstOfCandidates ==
  ASSUME NEW candidates \in Seq(Paths)
  PROVE  Answered(FirstOf(candidates))
<1>1. CASE \E p \in ToSet(candidates) : Exists(p)
  <2> DEFINE I == {i \in 1 .. Len(candidates) : Exists(candidates[i])}
  <2>1. Len(candidates) \in Nat /\ \A i \in 1 .. Len(candidates) : candidates[i] \in Paths
    BY LenProperties, ElementOfSeq
  <2>2. I \in SUBSET Nat
    BY <2>1
  <2>3. I # {}
    BY <1>1, <2>1, ElementsOf
  <2>4. Min(I) \in I
    <3>1. \E x \in I : \A y \in I : x <= y
      <4> HIDE DEF I
      <4> QED
        BY <2>2, <2>3, LeastOf
    <3> QED
      BY <3>1 DEF Min
  <2>5. SelectInSeq(candidates, Exists) = Min(I)
    BY <2>3 DEF SelectInSeq
  <2> QED
    BY <1>1, <2>1, <2>4, <2>5, ExistingPath DEF FirstOf
<1>2. CASE ~\E p \in ToSet(candidates) : Exists(p)
  BY <1>2 DEF FirstOf, Answered
<1> QED
  BY <1>1, <1>2

LEMMA CandidatesArePaths ==
  ASSUME NEW p \in Paths
  PROVE  WithExtension(p) \in Seq(Paths) /\ InitIn(p) \in Seq(Paths)
<1>1. Len(FileExts) \in Nat /\ DOMAIN FileExts = 1 .. Len(FileExts)
      /\ \A i \in 1 .. Len(FileExts) : FileExts[i] \in STRING
  BY PathsAssumption, LenProperties, ElementOfSeq
<1>2. Len(p) \in Nat /\ DOMAIN p = 1 .. Len(p) /\ \A k \in 1 .. Len(p) : p[k] \in Steps
  BY LenProperties, ElementOfSeq DEF Paths
<1>3. ASSUME NEW e \in STRING
      PROVE  [p EXCEPT ![Len(p)].ext = e] \in Paths
  <2>1. \A k \in 1 .. Len(p) : [p[k] EXCEPT !.ext = e] \in Steps
    BY <1>2 DEF Steps
  <2> DEFINE q == [p EXCEPT ![Len(p)].ext = e]
  <2>2. q \in [1 .. Len(p) -> Steps]
    BY <1>2, <2>1
  <2> HIDE DEF q
  <2>3. q \in Seq(Steps)
    BY <1>2, <2>2
  <2> QED
    BY <2>3 DEF Paths, q
<1>4. ASSUME NEW e \in STRING
      PROVE  Append(p, [stem |-> "init", ext |-> e]) \in Paths
  <2>1. [stem |-> "init", ext |-> e] \in Steps
    BY <1>4, PathsAssumption DEF Steps
  <2> QED
    BY <2>1 DEF Paths
<1>5. WithExtension(p) \in Seq(Paths)
  BY <1>1, <1>3 DEF WithExtension
<1>6. InitIn(p) \in Seq(Paths)
  <2>1. InitIn(p) \in [1 .. Len(FileExts) -> Paths]
    BY <1>1, <1>4 DEF InitIn
  <2> QED
    BY <1>1, <2>1
<1> QED
  BY <1>5, <1>6

LEMMA SourceIsAnswered ==
  ASSUME NEW p \in Paths
  PROVE  Answered(find_source(p))
<1>1. CASE ~Exists(p)
  <2>1. find_source(p) \in {Failure, FirstOf(WithExtension(p))}
    BY <1>1 DEF find_source, IsDirectory
  <2> QED
    BY <2>1, CandidatesArePaths, FirstOfCandidates DEF Answered
<1>2. CASE Exists(p)
  <2>1. find_source(p) \in {FirstOf(InitIn(p)), Path(p)}
    BY <1>2 DEF find_source
  <2> QED
    BY <1>2, <2>1, CandidatesArePaths, FirstOfCandidates, ExistingPath
<1> QED
  BY <1>1, <1>2

LEMMA FromIsPath ==
  ASSUME world \in Worlds, NEW directory \in Paths, NEW name, name.steps \in Paths, ~NoUserFolder(name)
  PROVE  From(directory, name) \in Paths
<1>1. CASE name.start = "absolute"
  BY <1>1 DEF From
<1>2. CASE name.start = "user"
  <2>1. world.home[1] \in Paths
    BY <1>2, PathsAssumption DEF NoUserFolder, Paths
  <2>2. world.home[1] \o name.steps \in Paths
    BY <2>1 DEF Paths
  <2> QED
    BY <1>2, <2>2 DEF From, substitute_user_folder
<1>3. CASE name.start \notin {"absolute", "user"}
  BY <1>3 DEF From, Paths
<1> QED
  BY <1>1, <1>2, <1>3

\* The aliases lead to canonical paths, and a problem is reported as one of two errors.
CanonicalAliases(known) == \A key \in DOMAIN known : known[key] \in Canonical
LEMMA AliasesAreCanonical ==
  ASSUME world \in Worlds
  PROVE  /\ CanonicalAliases(load_aliases.aliases)
         /\ load_aliases.problem # <<>> => load_aliases.problem[1] \in {Message, Exception}
<1>1. CASE Found = {}
  BY <1>1 DEF load_aliases, NoAliases, CanonicalAliases
<1>2. CASE Found # {}
  <2> DEFINE n == CHOOSE n \in Found : \A m \in Found : n <= m
             entries == find_config_file.entries
  <2>1. n \in Found
    <3>1. Found \in SUBSET Nat
      BY DepthAssumption DEF Found
    <3> QED
      BY <1>2, <3>1, LeastOf
  <2>2. Ancestor(world.cwd, n) \in DOMAIN world.configs
    BY <2>1 DEF Found
  <2>3. entries \in Seq([key : STRING, value : [start : STRING, steps : Paths]])
    BY <2>2, PathsAssumption DEF find_config_file, Paths
  <2> HIDE DEF n, entries
  <2>4. CanonicalAliases(AliasesOf(entries))
    <3> SUFFICES ASSUME NEW key \in {e.key : e \in Emplaced(entries)}
                 PROVE  AliasesOf(entries)[key] \in Canonical
      BY DEF CanonicalAliases, AliasesOf
    <3> DEFINE e == CHOOSE e \in Emplaced(entries) : e.key = key
    <3>1. e \in Emplaced(entries)
      OBVIOUS
    <3> HIDE DEF e
    <3>2. PICK i \in DOMAIN entries : e = entries[i] /\ \A k \in 1 .. i : Usable(entries[k])
      BY <3>1 DEF Emplaced
    <3>3. Usable(e) /\ e \in [key : STRING, value : [start : STRING, steps : Paths]]
      <4>1. i \in 1 .. i /\ entries[i] \in [key : STRING, value : [start : STRING, steps : Paths]]
        <5>1. DOMAIN entries = 1 .. Len(entries) /\ Len(entries) \in Nat
          BY <2>3, LenProperties
        <5>2. i \in 1 .. Len(entries) /\ i \in 1 .. i
          BY <5>1
        <5>3. entries[i] \in [key : STRING, value : [start : STRING, steps : Paths]]
          BY <2>3, <5>2, ElementOfSeq
        <5> QED
          BY <5>2, <5>3
      <4> QED
        BY <3>2, <4>1
    <3>4. e.value.steps \in Paths /\ ~NoUserFolder(e.value)
      BY <2>3, <3>2, <3>3 DEF Usable
    <3>5. world.cwd \in Paths
      BY PathsAssumption DEF Paths
    <3>6. normalize_path(From(world.cwd, e.value)) \in Canonical
      BY <3>4, <3>5, FromIsPath, NormalIsCanonical
    <3> QED
      BY <3>6 DEF AliasesOf, e
  <2> QED
    BY <1>2, <2>4 DEF load_aliases, NoAliases, CanonicalAliases, entries
<1> QED
  BY <1>1, <1>2

LEMMA AnswerIsAnswered ==
  ASSUME world \in Worlds, NEW known, CanonicalAliases(known),
         NEW base \in Paths, NEW name, name.steps \in Paths
  PROVE  Answered(Answer(known, base, name))
<1>1. CASE name.start = "message" \/ NoUserFolder(name)
  <2>1. Answer(known, base, name) = Failure
    BY <1>1 DEF Answer, HasAlias, Starts, NoUserFolder
  <2> QED
    BY <2>1 DEF Answered
<1>2. CASE ~(name.start = "message" \/ NoUserFolder(name)) /\ HasAlias(name)
  <2>1. CASE name.start \notin DOMAIN known
    BY <1>2, <2>1 DEF Answer, Answered
  <2>2. CASE name.start \in DOMAIN known
    <3>1. known[name.start] \in Paths
      BY <2>2, CanonicalPaths DEF CanonicalAliases
    <3>2. known[name.start] \o name.steps \in Paths
      BY <3>1 DEF Paths
    <3>3. Answer(known, base, name) = find_source(known[name.start] \o name.steps)
      BY <1>2, <2>2 DEF Answer
    <3> QED
      BY <3>2, <3>3, SourceIsAnswered
  <2> QED
    BY <2>1, <2>2
<1>3. CASE ~(name.start = "message" \/ NoUserFolder(name)) /\ ~HasAlias(name)
  <2>1. Answer(known, base, name) = find_source(From(base, name))
    BY <1>3 DEF Answer
  <2>2. From(base, name) \in Paths
    BY <1>3, FromIsPath
  <2> QED
    BY <2>1, <2>2, SourceIsAnswered
<1> QED
  BY <1>1, <1>2, <1>3

AnswersInv ==
  /\ world \in Worlds /\ config_file_initialized \in BOOLEAN /\ calls \in 0 .. MaxCalls
  /\ CanonicalAliases(aliases)
  /\ \A answer \in answers :
       answer.call \in 1 .. calls /\ answer.base \in Paths /\ Answered(answer.outcome)

LEMMA AnswersStep ==
  ASSUME AnswersInv, NEW base \in Paths, NEW name, name.steps \in Paths, resolve_require_path(base, name)
  PROVE  AnswersInv'
<1>1. /\ world' = world /\ calls' = calls + 1 /\ calls' \in 0 .. MaxCalls /\ calls \in Nat
      /\ config_file_initialized' = TRUE /\ aliases' = Known
  BY DepthAssumption DEF resolve_require_path, AnswersInv
<1>2. CanonicalAliases(Known) /\ (Problem # <<>> => Problem[1] \in {Message, Exception})
  BY AliasesAreCanonical DEF Known, Problem, AnswersInv
<1>3. \A outcome : Answered(outcome)' <=> Answered(outcome)
  BY <1>1 DEF Answered
<1>4. Answered(IF Problem # <<>> THEN Problem[1] ELSE Answer(Known, base, name))
  <2>1. CASE Problem # <<>>
    BY <1>2, <2>1 DEF Answered
  <2>2. CASE Problem = <<>>
    BY <1>2, <2>2, AnswerIsAnswered DEF AnswersInv
  <2> QED
    BY <2>1, <2>2
<1>5. ASSUME NEW answer \in answers'
      PROVE  answer.call \in 1 .. calls' /\ answer.base \in Paths /\ Answered(answer.outcome)
  <2>1. CASE answer \in answers
    BY <1>1, <2>1 DEF AnswersInv
  <2>2. CASE answer \notin answers
    <3>1. answer = [call |-> calls', base |-> base, name |-> name,
                    outcome |-> IF Problem # <<>> THEN Problem[1] ELSE Answer(Known, base, name)]
      BY <2>2 DEF resolve_require_path
    <3>2. calls' \in 1 .. calls'
      BY <1>1
    <3> QED
      BY <1>4, <3>1, <3>2
  <2> QED
    BY <2>1, <2>2
<1>6. CanonicalAliases(aliases')
  BY <1>1, <1>2
<1> QED
  BY <1>1, <1>3, <1>5, <1>6 DEF AnswersInv, CanonicalAliases

LEMMA AnswersInductive == AnswersInv /\ [Next]_vars => AnswersInv'
<1> SUFFICES ASSUME AnswersInv, [Next]_vars
             PROVE  AnswersInv'
  OBVIOUS
<1>1. CASE ExpandOnce
  <2>1. PICK base \in Bases, name \in Names : resolve_require_path(base, name)
    BY <1>1 DEF ExpandOnce
  <2>2. base \in Paths /\ name.steps \in Paths
    BY PathsAssumption DEF Paths
  <2> QED
    BY <2>1, <2>2, AnswersStep
<1>2. CASE ExpandAgain
  <2>1. PICK answer \in answers :
          /\ answer.outcome.kind \in {"path", "message"}
          /\ resolve_require_path(answer.base, Written(answer.outcome))
    BY <1>2 DEF ExpandAgain
  <2>2. answer.base \in Paths /\ Answered(answer.outcome)
    BY DEF AnswersInv
  <2>3. answer.outcome.path \in Paths
    <3>1. CASE answer.outcome \in {Message, Failure, Exception}
      <4>1. answer.outcome.path = <<>>
        BY <3>1 DEF Message, Failure, Exception
      <4> QED
        BY <4>1 DEF Paths
    <3>2. CASE answer.outcome.path \in Canonical
      BY <3>2, CanonicalPaths
    <3> QED
      BY <2>2, <3>1, <3>2 DEF Answered
  <2>4. Written(answer.outcome).steps \in Paths
    BY <2>3 DEF Written
  <2> QED
    BY <2>1, <2>2, <2>4, AnswersStep
<1>3. CASE UNCHANGED vars
  BY <1>3 DEF vars, AnswersInv, Answered, CanonicalAliases
<1> QED
  BY <1>1, <1>2, <1>3 DEF Next

LEMMA AnswersInitially == Init => AnswersInv
<1> SUFFICES ASSUME Init
             PROVE  AnswersInv
  OBVIOUS
<1>1. CanonicalAliases(aliases)
  BY DEF Init, CanonicalAliases, NoAliases
<1>2. 0 \in 0 .. MaxCalls
  BY DepthAssumption
<1>3. world \in Worlds /\ config_file_initialized = FALSE /\ calls = 0 /\ answers = {}
  BY DEF Init
<1> QED
  BY <1>1, <1>2, <1>3 DEF AnswersInv

LEMMA TypedByInv == AnswersInv => ResolutionTypeOK
<1> SUFFICES ASSUME AnswersInv
             PROVE  ResolutionTypeOK
  OBVIOUS
<1>1. \A answer \in answers : answer.outcome \in Outcomes
  BY DEF AnswersInv, Answered, Outcomes
<1>2. \A key \in DOMAIN aliases : aliases[key] = normalize_path(aliases[key])
  BY CanonicalIsNormal DEF AnswersInv, CanonicalAliases
<1> QED
  BY <1>1, <1>2 DEF AnswersInv, ResolutionTypeOK

\* What is returned for a path is the canonical path of what exists, and aliases are
\* canonical paths (require_logic.cpp:46-152, common.hpp).
THEOREM ResolutionTypeCorrect == Spec => []ResolutionTypeOK
BY TypedByInv, AnswersInitially, AnswersInductive, PTL DEF Spec

LEMMA WrittenLeadsBack ==
  ASSUME AnswersInv, NEW answer \in answers, answer.outcome.kind = "path", ~IsDirectory(answer.outcome.path),
         NEW known, NEW base
  PROVE  Answer(known, base, Written(answer.outcome)) = answer.outcome
<1> DEFINE p == answer.outcome.path
           name == Written(answer.outcome)
<1>1. p \in Canonical /\ p \in DOMAIN world.tree /\ answer.outcome = Path(p)
  BY DEF AnswersInv, Answered, Message, Failure, Exception
<1>2. normalize_path(p) = p
  BY <1>1, CanonicalIsNormal
<1>3. name.start = "absolute" /\ name.steps = p
  BY DEF Written
<1> HIDE DEF p, name
<1>4. Answer(known, base, name) = find_source(p)
  BY <1>3 DEF Answer, HasAlias, Starts, NoUserFolder, From
<1>5. Exists(p) /\ ~IsDirectory(p)
  BY <1>1, <1>2 DEF Exists, p
<1>6. find_source(p) = Path(p)
  BY <1>5 DEF find_source
<1> QED
  BY <1>1, <1>4, <1>6 DEF name

LEMMA LeadsBackByInv == AnswersInv => ResolvesToItself
BY WrittenLeadsBack DEF ResolvesToItself

\* The text that stands for a source leads to the same source, from any directory, unless
\* it is that of a directory called like a source (preprocessing.cpp:137-143).
THEOREM ResolvesToItselfCorrect == Spec => []ResolvesToItself
BY LeadsBackByInv, AnswersInitially, AnswersInductive, PTL DEF Spec
-----------------------------------------------------------------------------
\* Texts: tokens, and where a run of them ends.
\* What a token is: its kind, but for names.
LEMMA TokenIs ==
  ASSUME NEW x \in Tokens
  PROVE  /\ x.kind \in Kinds
         /\ x.kind # "name" => x = Token(x.kind)
         /\ x.kind = "name" => x = Named(x.name) /\ x.name \in [start : STRING, steps : Seq(Steps)]
<1>1. CASE x \in {Token(kind) : kind \in Kinds \ {"name"}}
  BY <1>1 DEF Token
<1>2. CASE x \in [kind : {"name"}, name : [start : STRING, steps : Seq(Steps)]]
  BY <1>2 DEF Named, Kinds, Letters
<1> QED
  BY <1>1, <1>2 DEF Tokens

LEMMA KindIs ==
  ASSUME NEW x \in Tokens
  PROVE  /\ x = Quote <=> x.kind = "quote"
         /\ x = Close <=> x.kind = "close"
         /\ x = Blank <=> x.kind = "blank"
         /\ x = Dot <=> x.kind = "dot"
         /\ \A k : k # "name" => (x = Token(k) <=> x.kind = k)
BY TokenIs DEF Token, Quote, Close, Blank, Dot

\* Where a run of tokens of some kinds ends.
Run(t, i, k, kinds) ==
  /\ k \in i .. Len(t) + 1 /\ (k = Len(t) + 1 \/ t[k].kind \notin kinds)
  /\ \A j \in i .. k - 1 : t[j].kind \in kinds

LEMMA RunsEnd ==
  ASSUME NEW t \in Seq(Tokens), NEW i \in 1 .. Len(t) + 1, NEW kinds
  PROVE  \E k \in i .. Len(t) + 1 : Run(t, i, k, kinds)
<1> DEFINE I == {k \in i .. Len(t) + 1 : k = Len(t) + 1 \/ t[k].kind \notin kinds}
<1>1. Len(t) \in Nat
  BY LenProperties
<1>2. I \in SUBSET Nat /\ Len(t) + 1 \in I
  BY <1>1
<1>3. PICK k \in I : \A j \in I : k <= j
  <2> HIDE DEF I
  <2> QED
    BY <1>2, LeastOf
<1>4. ASSUME NEW j \in i .. k - 1
      PROVE  t[j].kind \in kinds
  <2>1. j \in i .. Len(t) + 1 /\ ~(k <= j)
    BY <1>1, <1>2, <1>3
  <2> QED
    BY <1>3, <2>1
<1> QED
  BY <1>3, <1>4 DEF Run

LEMMA RunsAreOne ==
  ASSUME NEW t \in Seq(Tokens), NEW i \in 1 .. Len(t) + 1, NEW kinds,
         NEW k, NEW l, Run(t, i, k, kinds), Run(t, i, l, kinds)
  PROVE  k = l
<1>1. Len(t) \in Nat /\ k \in Int /\ l \in Int
  BY LenProperties DEF Run
<1>2. ~(k < l)
  <2> SUFFICES ASSUME k < l
               PROVE  FALSE
    OBVIOUS
  <2>1. k \in i .. l - 1 /\ k # Len(t) + 1
    BY <1>1 DEF Run
  <2> QED
    BY <2>1 DEF Run
<1>3. ~(l < k)
  <2> SUFFICES ASSUME l < k
               PROVE  FALSE
    OBVIOUS
  <2>1. l \in i .. k - 1 /\ l # Len(t) + 1
    BY <1>1 DEF Run
  <2> QED
    BY <2>1 DEF Run
<1> QED
  BY <1>1, <1>2, <1>3

LEMMA AfterIs ==
  ASSUME NEW t \in Seq(Tokens), NEW i \in 1 .. Len(t) + 1, NEW kinds
  PROVE  /\ Run(t, i, After(t, i, kinds), kinds)
         /\ \A k : Run(t, i, k, kinds) => After(t, i, kinds) = k
<1>1. PICK k \in i .. Len(t) + 1 : Run(t, i, k, kinds)
  BY RunsEnd
<1>2. After(t, i, kinds) = CHOOSE l \in i .. Len(t) + 1 : Run(t, i, l, kinds)
  BY DEF After, Run
<1>3. Run(t, i, After(t, i, kinds), kinds)
  BY <1>1, <1>2
<1> QED
  BY <1>3, RunsAreOne
-----------------------------------------------------------------------------
\* Where the patterns of the three calls match.
\* What specifier_at finds: the call's name at i, its quotes at o and c.
Inner == Letters \cup {"blank", "dot", "open"}
Size(fname) == IF fname = "dlrequire" THEN 2 ELSE 1
SpelledAt(t, i, fname) ==
  IF fname = "dlrequire" THEN i < Len(t) /\ t[i].kind = "dl" /\ t[i + 1].kind = "require"
                         ELSE t[i].kind = fname
Quoted(t, i, fname, o, c) ==
  /\ SpelledAt(t, i, fname) /\ i + Size(fname) <= o /\ o + 1 < c
  /\ \A q \in i + Size(fname) .. o - 1 : t[q].kind \in {"blank", "open"}
  /\ t[o].kind = "quote" /\ t[c].kind = "quote"
  /\ \A q \in o + 1 .. c - 1 : t[q].kind \in Inner
Behind(t, c) ==
  LET b == After(t, c + 1, {"blank"}) IN IF b <= Len(t) /\ t[b].kind = "close" THEN b + 1 ELSE b
MatchOf(t, i, o, c) == [first |-> i, group |-> SubSeq(t, o + 1, c - 1), past |-> Behind(t, c)]

LEMMA ElementsTyped ==
  ASSUME NEW t \in Seq(Tokens)
  PROVE  Len(t) \in Nat /\ \A i \in 1 .. Len(t) : t[i] \in Tokens
BY LenProperties, ElementOfSeq

LEMMA PieceOfOne ==
  ASSUME NEW S, NEW t \in Seq(S), NEW i \in 1 .. Len(t)
  PROVE  SubSeq(t, i, i) = <<t[i]>>
<1> DEFINE p == SubSeq(t, i, i)
           x == t[i]
           q == <<x>>
<1>1. Len(t) \in Nat /\ x \in S /\ i \in Int /\ (\A j \in i .. i : t[j] \in S)
  BY LenProperties, ElementOfSeq
<1>2. p \in Seq(S) /\ Len(p) = 1 /\ p[1] = x
  <2>1. p \in Seq(S) /\ Len(p) = i - i + 1 /\ \A j \in 1 .. i - i + 1 : p[j] = t[i + j - 1]
    BY <1>1, SubSeqProperties
  <2> QED
    BY <1>1, <2>1
<1>3. q \in Seq(S) /\ Len(q) = 1 /\ q[1] = x
  BY <1>1
<1> HIDE DEF p, q
<1>4. p = q
  BY <1>2, <1>3, SeqEqual
<1> QED
  BY <1>4 DEF p, q

LEMMA PieceOfTwo ==
  ASSUME NEW S, NEW t \in Seq(S), NEW i \in 1 .. Len(t), i + 1 <= Len(t)
  PROVE  SubSeq(t, i, i + 1) = <<t[i], t[i + 1]>>
<1> DEFINE p == SubSeq(t, i, i + 1)
           x == t[i]
           y == t[i + 1]
           q == <<x, y>>
<1>1. /\ Len(t) \in Nat /\ x \in S /\ y \in S /\ i \in Int /\ i + 1 \in Int
      /\ (\A j \in i .. i + 1 : t[j] \in S)
  BY LenProperties, ElementOfSeq
<1>2. p \in Seq(S) /\ Len(p) = 2 /\ p[1] = x /\ p[2] = y
  <2>1. p \in Seq(S) /\ Len(p) = (i + 1) - i + 1 /\ \A j \in 1 .. (i + 1) - i + 1 : p[j] = t[i + j - 1]
    BY <1>1, SubSeqProperties
  <2>2. 1 \in 1 .. (i + 1) - i + 1 /\ 2 \in 1 .. (i + 1) - i + 1 /\ i + 1 - 1 = i /\ i + 2 - 1 = i + 1
    BY <1>1
  <2> QED
    BY <1>1, <2>1, <2>2
<1>3. q \in Seq(S) /\ Len(q) = 2 /\ q[1] = x /\ q[2] = y
  BY <1>1
<1> HIDE DEF p, q
<1>4. \A j \in 1 .. Len(p) : p[j] = q[j]
  BY <1>2, <1>3
<1>5. p = q
  BY <1>2, <1>3, <1>4, SeqEqual
<1> QED
  BY <1>5 DEF p, q

LEMMA SpellingIs ==
  ASSUME NEW t \in Seq(Tokens), NEW i \in 1 .. Len(t), NEW fname \in Resolving
  PROVE  /\ Len(Spelling(fname)) = Size(fname) /\ Size(fname) \in {1, 2}
         /\ i + Size(fname) <= Len(t) + 1 =>
              (Begins(t, i, Spelling(fname)) <=> SpelledAt(t, i, fname))
<1>1. Len(t) \in Nat /\ \A j \in 1 .. Len(t) : t[j] \in Tokens
  BY ElementsTyped
<1>2. CASE fname = "dlrequire"
  <2>1. Spelling(fname) = <<Token("dl"), Token("require")>> /\ Size(fname) = 2
    BY <1>2 DEF Spelling, Size
  <2>2. ASSUME i + 2 <= Len(t) + 1
        PROVE  Begins(t, i, Spelling(fname)) <=> SpelledAt(t, i, fname)
    <3>1. SubSeq(t, i, i + 2 - 1) = <<t[i], t[i + 1]>>
      <4>1. i + 2 - 1 = i + 1 /\ i + 1 <= Len(t)
        BY <1>1, <2>2
      <4> QED
        BY <4>1, PieceOfTwo
    <3>2. Begins(t, i, Spelling(fname)) <=> t[i] = Token("dl") /\ t[i + 1] = Token("require")
      <4>1. Len(Spelling(fname)) = 2
        BY <2>1
      <4>2. Begins(t, i, Spelling(fname)) <=> <<t[i], t[i + 1]>> = <<Token("dl"), Token("require")>>
        BY <2>1, <3>1, <4>1, Zenon DEF Begins
      <4> QED
        BY <4>2
    <3>3. t[i] \in Tokens /\ t[i + 1] \in Tokens /\ i < Len(t)
      BY <1>1, <2>2
    <3>4. t[i] = Token("dl") <=> t[i].kind = "dl"
      BY <3>3, KindIs
    <3>5. t[i + 1] = Token("require") <=> t[i + 1].kind = "require"
      BY <3>3, KindIs
    <3> QED
      BY <1>2, <3>2, <3>3, <3>4, <3>5 DEF SpelledAt
  <2> QED
    BY <2>1, <2>2
<1>3. CASE fname # "dlrequire"
  <2>1. Spelling(fname) = <<Token(fname)>> /\ Size(fname) = 1
    BY <1>3 DEF Spelling, Size
  <2>2. Begins(t, i, Spelling(fname)) <=> SpelledAt(t, i, fname)
    <3>1. SubSeq(t, i, i + 1 - 1) = <<t[i]>>
      <4>1. i + 1 - 1 = i
        BY <1>1
      <4> QED
        BY <4>1, PieceOfOne
    <3>2. Begins(t, i, Spelling(fname)) <=> t[i] = Token(fname)
      <4>1. Len(Spelling(fname)) = 1
        BY <2>1
      <4>2. Begins(t, i, Spelling(fname)) <=> <<t[i]>> = <<Token(fname)>>
        BY <2>1, <3>1, <4>1, Zenon DEF Begins
      <4> QED
        BY <4>2
    <3>3. t[i] = Token(fname) <=> t[i].kind = fname
      BY <1>1, KindIs DEF Resolving
    <3> QED
      BY <1>3, <3>2, <3>3 DEF SpelledAt
  <2> QED
    BY <2>1, <2>2
<1> QED
  BY <1>2, <1>3

LEMMA SpecifierFound ==
  ASSUME NEW t \in Seq(Tokens), NEW i \in 1 .. Len(t), NEW fname \in Resolving,
         NEW o \in Nat, NEW c \in 1 .. Len(t), Quoted(t, i, fname, o, c)
  PROVE  match_at(t, i, fname) = {MatchOf(t, i, o, c)}
<1> DEFINE l == Len(Spelling(fname))
           open == After(t, i + l, {"blank", "open"})
           close == After(t, open + 1, Letters \cup {"blank", "dot", "open"})
           behind == After(t, close + 1, {"blank"})
<1>1. Len(t) \in Nat /\ \A j \in 1 .. Len(t) : t[j] \in Tokens
  BY ElementsTyped
<1>2. l \in {1, 2} /\ l = Size(fname) /\ (i + l <= Len(t) => (Begins(t, i, Spelling(fname)) <=> SpelledAt(t, i, fname)))
  <2>1. l = Size(fname) /\ Size(fname) \in {1, 2}
    BY SpellingIs
  <2> HIDE DEF l
  <2>2. i + l <= Len(t) => i + Size(fname) <= Len(t) + 1
    BY <1>1, <2>1
  <2> QED
    BY <2>1, <2>2, SpellingIs
<1>3. i + l <= Len(t) /\ Begins(t, i, Spelling(fname)) /\ o < Len(t) /\ i + l \in 1 .. Len(t) + 1
  BY <1>1, <1>2 DEF Quoted
<1>4. open = o
  <2>1. Run(t, i + l, o, {"blank", "open"})
    BY <1>1, <1>2, <1>3 DEF Run, Quoted
  <2> QED
    BY <1>3, <2>1, AfterIs
<1>5. close = c
  <2>1. Run(t, o + 1, c, Letters \cup {"blank", "dot", "open"})
    BY <1>1, <1>2, <1>3 DEF Run, Quoted, Inner, Letters, Keywords
  <2>2. o + 1 \in 1 .. Len(t) + 1
    BY <1>3
  <2> QED
    BY <1>4, <2>1, <2>2, AfterIs
<1>6. t[o] = Quote /\ t[c] = Quote
  <2>1. o \in 1 .. Len(t)
    BY <1>1, <1>2 DEF Quoted
  <2>2. t[o] \in Tokens /\ t[c] \in Tokens
    BY <1>1, <2>1
  <2> QED
    BY <2>2, KindIs DEF Quoted
<1>7. (IF behind <= Len(t) /\ t[behind] = Close THEN behind + 1 ELSE behind) = Behind(t, c)
  <2>1. c + 1 \in 1 .. Len(t) + 1
    BY <1>1
  <2>2. behind \in 1 .. Len(t) + 1
    BY <1>1, <1>5, <2>1, AfterIs DEF Run
  <2>3. behind <= Len(t) => (t[behind] = Close <=> t[behind].kind = "close")
    BY <1>1, <2>2, KindIs
  <2> QED
    BY <1>5, <2>3 DEF Behind
<1>8. specifier_at(t, i, fname) =
        {[first |-> i, group |-> SubSeq(t, open + 1, close - 1),
          past |-> IF behind <= Len(t) /\ t[behind] = Close THEN behind + 1 ELSE behind]}
  <2>1. o + 1 < c /\ c <= Len(t)
    BY DEF Quoted
  <2> QED
    BY <1>3, <1>4, <1>5, <1>6, <2>1 DEF specifier_at
<1>9. match_at(t, i, fname) = specifier_at(t, i, fname)
  BY DEF match_at, Resolving
<1> HIDE DEF open, close, behind
<1> QED
  BY <1>4, <1>5, <1>7, <1>8, <1>9 DEF MatchOf

LEMMA SpecifierIs ==
  ASSUME NEW t \in Seq(Tokens), NEW i \in 1 .. Len(t), NEW fname \in Resolving,
         match_at(t, i, fname) # {}
  PROVE  \E o \in Nat, c \in 1 .. Len(t) : Quoted(t, i, fname, o, c)
<1> DEFINE l == Len(Spelling(fname))
           open == After(t, i + l, {"blank", "open"})
           close == After(t, open + 1, Letters \cup {"blank", "dot", "open"})
<1>1. Len(t) \in Nat /\ \A j \in 1 .. Len(t) : t[j] \in Tokens
  BY ElementsTyped
<1>2. l \in {1, 2} /\ l = Size(fname) /\ (i + l <= Len(t) => (Begins(t, i, Spelling(fname)) <=> SpelledAt(t, i, fname)))
  <2>1. l = Size(fname) /\ Size(fname) \in {1, 2}
    BY SpellingIs
  <2> HIDE DEF l
  <2>2. i + l <= Len(t) => i + Size(fname) <= Len(t) + 1
    BY <1>1, <2>1
  <2> QED
    BY <2>1, <2>2, SpellingIs
<1>3. match_at(t, i, fname) = specifier_at(t, i, fname)
  BY DEF match_at, Resolving
<1>4. /\ i + l <= Len(t) /\ Begins(t, i, Spelling(fname))
      /\ open < Len(t) /\ t[open] = Quote
      /\ open + 1 < close /\ close <= Len(t) /\ t[close] = Quote
  BY <1>3 DEF specifier_at
<1>5. i + l \in 1 .. Len(t) + 1
  BY <1>1, <1>2, <1>4
<1>6. Run(t, i + l, open, {"blank", "open"})
  BY <1>5, AfterIs
<1> HIDE DEF open
<1>7. open \in 1 .. Len(t) /\ i + l <= open /\ open + 1 \in 1 .. Len(t) + 1
  BY <1>1, <1>2, <1>4, <1>6 DEF Run
<1>8. Run(t, open + 1, close, Letters \cup {"blank", "dot", "open"})
  BY <1>7, AfterIs
<1> HIDE DEF close
<1>9. close \in 1 .. Len(t)
  BY <1>1, <1>4, <1>7, <1>8 DEF Run
<1>10. t[open].kind = "quote" /\ t[close].kind = "quote"
  BY <1>1, <1>4, <1>7, <1>9, KindIs
<1>11. Quoted(t, i, fname, open, close)
  BY <1>2, <1>4, <1>6, <1>7, <1>8, <1>10 DEF Quoted, Run, Inner
<1> QED
  BY <1>7, <1>9, <1>11
-----------------------------------------------------------------------------
\* The matches of a pattern, place by place from the last to the first.
LEMMA Downward ==
  ASSUME NEW n \in Nat, NEW S, \A k \in 1 .. n : k + 1 .. n \subseteq S => k \in S
  PROVE  1 .. n \subseteq S
<1> SUFFICES ASSUME 1 .. n \ S # {}
             PROVE  FALSE
  OBVIOUS
<1> DEFINE rest == 1 .. n \ S
           k == Max(rest)
<1>1. k \in rest /\ \A j \in rest : k >= j
  <2>1. rest \in SUBSET (1 .. n) /\ rest # {}
    OBVIOUS
  <2> HIDE DEF rest
  <2> QED
    BY <2>1, MaxOf
<1> HIDE DEF k
<1>2. k + 1 .. n \subseteq S
  <2> SUFFICES ASSUME NEW j \in k + 1 .. n, j \notin S
               PROVE  FALSE
    OBVIOUS
  <2>1. j \in rest /\ k \in Nat /\ ~(k >= j)
    BY <1>1
  <2> QED
    BY <1>1, <2>1
<1> QED
  BY <1>1, <1>2

\* What a match is, and that a pattern matches at one place in one way.
PassNames == Resolving \cup {"nameof", "dlsearch"}
Hits(t) ==
  {m \in [first : 1 .. Len(t), past : 2 .. Len(t) + 1, group : Seq(Tokens)] : m.first < m.past}

LEMMA BehindIs ==
  ASSUME NEW t \in Seq(Tokens), NEW c \in 1 .. Len(t)
  PROVE  /\ Behind(t, c) \in c + 1 .. Len(t) + 1
         /\ \A q \in c + 1 .. Behind(t, c) - 1 : t[q].kind \in {"blank", "close"}
<1> DEFINE b == After(t, c + 1, {"blank"})
<1>1. Len(t) \in Nat /\ c + 1 \in 1 .. Len(t) + 1
  BY ElementsTyped
<1>2. Run(t, c + 1, b, {"blank"})
  BY <1>1, AfterIs
<1> HIDE DEF b
<1>3. b \in c + 1 .. Len(t) + 1 /\ \A q \in c + 1 .. b - 1 : t[q].kind = "blank"
  BY <1>2 DEF Run
<1>4. Behind(t, c) = IF b <= Len(t) /\ t[b].kind = "close" THEN b + 1 ELSE b
  BY DEF Behind, b
<1>5. CASE b <= Len(t) /\ t[b].kind = "close"
  <2>1. Behind(t, c) = b + 1
    BY <1>4, <1>5
  <2>2. \A q \in c + 1 .. (b + 1) - 1 : q \in c + 1 .. b - 1 \/ q = b
    BY <1>1, <1>3
  <2>3. b + 1 \in c + 1 .. Len(t) + 1
    BY <1>1, <1>3, <1>5
  <2> QED
    BY <1>3, <1>5, <2>1, <2>2, <2>3
<1>6. CASE ~(b <= Len(t) /\ t[b].kind = "close")
  BY <1>3, <1>4, <1>6
<1> QED
  BY <1>5, <1>6

LEMMA PieceTyped ==
  ASSUME NEW t \in Seq(Tokens), NEW i \in 1 .. Len(t) + 1, NEW k \in 0 .. Len(t)
  PROVE  SubSeq(t, i, k) \in Seq(Tokens)
<1>1. Len(t) \in Nat /\ \A j \in i .. k : t[j] \in Tokens
  BY ElementsTyped
<1> QED
  BY <1>1, SubSeqProperties

LEMMA HitIs ==
  ASSUME NEW t \in Seq(Tokens), NEW i \in 1 .. Len(t), NEW fname \in PassNames,
         match_at(t, i, fname) # {}
  PROVE  /\ match_at(t, i, fname) = {TheMatch(t, i, fname)}
         /\ TheMatch(t, i, fname) \in Hits(t) /\ TheMatch(t, i, fname).first = i
<1>0. Len(t) \in Nat
  BY ElementsTyped
<1>1. SUFFICES \E m \in Hits(t) : match_at(t, i, fname) = {m} /\ m.first = i
  BY DEF TheMatch
<1>2. CASE fname \in Resolving
  <2>1. PICK o \in Nat, c \in 1 .. Len(t) : Quoted(t, i, fname, o, c)
    BY <1>2, SpecifierIs
  <2>2. match_at(t, i, fname) = {MatchOf(t, i, o, c)}
    BY <1>2, <2>1, SpecifierFound
  <2>3. Behind(t, c) \in c + 1 .. Len(t) + 1
    BY BehindIs
  <2>4. Size(fname) \in {1, 2}
    BY DEF Size
  <2>5. i < o /\ o + 1 < c
    BY <2>1, <2>4 DEF Quoted
  <2>6. SubSeq(t, o + 1, c - 1) \in Seq(Tokens)
    <3>1. o + 1 \in 1 .. Len(t) + 1 /\ c - 1 \in 0 .. Len(t)
      BY <1>0, <2>5
    <3> QED
      BY <3>1, PieceTyped
  <2>7. MatchOf(t, i, o, c) \in Hits(t)
    <3>1. Behind(t, c) \in 2 .. Len(t) + 1 /\ i < Behind(t, c)
      BY <1>0, <2>3, <2>5
    <3> QED
      BY <2>6, <3>1 DEF MatchOf, Hits
  <2> QED
    BY <2>2, <2>7 DEF MatchOf
<1>3. CASE fname = "nameof"
  <2> DEFINE open == After(t, i + 1, {"open"})
             past == After(t, open, {"close"})
             m == [first |-> i, past |-> past, group |-> <<>>]
  <2>1. i + 1 \in 1 .. Len(t) + 1
    BY <1>0
  <2>2. Run(t, i + 1, open, {"open"})
    BY <2>1, AfterIs
  <2> HIDE DEF open
  <2>3. open \in i + 1 .. Len(t) + 1
    BY <2>2 DEF Run
  <2>4. Run(t, open, past, {"close"})
    BY <2>3, AfterIs
  <2> HIDE DEF past
  <2>5. past \in 2 .. Len(t) + 1 /\ i < past
    BY <1>0, <2>3, <2>4 DEF Run
  <2>6. m \in Hits(t) /\ m.first = i
    BY <2>5 DEF Hits
  <2>7. match_at(t, i, fname) = {m}
    BY <1>3 DEF match_at, nameof_at, open, past
  <2> QED
    BY <2>6, <2>7
<1>4. CASE fname = "dlsearch"
  <2> DEFINE open == After(t, i + 1, {"open"})
             close == After(t, open, Letters \cup {"blank", "dot", "quote", "open"})
             past == After(t, close, {"close"})
             group == SubSeq(t, open, close - 1)
             m == [first |-> i, past |-> past, group |-> group]
  <2>1. i + 1 \in 1 .. Len(t) + 1
    BY <1>0
  <2>2. Run(t, i + 1, open, {"open"})
    BY <2>1, AfterIs
  <2> HIDE DEF open
  <2>3. open \in i + 1 .. Len(t) + 1
    BY <2>2 DEF Run
  <2>4. Run(t, open, close, Letters \cup {"blank", "dot", "quote", "open"})
    BY <2>3, AfterIs
  <2> HIDE DEF close
  <2>5. close \in open .. Len(t) + 1
    BY <2>4 DEF Run
  <2>6. Run(t, close, past, {"close"})
    BY <2>3, <2>5, AfterIs
  <2> HIDE DEF past
  <2>7. past \in 2 .. Len(t) + 1 /\ i < past
    BY <1>0, <2>3, <2>5, <2>6 DEF Run
  <2>8. group \in Seq(Tokens)
    <3>1. open \in 1 .. Len(t) + 1 /\ close - 1 \in 0 .. Len(t)
      BY <1>0, <2>3, <2>5
    <3> QED
      BY <3>1, PieceTyped
  <2> HIDE DEF group
  <2>9. m \in Hits(t) /\ m.first = i
    BY <2>7, <2>8 DEF Hits
  <2>10. match_at(t, i, fname) = {m}
    BY <1>4 DEF match_at, dlsearch_at, open, close, past, group
  <2> QED
    BY <2>9, <2>10
<1> QED
  BY <1>2, <1>3, <1>4 DEF PassNames

LEMMA BehindHereIs ==
  ASSUME NEW t \in Seq(Tokens), NEW i \in 1 .. Len(t), NEW fname \in PassNames
  PROVE  BehindHere(t, i, fname) \in i + 1 .. Len(t) + 1
<1>1. Len(t) \in Nat
  BY ElementsTyped
<1>2. CASE match_at(t, i, fname) = {}
  BY <1>1, <1>2 DEF BehindHere
<1>3. CASE match_at(t, i, fname) # {}
  BY <1>1, <1>3, HitIs DEF BehindHere, Hits
<1> QED
  BY <1>2, <1>3

\* The matches from each place of the text on: what Matches is the first entry of.
Step(t, fname, scope, from, i) ==
  IF i > Len(t) THEN <<>>
  ELSE MatchesHere(t, i, fname, scope) \o from[BehindHere(t, i, fname)]
Scan(t, fname, scope) ==
  CHOOSE from : from = [i \in 1 .. Len(t) + 1 |-> Step(t, fname, scope, from, i)]

LEMMA HereTyped ==
  ASSUME NEW t \in Seq(Tokens), NEW i \in 1 .. Len(t), NEW fname \in PassNames, NEW scope
  PROVE  MatchesHere(t, i, fname, scope) \in Seq(Hits(t))
<1>1. CASE i \in scope /\ match_at(t, i, fname) # {}
  <2>1. TheMatch(t, i, fname) \in Hits(t)
    BY <1>1, HitIs
  <2>2. MatchesHere(t, i, fname, scope) = <<TheMatch(t, i, fname)>>
    BY <1>1 DEF MatchesHere
  <2> QED
    BY <2>1, <2>2
<1>2. CASE ~(i \in scope /\ match_at(t, i, fname) # {})
  BY <1>2 DEF MatchesHere
<1> QED
  BY <1>1, <1>2

LEMMA ScanExists ==
  ASSUME NEW t \in Seq(Tokens), NEW fname \in PassNames, NEW scope
  PROVE  \E from \in [1 .. Len(t) + 1 -> Seq(Hits(t))] :
           from = [i \in 1 .. Len(t) + 1 |-> Step(t, fname, scope, from, i)]
<1> DEFINE n == Len(t)
           Good(from, k) ==
             /\ from \in [n + 1 - k .. n + 1 -> Seq(Hits(t))]
             /\ \A i \in n + 1 - k .. n + 1 : from[i] = Step(t, fname, scope, from, i)
           S == {k \in 0 .. n : \E from : Good(from, k)}
<1>1. n \in Nat
  BY ElementsTyped
<1>2. 0 \in S
  <2> DEFINE from == [i \in n + 1 - 0 .. n + 1 |-> <<>>]
  <2>1. \A i \in n + 1 - 0 .. n + 1 : i > n
    BY <1>1
  <2>2. Good(from, 0)
    BY <2>1 DEF Step
  <2> HIDE DEF Good, from
  <2> QED
    BY <1>1, <2>2
<1>3. ASSUME NEW k \in 1 .. n, k - 1 \in S
      PROVE  k \in S
  <2>1. PICK from : Good(from, k - 1)
    BY <1>3
  <2> DEFINE j == n + 1 - k
             b == BehindHere(t, j, fname)
             here == MatchesHere(t, j, fname, scope) \o from[b]
             more == [i \in j .. n + 1 |-> IF i = j THEN here ELSE from[i]]
  <2>2. j \in 1 .. n /\ n + 1 - (k - 1) = j + 1
    BY <1>1
  <2>3. b \in j + 1 .. n + 1
    BY <2>2, BehindHereIs
  <2>4. from \in [j + 1 .. n + 1 -> Seq(Hits(t))]
        /\ \A i \in j + 1 .. n + 1 : from[i] = Step(t, fname, scope, from, i)
    <3> HIDE DEF j
    <3> QED
      BY <2>1, <2>2
  <2>5. here \in Seq(Hits(t))
    <3>1. MatchesHere(t, j, fname, scope) \in Seq(Hits(t))
      BY <2>2, HereTyped
    <3>2. from[b] \in Seq(Hits(t))
      BY <2>3, <2>4
    <3> HIDE DEF b, j
    <3> QED
      BY <3>1, <3>2, ConcatProperties
  <2> HIDE DEF here
  <2>6. more \in [j .. n + 1 -> Seq(Hits(t))]
    <3> HIDE DEF j
    <3> QED
      BY <1>1, <2>2, <2>4, <2>5
  <2>7. ASSUME NEW i \in j .. n + 1
        PROVE  more[i] = Step(t, fname, scope, more, i)
    <3>1. CASE i = j
      <4>1. more[b] = from[b] /\ more[i] = here /\ ~(i > n)
        <5> HIDE DEF b, j
        <5> QED
          BY <1>1, <2>2, <2>3, <3>1
      <4>2. here = MatchesHere(t, i, fname, scope) \o more[BehindHere(t, i, fname)]
        BY <3>1, <4>1 DEF here
      <4> HIDE DEF more
      <4> QED
        BY <4>1, <4>2 DEF Step
    <3>2. CASE i # j
      <4>1. i \in j + 1 .. n + 1
        <5> HIDE DEF j
        <5> QED
          BY <1>1, <2>2, <3>2
      <4>2. more[i] = from[i] /\ from[i] = Step(t, fname, scope, from, i)
        <5> HIDE DEF j
        <5> QED
          BY <2>4, <3>2, <4>1
      <4>3. CASE i > n
        <5> HIDE DEF more
        <5> QED
          BY <4>2, <4>3 DEF Step
      <4>4. CASE ~(i > n)
        <5>1. i \in 1 .. n
          <6> HIDE DEF j
          <6> QED
            BY <1>1, <2>2, <4>1, <4>4
        <5>2. BehindHere(t, i, fname) \in i + 1 .. n + 1
          BY <5>1, BehindHereIs
        <5>3. more[BehindHere(t, i, fname)] = from[BehindHere(t, i, fname)]
          <6> HIDE DEF j
          <6> QED
            BY <1>1, <2>2, <4>1, <5>1, <5>2
        <5> HIDE DEF more
        <5> QED
          BY <4>2, <5>3 DEF Step
      <4> QED
        BY <4>3, <4>4
    <3> QED
      BY <3>1, <3>2
  <2>8. Good(more, k)
    <3> HIDE DEF more
    <3> QED
      BY <2>6, <2>7
  <2> HIDE DEF Good
  <2> QED
    BY <1>1, <2>8
<1>4. 0 .. n \subseteq S
  <2> HIDE DEF S
  <2> QED
    BY <1>1, <1>2, <1>3, Upward
<1>5. PICK from : Good(from, n)
  <2> HIDE DEF Good
  <2>1. n \in S
    BY <1>1, <1>4
  <2> QED
    BY <2>1
<1>6. n + 1 - n = 1
  BY <1>1
<1>7. from \in [1 .. n + 1 -> Seq(Hits(t))]
      /\ \A i \in 1 .. n + 1 : from[i] = Step(t, fname, scope, from, i)
  BY <1>5, <1>6
<1>8. from = [i \in 1 .. n + 1 |-> Step(t, fname, scope, from, i)]
  <2> HIDE DEF n
  <2> QED
    BY <1>7
<1> QED
  BY <1>7, <1>8

LEMMA ScanIs ==
  ASSUME NEW t \in Seq(Tokens), NEW fname \in PassNames, NEW scope
  PROVE  /\ Matches(t, fname, scope) = Scan(t, fname, scope)[1]
         /\ Scan(t, fname, scope) \in [1 .. Len(t) + 1 -> Seq(Hits(t))]
         /\ Scan(t, fname, scope)[Len(t) + 1] = <<>>
         /\ \A i \in 1 .. Len(t) :
              Scan(t, fname, scope)[i] =
                MatchesHere(t, i, fname, scope) \o Scan(t, fname, scope)[BehindHere(t, i, fname)]
<1> DEFINE from == Scan(t, fname, scope)
<1>1. Matches(t, fname, scope) = from[1]
  BY DEF Matches, Scan, Step
<1>2. from = [i \in 1 .. Len(t) + 1 |-> Step(t, fname, scope, from, i)]
  <2>1. PICK g \in [1 .. Len(t) + 1 -> Seq(Hits(t))] :
               g = [i \in 1 .. Len(t) + 1 |-> Step(t, fname, scope, g, i)]
    BY ScanExists
  <2> QED
    BY <2>1, Zenon DEF Scan
<1> HIDE DEF from
<1>3. Len(t) \in Nat
  BY ElementsTyped
<1>4. /\ DOMAIN from = 1 .. Len(t) + 1
      /\ \A i \in 1 .. Len(t) + 1 : from[i] = Step(t, fname, scope, from, i)
  BY <1>2
<1>5. from[Len(t) + 1] = <<>>
  BY <1>3, <1>4 DEF Step
<1>6. ASSUME NEW i \in 1 .. Len(t)
      PROVE  from[i] = MatchesHere(t, i, fname, scope) \o from[BehindHere(t, i, fname)]
  BY <1>3, <1>4 DEF Step
<1> DEFINE S == {i \in 1 .. Len(t) + 1 : from[i] \in Seq(Hits(t))}
<1>7. ASSUME NEW i \in 1 .. Len(t) + 1, i + 1 .. Len(t) + 1 \subseteq S
      PROVE  i \in S
  <2>1. CASE i = Len(t) + 1
    <3>1. <<>> \in Seq(Hits(t))
      OBVIOUS
    <3> QED
      BY <1>5, <2>1, <3>1
  <2>2. CASE i # Len(t) + 1
    <3>1. i \in 1 .. Len(t) /\ BehindHere(t, i, fname) \in S
      BY <1>3, <1>7, <2>2, BehindHereIs
    <3>2. MatchesHere(t, i, fname, scope) \in Seq(Hits(t))
      BY <3>1, HereTyped
    <3> QED
      BY <1>6, <3>1, <3>2, ConcatProperties
  <2> QED
    BY <2>1, <2>2
<1>8. 1 .. Len(t) + 1 \subseteq S
  <2> DEFINE n == Len(t) + 1
  <2>1. n \in Nat
    BY <1>3
  <2>2. \A k \in 1 .. n : k + 1 .. n \subseteq S => k \in S
    BY <1>7
  <2> HIDE DEF S, n
  <2>3. 1 .. n \subseteq S
    BY <2>1, <2>2, Downward
  <2> QED
    BY <2>3 DEF n
<1>9. from \in [1 .. Len(t) + 1 -> Seq(Hits(t))]
  BY <1>2, <1>4, <1>8
<1> QED
  BY <1>1, <1>5, <1>6, <1>9 DEF from

LEMMA OneBefore ==
  ASSUME NEW S, NEW x \in S, NEW b \in Seq(S)
  PROVE  /\ <<x>> \o b \in Seq(S) /\ Len(<<x>> \o b) = Len(b) + 1 /\ Len(b) \in Nat
         /\ (<<x>> \o b)[1] = x
         /\ \A l \in 2 .. Len(b) + 1 : (<<x>> \o b)[l] = b[l - 1]
<1> DEFINE one == <<x>>
<1>1. one \in Seq(S) /\ Len(one) = 1 /\ one[1] = x /\ Len(b) \in Nat
  BY LenProperties
<1> HIDE DEF one
<1>2. /\ one \o b \in Seq(S) /\ Len(one \o b) = Len(one) + Len(b)
      /\ \A i \in 1 .. Len(one) + Len(b) : (one \o b)[i] = IF i <= Len(one) THEN one[i] ELSE b[i - Len(one)]
  BY <1>1, ConcatProperties
<1>3. (one \o b)[1] = x /\ \A l \in 2 .. Len(b) + 1 : (one \o b)[l] = b[l - 1]
  BY <1>1, <1>2
<1> QED
  BY <1>1, <1>2, <1>3 DEF one

LEMMA NoneBefore ==
  ASSUME NEW S, NEW b \in Seq(S)
  PROVE  <<>> \o b = b
BY ConcatEmptySeq

\* The matches from j on stand in order, each where its pattern matches.
InOrder(t, fname, scope, j, a) ==
  /\ \A l \in 1 .. Len(a) :
       /\ a[l].first \in j .. Len(t) /\ a[l].first \in scope
       /\ match_at(t, a[l].first, fname) # {} /\ a[l] = TheMatch(t, a[l].first, fname)
  /\ \A l, m \in 1 .. Len(a) : l < m => a[l].past <= a[m].first

LEMMA ScanInOrder ==
  ASSUME NEW t \in Seq(Tokens), NEW fname \in PassNames, NEW scope, NEW j \in 1 .. Len(t) + 1
  PROVE  InOrder(t, fname, scope, j, Scan(t, fname, scope)[j])
<1> DEFINE n == Len(t) + 1
           g == Scan(t, fname, scope)
           S == {i \in 1 .. n : InOrder(t, fname, scope, i, g[i])}
<1>1. Len(t) \in Nat /\ n \in Nat
  BY ElementsTyped
<1>2. /\ g \in [1 .. n -> Seq(Hits(t))] /\ g[n] = <<>>
      /\ \A i \in 1 .. Len(t) :
           g[i] = MatchesHere(t, i, fname, scope) \o g[BehindHere(t, i, fname)]
  BY ScanIs
<1> HIDE DEF g
<1>3. ASSUME NEW i \in 1 .. n, i + 1 .. n \subseteq S
      PROVE  i \in S
  <2>1. CASE i = n
    <3>1. Len(g[i]) = 0
      BY <1>2, <2>1
    <3> QED
      BY <3>1 DEF InOrder
  <2>2. CASE i # n
    <3> DEFINE b == BehindHere(t, i, fname)
               rest == g[b]
    <3>1. i \in 1 .. Len(t)
      BY <1>1, <2>2
    <3>2. b \in i + 1 .. n
      BY <3>1, BehindHereIs
    <3>3. InOrder(t, fname, scope, b, rest) /\ rest \in Seq(Hits(t)) /\ Len(rest) \in Nat
      <4>1. b \in S /\ b \in 1 .. n
        BY <1>1, <1>3, <3>2
      <4>2. rest \in Seq(Hits(t))
        <5> HIDE DEF b
        <5> QED
          BY <1>2, <4>1
      <4> HIDE DEF rest
      <4> QED
        BY <4>1, <4>2, LenProperties DEF rest
    <3>4. g[i] = MatchesHere(t, i, fname, scope) \o rest
      BY <1>2, <3>1
    <3>5. \A l \in 1 .. Len(rest) :
            /\ rest[l].first \in b .. Len(t) /\ rest[l].first \in i .. Len(t) /\ rest[l].first \in scope
            /\ match_at(t, rest[l].first, fname) # {}
            /\ rest[l] = TheMatch(t, rest[l].first, fname)
      <4> HIDE DEF rest, b
      <4>1. \A x \in b .. Len(t) : x \in i .. Len(t)
        BY <1>1, <3>1, <3>2
      <4> QED
        BY <3>3, <4>1 DEF InOrder
    <3>6. CASE i \in scope /\ match_at(t, i, fname) # {}
      <4> DEFINE x == TheMatch(t, i, fname)
                 a == <<x>> \o rest
      <4>1. x \in Hits(t) /\ x.first = i /\ x.past = b
        BY <3>1, <3>6, HitIs DEF BehindHere
      <4>2. g[i] = a
        BY <3>4, <3>6 DEF MatchesHere
      <4> HIDE DEF x, rest, b
      <4>3. /\ Len(a) = Len(rest) + 1 /\ a[1] = x
            /\ \A l \in 2 .. Len(rest) + 1 : a[l] = rest[l - 1]
        BY <3>3, <4>1, OneBefore
      <4> HIDE DEF a
      <4>4. ASSUME NEW l \in 1 .. Len(a)
            PROVE  /\ a[l].first \in i .. Len(t) /\ a[l].first \in scope
                   /\ match_at(t, a[l].first, fname) # {} /\ a[l] = TheMatch(t, a[l].first, fname)
        <5>1. CASE l = 1
          <6>1. a[l] = x /\ i \in i .. Len(t)
            BY <1>1, <3>1, <4>3, <5>1
          <6> QED
            BY <3>6, <4>1, <6>1 DEF x
        <5>2. CASE l # 1
          <6>1. l - 1 \in 1 .. Len(rest) /\ a[l] = rest[l - 1]
            BY <3>3, <4>3, <5>2
          <6> QED
            BY <3>5, <6>1
        <5> QED
          BY <5>1, <5>2
      <4>5. ASSUME NEW l \in 1 .. Len(a), NEW m \in 1 .. Len(a), l < m
            PROVE  a[l].past <= a[m].first
        <5>1. m - 1 \in 1 .. Len(rest) /\ a[m] = rest[m - 1]
          BY <3>3, <4>3, <4>5
        <5>2. CASE l = 1
          <6>1. rest[m - 1].first \in b .. Len(t)
            BY <3>5, <5>1
          <6>2. a[l].past = b
            BY <4>1, <4>3, <5>2
          <6> QED
            BY <1>1, <3>2, <5>1, <6>1, <6>2
        <5>3. CASE l # 1
          <6>1. l - 1 \in 1 .. Len(rest) /\ a[l] = rest[l - 1] /\ l - 1 < m - 1
            BY <3>3, <4>3, <4>5, <5>3
          <6>2. rest[l - 1].past <= rest[m - 1].first
            BY <3>3, <5>1, <6>1 DEF InOrder
          <6> QED
            BY <5>1, <6>1, <6>2
        <5> QED
          BY <5>2, <5>3
      <4>6. InOrder(t, fname, scope, i, a)
        BY <4>4, <4>5 DEF InOrder
      <4> QED
        BY <4>2, <4>6
    <3>7. CASE ~(i \in scope /\ match_at(t, i, fname) # {})
      <4>1. g[i] = rest
        <5>1. MatchesHere(t, i, fname, scope) = <<>>
          BY <3>7 DEF MatchesHere
        <5> HIDE DEF rest
        <5> QED
          BY <3>3, <3>4, <5>1, NoneBefore
      <4> HIDE DEF rest, b
      <4>2. InOrder(t, fname, scope, i, rest)
        BY <3>3, <3>5 DEF InOrder
      <4> QED
        BY <4>1, <4>2
    <3> QED
      BY <3>6, <3>7
  <2> QED
    BY <2>1, <2>2
<1>4. 1 .. n \subseteq S
  <2> HIDE DEF S, n
  <2> QED
    BY <1>1, <1>3, Downward
<1> QED
  BY <1>4 DEF g

LEMMA MatchesInOrder ==
  ASSUME NEW t \in Seq(Tokens), NEW fname \in PassNames, NEW scope
  PROVE  Matches(t, fname, scope) \in Seq(Hits(t)) /\ InOrder(t, fname, scope, 1, Matches(t, fname, scope))
<1>1. Len(t) \in Nat /\ 1 \in 1 .. Len(t) + 1
  BY ElementsTyped
<1> QED
  BY <1>1, ScanIs, ScanInOrder
-----------------------------------------------------------------------------
\* Names, calls and splices.
NameSet == [start : STRING, steps : Seq(Steps)]

LEMMA NamesTyped ==
  /\ NoName \in NameSet
  /\ \A name \in NameSet : Named(name) \in Tokens
  /\ \A group \in Seq(Tokens) : NameIn(group) \in NameSet
  /\ \A p \in Seq(Steps) : Written(Path(p)) \in NameSet
<1>1. NoName \in NameSet
  BY TextsAssumption DEF NoName, NameSet
<1>2. \A name \in NameSet : Named(name) \in Tokens
  BY DEF Named, NameSet, Tokens
<1>3. ASSUME NEW group \in Seq(Tokens)
      PROVE  NameIn(group) \in NameSet
  <2>1. CASE Len(group) = 1 /\ group[1].kind = "name"
    <3>1. group[1] \in Tokens
      BY <2>1, ElementsTyped
    <3> QED
      BY <2>1, <3>1, TokenIs DEF NameIn, NameSet
  <2>2. CASE ~(Len(group) = 1 /\ group[1].kind = "name")
    BY <1>1, <2>2 DEF NameIn
  <2> QED
    BY <2>1, <2>2
<1>4. ASSUME NEW p \in Seq(Steps)
      PROVE  Written(Path(p)) \in NameSet
  <2>1. normalize_path(p) \in Seq(Steps)
    BY NormalIsCanonical, CanonicalPaths DEF Paths
  <2> QED
    BY <2>1, TextsAssumption DEF Written, Path, NameSet
<1> QED
  BY <1>1, <1>2, <1>3, <1>4

LEMMA FixedTokens ==
  /\ Quote \in Tokens /\ Open \in Tokens /\ Close \in Tokens /\ Blank \in Tokens /\ Dot \in Tokens
  /\ \A fname \in Resolving : Spelling(fname) \in Seq(Tokens)
  /\ \A kind \in Kinds \ {"name"} : Token(kind) \in Tokens /\ Token(kind).kind = kind
  /\ Quote.kind = "quote" /\ Open.kind = "open" /\ Close.kind = "close"
<1>1. \A kind \in Kinds \ {"name"} : Token(kind) \in Tokens /\ Token(kind).kind = kind
  BY DEF Tokens, Token
<1>2. {"quote", "open", "close", "blank", "dot", "dl", "require", "dlload"} \subseteq Kinds \ {"name"}
  BY DEF Kinds, Letters, Keywords
<1>3. Token("dl") \in Tokens /\ Token("require") \in Tokens /\ Token("dlload") \in Tokens
  BY <1>1, <1>2
<1>4. ASSUME NEW fname \in Resolving
      PROVE  Spelling(fname) \in Seq(Tokens)
  <2>1. CASE fname = "dlrequire"
    <3>1. Spelling(fname) = <<Token("dl"), Token("require")>>
      BY <2>1 DEF Spelling
    <3> QED
      BY <1>3, <3>1
  <2>2. CASE fname # "dlrequire"
    <3>1. Spelling(fname) = <<Token(fname)>> /\ Token(fname) \in Tokens
      BY <1>3, <2>2 DEF Spelling, Resolving
    <3> QED
      BY <3>1
  <2> QED
    BY <2>1, <2>2
<1> QED
  BY <1>1, <1>2, <1>4 DEF Quote, Open, Close, Blank, Dot

LEMMA CalledIs ==
  ASSUME NEW word \in Seq(Tokens), NEW token \in Tokens
  PROVE  /\ Called(word, token) \in Seq(Tokens) /\ Len(Called(word, token)) = Len(word) + 5
         /\ \A j \in 1 .. Len(word) : Called(word, token)[j] = word[j]
         /\ Called(word, token)[Len(word) + 1] = Open /\ Called(word, token)[Len(word) + 2] = Quote
         /\ Called(word, token)[Len(word) + 3] = token /\ Called(word, token)[Len(word) + 4] = Quote
         /\ Called(word, token)[Len(word) + 5] = Close
<1> DEFINE end == <<Open, Quote, token, Quote, Close>>
<1>1. /\ end \in Seq(Tokens) /\ Len(end) = 5 /\ end[1] = Open /\ end[2] = Quote /\ end[3] = token
      /\ end[4] = Quote /\ end[5] = Close
  <2>1. Open \in Tokens /\ Quote \in Tokens /\ Close \in Tokens
    BY FixedTokens
  <2> QED
    BY <2>1
<1>2. Called(word, token) = word \o end
  BY DEF Called
<1> HIDE DEF end
<1>3. Len(word) \in Nat
  BY LenProperties
<1>4. /\ word \o end \in Seq(Tokens) /\ Len(word \o end) = Len(word) + 5
      /\ \A i \in 1 .. Len(word) + 5 : (word \o end)[i] = IF i <= Len(word) THEN word[i] ELSE end[i - Len(word)]
  <2>1. /\ word \o end \in Seq(Tokens) /\ Len(word \o end) = Len(word) + Len(end)
        /\ \A i \in 1 .. Len(word) + Len(end) :
             (word \o end)[i] = IF i <= Len(word) THEN word[i] ELSE end[i - Len(word)]
    BY <1>1, ConcatProperties
  <2> QED
    BY <1>1, <2>1
<1> DEFINE c == word \o end
<1>5. \A k \in 1 .. 5 : c[Len(word) + k] = end[k]
  <2> SUFFICES ASSUME NEW k \in 1 .. 5
               PROVE  c[Len(word) + k] = end[k]
    OBVIOUS
  <2>1. Len(word) + k \in 1 .. Len(word) + 5 /\ ~(Len(word) + k <= Len(word)) /\ Len(word) + k - Len(word) = k
    BY <1>3
  <2> QED
    BY <1>4, <2>1
<1>6. \A j \in 1 .. Len(word) : c[j] = word[j]
  BY <1>3, <1>4
<1> HIDE DEF c
<1>7. /\ c[Len(word) + 1] = Open /\ c[Len(word) + 2] = Quote /\ c[Len(word) + 3] = token
      /\ c[Len(word) + 4] = Quote /\ c[Len(word) + 5] = Close
  BY <1>1, <1>5
<1> QED
  BY <1>2, <1>4, <1>6, <1>7 DEF c

\* What Replace makes of a text.
Spliced(t, i, new, p) == SubSeq(t, 1, i - 1) \o new \o SubSeq(t, p, Len(t))

LEMMA SplicedIs ==
  ASSUME NEW t \in Seq(Tokens), NEW new \in Seq(Tokens), NEW i \in 1 .. Len(t) + 1, NEW p \in i .. Len(t) + 1
  PROVE  /\ Spliced(t, i, new, p) \in Seq(Tokens)
         /\ Len(Spliced(t, i, new, p)) = (i - 1) + Len(new) + (Len(t) + 1 - p)
         /\ \A j \in 1 .. i - 1 : Spliced(t, i, new, p)[j] = t[j]
         /\ \A j \in 1 .. Len(new) : Spliced(t, i, new, p)[i - 1 + j] = new[j]
         /\ \A j \in p .. Len(t) : Spliced(t, i, new, p)[i - 1 + Len(new) + (j + 1 - p)] = t[j]
<1> DEFINE a == SubSeq(t, 1, i - 1)
           c == SubSeq(t, p, Len(t))
           b == a \o new
           s == b \o c
           n == Len(t)
           k == Len(new)
<1>1. n \in Nat /\ k \in Nat /\ \A j \in 1 .. n : t[j] \in Tokens
  BY ElementsTyped
<1>2. a \in Seq(Tokens) /\ Len(a) = i - 1 /\ \A j \in 1 .. i - 1 : a[j] = t[j]
  <2>1. \A j \in 1 .. i - 1 : t[j] \in Tokens
    BY <1>1
  <2>2. /\ a \in Seq(Tokens) /\ Len(a) = IF 1 <= i - 1 THEN (i - 1) - 1 + 1 ELSE 0
        /\ \A j \in 1 .. (i - 1) - 1 + 1 : a[j] = t[1 + j - 1]
    BY <1>1, <2>1, SubSeqProperties
  <2> HIDE DEF a
  <2> QED
    BY <1>1, <2>2
<1>3. c \in Seq(Tokens) /\ Len(c) = n + 1 - p /\ \A j \in 1 .. n + 1 - p : c[j] = t[p + j - 1]
  <2>1. \A j \in p .. n : t[j] \in Tokens
    BY <1>1
  <2>2. /\ c \in Seq(Tokens) /\ Len(c) = IF p <= n THEN n - p + 1 ELSE 0
        /\ \A j \in 1 .. n - p + 1 : c[j] = t[p + j - 1]
    BY <1>1, <2>1, SubSeqProperties
  <2> HIDE DEF c
  <2> QED
    BY <1>1, <2>2
<1> HIDE DEF a, c, n
<1>4. /\ b \in Seq(Tokens) /\ Len(b) = i - 1 + k
      /\ \A j \in 1 .. i - 1 + k : b[j] = IF j <= i - 1 THEN a[j] ELSE new[j - (i - 1)]
  <2>1. /\ a \o new \in Seq(Tokens) /\ Len(a \o new) = Len(a) + Len(new)
        /\ \A j \in 1 .. Len(a) + Len(new) :
             (a \o new)[j] = IF j <= Len(a) THEN a[j] ELSE new[j - Len(a)]
    BY <1>2, ConcatProperties
  <2> QED
    BY <1>2, <2>1
<1> HIDE DEF b
<1>5. /\ s \in Seq(Tokens) /\ Len(s) = (i - 1 + k) + (n + 1 - p)
      /\ \A j \in 1 .. (i - 1 + k) + (n + 1 - p) : s[j] = IF j <= i - 1 + k THEN b[j] ELSE c[j - (i - 1 + k)]
  <2>1. /\ b \o c \in Seq(Tokens) /\ Len(b \o c) = Len(b) + Len(c)
        /\ \A j \in 1 .. Len(b) + Len(c) : (b \o c)[j] = IF j <= Len(b) THEN b[j] ELSE c[j - Len(b)]
    BY <1>3, <1>4, ConcatProperties
  <2> QED
    BY <1>3, <1>4, <2>1
<1> HIDE DEF s, k
<1>6. \A j \in 1 .. i - 1 : s[j] = t[j]
  BY <1>1, <1>2, <1>4, <1>5 DEF n
<1>7. \A j \in 1 .. k : s[i - 1 + j] = new[j]
  BY <1>1, <1>4, <1>5 DEF n
<1>8. ASSUME NEW j \in p .. n
      PROVE  s[i - 1 + k + (j + 1 - p)] = t[j]
  <2>1. j + 1 - p \in 1 .. n + 1 - p /\ p + (j + 1 - p) - 1 = j
    BY <1>1 DEF n
  <2>2. c[j + 1 - p] = t[j]
    BY <1>3, <2>1
  <2>3. LET q == i - 1 + k + (j + 1 - p)
        IN q \in 1 .. (i - 1 + k) + (n + 1 - p) /\ ~(q <= i - 1 + k) /\ q - (i - 1 + k) = j + 1 - p
    BY <1>1, <2>1 DEF n
  <2> QED
    BY <1>5, <2>2, <2>3
<1>9. s = Spliced(t, i, new, p)
  BY DEF s, b, a, c, Spliced, n
<1> QED
  BY <1>5, <1>6, <1>7, <1>8, <1>9 DEF n, k

\* The matches that are not replaced yet.
Waiting(t, P) ==
  /\ P \in Seq([first : Nat \ {0}, past : Nat, group : Seq(Tokens)])
  /\ \A l \in 1 .. Len(P) : P[l].first < P[l].past /\ P[l].past <= Len(t) + 1
  /\ \A l, m \in 1 .. Len(P) : l < m => P[l].past <= P[m].first

LEMMA MatchesWait ==
  ASSUME NEW t \in Seq(Tokens), NEW fname \in PassNames, NEW scope
  PROVE  Waiting(t, Matches(t, fname, scope))
<1> DEFINE a == Matches(t, fname, scope)
<1>1. Len(t) \in Nat
  BY ElementsTyped
<1>2. a \in Seq(Hits(t)) /\ InOrder(t, fname, scope, 1, a)
  BY MatchesInOrder
<1> HIDE DEF a
<1>3. Len(a) \in Nat /\ \A l \in 1 .. Len(a) : a[l] \in Hits(t)
  BY <1>2, LenProperties, ElementOfSeq
<1>4. a \in Seq([first : Nat \ {0}, past : Nat, group : Seq(Tokens)])
  <2>1. Hits(t) \subseteq [first : Nat \ {0}, past : Nat, group : Seq(Tokens)]
    BY <1>1 DEF Hits
  <2>2. ToSet(a) \subseteq [first : Nat \ {0}, past : Nat, group : Seq(Tokens)]
    BY <1>2, <2>1, ElementsOf
  <2> QED
    BY <1>2, <2>2, SequenceOfElements
<1>5. \A l \in 1 .. Len(a) : a[l].first < a[l].past /\ a[l].past <= Len(t) + 1
  BY <1>1, <1>3 DEF Hits
<1> QED
  BY <1>2, <1>4, <1>5 DEF Waiting, InOrder, a

LEMMA LastOf ==
  ASSUME NEW S, NEW P \in Seq(S), P # <<>>
  PROVE  /\ Len(P) \in Nat \ {0} /\ Last(P) = P[Len(P)]
         /\ Front(P) \in Seq(S) /\ Len(Front(P)) = Len(P) - 1
         /\ \A l \in 1 .. Len(P) - 1 : Front(P)[l] = P[l]
<1>1. Len(P) \in Nat \ {0} /\ \A l \in 1 .. Len(P) : P[l] \in S
  BY EmptySeq, LenProperties, ElementOfSeq
<1> DEFINE n == Len(P) - 1
           f == SubSeq(P, 1, n)
<1>2. n \in Nat /\ \A l \in 1 .. n : P[l] \in S
  BY <1>1
<1> HIDE DEF n
<1>3. /\ f \in Seq(S) /\ Len(f) = IF 1 <= n THEN n - 1 + 1 ELSE 0
      /\ \A j \in 1 .. n - 1 + 1 : f[j] = P[1 + j - 1]
  BY <1>2, SubSeqProperties
<1> HIDE DEF f
<1>4. Len(f) = n /\ \A j \in 1 .. n : f[j] = P[j]
  BY <1>2, <1>3
<1>5. f = Front(P)
  BY DEF f, Front, n
<1>6. Last(P) = P[Len(P)]
  BY DEF Last
<1> QED
  BY <1>1, <1>3, <1>4, <1>5, <1>6 DEF n
-----------------------------------------------------------------------------
\* The type invariant of preparation.
TextTyped ==
  /\ AnswersInv /\ ResolutionInv
  /\ source \in Seq(Tokens) /\ original \in Seq(Tokens)
  /\ pass \in 0 .. 5 /\ rejected \in BOOLEAN
  /\ recorded \in [Resolving -> Seq(NameSet)]
  /\ Waiting(source, pending)

LEMMA PassesAre ==
  /\ Len(Passes) = 5 /\ \A k \in 1 .. 5 : Passes[k] \in PassNames
  /\ Passes[1] = "nameof" /\ Passes[2] = "dlsearch" /\ Passes[3] = "require"
  /\ Passes[4] = "dlload" /\ Passes[5] = "dlrequire"
  /\ \A k \in 1 .. 5 : Passes[k] \in Resolving <=> k > 2
<1>1. /\ Len(Passes) = 5 /\ Passes[1] = "nameof" /\ Passes[2] = "dlsearch" /\ Passes[3] = "require"
      /\ Passes[4] = "dlload" /\ Passes[5] = "dlrequire"
  BY DEF Passes
<1>2. \A k \in 1 .. 5 : k = 1 \/ k = 2 \/ k = 3 \/ k = 4 \/ k = 5
  OBVIOUS
<1> QED
  BY <1>1, <1>2 DEF PassNames, Resolving

LEMMA WaitingKept ==
  ASSUME NEW t \in Seq(Tokens), NEW P, Waiting(t, P), P # <<>>, NEW new \in Seq(Tokens)
  PROVE  LET m == P[Len(P)]
         IN /\ m.first \in 1 .. Len(t) + 1 /\ m.past \in m.first .. Len(t) + 1 /\ m.group \in Seq(Tokens)
            /\ Waiting(Spliced(t, m.first, new, m.past), Front(P))
<1> DEFINE m == P[Len(P)]
           R == [first : Nat \ {0}, past : Nat, group : Seq(Tokens)]
           s == Spliced(t, m.first, new, m.past)
           F == Front(P)
<1>1. P \in Seq(R) /\ Len(t) \in Nat /\ Len(new) \in Nat
  BY LenProperties DEF Waiting
<1>2. /\ Len(P) \in Nat \ {0} /\ F \in Seq(R) /\ Len(F) = Len(P) - 1
      /\ \A l \in 1 .. Len(P) - 1 : F[l] = P[l]
  <2> HIDE DEF R
  <2> QED
    BY <1>1, LastOf
<1>3. m \in R /\ \A l \in 1 .. Len(P) : P[l] \in R
  <2> HIDE DEF R
  <2>1. Len(P) \in 1 .. Len(P)
    BY <1>2
  <2> QED
    BY <1>1, <2>1, ElementOfSeq
<1>4. m.first \in 1 .. Len(t) + 1 /\ m.past \in m.first .. Len(t) + 1 /\ m.group \in Seq(Tokens)
  <2>1. m.first < m.past /\ m.past <= Len(t) + 1
    BY <1>2 DEF Waiting
  <2> HIDE DEF m
  <2> QED
    BY <1>1, <1>3, <2>1
<1>5. Len(s) >= m.first - 1 /\ Len(s) \in Nat
  <2>1. Len(s) = (m.first - 1) + Len(new) + (Len(t) + 1 - m.past)
    <3> HIDE DEF m
    <3> QED
      BY <1>4, SplicedIs
  <2>2. \A n, k \in Nat : \A a \in 1 .. n + 1 : \A b \in a .. n + 1 :
          (a - 1) + k + (n + 1 - b) \in Nat /\ (a - 1) + k + (n + 1 - b) >= a - 1
    OBVIOUS
  <2> HIDE DEF m, s
  <2> QED
    BY <1>1, <1>4, <2>1, <2>2
<1>6. ASSUME NEW l \in 1 .. Len(F)
      PROVE  F[l].first < F[l].past /\ F[l].past <= Len(s) + 1
  <2>1. F[l] = P[l] /\ l < Len(P) /\ l \in 1 .. Len(P) /\ Len(P) \in 1 .. Len(P)
    BY <1>2
  <2>2. P[l].first < P[l].past /\ P[l].past <= m.first
    BY <2>1 DEF Waiting
  <2>3. P[l].past \in Nat
    BY <1>3, <2>1
  <2> HIDE DEF s, m, F
  <2> QED
    BY <1>4, <1>5, <2>1, <2>2, <2>3
<1>7. ASSUME NEW l \in 1 .. Len(F), NEW k \in 1 .. Len(F), l < k
      PROVE  F[l].past <= F[k].first
  <2>1. F[l] = P[l] /\ F[k] = P[k] /\ l \in 1 .. Len(P) /\ k \in 1 .. Len(P)
    BY <1>2
  <2> QED
    BY <1>7, <2>1 DEF Waiting
<1>8. Waiting(s, F)
  BY <1>2, <1>6, <1>7 DEF Waiting
<1> QED
  BY <1>4, <1>8

LEMMA FrontWaits ==
  ASSUME NEW t \in Seq(Tokens), NEW P, Waiting(t, P), P # <<>>
  PROVE  Waiting(t, Front(P))
<1> DEFINE R == [first : Nat \ {0}, past : Nat, group : Seq(Tokens)]
           F == Front(P)
<1>1. P \in Seq(R)
  BY DEF Waiting
<1>2. /\ Len(P) \in Nat \ {0} /\ F \in Seq(R) /\ Len(F) = Len(P) - 1
      /\ \A l \in 1 .. Len(P) - 1 : F[l] = P[l]
  <2> HIDE DEF R
  <2> QED
    BY <1>1, LastOf
<1>3. \A l \in 1 .. Len(F) : F[l] = P[l] /\ l \in 1 .. Len(P)
  BY <1>2
<1> QED
  BY <1>2, <1>3 DEF Waiting

LEMMA TextInitially == TextInit => TextTyped
<1> SUFFICES ASSUME TextInit
             PROVE  TextTyped
  OBVIOUS
<1>1. AnswersInv /\ ResolutionInv
  BY AnswersInitially, InitialResolution DEF TextInit
<1>2. world \in Worlds
  BY DEF TextInit, Init
<1>3. original \in Seq(Tokens) /\ source = original
  BY <1>2, TextsAssumption DEF TextInit
<1>4. recorded \in [Resolving -> Seq(NameSet)]
  <2>1. <<>> \in Seq(NameSet)
    OBVIOUS
  <2> QED
    BY <2>1 DEF TextInit
<1>5. Waiting(source, pending)
  <2>1. pending = <<>> /\ Len(pending) = 0
    BY DEF TextInit
  <2>2. pending \in Seq([first : Nat \ {0}, past : Nat, group : Seq(Tokens)])
    BY <2>1
  <2> QED
    BY <2>1, <2>2 DEF Waiting
<1>6. pass = 0 /\ rejected = FALSE
  BY DEF TextInit
<1>7. pass \in 0 .. 5
  BY <1>6
<1>8. rejected \in BOOLEAN
  BY <1>6, Zenon
<1>9. source \in Seq(Tokens)
  BY <1>3
<1> QED
  BY <1>1, <1>3, <1>4, <1>5, <1>7, <1>8, <1>9, Zenon DEF TextTyped

\* What a call that preprocessing makes leads to.
ExpandsTo(outcome) ==
  LET m == pending[Len(pending)]
      name == NameIn(m.group)
      fname == Passes[pass]
  IN /\ pending # <<>> /\ pending' = Front(pending)
     /\ resolve_require_path(ScriptDir, name)
     /\ outcome = IF Problem # <<>> THEN Problem[1] ELSE Answer(Known, ScriptDir, name)
     /\ [call |-> calls', base |-> ScriptDir, name |-> name, outcome |-> outcome] \in answers'
     /\ Written(outcome) \in NameSet /\ fname \in Resolving /\ pass > 0 /\ ~rejected
     /\ \/ rejected' = TRUE /\ source' = source /\ recorded' = recorded
        \/ /\ rejected' = rejected /\ outcome.kind \notin {"failure", "exception"}
           /\ source' = Spliced(source, m.first, Called(Spelling(fname), Named(Written(outcome))), m.past)
           /\ recorded' = [recorded EXCEPT ![fname] = Append(@, Written(outcome))]

LEMMA GroupTyped ==
  ASSUME TextTyped, pending # <<>>
  PROVE  /\ NameIn(pending[Len(pending)].group) \in NameSet
         /\ pending[Len(pending)].group \in Seq(Tokens)
         /\ Last(pending) = pending[Len(pending)]
<1>1. pending[Len(pending)].group \in Seq(Tokens)
  <2>1. <<>> \in Seq(Tokens)
    OBVIOUS
  <2> QED
    BY <2>1, WaitingKept DEF TextTyped
<1>2. Last(pending) = pending[Len(pending)]
  BY DEF Last
<1> QED
  BY <1>1, <1>2, NamesTyped

LEMMA Expands ==
  ASSUME TextTyped, ExpandSpecifier
  PROVE  AnswersInv' /\ ResolutionInv' /\ \E outcome : ExpandsTo(outcome) /\ Answered(outcome)
<1> DEFINE m == pending[Len(pending)]
           name == NameIn(m.group)
           fname == Passes[pass]
           outcome == IF Problem # <<>> THEN Problem[1] ELSE Answer(Known, ScriptDir, name)
           new == [call |-> calls', base |-> ScriptDir, name |-> name, outcome |-> outcome]
           chosen == CHOOSE answer \in answers' : answer.call = calls'
<1>1. PICK i \in DOMAIN pending :
        /\ InTurn(pending[i])
        /\ resolve_require_path(ScriptDir, NameIn(pending[i].group))
        /\ LET found == (CHOOSE answer \in answers' : answer.call = calls').outcome
           IN IF found.kind \in {"failure", "exception"} THEN Reject
              ELSE /\ Replace(pending[i], Called(Spelling(fname), Named(Written(found))))
                   /\ recorded' = [recorded EXCEPT ![fname] = Append(@, Written(found))]
                   /\ UNCHANGED rejected
  BY DEF ExpandSpecifier
<1>2. pending # <<>> /\ pending' = Front(pending) /\ pending[i] = m
  <2>1. pending # <<>> /\ pending[i] = Last(pending) /\ pending' = Front(pending)
    BY <1>1 DEF InTurn
  <2> QED
    BY <2>1, GroupTyped
<1>3. name \in NameSet
  BY <1>2, GroupTyped
<1>4. resolve_require_path(ScriptDir, name)
  BY <1>1, <1>2
<1>5. AnswersInv' /\ ResolutionInv'
  <2>1. name.steps \in Paths /\ ScriptDir \in Paths
    BY <1>3, TextsAssumption DEF NameSet, Paths
  <2> HIDE DEF name
  <2> QED
    BY <1>4, <2>1, AnswersStep, ResolutionStep DEF TextTyped
<1>6. calls' = calls + 1 /\ answers' = answers \cup {new} /\ new \in answers'
  BY <1>4 DEF resolve_require_path
<1>7. chosen = new
  <2>1. \A answer \in answers : answer.call \in 1 .. calls /\ calls \in Nat
    BY DEF TextTyped, ResolutionInv
  <2>2. \A answer \in answers' : answer.call = calls' => answer = new
    BY <1>6, <2>1
  <2>3. new.call = calls'
    OBVIOUS
  <2> HIDE DEF new
  <2> QED
    BY <1>6, <2>2, <2>3
<1>8. chosen.outcome = outcome
  <2>1. new.outcome = outcome
    OBVIOUS
  <2> HIDE DEF chosen, new, outcome
  <2> QED
    BY <1>7, <2>1
<1>9. Answered(outcome)
  <2>1. new.outcome = outcome
    OBVIOUS
  <2>2. world' = world
    BY <1>4 DEF resolve_require_path
  <2>3. \A answer \in answers' : Answered(answer.outcome)
    BY <1>5, <2>2 DEF AnswersInv, Answered
  <2> HIDE DEF new, outcome
  <2> QED
    BY <1>6, <2>1, <2>3
<1> HIDE DEF chosen
<1>10. Written(outcome) \in NameSet
  <2>1. outcome.path \in Seq(Steps)
    <3>1. CASE outcome \in {Message, Failure, Exception}
      <4>1. outcome.path = <<>>
        BY <3>1 DEF Message, Failure, Exception
      <4>2. <<>> \in Seq(Steps)
        OBVIOUS
      <4> HIDE DEF outcome
      <4> QED
        BY <4>1, <4>2
    <3>2. CASE outcome.path \in Canonical
      BY <3>2, CanonicalPaths DEF Paths
    <3> HIDE DEF outcome
    <3> QED
      BY <1>9, <3>1, <3>2 DEF Answered
  <2> HIDE DEF outcome
  <2> QED
    BY <2>1, TextsAssumption DEF Written, NameSet
<1>11. \/ rejected' = TRUE /\ source' = source /\ recorded' = recorded
       \/ /\ rejected' = rejected /\ outcome.kind \notin {"failure", "exception"}
          /\ source' = Spliced(source, m.first, Called(Spelling(fname), Named(Written(outcome))), m.past)
          /\ recorded' = [recorded EXCEPT ![fname] = Append(@, Written(outcome))]
  <2>1. IF outcome.kind \in {"failure", "exception"} THEN Reject
        ELSE /\ Replace(m, Called(Spelling(fname), Named(Written(outcome))))
             /\ recorded' = [recorded EXCEPT ![fname] = Append(@, Written(outcome))]
             /\ UNCHANGED rejected
    <3> HIDE DEF outcome, fname, m
    <3> QED
      BY <1>1, <1>2, <1>8 DEF chosen
  <2> HIDE DEF outcome, fname, m
  <2> QED
    BY <2>1 DEF Reject, Replace, Spliced
<1>12. fname \in Resolving /\ pass > 0 /\ ~rejected
  BY DEF ExpandSpecifier
<1>13. ExpandsTo(outcome)
  BY <1>2, <1>4, <1>6, <1>10, <1>11, <1>12 DEF ExpandsTo
<1> QED
  BY <1>5, <1>9, <1>13

LEMMA ReplacementTyped ==
  ASSUME NEW fname, NEW group, NEW new \in to_string(fname, group)
  PROVE  /\ new \in Seq(Tokens) /\ Len(new) > 0 /\ new[1] = Open
<1>0. Open \in Tokens /\ Quote \in Tokens /\ Close \in Tokens
  BY FixedTokens
<1>1. CASE fname = "nameof"
  <2>1. new = <<Open, Quote, Quote, Close>>
    BY <1>1 DEF to_string
  <2> QED
    BY <1>0, <2>1
<1>2. CASE fname # "nameof"
  <2>1. PICK name \in DOMAIN Searched : new = Called(<<>>, Named(Written(Path(Searched[name]))))
    BY <1>2 DEF to_string, SearchedFor
  <2>2. Named(Written(Path(Searched[name]))) \in Tokens
    <3>1. Searched[name] \in Seq(Steps)
      BY TextsAssumption
    <3> QED
      BY <3>1, NamesTyped
  <2> DEFINE word == <<>>
  <2>3. word \in Seq(Tokens) /\ Len(word) = 0
    OBVIOUS
  <2> HIDE DEF word
  <2>4. Len(new) = 0 + 5 /\ new[0 + 1] = Open /\ new \in Seq(Tokens)
    BY <2>1, <2>2, <2>3, CalledIs DEF word
  <2> QED
    BY <2>4
<1> QED
  BY <1>1, <1>2

\* What a replacement of the first two passes leads to.
LEMMA Replaces ==
  ASSUME TextTyped, ReplaceSpecifier
  PROVE  /\ pending # <<>> /\ pending' = Front(pending) /\ UNCHANGED <<vars, original, pass, recorded>>
         /\ pass > 0 /\ Passes[pass] \notin Resolving /\ ~rejected
         /\ \/ rejected' = TRUE /\ source' = source
            \/ /\ rejected' = rejected
               /\ \E new \in to_string(Passes[pass], pending[Len(pending)].group) :
                    source' = Spliced(source, pending[Len(pending)].first, new, pending[Len(pending)].past)
<1>1. PICK i \in DOMAIN pending :
       /\ InTurn(pending[i])
       /\ LET new == to_string(Passes[pass], pending[i].group)
          IN IF new = {} THEN Reject
             ELSE /\ \E text \in new : Replace(pending[i], text)
                  /\ UNCHANGED <<recorded, rejected>>
  BY DEF ReplaceSpecifier
<1>2. pending # <<>> /\ pending' = Front(pending) /\ pending[i] = pending[Len(pending)]
  BY <1>1, GroupTyped DEF InTurn
<1>3. UNCHANGED <<vars, original, pass>> /\ ~rejected /\ pass > 0 /\ Passes[pass] \notin Resolving
  BY DEF ReplaceSpecifier
<1> QED
  BY <1>1, <1>2, <1>3 DEF Reject, Replace, Spliced

LEMMA TextStep == TextTyped /\ [TextNext]_<<vars, text_vars>> => TextTyped'
<1> SUFFICES ASSUME TextTyped, [TextNext]_<<vars, text_vars>>
             PROVE  TextTyped'
  OBVIOUS
<1>1. CASE BeginPass
  <2>1. pass < 5 /\ pass' = pass + 1 /\ UNCHANGED <<vars, original, source, recorded, rejected>>
    BY <1>1, PassesAre DEF BeginPass
  <2>2. pass' \in 1 .. 5
    BY <2>1 DEF TextTyped
  <2>3. PICK scope : pending' = Matches(source, Passes[pass'], scope)
    BY <1>1, <2>1 DEF BeginPass
  <2>4. Passes[pass'] \in PassNames
    BY <2>2, PassesAre
  <2>5. Waiting(source, pending')
    BY <2>3, <2>4, MatchesWait DEF TextTyped
  <2>6. AnswersInv' /\ ResolutionInv'
    BY <2>1, AnswersInductive, ResolutionInductive DEF TextTyped
  <2> QED
    BY <2>1, <2>2, <2>5, <2>6 DEF TextTyped
<1>2. CASE ReplaceSpecifier
  <2> DEFINE m == pending[Len(pending)]
  <2>1. /\ pending # <<>> /\ pending' = Front(pending) /\ UNCHANGED <<vars, original, pass, recorded>>
        /\ \/ rejected' = TRUE /\ source' = source
           \/ /\ rejected' = rejected
              /\ \E new \in to_string(Passes[pass], m.group) :
                   source' = Spliced(source, m.first, new, m.past)
    BY <1>2, Replaces
  <2>2. AnswersInv' /\ ResolutionInv'
    BY <2>1, AnswersInductive, ResolutionInductive DEF TextTyped
  <2>3. CASE rejected' = TRUE /\ source' = source
    <3>1. Waiting(source, Front(pending))
      BY <2>1, FrontWaits DEF TextTyped
    <3> QED
      BY <2>1, <2>2, <2>3, <3>1 DEF TextTyped
  <2>4. CASE rejected' = rejected
             /\ \E new \in to_string(Passes[pass], m.group) : source' = Spliced(source, m.first, new, m.past)
    <3>1. PICK new \in to_string(Passes[pass], m.group) : source' = Spliced(source, m.first, new, m.past)
      BY <2>4
    <3>2. new \in Seq(Tokens)
      BY ReplacementTyped
    <3>3. source' \in Seq(Tokens) /\ Waiting(source', pending')
      BY <2>1, <3>1, <3>2, WaitingKept, SplicedIs DEF TextTyped
    <3> QED
      BY <2>1, <2>2, <2>4, <3>3 DEF TextTyped
  <2> QED
    BY <2>1, <2>3, <2>4
<1>3. CASE ExpandSpecifier
  <2> DEFINE m == pending[Len(pending)]
             fname == Passes[pass]
  <2>1. AnswersInv' /\ ResolutionInv'
    BY <1>3, Expands
  <2>2. PICK outcome : ExpandsTo(outcome)
    BY <1>3, Expands
  <2>3. UNCHANGED <<original, pass>>
    BY <1>3 DEF ExpandSpecifier
  <2>4. CASE rejected' = TRUE /\ source' = source /\ recorded' = recorded
    <3>1. Waiting(source, Front(pending))
      BY <2>2, FrontWaits DEF TextTyped, ExpandsTo
    <3> QED
      BY <2>1, <2>2, <2>3, <2>4, <3>1 DEF TextTyped, ExpandsTo
  <2>5. CASE /\ rejected' = rejected
             /\ source' = Spliced(source, m.first, Called(Spelling(fname), Named(Written(outcome))), m.past)
             /\ recorded' = [recorded EXCEPT ![fname] = Append(@, Written(outcome))]
    <3> DEFINE new == Called(Spelling(fname), Named(Written(outcome)))
    <3>1. fname \in Resolving /\ Written(outcome) \in NameSet /\ pending # <<>> /\ pending' = Front(pending)
      BY <2>2 DEF ExpandsTo
    <3>2. new \in Seq(Tokens)
      BY <3>1, NamesTyped, FixedTokens, CalledIs
    <3> HIDE DEF new
    <3>3. source' \in Seq(Tokens) /\ Waiting(source', pending')
      BY <2>5, <3>1, <3>2, WaitingKept, SplicedIs DEF TextTyped, new
    <3>4. recorded' \in [Resolving -> Seq(NameSet)]
      <4>1. recorded[fname] \in Seq(NameSet)
        BY <3>1 DEF TextTyped
      <4>2. Append(recorded[fname], Written(outcome)) \in Seq(NameSet)
        BY <3>1, <4>1
      <4> HIDE DEF fname
      <4> QED
        BY <2>5, <3>1, <4>2 DEF TextTyped
    <3> QED
      BY <2>1, <2>3, <2>5, <3>3, <3>4 DEF TextTyped
  <2> QED
    BY <2>2, <2>4, <2>5 DEF ExpandsTo
<1>4. CASE OtherScripts
  <2>1. Next /\ UNCHANGED text_vars
    BY <1>4 DEF OtherScripts
  <2>2. AnswersInv' /\ ResolutionInv'
    BY <2>1, AnswersInductive, ResolutionInductive DEF TextTyped
  <2> QED
    BY <2>1, <2>2 DEF TextTyped, text_vars
<1>5. CASE UNCHANGED <<vars, text_vars>>
  <2>1. UNCHANGED vars /\ UNCHANGED text_vars
    BY <1>5
  <2>2. AnswersInv' /\ ResolutionInv'
    BY <2>1, AnswersInductive, ResolutionInductive DEF TextTyped
  <2> QED
    BY <2>1, <2>2 DEF TextTyped, text_vars
<1> QED
  BY <1>1, <1>2, <1>3, <1>4, <1>5 DEF TextNext

\* All this holds of the names that a script's preparation resolves as well, which are
\* what its text says by then, and of those that other scripts resolve after it
\* (preprocessing.cpp:133-151).
THEOREM NamesHoldInTexts == TextSpec => [](ResolutionTypeOK /\ ResolvesToItself /\ AnswersAreStable)
<1>1. TextTyped => ResolutionTypeOK /\ ResolvesToItself /\ AnswersAreStable
  BY TypedByInv, LeadsBackByInv, StableByInv DEF TextTyped
<1> QED
  BY TextInitially, TextStep, <1>1, PTL DEF TextSpec
-----------------------------------------------------------------------------
\* Texts in which every call is written in the usual way.
\* Two texts that differ in names only.
SameKinds(s, t) == Len(s) = Len(t) /\ \A i \in 1 .. Len(t) : s[i].kind = t[i].kind

LEMMA SameOutline ==
  ASSUME NEW s \in Seq(Tokens), NEW t \in Seq(Tokens), SameKinds(s, t)
  PROVE  Outline(s) = Outline(t)
<1>1. DOMAIN s = 1 .. Len(t) /\ DOMAIN t = 1 .. Len(t)
  BY LenProperties DEF SameKinds
<1>2. ASSUME NEW i \in 1 .. Len(t)
      PROVE  (IF s[i].kind = "name" THEN Token("name") ELSE s[i])
             = (IF t[i].kind = "name" THEN Token("name") ELSE t[i])
  <2>1. s[i] \in Tokens /\ t[i] \in Tokens /\ s[i].kind = t[i].kind
    BY ElementsTyped DEF SameKinds
  <2>2. s[i].kind # "name" => s[i] = Token(s[i].kind) /\ t[i] = Token(t[i].kind)
    BY <2>1, TokenIs
  <2> QED
    BY <2>1, <2>2
<1> QED
  BY <1>1, <1>2, Zenon DEF Outline

LEMMA PieceElements ==
  ASSUME NEW t \in Seq(Tokens), NEW i \in 1 .. Len(t), NEW k \in i .. Len(t)
  PROVE  /\ SubSeq(t, i, k) \in Seq(Tokens) /\ Len(SubSeq(t, i, k)) = (k + 1) - i
         /\ \A j \in 1 .. (k + 1) - i : SubSeq(t, i, k)[j] = t[i + j - 1]
<1>1. Len(t) \in Nat /\ \A j \in i .. k : t[j] \in Tokens
  BY ElementsTyped
<1>2. /\ SubSeq(t, i, k) \in Seq(Tokens) /\ Len(SubSeq(t, i, k)) = IF i <= k THEN k - i + 1 ELSE 0
      /\ \A j \in 1 .. k - i + 1 : SubSeq(t, i, k)[j] = t[i + j - 1]
  BY <1>1, SubSeqProperties
<1>3. k - i + 1 = (k + 1) - i /\ i <= k
  BY <1>1
<1> QED
  BY <1>2, <1>3

\* A call as it is usually written, its last word at b.
CallAt(t, b) ==
  /\ b + 5 <= Len(t) /\ t[b + 1].kind = "open" /\ t[b + 2].kind = "quote" /\ t[b + 3].kind = "name"
  /\ t[b + 4].kind = "quote" /\ t[b + 5].kind = "close"
PlainKinds(t) ==
  \A i \in 1 .. Len(t) :
    t[i].kind \notin {"nameof", "dlsearch"} /\ (t[i].kind \in {"require", "dlload"} => CallAt(t, i))

LEMMA PlainIs ==
  ASSUME NEW t \in Seq(Tokens), WrittenPlainly(t)
  PROVE  PlainKinds(t)
<1>1. DOMAIN t = 1 .. Len(t) /\ Len(t) \in Nat
  BY LenProperties
<1>2. ASSUME NEW i \in 1 .. Len(t), t[i].kind \in {"require", "dlload"}
      PROVE  CallAt(t, i)
  <2> DEFINE x == t[i]
             word == <<x>>
             y == t[i + 3]
             c == Called(word, y)
             p == SubSeq(t, i, i + 5)
  <2>1. i + 5 <= Len(t) /\ y.kind = "name" /\ p = c
    BY <1>1, <1>2 DEF WrittenPlainly
  <2>2. x \in Tokens /\ y \in Tokens
    <3>1. i + 3 \in 1 .. Len(t)
      BY <1>1, <2>1
    <3> QED
      BY <3>1, ElementsTyped
  <2>3. word \in Seq(Tokens) /\ Len(word) = 1
    BY <2>2
  <2>4. /\ c[1 + 1] = Open /\ c[1 + 2] = Quote /\ c[1 + 3] = y /\ c[1 + 4] = Quote /\ c[1 + 5] = Close
    <3> HIDE DEF word, y
    <3>1. /\ c[Len(word) + 1] = Open /\ c[Len(word) + 2] = Quote /\ c[Len(word) + 3] = y
          /\ c[Len(word) + 4] = Quote /\ c[Len(word) + 5] = Close
      BY <2>2, <2>3, CalledIs
    <3> QED
      BY <2>3, <3>1
  <2>5. i + 5 \in i .. Len(t) /\ (i + 5 + 1) - i = 6
    BY <1>1, <2>1
  <2>6. \A j \in 1 .. (i + 5 + 1) - i : p[j] = t[i + j - 1]
    BY <2>5, PieceElements
  <2> HIDE DEF c, p
  <2>7. /\ p[2] = t[i + 2 - 1] /\ p[3] = t[i + 3 - 1] /\ p[5] = t[i + 5 - 1] /\ p[6] = t[i + 6 - 1]
    BY <2>5, <2>6
  <2>8. i + 2 - 1 = i + 1 /\ i + 3 - 1 = i + 2 /\ i + 5 - 1 = i + 4 /\ i + 6 - 1 = i + 5
    BY <1>1
  <2>9. t[i + 1] = Open /\ t[i + 2] = Quote /\ t[i + 4] = Quote /\ t[i + 5] = Close
    BY <2>1, <2>4, <2>7, <2>8
  <2> QED
    BY <2>1, <2>9, FixedTokens DEF CallAt
<1> QED
  BY <1>1, <1>2 DEF PlainKinds, WrittenPlainly

LEMMA PlainKept ==
  ASSUME NEW s, NEW t, SameKinds(s, t), PlainKinds(t), Len(t) \in Nat
  PROVE  PlainKinds(s)
<1>1. \A i \in 1 .. Len(t) : CallAt(t, i) => CallAt(s, i)
  <2> SUFFICES ASSUME NEW i \in 1 .. Len(t), CallAt(t, i)
               PROVE  CallAt(s, i)
    OBVIOUS
  <2>1. \A k \in 1 .. 5 : i + k \in 1 .. Len(t)
    BY DEF CallAt
  <2>2. /\ s[i + 1].kind = t[i + 1].kind /\ s[i + 2].kind = t[i + 2].kind /\ s[i + 3].kind = t[i + 3].kind
        /\ s[i + 4].kind = t[i + 4].kind /\ s[i + 5].kind = t[i + 5].kind /\ Len(s) = Len(t)
    BY <2>1 DEF SameKinds
  <2> QED
    BY <2>2 DEF CallAt
<1> QED
  BY <1>1 DEF PlainKinds, SameKinds

\* What a pattern for a call finds in such a text.
PlainMatch(t, m, fname) ==
  LET b == m.first + Size(fname) - 1
  IN m.first \in 1 .. Len(t) /\ SpelledAt(t, m.first, fname) /\ CallAt(t, b) /\ m.past = b + 6

LEMMA FoundPlain ==
  ASSUME NEW t \in Seq(Tokens), PlainKinds(t), NEW fname \in Resolving, NEW i \in 1 .. Len(t),
         match_at(t, i, fname) # {}
  PROVE  PlainMatch(t, TheMatch(t, i, fname), fname)
<1> DEFINE b == i + Size(fname) - 1
           m == MatchOf(t, i, b + 2, b + 4)
<1>0. Len(t) \in Nat
  BY ElementsTyped
<1>1. SpelledAt(t, i, fname) /\ Size(fname) \in {1, 2}
  BY SpecifierIs DEF Quoted, Size
<1>2. b \in 1 .. Len(t) /\ t[b].kind \in {"require", "dlload"}
  <2>1. CASE fname = "dlrequire"
    BY <1>0, <1>1, <2>1 DEF SpelledAt, Size
  <2>2. CASE fname # "dlrequire"
    BY <1>0, <1>1, <2>2 DEF SpelledAt, Size, Resolving
  <2> QED
    BY <2>1, <2>2
<1>3. CallAt(t, b) /\ b \in Nat /\ i + Size(fname) = b + 1
  BY <1>1, <1>2 DEF PlainKinds
<1> HIDE DEF b
<1>4. Quoted(t, i, fname, b + 2, b + 4)
  <2>1. b + 2 \in Nat /\ b + 4 \in 1 .. Len(t) /\ i + Size(fname) <= b + 2 /\ b + 2 + 1 < b + 4
    BY <1>0, <1>3 DEF CallAt
  <2>2. \A q \in i + Size(fname) .. (b + 2) - 1 : q = b + 1
    BY <1>3
  <2>3. \A q \in (b + 2) + 1 .. (b + 4) - 1 : q = b + 3
    BY <1>3
  <2>4. "name" \in Inner
    BY DEF Inner, Letters
  <2> QED
    BY <1>1, <1>3, <2>1, <2>2, <2>3, <2>4 DEF Quoted, CallAt
<1>5. match_at(t, i, fname) = {m}
  <2>1. b + 2 \in Nat /\ b + 4 \in 1 .. Len(t)
    BY <1>0, <1>3 DEF CallAt
  <2> QED
    BY <1>4, <2>1, SpecifierFound
<1>6. TheMatch(t, i, fname) = m
  <2>1. match_at(t, i, fname) = {TheMatch(t, i, fname)}
    BY HitIs DEF PassNames
  <2> HIDE DEF m
  <2> QED
    BY <1>5, <2>1
<1>7. Behind(t, b + 4) = b + 6
  <2> DEFINE e == After(t, b + 4 + 1, {"blank"})
  <2>1. b + 4 + 1 = b + 5 /\ b + 5 \in 1 .. Len(t) + 1 /\ b + 5 <= Len(t)
    BY <1>0, <1>3 DEF CallAt
  <2>2. Run(t, b + 5, b + 5, {"blank"})
    BY <1>0, <1>3, <2>1 DEF Run, CallAt
  <2>3. e = b + 5
    BY <2>1, <2>2, AfterIs
  <2> HIDE DEF e
  <2>4. e <= Len(t) /\ t[e].kind = "close" /\ e + 1 = b + 6
    BY <1>3, <2>1, <2>3 DEF CallAt
  <2> QED
    BY <2>4 DEF Behind, e
<1>8. m.first = i /\ m.past = b + 6
  BY <1>7 DEF MatchOf
<1> QED
  BY <1>1, <1>3, <1>6, <1>8 DEF PlainMatch, b

LEMMA PlainMatchKept ==
  ASSUME NEW s, NEW t, SameKinds(s, t), Len(t) \in Nat, NEW m, NEW fname \in Resolving, PlainMatch(t, m, fname)
  PROVE  PlainMatch(s, m, fname)
<1> DEFINE b == m.first + Size(fname) - 1
<1>1. m.first \in 1 .. Len(t) /\ SpelledAt(t, m.first, fname) /\ CallAt(t, b) /\ m.past = b + 6
  BY DEF PlainMatch
<1>2. Size(fname) \in {1, 2} /\ b \in Nat
  BY <1>1 DEF Size
<1>3. CallAt(s, b)
  <2>1. \A k \in 1 .. 5 : b + k \in 1 .. Len(t)
    BY <1>1, <1>2 DEF CallAt
  <2> HIDE DEF b
  <2>2. /\ s[b + 1].kind = t[b + 1].kind /\ s[b + 2].kind = t[b + 2].kind /\ s[b + 3].kind = t[b + 3].kind
        /\ s[b + 4].kind = t[b + 4].kind /\ s[b + 5].kind = t[b + 5].kind /\ Len(s) = Len(t)
    BY <2>1 DEF SameKinds
  <2> QED
    BY <1>1, <2>2 DEF CallAt
<1>4. SpelledAt(s, m.first, fname)
  <2>1. CASE fname = "dlrequire"
    <3>1. m.first + 1 \in 1 .. Len(t)
      BY <1>1, <2>1 DEF SpelledAt
    <3> QED
      BY <1>1, <2>1, <3>1 DEF SpelledAt, SameKinds
  <2>2. CASE fname # "dlrequire"
    BY <1>1, <2>2 DEF SpelledAt, SameKinds
  <2> QED
    BY <2>1, <2>2
<1>5. Len(s) = Len(t)
  BY DEF SameKinds
<1> QED
  BY <1>1, <1>3, <1>4, <1>5 DEF PlainMatch

LEMMA SpellingElements ==
  ASSUME NEW fname \in Resolving
  PROVE  /\ Size(fname) \in {1, 2} /\ Len(Spelling(fname)) = Size(fname)
         /\ \A t : \A i \in Nat : SpelledAt(t, i, fname) => \A k \in 1 .. Size(fname) : Spelling(fname)[k].kind = t[i - 1 + k].kind
<1>1. CASE fname = "dlrequire"
  BY <1>1 DEF Size, Spelling, SpelledAt, Token
<1>2. CASE fname # "dlrequire"
  <2>1. Size(fname) = 1 /\ Spelling(fname) = <<Token(fname)>> /\ Token(fname).kind = fname
    BY <1>2 DEF Size, Spelling, Token
  <2>2. Len(Spelling(fname)) = 1 /\ Spelling(fname)[1].kind = fname
    BY <2>1
  <2>3. ASSUME NEW t, NEW i \in Nat, SpelledAt(t, i, fname), NEW k \in 1 .. Size(fname)
        PROVE  Spelling(fname)[k].kind = t[i - 1 + k].kind
    <3>1. k = 1 /\ t[i].kind = fname
      BY <1>2, <2>1, <2>3 DEF SpelledAt
    <3> QED
      BY <2>2, <3>1
  <2> QED
    BY <2>1, <2>2, <2>3
<1> QED
  BY <1>1, <1>2

\* Replacing such a match changes no kind.
LEMMA PlainReplaced ==
  ASSUME NEW t \in Seq(Tokens), NEW m, NEW fname \in Resolving, PlainMatch(t, m, fname), NEW name \in NameSet
  PROVE  SameKinds(Spliced(t, m.first, Called(Spelling(fname), Named(name)), m.past), t)
<1> DEFINE i == m.first
           w == Spelling(fname)
           z == Size(fname)
           new == Called(w, Named(name))
           s == Spliced(t, i, new, m.past)
<1>0. Len(t) \in Nat
  BY ElementsTyped
<1>1. i \in 1 .. Len(t) /\ SpelledAt(t, i, fname) /\ CallAt(t, i + z - 1) /\ m.past = i + z - 1 + 6
  BY DEF PlainMatch
<1>2. z \in {1, 2} /\ Len(w) = z /\ w \in Seq(Tokens) /\ \A k \in 1 .. z : w[k].kind = t[i - 1 + k].kind
  <2>1. \A k \in 1 .. z : w[k].kind = t[i - 1 + k].kind
    BY <1>1, SpellingElements
  <2> QED
    BY <2>1, SpellingElements, FixedTokens
<1> HIDE DEF w, z, i
<1>3. /\ new \in Seq(Tokens) /\ Len(new) = z + 5 /\ \A k \in 1 .. z : new[k] = w[k]
      /\ new[z + 1] = Open /\ new[z + 2] = Quote /\ new[z + 3] = Named(name)
      /\ new[z + 4] = Quote /\ new[z + 5] = Close
  <2>1. Named(name) \in Tokens
    BY NamesTyped
  <2> QED
    BY <1>2, <2>1, CalledIs
<1> HIDE DEF new
<1>4. m.past \in i .. Len(t) + 1 /\ i \in 1 .. Len(t) + 1 /\ m.past = i + (z + 5)
  BY <1>0, <1>1, <1>2 DEF CallAt
<1>5. /\ Len(s) = (i - 1) + Len(new) + (Len(t) + 1 - m.past)
      /\ \A j \in 1 .. i - 1 : s[j] = t[j]
      /\ \A j \in 1 .. Len(new) : s[i - 1 + j] = new[j]
      /\ \A j \in m.past .. Len(t) : s[i - 1 + Len(new) + (j + 1 - m.past)] = t[j]
  <2>1. new \in Seq(Tokens)
    BY <1>3
  <2> DEFINE p == m.past
  <2>2. p \in i .. Len(t) + 1 /\ i \in 1 .. Len(t) + 1
    BY <1>4
  <2> HIDE DEF p
  <2>3. /\ Len(Spliced(t, i, new, p)) = (i - 1) + Len(new) + (Len(t) + 1 - p)
        /\ \A j \in 1 .. i - 1 : Spliced(t, i, new, p)[j] = t[j]
        /\ \A j \in 1 .. Len(new) : Spliced(t, i, new, p)[i - 1 + j] = new[j]
        /\ \A j \in p .. Len(t) : Spliced(t, i, new, p)[i - 1 + Len(new) + (j + 1 - p)] = t[j]
    BY <2>1, <2>2, SplicedIs
  <2> QED
    BY <2>3 DEF p
<1> HIDE DEF s
<1>6. Len(s) = Len(t)
  BY <1>0, <1>3, <1>4, <1>5, <1>2
<1>7. ASSUME NEW k \in 1 .. z + 5
      PROVE  new[k].kind = t[i - 1 + k].kind
  <2>1. CASE k \in 1 .. z
    BY <1>2, <1>3, <2>1
  <2>2. CASE k \notin 1 .. z
    <3>1. k = z + 1 \/ k = z + 2 \/ k = z + 3 \/ k = z + 4 \/ k = z + 5
      BY <1>2, <2>2
    <3>2. /\ i - 1 + (z + 1) = i + z - 1 + 1 /\ i - 1 + (z + 2) = i + z - 1 + 2 /\ i - 1 + (z + 3) = i + z - 1 + 3
          /\ i - 1 + (z + 4) = i + z - 1 + 4 /\ i - 1 + (z + 5) = i + z - 1 + 5
      BY <1>1, <1>2
    <3>3. /\ t[i - 1 + (z + 1)].kind = "open" /\ t[i - 1 + (z + 2)].kind = "quote"
          /\ t[i - 1 + (z + 3)].kind = "name" /\ t[i - 1 + (z + 4)].kind = "quote"
          /\ t[i - 1 + (z + 5)].kind = "close"
      BY <1>1, <3>2 DEF CallAt
    <3>4. Named(name).kind = "name"
      BY DEF Named
    <3> QED
      BY <1>3, <3>1, <3>3, <3>4, FixedTokens
  <2> QED
    BY <2>1, <2>2
<1>8. ASSUME NEW j \in 1 .. Len(t)
      PROVE  s[j].kind = t[j].kind
  <2>1. CASE j < i
    BY <1>0, <1>1, <1>5, <2>1
  <2>2. CASE j >= i /\ j < m.past
    <3>1. j - (i - 1) \in 1 .. z + 5 /\ i - 1 + (j - (i - 1)) = j
      BY <1>0, <1>1, <1>2, <1>4, <2>2
    <3>2. s[j] = new[j - (i - 1)]
      BY <1>3, <1>5, <3>1
    <3>3. new[j - (i - 1)].kind = t[j].kind
      BY <1>7, <3>1
    <3> QED
      BY <3>2, <3>3
  <2>3. CASE j >= m.past
    <3>1. j \in m.past .. Len(t) /\ i - 1 + (z + 5) + (j + 1 - m.past) = j
      BY <1>0, <1>1, <1>2, <1>4, <2>3
    <3>2. s[i - 1 + Len(new) + (j + 1 - m.past)] = t[j]
      BY <1>5, <3>1
    <3> QED
      BY <1>3, <3>1, <3>2
  <2> QED
    BY <1>0, <1>1, <1>4, <2>1, <2>2, <2>3
<1>9. SameKinds(s, t)
  BY <1>6, <1>8 DEF SameKinds
<1> QED
  BY <1>9 DEF s, new, w, i
-----------------------------------------------------------------------------
\* While a plainly written text is prepared.
KeptInv ==
  WrittenPlainly(original) =>
    /\ SameKinds(source, original)
    /\ pass <= 2 => pending = <<>>
    /\ pass > 2 => \A l \in 1 .. Len(pending) : PlainMatch(source, pending[l], Passes[pass])

LEMMA KeptInitially == TextInit => KeptInv
<1> SUFFICES ASSUME TextInit
             PROVE  KeptInv
  OBVIOUS
<1>1. source = original /\ pass = 0 /\ pending = <<>>
  BY DEF TextInit
<1> QED
  BY <1>1 DEF KeptInv, SameKinds

LEMMA FoundInPlain ==
  ASSUME NEW t \in Seq(Tokens), PlainKinds(t), NEW fname \in PassNames, NEW scope
  PROVE  /\ fname \notin Resolving => Matches(t, fname, scope) = <<>>
         /\ fname \in Resolving =>
              \A l \in 1 .. Len(Matches(t, fname, scope)) : PlainMatch(t, Matches(t, fname, scope)[l], fname)
<1> DEFINE a == Matches(t, fname, scope)
<1>1. a \in Seq(Hits(t)) /\ InOrder(t, fname, scope, 1, a)
  BY MatchesInOrder
<1> HIDE DEF a
<1>2. \A l \in 1 .. Len(a) : /\ a[l].first \in 1 .. Len(t) /\ match_at(t, a[l].first, fname) # {}
                             /\ a[l] = TheMatch(t, a[l].first, fname)
  BY <1>1 DEF InOrder
<1>3. CASE fname \notin Resolving
  <2>1. \A i \in 1 .. Len(t) : match_at(t, i, fname) = {}
    <3> SUFFICES ASSUME NEW i \in 1 .. Len(t)
                 PROVE  match_at(t, i, fname) = {}
      OBVIOUS
    <3>1. t[i] # Token("nameof") /\ t[i] # Token("dlsearch")
      BY DEF PlainKinds, Token
    <3> QED
      BY <1>3, <3>1 DEF match_at, nameof_at, dlsearch_at, PassNames
  <2>2. a = <<>>
    <3> SUFFICES ASSUME a # <<>>
                 PROVE  FALSE
      OBVIOUS
    <3>1. 1 \in 1 .. Len(a)
      BY <1>1, EmptySeq, LenProperties
    <3> QED
      BY <1>2, <2>1, <3>1
  <2> QED
    BY <1>3, <2>2 DEF a
<1>4. CASE fname \in Resolving
  <2>1. \A l \in 1 .. Len(a) : PlainMatch(t, a[l], fname)
    BY <1>2, <1>4, FoundPlain
  <2> QED
    BY <1>4, <2>1 DEF a
<1> QED
  BY <1>3, <1>4

LEMMA KeptStep == TextTyped /\ KeptInv /\ [TextNext]_<<vars, text_vars>> => KeptInv'
<1> SUFFICES ASSUME TextTyped, KeptInv, [TextNext]_<<vars, text_vars>>, WrittenPlainly(original)'
             PROVE  /\ SameKinds(source', original')
                    /\ pass' <= 2 => pending' = <<>>
                    /\ pass' > 2 => \A l \in 1 .. Len(pending') : PlainMatch(source', pending'[l], Passes[pass'])
  BY DEF KeptInv, SameKinds, PlainMatch, SpelledAt, CallAt
<1>0. original' = original /\ WrittenPlainly(original)
  <2>1. original' = original
    BY DEF TextNext, BeginPass, ReplaceSpecifier, ExpandSpecifier, OtherScripts, text_vars
  <2> QED
    BY <2>1 DEF WrittenPlainly
<1>1. /\ SameKinds(source, original) /\ (pass <= 2 => pending = <<>>)
      /\ pass > 2 => \A l \in 1 .. Len(pending) : PlainMatch(source, pending[l], Passes[pass])
  BY <1>0 DEF KeptInv
<1>2. source \in Seq(Tokens) /\ original \in Seq(Tokens) /\ Len(original) \in Nat /\ Len(source) \in Nat /\ pass \in 0 .. 5
  BY LenProperties DEF TextTyped
<1>3. PlainKinds(source)
  BY <1>0, <1>1, <1>2, PlainIs, PlainKept
<1>4. CASE BeginPass
  <2>1. pass' = pass + 1 /\ source' = source /\ pass' \in 1 .. 5
    BY <1>2, <1>4, PassesAre DEF BeginPass
  <2>2. PICK scope : pending' = Matches(source, Passes[pass'], scope)
    BY <1>4, <2>1 DEF BeginPass
  <2>3. Passes[pass'] \in PassNames /\ (Passes[pass'] \in Resolving <=> pass' > 2)
    BY <2>1, PassesAre
  <2>4. /\ Passes[pass'] \notin Resolving => pending' = <<>>
        /\ Passes[pass'] \in Resolving =>
             \A l \in 1 .. Len(pending') : PlainMatch(source, pending'[l], Passes[pass'])
    BY <1>2, <1>3, <2>2, <2>3, FoundInPlain
  <2> QED
    BY <1>0, <1>1, <2>1, <2>3, <2>4
<1>5. CASE ReplaceSpecifier
  <2>1. pending # <<>> /\ pass > 0 /\ Passes[pass] \notin Resolving
    BY <1>5, Replaces
  <2>2. pass <= 2
    BY <1>2, <2>1, PassesAre
  <2> QED
    BY <1>1, <2>1, <2>2
<1>6. CASE ExpandSpecifier
  <2> DEFINE m == pending[Len(pending)]
             fname == Passes[pass]
  <2>1. PICK outcome : ExpandsTo(outcome)
    BY <1>6, Expands
  <2>2. pending # <<>> /\ pending' = Front(pending) /\ fname \in Resolving /\ pass > 0 /\ Written(outcome) \in NameSet
    BY <2>1 DEF ExpandsTo
  <2>3. pass > 2 /\ pass' = pass
    BY <1>2, <1>6, <2>2, PassesAre DEF ExpandSpecifier
  <2>4. /\ Len(pending) \in Nat \ {0} /\ Len(Front(pending)) = Len(pending) - 1
        /\ \A l \in 1 .. Len(pending) - 1 : Front(pending)[l] = pending[l]
    <3>1. pending \in Seq([first : Nat \ {0}, past : Nat, group : Seq(Tokens)])
      BY DEF TextTyped, Waiting
    <3> QED
      BY <2>2, <3>1, LastOf
  <2>5. \A l \in 1 .. Len(pending') : PlainMatch(source, pending'[l], fname)
    <3>1. \A l \in 1 .. Len(pending') : pending'[l] = pending[l] /\ l \in 1 .. Len(pending)
      BY <2>2, <2>4
    <3> QED
      BY <1>1, <2>3, <3>1
  <2>6. CASE source' = source
    <3>1. SameKinds(source', original')
      BY <1>0, <1>1, <2>6
    <3>2. \A l \in 1 .. Len(pending') : PlainMatch(source', pending'[l], Passes[pass'])
      BY <2>3, <2>5, <2>6
    <3>3. ~(pass' <= 2)
      BY <1>2, <2>3
    <3> QED
      BY <3>1, <3>2, <3>3
  <2>7. CASE source' = Spliced(source, m.first, Called(Spelling(fname), Named(Written(outcome))), m.past)
    <3>1. PlainMatch(source, m, fname)
      BY <1>1, <2>3, <2>4
    <3>2. SameKinds(source', source)
      <4> HIDE DEF m, fname
      <4> QED
        BY <1>2, <2>2, <2>7, <3>1, PlainReplaced
    <3>3. SameKinds(source', original)
      BY <1>1, <3>2 DEF SameKinds
    <3>4. \A l \in 1 .. Len(pending') : PlainMatch(source', pending'[l], fname)
      <4> HIDE DEF m, fname
      <4> QED
        BY <1>2, <2>2, <2>5, <3>2, PlainMatchKept
    <3>5. SameKinds(source', original')
      BY <1>0, <3>3
    <3>6. \A l \in 1 .. Len(pending') : PlainMatch(source', pending'[l], Passes[pass'])
      BY <2>3, <3>4
    <3>7. ~(pass' <= 2)
      BY <1>2, <2>3
    <3> QED
      BY <3>5, <3>6, <3>7
  <2> QED
    BY <2>1, <2>6, <2>7 DEF ExpandsTo
<1>7. CASE OtherScripts \/ UNCHANGED <<vars, text_vars>>
  <2>1. UNCHANGED <<source, pass, pending>>
    BY <1>7 DEF OtherScripts, text_vars
  <2> QED
    BY <1>0, <1>1, <2>1
<1> QED
  BY <1>4, <1>5, <1>6, <1>7 DEF TextNext

\* Preprocessing a text whose calls are written in the usual way leaves every token in its
\* place, but for the names that become paths (preprocessing.cpp:50-66, 134).
THEOREM RestIsKeptCorrect == TextSpec => []RestIsKept
<1>1. TextTyped /\ KeptInv => RestIsKept
  <2> SUFFICES ASSUME TextTyped, KeptInv, WrittenPlainly(original)
               PROVE  Outline(source) = Outline(original)
    BY DEF RestIsKept
  <2> QED
    BY SameOutline DEF TextTyped, KeptInv
<1> QED
  BY TextInitially, KeptInitially, TextStep, KeptStep, <1>1, PTL DEF TextSpec
-----------------------------------------------------------------------------
\* Two texts that differ in one call: what stands left of it,
\* The places of what is no member: what is_global_scope lets pass.
Free(t) == {i \in DOMAIN t : ~Member(t, i)}

LEMMA ScopeIsFree ==
  ASSUME NEW t \in Seq(Tokens), t = <<>> \/ t[1] # Blank, NEW beyond \in BOOLEAN
  PROVE  {i \in DOMAIN t : is_global_scope(t, i, beyond)} = Free(t)
<1>1. DOMAIN t = 1 .. Len(t) /\ Len(t) \in Nat
  BY LenProperties
<1>2. ASSUME NEW i \in 1 .. Len(t)
      PROVE  is_global_scope(t, i, beyond) <=> ~Member(t, i)
  <2>1. CASE i = 1
    BY <2>1 DEF is_global_scope, Member
  <2>2. CASE i # 1
    <3> DEFINE set == {0} \cup {j \in 1 .. i - 1 : t[j] # Blank}
               k == Max(set)
               rest == {j \in 1 .. i - 1 : t[j] # Blank}
    <3>1. 1 \in rest /\ rest \in SUBSET (1 .. Len(t))
      <4>1. t[1] # Blank
        <5>1. t # <<>>
          BY <1>2, EmptySeq
        <5> QED
          BY <5>1
      <4> QED
        BY <1>1, <2>2, <4>1
    <3>2. k \in rest /\ \A y \in rest : k >= y
      <4>1. Max(rest) \in rest /\ \A y \in rest : Max(rest) >= y
        <5> HIDE DEF rest
        <5> QED
          BY <1>1, <3>1, MaxOf
      <4>2. set = {0} \cup rest
        OBVIOUS
      <4>3. Max(set) = Max(rest)
        <5>0. Max(rest) \in Nat
          BY <3>1, <4>1
        <5>1. Max(rest) \in set /\ \A y \in set : Max(rest) >= y
          <6>1. \A y \in set : y = 0 \/ y \in rest
            OBVIOUS
          <6>2. Max(rest) \in set
            BY <4>1
          <6> HIDE DEF set, rest
          <6> QED
            BY <4>1, <5>0, <6>1, <6>2
        <5>2. \A x \in set : (\A y \in set : x >= y) => x = Max(rest)
          BY <4>1
        <5> DEFINE r == Max(rest)
        <5>3. r \in set /\ (\A y \in set : r >= y) /\ \A x \in set : (\A y \in set : x >= y) => x = r
          BY <5>1, <5>2
        <5> HIDE DEF set, r
        <5>4. (CHOOSE x \in set : \A y \in set : x >= y) = r
          BY <5>3
        <5> QED
          BY <5>4 DEF Max, r
      <4> QED
        BY <4>1, <4>3
    <3> HIDE DEF k
    <3>3. is_global_scope(t, i, beyond) <=> t[k] # Dot
      <4>1. k # 0
        BY <3>2
      <4> QED
        BY <2>2, <4>1 DEF is_global_scope, k
    <3>4. t[k] = Dot => Member(t, i)
      <4> SUFFICES ASSUME t[k] = Dot
                   PROVE  Member(t, i)
        OBVIOUS
      <4>1. \A j \in k + 1 .. i - 1 : t[j] = Blank
        <5> SUFFICES ASSUME NEW j \in k + 1 .. i - 1, t[j] # Blank
                     PROVE  FALSE
          OBVIOUS
        <5>1. j \in rest /\ ~(k >= j)
          BY <3>2
        <5> QED
          BY <3>2, <5>1
      <4> QED
        BY <3>2, <4>1 DEF Member
    <3>5. Member(t, i) => t[k] = Dot
      <4> SUFFICES ASSUME Member(t, i)
                   PROVE  t[k] = Dot
        OBVIOUS
      <4>1. PICK q \in 1 .. i - 1 : t[q] = Dot /\ \A j \in q + 1 .. i - 1 : t[j] = Blank
        BY DEF Member
      <4>2. Dot # Blank
        BY DEF Dot, Blank, Token
      <4>3. q \in rest
        BY <4>1, <4>2
      <4>4. ~(k > q)
        BY <3>2, <4>1
      <4>5. k = q
        BY <3>2, <4>3, <4>4
      <4> QED
        BY <4>1, <4>5
    <3> QED
      BY <3>3, <3>4, <3>5
  <2> QED
    BY <2>1, <2>2
<1> QED
  BY <1>1, <1>2 DEF Free

\* Two texts that are the same up to a call, by the same word, of one name each.
Call(t, i, f, k) ==
  /\ k \in Nat /\ k + 2 <= Len(t) /\ i \in 1 .. Len(t)
  /\ Quoted(t, i, f, k, k + 2) /\ t[k + 1].kind = "name"
Alike(t, s, i, f, k, l) ==
  Call(t, i, f, k) /\ Call(s, i, f, l) /\ \A j \in 1 .. i + Size(f) - 1 : s[j] = t[j]

LEMMA AlikeBack ==
  ASSUME NEW t, NEW s, NEW i, NEW f, NEW k, NEW l, Alike(t, s, i, f, k, l)
  PROVE  Alike(s, t, i, f, l, k)
BY DEF Alike

LEMMA CallIs ==
  ASSUME NEW t \in Seq(Tokens), NEW i, NEW f \in Resolving, NEW k, Call(t, i, f, k)
  PROVE  /\ i \in 1 .. Len(t) /\ k \in Nat /\ Len(t) \in Nat /\ Size(f) \in {1, 2}
         /\ i + Size(f) <= k /\ k + 2 <= Len(t)
         /\ \A q \in i .. i + Size(f) - 1 : t[q].kind \in {"dl", "require", "dlload"}
         /\ \A q \in i + Size(f) .. k - 1 : t[q].kind \in {"blank", "open"}
         /\ t[k].kind = "quote" /\ t[k + 1].kind = "name" /\ t[k + 2].kind = "quote"
         /\ f # "dlrequire" => t[i].kind = f
         /\ f = "dlrequire" => t[i].kind = "dl" /\ t[i + 1].kind = "require"
<1>1. Len(t) \in Nat /\ Size(f) \in {1, 2}
  BY ElementsTyped DEF Size
<1>2. /\ k \in Nat /\ k + 2 <= Len(t) /\ i \in 1 .. Len(t) /\ t[k + 1].kind = "name"
      /\ SpelledAt(t, i, f) /\ i + Size(f) <= k
      /\ \A q \in i + Size(f) .. k - 1 : t[q].kind \in {"blank", "open"}
      /\ t[k].kind = "quote" /\ t[k + 2].kind = "quote"
  BY DEF Call, Quoted
<1>3. CASE f = "dlrequire"
  <2>1. Size(f) = 2 /\ t[i].kind = "dl" /\ t[i + 1].kind = "require"
    BY <1>2, <1>3 DEF SpelledAt, Size
  <2>2. \A q \in i .. i + 2 - 1 : q = i \/ q = i + 1
    BY <1>2
  <2>3. \A q \in i .. i + 2 - 1 : t[q].kind \in {"dl", "require", "dlload"}
    BY <2>1, <2>2
  <2> QED
    BY <1>1, <1>2, <1>3, <2>1, <2>3
<1>4. CASE f # "dlrequire"
  <2>1. Size(f) = 1 /\ t[i].kind = f /\ f \in {"require", "dlload"}
    BY <1>2, <1>4 DEF SpelledAt, Size, Resolving
  <2>2. \A q \in i .. i + 1 - 1 : q = i
    BY <1>2
  <2>3. \A q \in i .. i + 1 - 1 : t[q].kind \in {"dl", "require", "dlload"}
    BY <2>1, <2>2
  <2> QED
    BY <1>1, <1>2, <1>4, <2>1, <2>3
<1> QED
  BY <1>3, <1>4

\* A pattern that matches before the call ends before it, or with the quote that opens its
\* argument; and it does the same in the other text.
LEMMA LeftQuoted ==
  ASSUME NEW t \in Seq(Tokens), NEW s \in Seq(Tokens), NEW i, NEW f \in Resolving, NEW k, NEW l,
         Alike(t, s, i, f, k, l), NEW g \in Resolving, g = "dlrequire" => f = "dlrequire",
         NEW j \in 1 .. i - 1, NEW o \in Nat, NEW c \in 1 .. Len(t), Quoted(t, j, g, o, c)
  PROVE  /\ o < i /\ j < o
         /\ (c < i /\ Quoted(s, j, g, o, c)) \/ (c = k /\ Quoted(s, j, g, o, l))
<1> DEFINE z == Size(f)
           y == Size(g)
           Word == {"dl", "require", "dlload"}
<1>1. /\ i \in 1 .. Len(t) /\ k \in Nat /\ Len(t) \in Nat /\ z \in {1, 2}
      /\ i + z <= k /\ k + 2 <= Len(t)
      /\ \A q \in i .. i + z - 1 : t[q].kind \in Word
      /\ \A q \in i + z .. k - 1 : t[q].kind \in {"blank", "open"}
      /\ t[k].kind = "quote"
      /\ f = "dlrequire" => t[i].kind = "dl"
  BY CallIs DEF Alike
<1>2. /\ i \in 1 .. Len(s) /\ l \in Nat /\ Len(s) \in Nat /\ i + z <= l /\ l + 2 <= Len(s)
      /\ \A q \in i + z .. l - 1 : s[q].kind \in {"blank", "open"} /\ s[l].kind = "quote"
  BY CallIs DEF Alike
<1>3. \A q \in 1 .. i + z - 1 : s[q] = t[q]
  BY DEF Alike
<1>4. y \in {1, 2} /\ (y = 2 => g = "dlrequire")
  BY DEF Size
<1>5. /\ SpelledAt(t, j, g) /\ j + y <= o /\ o + 1 < c
      /\ \A q \in j + y .. o - 1 : t[q].kind \in {"blank", "open"}
      /\ t[o].kind = "quote" /\ t[c].kind = "quote"
      /\ \A q \in o + 1 .. c - 1 : t[q].kind \in Inner
  BY DEF Quoted
<1>6. "quote" \notin Inner /\ {"dl", "require", "dlload", "blank", "open"} \subseteq Inner
  BY DEF Inner, Letters, Keywords
<1> HIDE DEF z, y
<1>7. i \in i .. i + z - 1 /\ t[i].kind \in Word
  BY <1>1
<1>8. o < i
  <2> SUFFICES ASSUME o >= i
               PROVE  FALSE
    BY <1>1
  <2>1. CASE o = i
    BY <1>5, <1>7, <2>1
  <2>2. CASE o # i /\ j + y <= i
    <3>1. i \in j + y .. o - 1
      BY <1>1, <1>4, <2>2
    <3> QED
      BY <1>5, <1>7, <3>1
  <2>3. CASE j + y > i
    <3>1. y = 2 /\ j + 1 = i
      BY <1>1, <1>4, <2>3
    <3>2. t[i].kind = "require"
      BY <1>4, <1>5, <3>1 DEF SpelledAt
    <3> QED
      BY <1>1, <1>4, <3>1, <3>2
  <2> QED
    BY <1>1, <1>4, <2>1, <2>2, <2>3
<1>9. j < o
  BY <1>4, <1>5
<1>10. /\ SpelledAt(s, j, g) /\ s[o].kind = "quote"
       /\ \A q \in j + y .. o - 1 : s[q].kind \in {"blank", "open"}
  <2>0. \A q \in 1 .. o : q \in 1 .. i + z - 1
    BY <1>1, <1>8
  <2>1. \A q \in 1 .. o : s[q] = t[q]
    BY <1>3, <2>0
  <2>2. o \in 1 .. o /\ j \in 1 .. o /\ \A q \in j + y .. o - 1 : q \in 1 .. o
    BY <1>4, <1>5, <1>9
  <2>3. SpelledAt(s, j, g)
    <3>1. CASE g = "dlrequire"
      <4>1. y = 2 /\ j + 1 \in 1 .. o /\ j < Len(s)
        BY <1>2, <1>5, <1>8, <3>1 DEF y, Size
      <4> QED
        BY <1>5, <2>1, <2>2, <3>1, <4>1 DEF SpelledAt
    <3>2. CASE g # "dlrequire"
      BY <1>5, <2>1, <2>2, <3>2 DEF SpelledAt
    <3> QED
      BY <3>1, <3>2
  <2> QED
    BY <1>5, <2>1, <2>2, <2>3
<1>11. CASE c < i
  <2>1. \A q \in 1 .. c : s[q] = t[q]
    BY <1>1, <1>3, <1>11
  <2>2. c \in 1 .. c /\ \A q \in o + 1 .. c - 1 : q \in 1 .. c
    BY <1>5
  <2>3. Quoted(s, j, g, o, c)
    BY <1>5, <1>10, <2>1, <2>2 DEF Quoted, y
  <2> QED
    BY <1>8, <1>9, <1>11, <2>3
<1>12. CASE c >= i
  <2>1. c = k
    <3>1. ~(c > k)
      <4> SUFFICES ASSUME c > k
                   PROVE  FALSE
        OBVIOUS
      <4>1. k \in o + 1 .. c - 1
        BY <1>1, <1>8
      <4> QED
        BY <1>1, <1>5, <1>6, <4>1
    <3>2. ~(c < k)
      <4> SUFFICES ASSUME c < k
                   PROVE  FALSE
        OBVIOUS
      <4>1. c \in i .. i + z - 1 \/ c \in i + z .. k - 1
        BY <1>1, <1>12
      <4> QED
        BY <1>1, <1>5, <4>1
    <3> QED
      BY <1>1, <3>1, <3>2
  <2>2. ASSUME NEW q \in o + 1 .. l - 1
        PROVE  s[q].kind \in Inner
    <3>1. CASE q < i
      <4>1. q \in o + 1 .. c - 1 /\ q \in 1 .. i + z - 1
        BY <1>1, <1>12, <3>1
      <4> QED
        BY <1>3, <1>5, <4>1
    <3>2. CASE q >= i /\ q < i + z
      <4>1. q \in i .. i + z - 1 /\ q \in 1 .. i + z - 1
        BY <1>1, <3>2
      <4> QED
        BY <1>1, <1>3, <1>6, <4>1
    <3>3. CASE q >= i + z
      <4>1. q \in i + z .. l - 1
        BY <1>1, <1>2, <3>3
      <4> QED
        BY <1>2, <1>6, <4>1
    <3> QED
      BY <1>1, <1>2, <3>1, <3>2, <3>3
  <2>3. o + 1 < l /\ s[l].kind = "quote"
    <3>1. o + 1 < l
      BY <1>1, <1>2, <1>8
    <3>2. s[l].kind = "quote"
      BY CallIs DEF Alike
    <3> QED
      BY <3>1, <3>2
  <2>4. Quoted(s, j, g, o, l)
    BY <1>5, <1>10, <2>2, <2>3 DEF Quoted, y
  <2> QED
    BY <1>8, <1>9, <2>1, <2>4
<1> QED
  BY <1>1, <1>11, <1>12

LEMMA PieceSame ==
  ASSUME NEW t \in Seq(Tokens), NEW s \in Seq(Tokens), NEW i \in 1 .. Len(t), NEW k \in i .. Len(t),
         NEW d \in Int, i + d \in 1 .. Len(s), k + d \in i + d .. Len(s),
         \A j \in i .. k : s[j + d] = t[j]
  PROVE  SubSeq(s, i + d, k + d) = SubSeq(t, i, k)
<1> DEFINE a == SubSeq(t, i, k)
           m == i + d
           n == k + d
           b == SubSeq(s, m, n)
<1>1. Len(t) \in Nat /\ Len(s) \in Nat
  BY ElementsTyped
<1>2. a \in Seq(Tokens) /\ Len(a) = (k + 1) - i /\ \A j \in 1 .. (k + 1) - i : a[j] = t[i + j - 1]
  BY PieceElements
<1>3. b \in Seq(Tokens) /\ Len(b) = (n + 1) - m /\ \A j \in 1 .. (n + 1) - m : b[j] = s[m + j - 1]
  <2>1. m \in 1 .. Len(s) /\ n \in m .. Len(s)
    OBVIOUS
  <2> HIDE DEF m, n
  <2> QED
    BY <2>1, PieceElements
<1>4. (n + 1) - m = (k + 1) - i
  BY <1>1
<1>5. ASSUME NEW j \in 1 .. (k + 1) - i
      PROVE  a[j] = b[j]
  <2>1. i + j - 1 \in i .. k /\ m + j - 1 = (i + j - 1) + d
    BY <1>1
  <2>2. s[m + j - 1] = t[i + j - 1]
    BY <2>1
  <2> QED
    BY <1>2, <1>3, <1>4, <2>2
<1> HIDE DEF a, b, m, n
<1>6. a = b
  BY <1>2, <1>3, <1>4, <1>5, SeqEqual
<1> QED
  BY <1>6 DEF a, b, m, n

\* A match that ends with the quote of a call: it asks for no name.
LEMMA OverName ==
  ASSUME NEW t \in Seq(Tokens), NEW i, NEW f \in Resolving, NEW k, Call(t, i, f, k),
         NEW o \in Nat, o < i, o > 0
  PROVE  Behind(t, k) = k + 1 /\ NameIn(SubSeq(t, o + 1, k - 1)) = NoName
<1>1. /\ i \in 1 .. Len(t) /\ k \in Nat /\ Len(t) \in Nat /\ i + 1 <= k /\ k + 2 <= Len(t)
      /\ t[i].kind \in {"dl", "require", "dlload"} /\ t[k + 1].kind = "name"
  <2>1. /\ i \in 1 .. Len(t) /\ k \in Nat /\ Len(t) \in Nat /\ Size(f) \in {1, 2}
        /\ i + Size(f) <= k /\ k + 2 <= Len(t)
        /\ \A q \in i .. i + Size(f) - 1 : t[q].kind \in {"dl", "require", "dlload"}
        /\ t[k + 1].kind = "name"
    BY CallIs
  <2>2. i \in i .. i + Size(f) - 1
    BY <2>1
  <2> QED
    BY <2>1, <2>2
<1>2. Behind(t, k) = k + 1
  <2> DEFINE e == After(t, k + 1, {"blank"})
  <2>1. Run(t, k + 1, k + 1, {"blank"}) /\ k + 1 \in 1 .. Len(t) + 1
    BY <1>1 DEF Run
  <2>2. e = k + 1
    BY <2>1, AfterIs
  <2> HIDE DEF e
  <2>3. t[e].kind # "close"
    BY <1>1, <2>2
  <2> QED
    BY <2>2, <2>3 DEF Behind, e
<1>3. NameIn(SubSeq(t, o + 1, k - 1)) = NoName
  <2> DEFINE a == o + 1
             b == k - 1
             piece == SubSeq(t, a, b)
  <2>1. a \in 1 .. Len(t) /\ b \in a .. Len(t) /\ a <= i /\ i <= b
    BY <1>1
  <2>2. Len(piece) = (b + 1) - a /\ \A j \in 1 .. (b + 1) - a : piece[j] = t[a + j - 1]
    <3> HIDE DEF a, b
    <3> QED
      BY <2>1, PieceElements
  <2> HIDE DEF piece, a, b
  <2>3. Len(piece) = 1 => piece[1].kind # "name"
    <3> SUFFICES ASSUME Len(piece) = 1
                 PROVE  piece[1].kind # "name"
      OBVIOUS
    <3>2. (b + 1) - a = 1
      BY <2>2
    <3>0. a \in Int /\ b \in Int /\ i \in Int
      BY <1>1, <2>1
    <3>1. a = i /\ 1 \in 1 .. (b + 1) - a /\ a + 1 - 1 = i
      BY <2>1, <3>0, <3>2
    <3> QED
      BY <1>1, <2>2, <3>1
  <2> QED
    BY <2>3 DEF NameIn, piece, a, b
<1> QED
  BY <1>2, <1>3

\* What a pattern finds before the call, in one of the texts and in the other.
LeftPair(x, y, i, k, l) ==
  \/ x.past <= i /\ y = x
  \/ x.past = k + 1 /\ y.past = l + 1 /\ NameIn(x.group) = NoName /\ NameIn(y.group) = NoName

LEMMA LeftFound ==
  ASSUME NEW t \in Seq(Tokens), NEW s \in Seq(Tokens), NEW i, NEW f \in Resolving, NEW k, NEW l,
         Alike(t, s, i, f, k, l), NEW g \in Resolving, g = "dlrequire" => f = "dlrequire",
         NEW j \in 1 .. i - 1, match_at(t, j, g) # {}
  PROVE  match_at(s, j, g) # {} /\ LeftPair(TheMatch(t, j, g), TheMatch(s, j, g), i, k, l)
<1> DEFINE z == Size(f)
<1>1. /\ i \in 1 .. Len(t) /\ k \in Nat /\ Len(t) \in Nat /\ z \in {1, 2} /\ i + z <= k /\ k + 2 <= Len(t)
      /\ t[i].kind \in {"dl", "require", "dlload"}
  <2>1. /\ i \in 1 .. Len(t) /\ k \in Nat /\ Len(t) \in Nat /\ z \in {1, 2} /\ i + z <= k /\ k + 2 <= Len(t)
        /\ \A q \in i .. i + z - 1 : t[q].kind \in {"dl", "require", "dlload"}
    BY CallIs DEF Alike
  <2>2. i \in i .. i + z - 1
    BY <2>1
  <2> QED
    BY <2>1, <2>2
<1>2. i \in 1 .. Len(s) /\ l \in Nat /\ Len(s) \in Nat /\ i + z <= l /\ l + 2 <= Len(s)
  BY CallIs DEF Alike
<1>3. \A q \in 1 .. i + z - 1 : s[q] = t[q]
  BY DEF Alike
<1> HIDE DEF z
<1>4. j \in 1 .. Len(t) /\ j \in 1 .. Len(s)
  BY <1>1, <1>2
<1>5. PICK o \in Nat, c \in 1 .. Len(t) : Quoted(t, j, g, o, c)
  BY <1>4, SpecifierIs
<1>6. /\ o < i /\ j < o
      /\ (c < i /\ Quoted(s, j, g, o, c)) \/ (c = k /\ Quoted(s, j, g, o, l))
  BY <1>5, LeftQuoted
<1>7. match_at(t, j, g) = {MatchOf(t, j, o, c)} /\ TheMatch(t, j, g) = MatchOf(t, j, o, c)
  <2>1. match_at(t, j, g) = {MatchOf(t, j, o, c)}
    BY <1>4, <1>5, SpecifierFound
  <2> QED
    BY <2>1 DEF TheMatch
<1>8. \A e \in 1 .. Len(s) : Quoted(s, j, g, o, e) =>
        match_at(s, j, g) # {} /\ TheMatch(s, j, g) = MatchOf(s, j, o, e)
  <2> SUFFICES ASSUME NEW e \in 1 .. Len(s), Quoted(s, j, g, o, e)
               PROVE  match_at(s, j, g) # {} /\ TheMatch(s, j, g) = MatchOf(s, j, o, e)
    OBVIOUS
  <2>1. match_at(s, j, g) = {MatchOf(s, j, o, e)}
    BY <1>4, SpecifierFound
  <2> QED
    BY <2>1 DEF TheMatch
<1>9. CASE c < i /\ Quoted(s, j, g, o, c)
  <2> DEFINE e == After(t, c + 1, {"blank"})
  <2>1. o + 1 < c
    BY <1>5 DEF Quoted
  <2>2. Run(t, c + 1, e, {"blank"}) /\ c + 1 \in 1 .. Len(t) + 1 /\ c + 1 \in 1 .. Len(s) + 1
    <3>1. c + 1 \in 1 .. Len(t) + 1 /\ c + 1 \in 1 .. Len(s) + 1
      BY <1>1, <1>2, <1>9
    <3> QED
      BY <3>1, AfterIs
  <2> HIDE DEF e
  <2>3. e \in c + 1 .. i
    <3>1. e \in c + 1 .. Len(t) + 1 /\ \A q \in c + 1 .. e - 1 : t[q].kind = "blank"
      BY <2>2 DEF Run
    <3>2. ~(i < e)
      <4> SUFFICES ASSUME i < e
                   PROVE  FALSE
        OBVIOUS
      <4>1. i \in c + 1 .. e - 1
        BY <1>1, <1>9, <3>1
      <4> QED
        BY <1>1, <3>1, <4>1
    <3> QED
      BY <1>1, <3>1, <3>2
  <2>4. \A q \in 1 .. i : s[q] = t[q]
    <3>1. \A q \in 1 .. i : q \in 1 .. i + z - 1
      BY <1>1
    <3> QED
      BY <1>3, <3>1
  <2>5. Run(s, c + 1, e, {"blank"})
    <3>1. e \in c + 1 .. Len(s) + 1 /\ e # Len(t) + 1 /\ e # Len(s) + 1
      BY <1>1, <1>2, <2>3
    <3>2. e \in 1 .. i /\ \A q \in c + 1 .. e - 1 : q \in 1 .. i
      BY <1>1, <2>3
    <3> QED
      BY <2>2, <2>4, <3>1, <3>2 DEF Run
  <2>6. After(s, c + 1, {"blank"}) = e
    BY <2>2, <2>5, AfterIs
  <2>7. Behind(s, c) = Behind(t, c) /\ Behind(t, c) <= i
    <3>0. e \in 1 .. i /\ e <= Len(t) /\ e <= Len(s)
      <4>1. /\ i \in Nat /\ i <= Len(t) /\ i <= Len(s) /\ Len(t) \in Nat /\ Len(s) \in Nat
            /\ c \in Nat
        BY <1>1, <1>2
      <4> QED
        BY <2>3, <4>1
    <3>1. s[e] = t[e] /\ e <= Len(t) /\ e <= Len(s)
      BY <2>4, <3>0
    <3>2. t[e].kind = "close" => e < i
      BY <1>1, <2>3
    <3> QED
      BY <1>1, <2>3, <2>6, <3>1, <3>2 DEF Behind, e
  <2>8. SubSeq(s, o + 1, c - 1) = SubSeq(t, o + 1, c - 1)
    <3> DEFINE a == o + 1
               b == c - 1
    <3>1. /\ a \in 1 .. Len(t) /\ b \in a .. Len(t) /\ a + 0 \in 1 .. Len(s) /\ b + 0 \in a + 0 .. Len(s)
          /\ a + 0 = a /\ b + 0 = b /\ 0 \in Int
      BY <1>1, <1>2, <1>9, <2>1
    <3>2. \A q \in a .. b : s[q + 0] = t[q]
      <4>1. \A q \in a .. b : q + 0 = q /\ q \in 1 .. i
        BY <1>1, <1>9
      <4> QED
        BY <2>4, <4>1
    <3> HIDE DEF a, b
    <3>3. SubSeq(s, a + 0, b + 0) = SubSeq(t, a, b)
      BY <3>1, <3>2, PieceSame
    <3> QED
      BY <3>1, <3>3 DEF a, b
  <2>9. MatchOf(s, j, o, c) = MatchOf(t, j, o, c) /\ MatchOf(t, j, o, c).past <= i
    BY <2>7, <2>8 DEF MatchOf
  <2>10. c \in 1 .. Len(s)
    BY <1>1, <1>2, <1>9
  <2> QED
    BY <1>7, <1>8, <1>9, <2>9, <2>10 DEF LeftPair
<1>10. CASE c = k /\ Quoted(s, j, g, o, l)
  <2>1. o > 0 /\ l \in 1 .. Len(s)
    BY <1>1, <1>2, <1>6
  <2>2. Behind(t, k) = k + 1 /\ NameIn(SubSeq(t, o + 1, k - 1)) = NoName
    BY <1>6, <2>1, OverName DEF Alike
  <2>3. Behind(s, l) = l + 1 /\ NameIn(SubSeq(s, o + 1, l - 1)) = NoName
    BY <1>6, <2>1, OverName DEF Alike
  <2>4. /\ MatchOf(t, j, o, c).past = k + 1 /\ NameIn(MatchOf(t, j, o, c).group) = NoName
        /\ MatchOf(s, j, o, l).past = l + 1 /\ NameIn(MatchOf(s, j, o, l).group) = NoName
    BY <1>10, <2>2, <2>3 DEF MatchOf
  <2> QED
    BY <1>7, <1>8, <1>10, <2>1, <2>4 DEF LeftPair
<1> QED
  BY <1>6, <1>9, <1>10

LEMMA LeftSame ==
  ASSUME NEW t \in Seq(Tokens), NEW s \in Seq(Tokens), NEW i, NEW f \in Resolving, NEW k, NEW l,
         Alike(t, s, i, f, k, l), NEW g \in Resolving, g = "dlrequire" => f = "dlrequire",
         NEW j \in 1 .. i - 1
  PROVE  match_at(t, j, g) # {} <=> match_at(s, j, g) # {}
BY LeftFound, AlikeBack

\* Members are what they were, up to the end of the call's word.
LEMMA LeftMembers ==
  ASSUME NEW t, NEW s, NEW n \in Nat, \A j \in 1 .. n : s[j] = t[j], NEW i \in 1 .. n + 1
  PROVE  Member(s, i) <=> Member(t, i)
<1>1. \A j \in 1 .. i - 1 : s[j] = t[j]
  OBVIOUS
<1>2. \A k \in 1 .. i - 1 : \A j \in k + 1 .. i - 1 : j \in 1 .. i - 1
  OBVIOUS
<1>3. \A k \in 1 .. i - 1 :
        (s[k] = Dot /\ \A j \in k + 1 .. i - 1 : s[j] = Blank) <=> (t[k] = Dot /\ \A j \in k + 1 .. i - 1 : t[j] = Blank)
  BY <1>1, <1>2
<1> QED
  BY <1>3 DEF Member

\* Where one text is the other, d places on.
Shifted(t, s, p, d) ==
  /\ p \in 1 .. Len(t) + 1 /\ d \in Int /\ p + d \in 1 .. Len(s) + 1 /\ Len(s) = Len(t) + d
  /\ \A j \in p .. Len(t) : s[j + d] = t[j]

LEMMA ShiftedBack ==
  ASSUME NEW t \in Seq(Tokens), NEW s \in Seq(Tokens), NEW p, NEW d, Shifted(t, s, p, d)
  PROVE  Shifted(s, t, p + d, -d)
<1>1. /\ Len(t) \in Nat /\ Len(s) \in Nat /\ p \in 1 .. Len(t) + 1 /\ d \in Int /\ p + d \in 1 .. Len(s) + 1
      /\ Len(s) = Len(t) + d
  BY LenProperties DEF Shifted
<1>2. -d \in Int /\ p + d + (-d) = p /\ Len(t) = Len(s) + (-d)
  BY <1>1
<1>3. ASSUME NEW j \in p + d .. Len(s)
      PROVE  t[j + (-d)] = s[j]
  <2>1. j + (-d) \in p .. Len(t) /\ (j + (-d)) + d = j
    BY <1>1
  <2>2. s[(j + (-d)) + d] = t[j + (-d)]
    BY <2>1 DEF Shifted
  <2> QED
    BY <2>1, <2>2
<1> QED
  BY <1>1, <1>2, <1>3 DEF Shifted

LEMMA ShiftedAfter ==
  ASSUME NEW t \in Seq(Tokens), NEW s \in Seq(Tokens), NEW p, NEW d, Shifted(t, s, p, d),
         NEW j \in p .. Len(t) + 1, NEW kinds
  PROVE  After(s, j + d, kinds) = After(t, j, kinds) + d /\ After(t, j, kinds) \in j .. Len(t) + 1
<1> DEFINE e == After(t, j, kinds)
<1>1. /\ Len(t) \in Nat /\ Len(s) \in Nat /\ p \in 1 .. Len(t) + 1 /\ d \in Int /\ p + d \in 1 .. Len(s) + 1
      /\ Len(s) = Len(t) + d
  BY LenProperties DEF Shifted
<1>2. j \in 1 .. Len(t) + 1 /\ j + d \in 1 .. Len(s) + 1
  BY <1>1
<1>3. Run(t, j, e, kinds)
  BY <1>2, AfterIs
<1> HIDE DEF e
<1>4. e \in j .. Len(t) + 1 /\ (e = Len(t) + 1 \/ t[e].kind \notin kinds) /\ \A q \in j .. e - 1 : t[q].kind \in kinds
  BY <1>3 DEF Run
<1>5. e + d \in j + d .. Len(s) + 1
  BY <1>1, <1>4
<1>6. e + d = Len(s) + 1 \/ s[e + d].kind \notin kinds
  <2>1. CASE e = Len(t) + 1
    BY <1>1, <2>1
  <2>2. CASE e # Len(t) + 1
    <3>1. e \in p .. Len(t)
      BY <1>1, <1>4, <2>2
    <3> QED
      BY <1>4, <2>2, <3>1 DEF Shifted
  <2> QED
    BY <2>1, <2>2
<1>7. ASSUME NEW q \in j + d .. (e + d) - 1
      PROVE  s[q].kind \in kinds
  <2>1. q - d \in j .. e - 1 /\ q - d \in p .. Len(t) /\ (q - d) + d = q
    BY <1>1, <1>4
  <2>2. s[(q - d) + d] = t[q - d]
    BY <2>1 DEF Shifted
  <2> QED
    BY <1>4, <2>1, <2>2
<1>8. Run(s, j + d, e + d, kinds)
  BY <1>5, <1>6, <1>7 DEF Run
<1>9. After(s, j + d, kinds) = e + d
  BY <1>2, <1>8, AfterIs
<1> QED
  BY <1>4, <1>9 DEF e
-----------------------------------------------------------------------------
\* what stands right of it,
LEMMA ShiftedFound ==
  ASSUME NEW t \in Seq(Tokens), NEW s \in Seq(Tokens), NEW p, NEW d, Shifted(t, s, p, d),
         NEW g \in Resolving, NEW j \in p .. Len(t), match_at(t, j, g) # {}
  PROVE  /\ match_at(s, j + d, g) # {}
         /\ TheMatch(s, j + d, g).group = TheMatch(t, j, g).group
         /\ TheMatch(s, j + d, g).past = TheMatch(t, j, g).past + d
<1> DEFINE y == Size(g)
<1>1. /\ Len(t) \in Nat /\ Len(s) \in Nat /\ p \in 1 .. Len(t) + 1 /\ d \in Int /\ p + d \in 1 .. Len(s) + 1
      /\ Len(s) = Len(t) + d /\ y \in {1, 2}
  BY LenProperties DEF Shifted, Size
<1>2. \A q \in p .. Len(t) : s[q + d] = t[q]
  BY DEF Shifted
<1>3. j \in 1 .. Len(t) /\ j + d \in 1 .. Len(s)
  BY <1>1
<1>4. PICK o \in Nat, c \in 1 .. Len(t) : Quoted(t, j, g, o, c)
  BY <1>3, SpecifierIs
<1>5. /\ SpelledAt(t, j, g) /\ j + y <= o /\ o + 1 < c
      /\ \A q \in j + y .. o - 1 : t[q].kind \in {"blank", "open"}
      /\ t[o].kind = "quote" /\ t[c].kind = "quote"
      /\ \A q \in o + 1 .. c - 1 : t[q].kind \in Inner
  BY <1>4 DEF Quoted
<1> HIDE DEF y
<1>6. o \in p .. Len(t) /\ c \in p .. Len(t) /\ j + 1 \in p .. Len(t) /\ o + d \in Nat /\ c + d \in 1 .. Len(s)
  <2>1. o \in Nat /\ c \in 1 .. Len(t) /\ j + y <= o /\ o + 1 < c
    BY <1>5
  <2>2. o \in p .. Len(t) /\ c \in p .. Len(t) /\ j + 1 \in p .. Len(t)
    BY <1>1, <2>1
  <2> QED
    BY <1>1, <2>2
<1>7. Quoted(s, j + d, g, o + d, c + d)
  <2>1. SpelledAt(s, j + d, g)
    <3>1. s[j + d] = t[j] /\ s[(j + 1) + d] = t[j + 1] /\ (j + 1) + d = (j + d) + 1 /\ j + d < Len(s)
      BY <1>1, <1>2, <1>3, <1>5, <1>6
    <3> QED
      BY <1>5, <3>1 DEF SpelledAt
  <2>2. (j + d) + y <= o + d /\ (o + d) + 1 < c + d
    <3>1. j \in Int /\ o \in Int /\ c \in Int /\ d \in Int /\ y \in Int
      BY <1>1, <1>3
    <3>2. j + y <= o /\ o + 1 < c
      BY <1>5
    <3> QED
      BY <3>1, <3>2
  <2>3. ASSUME NEW q \in (j + d) + y .. (o + d) - 1
        PROVE  s[q].kind \in {"blank", "open"}
    <3>1. q - d \in j + y .. o - 1 /\ q - d \in p .. Len(t) /\ (q - d) + d = q
      BY <1>1, <1>3, <1>6
    <3>2. s[(q - d) + d] = t[q - d]
      BY <1>2, <3>1
    <3> QED
      BY <1>5, <3>1, <3>2
  <2>4. ASSUME NEW q \in (o + d) + 1 .. (c + d) - 1
        PROVE  s[q].kind \in Inner
    <3>1. q - d \in o + 1 .. c - 1 /\ q - d \in p .. Len(t) /\ (q - d) + d = q
      BY <1>1, <1>6
    <3>2. s[(q - d) + d] = t[q - d]
      BY <1>2, <3>1
    <3> QED
      BY <1>5, <3>1, <3>2
  <2>5. s[o + d] = t[o] /\ s[c + d] = t[c]
    BY <1>2, <1>6
  <2> QED
    BY <1>5, <2>1, <2>2, <2>3, <2>4, <2>5 DEF Quoted, y
<1>8. Behind(s, c + d) = Behind(t, c) + d
  <2> DEFINE e == After(t, c + 1, {"blank"})
  <2>1. c + 1 \in p .. Len(t) + 1 /\ (c + 1) + d = (c + d) + 1
    BY <1>1, <1>6
  <2>2. After(s, (c + 1) + d, {"blank"}) = e + d /\ e \in c + 1 .. Len(t) + 1
    BY <2>1, ShiftedAfter
  <2> HIDE DEF e
  <2>3. After(s, (c + d) + 1, {"blank"}) = e + d
    BY <2>1, <2>2
  <2>4. (e <= Len(t)) <=> (e + d <= Len(s))
    BY <1>1, <2>2
  <2>5. e <= Len(t) => s[e + d] = t[e]
    BY <1>1, <1>2, <1>6, <2>2
  <2>6. (e + d) + 1 = (e + 1) + d
    BY <1>1, <2>2
  <2> QED
    BY <2>3, <2>4, <2>5, <2>6 DEF Behind, e
<1>9. SubSeq(s, (o + d) + 1, (c + d) - 1) = SubSeq(t, o + 1, c - 1)
  <2> DEFINE a == o + 1
             b == c - 1
  <2>1. /\ a \in 1 .. Len(t) /\ b \in a .. Len(t) /\ a + d \in 1 .. Len(s) /\ b + d \in a + d .. Len(s)
        /\ a + d = (o + d) + 1 /\ b + d = (c + d) - 1 /\ d \in Int
    BY <1>1, <1>5, <1>6
  <2>2. \A q \in a .. b : s[q + d] = t[q]
    <3>1. \A q \in a .. b : q \in p .. Len(t)
      BY <1>1, <1>6
    <3> QED
      BY <1>2, <3>1
  <2> HIDE DEF a, b
  <2>3. SubSeq(s, a + d, b + d) = SubSeq(t, a, b)
    BY <2>1, <2>2, PieceSame
  <2> QED
    BY <2>1, <2>3 DEF a, b
<1>10. TheMatch(t, j, g) = MatchOf(t, j, o, c)
  <2>1. match_at(t, j, g) = {MatchOf(t, j, o, c)}
    BY <1>3, <1>4, SpecifierFound
  <2> QED
    BY <2>1 DEF TheMatch
<1>11. match_at(s, j + d, g) # {} /\ TheMatch(s, j + d, g) = MatchOf(s, j + d, o + d, c + d)
  <2>1. match_at(s, j + d, g) = {MatchOf(s, j + d, o + d, c + d)}
    BY <1>3, <1>6, <1>7, SpecifierFound
  <2> QED
    BY <2>1 DEF TheMatch
<1>12. /\ MatchOf(t, j, o, c).group = SubSeq(t, o + 1, c - 1) /\ MatchOf(t, j, o, c).past = Behind(t, c)
       /\ MatchOf(s, j + d, o + d, c + d).group = SubSeq(s, (o + d) + 1, (c + d) - 1)
       /\ MatchOf(s, j + d, o + d, c + d).past = Behind(s, c + d)
  BY DEF MatchOf
<1> QED
  BY <1>8, <1>9, <1>10, <1>11, <1>12, Zenon

LEMMA ShiftedSame ==
  ASSUME NEW t \in Seq(Tokens), NEW s \in Seq(Tokens), NEW p, NEW d, Shifted(t, s, p, d),
         NEW g \in Resolving, NEW j \in p .. Len(t)
  PROVE  match_at(t, j, g) # {} <=> match_at(s, j + d, g) # {}
<1>1. /\ Len(t) \in Nat /\ Len(s) \in Nat /\ p \in 1 .. Len(t) + 1 /\ d \in Int /\ p + d \in 1 .. Len(s) + 1
      /\ Len(s) = Len(t) + d
  BY LenProperties DEF Shifted
<1>2. Shifted(s, t, p + d, -d)
  BY ShiftedBack
<1>3. j + d \in p + d .. Len(s) /\ (j + d) + (-d) = j
  BY <1>1
<1>4. match_at(s, j + d, g) # {} => match_at(t, (j + d) + (-d), g) # {}
  BY <1>2, <1>3, ShiftedFound
<1> QED
  BY <1>3, <1>4, ShiftedFound

\* What stands before p makes nothing behind it a member.
Fenced(t, p) ==
  \E b \in 1 .. p - 1 : t[b] \notin {Dot, Blank} /\ \A q \in b + 1 .. p - 1 : t[q] # Dot

LEMMA MembersShift ==
  ASSUME NEW t \in Seq(Tokens), NEW s \in Seq(Tokens), NEW p, NEW d, Shifted(t, s, p, d), Fenced(t, p),
         NEW j \in p .. Len(t) + 1, Member(t, j)
  PROVE  Member(s, j + d)
<1>1. /\ Len(t) \in Nat /\ Len(s) \in Nat /\ p \in 1 .. Len(t) + 1 /\ d \in Int /\ p + d \in 1 .. Len(s) + 1
      /\ Len(s) = Len(t) + d
  BY LenProperties DEF Shifted
<1>2. PICK b \in 1 .. p - 1 : t[b] \notin {Dot, Blank} /\ \A q \in b + 1 .. p - 1 : t[q] # Dot
  BY DEF Fenced
<1>3. PICK k \in 1 .. j - 1 : t[k] = Dot /\ \A q \in k + 1 .. j - 1 : t[q] = Blank
  BY DEF Member
<1>4. k >= p
  <2> SUFFICES ASSUME k < p
               PROVE  FALSE
    BY <1>1
  <2>1. CASE k < b
    <3>1. b \in k + 1 .. j - 1
      BY <1>1, <2>1
    <3> QED
      BY <1>2, <1>3, <3>1
  <2>2. CASE k = b
    BY <1>2, <1>3, <2>2
  <2>3. CASE k > b
    <3>1. k \in b + 1 .. p - 1
      BY <1>1, <2>3
    <3> QED
      BY <1>2, <1>3, <3>1
  <2> QED
    BY <1>1, <2>1, <2>2, <2>3
<1>5. k + d \in 1 .. (j + d) - 1 /\ k \in p .. Len(t)
  BY <1>1, <1>4
<1>6. s[k + d] = Dot
  BY <1>3, <1>5 DEF Shifted
<1>7. ASSUME NEW q \in (k + d) + 1 .. (j + d) - 1
      PROVE  s[q] = Blank
  <2>1. q - d \in k + 1 .. j - 1 /\ q - d \in p .. Len(t) /\ (q - d) + d = q
    BY <1>1, <1>4
  <2>2. s[(q - d) + d] = t[q - d]
    BY <2>1 DEF Shifted
  <2> QED
    BY <1>3, <2>1, <2>2
<1> QED
  BY <1>5, <1>6, <1>7 DEF Member

LEMMA MembersSame ==
  ASSUME NEW t \in Seq(Tokens), NEW s \in Seq(Tokens), NEW p, NEW d, Shifted(t, s, p, d),
         Fenced(t, p), Fenced(s, p + d), NEW j \in p .. Len(t) + 1
  PROVE  Member(t, j) <=> Member(s, j + d)
<1>1. /\ Len(t) \in Nat /\ Len(s) \in Nat /\ p \in 1 .. Len(t) + 1 /\ d \in Int /\ p + d \in 1 .. Len(s) + 1
      /\ Len(s) = Len(t) + d
  BY LenProperties DEF Shifted
<1>2. Shifted(s, t, p + d, -d)
  BY ShiftedBack
<1>3. j + d \in p + d .. Len(s) + 1 /\ (j + d) + (-d) = j
  BY <1>1
<1>4. Member(s, j + d) => Member(t, (j + d) + (-d))
  BY <1>2, <1>3, MembersShift
<1> QED
  BY <1>3, <1>4, MembersShift
-----------------------------------------------------------------------------
\* The matches in one text and in the other: those that end before i are the same, the one
\* at the place `at` asks for n and for w, the others ask for the same name.
Partner(x, y, i, at, n, w) ==
  /\ x.past <= i => y = x
  /\ x.first = at => NameIn(x.group) = n /\ NameIn(y.group) = w
  /\ x.first # at => NameIn(y.group) = NameIn(x.group)
Paired(A, B, i, at, n, w) ==
  Len(B) = Len(A) /\ \A l \in 1 .. Len(A) : Partner(A[l], B[l], i, at, n, w)

LEMMA PairedStep ==
  ASSUME NEW t \in Seq(Tokens), NEW s \in Seq(Tokens), NEW g \in Resolving,
         NEW i, NEW at, NEW n, NEW w, NEW j \in 1 .. Len(t), NEW k \in 1 .. Len(s),
         Member(t, j) <=> Member(s, k), match_at(t, j, g) # {} <=> match_at(s, k, g) # {},
         match_at(t, j, g) # {} => Partner(TheMatch(t, j, g), TheMatch(s, k, g), i, at, n, w),
         Paired(Scan(t, g, Free(t))[BehindHere(t, j, g)], Scan(s, g, Free(s))[BehindHere(s, k, g)], i, at, n, w)
  PROVE  Paired(Scan(t, g, Free(t))[j], Scan(s, g, Free(s))[k], i, at, n, w)
<1> DEFINE A == Scan(t, g, Free(t))[BehindHere(t, j, g)]
           B == Scan(s, g, Free(s))[BehindHere(s, k, g)]
           x == TheMatch(t, j, g)
           y == TheMatch(s, k, g)
           P(C, D) == Paired(C, D, i, at, n, w)
<1>1. g \in PassNames
  BY DEF PassNames
<1>2. /\ Scan(t, g, Free(t))[j] = MatchesHere(t, j, g, Free(t)) \o A
      /\ Scan(s, g, Free(s))[k] = MatchesHere(s, k, g, Free(s)) \o B
  BY <1>1, ScanIs
<1>3. A \in Seq(Hits(t)) /\ B \in Seq(Hits(s))
  <2>1. BehindHere(t, j, g) \in 1 .. Len(t) + 1 /\ BehindHere(s, k, g) \in 1 .. Len(s) + 1
    <3>1. BehindHere(t, j, g) \in j + 1 .. Len(t) + 1 /\ BehindHere(s, k, g) \in k + 1 .. Len(s) + 1
      BY <1>1, BehindHereIs
    <3> QED
      BY <3>1
  <2> QED
    BY <1>1, <2>1, ScanIs
<1>4. P(A, B)
  OBVIOUS
<1> HIDE DEF A, B
<1>5. DOMAIN t = 1 .. Len(t) /\ DOMAIN s = 1 .. Len(s)
  BY LenProperties
<1>6. j \in Free(t) <=> k \in Free(s)
  BY <1>5 DEF Free
<1>7. CASE j \in Free(t) /\ match_at(t, j, g) # {}
  <2>1. MatchesHere(t, j, g, Free(t)) = <<x>> /\ MatchesHere(s, k, g, Free(s)) = <<y>>
    BY <1>6, <1>7 DEF MatchesHere
  <2>2. x \in Hits(t) /\ y \in Hits(s) /\ Partner(x, y, i, at, n, w)
    BY <1>1, <1>7, HitIs
  <2> HIDE DEF x, y
  <2> DEFINE C == <<x>> \o A
             D == <<y>> \o B
  <2>3. Len(C) = Len(A) + 1 /\ Len(A) \in Nat /\ C[1] = x /\ \A l \in 2 .. Len(A) + 1 : C[l] = A[l - 1]
    BY <1>3, <2>2, OneBefore
  <2>4. Len(D) = Len(B) + 1 /\ D[1] = y /\ \A l \in 2 .. Len(B) + 1 : D[l] = B[l - 1]
    BY <1>3, <2>2, OneBefore
  <2> HIDE DEF C, D
  <2>5. Len(B) = Len(A) /\ \A l \in 1 .. Len(A) : Partner(A[l], B[l], i, at, n, w)
    BY <1>4 DEF Paired
  <2>6. ASSUME NEW l \in 1 .. Len(C)
        PROVE  Partner(C[l], D[l], i, at, n, w)
    <3>1. CASE l = 1
      BY <2>2, <2>3, <2>4, <3>1
    <3>2. CASE l # 1
      <4>1. l - 1 \in 1 .. Len(A) /\ C[l] = A[l - 1] /\ D[l] = B[l - 1]
        BY <2>3, <2>4, <2>5, <3>2
      <4> QED
        BY <2>5, <4>1
    <3> QED
      BY <3>1, <3>2
  <2>7. P(C, D)
    BY <2>3, <2>4, <2>5, <2>6 DEF Paired
  <2> QED
    BY <1>2, <2>1, <2>7 DEF C, D
<1>8. CASE ~(j \in Free(t) /\ match_at(t, j, g) # {})
  <2>1. MatchesHere(t, j, g, Free(t)) = <<>> /\ MatchesHere(s, k, g, Free(s)) = <<>>
    BY <1>6, <1>8 DEF MatchesHere
  <2>2. Scan(t, g, Free(t))[j] = A /\ Scan(s, g, Free(s))[k] = B
    BY <1>2, <1>3, <2>1, NoneBefore
  <2> QED
    BY <1>4, <2>2
<1> QED
  BY <1>7, <1>8

\* Where a pattern matches nowhere from a to b.
LEMMA Skips ==
  ASSUME NEW t \in Seq(Tokens), NEW g \in PassNames, NEW scope, NEW b \in 1 .. Len(t) + 1, NEW a \in 1 .. b,
         \A q \in a .. b - 1 : match_at(t, q, g) = {}
  PROVE  Scan(t, g, scope)[a] = Scan(t, g, scope)[b]
<1> DEFINE F == Scan(t, g, scope)
           S == {q \in 1 .. b : q < a \/ F[q] = F[b]}
<1>1. Len(t) \in Nat /\ b \in Nat
  BY ElementsTyped
<1>2. F \in [1 .. Len(t) + 1 -> Seq(Hits(t))]
      /\ \A i \in 1 .. Len(t) : F[i] = MatchesHere(t, i, g, scope) \o F[BehindHere(t, i, g)]
  BY ScanIs
<1> HIDE DEF F
<1>3. ASSUME NEW q \in 1 .. b, q + 1 .. b \subseteq S
      PROVE  q \in S
  <2>1. CASE q < a \/ q = b
    BY <2>1
  <2>2. CASE ~(q < a \/ q = b)
    <3>1. q \in a .. b - 1 /\ q \in 1 .. Len(t) /\ q + 1 \in q + 1 .. b /\ q + 1 \in 1 .. Len(t) + 1
      BY <1>1, <2>2
    <3>2. MatchesHere(t, q, g, scope) = <<>> /\ BehindHere(t, q, g) = q + 1
      BY <3>1 DEF MatchesHere, BehindHere
    <3>3. F[q + 1] \in Seq(Hits(t))
      BY <1>2, <3>1
    <3>4. F[q] = F[q + 1]
      BY <1>2, <3>1, <3>2, <3>3, NoneBefore
    <3>5. q + 1 \in S /\ ~(q + 1 < a)
      BY <1>3, <3>1, <2>2
    <3> QED
      BY <3>4, <3>5
  <2> QED
    BY <2>1, <2>2
<1>4. 1 .. b \subseteq S
  <2> HIDE DEF S
  <2> QED
    BY <1>1, <1>3, Downward
<1>5. a \in S /\ ~(a < a)
  BY <1>1, <1>4
<1> QED
  BY <1>5 DEF F
-----------------------------------------------------------------------------
\* and the call itself.
\* Where the pattern for g finds the call by f.
At(g, f, i) == IF g = f THEN i ELSE IF g = "require" /\ f = "dlrequire" THEN i + 1 ELSE 0
Earlier(g, f) == g = f \/ g = "require" \/ (g = "dlload" /\ f = "dlrequire")

LEMMA NotHere ==
  ASSUME NEW t \in Seq(Tokens), NEW q \in 1 .. Len(t), NEW g \in Resolving,
         t[q].kind # "dl" \/ g # "dlrequire", t[q].kind # g \/ g = "dlrequire"
  PROVE  match_at(t, q, g) = {}
<1> SUFFICES ASSUME match_at(t, q, g) # {}
             PROVE  FALSE
  OBVIOUS
<1>1. SpelledAt(t, q, g)
  BY SpecifierIs DEF Quoted
<1> QED
  BY <1>1 DEF SpelledAt

LEMMA CallFenced ==
  ASSUME NEW t \in Seq(Tokens), NEW i, NEW f \in Resolving, NEW k, Call(t, i, f, k)
  PROVE  /\ Behind(t, k + 2) \in k + 3 .. Len(t) + 1 /\ Fenced(t, Behind(t, k + 2))
         /\ \A q \in k + 1 .. Behind(t, k + 2) - 1 :
              q \in 1 .. Len(t) /\ t[q].kind \in {"name", "quote", "blank", "close"}
<1> DEFINE p == Behind(t, k + 2)
<1> HIDE DEF p
<1>1. k \in Nat /\ Len(t) \in Nat /\ k + 2 <= Len(t) /\ t[k + 1].kind = "name" /\ t[k + 2].kind = "quote"
  <2>1. k \in Nat /\ Len(t) \in Nat /\ k + 2 <= Len(t)
    BY CallIs
  <2>2. Call(t, i, f, k) /\ Quoted(t, i, f, k, k + 2)
    BY DEF Call
  <2>3. t[k + 1].kind = "name" /\ t[k + 2].kind = "quote"
    BY <2>2 DEF Call, Quoted
  <2> QED
    BY <2>1, <2>3
<1>2. k + 2 \in 1 .. Len(t) /\ k + 2 + 1 = k + 3
  BY <1>1
<1>3. p \in k + 3 .. Len(t) + 1 /\ \A q \in k + 3 .. p - 1 : t[q].kind \in {"blank", "close"}
  BY <1>2, BehindIs DEF p
<1>4. ASSUME NEW q \in k + 1 .. p - 1
      PROVE  q \in 1 .. Len(t) /\ t[q].kind \in {"name", "quote", "blank", "close"}
  <2>1. q \in 1 .. Len(t) /\ (q = k + 1 \/ q = k + 2 \/ q \in k + 3 .. p - 1)
    BY <1>1, <1>3
  <2> QED
    BY <1>1, <1>3, <2>1
<1>5. Fenced(t, p)
  <2>1. k + 2 \in 1 .. p - 1
    BY <1>1, <1>3
  <2>2. t[k + 2] \notin {Dot, Blank}
    BY <1>1, FixedTokens DEF Dot, Blank, Token
  <2>3. \A q \in (k + 2) + 1 .. p - 1 : t[q] # Dot
    <3> SUFFICES ASSUME NEW q \in (k + 2) + 1 .. p - 1
                 PROVE  t[q] # Dot
      OBVIOUS
    <3>1. q \in k + 3 .. p - 1
      BY <1>1
    <3> QED
      BY <1>3, <3>1 DEF Dot, Token
  <2> QED
    BY <2>1, <2>2, <2>3 DEF Fenced
<1> QED
  BY <1>3, <1>4, <1>5 DEF p

LEMMA CallFound ==
  ASSUME NEW t \in Seq(Tokens), NEW i, NEW f \in Resolving, NEW k, Call(t, i, f, k),
         NEW g \in Resolving, Earlier(g, f)
  PROVE  LET a == At(g, f, i)
         IN /\ a = 0 => \A q \in i .. k : q \in 1 .. Len(t) /\ match_at(t, q, g) = {}
            /\ a # 0 => /\ a \in i .. i + Size(f) - 1 /\ match_at(t, a, g) = {MatchOf(t, a, k, k + 2)}
                        /\ NameIn(SubSeq(t, k + 1, (k + 2) - 1)) = t[k + 1].name
                        /\ \A q \in i .. a - 1 : match_at(t, q, g) = {}
<1>1. /\ i \in 1 .. Len(t) /\ k \in Nat /\ Len(t) \in Nat /\ Size(f) \in {1, 2}
      /\ i + Size(f) <= k /\ k + 2 <= Len(t)
      /\ \A q \in i + Size(f) .. k - 1 : t[q].kind \in {"blank", "open"}
      /\ t[k].kind = "quote" /\ t[k + 1].kind = "name" /\ t[k + 2].kind = "quote"
      /\ f # "dlrequire" => t[i].kind = f
      /\ f = "dlrequire" => t[i].kind = "dl" /\ t[i + 1].kind = "require"
  BY CallIs
<1>2. Quoted(t, i, f, k, k + 2) /\ SpelledAt(t, i, f)
  BY DEF Call, Quoted
<1>3. k + 2 \in 1 .. Len(t)
  BY <1>1
<1>4. NameIn(SubSeq(t, k + 1, (k + 2) - 1)) = t[k + 1].name
  <2>1. (k + 2) - 1 = k + 1 /\ k + 1 \in 1 .. Len(t)
    BY <1>1
  <2>2. SubSeq(t, k + 1, k + 1) = <<t[k + 1]>>
    BY <2>1, PieceOfOne
  <2>3. NameIn(<<t[k + 1]>>) = t[k + 1].name
    BY <1>1 DEF NameIn
  <2> QED
    BY <2>1, <2>2, <2>3
<1>5. CASE g = f
  <2>1. At(g, f, i) = i
    BY <1>5 DEF At
  <2>2. match_at(t, i, g) = {MatchOf(t, i, k, k + 2)}
    BY <1>1, <1>2, <1>3, <1>5, SpecifierFound
  <2>3. i \in i .. i + Size(f) - 1 /\ i # 0 /\ \A q \in i .. i - 1 : FALSE
    BY <1>1
  <2> QED
    BY <1>4, <2>1, <2>2, <2>3
<1>6. CASE g = "require" /\ f = "dlrequire"
  <2>1. At(g, f, i) = i + 1 /\ Size(f) = 2
    BY <1>6 DEF At, Size
  <2>2. Quoted(t, i + 1, g, k, k + 2)
    <3>1. SpelledAt(t, i + 1, g) /\ Size(g) = 1
      BY <1>1, <1>6 DEF SpelledAt, Size
    <3>2. (i + 1) + 1 = i + 2 /\ (i + 1) + 1 <= k
      BY <1>1, <2>1
    <3> QED
      BY <1>2, <2>1, <3>1, <3>2 DEF Quoted
  <2>3. i + 1 \in 1 .. Len(t) /\ i + 1 \in i .. i + Size(f) - 1 /\ i + 1 # 0 /\ \A q \in i .. (i + 1) - 1 : q = i
    BY <1>1, <2>1
  <2>4. match_at(t, i + 1, g) = {MatchOf(t, i + 1, k, k + 2)}
    BY <1>1, <1>3, <2>2, <2>3, SpecifierFound
  <2>5. match_at(t, i, g) = {}
    BY <1>1, <1>6, NotHere
  <2> QED
    BY <1>4, <2>1, <2>3, <2>4, <2>5
<1>7. CASE g # f /\ ~(g = "require" /\ f = "dlrequire")
  <2>1. At(g, f, i) = 0
    BY <1>7 DEF At
  <2>2. (g = "require" /\ f = "dlload") \/ (g = "dlload" /\ f = "dlrequire")
    BY <1>7 DEF Earlier, Resolving
  <2>3. ASSUME NEW q \in i .. k
        PROVE  q \in 1 .. Len(t) /\ t[q].kind # g
    <3>1. q = i \/ (q = i + 1 /\ Size(f) = 2) \/ q \in i + Size(f) .. k - 1 \/ q = k
      BY <1>1
    <3>2. Size(f) = 2 => f = "dlrequire"
      BY DEF Size
    <3>3. q \in 1 .. Len(t)
      BY <1>1
    <3> QED
      BY <1>1, <2>2, <3>1, <3>2, <3>3
  <2>4. ASSUME NEW q \in i .. k
        PROVE  q \in 1 .. Len(t) /\ match_at(t, q, g) = {}
    BY <2>2, <2>3, NotHere
  <2> QED
    BY <2>1, <2>4
<1> QED
  BY <1>5, <1>6, <1>7

\* Behind the calls the texts are the same, some places on.
Spliceable(t, s, i, f, k, l, d) ==
  /\ Alike(t, s, i, f, k, l) /\ Shifted(t, s, Behind(t, k + 2), d)
  /\ Behind(s, l + 2) = Behind(t, k + 2) + d

LEMMA SuffixPaired ==
  ASSUME NEW t \in Seq(Tokens), NEW s \in Seq(Tokens), NEW p, NEW d, Shifted(t, s, p, d),
         Fenced(t, p), Fenced(s, p + d), NEW g \in Resolving, NEW i \in 1 .. Len(t), i < p,
         NEW at \in 0 .. p - 1, NEW n, NEW w, NEW j \in p .. Len(t) + 1
  PROVE  Paired(Scan(t, g, Free(t))[j], Scan(s, g, Free(s))[j + d], i, at, n, w)
<1> DEFINE P(q) == Paired(Scan(t, g, Free(t))[q], Scan(s, g, Free(s))[q + d], i, at, n, w)
           z == Len(t) + 1
           S == {q \in 1 .. z : q < p \/ P(q)}
<1>0. g \in PassNames
  BY DEF PassNames
<1>1. /\ Len(t) \in Nat /\ Len(s) \in Nat /\ p \in 1 .. Len(t) + 1 /\ d \in Int /\ p + d \in 1 .. Len(s) + 1
      /\ Len(s) = Len(t) + d /\ z \in Nat
  BY LenProperties DEF Shifted
<1>2. ASSUME NEW q \in 1 .. z, q + 1 .. z \subseteq S
      PROVE  q \in S
  <2>1. CASE q < p
    BY <2>1
  <2>2. CASE q = z
    <3>1. q + d = Len(s) + 1
      BY <1>1, <2>2
    <3>2. Scan(t, g, Free(t))[q] = <<>> /\ Scan(s, g, Free(s))[q + d] = <<>>
      BY <1>0, <2>2, <3>1, ScanIs
    <3>3. P(q)
      BY <3>2 DEF Paired
    <3> HIDE DEF P
    <3> QED
      BY <3>3
  <2>3. CASE q >= p /\ q # z
    <3> DEFINE x == TheMatch(t, q, g)
               y == TheMatch(s, q + d, g)
    <3>1. q \in p .. Len(t) /\ q \in 1 .. Len(t) /\ q + d \in 1 .. Len(s) /\ q \in p .. Len(t) + 1
      BY <1>1, <2>3
    <3>2. Member(t, q) <=> Member(s, q + d)
      BY <3>1, MembersSame
    <3>3. match_at(t, q, g) # {} <=> match_at(s, q + d, g) # {}
      BY <3>1, ShiftedSame
    <3>4. match_at(t, q, g) # {} => y.group = x.group /\ y.past = x.past + d
      BY <3>1, ShiftedFound
    <3>5. match_at(t, q, g) # {} => x.first = q /\ x.past \in q + 1 .. z
      <4>1. match_at(t, q, g) # {} => x \in Hits(t) /\ x.first = q
        BY <1>0, <3>1, HitIs
      <4> HIDE DEF x
      <4> QED
        BY <1>1, <4>1 DEF Hits
    <3>6. match_at(t, q, g) # {} => Partner(x, y, i, at, n, w)
      <4>1. q # at /\ ~(q <= i)
        BY <1>1, <3>1
      <4> SUFFICES ASSUME match_at(t, q, g) # {}
                   PROVE  Partner(x, y, i, at, n, w)
        OBVIOUS
      <4>2. ~(x.past <= i) /\ x.first # at
        <5>1. x.past \in q + 1 .. z /\ x.first = q
          BY <3>5
        <5> HIDE DEF x
        <5> QED
          BY <1>1, <3>1, <4>1, <5>1
      <4> QED
        BY <3>4, <4>2 DEF Partner
    <3>7. P(BehindHere(t, q, g)) /\ BehindHere(s, q + d, g) = BehindHere(t, q, g) + d
      <4>1. BehindHere(t, q, g) \in q + 1 .. z
        BY <1>0, <3>1, BehindHereIs
      <4>2. BehindHere(t, q, g) \in S /\ ~(BehindHere(t, q, g) < p)
        <5>1. \A e \in q + 1 .. z : ~(e < p)
          BY <1>1, <3>1
        <5> HIDE DEF S
        <5> QED
          BY <1>2, <4>1, <5>1
      <4>3. P(BehindHere(t, q, g))
        <5> HIDE DEF P
        <5> QED
          BY <4>2
      <4>4. BehindHere(s, q + d, g) = BehindHere(t, q, g) + d
        <5>1. CASE match_at(t, q, g) = {}
          <6>1. BehindHere(t, q, g) = q + 1 /\ BehindHere(s, q + d, g) = (q + d) + 1
            BY <3>3, <5>1 DEF BehindHere
          <6>2. (q + d) + 1 = (q + 1) + d
            BY <1>1, <3>1
          <6> QED
            BY <6>1, <6>2
        <5>2. CASE match_at(t, q, g) # {}
          BY <3>3, <3>4, <5>2 DEF BehindHere
        <5> QED
          BY <5>1, <5>2
      <4> QED
        BY <4>3, <4>4
    <3>8. Paired(Scan(t, g, Free(t))[BehindHere(t, q, g)], Scan(s, g, Free(s))[BehindHere(s, q + d, g)], i, at, n, w)
      BY <3>7
    <3>9. P(q)
      <4> HIDE DEF x, y
      <4> QED
        BY <3>1, <3>2, <3>3, <3>6, <3>8, PairedStep DEF x, y
    <3> HIDE DEF P
    <3> QED
      BY <3>9
  <2> QED
    BY <1>1, <2>1, <2>2, <2>3
<1>3. 1 .. z \subseteq S
  <2> HIDE DEF S, z
  <2> QED
    BY <1>1, <1>2, Downward
<1> HIDE DEF P
<1>4. j \in 1 .. z /\ ~(j < p)
  BY <1>1
<1>5. P(j)
  <2> HIDE DEF z
  <2> QED
    BY <1>3, <1>4
<1> QED
  BY <1>5 DEF P

\* The pattern for an earlier call on the two sides of a replaced one.
LEMMA SplicePaired ==
  ASSUME NEW t \in Seq(Tokens), NEW s \in Seq(Tokens), NEW i, NEW f \in Resolving, NEW k, NEW l, NEW d,
         Spliceable(t, s, i, f, k, l, d), NEW g \in Resolving, Earlier(g, f)
  PROVE  Paired(Scan(t, g, Free(t))[1], Scan(s, g, Free(s))[1], i, At(g, f, i), t[k + 1].name, s[l + 1].name)
<1> DEFINE p == Behind(t, k + 2)
           z == Size(f)
           at == At(g, f, i)
           n == t[k + 1].name
           w == s[l + 1].name
           T == Scan(t, g, Free(t))
           U == Scan(s, g, Free(s))
           P(a, b) == Paired(T[a], U[b], i, at, n, w)
<1>0. g \in PassNames /\ (g = "dlrequire" => f = "dlrequire")
  BY DEF PassNames, Earlier
<1>1. /\ Alike(t, s, i, f, k, l) /\ Call(t, i, f, k) /\ Call(s, i, f, l)
      /\ Shifted(t, s, p, d) /\ Behind(s, l + 2) = p + d
  BY DEF Spliceable, Alike
<1>2. /\ i \in 1 .. Len(t) /\ k \in Nat /\ Len(t) \in Nat /\ z \in {1, 2} /\ i + z <= k /\ k + 2 <= Len(t)
      /\ i \in 1 .. Len(s) /\ l \in Nat /\ Len(s) \in Nat /\ i + z <= l /\ l + 2 <= Len(s)
  BY <1>1, CallIs
<1>3. /\ p \in k + 3 .. Len(t) + 1 /\ Fenced(t, p)
      /\ \A q \in k + 1 .. p - 1 : q \in 1 .. Len(t) /\ t[q].kind \in {"name", "quote", "blank", "close"}
  BY <1>1, CallFenced
<1>4. /\ p + d \in l + 3 .. Len(s) + 1 /\ Fenced(s, p + d)
      /\ \A q \in l + 1 .. (p + d) - 1 : q \in 1 .. Len(s) /\ s[q].kind \in {"name", "quote", "blank", "close"}
  <2> DEFINE e == Behind(s, l + 2)
  <2>1. /\ e \in l + 3 .. Len(s) + 1 /\ Fenced(s, e)
        /\ \A q \in l + 1 .. e - 1 : q \in 1 .. Len(s) /\ s[q].kind \in {"name", "quote", "blank", "close"}
    BY <1>1, CallFenced
  <2>2. e = p + d
    BY <1>1
  <2> HIDE DEF e, p
  <2> QED
    BY <2>1, <2>2
<1>5. at \in {0, i, i + 1} /\ at \in 0 .. p - 1 /\ i < p /\ (at # 0 => at >= i) /\ d \in Int
  <2>1. at \in {0, i, i + 1}
    BY DEF At
  <2>2. d \in Int
    BY <1>1 DEF Shifted
  <2> HIDE DEF p, at, z
  <2> QED
    BY <1>2, <1>3, <2>1, <2>2
<1>6. P(p, p + d)
  <2>1. p \in p .. Len(t) + 1
    BY <1>3, <1>2
  <2> HIDE DEF p, at, n, w
  <2> QED
    BY <1>1, <1>2, <1>3, <1>4, <1>5, <2>1, SuffixPaired
<1>7. \A q \in k + 1 .. p - 1 : match_at(t, q, g) = {}
  <2> SUFFICES ASSUME NEW q \in k + 1 .. p - 1
               PROVE  match_at(t, q, g) = {}
    OBVIOUS
  <2>1. q \in 1 .. Len(t) /\ t[q].kind # "dl" /\ t[q].kind # g
    BY <1>3 DEF Resolving
  <2> QED
    BY <2>1, NotHere
<1>8. \A q \in l + 1 .. (p + d) - 1 : match_at(s, q, g) = {}
  <2> SUFFICES ASSUME NEW q \in l + 1 .. (p + d) - 1
               PROVE  match_at(s, q, g) = {}
    OBVIOUS
  <2>1. q \in 1 .. Len(s) /\ s[q].kind # "dl" /\ s[q].kind # g
    BY <1>4 DEF Resolving
  <2> QED
    BY <2>1, NotHere
<1>9. T[k + 1] = T[p] /\ U[l + 1] = U[p + d]
  <2>1. p \in 1 .. Len(t) + 1 /\ k + 1 \in 1 .. p /\ p + d \in 1 .. Len(s) + 1 /\ l + 1 \in 1 .. p + d
    BY <1>2, <1>3, <1>4
  <2>2. T[k + 1] = T[p]
    <3> DEFINE a == k + 1
    <3>1. p \in 1 .. Len(t) + 1 /\ a \in 1 .. p /\ \A q \in a .. p - 1 : match_at(t, q, g) = {}
      <4> HIDE DEF p
      <4> QED
        BY <1>7, <2>1
    <3> HIDE DEF p, a
    <3>2. T[a] = T[p]
      BY <1>0, <3>1, Skips
    <3> QED
      BY <3>2 DEF a
  <2>3. U[l + 1] = U[p + d]
    <3> DEFINE e == p + d
               a == l + 1
    <3>1. e \in 1 .. Len(s) + 1 /\ a \in 1 .. e /\ \A q \in a .. e - 1 : match_at(s, q, g) = {}
      <4> HIDE DEF p
      <4>1. \A q \in a .. e - 1 : match_at(s, q, g) = {}
        BY <1>8
      <4>2. e \in 1 .. Len(s) + 1 /\ a \in 1 .. e
        BY <2>1
      <4> QED
        BY <4>1, <4>2
    <3> HIDE DEF e, a
    <3>2. U[a] = U[e]
      BY <1>0, <3>1, Skips
    <3> QED
      BY <3>2 DEF e, a
  <2> QED
    BY <2>2, <2>3
<1>10. P(k + 1, l + 1)
  <2> HIDE DEF T, U, at, n, w, p
  <2> QED
    BY <1>6, <1>9
<1>11. \A q \in 1 .. i + z - 1 : s[q] = t[q]
  BY <1>1 DEF Alike
<1>12. /\ at = 0 => /\ \A q \in i .. k : match_at(t, q, g) = {}
                    /\ \A q \in i .. l : match_at(s, q, g) = {}
       /\ at # 0 => /\ at \in i .. i + z - 1
                    /\ match_at(t, at, g) = {MatchOf(t, at, k, k + 2)} /\ match_at(s, at, g) = {MatchOf(s, at, l, l + 2)}
                    /\ NameIn(SubSeq(t, k + 1, (k + 2) - 1)) = n /\ NameIn(SubSeq(s, l + 1, (l + 2) - 1)) = w
                    /\ \A q \in i .. at - 1 : match_at(t, q, g) = {} /\ match_at(s, q, g) = {}
  <2>1. /\ at = 0 => \A q \in i .. k : q \in 1 .. Len(t) /\ match_at(t, q, g) = {}
        /\ at # 0 => /\ at \in i .. i + z - 1 /\ match_at(t, at, g) = {MatchOf(t, at, k, k + 2)}
                     /\ NameIn(SubSeq(t, k + 1, (k + 2) - 1)) = n
                     /\ \A q \in i .. at - 1 : match_at(t, q, g) = {}
    BY <1>1, CallFound
  <2>2. /\ at = 0 => \A q \in i .. l : q \in 1 .. Len(s) /\ match_at(s, q, g) = {}
        /\ at # 0 => /\ at \in i .. i + z - 1 /\ match_at(s, at, g) = {MatchOf(s, at, l, l + 2)}
                     /\ NameIn(SubSeq(s, l + 1, (l + 2) - 1)) = w
                     /\ \A q \in i .. at - 1 : match_at(s, q, g) = {}
    BY <1>1, CallFound
  <2> HIDE DEF at, n, w, z
  <2> QED
    BY <2>1, <2>2
<1>13. P(i, i)
  <2>1. CASE at = 0
    <3>1. T[i] = T[k + 1]
      <4>1. k + 1 \in 1 .. Len(t) + 1 /\ i \in 1 .. k + 1 /\ (k + 1) - 1 = k
        BY <1>2
      <4> QED
        BY <1>0, <1>12, <2>1, <4>1, Skips
    <3>2. U[i] = U[l + 1]
      <4>1. l + 1 \in 1 .. Len(s) + 1 /\ i \in 1 .. l + 1 /\ (l + 1) - 1 = l
        BY <1>2
      <4> QED
        BY <1>0, <1>12, <2>1, <4>1, Skips
    <3> HIDE DEF T, U, at, n, w
    <3> QED
      BY <1>10, <3>1, <3>2
  <2>2. CASE at # 0
    <3> DEFINE x == TheMatch(t, at, g)
               y == TheMatch(s, at, g)
    <3>1. at \in i .. i + z - 1 /\ at \in 1 .. Len(t) /\ at \in 1 .. Len(s) /\ at \in 1 .. (i + z - 1) + 1 /\ i + z - 1 \in Nat
      <4> HIDE DEF at, z
      <4> QED
        BY <1>2, <1>12, <2>2
    <3>2. T[i] = T[at] /\ U[i] = U[at]
      <4>1. at \in 1 .. Len(t) + 1 /\ at \in 1 .. Len(s) + 1 /\ i \in 1 .. at
        <5> HIDE DEF at, z
        <5> QED
          BY <1>2, <3>1
      <4> HIDE DEF at
      <4> QED
        BY <1>0, <1>12, <2>2, <4>1, Skips
    <3>3. x = MatchOf(t, at, k, k + 2) /\ y = MatchOf(s, at, l, l + 2)
      <4>1. match_at(t, at, g) # {} /\ match_at(s, at, g) # {} /\ at \in 1 .. Len(t) /\ at \in 1 .. Len(s)
        <5> HIDE DEF at
        <5> QED
          BY <1>12, <2>2, <3>1
      <4>2. match_at(t, at, g) = {x} /\ match_at(s, at, g) = {y}
        <5> HIDE DEF at
        <5> QED
          BY <1>0, <4>1, HitIs
      <4> HIDE DEF x, y, at
      <4> QED
        BY <1>12, <2>2, <4>2
    <3>4. /\ x.past = p /\ y.past = p + d /\ x.first = at
          /\ NameIn(x.group) = n /\ NameIn(y.group) = w
      <4>1. x.past = p /\ y.past = Behind(s, l + 2) /\ x.first = at
        <5> HIDE DEF x, y, at
        <5> QED
          BY <3>3 DEF MatchOf
      <4>2. x.group = SubSeq(t, k + 1, (k + 2) - 1) /\ y.group = SubSeq(s, l + 1, (l + 2) - 1)
        <5> HIDE DEF x, y, at
        <5> QED
          BY <3>3 DEF MatchOf
      <4> HIDE DEF x, y, at, n, w, p
      <4> QED
        BY <1>1, <1>12, <2>2, <4>1, <4>2
    <3>5. Member(t, at) <=> Member(s, at)
      <4> HIDE DEF at
      <4> QED
        BY <1>11, <3>1, LeftMembers
    <3>6. Partner(x, y, i, at, n, w)
      <4>1. ~(x.past <= i)
        <5> HIDE DEF x, y, at, n, w, p
        <5> QED
          BY <1>2, <1>3, <3>4
      <4> HIDE DEF x, y, at, n, w, p
      <4> QED
        BY <3>4, <4>1 DEF Partner
    <3>7. BehindHere(t, at, g) = p /\ BehindHere(s, at, g) = p + d
      <4>1. match_at(t, at, g) # {} /\ match_at(s, at, g) # {}
        <5> HIDE DEF at
        <5> QED
          BY <1>12, <2>2
      <4> HIDE DEF at, p
      <4> QED
        BY <3>4, <4>1 DEF BehindHere
    <3>8. P(at, at)
      <4>1. match_at(t, at, g) # {} /\ match_at(s, at, g) # {}
        <5> HIDE DEF at
        <5> QED
          BY <1>12, <2>2
      <4>2. Paired(Scan(t, g, Free(t))[BehindHere(t, at, g)], Scan(s, g, Free(s))[BehindHere(s, at, g)], i, at, n, w)
        <5> HIDE DEF at, n, w, p
        <5> QED
          BY <1>6, <3>7
      <4> HIDE DEF at, n, w
      <4> QED
        BY <3>1, <3>5, <3>6, <4>1, <4>2, PairedStep
    <3> HIDE DEF T, U, at, n, w
    <3> QED
      BY <3>2, <3>8
  <2> QED
    BY <2>1, <2>2
<1> DEFINE S == {q \in 1 .. i : P(q, q)}
<1>14. ASSUME NEW j \in 1 .. i, j + 1 .. i \subseteq S
       PROVE  j \in S
  <2>1. CASE j = i
    <3> HIDE DEF P
    <3> QED
      BY <1>13, <2>1
  <2>2. CASE j # i
    <3> DEFINE x == TheMatch(t, j, g)
               y == TheMatch(s, j, g)
    <3>1. /\ j \in 1 .. i - 1 /\ j \in 1 .. Len(t) /\ j \in 1 .. Len(s) /\ j + 1 \in j + 1 .. i
          /\ j \in 1 .. (i + z - 1) + 1 /\ i + z - 1 \in Nat /\ j < i
      <4> HIDE DEF z
      <4> QED
        BY <1>2, <2>2
    <3>2. Member(t, j) <=> Member(s, j)
      BY <1>11, <3>1, LeftMembers
    <3>3. match_at(t, j, g) # {} <=> match_at(s, j, g) # {}
      BY <1>0, <1>1, <3>1, LeftSame
    <3>4. match_at(t, j, g) # {} => LeftPair(x, y, i, k, l) /\ x.first = j /\ x.past \in j + 1 .. Len(t) + 1
      <4> SUFFICES ASSUME match_at(t, j, g) # {}
                   PROVE  LeftPair(x, y, i, k, l) /\ x.first = j /\ x.past \in j + 1 .. Len(t) + 1
        OBVIOUS
      <4>1. LeftPair(x, y, i, k, l)
        BY <1>0, <1>1, <3>1, LeftFound
      <4>2. x \in Hits(t) /\ x.first = j
        BY <1>0, <3>1, HitIs
      <4>3. x.past \in j + 1 .. Len(t) + 1
        <5> HIDE DEF x
        <5> QED
          BY <1>2, <4>2 DEF Hits
      <4> QED
        BY <4>1, <4>2, <4>3
    <3>5. match_at(t, j, g) # {} => Partner(x, y, i, at, n, w)
      <4>1. j # at
        <5> HIDE DEF at
        <5> QED
          BY <1>2, <1>5, <3>1
      <4>2. ~(k + 1 <= i)
        <5> HIDE DEF z
        <5> QED
          BY <1>2
      <4> HIDE DEF x, y, at, n, w
      <4> QED
        BY <3>4, <4>1, <4>2 DEF Partner, LeftPair
    <3>6. Paired(T[BehindHere(t, j, g)], U[BehindHere(s, j, g)], i, at, n, w)
      <4>1. CASE match_at(t, j, g) = {}
        <5>1. BehindHere(t, j, g) = j + 1 /\ BehindHere(s, j, g) = j + 1
          BY <3>3, <4>1 DEF BehindHere
        <5>2. P(j + 1, j + 1)
          <6>1. j + 1 \in S
            <7> HIDE DEF S
            <7> QED
              BY <1>14, <3>1
          <6> HIDE DEF P
          <6> QED
            BY <6>1
        <5> HIDE DEF T, U, at, n, w
        <5> QED
          BY <5>1, <5>2
      <4>2. CASE match_at(t, j, g) # {} /\ x.past <= i /\ y = x
        <5>1. BehindHere(t, j, g) = x.past /\ BehindHere(s, j, g) = x.past
          BY <3>3, <4>2 DEF BehindHere
        <5>2. P(x.past, x.past)
          <6>1. x.past \in j + 1 .. i
            <7> HIDE DEF x, y
            <7> QED
              BY <1>2, <3>4, <4>2
          <6>2. x.past \in S
            <7> HIDE DEF S, x
            <7> QED
              BY <1>14, <6>1
          <6> HIDE DEF P, x
          <6> QED
            BY <6>2
        <5> HIDE DEF T, U, at, n, w, x
        <5> QED
          BY <5>1, <5>2
      <4>3. CASE match_at(t, j, g) # {} /\ x.past = k + 1 /\ y.past = l + 1
        <5>1. BehindHere(t, j, g) = k + 1 /\ BehindHere(s, j, g) = l + 1
          BY <3>3, <4>3 DEF BehindHere
        <5> HIDE DEF T, U, at, n, w
        <5> QED
          BY <1>10, <5>1
      <4> HIDE DEF x, y, at, n, w, T, U
      <4> QED
        BY <3>4, <4>1, <4>2, <4>3 DEF LeftPair
    <3>7. P(j, j)
      <4> HIDE DEF at, n, w
      <4> QED
        BY <3>1, <3>2, <3>3, <3>5, <3>6, PairedStep
    <3> HIDE DEF P
    <3> QED
      BY <3>7
  <2> QED
    BY <2>1, <2>2
<1>15. 1 .. i \subseteq S
  <2>1. i \in Nat
    BY <1>2
  <2> HIDE DEF S
  <2> QED
    BY <1>14, <2>1, Downward
<1>16. P(1, 1)
  <2>1. 1 \in 1 .. i
    BY <1>2
  <2>2. 1 \in S
    <3> HIDE DEF S
    <3> QED
      BY <1>15, <2>1
  <2> HIDE DEF P
  <2> QED
    BY <2>2
<1> QED
  BY <1>16
-----------------------------------------------------------------------------
\* What replaces a call.
\* A call that is replaced by one for another name is one again, at the same place.
LEMMA CallSpliced ==
  ASSUME NEW t \in Seq(Tokens), NEW i, NEW f \in Resolving, NEW k, Call(t, i, f, k), NEW name \in NameSet
  PROVE  LET s == Spliced(t, i, Called(Spelling(f), Named(name)), Behind(t, k + 2))
             l == i + Size(f) + 1
         IN /\ s \in Seq(Tokens) /\ s[l + 1].name = name
            /\ s # <<>> /\ (t[1] # Blank => s[1] # Blank)
            /\ \E d \in Int : Spliceable(t, s, i, f, k, l, d)
<1> DEFINE w == Spelling(f)
           z == Size(f)
           p == Behind(t, k + 2)
           new == Called(w, Named(name))
           s == Spliced(t, i, new, p)
           l == i + z + 1
           d == (l + 4) - p
<1>1. /\ i \in 1 .. Len(t) /\ k \in Nat /\ Len(t) \in Nat /\ z \in {1, 2} /\ i + z <= k /\ k + 2 <= Len(t)
      /\ \A q \in i .. i + z - 1 : t[q].kind \in {"dl", "require", "dlload"}
      /\ \A q \in i + z .. k - 1 : t[q].kind \in {"blank", "open"}
      /\ t[k].kind = "quote" /\ t[k + 1].kind = "name" /\ t[k + 2].kind = "quote"
      /\ f # "dlrequire" => t[i].kind = f
      /\ f = "dlrequire" => t[i].kind = "dl" /\ t[i + 1].kind = "require"
  BY CallIs
<1>2. p \in k + 3 .. Len(t) + 1
  BY CallFenced
<1>3. SpelledAt(t, i, f)
  BY DEF Call, Quoted
<1>4. Len(w) = z /\ w \in Seq(Tokens) /\ \A q \in 1 .. z : w[q].kind = t[i - 1 + q].kind
  <2>1. i \in Nat
    BY <1>1
  <2> QED
    BY <1>3, <2>1, SpellingElements, FixedTokens
<1> HIDE DEF w, z, p
<1>5. \A q \in 1 .. z : w[q] = t[i - 1 + q]
  <2> SUFFICES ASSUME NEW q \in 1 .. z
               PROVE  w[q] = t[i - 1 + q]
    OBVIOUS
  <2>1. i - 1 + q \in i .. i + z - 1 /\ i - 1 + q \in 1 .. Len(t)
    BY <1>1
  <2>2. t[i - 1 + q] \in Tokens /\ w[q] \in Tokens
    BY <1>4, <2>1, ElementsTyped
  <2>3. t[i - 1 + q].kind # "name" /\ w[q].kind = t[i - 1 + q].kind
    <3>1. t[i - 1 + q].kind \in {"dl", "require", "dlload"}
      BY <1>1, <2>1
    <3> QED
      BY <1>4, <3>1
  <2> DEFINE x == t[i - 1 + q]
             y == w[q]
  <2> HIDE DEF x, y
  <2>4. x = Token(x.kind) /\ y = Token(y.kind) /\ x.kind = y.kind
    BY <2>2, <2>3, TokenIs DEF x, y
  <2> QED
    BY <2>4 DEF x, y
<1>6. /\ new \in Seq(Tokens) /\ Len(new) = z + 5 /\ \A q \in 1 .. z : new[q] = w[q]
      /\ new[z + 1] = Open /\ new[z + 2] = Quote /\ new[z + 3] = Named(name)
      /\ new[z + 4] = Quote /\ new[z + 5] = Close
  <2>1. Named(name) \in Tokens
    BY NamesTyped
  <2> QED
    BY <1>4, <2>1, CalledIs
<1> HIDE DEF new
<1>7. p \in i .. Len(t) + 1 /\ i \in 1 .. Len(t) + 1 /\ i \in Nat /\ p \in Nat
  BY <1>1, <1>2
<1>8. /\ s \in Seq(Tokens) /\ Len(s) = (i - 1) + Len(new) + (Len(t) + 1 - p)
      /\ \A j \in 1 .. i - 1 : s[j] = t[j]
      /\ \A j \in 1 .. Len(new) : s[i - 1 + j] = new[j]
      /\ \A j \in p .. Len(t) : s[i - 1 + Len(new) + (j + 1 - p)] = t[j]
  <2>1. new \in Seq(Tokens)
    BY <1>6
  <2>2. p \in i .. Len(t) + 1 /\ i \in 1 .. Len(t) + 1
    BY <1>7
  <2> QED
    BY <2>1, <2>2, SplicedIs
<1> HIDE DEF s
<1>0. i \in 1 .. Len(t) /\ Len(t) \in Nat /\ z \in {1, 2} /\ Len(new) = z + 5 /\ p \in i .. Len(t) + 1
  <2>1. z \in {1, 2} /\ i \in 1 .. Len(t) /\ Len(t) \in Nat
    BY <1>1
  <2>2. Len(new) = z + 5
    BY <1>6
  <2> QED
    BY <1>7, <2>1, <2>2
<1>9. /\ Len(s) = Len(t) + d /\ d \in Int /\ l \in Nat /\ p + d = l + 4 /\ l + 4 \in 1 .. Len(s) + 1
      /\ i + z <= l /\ l + 2 <= Len(s) /\ i \in 1 .. Len(s) /\ l + 3 <= Len(s)
  <2>1. Len(s) = (i - 1) + (z + 5) + (Len(t) + 1 - p)
    BY <1>0, <1>8
  <2> QED
    BY <1>0, <2>1
<1>10. \A j \in 1 .. i + z - 1 : s[j] = t[j]
  <2> SUFFICES ASSUME NEW j \in 1 .. i + z - 1
               PROVE  s[j] = t[j]
    OBVIOUS
  <2>1. CASE j < i
    <3>1. j \in 1 .. i - 1
      BY <1>0, <2>1
    <3> QED
      BY <1>8, <3>1
  <2>2. CASE j >= i
    <3> DEFINE q == j - (i - 1)
    <3>1. q \in 1 .. z /\ q \in 1 .. Len(new) /\ i - 1 + q = j
      BY <1>0, <2>2
    <3> HIDE DEF q
    <3>2. s[i - 1 + q] = new[q] /\ new[q] = w[q] /\ w[q] = t[i - 1 + q]
      BY <1>5, <1>6, <1>8, <3>1
    <3> QED
      BY <3>1, <3>2
  <2> QED
    BY <1>0, <2>1, <2>2
<1>11. /\ s[i + z] = Open /\ s[l] = Quote /\ s[l + 1] = Named(name) /\ s[l + 2] = Quote /\ s[l + 3] = Close
  <2>1. \A q \in 1 .. 5 : z + q \in 1 .. Len(new)
    BY <1>0
  <2>2. /\ i - 1 + (z + 1) = i + z /\ i - 1 + (z + 2) = l /\ i - 1 + (z + 3) = l + 1
        /\ i - 1 + (z + 4) = l + 2 /\ i - 1 + (z + 5) = l + 3
    BY <1>1, <1>7
  <2>3. /\ s[i - 1 + (z + 1)] = new[z + 1] /\ s[i - 1 + (z + 2)] = new[z + 2] /\ s[i - 1 + (z + 3)] = new[z + 3]
        /\ s[i - 1 + (z + 4)] = new[z + 4] /\ s[i - 1 + (z + 5)] = new[z + 5]
    BY <1>8, <2>1
  <2> QED
    BY <1>6, <2>2, <2>3
<1>12. s[l + 1].kind = "name" /\ s[l + 1].name = name
  BY <1>11 DEF Named
<1>13. \A j \in p .. Len(t) : s[j + d] = t[j]
  <2> SUFFICES ASSUME NEW j \in p .. Len(t)
               PROVE  s[j + d] = t[j]
    OBVIOUS
  <2>1. i - 1 + Len(new) + (j + 1 - p) = j + d
    BY <1>1, <1>6, <1>7
  <2>2. s[i - 1 + Len(new) + (j + 1 - p)] = t[j]
    BY <1>8
  <2> QED
    BY <2>1, <2>2
<1> HIDE DEF d
<1>14. Shifted(t, s, p, d)
  <2>1. p \in 1 .. Len(t) + 1
    BY <1>7, <1>1
  <2> QED
    BY <1>9, <1>13, <2>1 DEF Shifted
<1>15. Call(s, i, f, l)
  <2>1. SpelledAt(s, i, f)
    <3>1. CASE f = "dlrequire"
      <4>1. z = 2 /\ i \in 1 .. i + z - 1 /\ i + 1 \in 1 .. i + z - 1 /\ i < Len(s)
        BY <1>7, <1>9, <3>1 DEF Size, z
      <4>2. s[i] = t[i] /\ s[i + 1] = t[i + 1]
        BY <1>10, <4>1
      <4> QED
        BY <1>3, <3>1, <4>1, <4>2 DEF SpelledAt
    <3>2. CASE f # "dlrequire"
      <4>1. i \in 1 .. i + z - 1
        BY <1>1
      <4>2. s[i] = t[i]
        BY <1>10, <4>1
      <4> QED
        BY <1>3, <3>2, <4>2 DEF SpelledAt
    <3> QED
      BY <3>1, <3>2
  <2>2. \A q \in i + z .. l - 1 : q = i + z
    BY <1>1, <1>7
  <2>3. \A q \in l + 1 .. (l + 2) - 1 : q = l + 1
    BY <1>9
  <2>4. "name" \in Inner
    BY DEF Inner, Letters
  <2>5. l + 1 < l + 2 /\ i + z <= l
    BY <1>9
  <2>6. s[i + z].kind = "open" /\ s[l].kind = "quote" /\ s[l + 2].kind = "quote"
    BY <1>11, FixedTokens
  <2> HIDE DEF l
  <2>7. Quoted(s, i, f, l, l + 2)
    BY <1>12, <2>1, <2>2, <2>3, <2>4, <2>5, <2>6 DEF Quoted, z
  <2> QED
    BY <1>9, <1>12, <2>7 DEF Call
<1>16. Behind(s, l + 2) = l + 4
  <2> DEFINE e == After(s, (l + 2) + 1, {"blank"})
  <2>1. (l + 2) + 1 = l + 3 /\ l + 3 \in 1 .. Len(s) + 1 /\ l + 3 <= Len(s) /\ (l + 3) + 1 = l + 4
    BY <1>9
  <2>2. s[l + 3].kind = "close"
    BY <1>11, FixedTokens
  <2>3. Run(s, l + 3, l + 3, {"blank"})
    BY <1>9, <2>1, <2>2 DEF Run
  <2> HIDE DEF l
  <2>4. e = l + 3
    BY <1>8, <2>1, <2>3, AfterIs
  <2> HIDE DEF e
  <2>5. e <= Len(s) /\ s[e].kind = "close" /\ e + 1 = l + 4
    BY <2>1, <2>2, <2>4
  <2> QED
    BY <2>5 DEF Behind, e
<1>17. Spliceable(t, s, i, f, k, l, d)
  BY <1>9, <1>10, <1>14, <1>15, <1>16 DEF Spliceable, Alike, p, z
<1>18. s # <<>> /\ (t[1] # Blank => s[1] # Blank)
  <2>1. s # <<>>
    <3>1. Len(s) # 0
      BY <1>9
    <3> HIDE DEF l, d
    <3> QED
      BY <3>1
  <2>2. s[1] = t[1]
    <3>1. 1 \in 1 .. i + z - 1
      BY <1>1
    <3> QED
      BY <1>10, <3>1
  <2> QED
    BY <2>1, <2>2
<1>19. \E e \in Int : Spliceable(t, s, i, f, k, l, e)
  BY <1>9, <1>17
<1> HIDE DEF l
<1> QED
  BY <1>8, <1>12, <1>18, <1>19 DEF s, new, w, z, p, l
-----------------------------------------------------------------------------
\* What the pattern for g finds in a text: P from the left, and behind it the names in r,
\* the last first.
Booked(t, g, P, r) ==
  LET M == Matches(t, g, Free(t))
  IN /\ Len(M) = Len(P) + Len(r)
     /\ \A l \in 1 .. Len(P) : M[l] = P[l]
     /\ \A l \in 1 .. Len(r) : NameIn(M[Len(P) + l].group) = r[(Len(r) + 1) - l]

\* The last match that is waiting, if it asks for a name.
LEMMA LastIsCall ==
  ASSUME NEW t \in Seq(Tokens), NEW f \in Resolving, NEW P, Waiting(t, P), P # <<>>, NEW r \in Seq(NameSet),
         Booked(t, f, P, r), NameIn(P[Len(P)].group) # NoName
  PROVE  \E k : /\ Call(t, P[Len(P)].first, f, k) /\ P[Len(P)].past = Behind(t, k + 2)
                /\ NameIn(P[Len(P)].group) = t[k + 1].name
<1> DEFINE m == P[Len(P)]
           i == m.first
           M == Matches(t, f, Free(t))
<1>0. f \in PassNames
  BY DEF PassNames
<1>1. P \in Seq([first : Nat \ {0}, past : Nat, group : Seq(Tokens)]) /\ Len(P) \in Nat \ {0}
  <2>1. P \in Seq([first : Nat \ {0}, past : Nat, group : Seq(Tokens)])
    BY DEF Waiting
  <2> QED
    BY <2>1, LastOf
<1>2. M \in Seq(Hits(t)) /\ InOrder(t, f, Free(t), 1, M) /\ Len(M) \in Nat /\ Len(r) \in Nat
  <2>1. M \in Seq(Hits(t)) /\ InOrder(t, f, Free(t), 1, M)
    BY <1>0, MatchesInOrder
  <2> HIDE DEF M
  <2> QED
    BY <2>1, LenProperties
<1>3. M[Len(P)] = m /\ Len(P) \in 1 .. Len(M)
  <2> HIDE DEF m
  <2>1. Len(M) = Len(P) + Len(r) /\ \A l \in 1 .. Len(P) : M[l] = P[l]
    BY DEF Booked
  <2>2. Len(M) \in Nat /\ Len(r) \in Nat
    BY <1>2
  <2>3. Len(P) \in 1 .. Len(P) /\ Len(P) \in Nat \ {0}
    BY <1>1
  <2>4. Len(P) \in 1 .. Len(M)
    <3> HIDE DEF M
    <3> QED
      BY <2>1, <2>2, <2>3
  <2>5. M[Len(P)] = P[Len(P)]
    <3> HIDE DEF M
    <3> QED
      BY <2>1, <2>3
  <2> QED
    BY <2>4, <2>5 DEF m
<1>4. i \in 1 .. Len(t) /\ match_at(t, i, f) # {} /\ m = TheMatch(t, i, f)
  <2> HIDE DEF M, m
  <2> QED
    BY <1>2, <1>3 DEF InOrder
<1> HIDE DEF M
<1>5. PICK o \in Nat, c \in 1 .. Len(t) : Quoted(t, i, f, o, c)
  <2> HIDE DEF m
  <2> QED
    BY <1>4, SpecifierIs
<1> HIDE DEF m
<1>6. m = MatchOf(t, i, o, c)
  <2>1. match_at(t, i, f) = {MatchOf(t, i, o, c)} /\ match_at(t, i, f) = {TheMatch(t, i, f)}
    BY <1>0, <1>4, <1>5, SpecifierFound, HitIs
  <2> QED
    BY <1>4, <2>1
<1>7. m.group = SubSeq(t, o + 1, c - 1) /\ m.past = Behind(t, c)
  BY <1>6 DEF MatchOf
<1>8. o + 1 < c /\ Len(t) \in Nat /\ o + 1 \in 1 .. Len(t) /\ c - 1 \in o + 1 .. Len(t)
  BY <1>5, ElementsTyped DEF Quoted
<1>9. Len(m.group) = 1 /\ m.group[1].kind = "name" /\ NameIn(m.group) = m.group[1].name
  BY DEF NameIn, m
<1>10. Len(m.group) = ((c - 1) + 1) - (o + 1) /\ m.group[1] = t[o + 1]
  <2> DEFINE a == o + 1
             b == c - 1
  <2>1. a \in 1 .. Len(t) /\ b \in a .. Len(t)
    BY <1>8
  <2> HIDE DEF a, b
  <2>2. Len(SubSeq(t, a, b)) = (b + 1) - a /\ \A j \in 1 .. (b + 1) - a : SubSeq(t, a, b)[j] = t[a + j - 1]
    BY <2>1, PieceElements
  <2>3. 1 \in 1 .. (b + 1) - a /\ a + 1 - 1 = a
    BY <1>8, <2>1
  <2> QED
    BY <1>7, <2>2, <2>3 DEF a, b
<1>11. c = o + 2
  <2>1. c \in Int /\ o \in Int
    BY <1>5
  <2>2. 1 = ((c - 1) + 1) - (o + 1)
    BY <1>9, <1>10
  <2> QED
    BY <2>1, <2>2
<1>12. Call(t, i, f, o)
  BY <1>4, <1>5, <1>9, <1>10, <1>11 DEF Call
<1> QED
  BY <1>7, <1>9, <1>10, <1>11, <1>12 DEF m

\* The two sides of a replacement, by the matches of the pattern for g.
LEMMA PairedMatches ==
  ASSUME NEW t \in Seq(Tokens), NEW f \in Resolving, NEW i, NEW k, Call(t, i, f, k), NEW name \in NameSet,
         NEW g \in Resolving, Earlier(g, f)
  PROVE  LET s == Spliced(t, i, Called(Spelling(f), Named(name)), Behind(t, k + 2))
         IN Paired(Matches(t, g, Free(t)), Matches(s, g, Free(s)), i, At(g, f, i), t[k + 1].name, name)
<1> DEFINE s == Spliced(t, i, Called(Spelling(f), Named(name)), Behind(t, k + 2))
           l == i + Size(f) + 1
<1>1. s \in Seq(Tokens) /\ s[l + 1].name = name /\ \E d \in Int : Spliceable(t, s, i, f, k, l, d)
  BY CallSpliced
<1> HIDE DEF s, l
<1>2. PICK d \in Int : Spliceable(t, s, i, f, k, l, d)
  BY <1>1
<1>3. Paired(Scan(t, g, Free(t))[1], Scan(s, g, Free(s))[1], i, At(g, f, i), t[k + 1].name, s[l + 1].name)
  BY <1>1, <1>2, SplicePaired
<1>4. Matches(t, g, Free(t)) = Scan(t, g, Free(t))[1] /\ Matches(s, g, Free(s)) = Scan(s, g, Free(s))[1]
  BY <1>1, ScanIs DEF PassNames
<1>5. Paired(Matches(t, g, Free(t)), Matches(s, g, Free(s)), i, At(g, f, i), t[k + 1].name, name)
  BY <1>1, <1>3, <1>4
<1> QED
  BY <1>5 DEF s

\* Replacing the last of the waiting matches books its new name.
LEMMA BookedKept ==
  ASSUME NEW t \in Seq(Tokens), NEW f \in Resolving, NEW P, Waiting(t, P), P # <<>>, NEW r \in Seq(NameSet),
         Booked(t, f, P, r), NEW k, Call(t, P[Len(P)].first, f, k), P[Len(P)].past = Behind(t, k + 2),
         NEW name \in NameSet
  PROVE  Booked(Spliced(t, P[Len(P)].first, Called(Spelling(f), Named(name)), P[Len(P)].past), f,
                Front(P), Append(r, name))
<1> DEFINE L == Len(P)
           R == Len(r)
           i == P[L].first
           s == Spliced(t, i, Called(Spelling(f), Named(name)), P[L].past)
           M == Matches(t, f, Free(t))
           N == Matches(s, f, Free(s))
           n == t[k + 1].name
           F == Front(P)
           q == Append(r, name)
<1>1. L \in Nat \ {0} /\ Len(F) = L - 1 /\ \A l \in 1 .. L - 1 : F[l] = P[l]
  <2>1. P \in Seq([first : Nat \ {0}, past : Nat, group : Seq(Tokens)])
    BY DEF Waiting
  <2> QED
    BY <2>1, LastOf
<1>2. R \in Nat /\ Len(q) = R + 1 /\ q[R + 1] = name /\ \A l \in 1 .. R : q[l] = r[l]
  BY LenProperties
<1>3. Len(M) = L + R /\ (\A l \in 1 .. L : M[l] = P[l]) /\ \A l \in 1 .. R : NameIn(M[L + l].group) = r[(R + 1) - l]
  BY DEF Booked
<1>4. Paired(M, N, i, i, n, name)
  <2>1. Earlier(f, f) /\ At(f, f, i) = i
    BY DEF Earlier, At
  <2> QED
    BY <2>1, PairedMatches
<1>5. M \in Seq(Hits(t)) /\ InOrder(t, f, Free(t), 1, M)
  BY MatchesInOrder DEF PassNames
<1> HIDE DEF N, s
<1>6. \A l \in 1 .. L + R : M[l].first \in Nat /\ M[l].past \in Nat /\ M[l].first < M[l].past
  <2> SUFFICES ASSUME NEW l \in 1 .. L + R
               PROVE  M[l].first \in Nat /\ M[l].past \in Nat /\ M[l].first < M[l].past
    OBVIOUS
  <2>1. M[l] \in Hits(t)
    <3> HIDE DEF M
    <3> QED
      BY <1>3, <1>5, ElementOfSeq
  <2> DEFINE x == M[l]
  <2> HIDE DEF x
  <2>2. x \in Hits(t) /\ Len(t) \in Nat
    BY <2>1, ElementsTyped DEF x
  <2>3. x.first \in Nat /\ x.past \in Nat /\ x.first < x.past
    BY <2>2 DEF Hits
  <2> QED
    BY <2>3 DEF x
<1>7. \A l, j \in 1 .. L + R : l < j => M[l].past <= M[j].first
  <2> HIDE DEF M
  <2> QED
    BY <1>3, <1>5 DEF InOrder
<1>8. Len(N) = L + R /\ \A l \in 1 .. L + R : Partner(M[l], N[l], i, i, n, name)
  <2> HIDE DEF M
  <2> QED
    BY <1>3, <1>4 DEF Paired
<1>9. L \in 1 .. L + R /\ M[L].first = i /\ i \in Nat
  <2>1. L \in 1 .. L + R /\ L \in 1 .. L
    BY <1>1, <1>2
  <2>2. M[L] = P[L]
    BY <1>3, <2>1
  <2> QED
    BY <1>6, <2>1, <2>2
<1> HIDE DEF M, L, R, F, q, i, n
<1>10. Len(N) = Len(F) + Len(q)
  BY <1>1, <1>2, <1>8
<1>11. ASSUME NEW l \in 1 .. Len(F)
       PROVE  N[l] = F[l]
  <2>1. l \in 1 .. L - 1 /\ l \in 1 .. L /\ l \in 1 .. L + R /\ l < L
    BY <1>1, <1>2
  <2>2. M[l].past <= i
    BY <1>7, <1>9, <2>1
  <2>3. N[l] = M[l]
    BY <1>8, <2>1, <2>2 DEF Partner
  <2> QED
    BY <1>1, <1>3, <2>1, <2>3
<1>12. ASSUME NEW l \in 1 .. Len(q)
       PROVE  NameIn(N[Len(F) + l].group) = q[(Len(q) + 1) - l]
  <2>1. l \in 1 .. R + 1 /\ Len(F) + l = (L - 1) + l /\ (Len(q) + 1) - l = (R + 2) - l
    BY <1>1, <1>2
  <2>2. CASE l = 1
    <3>1. Len(F) + l = L /\ (Len(q) + 1) - l = R + 1
      BY <1>1, <1>2, <2>1, <2>2
    <3>2. NameIn(N[L].group) = name
      BY <1>8, <1>9 DEF Partner
    <3> QED
      BY <1>2, <3>1, <3>2
  <2>3. CASE l # 1
    <3> DEFINE j == l - 1
               e == L + j
    <3>1. j \in 1 .. R /\ Len(F) + l = e /\ e \in 1 .. L + R /\ L < e /\ (Len(q) + 1) - l = (R + 1) - j
          /\ (R + 1) - j \in 1 .. R
      BY <1>1, <1>2, <2>1, <2>3
    <3>2. NameIn(M[L + j].group) = r[(R + 1) - j]
      BY <1>3, <3>1
    <3> HIDE DEF j
    <3>3. NameIn(M[e].group) = r[(R + 1) - j]
      BY <3>2
    <3> HIDE DEF e
    <3>4. M[e].first # i
      <4>1. M[L].past <= M[e].first /\ M[L].first < M[L].past
        BY <1>6, <1>7, <1>9, <3>1
      <4>2. M[L].past \in Nat /\ M[e].first \in Nat
        BY <1>6, <1>9, <3>1
      <4> QED
        BY <1>9, <4>1, <4>2
    <3>5. NameIn(N[e].group) = NameIn(M[e].group)
      BY <1>8, <3>1, <3>4 DEF Partner
    <3>6. q[(R + 1) - j] = r[(R + 1) - j]
      BY <1>2, <3>1
    <3> QED
      BY <3>1, <3>3, <3>5, <3>6
  <2> QED
    BY <2>2, <2>3
<1>13. Booked(s, f, F, q)
  BY <1>10, <1>11, <1>12 DEF Booked, N
<1> QED
  BY <1>13 DEF s, F, q, i, L

\* What an earlier pass has booked stays: it asks for nothing here, or for the same name.
LEMMA BookedEarlier ==
  ASSUME NEW t \in Seq(Tokens), NEW f \in Resolving, NEW i, NEW k, Call(t, i, f, k), NEW name \in NameSet,
         NEW g \in Resolving, Earlier(g, f), NEW r \in Seq(NameSet), Booked(t, g, <<>>, r),
         (\E l \in 1 .. Len(r) : r[l] = t[k + 1].name) => name = t[k + 1].name
  PROVE  Booked(Spliced(t, i, Called(Spelling(f), Named(name)), Behind(t, k + 2)), g, <<>>, r)
<1> DEFINE s == Spliced(t, i, Called(Spelling(f), Named(name)), Behind(t, k + 2))
           M == Matches(t, g, Free(t))
           N == Matches(s, g, Free(s))
           n == t[k + 1].name
           R == Len(r)
           none == <<>>
<1>1. Paired(M, N, i, At(g, f, i), n, name)
  BY PairedMatches
<1>2. R \in Nat /\ Len(none) = 0
  BY LenProperties
<1>3. Len(M) = Len(none) + R /\ \A l \in 1 .. R : NameIn(M[Len(none) + l].group) = r[(R + 1) - l]
  BY DEF Booked
<1> HIDE DEF M, N, s, R, none
<1>4. Len(N) = R /\ Len(M) = R /\ \A l \in 1 .. R : 0 + l = l
  BY <1>1, <1>2, <1>3 DEF Paired
<1>5. ASSUME NEW l \in 1 .. R
      PROVE  NameIn(N[Len(none) + l].group) = r[(R + 1) - l]
  <2>1. NameIn(M[l].group) = r[(R + 1) - l] /\ (R + 1) - l \in 1 .. R /\ Len(none) + l = l
    BY <1>2, <1>3, <1>4
  <2>2. Partner(M[l], N[l], i, At(g, f, i), n, name)
    BY <1>1, <1>4 DEF Paired
  <2>3. CASE M[l].first = At(g, f, i)
    <3>1. NameIn(M[l].group) = n /\ NameIn(N[l].group) = name
      BY <2>2, <2>3 DEF Partner
    <3>2. r[(R + 1) - l] = n
      BY <2>1, <3>1
    <3>3. name = n
      BY <2>1, <3>2 DEF R
    <3> QED
      BY <2>1, <3>1, <3>3
  <2>4. CASE M[l].first # At(g, f, i)
    <3>1. NameIn(N[l].group) = NameIn(M[l].group)
      BY <2>2, <2>4 DEF Partner
    <3> QED
      BY <2>1, <3>1
  <2> QED
    BY <2>3, <2>4
<1>6. Len(N) = Len(none) + Len(r) /\ \A l \in 1 .. Len(none) : N[l] = none[l]
  BY <1>2, <1>4 DEF R
<1>7. Booked(s, g, none, r)
  BY <1>5, <1>6 DEF Booked, N, R
<1> QED
  BY <1>7 DEF s, none
-----------------------------------------------------------------------------
\* What is recorded of a text while it is prepared.
\* What has been recorded of the text as it is now, pass by pass.
BookedAt(q) ==
  LET g == Passes[q]
  IN /\ q > pass => recorded[g] = <<>>
     /\ q = pass => Booked(source, g, pending, recorded[g])
     /\ q < pass => Booked(source, g, <<>>, recorded[g])
RecordedAnswers ==
  \A g \in Resolving : \A l \in 1 .. Len(recorded[g]) : \E answer \in answers :
    recorded[g][l] = Written(answer.outcome) /\ answer.outcome.kind \notin {"failure", "exception"}
BlankBefore(t) == t # <<>> /\ t[1] = Blank
Sound == ~BlankBefore(original) /\ PathsLast /\ NamesOnly /\ ~rejected
BookedInv == RecordedAnswers /\ (Sound => ~BlankBefore(source) /\ \A q \in 3 .. 5 : BookedAt(q))

LEMMA AnswersGrow ==
  ASSUME TextTyped, [TextNext]_<<vars, text_vars>>
  PROVE  /\ answers \subseteq answers' /\ world' = world /\ original' = original
         /\ Sound' => Sound
<1>1. answers \subseteq answers' /\ world' = world
  <2>1. CASE ExpandSpecifier
    <3>1. PICK outcome : ExpandsTo(outcome)
      BY <2>1, Expands
    <3> QED
      BY <3>1 DEF ExpandsTo, resolve_require_path
  <2>2. CASE OtherScripts
    BY <2>2 DEF OtherScripts, Next, ExpandOnce, ExpandAgain, resolve_require_path
  <2>3. CASE BeginPass \/ ReplaceSpecifier \/ UNCHANGED <<vars, text_vars>>
    BY <2>3 DEF BeginPass, ReplaceSpecifier, vars
  <2> QED
    BY <2>1, <2>2, <2>3 DEF TextNext
<1>2. original' = original
  BY DEF TextNext, BeginPass, ReplaceSpecifier, ExpandSpecifier, OtherScripts, text_vars
<1>3. ~rejected' => ~rejected
  BY DEF TextNext, BeginPass, ReplaceSpecifier, ExpandSpecifier, OtherScripts, text_vars
<1>4. PathsLast' => PathsLast
  BY <1>1 DEF PathsLast, IsDirectory, Exists
<1>5. NamesOnly' => NamesOnly
  BY <1>1 DEF NamesOnly
<1>6. BlankBefore(original)' <=> BlankBefore(original)
  BY <1>2 DEF BlankBefore
<1> QED
  BY <1>1, <1>2, <1>3, <1>4, <1>5, <1>6 DEF Sound

LEMMA BookedInitially == TextInit => BookedInv
<1> SUFFICES ASSUME TextInit
             PROVE  BookedInv
  OBVIOUS
<1>1. source = original /\ pass = 0 /\ recorded = [fname \in Resolving |-> <<>>]
  BY DEF TextInit
<1>2. \A q \in 3 .. 5 : BookedAt(q)
  <2> SUFFICES ASSUME NEW q \in 3 .. 5
               PROVE  BookedAt(q)
    OBVIOUS
  <2>1. Passes[q] \in Resolving
    BY PassesAre
  <2> QED
    BY <1>1, <2>1 DEF BookedAt
<1>3. RecordedAnswers
  BY <1>1 DEF RecordedAnswers
<1> QED
  BY <1>1, <1>2, <1>3 DEF BookedInv, Sound

LEMMA PassesInOrder ==
  \A q, p \in 3 .. 5 : /\ Passes[q] \in Resolving /\ Passes[p] \in Resolving
                       /\ q < p => Earlier(Passes[q], Passes[p]) /\ Passes[q] # Passes[p]
                       /\ q = p <=> Passes[q] = Passes[p]
<1>1. \A q \in 3 .. 5 : q = 3 \/ q = 4 \/ q = 5
  OBVIOUS
<1> QED
  BY <1>1, PassesAre DEF Earlier, Resolving

\* What is recorded stands for what has been found, which the next call finds again.
LEMMA RecordedAgain ==
  ASSUME TextTyped, RecordedAnswers, PathsLast, NEW outcome, ExpandsTo(outcome), NEW g \in Resolving,
         NEW l \in 1 .. Len(recorded[g]), recorded[g][l] = NameIn(pending[Len(pending)].group),
         NameIn(pending[Len(pending)].group) # NoName
  PROVE  Written(outcome) = recorded[g][l]
<1> DEFINE n == recorded[g][l]
<1>1. PICK answer \in answers : n = Written(answer.outcome) /\ answer.outcome.kind \notin {"failure", "exception"}
  BY DEF RecordedAnswers
<1>2. answer.call \in 1 .. calls /\ calls \in Nat /\ Answered(answer.outcome)
  BY DEF TextTyped, AnswersInv, ResolutionInv
<1>3. Problem = <<>> /\ outcome = Answer(Known, ScriptDir, n)
  <2>1. calls > 0
    BY <1>2
  <2>2. config_file_initialized
    BY <2>1 DEF TextTyped, ResolutionInv
  <2>3. Problem = <<>>
    BY <2>2 DEF Problem
  <2> QED
    BY <2>3 DEF ExpandsTo
<1>4. answer.outcome.kind = "path"
  <2> SUFFICES ASSUME answer.outcome.kind # "path"
               PROVE  FALSE
    OBVIOUS
  <2>1. answer.outcome = Message
    BY <1>1, <1>2 DEF Answered, Failure, Exception, Path
  <2>2. n = NoName
    BY <1>1, <2>1 DEF Written, Message, NoName
  <2> QED
    BY <2>2
<1>5. ~IsDirectory(answer.outcome.path)
  BY <1>4 DEF PathsLast
<1>6. Answer(Known, ScriptDir, Written(answer.outcome)) = answer.outcome
  BY <1>4, <1>5, WrittenLeadsBack DEF TextTyped
<1> QED
  BY <1>1, <1>3, <1>6

LEMMA RecordedAnswersStep ==
  ASSUME TextTyped, RecordedAnswers, [TextNext]_<<vars, text_vars>>
  PROVE  RecordedAnswers'
<1>1. answers \subseteq answers'
  BY AnswersGrow
<1>2. CASE recorded' = recorded
  BY <1>1, <1>2 DEF RecordedAnswers
<1>3. CASE recorded' # recorded
  <2>1. ExpandSpecifier
    BY <1>3, Replaces DEF TextNext, BeginPass, OtherScripts, text_vars
  <2>2. PICK outcome : ExpandsTo(outcome)
    BY <2>1, Expands
  <2> DEFINE f == Passes[pass]
             name == Written(outcome)
  <2>3. /\ recorded' = [recorded EXCEPT ![f] = Append(@, name)] /\ outcome.kind \notin {"failure", "exception"}
        /\ f \in Resolving
        /\ [call |-> calls', base |-> ScriptDir, name |-> NameIn(pending[Len(pending)].group), outcome |-> outcome]
             \in answers'
    BY <1>3, <2>2 DEF ExpandsTo
  <2>4. \E answer \in answers' : answer.outcome = outcome
    BY <2>3
  <2>5. recorded \in [Resolving -> Seq(NameSet)]
    BY DEF TextTyped
  <2>6. ASSUME NEW g \in Resolving, NEW l \in 1 .. Len(recorded'[g])
        PROVE  \E answer \in answers' :
                 recorded'[g][l] = Written(answer.outcome) /\ answer.outcome.kind \notin {"failure", "exception"}
    <3>1. recorded[g] \in Seq(NameSet) /\ Len(recorded[g]) \in Nat
      BY <2>5, LenProperties
    <3>2. CASE g # f
      <4>1. recorded'[g] = recorded[g]
        BY <2>3, <2>5, <3>2
      <4> QED
        BY <1>1, <2>6, <4>1 DEF RecordedAnswers
    <3>3. CASE g = f
      <4>1. recorded'[g] = Append(recorded[g], name)
        BY <2>3, <2>5, <3>3
      <4> HIDE DEF name, f
      <4>2. Len(recorded'[g]) = Len(recorded[g]) + 1
        BY <3>1, <4>1
      <4>3. CASE l = Len(recorded[g]) + 1
        <5>1. recorded'[g][l] = name
          BY <3>1, <4>1, <4>3
        <5> QED
          BY <2>3, <2>4, <5>1 DEF name
      <4>4. CASE l # Len(recorded[g]) + 1
        <5>1. l \in 1 .. Len(recorded[g])
          BY <2>6, <3>1, <4>2, <4>4
        <5>2. recorded'[g][l] = recorded[g][l]
          BY <3>1, <4>1, <5>1
        <5> QED
          BY <1>1, <5>1, <5>2 DEF RecordedAnswers
      <4> QED
        BY <4>3, <4>4
    <3> QED
      BY <3>2, <3>3
  <2> QED
    BY <2>6 DEF RecordedAnswers
<1> QED
  BY <1>2, <1>3

LEMMA BeginBooks ==
  ASSUME TextTyped, BookedInv, Sound, BeginPass
  PROVE  ~BlankBefore(source') /\ \A q \in 3 .. 5 : BookedAt(q)'
<1>1. /\ pass < 5 /\ pending = <<>> /\ pass' = pass + 1 /\ source' = source /\ recorded' = recorded
      /\ pass \in 0 .. 5 /\ source \in Seq(Tokens) /\ ~BlankBefore(source)
  BY PassesAre DEF BeginPass, TextTyped, BookedInv
<1>2. PICK beyond \in BOOLEAN :
        pending' = Matches(source, Passes[pass + 1], {i \in DOMAIN source : is_global_scope(source, i, beyond)})
  BY DEF BeginPass
<1>3. pending' = Matches(source, Passes[pass'], Free(source))
  BY <1>1, <1>2, ScopeIsFree DEF BlankBefore
<1>4. ASSUME NEW q \in 3 .. 5
      PROVE  BookedAt(q)'
  <2> DEFINE g == Passes[q]
             none == <<>>
  <2>1. BookedAt(q)
    BY DEF BookedInv
  <2>2. q > pass' => recorded'[g] = <<>>
    BY <1>1, <2>1 DEF BookedAt
  <2>3. q = pass' => Booked(source', g, pending', recorded'[g])
    <3> SUFFICES ASSUME q = pass'
                 PROVE  Booked(source', g, pending', recorded'[g])
      OBVIOUS
    <3>1. recorded[g] = none
      BY <1>1, <2>1 DEF BookedAt
    <3>2. Len(none) = 0 /\ Len(pending') \in Nat
      <4>1. pending' \in Seq(Hits(source))
        BY <1>1, <1>3, PassesAre, MatchesInOrder
      <4> QED
        BY <4>1, LenProperties
    <3> HIDE DEF none
    <3>3. Booked(source, g, pending', none)
      <4> DEFINE P == pending'
      <4>1. P = Matches(source, g, Free(source)) /\ Len(P) = Len(P) + Len(none) /\ \A l \in 1 .. Len(none) : FALSE
        BY <1>3, <3>2
      <4> HIDE DEF P
      <4>2. Booked(source, g, P, none)
        BY <4>1 DEF Booked
      <4> QED
        BY <4>2 DEF P
    <3> QED
      BY <1>1, <3>1, <3>3
  <2>4. q < pass' => Booked(source', g, <<>>, recorded'[g])
    <3> SUFFICES ASSUME q < pass'
                 PROVE  Booked(source', g, <<>>, recorded'[g])
      OBVIOUS
    <3>1. q = pass \/ q < pass
      BY <1>1
    <3>2. Booked(source, g, <<>>, recorded[g])
      BY <1>1, <2>1, <3>1 DEF BookedAt
    <3> QED
      BY <1>1, <3>2
  <2> QED
    BY <2>2, <2>3, <2>4 DEF BookedAt
<1> QED
  BY <1>1, <1>4

LEMMA ReplaceBooks ==
  ASSUME TextTyped, BookedInv, Sound, ReplaceSpecifier
  PROVE  ~BlankBefore(source') /\ \A q \in 3 .. 5 : BookedAt(q)'
<1> DEFINE m == pending[Len(pending)]
<1>1. /\ pending # <<>> /\ UNCHANGED <<pass, recorded>> /\ pass > 0 /\ Passes[pass] \notin Resolving
      /\ source' = source \/ \E new \in to_string(Passes[pass], m.group) :
                               source' = Spliced(source, m.first, new, m.past)
  BY Replaces
<1>2. pass \in 0 .. 5 /\ ~(pass > 2)
  <2>1. pass \in 1 .. 5
    BY <1>1 DEF TextTyped
  <2> QED
    BY <1>1, <2>1, PassesAre
<1>3. \A q \in 3 .. 5 : BookedAt(q)'
  <2> SUFFICES ASSUME NEW q \in 3 .. 5
               PROVE  BookedAt(q)'
    OBVIOUS
  <2>1. BookedAt(q) /\ q > pass /\ ~(q = pass) /\ ~(q < pass)
    BY <1>2 DEF BookedInv
  <2> QED
    BY <1>1, <2>1 DEF BookedAt
<1>4. ~BlankBefore(source')
  <2>1. CASE source' = source
    BY <2>1 DEF BookedInv
  <2>2. CASE \E new \in to_string(Passes[pass], m.group) : source' = Spliced(source, m.first, new, m.past)
    <3>1. PICK new \in to_string(Passes[pass], m.group) : source' = Spliced(source, m.first, new, m.past)
      BY <2>2
    <3>2. new \in Seq(Tokens) /\ Len(new) > 0 /\ new[1] = Open /\ Len(new) \in Nat
      BY ReplacementTyped, LenProperties
    <3>3. m.first \in 1 .. Len(source) + 1 /\ m.past \in m.first .. Len(source) + 1
      BY <1>1, <3>2, WaitingKept DEF TextTyped
    <3> HIDE DEF m
    <3>4. /\ \A j \in 1 .. m.first - 1 : source'[j] = source[j]
          /\ \A j \in 1 .. Len(new) : source'[m.first - 1 + j] = new[j]
      BY <3>1, <3>2, <3>3, SplicedIs DEF TextTyped
    <3>5. CASE m.first = 1
      <4>1. m.first - 1 + 1 = 1 /\ 1 \in 1 .. Len(new)
        BY <3>2, <3>5
      <4>2. source'[1] = Open
        BY <3>2, <3>4, <4>1
      <4> QED
        BY <4>2, FixedTokens DEF BlankBefore, Blank, Token
    <3>6. CASE m.first # 1
      <4>1. 1 \in 1 .. m.first - 1 /\ Len(source) \in Nat /\ Len(source) # 0
        BY <3>3, <3>6, LenProperties DEF TextTyped
      <4>2. source'[1] = source[1] /\ source # <<>>
        BY <3>4, <4>1
      <4> QED
        BY <4>2 DEF BlankBefore, BookedInv
    <3> QED
      BY <3>5, <3>6
  <2> QED
    BY <1>1, <2>1, <2>2
<1> QED
  BY <1>3, <1>4

LEMMA ExpandBooks ==
  ASSUME TextTyped, BookedInv, Sound, ExpandSpecifier, Sound'
  PROVE  ~BlankBefore(source') /\ \A q \in 3 .. 5 : BookedAt(q)'
<1> DEFINE L == Len(pending)
           m == pending[L]
           f == Passes[pass]
           n == NameIn(m.group)
<1>1. PICK outcome : ExpandsTo(outcome)
  BY Expands
<1> DEFINE name == Written(outcome)
<1>2. /\ pending # <<>> /\ pending' = Front(pending) /\ f \in Resolving /\ pass > 0 /\ name \in NameSet /\ n # NoName
      /\ source' = Spliced(source, m.first, Called(Spelling(f), Named(name)), m.past)
      /\ recorded' = [recorded EXCEPT ![f] = Append(@, name)]
  <2>1. n # NoName
    BY <1>1 DEF ExpandsTo, Sound, NamesOnly
  <2>2. rejected' # TRUE
    BY DEF Sound
  <2> QED
    BY <1>1, <2>1, <2>2 DEF ExpandsTo
<1>3. pass \in 3 .. 5 /\ pass' = pass
  <2>1. pass \in 1 .. 5 /\ pass' = pass
    BY <1>2 DEF TextTyped, ExpandSpecifier
  <2> QED
    BY <1>2, <2>1, PassesAre
<1>4. /\ source \in Seq(Tokens) /\ recorded \in [Resolving -> Seq(NameSet)] /\ recorded[f] \in Seq(NameSet)
      /\ Waiting(source, pending)
  BY <1>2 DEF TextTyped
<1>5. Booked(source, f, pending, recorded[f])
  BY <1>3 DEF BookedInv, BookedAt
<1>6. PICK k : Call(source, m.first, f, k) /\ m.past = Behind(source, k + 2) /\ n = source[k + 1].name
  <2> HIDE DEF f
  <2> QED
    BY <1>2, <1>4, <1>5, LastIsCall
<1>7. source' # <<>> /\ (source[1] # Blank => source'[1] # Blank) /\ source # <<>>
  <2>1. source' = Spliced(source, m.first, Called(Spelling(f), Named(name)), Behind(source, k + 2))
    BY <1>2, <1>6
  <2> HIDE DEF f, m, name
  <2>2. source' # <<>> /\ (source[1] # Blank => source'[1] # Blank)
    <3> DEFINE i == m.first
               s == Spliced(source, i, Called(Spelling(f), Named(name)), Behind(source, k + 2))
               l == i + Size(f) + 1
    <3>1. source \in Seq(Tokens) /\ f \in Resolving /\ Call(source, i, f, k) /\ name \in NameSet
      BY <1>2, <1>4, <1>6
    <3> HIDE DEF i
    <3>2. /\ s \in Seq(Tokens) /\ s[l + 1].name = name /\ s # <<>> /\ (source[1] # Blank => s[1] # Blank)
          /\ \E d \in Int : Spliceable(source, s, i, f, k, l, d)
      BY <3>1, CallSpliced
    <3>3. source' = s
      BY <2>1 DEF i
    <3> HIDE DEF s
    <3> QED
      BY <3>2, <3>3
  <2>3. m.first \in 1 .. Len(source)
    BY <1>6 DEF Call
  <2>4. source # <<>>
    <3>1. Len(source) \in Nat /\ Len(source) # 0
      BY <1>4, <2>3, LenProperties
    <3> QED
      BY <3>1
  <2> QED
    BY <2>2, <2>4
<1>8. ~BlankBefore(source')
  BY <1>7 DEF BlankBefore, BookedInv
<1>9. ASSUME NEW q \in 3 .. 5
      PROVE  BookedAt(q)'
  <2> DEFINE g == Passes[q]
  <2>1. BookedAt(q) /\ g \in Resolving
    BY PassesInOrder DEF BookedInv
  <2>2. CASE q = pass
    <3>1. recorded'[f] = Append(recorded[f], name)
      BY <1>2, <1>4
    <3>2. Booked(source', f, pending', recorded'[f])
      <4> HIDE DEF f, name
      <4> QED
        BY <1>2, <1>4, <1>5, <1>6, <3>1, BookedKept
    <3> QED
      BY <1>3, <2>2, <3>2 DEF BookedAt
  <2>3. CASE q > pass
    <3>1. recorded'[g] = recorded[g]
      BY <1>2, <1>3, <1>4, <2>1, <2>3, PassesInOrder
    <3> QED
      BY <1>3, <2>1, <2>3, <3>1 DEF BookedAt
  <2>4. CASE q < pass
    <3>1. recorded'[g] = recorded[g] /\ Earlier(g, f)
      BY <1>2, <1>3, <1>4, <2>1, <2>4, PassesInOrder
    <3>2. Booked(source, g, <<>>, recorded[g])
      BY <2>1, <2>4 DEF BookedAt
    <3>3. recorded[g] \in Seq(NameSet)
      BY <1>4, <2>1
    <3>4. (\E l \in 1 .. Len(recorded[g]) : recorded[g][l] = source[k + 1].name) => name = source[k + 1].name
      <4> HIDE DEF g, name
      <4> SUFFICES ASSUME NEW l \in 1 .. Len(recorded[g]), recorded[g][l] = source[k + 1].name
                   PROVE  name = source[k + 1].name
        OBVIOUS
      <4>1. recorded[g][l] = n
        BY <1>6
      <4>2. Written(outcome) = recorded[g][l]
        BY <1>1, <1>2, <2>1, <4>1, RecordedAgain DEF BookedInv, Sound
      <4> QED
        BY <4>2 DEF name
    <3>5. Booked(source', g, <<>>, recorded[g])
      <4>1. source' = Spliced(source, m.first, Called(Spelling(f), Named(name)), Behind(source, k + 2))
        BY <1>2, <1>6
      <4> DEFINE i == m.first
      <4>2. source' = Spliced(source, i, Called(Spelling(f), Named(name)), Behind(source, k + 2)) /\ Call(source, i, f, k)
        BY <1>6, <4>1
      <4> HIDE DEF f, g, name, i
      <4> QED
        BY <1>2, <1>4, <2>1, <3>1, <3>2, <3>3, <3>4, <4>2, BookedEarlier
    <3> QED
      BY <1>3, <2>4, <3>1, <3>5 DEF BookedAt
  <2> QED
    BY <1>3, <2>2, <2>3, <2>4
<1> QED
  BY <1>8, <1>9

LEMMA BookedStep == TextTyped /\ BookedInv /\ [TextNext]_<<vars, text_vars>> => BookedInv'
<1> SUFFICES ASSUME TextTyped, BookedInv, [TextNext]_<<vars, text_vars>>
             PROVE  BookedInv'
  OBVIOUS
<1>1. RecordedAnswers'
  BY RecordedAnswersStep DEF BookedInv
<1>2. ASSUME Sound'
      PROVE  ~BlankBefore(source') /\ \A q \in 3 .. 5 : BookedAt(q)'
  <2>0. Sound
    BY <1>2, AnswersGrow
  <2>1. CASE BeginPass
    BY <2>0, <2>1, BeginBooks
  <2>2. CASE ReplaceSpecifier
    BY <2>0, <2>2, ReplaceBooks
  <2>3. CASE ExpandSpecifier
    BY <1>2, <2>0, <2>3, ExpandBooks
  <2>4. CASE OtherScripts \/ UNCHANGED <<vars, text_vars>>
    <3>1. UNCHANGED <<source, pass, pending, recorded>>
      BY <2>4 DEF OtherScripts, text_vars
    <3>2. ~BlankBefore(source) /\ \A q \in 3 .. 5 : BookedAt(q)
      BY <2>0 DEF BookedInv
    <3> QED
      BY <3>1, <3>2 DEF BookedAt
  <2> QED
    BY <2>1, <2>2, <2>3, <2>4 DEF TextNext
<1> QED
  BY <1>1, <1>2 DEF BookedInv, BlankBefore

LEMMA BookedIsAsked ==
  ASSUME NEW t \in Seq(Tokens), NEW g \in Resolving, NEW r \in Seq(NameSet), Booked(t, g, <<>>, r)
  PROVE  r = Reverse(Asked(t, g))
<1> DEFINE M == Matches(t, g, Free(t))
           a == Asked(t, g)
           none == <<>>
           R == Len(r)
<1>1. M \in Seq(Hits(t)) /\ DOMAIN M = 1 .. Len(M) /\ Len(M) \in Nat
  <2>1. M \in Seq(Hits(t))
    BY MatchesInOrder DEF PassNames
  <2> HIDE DEF M
  <2> QED
    BY <2>1, LenProperties
<1>2. a = [i \in DOMAIN M |-> NameIn(M[i].group)]
  BY DEF Asked, Free
<1>3. Len(M) = Len(none) + R /\ \A l \in 1 .. R : NameIn(M[Len(none) + l].group) = r[(R + 1) - l]
  BY DEF Booked
<1>4. R \in Nat /\ Len(none) = 0 /\ \A l \in 1 .. R : Len(none) + l = l
  BY LenProperties
<1> HIDE DEF M, a, none
<1>5. Len(M) = R /\ \A l \in 1 .. R : NameIn(M[l].group) = r[(R + 1) - l]
  BY <1>3, <1>4
<1>6. \A l \in 1 .. R : a[l] = r[(R + 1) - l]
  BY <1>1, <1>2, <1>5
<1>7. a \in Seq(NameSet) /\ Len(a) = R
  <2>1. \A l \in 1 .. R : r[(R + 1) - l] \in NameSet
    BY <1>4, ElementOfSeq
  <2>2. a \in [1 .. R -> NameSet]
    BY <1>1, <1>2, <1>5, <2>1
  <2> QED
    BY <1>4, <2>2
<1> DEFINE b == Reverse(a)
<1>8. b = [i \in 1 .. R |-> a[(R - i) + 1]]
  BY <1>7 DEF Reverse
<1>9. \A i \in 1 .. R : b[i] = r[i]
  <2> SUFFICES ASSUME NEW i \in 1 .. R
               PROVE  b[i] = r[i]
    OBVIOUS
  <2>1. (R - i) + 1 \in 1 .. R /\ (R + 1) - ((R - i) + 1) = i
    BY <1>4
  <2> QED
    BY <1>6, <1>8, <2>1
<1>10. b \in Seq(NameSet) /\ Len(b) = R
  <2>1. b \in [1 .. R -> NameSet]
    <3>1. \A i \in 1 .. R : r[i] \in NameSet
      BY ElementOfSeq
    <3> QED
      BY <1>8, <1>9, <3>1
  <2> HIDE DEF b
  <2> QED
    BY <1>4, <2>1
<1> HIDE DEF b
<1>11. b = r
  BY <1>9, <1>10, SeqEqual
<1> QED
  BY <1>11 DEF a, b

\* What a prepared text asks for by a name that is written out is what preprocessing has
\* recorded, neither more nor less, whatever the calls are spelled like, stand in or next
\* to, and whatever the replacements of other passes write there (preprocessing.cpp:35-66,
\* 133-151).
THEOREM RecordedIsWrittenCorrect == TextSpec => []RecordedIsWritten
<1>1. TextTyped /\ BookedInv => RecordedIsWritten
  <2> SUFFICES ASSUME TextTyped, BookedInv, Prepared, original = <<>> \/ original[1] # Blank, PathsLast,
                      NamesOnly, NEW g \in Resolving
               PROVE  recorded[g] = Reverse(Asked(source, g))
    BY DEF RecordedIsWritten
  <2>1. Sound /\ pass = 5 /\ pending = <<>>
    BY PassesAre DEF Prepared, Sound, BlankBefore
  <2>2. PICK q \in 3 .. 5 : g = Passes[q]
    BY PassesAre DEF Resolving
  <2>3. q = pass \/ q < pass
    BY <2>1
  <2>4. Booked(source, g, <<>>, recorded[g])
    BY <2>1, <2>2, <2>3 DEF BookedInv, BookedAt
  <2> QED
    BY <2>4, BookedIsAsked DEF TextTyped
<1> QED
  BY TextInitially, BookedInitially, TextStep, BookedStep, <1>1, PTL DEF TextSpec
=============================================================================
