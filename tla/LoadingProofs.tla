--------------------------- MODULE LoadingProofs ---------------------------
(***************************************************************************)
(* Proofs about Preprocessing, Loading and CommandLine, for every set of   *)
(* files, their texts, the lists of main scripts, the number of calls and  *)
(* what the command line names.                                            *)
(*                                                                         *)
(* Preparation computes what the main scripts lead to.  Of the scripts     *)
(* that run: in the first call of a process nothing runs that the main     *)
(* scripts do not lead to, and whatever they name is found.  In a second   *)
(* call neither holds: main_scripts and module_scripts are static and keep *)
(* what the first has put there.  The program makes one call, and if that  *)
(* returns, all that its command line names has run.                       *)
(***************************************************************************)
EXTENDS CommandLine, SequenceLemmas, FiniteSetTheorems

-----------------------------------------------------------------------------
(* What a script that does not fail depends on. *)

LEMMA DependenciesOf ==
  ASSUME text \in FileTexts, NEW f \in Files, ~Fails(f)
  PROVE  /\ depends_on_scripts(f) \in Seq(Files) /\ Needs(f) \subseteq Files
         /\ depends_on_std(f) \subseteq Files /\ depends_on_dls(f) \subseteq Files
<1>1. ASSUME NEW c \in Calls \ {"std"}
      PROVE  text[f][c] \in Seq(Files) /\ ToSet(text[f][c]) \subseteq Files
  <2>1. text[f][c] \in Seq(Files \cup {Unresolved})
    BY DEF FileTexts
  <2>2. ToSet(text[f][c]) \subseteq Files \cup {Unresolved}
    BY <2>1, ElementsOf
  <2>3. Unresolved \notin ToSet(text[f][c])
    BY DEF Fails
  <2>4. ToSet(text[f][c]) \subseteq Files
    BY <2>2, <2>3
  <2> QED
    BY <2>1, <2>4, SequenceOfElements
<1>2. ASSUME NEW s \in Seq(Files)
      PROVE  Reverse(s) \in Seq(Files) /\ ToSet(Reverse(s)) \subseteq Files
  BY ElementsOfReverse, ElementsOf
<1>3. /\ text[f]["require"] \in Seq(Files) /\ text[f]["dlload"] \in Seq(Files)
      /\ text[f]["dlrequire"] \in Seq(Files) /\ ToSet(text[f]["std"]) \subseteq Files
  <2>1. text[f]["std"] \in Seq(Files)
    BY DEF FileTexts
  <2> QED
    BY <1>1, <2>1, ElementsOf DEF Calls
<1>4. text[f]["dlrequire"] \o text[f]["require"] \in Seq(Files)
  BY <1>3, ElementsOfConcat
<1>5. depends_on_scripts(f) \in Seq(Files) /\ Needs(f) \subseteq Files
  BY <1>2, <1>4 DEF depends_on_scripts, Expand, Needs
<1>6. depends_on_dls(f) \subseteq Files
  BY <1>2, <1>3 DEF depends_on_dls, Expand
<1> QED
  BY <1>3, <1>5, <1>6 DEF depends_on_std

-----------------------------------------------------------------------------
(* Type correctness. *)

LEMMA InitType == Init => TypeOK
<1> SUFFICES ASSUME Init PROVE TypeOK
  OBVIOUS
<1>1. text \in FileTexts
  BY TextsAssumption DEF Init
<1>2. <<>> \in Seq(Files)
  OBVIOUS
<1>3. runs \in 0 .. MaxRuns
  BY FilesAssumption DEF Init
<1> QED
  BY <1>1, <1>2, <1>3 DEF Init, TypeOK, Phases

LEMMA StartType ==
  ASSUME TypeOK, NEW given \in Seq(Files), Start(given)
  PROVE  TypeOK'
<1>1. <<>> \in Seq(Files)
  OBVIOUS
<1>2. runs' \in 0 .. MaxRuns
  BY FilesAssumption DEF TypeOK, Start
<1> QED
  BY <1>1, <1>2 DEF TypeOK, Start, statics, Phases, Preparing

\* What PreprocessMain does with a script that does not fail.
LEMMA MainStep ==
  ASSUME TypeOK, PreprocessMain, ~Fails(Head(args))
  PROVE  /\ Head(args) \in Files /\ Tail(args) \in Seq(Files)
         /\ ToSet(args) = {Head(args)} \cup ToSet(Tail(args))
         /\ queue' \in Seq(Files)
         /\ ToSet(queue') = ToSet(queue) \cup Needs(Head(args))
         /\ main_scripts' \in Seq(Files)
         /\ depends_on_std(Head(args)) \subseteq Files
         /\ depends_on_dls(Head(args)) \subseteq Files
         /\ std_dependencies' = std_dependencies \cup depends_on_std(Head(args))
         /\ dl_dependencies' = dl_dependencies \cup depends_on_dls(Head(args))
         /\ args' = Tail(args)
         /\ UNCHANGED <<text, phase, scripts, processed, loading, module_scripts,
                        loaded_dlmodules, runs>>
<1> DEFINE f == Head(args)
           more == depends_on_scripts(f)
<1>1. f \in Files /\ Tail(args) \in Seq(Files) /\ ToSet(args) = {f} \cup ToSet(Tail(args))
  BY ElementsOfTail DEF TypeOK, PreprocessMain
<1>2. more \in Seq(Files) /\ depends_on_std(f) \subseteq Files /\ depends_on_dls(f) \subseteq Files
  BY <1>1, DependenciesOf DEF TypeOK
<1>3. /\ queue' = queue \o more
      /\ std_dependencies' = std_dependencies \cup depends_on_std(f)
      /\ dl_dependencies' = dl_dependencies \cup depends_on_dls(f)
      /\ main_scripts' = Append(main_scripts, f) /\ args' = Tail(args)
      /\ UNCHANGED <<text, phase, scripts, processed, loading, module_scripts,
                     loaded_dlmodules, runs>>
  BY DEF PreprocessMain, register_script_dependencies
<1>4. Needs(f) = ToSet(more)
  BY DEF Needs
<1> HIDE DEF f, more
<1>5. queue \o more \in Seq(Files) /\ ToSet(queue \o more) = ToSet(queue) \cup Needs(f)
  BY <1>2, <1>4, ElementsOfConcat DEF TypeOK
<1>6. Append(main_scripts, f) \in Seq(Files)
  BY <1>1, ElementsOfAppend DEF TypeOK
<1> QED
  BY <1>1, <1>2, <1>3, <1>5, <1>6 DEF f

LEMMA PreprocessMainType ==
  ASSUME TypeOK, PreprocessMain
  PROVE  TypeOK'
<1>1. CASE Fails(Head(args))
  BY <1>1 DEF TypeOK, PreprocessMain, local, Phases
<1>2. CASE ~Fails(Head(args))
  BY <1>2, MainStep DEF TypeOK
<1> QED
  BY <1>1, <1>2

LEMMA SkipModuleType ==
  ASSUME TypeOK, SkipModule
  PROVE  TypeOK'
<1>1. Tail(queue) \in Seq(Files)
  BY ElementsOfTail DEF TypeOK, SkipModule
<1> QED
  BY <1>1 DEF TypeOK, SkipModule, statics

\* What PreprocessModule does with a module that does not fail.
LEMMA ModuleStep ==
  ASSUME TypeOK, PreprocessModule, ~Fails(Head(queue))
  PROVE  /\ Head(queue) \in Files /\ Tail(queue) \in Seq(Files)
         /\ depends_on_scripts(Head(queue)) \in Seq(Files)
         /\ ToSet(queue) = {Head(queue)} \cup ToSet(Tail(queue))
         /\ queue' \in Seq(Files)
         /\ ToSet(queue') = ToSet(Tail(queue)) \cup Needs(Head(queue))
         /\ depends_on_std(Head(queue)) \subseteq Files
         /\ depends_on_dls(Head(queue)) \subseteq Files
         /\ std_dependencies' = std_dependencies \cup depends_on_std(Head(queue))
         /\ dl_dependencies' = dl_dependencies \cup depends_on_dls(Head(queue))
         /\ processed' = processed \cup {Head(queue)}
         /\ module_scripts' = module_scripts \cup {Head(queue)}
         /\ UNCHANGED <<text, phase, scripts, args, loading, main_scripts,
                        loaded_dlmodules, runs>>
<1> DEFINE f == Head(queue)
<1>1. f \in Files /\ Tail(queue) \in Seq(Files) /\ ToSet(queue) = {f} \cup ToSet(Tail(queue))
  BY ElementsOfTail DEF TypeOK, PreprocessModule
<1>2. /\ depends_on_scripts(f) \in Seq(Files)
      /\ depends_on_std(f) \subseteq Files /\ depends_on_dls(f) \subseteq Files
  BY <1>1, DependenciesOf DEF TypeOK
<1>3. /\ queue' = Tail(queue) \o depends_on_scripts(f)
      /\ std_dependencies' = std_dependencies \cup depends_on_std(f)
      /\ dl_dependencies' = dl_dependencies \cup depends_on_dls(f)
      /\ processed' = processed \cup {f} /\ module_scripts' = module_scripts \cup {f}
      /\ UNCHANGED <<text, phase, scripts, args, loading, main_scripts,
                     loaded_dlmodules, runs>>
  BY DEF PreprocessModule, Register, register_script_dependencies
<1> HIDE DEF f
<1>4. /\ Tail(queue) \o depends_on_scripts(f) \in Seq(Files)
      /\ ToSet(Tail(queue) \o depends_on_scripts(f)) = ToSet(Tail(queue)) \cup Needs(f)
  <2> DEFINE rest == Tail(queue)
             more == depends_on_scripts(f)
  <2>1. rest \in Seq(Files) /\ more \in Seq(Files)
    BY <1>1, <1>2
  <2> HIDE DEF rest, more
  <2>2. rest \o more \in Seq(Files) /\ ToSet(rest \o more) = ToSet(rest) \cup ToSet(more)
    BY <2>1, ElementsOfConcat
  <2> QED
    BY <2>2 DEF rest, more, Needs
<1>5. queue' \in Seq(Files) /\ ToSet(queue') = ToSet(Tail(queue)) \cup Needs(f)
  BY <1>3, <1>4
<1> QED
  BY <1>1, <1>2, <1>3, <1>5 DEF f

LEMMA PreprocessModuleType ==
  ASSUME TypeOK, PreprocessModule
  PROVE  TypeOK'
<1>1. CASE Fails(Head(queue))
  <2>1. Head(queue) \in Files /\ Tail(queue) \in Seq(Files)
    BY ElementsOfTail DEF TypeOK, PreprocessModule
  <2> QED
    BY <1>1, <2>1 DEF TypeOK, PreprocessModule, Phases
<1>2. CASE ~Fails(Head(queue))
  BY <1>2, ModuleStep DEF TypeOK
<1> QED
  BY <1>1, <1>2

LEMMA InitDlmoduleType ==
  ASSUME TypeOK, NEW l, init_dlmodule(l)
  PROVE  /\ loaded_dlmodules' \subseteq Libraries
         /\ loaded_dlmodules' = loaded_dlmodules \cup {l}
BY DEF TypeOK, init_dlmodule

LEMMA LoadTypeLemma ==
  ASSUME TypeOK, NEW l \in Files,
         LoadStd(l) \/ LoadDl(l) \/ LoadFails("std", l) \/ LoadFails("dls", l)
  PROVE  TypeOK'
<1>1. CASE LoadFails("std", l) \/ LoadFails("dls", l)
  BY <1>1 DEF LoadFails, Load, TypeOK, Phases
<1>2. CASE LoadStd(l) \/ LoadDl(l)
  <2>1. init_dlmodule(l)
    BY <1>2 DEF LoadStd, LoadDl
  <2>2. loaded_dlmodules' \subseteq Libraries
    BY <2>1, InitDlmoduleType
  <2>3. /\ UNCHANGED <<text, scripts, args, queue, processed, std_dependencies,
                       dl_dependencies, main_scripts, module_scripts, runs>>
        /\ loading' = loading \ {l} /\ phase' \in Phases
    BY <1>2 DEF LoadStd, LoadDl, Load, Phases, Preparing
  <2> QED
    BY <2>2, <2>3 DEF TypeOK
<1> QED
  BY <1>1, <1>2

LEMMA TypeIsKept ==
  ASSUME TypeOK, [Next]_vars
  PROVE  TypeOK'
<1>1. CASE \E given \in Arguments : Start(given)
  BY <1>1, StartType, FilesAssumption
<1>2. CASE StartWithoutScripts
  BY <1>2, FilesAssumption DEF StartWithoutScripts, TypeOK, local, statics, Phases
<1>3. CASE PreprocessMain
  BY <1>3, PreprocessMainType
<1>4. CASE MainDone \/ ModulesDone \/ StdDone \/ DlsDone
  BY <1>4 DEF MainDone, ModulesDone, StdDone, DlsDone, TypeOK, local, statics, Phases, Preparing
<1>5. CASE SkipModule
  BY <1>5, SkipModuleType
<1>6. CASE PreprocessModule
  BY <1>6, PreprocessModuleType
<1>7. CASE \E l \in Files :
             LoadFails("std", l) \/ LoadFails("dls", l) \/ LoadStd(l) \/ LoadDl(l)
  BY <1>7, LoadTypeLemma
<1>8. CASE UNCHANGED vars
  BY <1>8 DEF vars, local, statics, TypeOK
<1> QED
  BY <1>1, <1>2, <1>3, <1>4, <1>5, <1>6, <1>7, <1>8 DEF Next, Prepare

\* Type correctness: what TypeOK says of preprocess_dependencies, dluau_init and
\* dluau_run holds for all files, texts and calls.
THEOREM PreprocessingTypeCorrect == Spec => []TypeOK
<1>1. Init => TypeOK
  BY InitType
<1>2. TypeOK /\ [Next]_vars => TypeOK'
  BY TypeIsKept
<1> QED
  BY <1>1, <1>2, PTL DEF Spec

-----------------------------------------------------------------------------
(* What is preprocessed is what the main scripts lead to.                  *)
(*                                                                         *)
(* The argument is that of a graph search: what is known, processed or in  *)
(* the queue, is never more than the least closed set, and what a processed*)
(* script needs is known.  When the queue is empty, the two bounds meet.   *)

Going == phase \in Preparing \cup {"ready"}
Known == processed \cup ToSet(queue)
Taken == processed \cup (ToSet(scripts) \ ToSet(args))

InOrder ==
  /\ phase # "main" => args = <<>>
  /\ phase \notin {"main", "modules"} => queue = <<>>
NeedsAreKnown == \A f \in Taken : Needs(f) \subseteq Known
KnownIsNeeded ==
  \A S \in SUBSET Files : RootNeeds \subseteq S /\ Closed(S) => Known \subseteq S
ProcessedAreModules == ToSet(args) \subseteq ToSet(scripts) /\ processed \subseteq module_scripts
DependenciesAreKept ==
  \A f \in Taken : /\ depends_on_std(f) \subseteq std_dependencies
                   /\ depends_on_dls(f) \subseteq dl_dependencies
LibrariesInOrder ==
  /\ phase = "std" => std_dependencies \subseteq loaded_dlmodules \cup loading
  /\ phase \in {"dls", "ready"} => std_dependencies \subseteq loaded_dlmodules
  /\ phase = "dls" => dl_dependencies \subseteq loaded_dlmodules \cup loading
  /\ phase = "ready" => dl_dependencies \subseteq loaded_dlmodules
SearchInv ==
  Going => /\ InOrder /\ NeedsAreKnown /\ KnownIsNeeded /\ ProcessedAreModules
           /\ DependenciesAreKept /\ LibrariesInOrder

\* The texts of the files do not change, nor does what is read off them.
LEMMA TextStays ==
  ASSUME UNCHANGED text
  PROVE  /\ \A f : /\ Needs(f)' = Needs(f) /\ depends_on_std(f)' = depends_on_std(f)
                   /\ depends_on_dls(f)' = depends_on_dls(f)
         /\ \A S : Closed(S)' = Closed(S)
         /\ UNCHANGED scripts => RootNeeds' = RootNeeds
<1>1. \A f : /\ Needs(f)' = Needs(f) /\ depends_on_std(f)' = depends_on_std(f)
             /\ depends_on_dls(f)' = depends_on_dls(f)
  BY DEF Needs, depends_on_scripts, depends_on_std, depends_on_dls, Expand
<1>2. \A S : Closed(S)' = Closed(S)
  BY <1>1 DEF Closed
<1>3. UNCHANGED scripts => RootNeeds' = RootNeeds
  BY <1>1 DEF RootNeeds
<1> QED
  BY <1>1, <1>2, <1>3

LEMMA StartSearch ==
  ASSUME TypeOK, NEW given \in Seq(Files), Start(given)
  PROVE  SearchInv'
<1>1. phase' = "main" /\ args' = scripts' /\ queue' = <<>> /\ processed' = {}
  BY DEF Start
<1>2. Taken' = {} /\ Known' = {}
  BY <1>1, ElementsOfEmpty DEF Taken, Known
<1> QED
  BY <1>1, <1>2 DEF SearchInv, InOrder, NeedsAreKnown, KnownIsNeeded, ProcessedAreModules,
                    DependenciesAreKept, LibrariesInOrder

LEMMA MainSearch ==
  ASSUME TypeOK, SearchInv, PreprocessMain
  PROVE  SearchInv'
<1> DEFINE f == Head(args)
<1>1. CASE Fails(f)
  BY <1>1 DEF PreprocessMain, SearchInv, Going, Preparing
<1>2. CASE ~Fails(f)
  <2>1. phase = "main" /\ Going
    BY DEF PreprocessMain, Going, Preparing
  <2>2. /\ f \in Files /\ ToSet(args) = {f} \cup ToSet(args')
        /\ ToSet(queue') = ToSet(queue) \cup Needs(f)
        /\ std_dependencies' = std_dependencies \cup depends_on_std(f)
        /\ dl_dependencies' = dl_dependencies \cup depends_on_dls(f)
        /\ UNCHANGED <<text, phase, scripts, processed, module_scripts>>
    BY <1>2, MainStep
  <2> HIDE DEF f
  <2>3. /\ \A g : /\ Needs(g)' = Needs(g) /\ depends_on_std(g)' = depends_on_std(g)
                  /\ depends_on_dls(g)' = depends_on_dls(g)
        /\ \A S : Closed(S)' = Closed(S)
        /\ RootNeeds' = RootNeeds
    BY <2>2, TextStays
  <2>4. Taken' \subseteq Taken \cup {f} /\ Known' = Known \cup Needs(f)
    BY <2>2 DEF Taken, Known
  <2>5. NeedsAreKnown'
    BY <2>1, <2>3, <2>4 DEF SearchInv, NeedsAreKnown
  <2>6. KnownIsNeeded'
    <3> SUFFICES ASSUME NEW S \in SUBSET Files, RootNeeds \subseteq S, Closed(S)
                 PROVE  Known' \subseteq S
      BY <2>3 DEF KnownIsNeeded
    <3>1. Known \subseteq S
      BY <2>1 DEF SearchInv, KnownIsNeeded
    <3>2. f \in ToSet(scripts)
      BY <2>1, <2>2 DEF SearchInv, ProcessedAreModules
    <3>3. Needs(f) \subseteq S
      BY <3>2 DEF RootNeeds
    <3> QED
      BY <2>4, <3>1, <3>3
  <2>7. ProcessedAreModules'
    BY <2>1, <2>2 DEF SearchInv, ProcessedAreModules
  <2>8. DependenciesAreKept'
    BY <2>1, <2>2, <2>3, <2>4 DEF SearchInv, DependenciesAreKept
  <2>9. InOrder' /\ LibrariesInOrder'
    BY <2>1, <2>2 DEF InOrder, LibrariesInOrder
  <2> QED
    BY <2>5, <2>6, <2>7, <2>8, <2>9 DEF SearchInv
<1> QED
  BY <1>1, <1>2

LEMMA SkipSearch ==
  ASSUME TypeOK, SearchInv, SkipModule
  PROVE  SearchInv'
<1>1. /\ phase = "modules" /\ Going /\ Head(queue) \in processed
      /\ UNCHANGED <<text, phase, scripts, args, processed, module_scripts, std_dependencies,
                     dl_dependencies, loading, loaded_dlmodules>>
      /\ queue' = Tail(queue)
  BY DEF SkipModule, Done, statics, Going, Preparing
<1>2. ToSet(queue) = {Head(queue)} \cup ToSet(Tail(queue))
  BY ElementsOfTail DEF SkipModule, TypeOK
<1>3. Known' = Known /\ Taken' = Taken
  BY <1>1, <1>2 DEF Known, Taken
<1>4. /\ \A g : /\ Needs(g)' = Needs(g) /\ depends_on_std(g)' = depends_on_std(g)
                /\ depends_on_dls(g)' = depends_on_dls(g)
      /\ \A S : Closed(S)' = Closed(S)
      /\ RootNeeds' = RootNeeds
  BY <1>1, TextStays
<1>5. NeedsAreKnown' /\ KnownIsNeeded'
  BY <1>1, <1>3, <1>4 DEF SearchInv, NeedsAreKnown, KnownIsNeeded
<1>6. ProcessedAreModules' /\ DependenciesAreKept'
  BY <1>1, <1>3, <1>4 DEF SearchInv, ProcessedAreModules, DependenciesAreKept
<1>7. InOrder' /\ LibrariesInOrder'
  BY <1>1 DEF SearchInv, InOrder, LibrariesInOrder
<1> QED
  BY <1>5, <1>6, <1>7 DEF SearchInv

LEMMA ModuleSearch ==
  ASSUME TypeOK, SearchInv, PreprocessModule
  PROVE  SearchInv'
<1> DEFINE f == Head(queue)
<1>1. CASE Fails(f)
  BY <1>1 DEF PreprocessModule, SearchInv, Going, Preparing
<1>2. CASE ~Fails(f)
  <2>1. phase = "modules" /\ Going
    BY DEF PreprocessModule, Going, Preparing
  <2>2. /\ f \in ToSet(queue) /\ ToSet(queue) \cup Needs(f) = {f} \cup ToSet(queue')
        /\ std_dependencies' = std_dependencies \cup depends_on_std(f)
        /\ dl_dependencies' = dl_dependencies \cup depends_on_dls(f)
        /\ processed' = processed \cup {f} /\ module_scripts' = module_scripts \cup {f}
        /\ UNCHANGED <<text, phase, scripts, args>>
    <3>1. ToSet(queue) = {f} \cup ToSet(Tail(queue))
      BY <1>2, ModuleStep
    <3>2. ToSet(queue') = ToSet(Tail(queue)) \cup Needs(f)
      BY <1>2, ModuleStep
    <3> QED
      BY <1>2, <3>1, <3>2, ModuleStep
  <2> HIDE DEF f
  <2>3. /\ \A g : /\ Needs(g)' = Needs(g) /\ depends_on_std(g)' = depends_on_std(g)
                  /\ depends_on_dls(g)' = depends_on_dls(g)
        /\ \A S : Closed(S)' = Closed(S)
        /\ RootNeeds' = RootNeeds
    BY <2>2, TextStays
  <2>4. Taken' = Taken \cup {f} /\ Known' = Known \cup Needs(f)
    BY <2>2 DEF Taken, Known
  <2>5. NeedsAreKnown'
    BY <2>1, <2>3, <2>4 DEF SearchInv, NeedsAreKnown
  <2>6. KnownIsNeeded'
    <3> SUFFICES ASSUME NEW S \in SUBSET Files, RootNeeds \subseteq S, Closed(S)
                 PROVE  Known' \subseteq S
      BY <2>3 DEF KnownIsNeeded
    <3>1. Known \subseteq S
      BY <2>1 DEF SearchInv, KnownIsNeeded
    <3>2. f \in S
      BY <2>2, <3>1 DEF Known
    <3>3. Needs(f) \subseteq S
      BY <3>2 DEF Closed
    <3> QED
      BY <2>4, <3>1, <3>3
  <2>7. ProcessedAreModules'
    BY <2>1, <2>2 DEF SearchInv, ProcessedAreModules
  <2>8. DependenciesAreKept'
    BY <2>1, <2>2, <2>3, <2>4 DEF SearchInv, DependenciesAreKept
  <2>9. InOrder' /\ LibrariesInOrder'
    BY <2>1, <2>2 DEF SearchInv, InOrder, LibrariesInOrder
  <2> QED
    BY <2>5, <2>6, <2>7, <2>8, <2>9 DEF SearchInv
<1> QED
  BY <1>1, <1>2

\* Once the scripts are preprocessed, only phase and what is loaded change.
LEMMA RestStays ==
  ASSUME SearchInv, phase \in Preparing,
         UNCHANGED <<text, scripts, args, queue, processed, module_scripts,
                     std_dependencies, dl_dependencies>>
  PROVE  /\ NeedsAreKnown' /\ KnownIsNeeded' /\ ProcessedAreModules' /\ DependenciesAreKept'
         /\ InOrder /\ LibrariesInOrder
<1>1. Going
  BY DEF Going
<1>2. Known' = Known /\ Taken' = Taken
  BY DEF Known, Taken
<1>3. /\ \A g : /\ Needs(g)' = Needs(g) /\ depends_on_std(g)' = depends_on_std(g)
                /\ depends_on_dls(g)' = depends_on_dls(g)
      /\ \A S : Closed(S)' = Closed(S)
      /\ RootNeeds' = RootNeeds
  BY TextStays
<1>4. NeedsAreKnown' /\ KnownIsNeeded'
  BY <1>1, <1>2, <1>3 DEF SearchInv, NeedsAreKnown, KnownIsNeeded
<1>5. ProcessedAreModules' /\ DependenciesAreKept'
  BY <1>1, <1>2, <1>3 DEF SearchInv, ProcessedAreModules, DependenciesAreKept
<1> QED
  BY <1>1, <1>4, <1>5 DEF SearchInv

LEMMA PhaseSearch ==
  ASSUME TypeOK, SearchInv, MainDone \/ ModulesDone \/ StdDone \/ DlsDone
  PROVE  SearchInv'
<1>1. /\ phase \in Preparing
      /\ UNCHANGED <<text, scripts, args, queue, processed, module_scripts,
                     std_dependencies, dl_dependencies, loaded_dlmodules>>
  BY DEF MainDone, ModulesDone, StdDone, DlsDone, local, statics, Preparing
<1>2. /\ NeedsAreKnown' /\ KnownIsNeeded' /\ ProcessedAreModules' /\ DependenciesAreKept'
      /\ InOrder /\ LibrariesInOrder
  BY <1>1, RestStays
<1>3. InOrder'
  BY <1>1, <1>2 DEF InOrder, MainDone, ModulesDone, StdDone, DlsDone, Preparing
<1>4. LibrariesInOrder'
  BY <1>1, <1>2 DEF LibrariesInOrder, MainDone, ModulesDone, StdDone, DlsDone, Preparing, local
<1> QED
  BY <1>2, <1>3, <1>4 DEF SearchInv

LEMMA LoadSearch ==
  ASSUME TypeOK, SearchInv, NEW l \in Files,
         LoadStd(l) \/ LoadDl(l) \/ LoadFails("std", l) \/ LoadFails("dls", l)
  PROVE  SearchInv'
<1>1. CASE LoadFails("std", l) \/ LoadFails("dls", l)
  BY <1>1 DEF LoadFails, SearchInv, Going, Preparing
<1>2. CASE LoadStd(l) \/ LoadDl(l)
  <2>1. /\ phase \in Preparing
        /\ UNCHANGED <<text, scripts, args, queue, processed, module_scripts,
                       std_dependencies, dl_dependencies>>
    BY <1>2 DEF LoadStd, LoadDl, Load, Preparing
  <2>2. loaded_dlmodules' = loaded_dlmodules \cup {l}
    BY <1>2, InitDlmoduleType DEF LoadStd, LoadDl
  <2>3. /\ NeedsAreKnown' /\ KnownIsNeeded' /\ ProcessedAreModules' /\ DependenciesAreKept'
        /\ InOrder /\ LibrariesInOrder
    BY <2>1, RestStays
  <2>4. Going' => InOrder' /\ LibrariesInOrder'
    BY <1>2, <2>1, <2>2, <2>3 DEF InOrder, LibrariesInOrder, LoadStd, LoadDl, Load, Going, Preparing
  <2> QED
    BY <2>3, <2>4 DEF SearchInv
<1> QED
  BY <1>1, <1>2

LEMMA SearchIsKept ==
  ASSUME TypeOK, SearchInv, [Next]_vars
  PROVE  SearchInv'
<1>1. CASE \E given \in Arguments : Start(given)
  BY <1>1, StartSearch, FilesAssumption
<1>2. CASE StartWithoutScripts
  BY <1>2 DEF StartWithoutScripts, SearchInv, Going, Preparing
<1>3. CASE PreprocessMain
  BY <1>3, MainSearch
<1>4. CASE MainDone \/ ModulesDone \/ StdDone \/ DlsDone
  BY <1>4, PhaseSearch
<1>5. CASE SkipModule
  BY <1>5, SkipSearch
<1>6. CASE PreprocessModule
  BY <1>6, ModuleSearch
<1>7. CASE \E l \in Files :
             LoadFails("std", l) \/ LoadFails("dls", l) \/ LoadStd(l) \/ LoadDl(l)
  BY <1>7, LoadSearch
<1>8. CASE UNCHANGED vars
  <2>1. UNCHANGED <<text, phase, scripts, args, queue, processed, module_scripts,
                    std_dependencies, dl_dependencies, loading, loaded_dlmodules>>
    BY <1>8 DEF vars, local, statics
  <2>2. Known' = Known /\ Taken' = Taken /\ Going' = Going
    BY <2>1 DEF Known, Taken, Going
  <2> QED
    BY <2>1, <2>2, TextStays DEF SearchInv, NeedsAreKnown, KnownIsNeeded, InOrder,
         ProcessedAreModules, DependenciesAreKept, LibrariesInOrder
<1> QED
  BY <1>1, <1>2, <1>3, <1>4, <1>5, <1>6, <1>7, <1>8 DEF Next, Prepare

LEMMA SearchInvariant == Spec => []SearchInv
<1>1. Init => SearchInv
  BY DEF Init, SearchInv, Going, Preparing
<1>2. TypeOK /\ SearchInv /\ [Next]_vars => SearchInv'
  BY SearchIsKept
<1> QED
  BY <1>1, <1>2, PreprocessingTypeCorrect, PTL DEF Spec

\* When the scripts are about to run, what preprocess_dependencies has processed is
\* the least set of files that holds what the main scripts require and is closed
\* under require, and all of it is in module_scripts.
THEOREM ReachableCorrect == Spec => []ModulesAreTheReachable
<1>1. SearchInv => ModulesAreTheReachable
  <2> SUFFICES ASSUME SearchInv, phase = "ready"
               PROVE  /\ RootNeeds \subseteq processed /\ Closed(processed)
                      /\ \A S \in SUBSET Files :
                           RootNeeds \subseteq S /\ Closed(S) => processed \subseteq S
                      /\ processed \subseteq module_scripts
    BY DEF ModulesAreTheReachable
  <2>1. /\ InOrder /\ NeedsAreKnown /\ KnownIsNeeded /\ ProcessedAreModules
    BY DEF SearchInv, Going
  <2>2. Known = processed /\ Taken = processed \cup ToSet(scripts)
    BY <2>1, ElementsOfEmpty DEF InOrder, Known, Taken
  <2>3. RootNeeds \subseteq processed /\ Closed(processed)
    BY <2>1, <2>2 DEF NeedsAreKnown, RootNeeds, Closed
  <2> QED
    BY <2>1, <2>2, <2>3 DEF KnownIsNeeded, ProcessedAreModules
<1> QED
  BY <1>1, SearchInvariant, PTL

\* By then the libraries that the main scripts or the processed ones name are loaded.
THEOREM LibrariesCorrect == Spec => []LibrariesAreLoaded
<1>1. SearchInv => LibrariesAreLoaded
  <2> SUFFICES ASSUME SearchInv, phase = "ready",
                      NEW f \in ToSet(scripts) \cup processed
               PROVE  depends_on_std(f) \cup depends_on_dls(f) \subseteq loaded_dlmodules
    BY DEF LibrariesAreLoaded
  <2>1. InOrder /\ DependenciesAreKept /\ LibrariesInOrder
    BY DEF SearchInv, Going
  <2>2. f \in Taken
    BY <2>1, ElementsOfEmpty DEF InOrder, Taken
  <2> QED
    BY <2>1, <2>2 DEF DependenciesAreKept, LibrariesInOrder
<1> QED
  BY <1>1, SearchInvariant, PTL

-----------------------------------------------------------------------------
(* Types. *)

\* What LoadTypeOK says beyond TypeOK, and that nothing runs but in the phase for it.
StackInv ==
  /\ next_script \in Nat \ {0} /\ stack \in Seq(Files) /\ Len(stack) <= MaxDepth
  /\ suspended \subseteq Files /\ loaded_module_scripts \subseteq Files
  /\ loads \in [Files -> Nat] /\ refused \subseteq Files \X Calls \X Files /\ requires \in Nat
  /\ phase # "ready" => stack = <<>>

LEMMA EmptyStack ==
  /\ <<>> \in Seq(Files) /\ Len(<<>>) = 0 /\ Len(<<>>) <= MaxDepth /\ ToSet(<<>>) = {}
<1>1. <<>> \in Seq(Files) /\ Len(<<>>) = 0
  OBVIOUS
<1>2. 0 <= MaxDepth
  BY LoadingAssumption
<1> QED
  BY <1>1, <1>2, ElementsOfEmpty

LEMMA OneOnStack ==
  ASSUME NEW f \in Files
  PROVE  /\ <<f>> \in Seq(Files) /\ ToSet(<<f>>) = {f} /\ Len(<<f>>) <= MaxDepth
<1>1. <<f>> \in Seq(Files) /\ Len(<<f>>) = 1
  OBVIOUS
<1>2. 1 <= MaxDepth
  BY LoadingAssumption
<1> QED
  BY <1>1, <1>2, ElementsOfOne

\* The executing script, and those below it.
LEMMA TopOfStack ==
  ASSUME StackInv, stack # <<>>
  PROVE  /\ Executing \in Files /\ Tail(stack) \in Seq(Files) /\ Len(Tail(stack)) <= MaxDepth
         /\ ToSet(stack) = {Executing} \cup ToSet(Tail(stack))
         /\ Len(stack) = 1 => Tail(stack) = <<>>
<1>1. stack \in Seq(Files) /\ Len(stack) <= MaxDepth /\ MaxDepth \in Nat
  BY LoadingAssumption DEF StackInv
<1>2. /\ Head(stack) \in Files /\ Tail(stack) \in Seq(Files)
      /\ ToSet(stack) = {Head(stack)} \cup ToSet(Tail(stack))
  BY <1>1, ElementsOfTail
<1>3. Len(Tail(stack)) = Len(stack) - 1 /\ Len(stack) \in Nat
  BY <1>1
<1>4. Len(Tail(stack)) <= MaxDepth
  BY <1>1, <1>3
<1>5. Len(stack) = 1 => Tail(stack) = <<>>
  <2>1. Tail(stack) # <<>> => Len(Tail(stack)) # 0
    BY <1>2, EmptySeq
  <2> QED
    BY <1>3, <2>1
<1> QED
  BY <1>2, <1>4, <1>5 DEF Executing

LEMMA RunFileStack ==
  ASSUME TypeOK, StackInv, RunFile
  PROVE  /\ TypeOK' /\ StackInv'
         /\ stack' = <<>> \/ (phase' = phase /\ \E f \in ToSet(main_scripts) : stack' = <<f>>)
<1> DEFINE script == main_scripts[next_script]
<1>1. /\ phase = "ready" /\ stack = <<>> /\ next_script \in 1 .. Len(main_scripts)
      /\ main_scripts \in Seq(Files)
  BY DEF RunFile, InTurn, StackInv, TypeOK
<1>2. script \in Files /\ script \in ToSet(main_scripts)
  BY <1>1, ElementsOf
<1>3. /\ \/ phase' = "failed" /\ stack' = <<>>
         \/ phase' = phase /\ stack' = <<script>>
      /\ next_script' = next_script + 1
      /\ UNCHANGED <<text, local, statics, runs, suspended, loaded_module_scripts, loads,
                     refused, requires>>
  BY <1>1 DEF RunFile
<1>4. TypeOK'
  BY <1>3 DEF TypeOK, local, statics, Phases
<1>5. next_script' \in Nat \ {0}
  BY <1>1, <1>3
<1>6. StackInv'
  BY <1>1, <1>2, <1>3, <1>5, EmptyStack, OneOnStack DEF StackInv
<1> QED
  BY <1>2, <1>3, <1>4, <1>6

LEMMA RequireStack ==
  ASSUME TypeOK, StackInv, NEW path \in Files, Require(path)
  PROVE  /\ UNCHANGED <<vars, next_script, suspended>> /\ StackInv'
         /\ stack # <<>> /\ phase = "ready"
         /\ \/ stack' = stack /\ refused' = refused
            \/ stack' = stack /\ path \notin module_scripts
               /\ refused' = refused \cup {<<Executing, "require", path>>}
            \/ /\ path \in module_scripts /\ ToSet(stack') = {path} \cup ToSet(stack)
               /\ refused' = refused
<1>1. /\ UNCHANGED <<vars, next_script, suspended, loaded_module_scripts>>
      /\ stack # <<>> /\ phase = "ready" /\ requires' = requires + 1
  BY DEF Require, Asks
<1>2. /\ Executing \in Files /\ stack \in Seq(Files) /\ Len(stack) <= MaxDepth
      /\ requires \in Nat /\ loads \in [Files -> Nat]
      /\ refused \subseteq Files \X Calls \X Files /\ "require" \in Calls
      /\ MaxDepth \in Nat
  BY <1>1, TopOfStack, LoadingAssumption DEF StackInv, Calls
<1>3. CASE path \notin module_scripts
  <2>1. /\ refused' = refused \cup {<<Executing, "require", path>>}
        /\ stack' = stack /\ loads' = loads
    BY <1>3 DEF Require, KnownModule, Refuse
  <2>2. <<Executing, "require", path>> \in Files \X Calls \X Files
    BY <1>2
  <2>3. StackInv'
    BY <1>1, <1>2, <2>1, <2>2 DEF StackInv, vars
  <2> QED
    BY <1>1, <1>3, <2>1, <2>3
<1>4. CASE path \in module_scripts /\ (path \in Broken \/ TooDeep)
  <2>1. stack' = stack /\ loads' = loads /\ refused' = refused
    BY <1>4 DEF Require, KnownModule
  <2>2. StackInv'
    BY <1>1, <1>2, <2>1 DEF StackInv, vars
  <2> QED
    BY <1>1, <2>1, <2>2
<1>5. CASE path \in module_scripts /\ ~(path \in Broken \/ TooDeep)
  <2>1. /\ stack' = <<path>> \o stack /\ loads' = [loads EXCEPT ![path] = @ + 1]
        /\ refused' = refused
    BY <1>5 DEF Require, KnownModule
  <2>2. <<path>> \in Seq(Files) /\ ToSet(<<path>>) = {path} /\ Len(<<path>>) = 1
    BY ElementsOfOne
  <2>3. stack' \in Seq(Files) /\ ToSet(stack') = {path} \cup ToSet(stack)
    <3>1. /\ <<path>> \o stack \in Seq(Files)
          /\ ToSet(<<path>> \o stack) = ToSet(<<path>>) \cup ToSet(stack)
      BY <1>2, <2>2, ElementsOfConcat
    <3> QED
      BY <2>1, <2>2, <3>1, Zenon
  <2>4. Len(stack') = 1 + Len(stack)
    BY <1>2, <2>1, <2>2, ConcatProperties
  <2>5. Len(stack') <= MaxDepth
    <3>1. Len(stack) # MaxDepth /\ Len(stack) \in Nat
      BY <1>2, <1>5 DEF TooDeep
    <3> QED
      BY <1>2, <2>4, <3>1
  <2>6. loads' \in [Files -> Nat]
    BY <1>2, <2>1
  <2>7. StackInv'
    BY <1>1, <1>2, <2>1, <2>3, <2>5, <2>6 DEF StackInv, vars
  <2> QED
    BY <1>1, <1>5, <2>1, <2>3, <2>7
<1> QED
  BY <1>3, <1>4, <1>5

LEMMA DlLoadStack ==
  ASSUME TypeOK, StackInv, NEW path \in Files, NEW call \in {"dlload", "dlrequire"},
         DlLoad(call, path)
  PROVE  /\ UNCHANGED <<vars, next_script, stack, suspended>> /\ StackInv'
         /\ stack # <<>> /\ phase = "ready"
         /\ \/ refused' = refused
            \/ path \notin loaded_dlmodules /\ refused' = refused \cup {<<Executing, call, path>>}
<1>1. /\ UNCHANGED <<vars, next_script, stack, suspended, loaded_module_scripts, loads>>
      /\ stack # <<>> /\ phase = "ready" /\ requires' = requires + 1
      /\ \/ refused' = refused
         \/ path \notin loaded_dlmodules /\ refused' = refused \cup {<<Executing, call, path>>}
  BY DEF DlLoad, Asks, Refuse
<1>2. Executing \in Files /\ call \in Calls
  BY <1>1, TopOfStack DEF Calls
<1>3. <<Executing, call, path>> \in Files \X Calls \X Files
  BY <1>2
<1>4. StackInv'
  BY <1>1, <1>3 DEF StackInv, vars
<1> QED
  BY <1>1, <1>4

\* What ends the executing script.
Ends == (\E values \in 0 .. 1 : Return(values)) \/ YieldScript \/ RaiseError
LEMMA EndStack ==
  ASSUME TypeOK, StackInv, Ends
  PROVE  /\ TypeOK' /\ StackInv' /\ stack # <<>> /\ stack' = Tail(stack)
         /\ UNCHANGED <<text, local, statics, runs, refused>>
         /\ suspended' \subseteq suspended \cup {Executing}
         /\ phase' = phase \/ phase' = "failed"
<1>1. /\ phase = "ready" /\ stack # <<>> /\ stack' = Tail(stack)
      /\ UNCHANGED <<text, local, statics, runs, next_script, loads, refused, requires>>
      /\ suspended' \subseteq suspended \cup {Executing}
      /\ loaded_module_scripts' \subseteq loaded_module_scripts \cup {Executing}
      /\ phase' = phase \/ (phase' = "failed" /\ Len(stack) = 1)
  BY DEF Ends, Return, YieldScript, RaiseError, vars
<1>2. TypeOK'
  BY <1>1 DEF TypeOK, local, statics, Phases
<1>3. StackInv'
  BY <1>1, TopOfStack DEF StackInv
<1> QED
  BY <1>1, <1>2, <1>3

LEMMA ResumeStack ==
  ASSUME TypeOK, StackInv, NEW f \in Files, ResumeScript(f)
  PROVE  UNCHANGED <<vars, refused>> /\ StackInv' /\ f \in suspended /\ stack' = <<f>>
         /\ suspended' \subseteq suspended
BY OneOnStack DEF ResumeScript, StackInv, vars

LEMMA FinishedStack ==
  ASSUME TypeOK, StackInv, Finished
  PROVE  /\ TypeOK' /\ StackInv' /\ phase' = "idle"
         /\ UNCHANGED <<text, local, statics, runs, load_vars>>
BY DEF Finished, TypeOK, StackInv, local, statics, load_vars, Phases

\* What goes before the scripts run leaves them alone, or starts them anew.
Preparation == StartAgain \/ (Prepare /\ UNCHANGED load_vars)
LEMMA PreparationStack ==
  ASSUME TypeOK, StackInv, Preparation
  PROVE  /\ Next /\ TypeOK' /\ StackInv' /\ stack' = <<>>
         /\ \/ Prepare /\ UNCHANGED load_vars
            \/ suspended' = {} /\ refused' = {}
<1>1. Next
  BY DEF Preparation, StartAgain, Next
<1>2. TypeOK'
  BY <1>1, TypeIsKept
<1>3. CASE StartAgain
  <2>1. /\ next_script' = 1 /\ suspended' = {} /\ stack' = <<>> /\ refused' = {}
        /\ UNCHANGED <<loaded_module_scripts, loads, requires>>
    BY <1>3 DEF StartAgain, NewState
  <2>2. StackInv'
    BY <2>1, EmptyStack DEF StackInv
  <2> QED
    BY <1>1, <1>2, <2>1, <2>2
<1>4. CASE Prepare /\ UNCHANGED load_vars
  <2>1. phase # "ready"
    BY <1>4 DEF Prepare, PreprocessMain, MainDone, SkipModule, PreprocessModule, ModulesDone,
                LoadFails, LoadStd, LoadDl, Load, StdDone, DlsDone
  <2>2. StackInv' /\ stack' = <<>>
    BY <1>4, <2>1 DEF StackInv, load_vars
  <2> QED
    BY <1>1, <1>2, <1>4, <2>2
<1> QED
  BY <1>3, <1>4 DEF Preparation

LEMMA LoadTypeIsKept ==
  ASSUME TypeOK, StackInv, [LoadNext]_all_vars
  PROVE  TypeOK' /\ StackInv'
<1>1. CASE Preparation
  BY <1>1, PreparationStack
<1>2. CASE RunFile
  BY <1>2, RunFileStack
<1>3. ASSUME NEW f \in Files,
             \/ ResumeScript(f) \/ Require(f) \/ DlLoad("dlload", f) \/ DlLoad("dlrequire", f)
      PROVE  TypeOK' /\ StackInv'
  <2>1. UNCHANGED vars /\ StackInv'
    BY <1>3, ResumeStack, RequireStack, DlLoadStack
  <2> QED
    BY <2>1, TypeIsKept
<1>4. CASE Ends
  BY <1>4, EndStack
<1>5. CASE Finished
  BY <1>5, FinishedStack
<1>6. CASE UNCHANGED all_vars
  <2>1. UNCHANGED vars /\ UNCHANGED load_vars
    BY <1>6 DEF all_vars
  <2>2. TypeOK'
    BY <2>1, TypeIsKept
  <2>3. StackInv'
    BY <2>1 DEF StackInv, vars, load_vars
  <2> QED
    BY <2>2, <2>3
<1> QED
  BY <1>1, <1>2, <1>3, <1>4, <1>5, <1>6 DEF LoadNext, RunStep, Preparation, Ends

LEMMA LoadStart == LoadInit => TypeOK /\ StackInv
<1> SUFFICES ASSUME LoadInit
             PROVE  TypeOK /\ StackInv
  OBVIOUS
<1>1. TypeOK /\ phase = "idle"
  BY InitType DEF LoadInit, Init
<1>2. StackInv
  BY EmptyStack DEF LoadInit, StackInv
<1> QED
  BY <1>1, <1>2

\* Types: whatever scripts require, ask for, return, raise or yield, only files run, no
\* deeper than Luau lets coroutines resume one another (Core/loading.cpp:55-80).
THEOREM LoadTypeCorrect == LoadSpec => []LoadTypeOK
<1>1. LoadInit => TypeOK /\ StackInv
  BY LoadStart
<1>2. TypeOK /\ StackInv /\ [LoadNext]_all_vars => (TypeOK /\ StackInv)'
  BY LoadTypeIsKept
<1>3. TypeOK /\ StackInv => LoadTypeOK
  BY DEF LoadTypeOK, StackInv
<1> QED
  BY <1>1, <1>2, <1>3, PTL DEF LoadSpec
-----------------------------------------------------------------------------
(* In the first call: what runs, or will, is a main script of that call or *)
(* a module that preprocessing has processed in it.                        *)

First == runs <= 1
Live == ToSet(stack) \cup suspended
Allowed == ToSet(main_scripts) \cup module_scripts
FirstInv ==
  First =>
    /\ runs = 0 => main_scripts = <<>> /\ module_scripts = {} /\ phase = "idle"
    /\ ToSet(main_scripts) \subseteq ToSet(scripts) /\ module_scripts \subseteq processed
    /\ Live \subseteq Allowed

\* Preprocessing keeps to the call's own scripts.
LEMMA ScriptsOfTheCall ==
  ASSUME TypeOK, SearchInv, FirstInv, Next, First'
  PROVE  /\ runs' # 0 /\ Allowed \subseteq Allowed'
         /\ ToSet(main_scripts') \subseteq ToSet(scripts') /\ module_scripts' \subseteq processed'
<1>1. CASE (\E given \in Arguments : Start(given)) \/ StartWithoutScripts
  <2>1. /\ runs' = runs + 1 /\ UNCHANGED <<main_scripts, module_scripts>>
        /\ runs \in Nat
    BY <1>1, FilesAssumption DEF Start, StartWithoutScripts, statics, TypeOK
  <2>2. runs = 0 /\ runs' # 0
    BY <2>1 DEF First
  <2>3. main_scripts = <<>> /\ module_scripts = {}
    BY <2>2 DEF FirstInv, First
  <2> QED
    BY <2>1, <2>2, <2>3, ElementsOfEmpty DEF Allowed
<1>2. CASE Prepare
  <2>1. runs' = runs /\ scripts' = scripts /\ phase \in Preparing
    BY <1>2 DEF Prepare, PreprocessMain, MainDone, SkipModule, PreprocessModule, ModulesDone,
                LoadFails, LoadStd, LoadDl, Load, StdDone, DlsDone, local, statics, Preparing
  <2>2. /\ runs # 0 /\ ToSet(main_scripts) \subseteq ToSet(scripts)
        /\ module_scripts \subseteq processed
    BY <2>1 DEF FirstInv, First, Preparing
  <2>3. CASE PreprocessMain
    <3>1. /\ processed' = processed /\ module_scripts' = module_scripts
          /\ \/ main_scripts' = main_scripts
             \/ main_scripts' = Append(main_scripts, Head(args))
      BY <2>3 DEF PreprocessMain, local
    <3>2. Head(args) \in ToSet(scripts) /\ Head(args) \in Files
      <4>1. Head(args) \in ToSet(args) /\ Head(args) \in Files /\ Going
        BY <2>3, ElementsOfTail DEF PreprocessMain, TypeOK, Going, Preparing
      <4> QED
        BY <4>1 DEF SearchInv, ProcessedAreModules
    <3>3. main_scripts \in Seq(Files)
      BY DEF TypeOK
    <3>4. ToSet(Append(main_scripts, Head(args))) = ToSet(main_scripts) \cup {Head(args)}
      BY <3>2, <3>3, ElementsOfAppend
    <3> QED
      BY <2>1, <2>2, <3>1, <3>2, <3>4 DEF Allowed
  <2>4. CASE PreprocessModule
    <3>1. /\ main_scripts' = main_scripts /\ processed' = processed \cup {Head(queue)}
          /\ module_scripts' \in {module_scripts, module_scripts \cup {Head(queue)}}
      BY <2>4 DEF PreprocessModule
    <3> QED
      BY <2>1, <2>2, <3>1 DEF Allowed
  <2>5. CASE ~PreprocessMain /\ ~PreprocessModule
    <3>1. UNCHANGED <<main_scripts, module_scripts, processed>>
      BY <1>2, <2>5 DEF Prepare, MainDone, SkipModule, ModulesDone, LoadFails, LoadStd, LoadDl,
                        Load, StdDone, DlsDone, local, statics
    <3> QED
      BY <2>1, <2>2, <3>1 DEF Allowed
  <2> QED
    BY <2>3, <2>4, <2>5
<1> QED
  BY <1>1, <1>2 DEF Next

LEMMA LiveIsKept ==
  ASSUME TypeOK, SearchInv, StackInv, FirstInv, [LoadNext]_all_vars
  PROVE  FirstInv'
<1>1. CASE Preparation
  <2> SUFFICES ASSUME First'
               PROVE  FirstInv'
    BY DEF FirstInv
  <2>1. Next /\ stack' = <<>> /\ suspended' \subseteq suspended
    BY <1>1, PreparationStack DEF load_vars
  <2>2. First
    BY <2>1, FilesAssumption DEF First, TypeOK, Next, Prepare, Start, StartWithoutScripts,
         PreprocessMain, MainDone, SkipModule, PreprocessModule, ModulesDone, LoadFails,
         LoadStd, LoadDl, Load, StdDone, DlsDone
  <2>3. Live' \subseteq Live
    BY <2>1, ElementsOfEmpty DEF Live
  <2>4. /\ runs' # 0 /\ Allowed \subseteq Allowed'
        /\ ToSet(main_scripts') \subseteq ToSet(scripts') /\ module_scripts' \subseteq processed'
    BY <2>1, ScriptsOfTheCall
  <2> QED
    BY <2>2, <2>3, <2>4 DEF FirstInv
<1>2. ASSUME UNCHANGED <<text, local, statics, runs>>,
             Live' \subseteq Live \cup Allowed, runs = 0 => phase' = phase
      PROVE  FirstInv'
  BY <1>2 DEF FirstInv, First, Allowed, local, statics
<1>3. CASE RunFile
  <2>1. /\ stack' = <<>> \/ (phase' = phase /\ \E f \in ToSet(main_scripts) : stack' = <<f>>)
        /\ UNCHANGED <<text, local, statics, runs, suspended>> /\ phase = "ready"
    BY <1>3, RunFileStack DEF RunFile, InTurn
  <2>2. \A f : ToSet(<<f>>) = {f}
    BY ElementsOfOne
  <2>3. Live' \subseteq Live \cup ToSet(main_scripts)
    BY <2>1, <2>2, ElementsOfEmpty DEF Live
  <2>4. runs = 0 => phase' = phase
    BY <2>1 DEF FirstInv, First
  <2> QED
    BY <1>2, <2>1, <2>3, <2>4 DEF Allowed
<1>4. ASSUME NEW f \in Files, Require(f)
      PROVE  FirstInv'
  <2>1. /\ UNCHANGED <<vars, suspended>>
        /\ stack' = stack \/ (f \in module_scripts /\ ToSet(stack') = {f} \cup ToSet(stack))
    BY <1>4, RequireStack
  <2>2. Live' \subseteq Live \cup Allowed
    BY <2>1 DEF Live, Allowed
  <2> QED
    BY <1>2, <2>1, <2>2 DEF vars
<1>5. ASSUME NEW f \in Files, ResumeScript(f)
      PROVE  FirstInv'
  <2>1. UNCHANGED vars /\ f \in suspended /\ stack' = <<f>> /\ suspended' \subseteq suspended
    BY <1>5, ResumeStack
  <2>2. Live' \subseteq Live
    BY <2>1, ElementsOfOne DEF Live
  <2> QED
    BY <1>2, <2>1, <2>2 DEF vars
<1>6. ASSUME NEW f \in Files, DlLoad("dlload", f) \/ DlLoad("dlrequire", f)
      PROVE  FirstInv'
  <2>1. UNCHANGED <<vars, stack, suspended>>
    BY <1>6, DlLoadStack
  <2> QED
    BY <1>2, <2>1 DEF vars, Live
<1>7. CASE Ends
  <2>1. /\ stack # <<>> /\ stack' = Tail(stack) /\ UNCHANGED <<text, local, statics, runs>>
        /\ suspended' \subseteq suspended \cup {Executing} /\ phase = "ready"
    BY <1>7, EndStack DEF StackInv
  <2>2. ToSet(stack) = {Executing} \cup ToSet(Tail(stack))
    BY <2>1, TopOfStack
  <2>3. Live' \subseteq Live
    BY <2>1, <2>2 DEF Live
  <2>4. runs = 0 => phase' = phase
    BY <2>1 DEF FirstInv, First
  <2> QED
    BY <1>2, <2>1, <2>3, <2>4
<1>8. CASE Finished
  <2>1. /\ UNCHANGED <<text, local, statics, runs, stack, suspended>>
        /\ phase = "ready"
    BY <1>8 DEF Finished, load_vars
  <2>2. runs = 0 => phase' = phase
    BY <2>1 DEF FirstInv, First
  <2> QED
    BY <1>2, <2>1, <2>2 DEF Live
<1>9. CASE UNCHANGED all_vars
  BY <1>2, <1>9 DEF all_vars, vars, load_vars, Live
<1> QED
  BY <1>1, <1>3, <1>4, <1>5, <1>6, <1>7, <1>8, <1>9 DEF LoadNext, RunStep, Preparation, Ends

\* The steps of scripts are none of preprocessing's, which has ended by then.
LEMMA SearchIsKeptByScripts ==
  ASSUME TypeOK, SearchInv, StackInv, [LoadNext]_all_vars
  PROVE  SearchInv'
<1>1. ASSUME UNCHANGED <<text, local, statics>>, phase' \in {"failed", "idle"}
      PROVE  SearchInv'
  BY <1>1 DEF SearchInv, Going, Preparing
<1>2. ASSUME UNCHANGED vars
      PROVE  SearchInv'
  BY <1>2, SearchIsKept
<1>3. CASE Preparation
  BY <1>3, PreparationStack, SearchIsKept
<1>4. CASE RunFile \/ Ends \/ Finished
  <2>1. /\ UNCHANGED <<text, local, statics, runs>>
        /\ phase' = phase \/ phase' \in {"failed", "idle"}
    BY <1>4, EndStack DEF RunFile, Finished
  <2> QED
    BY <1>1, <1>2, <2>1 DEF vars
<1>5. ASSUME NEW f \in Files,
             \/ ResumeScript(f) \/ Require(f) \/ DlLoad("dlload", f) \/ DlLoad("dlrequire", f)
      PROVE  SearchInv'
  BY <1>2, <1>5, ResumeStack, RequireStack, DlLoadStack
<1>6. CASE UNCHANGED all_vars
  BY <1>2, <1>6 DEF all_vars
<1> QED
  BY <1>3, <1>4, <1>5, <1>6 DEF LoadNext, RunStep, Preparation, Ends

\* What is preprocessed when scripts run is what they lead to.
LEMMA ReadyMeans ==
  ASSUME SearchInv, phase = "ready"
  PROVE  /\ processed \subseteq module_scripts
         /\ \A f \in ToSet(scripts) \cup processed :
              /\ Needs(f) \subseteq processed
              /\ depends_on_dls(f) \subseteq loaded_dlmodules
         /\ \A S \in SUBSET Files : RootNeeds \subseteq S /\ Closed(S) => processed \subseteq S
<1>1. /\ InOrder /\ NeedsAreKnown /\ KnownIsNeeded /\ ProcessedAreModules
      /\ DependenciesAreKept /\ LibrariesInOrder
  BY DEF SearchInv, Going
<1>2. Known = processed /\ Taken = processed \cup ToSet(scripts)
  BY <1>1, ElementsOfEmpty DEF InOrder, Known, Taken
<1> QED
  BY <1>1, <1>2 DEF NeedsAreKnown, KnownIsNeeded, ProcessedAreModules, DependenciesAreKept,
                    LibrariesInOrder

CallInv == TypeOK /\ SearchInv /\ StackInv /\ FirstInv

LEMMA CallStart == LoadInit => CallInv
<1> SUFFICES ASSUME LoadInit
             PROVE  SearchInv /\ FirstInv
  BY LoadStart DEF CallInv
<1>1. SearchInv
  BY DEF LoadInit, Init, SearchInv, Going, Preparing
<1>2. FirstInv
  BY ElementsOfEmpty DEF LoadInit, Init, FirstInv, Live
<1> QED
  BY <1>1, <1>2

LEMMA CallIsKept ==
  ASSUME CallInv, [LoadNext]_all_vars
  PROVE  CallInv'
BY LoadTypeIsKept, SearchIsKeptByScripts, LiveIsKept DEF CallInv

\* What runs in the first call is a main script of it, or was processed in it.
LEMMA ExecutingIsPrepared ==
  ASSUME CallInv, First, NEW i \in DOMAIN stack
  PROVE  phase = "ready" /\ stack[i] \in Files /\ stack[i] \in ToSet(scripts) \cup processed
<1>1. stack \in Seq(Files) /\ i \in 1 .. Len(stack)
  BY DEF CallInv, StackInv
<1>2. stack # <<>>
  BY <1>1
<1>3. phase = "ready"
  BY <1>2 DEF CallInv, StackInv
<1>4. stack[i] \in ToSet(stack) /\ stack[i] \in Files
  BY <1>1, ElementsOf
<1>5. stack[i] \in ToSet(scripts) \cup processed
  BY <1>4 DEF CallInv, FirstInv, Live, Allowed
<1> QED
  BY <1>3, <1>4, <1>5

LEMMA NamedOnly ==
  ASSUME CallInv, First
  PROVE  OnlyNamedScriptsRun
<1> SUFFICES ASSUME NEW i \in DOMAIN stack
             PROVE  stack[i] \in ToSet(scripts) \cup Reachable
  BY DEF OnlyNamedScriptsRun
<1>1. phase = "ready" /\ stack[i] \in Files /\ stack[i] \in ToSet(scripts) \cup processed
  BY ExecutingIsPrepared
<1> QED
  BY <1>1, ReadyMeans DEF Reachable, CallInv

\* In the first call of a process, whatever paths scripts compute, however deep they
\* require and however often they yield, only the main scripts run, and modules that
\* these lead to by names written out (loading.cpp:55-58, preprocessing.cpp:142-151).
THEOREM OnlyNamedScriptsRunCorrect == LoadSpec => [](First => OnlyNamedScriptsRun)
<1>1. LoadInit => CallInv
  BY CallStart
<1>2. CallInv /\ [LoadNext]_all_vars => CallInv'
  BY CallIsKept
<1>3. CallInv => (First => OnlyNamedScriptsRun)
  BY NamedOnly
<1> QED
  BY <1>1, <1>2, <1>3, PTL DEF LoadSpec
-----------------------------------------------------------------------------
(* And it finds what it names.                                             *)

\* What is written out in a script is among its dependencies.
LEMMA LiteralsAreDependencies ==
  ASSUME text \in FileTexts, NEW f \in Files
  PROVE  /\ ToSet(text[f]["require"]) \subseteq Needs(f)
         /\ ToSet(text[f]["dlload"]) \subseteq depends_on_dls(f)
         /\ ToSet(text[f]["dlrequire"]) \subseteq depends_on_dls(f)
<1> DEFINE U == Files \cup {Unresolved}
<1>1. /\ text[f]["require"] \in Seq(U) /\ text[f]["dlload"] \in Seq(U)
      /\ text[f]["dlrequire"] \in Seq(U)
  BY DEF FileTexts, Calls
<1>2. /\ text[f]["dlrequire"] \o text[f]["require"] \in Seq(U)
      /\ ToSet(text[f]["dlrequire"] \o text[f]["require"])
           = ToSet(text[f]["dlrequire"]) \cup ToSet(text[f]["require"])
  BY <1>1, ElementsOfConcat
<1>3. \A s \in Seq(U) : ToSet(Reverse(s)) = ToSet(s)
  BY ElementsOfReverse
<1>4. ToSet(text[f]["require"]) \subseteq Needs(f)
  BY <1>2, <1>3 DEF Needs, depends_on_scripts, Expand
<1>5. /\ ToSet(text[f]["dlload"]) \subseteq depends_on_dls(f)
      /\ ToSet(text[f]["dlrequire"]) \subseteq depends_on_dls(f)
  BY <1>1, <1>3 DEF depends_on_dls, Expand
<1> QED
  BY <1>4, <1>5

LEMMA LiteralsAreKept ==
  ASSUME CallInv, First => LiteralsAreFound, [LoadNext]_all_vars, First'
  PROVE  LiteralsAreFound'
<1>1. text' = text /\ (runs' = runs \/ (runs' = runs + 1 /\ StartAgain))
  BY DEF LoadNext, RunStep, StartAgain, Start, StartWithoutScripts, Prepare, PreprocessMain,
         MainDone, SkipModule, PreprocessModule, ModulesDone, LoadFails, LoadStd, LoadDl, Load,
         StdDone, DlsDone, RunFile, ResumeScript, Require, DlLoad, Return, YieldScript,
         RaiseError, Finished, all_vars, vars
<1>2. First
  <2>1. runs \in Nat
    BY FilesAssumption DEF CallInv, TypeOK
  <2> QED
    BY <1>1, <2>1 DEF First
<1>3. CASE refused' \subseteq refused
  BY <1>1, <1>2, <1>3 DEF LiteralsAreFound
<1>4. ASSUME phase = "ready", stack # <<>>, NEW call \in Calls, NEW path \in Files,
             path \notin ToSet(text[Executing][call]),
             refused' = refused \cup {<<Executing, call, path>>}
      PROVE  LiteralsAreFound'
  BY <1>1, <1>2, <1>4 DEF LiteralsAreFound
<1>5. ASSUME stack # <<>>
      PROVE  /\ ToSet(text[Executing]["require"]) \subseteq module_scripts
             /\ ToSet(text[Executing]["dlload"]) \subseteq loaded_dlmodules
             /\ ToSet(text[Executing]["dlrequire"]) \subseteq loaded_dlmodules
  <2>1. 1 \in DOMAIN stack /\ Executing = stack[1]
    BY <1>5 DEF CallInv, StackInv, Executing
  <2>2. /\ phase = "ready" /\ Executing \in Files
        /\ Executing \in ToSet(scripts) \cup processed
    BY <1>2, <2>1, ExecutingIsPrepared
  <2>3. /\ ToSet(text[Executing]["require"]) \subseteq Needs(Executing)
        /\ ToSet(text[Executing]["dlload"]) \subseteq depends_on_dls(Executing)
        /\ ToSet(text[Executing]["dlrequire"]) \subseteq depends_on_dls(Executing)
    BY <2>2, LiteralsAreDependencies DEF CallInv, TypeOK
  <2> QED
    BY <2>2, <2>3, ReadyMeans DEF CallInv
<1>6. CASE Preparation
  BY <1>3, <1>6, PreparationStack DEF CallInv, load_vars
<1>7. CASE RunFile \/ Ends \/ Finished
  BY <1>3, <1>7, EndStack DEF CallInv, RunFile, Finished, load_vars
<1>8. ASSUME NEW f \in Files, Require(f)
      PROVE  LiteralsAreFound'
  <2>1. /\ stack # <<>> /\ phase = "ready" /\ "require" \in Calls
        /\ \/ refused' = refused
           \/ f \notin module_scripts /\ refused' = refused \cup {<<Executing, "require", f>>}
    BY <1>8, RequireStack DEF CallInv, Calls
  <2> QED
    BY <1>3, <1>4, <1>5, <2>1
<1>9. ASSUME NEW f \in Files, NEW call \in {"dlload", "dlrequire"}, DlLoad(call, f)
      PROVE  LiteralsAreFound'
  <2>1. /\ stack # <<>> /\ phase = "ready" /\ call \in Calls
        /\ \/ refused' = refused
           \/ f \notin loaded_dlmodules /\ refused' = refused \cup {<<Executing, call, f>>}
    BY <1>9, DlLoadStack DEF CallInv, Calls
  <2>2. ToSet(text[Executing][call]) \subseteq loaded_dlmodules
    BY <1>5, <2>1
  <2> QED
    BY <1>3, <1>4, <2>1, <2>2
<1>10. ASSUME NEW f \in Files, ResumeScript(f)
       PROVE  LiteralsAreFound'
  BY <1>3, <1>10, ResumeStack DEF CallInv
<1>11. CASE UNCHANGED all_vars
  BY <1>3, <1>11 DEF all_vars, load_vars
<1> QED
  BY <1>6, <1>7, <1>8, <1>9, <1>10, <1>11 DEF LoadNext, RunStep, Preparation, Ends

\* In the first call of a process, require finds the module of every path written out in
\* a script that runs, and dlload and dlrequire the library, no matter how the script was
\* reached (loading.cpp:55-58, dl_utility.cpp:33-43, runtime_setup.cpp:68-85).
THEOREM LiteralsAreFoundCorrect == LoadSpec => [](First => LiteralsAreFound)
<1>1. LoadInit => CallInv /\ LiteralsAreFound
  BY CallStart DEF LoadInit, LiteralsAreFound
<1>2. /\ CallInv /\ (First => LiteralsAreFound) /\ [LoadNext]_all_vars
      => CallInv' /\ (First => LiteralsAreFound)'
  BY CallIsKept, LiteralsAreKept
<1> QED
  BY <1>1, <1>2, PTL DEF LoadSpec
-----------------------------------------------------------------------------
(* The command line.                                                       *)

\* How often a file is in a list, and how often the first arguments of a line name it.
Times(s, f) == Cardinality({i \in 1 .. Len(s) : s[i] = f})
PlacesUpTo(line, k, f) ==
  {p \in UNION {{i} \X (1 .. Len(line[i].names)) : i \in 1 .. k} :
     line[p[1]].names[p[2]] = f}
Named(line, k, f) == Cardinality(PlacesUpTo(line, k, f))
NoComma(arg) == arg.list = arg.names

LEMMA CountIsNumber ==
  ASSUME NEW n \in Nat, NEW S \in SUBSET (1 .. n)
  PROVE  IsFiniteSet(S) /\ Cardinality(S) \in Nat
<1>1. IsFiniteSet(1 .. n)
  BY FS_Interval
<1> QED
  BY <1>1, FS_Subset, FS_CardinalityType

LEMMA TimesOfConcat ==
  ASSUME NEW S, NEW s \in Seq(S), NEW t \in Seq(S), NEW f
  PROVE  /\ Times(s, f) \in Nat /\ Times(t, f) \in Nat
         /\ Times(s \o t, f) = Times(s, f) + Times(t, f)
<1> DEFINE A == {i \in 1 .. Len(s) : s[i] = f}
           B == {i \in 1 .. Len(t) : t[i] = f}
           shift == [i \in B |-> Len(s) + i]
           C == {Len(s) + i : i \in B}
<1>1. Len(s) \in Nat /\ Len(t) \in Nat
  BY LenProperties
<1>2. /\ Len(s \o t) = Len(s) + Len(t)
      /\ \A i \in 1 .. Len(s) + Len(t) :
           (s \o t)[i] = IF i <= Len(s) THEN s[i] ELSE t[i - Len(s)]
  BY ConcatProperties
<1>3. {i \in 1 .. Len(s \o t) : (s \o t)[i] = f} = A \cup C
  <2> DEFINE m == Len(s)
             n == Len(t)
             c == s \o t
  <2>1. m \in Nat /\ n \in Nat /\ Len(c) = m + n
    BY <1>1, <1>2
  <2>2. \A i \in 1 .. m : i \in 1 .. m + n /\ c[i] = s[i]
    BY <1>1, <1>2
  <2>3. \A i \in 1 .. n : m + i \in 1 .. m + n /\ c[m + i] = t[i]
    BY <1>1, <1>2
  <2>4. \A i \in 1 .. m + n : i \in 1 .. m \/ (i - m \in 1 .. n /\ i = m + (i - m))
    BY <2>1
  <2>5. A = {i \in 1 .. m : s[i] = f} /\ C = {m + i : i \in {j \in 1 .. n : t[j] = f}}
    OBVIOUS
  <2> HIDE DEF m, n, c, A, B, C
  <2>6. {i \in 1 .. m + n : c[i] = f} = A \cup C
    BY <2>2, <2>3, <2>4, <2>5
  <2> QED
    BY <2>1, <2>6 DEF c
<1>4. A \cap C = {} /\ shift \in Bijection(B, C)
  <2>1. \A i \in B : Len(s) + i \notin 1 .. Len(s)
    BY <1>1
  <2>2. \A i, j \in B : Len(s) + i = Len(s) + j => i = j
    BY <1>1
  <2>3. shift \in [B -> C] /\ \A i \in B : shift[i] = Len(s) + i
    OBVIOUS
  <2>4. \A x \in C : \E i \in B : x = Len(s) + i
    OBVIOUS
  <2>5. A \subseteq 1 .. Len(s)
    OBVIOUS
  <2> HIDE DEF A, B, C, shift
  <2> QED
    BY <2>1, <2>2, <2>3, <2>4, <2>5 DEF Bijection, Injection, Surjection, IsInjective
<1>5. /\ IsFiniteSet(A) /\ IsFiniteSet(B)
      /\ Cardinality(A) \in Nat /\ Cardinality(B) \in Nat
  <2>1. A \in SUBSET (1 .. Len(s)) /\ B \in SUBSET (1 .. Len(t))
    OBVIOUS
  <2> HIDE DEF A, B
  <2> QED
    BY <1>1, <2>1, CountIsNumber
<1>6. IsFiniteSet(C) /\ Cardinality(C) = Cardinality(B)
  <2>1. ExistsBijection(B, C)
    BY <1>4 DEF ExistsBijection
  <2> HIDE DEF B, C
  <2> QED
    BY <1>5, <2>1, FS_Bijection
<1>7. Cardinality(A \cup C) = Cardinality(A) + Cardinality(B)
  <2> HIDE DEF A, B, C
  <2>1. Cardinality(A \cup C) = Cardinality(A) + Cardinality(C) - Cardinality(A \cap C)
    BY <1>5, <1>6, FS_Union
  <2>2. Cardinality(A \cap C) = 0
    BY <1>4, FS_EmptySet, Zenon
  <2> QED
    BY <1>5, <1>6, <2>1, <2>2
<1> QED
  BY <1>3, <1>5, <1>7 DEF Times

LEMMA NoneNamed ==
  ASSUME NEW line, NEW f
  PROVE  Named(line, 0, f) = 0 /\ IsFiniteSet(PlacesUpTo(line, 0, f))
<1>1. PlacesUpTo(line, 0, f) = {}
  <2>1. 1 .. 0 = {}
    OBVIOUS
  <2> QED
    BY <2>1 DEF PlacesUpTo
<1> QED
  BY <1>1, FS_EmptySet DEF Named

LEMMA MoreNamed ==
  ASSUME NEW line, NEW k \in Nat \ {0}, line[k].names \in Seq(Files), NEW f,
         IsFiniteSet(PlacesUpTo(line, k - 1, f))
  PROVE  /\ IsFiniteSet(PlacesUpTo(line, k, f)) /\ Named(line, k - 1, f) \in Nat
         /\ Named(line, k, f) = Named(line, k - 1, f) + Times(line[k].names, f)
<1> DEFINE n == Len(line[k].names)
           A == PlacesUpTo(line, k - 1, f)
           B == {j \in 1 .. n : line[k].names[j] = f}
           C == {<<k, j>> : j \in B}
           pair == [j \in B |-> <<k, j>>]
<1>1. n \in Nat /\ 1 .. k = (1 .. k - 1) \cup {k} /\ k \notin 1 .. k - 1
  BY LenProperties
<1>2. PlacesUpTo(line, k, f) = A \cup C
  <2>1. ASSUME NEW p \in PlacesUpTo(line, k, f)
        PROVE  p \in A \cup C
    <3>1. PICK i \in 1 .. k : p \in {i} \X (1 .. Len(line[i].names))
      BY DEF PlacesUpTo
    <3>2. p = <<i, p[2]>> /\ p[2] \in 1 .. Len(line[i].names) /\ p[1] = i
          /\ line[i].names[p[2]] = f
      BY <3>1 DEF PlacesUpTo
    <3>3. CASE i = k
      BY <3>2, <3>3
    <3>4. CASE i \in 1 .. k - 1
      BY <3>1, <3>2, <3>4 DEF PlacesUpTo
    <3> QED
      BY <1>1, <3>3, <3>4
  <2>2. A \subseteq PlacesUpTo(line, k, f)
    BY <1>1 DEF PlacesUpTo
  <2>3. ASSUME NEW j \in B
        PROVE  <<k, j>> \in PlacesUpTo(line, k, f)
    <3>1. k \in 1 .. k /\ <<k, j>> \in {k} \X (1 .. Len(line[k].names))
      OBVIOUS
    <3> QED
      BY <3>1 DEF PlacesUpTo
  <2> QED
    BY <2>1, <2>2, <2>3
<1>3. A \cap C = {}
  <2>1. \A p \in A : p[1] \in 1 .. k - 1
    BY DEF PlacesUpTo
  <2>2. \A p \in C : p[1] = k
    OBVIOUS
  <2> HIDE DEF A, C
  <2> QED
    BY <1>1, <2>1, <2>2
<1>4. IsFiniteSet(B) /\ Cardinality(B) \in Nat
  <2>1. B \in SUBSET (1 .. n)
    OBVIOUS
  <2> HIDE DEF B, n
  <2> QED
    BY <1>1, <2>1, CountIsNumber
<1>5. pair \in Bijection(B, C)
  <2>1. pair \in [B -> C] /\ \A j \in B : pair[j] = <<k, j>>
    OBVIOUS
  <2>2. \A x \in C : \E j \in B : x = <<k, j>>
    OBVIOUS
  <2> HIDE DEF B, C, pair
  <2>3. \A i, j \in B : pair[i] = pair[j] => i = j
    BY <2>1
  <2> QED
    BY <2>1, <2>2, <2>3 DEF Bijection, Injection, Surjection, IsInjective
<1>6. IsFiniteSet(C) /\ Cardinality(C) = Cardinality(B)
  <2>1. ExistsBijection(B, C)
    BY <1>5 DEF ExistsBijection
  <2> HIDE DEF B, C
  <2> QED
    BY <1>4, <2>1, FS_Bijection
<1>7. IsFiniteSet(A) /\ Cardinality(A) \in Nat
  BY FS_CardinalityType
<1>8. IsFiniteSet(A \cup C) /\ Cardinality(A \cup C) = Cardinality(A) + Cardinality(B)
  <2> HIDE DEF A, B, C
  <2>1. /\ Cardinality(A \cup C) = Cardinality(A) + Cardinality(C) - Cardinality(A \cap C)
        /\ IsFiniteSet(A \cup C)
    BY <1>6, <1>7, FS_Union
  <2>2. Cardinality(A \cap C) = 0
    BY <1>3, FS_EmptySet, Zenon
  <2> QED
    BY <1>4, <1>6, <1>7, <2>1, <2>2
<1>9. Times(line[k].names, f) = Cardinality(B)
  BY DEF Times
<1> QED
  BY <1>2, <1>7, <1>8, <1>9 DEF Named

\* The list after each argument, along the fold.
Lists == Seq(Files)
Extended(list, arg) == list \o arg.list
IsListing(g, line) ==
  g = [s \in SUBSET DOMAIN line |->
         IF s = {} THEN <<>> ELSE Extended(g[s \ {Max(s)}], line[Max(s)])]

LEMMA ExtendedType ==
  ASSUME NEW list \in Lists, NEW arg, IsArgument(arg)
  PROVE  Extended(list, arg) \in Lists
BY ConcatProperties DEF Lists, Extended, IsArgument

\* What a line expands to, argument by argument.
IsExpansion(r, line) ==
  /\ r \in [0 .. Len(line) -> Lists] /\ r[0] = <<>>
  /\ \A k \in 1 .. Len(line) : r[k] = Extended(r[k - 1], line[k])
  /\ Sources(line) = r[Len(line)]

LEMMA ListingExists ==
  ASSUME NEW line, IsLine(line)
  PROVE  \E g : IsListing(g, line) /\ \A s \in SUBSET (1 .. Len(line)) : g[s] \in Lists
<1> DEFINE B == ToSet(line)
           step == [x \in Lists \X B |-> Extended(x[1], x[2])]
<1>1. step \in [Lists \X B -> Lists]
  BY ExtendedType DEF IsLine
<1>2. /\ Len(line) \in Nat /\ DOMAIN line = 1 .. Len(line) /\ line \in [1 .. Len(line) -> B]
      /\ <<>> \in Lists
  BY LenProperties DEF Lists, IsLine
<1>3. PICK g : FoldTable(g, Lists, step, <<>>, line, Len(line))
  <2> HIDE DEF step, B
  <2> QED
    BY <1>1, <1>2, TableExists
<1>4. ASSUME NEW s \in SUBSET (1 .. Len(line)), s # {}
      PROVE  g[s] = Extended(g[s \ {Max(s)}], line[Max(s)])
  <2>1. Max(s) \in 1 .. Len(line)
    BY <1>2, <1>4, MaxOf
  <2>2. g[s \ {Max(s)}] \in Lists /\ line[Max(s)] \in B
    BY <1>2, <1>3, <2>1 DEF FoldTable
  <2> QED
    BY <1>3, <1>4, <2>2 DEF FoldTable
<1>5. IsListing(g, line)
  BY <1>2, <1>3, <1>4 DEF IsListing, FoldTable
<1> QED
  BY <1>3, <1>5 DEF FoldTable

LEMMA ExpansionOfLine ==
  ASSUME NEW line, IsLine(line)
  PROVE  \E r : IsExpansion(r, line)
<1> DEFINE g == CHOOSE g : IsListing(g, line)
           r == [k \in 0 .. Len(line) |-> g[1 .. k]]
<1>1. Len(line) \in Nat /\ DOMAIN line = 1 .. Len(line)
  BY LenProperties DEF IsLine
<1>2. IsListing(g, line)
  BY ListingExists
<1>3. Sources(line) = g[1 .. Len(line)]
  BY <1>1 DEF Sources, FoldLeft, MapThenFoldSet, IsListing, Extended
<1> HIDE DEF g
<1>4. r[0] = <<>>
  <2>1. 1 .. 0 = {} /\ {} \in SUBSET DOMAIN line /\ 0 \in 0 .. Len(line)
    BY <1>1
  <2>2. g[{}] = <<>>
    BY <1>2, <2>1 DEF IsListing
  <2> QED
    BY <1>1, <2>1, <2>2
<1>5. ASSUME NEW k \in 1 .. Len(line)
      PROVE  r[k] = Extended(r[k - 1], line[k])
  <2>1. /\ Max(1 .. k) = k /\ (1 .. k) \ {k} = 1 .. k - 1 /\ 1 .. k # {}
        /\ 1 .. k \in SUBSET DOMAIN line
    BY <1>1, MaxUpTo
  <2>2. g[1 .. k] = Extended(g[1 .. k - 1], line[k])
    BY <1>2, <2>1 DEF IsListing
  <2>3. k \in 0 .. Len(line) /\ k - 1 \in 0 .. Len(line)
    BY <1>1
  <2> QED
    BY <2>2, <2>3
<1>6. r \in [0 .. Len(line) -> Lists]
  <2> DEFINE S == {k \in 0 .. Len(line) : r[k] \in Lists}
  <2> HIDE DEF r
  <2>1. 0 \in S
    <3>1. <<>> \in Lists /\ 0 \in 0 .. Len(line)
      BY <1>1 DEF Lists
    <3> QED
      BY <1>4, <3>1
  <2>2. ASSUME NEW k \in 1 .. Len(line), k - 1 \in S
        PROVE  k \in S
    <3>1. line[k] \in ToSet(line)
      BY <1>1, ElementsOf DEF IsLine
    <3> QED
      BY <1>1, <1>5, <2>2, <3>1, ExtendedType DEF IsLine
  <2>3. 0 .. Len(line) \subseteq S
    <3> HIDE DEF S
    <3> QED
      BY <1>1, <2>1, <2>2, Upward
  <2> QED
    BY <2>3 DEF r
<1>7. Sources(line) = r[Len(line)]
  BY <1>1, <1>3
<1> HIDE DEF r
<1> QED
  BY <1>4, <1>5, <1>6, <1>7 DEF IsExpansion

\* Without commas the list has each file as often as the line names it.
LEMMA ExpansionCounts ==
  ASSUME NEW line, IsLine(line)
  PROVE  /\ Sources(line) \in Seq(Files)
         /\ (\A arg \in ToSet(line) : NoComma(arg)) =>
              \A f : Times(Sources(line), f) = Named(line, Len(line), f)
<1>1. PICK r : IsExpansion(r, line)
  BY ExpansionOfLine
<1>2. Len(line) \in Nat /\ \A k \in 1 .. Len(line) : line[k] \in ToSet(line)
  BY LenProperties, ElementsOf DEF IsLine
<1>3. Sources(line) \in Seq(Files)
  BY <1>1, <1>2 DEF IsExpansion, Lists
<1>4. ASSUME \A arg \in ToSet(line) : NoComma(arg), NEW f
      PROVE  Times(Sources(line), f) = Named(line, Len(line), f)
  <2> DEFINE S == {k \in 0 .. Len(line) : /\ IsFiniteSet(PlacesUpTo(line, k, f))
                                         /\ Times(r[k], f) = Named(line, k, f)}
  <2>1. 0 \in S
    <3>1. r[0] = <<>> /\ 0 \in 0 .. Len(line)
      BY <1>1, <1>2 DEF IsExpansion
    <3>2. Times(<<>>, f) = 0
      <4>1. {i \in 1 .. Len(<<>>) : <<>>[i] = f} = {}
        OBVIOUS
      <4> QED
        BY <4>1, FS_EmptySet DEF Times
    <3> QED
      BY <3>1, <3>2, NoneNamed
  <2>2. ASSUME NEW k \in 1 .. Len(line), k - 1 \in S
        PROVE  k \in S
    <3>1. /\ r[k] = r[k - 1] \o line[k].names /\ r[k - 1] \in Seq(Files)
          /\ line[k].names \in Seq(Files) /\ k \in Nat \ {0} /\ k \in 0 .. Len(line)
      <4>1. k \in Nat \ {0} /\ k \in 0 .. Len(line) /\ k - 1 \in 0 .. Len(line)
        BY <1>2
      <4>2. r[k] = Extended(r[k - 1], line[k]) /\ r[k - 1] \in Seq(Files)
        BY <1>1, <4>1 DEF IsExpansion, Lists
      <4>3. line[k].list = line[k].names /\ line[k].names \in Seq(Files)
        BY <1>2, <1>4 DEF IsLine, NoComma, IsArgument
      <4> QED
        BY <4>1, <4>2, <4>3 DEF Extended
    <3>2. Times(r[k], f) = Times(r[k - 1], f) + Times(line[k].names, f)
      BY <3>1, TimesOfConcat
    <3>3. /\ IsFiniteSet(PlacesUpTo(line, k, f))
          /\ Named(line, k, f) = Named(line, k - 1, f) + Times(line[k].names, f)
      BY <2>2, <3>1, MoreNamed
    <3>4. Times(r[k - 1], f) = Named(line, k - 1, f)
      BY <2>2
    <3> QED
      BY <3>1, <3>2, <3>3, <3>4
  <2>3. 0 .. Len(line) \subseteq S
    <3> HIDE DEF S
    <3> QED
      BY <1>2, <2>1, <2>2, Upward
  <2>4. Len(line) \in S
    <3> HIDE DEF S
    <3> QED
      BY <1>2, <2>3
  <2> QED
    BY <1>1, <2>4 DEF IsExpansion
<1> QED
  BY <1>3, <1>4
-----------------------------------------------------------------------------
(* The program's one call.                                                 *)

OneCall == runs <= 1 /\ (program = "started" => phase = "idle" /\ runs = 0)
ProgramInv == argv \in CommandLines /\ CallInv /\ OneCall

LEMMA LineOf ==
  ASSUME NEW line \in CommandLines
  PROVE  /\ IsLine(line) /\ Len(line) \in Nat /\ DOMAIN line = 1 .. Len(line)
         /\ \A i \in 1 .. Len(line) : line[i] \in ToSet(line)
<1>1. IsLine(line)
  BY CommandLinesAssumption
<1> QED
  BY <1>1, LenProperties, ElementsOf DEF IsLine

LEMMA CallStarts ==
  ASSUME CallInv, runs = 0, phase = "idle", NEW sources \in Seq(Files), Start(sources), NewState
  PROVE  /\ CallInv' /\ runs' = 1 /\ refused' = {} /\ stack' = <<>>
         /\ main_scripts' = <<>> /\ args' = sources /\ scripts' = sources /\ phase' = "main"
         /\ next_script' = 1
<1>1. /\ refused' = {} /\ stack' = <<>> /\ suspended' = {} /\ next_script' = 1
      /\ UNCHANGED <<loaded_module_scripts, loads, requires>>
  BY DEF NewState
<1>2. /\ runs' = 1 /\ args' = sources /\ scripts' = sources /\ phase' = "main"
      /\ processed' = {} /\ UNCHANGED <<main_scripts, module_scripts>>
  BY DEF Start, statics
<1>3. main_scripts = <<>> /\ module_scripts = {}
  BY DEF CallInv, FirstInv, First
<1>4. TypeOK' /\ SearchInv'
  BY StartType, StartSearch DEF CallInv
<1>5. StackInv'
  BY <1>1, EmptyStack DEF CallInv, StackInv
<1>6. FirstInv'
  BY <1>1, <1>2, <1>3, ElementsOfEmpty DEF FirstInv, First, Live
<1> QED
  BY <1>1, <1>2, <1>3, <1>4, <1>5, <1>6 DEF CallInv

\* Preparation and scripts change neither the number of calls nor their lists.
LEMMA RunsSteps ==
  ASSUME Runs
  PROVE  /\ LoadNext /\ program = "running" /\ UNCHANGED <<argv, program, exit_code>>
         /\ UNCHANGED <<runs, scripts>>
<1>1. /\ program = "running" /\ UNCHANGED <<argv, program, exit_code>>
      /\ (Prepare /\ UNCHANGED load_vars) \/ RunStep
  BY DEF Runs
<1>2. UNCHANGED <<runs, scripts>>
  BY <1>1 DEF RunStep, Prepare, PreprocessMain, MainDone, SkipModule, PreprocessModule,
         ModulesDone, LoadFails, LoadStd, LoadDl, Load, StdDone, DlsDone, RunFile, ResumeScript,
         Require, DlLoad, Return, YieldScript, RaiseError, Finished, local, vars
<1> QED
  BY <1>1, <1>2 DEF LoadNext

LEMMA ProgramStart == ProgramInit => ProgramInv
<1> SUFFICES ASSUME ProgramInit
             PROVE  ProgramInv
  OBVIOUS
<1>1. CallInv
  BY CallStart DEF ProgramInit
<1> QED
  BY <1>1 DEF ProgramInit, LoadInit, Init, ProgramInv, OneCall

\* What Launch does when the program does not end in it.
LEMMA LaunchStarts ==
  ASSUME ProgramInv, Launch, program' = "running"
  PROVE  /\ UNCHANGED argv /\ program = "started" /\ runs = 0 /\ phase = "idle"
         /\ Start(Sources(argv)) /\ Sources(argv) \in Seq(Files)
         /\ NewState
<1>1. /\ UNCHANGED argv /\ program = "started"
      /\ Start(Sources(argv))
      /\ NewState
  BY DEF Launch, Quits, Exits
<1>2. Sources(argv) \in Seq(Files)
  BY LineOf, ExpansionCounts DEF ProgramInv
<1> QED
  BY <1>1, <1>2 DEF ProgramInv, OneCall

LEMMA LaunchEnds ==
  ASSUME Launch, program' # "running"
  PROVE  /\ UNCHANGED <<all_vars, argv>> /\ program' \in {"exited", "undefined"}
         /\ program' = "exited" => exit_code' = -1
BY DEF Launch, Quits, Exits

LEMMA CallUnchanged ==
  ASSUME CallInv, UNCHANGED all_vars
  PROVE  CallInv'
BY CallIsKept

LEMMA ProgramIsKept ==
  ASSUME ProgramInv, [ProgramNext]_program_vars
  PROVE  ProgramInv'
<1>1. ASSUME UNCHANGED <<all_vars, argv>>, program' = program \/ program' # "started"
      PROVE  ProgramInv'
  <2>1. UNCHANGED <<runs, phase>>
    BY <1>1 DEF all_vars, vars
  <2> QED
    BY <1>1, <2>1, CallUnchanged DEF ProgramInv, OneCall
<1>2. CASE Launch /\ program' = "running"
  <2>1. CallInv' /\ runs' = 1
    BY <1>2, LaunchStarts, CallStarts DEF ProgramInv
  <2> QED
    BY <1>2, <2>1, LaunchStarts DEF ProgramInv, OneCall
<1>3. CASE Launch /\ program' # "running"
  BY <1>1, <1>3, LaunchEnds
<1>4. CASE Runs
  <2>1. CallInv'
    BY <1>4, RunsSteps, CallIsKept DEF ProgramInv
  <2> QED
    BY <1>4, <2>1, RunsSteps DEF ProgramInv, OneCall
<1>5. CASE Returned
  BY <1>1, <1>5 DEF Returned, Exits
<1>6. CASE UNCHANGED program_vars
  BY <1>1, <1>6 DEF program_vars
<1> QED
  BY <1>2, <1>3, <1>4, <1>5, <1>6 DEF ProgramNext

\* Types: the program's call keeps to them, whatever follows its name.
THEOREM ProgramTypeCorrect == ProgramSpec => []LoadTypeOK
<1>1. ProgramInv => LoadTypeOK
  BY DEF ProgramInv, CallInv, StackInv, LoadTypeOK
<1> QED
  BY <1>1, ProgramStart, ProgramIsKept, PTL DEF ProgramSpec

\* What the program runs is what is written out on its command line, or required by it.
THEOREM ProgramRunsNamedCorrect == ProgramSpec => [](OnlyNamedScriptsRun /\ LiteralsAreFound)
<1>1. ProgramInit => LiteralsAreFound
  BY DEF ProgramInit, LoadInit, LiteralsAreFound
<1>2. ProgramInv /\ LiteralsAreFound /\ [ProgramNext]_program_vars => LiteralsAreFound'
  <2> SUFFICES ASSUME ProgramInv, LiteralsAreFound, [ProgramNext]_program_vars
               PROVE  LiteralsAreFound'
    OBVIOUS
  <2>1. CASE Launch /\ program' = "running"
    <3>1. refused' = {}
      BY <2>1, LaunchStarts DEF NewState
    <3> QED
      BY <3>1 DEF LiteralsAreFound
  <2>2. ASSUME UNCHANGED all_vars
        PROVE  LiteralsAreFound'
    BY <2>2 DEF LiteralsAreFound, all_vars, vars, load_vars
  <2>3. CASE Launch /\ program' # "running"
    BY <2>2, <2>3, LaunchEnds
  <2>4. CASE Runs
    <3>1. First'
      BY <2>4, RunsSteps DEF ProgramInv, OneCall, First
    <3> QED
      BY <2>4, <3>1, RunsSteps, LiteralsAreKept DEF ProgramInv
  <2>5. CASE Returned \/ UNCHANGED program_vars
    BY <2>2, <2>5 DEF Returned, program_vars
  <2> QED
    BY <2>1, <2>3, <2>4, <2>5 DEF ProgramNext
<1>3. ProgramInv => OnlyNamedScriptsRun
  BY NamedOnly DEF ProgramInv, OneCall, First
<1> QED
  BY <1>1, <1>2, <1>3, ProgramStart, ProgramIsKept, PTL DEF ProgramSpec
-----------------------------------------------------------------------------
(* What has run when the program reports success.                          *)

Prepared ==
  /\ scripts = Sources(argv)
  /\ phase = "main" => main_scripts \o args = scripts
  /\ phase \notin {"main", "failed"} => main_scripts = scripts
  /\ next_script \in 1 .. Len(main_scripts) + 1
  /\ phase \in Preparing => next_script = 1
  /\ phase # "failed" => \A i \in 1 .. next_script - 1 : main_scripts[i] \notin Broken
  /\ phase = "idle" => next_script = Len(main_scripts) + 1
SuccessInv ==
  /\ program = "running" => Prepared
  /\ program = "exited" /\ exit_code = 0 => Prepared /\ phase = "idle"

LEMMA PreparedStart ==
  ASSUME ProgramInv, Launch, program' = "running"
  PROVE  Prepared'
<1> DEFINE sources == Sources(argv)
<1>1. sources \in Seq(Files)
  BY LaunchStarts
<1>2. /\ main_scripts' = <<>> /\ args' = sources /\ scripts' = sources /\ phase' = "main"
      /\ next_script' = 1 /\ argv' = argv
  BY <1>1, LaunchStarts, CallStarts DEF ProgramInv
<1>3. Sources(argv)' = sources
  BY <1>2
<1> HIDE DEF sources
<1>4. <<>> \o sources = sources /\ Len(<<>>) = 0
  BY <1>1
<1> QED
  BY <1>2, <1>3, <1>4 DEF Prepared, Preparing

LEMMA PreparedMain ==
  ASSUME CallInv, Prepared, UNCHANGED argv, PreprocessMain, UNCHANGED load_vars
  PROVE  Prepared'
<1>1. /\ phase = "main" /\ args # <<>> /\ main_scripts \o args = scripts /\ next_script = 1
      /\ next_script' = 1 /\ main_scripts \in Seq(Files) /\ args \in Seq(Files)
  BY DEF PreprocessMain, Prepared, load_vars, Preparing, CallInv, TypeOK
<1>2. scripts' = Sources(argv)'
  BY DEF Prepared, PreprocessMain, local
<1>3. CASE Fails(Head(args))
  <2>1. phase' = "failed" /\ main_scripts' = main_scripts
    BY <1>3 DEF PreprocessMain
  <2> QED
    BY <1>1, <1>2, <2>1 DEF Prepared, Preparing
<1>4. CASE ~Fails(Head(args))
  <2>1. /\ phase' = phase /\ scripts' = scripts /\ args' = Tail(args)
        /\ main_scripts' = Append(main_scripts, Head(args))
    BY <1>4 DEF PreprocessMain
  <2>2. Append(main_scripts, Head(args)) \o Tail(args) = main_scripts \o args
    BY <1>1, FrontOfTheRest
  <2>3. Len(main_scripts') \in Nat
    BY <1>1, <2>1, LenProperties, ElementsOfTail, ElementsOfAppend
  <2> QED
    BY <1>1, <1>2, <2>1, <2>2, <2>3 DEF Prepared, Preparing
<1> QED
  BY <1>3, <1>4

LEMMA PreparedRest ==
  ASSUME CallInv, Prepared, UNCHANGED argv, Prepare, ~PreprocessMain, UNCHANGED load_vars
  PROVE  Prepared'
<1>1. /\ phase \in Preparing /\ phase' \in {"modules", "std", "dls", "ready", "failed"}
      /\ phase = "main" => args = <<>>
      /\ UNCHANGED <<main_scripts, scripts, next_script>>
  BY DEF Prepare, MainDone, SkipModule, PreprocessModule, ModulesDone, LoadFails, LoadStd, LoadDl,
         Load, StdDone, DlsDone, local, statics, load_vars, Preparing
<1>2. main_scripts \in Seq(Files) /\ next_script = 1
  BY <1>1 DEF CallInv, TypeOK, Prepared
<1>3. main_scripts = scripts
  <2>1. main_scripts \o <<>> = main_scripts
    BY <1>2
  <2> QED
    BY <1>1, <2>1 DEF Prepared, Preparing
<1>4. Sources(argv)' = Sources(argv)
  OBVIOUS
<1> QED
  BY <1>1, <1>2, <1>3, <1>4 DEF Prepared, Preparing

LEMMA PreparedRun ==
  ASSUME CallInv, Prepared, UNCHANGED argv, RunStep
  PROVE  Prepared'
<1>1. Sources(argv)' = Sources(argv)
  OBVIOUS
<1>2. main_scripts \in Seq(Files) /\ Len(main_scripts) \in Nat /\ next_script \in Nat
  BY LenProperties DEF CallInv, TypeOK, StackInv
<1>3. CASE RunFile
  <2>1. /\ phase = "ready" /\ next_script \in 1 .. Len(main_scripts)
        /\ next_script' = next_script + 1 /\ UNCHANGED <<main_scripts, scripts>>
        /\ \/ phase' = "failed"
           \/ phase' = phase /\ main_scripts[next_script] \notin Broken
    BY <1>2, <1>3 DEF RunFile, InTurn, Prepared, local, statics
  <2>2. /\ next_script' \in 1 .. Len(main_scripts') + 1
        /\ 1 .. next_script' - 1 = (1 .. next_script - 1) \cup {next_script}
    BY <1>2, <2>1
  <2> QED
    BY <1>1, <2>1, <2>2 DEF Prepared, Preparing
<1>4. CASE Finished
  <2>1. /\ phase = "ready" /\ phase' = "idle" /\ ~(next_script <= Len(main_scripts))
        /\ UNCHANGED <<main_scripts, scripts, next_script>>
    BY <1>4 DEF Finished, InTurn, local, statics, load_vars
  <2>2. next_script = Len(main_scripts) + 1
    BY <1>2, <2>1 DEF Prepared
  <2> QED
    BY <1>1, <2>1, <2>2 DEF Prepared, Preparing
<1>5. CASE ~RunFile /\ ~Finished
  <2>1. /\ phase = "ready" /\ phase' \in {"ready", "failed"}
        /\ UNCHANGED <<main_scripts, scripts, next_script>>
    BY <1>5 DEF RunStep, ResumeScript, Require, DlLoad, Asks, Return, YieldScript, RaiseError,
                vars, local, statics
  <2> QED
    BY <1>1, <2>1 DEF Prepared, Preparing
<1> QED
  BY <1>3, <1>4, <1>5

LEMMA SuccessIsKept ==
  ASSUME ProgramInv, SuccessInv, [ProgramNext]_program_vars
  PROVE  SuccessInv'
<1>1. ASSUME UNCHANGED <<all_vars, argv>>
      PROVE  Prepared' = Prepared /\ phase' = phase
  BY <1>1 DEF all_vars, vars, load_vars, local, statics, Prepared
<1>2. CASE Launch /\ program' = "running"
  BY <1>2, PreparedStart DEF SuccessInv
<1>3. CASE Launch /\ program' # "running"
  BY <1>3, LaunchEnds DEF SuccessInv
<1>4. CASE Runs
  <2>1. /\ program = "running" /\ UNCHANGED <<argv, program, exit_code>>
        /\ \/ PreprocessMain /\ UNCHANGED load_vars
           \/ Prepare /\ ~PreprocessMain /\ UNCHANGED load_vars
           \/ RunStep
    BY <1>4 DEF Runs, Prepare
  <2>2. Prepared'
    BY <2>1, PreparedMain, PreparedRest, PreparedRun DEF ProgramInv, SuccessInv
  <2> QED
    BY <2>1, <2>2 DEF SuccessInv
<1>5. CASE Returned
  <2>1. /\ program = "running" /\ program' = "exited" /\ phase \in {"idle", "failed"}
        /\ exit_code' = (IF phase = "failed" THEN -1 ELSE 0) /\ UNCHANGED <<all_vars, argv>>
    BY <1>5 DEF Returned, Exits
  <2> QED
    BY <1>1, <2>1 DEF SuccessInv
<1>6. CASE UNCHANGED program_vars
  <2>1. UNCHANGED <<all_vars, argv, program, exit_code>>
    BY <1>6 DEF program_vars
  <2> QED
    BY <1>1, <2>1 DEF SuccessInv
<1> QED
  BY <1>2, <1>3, <1>4, <1>5, <1>6 DEF ProgramNext

LEMMA SuccessMeans ==
  ASSUME ProgramInv, SuccessInv
  PROVE  SuccessMeansAllRan
<1> SUFFICES ASSUME program = "exited", exit_code = 0, NEW f \in Files,
                    \A arg \in ToSet(argv) : NoComma(arg)
             PROVE  TimesRun(f) = TimesNamed(f)
  BY DEF SuccessMeansAllRan, NoComma
<1>1. /\ scripts = Sources(argv) /\ main_scripts = scripts
      /\ next_script = Len(main_scripts) + 1
      /\ \A i \in 1 .. next_script - 1 : main_scripts[i] \notin Broken
  BY DEF SuccessInv, Prepared
<1>2. /\ IsLine(argv) /\ DOMAIN argv = 1 .. Len(argv)
      /\ \A i \in 1 .. Len(argv) : DOMAIN argv[i].names = 1 .. Len(argv[i].names)
  BY LineOf, LenProperties DEF ProgramInv, IsLine, IsArgument
<1>3. Times(main_scripts, f) = Named(argv, Len(argv), f)
  BY <1>1, <1>2, ExpansionCounts
<1>4. TimesNamed(f) = Named(argv, Len(argv), f)
  BY <1>2 DEF TimesNamed, Named, PlacesUpTo, Names
<1>5. TimesRun(f) = Times(main_scripts, f)
  <2>1. Len(main_scripts) \in Nat
    BY LenProperties DEF ProgramInv, CallInv, TypeOK
  <2>2. next_script - 1 = Len(main_scripts)
    BY <1>1, <2>1
  <2>3. {i \in 1 .. Len(main_scripts) : main_scripts[i] = f /\ f \notin Broken}
          = {i \in 1 .. Len(main_scripts) : main_scripts[i] = f}
    BY <1>1, <2>2
  <2> QED
    BY <2>2, <2>3 DEF TimesRun, Times
<1> QED
  BY <1>3, <1>4, <1>5

\* If the program reports success, every script on its command line has run as often as
\* it is named there, unless a name has a comma in it (CLI/main.cpp:43-81).
THEOREM SuccessMeansAllRanCorrect == ProgramSpec => []SuccessMeansAllRan
<1>1. ProgramInit => SuccessInv
  BY DEF ProgramInit, SuccessInv
<1> QED
  BY <1>1, ProgramStart, ProgramIsKept, SuccessIsKept, SuccessMeans, PTL DEF ProgramSpec
=============================================================================
