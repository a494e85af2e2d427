--------------------------- MODULE Preprocessing ---------------------------
(***************************************************************************)
(* dluau_init and dluau_run up to the first script (Core/runtime_setup.cpp,*)
(* Core/preprocessing.cpp, Core/dl_utility.cpp): the main scripts and the  *)
(* scripts they require, directly or not, are preprocessed, and the        *)
(* libraries that these name are loaded.                                   *)
(*                                                                         *)
(* A file is its normalized path.  Its text is, for each of the calls that *)
(* preprocessing looks for, what their arguments resolve to, in the order  *)
(* of the text; the order between different calls is left out.             *)
(***************************************************************************)
EXTENDS Naturals, Sequences, FiniteSets, SequencesExt

CONSTANTS
  Files,        \* scripts and libraries
  Unresolved,   \* what an argument that names no file resolves to
  Unreadable,   \* files that read_file cannot read, or that are not there
  Libraries,    \* files that LoadLibraryEx loads
  Arguments,    \* the lists of main scripts the host may give
  Texts,        \* the texts the files may have
  MaxRuns       \* bound: calls of dluau_init or dluau_run in the process

Calls == {"require", "dlload", "dlrequire", "std"}

ASSUME FilesAssumption ==
  /\ Unresolved \notin Files /\ Unreadable \subseteq Files /\ Libraries \subseteq Files
  /\ Arguments \subseteq Seq(Files) /\ MaxRuns \in Nat
\* `std.name` is the library dluau-std_name beside the program, there or not; what the
\* other calls name has to be found.
FileTexts ==
  {t \in [Files -> [Calls -> Seq(Files \cup {Unresolved})]] :
     \A f \in Files : t[f]["std"] \in Seq(Files)}
ASSUME TextsAssumption == Texts \subseteq FileTexts

VARIABLES
  text,              \* what is in the files
  phase,             \* where preprocess_dependencies is
  scripts,           \* the main scripts of the call
  args,              \* those of them still to be preprocessed
  main_scripts,      \* static: the main scripts to run
  module_scripts,    \* static: the keys of module_scripts
  queue,             \* module_script_queue
  processed,         \* processed_scripts
  std_dependencies,
  dl_dependencies,
  loading,           \* those of the two that the loop over them has not reached
  loaded_dlmodules,  \* static: the keys of loaded_dlmodules
  runs               \* calls so far

local == <<scripts, args, queue, processed, std_dependencies, dl_dependencies, loading>>
statics == <<main_scripts, module_scripts, loaded_dlmodules>>
vars == <<text, phase, local, statics, runs>>

Preparing == {"main", "modules", "std", "dls"}
Phases == Preparing \cup {"idle", "ready", "failed"}
-----------------------------------------------------------------------------
\* replace_meta_specifiers collects the matches and visits them from the last to
\* the first.  The pattern for `require` also matches the end of `dlrequire`.
ExpandWordOnly(f, fname) == Reverse(text[f][fname])   \* mutant
Expand(f, fname) ==
  IF fname = "require" THEN Reverse(text[f]["dlrequire"] \o text[f]["require"])
                       ELSE Reverse(text[f][fname])

\* preprocess_script.
FailsUnreadable(f) == f \in Unreadable   \* mutant
Fails(f) ==
  f \in Unreadable \/ \E c \in Calls \ {"std"} : Unresolved \in ToSet(text[f][c])
depends_on_scripts(f) == Expand(f, "require")
depends_on_std(f) == ToSet(text[f]["std"])
depends_on_dls(f) == ToSet(Expand(f, "dlload")) \cup ToSet(Expand(f, "dlrequire"))

register_script_dependencies(f, rest) ==
  /\ queue' = rest \o depends_on_scripts(f)
  /\ std_dependencies' = std_dependencies \cup depends_on_std(f)
  /\ dl_dependencies' = dl_dependencies \cup depends_on_dls(f)

\* A call with a list of scripts, or with none.
Start(given) ==
  /\ phase \notin Preparing /\ runs < MaxRuns
  /\ runs' = runs + 1
  /\ scripts' = given /\ args' = given /\ queue' = <<>> /\ processed' = {}
  /\ std_dependencies' = {} /\ dl_dependencies' = {} /\ loading' = {}
  /\ phase' = "main"
  /\ UNCHANGED <<text, statics>>

StartWithoutScripts ==
  /\ phase \notin Preparing /\ runs < MaxRuns
  /\ runs' = runs + 1
  /\ phase' = "failed"
  /\ UNCHANGED <<text, local, statics>>

PreprocessMain ==
  /\ phase = "main" /\ args # <<>>
  /\ LET script == Head(args)
     IN IF Fails(script)
        THEN phase' = "failed" /\ UNCHANGED <<local, main_scripts>>
        ELSE /\ register_script_dependencies(script, queue)
             /\ main_scripts' = Append(main_scripts, script)
             /\ args' = Tail(args)
             /\ UNCHANGED <<phase, scripts, processed, loading>>
  /\ UNCHANGED <<text, module_scripts, loaded_dlmodules, runs>>

MainDone ==
  /\ phase = "main" /\ args = <<>>
  /\ phase' = "modules"
  /\ UNCHANGED <<text, local, statics, runs>>

\* The path as it came is remembered and the normalized one looked up.  They are the same:
\* what resolve_require_path returns is normalized (require_logic.cpp:109, 123), but for the
\* message about a faulty configuration (103, 113), which is the path of no file.
DoneNever(f) == f \notin Files   \* mutant
Done(f) == f \in processed

SkipModule ==
  /\ phase = "modules" /\ queue # <<>> /\ Done(Head(queue))
  /\ queue' = Tail(queue)
  /\ UNCHANGED <<text, phase, scripts, args, processed, std_dependencies, dl_dependencies,
                 loading, statics, runs>>

RegisterOnce(current) ==   \* mutant
  IF current \in module_scripts
  THEN queue' = Tail(queue) /\ UNCHANGED <<std_dependencies, dl_dependencies>>
  ELSE register_script_dependencies(current, Tail(queue))
RegisterLibraries(current) ==   \* mutant
  /\ queue' = Tail(queue)
  /\ std_dependencies' = std_dependencies \cup depends_on_std(current)
  /\ dl_dependencies' = dl_dependencies \cup depends_on_dls(current)
Register(current) == register_script_dependencies(current, Tail(queue))

PreprocessModule ==
  /\ phase = "modules" /\ queue # <<>> /\ ~Done(Head(queue))
  /\ LET current == Head(queue)
     IN /\ processed' = processed \cup {current}
        /\ IF Fails(current)
           THEN /\ phase' = "failed" /\ queue' = Tail(queue)
                /\ UNCHANGED <<std_dependencies, dl_dependencies, module_scripts>>
           ELSE /\ Register(current)
                /\ module_scripts' = module_scripts \cup {current}
                /\ UNCHANGED phase
  /\ UNCHANGED <<text, scripts, args, loading, main_scripts, loaded_dlmodules, runs>>

ModulesDone ==
  /\ phase = "modules" /\ queue = <<>>
  /\ phase' = "std" /\ loading' = std_dependencies
  /\ UNCHANGED <<text, scripts, args, queue, processed, std_dependencies, dl_dependencies,
                 statics, runs>>

\* init_dlmodule: a library is loaded once in the process.  What its dlinit does to the
\* lua_State of that call is the library's.
init_dlmodule(l) ==
  \/ l \in loaded_dlmodules /\ UNCHANGED loaded_dlmodules
  \/ l \notin loaded_dlmodules /\ l \in Libraries /\ loaded_dlmodules' = loaded_dlmodules \cup {l}
CannotLoad(l) == l \notin loaded_dlmodules \cup Libraries

\* The loops over std::sets: names are abstract here, and so is their order.
Load(loop, l) ==
  /\ phase = loop /\ l \in loading
  /\ UNCHANGED <<text, scripts, args, queue, processed, std_dependencies, dl_dependencies,
                 main_scripts, module_scripts, runs>>
LoadFails(loop, l) ==
  /\ Load(loop, l) /\ CannotLoad(l)
  /\ phase' = "failed"
  /\ UNCHANGED <<loading, loaded_dlmodules>>

\* init_require_module: the library's dlrequire may be missing, or fail.
LoadStd(l) ==
  /\ Load("std", l) /\ init_dlmodule(l)
  /\ loading' = loading \ {l}
  /\ phase' \in {"std", "failed"}
LoadDl(l) ==
  /\ Load("dls", l) /\ init_dlmodule(l)
  /\ loading' = loading \ {l}
  /\ UNCHANGED phase

StdDone ==
  /\ phase = "std" /\ loading = {}
  /\ phase' = "dls" /\ loading' = dl_dependencies
  /\ UNCHANGED <<text, scripts, args, queue, processed, std_dependencies, dl_dependencies,
                 statics, runs>>
DlsDone ==
  /\ phase = "dls" /\ loading = {}
  /\ phase' = "ready"
  /\ UNCHANGED <<text, local, statics, runs>>

Init ==
  /\ text \in Texts /\ phase = "idle" /\ runs = 0
  /\ scripts = <<>> /\ args = <<>> /\ queue = <<>> /\ processed = {}
  /\ std_dependencies = {} /\ dl_dependencies = {} /\ loading = {}
  /\ main_scripts = <<>> /\ module_scripts = {} /\ loaded_dlmodules = {}

Prepare ==
  \/ PreprocessMain \/ MainDone
  \/ SkipModule \/ PreprocessModule \/ ModulesDone
  \/ \E l \in Files :
       LoadFails("std", l) \/ LoadFails("dls", l) \/ LoadStd(l) \/ LoadDl(l)
  \/ StdDone \/ DlsDone

Next == (\E given \in Arguments : Start(given)) \/ StartWithoutScripts \/ Prepare
Spec == Init /\ [][Next]_vars

\* preprocess_dependencies runs on: it waits for nothing.
FairSpec == Spec /\ WF_vars(Prepare)
-----------------------------------------------------------------------------
TypeOK ==
  /\ text \in FileTexts /\ phase \in Phases /\ runs \in 0 .. MaxRuns
  /\ scripts \in Seq(Files) /\ args \in Seq(Files) /\ main_scripts \in Seq(Files)
  /\ queue \in Seq(Files) /\ processed \subseteq Files /\ module_scripts \subseteq Files
  /\ std_dependencies \subseteq Files /\ dl_dependencies \subseteq Files
  /\ loading \subseteq Files /\ loaded_dlmodules \subseteq Libraries

\* Closed sets of files: with a file, those it requires.
Needs(f) == ToSet(depends_on_scripts(f))
Closed(S) == \A f \in S : Needs(f) \subseteq S
RootNeeds == UNION {Needs(f) : f \in ToSet(scripts)}

\* When the scripts are about to run, the files preprocessed are those that the
\* main scripts require, directly or not: each of them, and nothing else; and
\* `require` will find each of them in module_scripts.
ModulesAreTheReachable ==
  phase = "ready" =>
    /\ RootNeeds \subseteq processed /\ Closed(processed)
    /\ \A S \in SUBSET Files : RootNeeds \subseteq S /\ Closed(S) => processed \subseteq S
    /\ processed \subseteq module_scripts

\* By then every library that one of them names is loaded.
LibrariesAreLoaded ==
  phase = "ready" =>
    \A f \in ToSet(scripts) \cup processed :
      depends_on_std(f) \cup depends_on_dls(f) \subseteq loaded_dlmodules

\* Scripts that require one another in a circle do not keep dluau_run busy.
PreparationEnds == phase \in Preparing ~> phase \in {"ready", "failed"}
=============================================================================
