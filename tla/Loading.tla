------------------------------ MODULE Loading ------------------------------
(***************************************************************************)
(* The scripts of a dluau_run: the main scripts in turn, the modules they  *)
(* require while they run (Core/loading.cpp), and the libraries they ask   *)
(* for (get_dlmodule).  A require runs its module on top of the requiring  *)
(* script.  What the task library does with a script that has yielded is   *)
(* reduced to its being resumed at some time.                              *)
(***************************************************************************)
EXTENDS Preprocessing

CONSTANTS
  Broken,      \* files that do not compile
  Dynamic,     \* TRUE: scripts also require, or ask for, what they have computed
  MaxDepth,    \* bound: LUAI_MAXCCALLS, the coroutines resumed within another
  MaxRequires  \* bound: calls of require and dlload in the process

ASSUME LoadingAssumption ==
  /\ Broken \subseteq Files /\ Dynamic \in BOOLEAN
  /\ MaxDepth \in Nat \ {0} /\ MaxRequires \in Nat

VARIABLES
  next_script,  \* dluau_run's place in main_scripts
  stack,        \* the scripts running, the executing one first
  suspended,    \* the scripts that have yielded
  loaded_module_scripts,
  loads,        \* per file: how often it has been run as a module
  refused,      \* <<file, call, path>> of the calls that were told the path is unknown
  requires      \* calls of require and dlload so far

load_vars == <<next_script, stack, suspended, loaded_module_scripts, loads, refused, requires>>
all_vars == <<vars, load_vars>>
-----------------------------------------------------------------------------
Executing == Head(stack)
InTurn == phase = "ready" /\ stack = <<>> /\ next_script <= Len(main_scripts)

\* mutant: the run goes on after a script that does not compile.
MutBrokenSkipped ==
  /\ InTurn
  /\ stack' = IF main_scripts[next_script] \in Broken THEN stack ELSE <<main_scripts[next_script]>>
  /\ next_script' = next_script + 1
  /\ UNCHANGED <<text, phase, local, statics, runs, suspended, loaded_module_scripts, loads,
                 refused, requires>>
\* run_file: a main script that does not compile ends the run.
RunFile ==
  /\ InTurn
  /\ LET script == main_scripts[next_script]
     IN IF script \in Broken
        THEN phase' = "failed" /\ UNCHANGED stack
        ELSE stack' = <<script>> /\ UNCHANGED phase
  /\ next_script' = next_script + 1
  /\ UNCHANGED <<text, local, statics, runs, suspended, loaded_module_scripts, loads,
                 refused, requires>>

\* task_step resumes a script.
ResumeScript(f) ==
  /\ phase = "ready" /\ stack = <<>> /\ ~InTurn
  /\ f \in suspended
  /\ suspended' = suspended \ {f}
  /\ stack' = <<f>>
  /\ UNCHANGED <<vars, next_script, loaded_module_scripts, loads, refused, requires>>

\* The paths the executing script may pass on: preprocessing has replaced the
\* literal ones by what they resolve to.
Literals(call) == ToSet(text[Executing][call])
Asks(call, path) ==
  /\ phase = "ready" /\ stack # <<>>
  /\ path \in Literals(call) \/ Dynamic
  /\ requires < MaxRequires /\ requires' = requires + 1

\* load_as_module_script, up to lua_resume.  Whatever fails is raised in the
\* requiring script, which may catch it.
Refuse(call, path) == refused' = refused \cup {<<Executing, call, path>>}
RunsAnything(path) == path \in Files   \* mutant
KnownModule(path) == path \in module_scripts
NeverTooDeep == FALSE   \* mutant
TooDeep == Len(stack) = MaxDepth   \* lua_resume is told of the thread that resumes
Require(path) ==
  /\ Asks("require", path)
  /\ IF ~KnownModule(path)
     THEN Refuse("require", path) /\ UNCHANGED <<stack, loads>>
     ELSE IF path \in Broken \/ TooDeep
     THEN UNCHANGED <<stack, loads, refused>>
     ELSE /\ stack' = <<path>> \o stack
          /\ loads' = [loads EXCEPT ![path] = @ + 1]
          /\ UNCHANGED refused
  /\ UNCHANGED <<vars, next_script, suspended, loaded_module_scripts>>

\* dlload and dlrequire: a look into loaded_dlmodules.
DlLoad(call, path) ==
  /\ Asks(call, path)
  /\ IF path \in loaded_dlmodules THEN UNCHANGED refused ELSE Refuse(call, path)
  /\ UNCHANGED <<vars, next_script, stack, suspended, loaded_module_scripts, loads>>

\* The executing script returns values.  A module that returns one of them is
\* remembered, though nothing looks there; any other number is an error for the
\* script that requires it.
Return(values) ==
  /\ phase = "ready" /\ stack # <<>>
  /\ stack' = Tail(stack)
  /\ loaded_module_scripts' =
       IF Len(stack) > 1 /\ values = 1 THEN loaded_module_scripts \cup {Executing}
                                       ELSE loaded_module_scripts
  /\ UNCHANGED <<vars, next_script, suspended, loads, refused, requires>>

\* It yields, to the task library or to be forgotten.  For a module this is an
\* error in the requiring script, and yet the task library keeps the module.
YieldScript ==
  /\ phase = "ready" /\ stack # <<>>
  /\ stack' = Tail(stack)
  /\ suspended' \in {suspended, suspended \cup {Executing}}
  /\ UNCHANGED <<vars, next_script, loaded_module_scripts, loads, refused, requires>>

\* It raises an error: one of a module goes to the requiring script, any other
\* ends the run.
RaiseError ==
  /\ phase = "ready" /\ stack # <<>>
  /\ stack' = Tail(stack)
  /\ phase' = IF Len(stack) = 1 THEN "failed" ELSE phase
  /\ UNCHANGED <<text, local, statics, runs, next_script, suspended,
                 loaded_module_scripts, loads, refused, requires>>

\* No task is left, and dluau_run returns.
Finished ==
  /\ phase = "ready" /\ stack = <<>> /\ ~InTurn /\ suspended = {}
  /\ phase' = "idle"
  /\ UNCHANGED <<text, local, statics, runs, load_vars>>

\* A call has its own lua_State; loaded_module_scripts is static.
NewState ==
  /\ stack = <<>>
  /\ next_script' = 1 /\ suspended' = {} /\ stack' = <<>> /\ refused' = {}
  /\ UNCHANGED <<loaded_module_scripts, loads, requires>>
StartAgain == ((\E given \in Arguments : Start(given)) \/ StartWithoutScripts) /\ NewState

LoadInit ==
  /\ Init
  /\ next_script = 1 /\ stack = <<>> /\ suspended = {} /\ loaded_module_scripts = {}
  /\ loads = [f \in Files |-> 0] /\ refused = {} /\ requires = 0

RunStep ==
  \/ RunFile
  \/ \E f \in Files : ResumeScript(f) \/ Require(f)
                      \/ DlLoad("dlload", f) \/ DlLoad("dlrequire", f)
  \/ \E values \in 0 .. 1 : Return(values)
  \/ YieldScript \/ RaiseError \/ Finished

LoadNext == StartAgain \/ (Prepare /\ UNCHANGED load_vars) \/ RunStep
LoadSpec == LoadInit /\ [][LoadNext]_all_vars
-----------------------------------------------------------------------------
LoadTypeOK ==
  /\ TypeOK
  /\ next_script \in Nat /\ stack \in Seq(Files) /\ Len(stack) <= MaxDepth
  /\ suspended \subseteq Files /\ loaded_module_scripts \subseteq Files
  /\ loads \in [Files -> Nat] /\ refused \subseteq Files \X Calls \X Files /\ requires \in Nat

\* The script files that the main scripts require, directly or not.
Reachable == {f \in Files : \A S \in SUBSET Files : RootNeeds \subseteq S /\ Closed(S) => f \in S}

\* What is written out in a script is found when the script runs, however deep in
\* requires and however late: require finds its module, dlload its library.
LiteralsAreFound ==
  \A f, path \in Files, call \in Calls :
    <<f, call, path>> \in refused => path \notin ToSet(text[f][call])

\* Whatever paths scripts compute, a script runs only when the main scripts are,
\* or lead to, it by names written out in them.
OnlyNamedScriptsRun == \A i \in DOMAIN stack : stack[i] \in ToSet(scripts) \cup Reachable
=============================================================================
