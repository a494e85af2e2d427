---------------------------- MODULE CommandLine ----------------------------
(***************************************************************************)
(* The program dluau (CLI/main.cpp, CLI/run.cpp): the scripts on its       *)
(* command line become the list, separated by commas, that it gives to one *)
(* dluau_run, whose result is the program's exit code.                     *)
(*                                                                         *)
(* An argument is what it is taken for: a source, an option, or both, as   *)
(* -o2.luau is; the scripts it names, one by one; and what it adds to the  *)
(* list, which are these names unless they have commas in them.            *)
(***************************************************************************)
EXTENDS Loading

CONSTANTS CommandLines   \* what may follow the program's name

Kinds == {"file", "directory", "no directory", "other"}
OptionTexts == {"none", "O", "bad O", "D", "bad D"}   \* bad: stoi finds no number, or a large one

\* A directory names its scripts in the order in which it is listed, whatever that is; a
\* comma, in the directory's name or in a script's, cuts a name in two or more.
IsArgument(arg) ==
  /\ arg.kind \in Kinds /\ arg.option \in OptionTexts
  /\ arg.names \in Seq(Files) /\ arg.list \in Seq(Files)
  /\ arg.list = arg.names \/ Len(arg.list) > Len(arg.names)
  /\ arg.names = <<>> => arg.list = <<>>
  /\ arg.kind = "file" => Len(arg.names) = 1
  /\ arg.kind \in {"no directory", "other"} => arg.names = <<>>
IsLine(line) == line \in Seq(ToSet(line)) /\ \A arg \in ToSet(line) : IsArgument(arg)
ASSUME CommandLinesAssumption == \A line \in CommandLines : IsLine(line)

VARIABLES
  argv,
  program,    \* "started", "running", "exited", "undefined"
  exit_code

program_vars == <<all_vars, argv, program, exit_code>>
-----------------------------------------------------------------------------
is_source(arg) == arg.kind \in {"file", "directory", "no directory"}

\* expand_source_file and expand_source_directory join the names with commas, and
\* preprocess_dependencies cuts the list there again.
Sources(line) == FoldLeft(LAMBDA list, arg : list \o arg.list, <<>>, line)

\* get_optimization_level and get_debug_level look at the first argument of their letter.
StoiThrows(good, bad) ==
  \E i \in DOMAIN argv : argv[i].option = bad /\ \A j \in 1 .. i - 1 : argv[j].option # good

Exits(code) == program' = "exited" /\ exit_code' = code
Quits == Exits(-1) /\ UNCHANGED all_vars

\* main and without_command: exceptions, of directory_iterator and stoi, are caught; an
\* empty list has no last comma to be taken away.
Refuses ==
  argv = <<>> \/ ~is_source(argv[1]) \/ \E arg \in ToSet(argv) : arg.kind = "no directory"
Launch ==
  /\ program = "started"
  /\ IF Refuses THEN Quits
     ELSE IF Sources(argv) = <<>>
     THEN program' = "undefined" /\ UNCHANGED <<all_vars, exit_code>>
     ELSE IF StoiThrows("O", "bad O") \/ StoiThrows("D", "bad D") THEN Quits
     ELSE program' = "running" /\ Start(Sources(argv)) /\ NewState /\ UNCHANGED exit_code
  /\ UNCHANGED argv

\* dluau_run goes on, and returns.
Runs ==
  /\ program = "running" /\ phase \notin {"idle", "failed"}
  /\ (Prepare /\ UNCHANGED load_vars) \/ RunStep
  /\ UNCHANGED <<argv, program, exit_code>>
Returned ==
  /\ program = "running" /\ phase \in {"idle", "failed"}
  /\ Exits(IF phase = "failed" THEN -1 ELSE 0)
  /\ UNCHANGED <<all_vars, argv>>

ProgramInit ==
  LoadInit /\ argv \in CommandLines /\ program = "started" /\ exit_code = 0
ProgramNext == Launch \/ Runs \/ Returned
ProgramSpec == ProgramInit /\ [][ProgramNext]_program_vars
-----------------------------------------------------------------------------
\* If the program reports success, every script on its command line, and in directories
\* on it, has run, as often as it is there, and nothing else as a main script
\* (CLI/main.cpp:43-81): none was left out because another could not be read, did not
\* compile or raised an error.  Not so if a name has a comma in it.
Names(line) == UNION {{i} \X DOMAIN line[i].names : i \in DOMAIN line}
TimesNamed(f) == Cardinality({p \in Names(argv) : argv[p[1]].names[p[2]] = f})
TimesRun(f) ==   \* what does not compile cannot have run
  Cardinality({i \in 1 .. next_script - 1 : main_scripts[i] = f /\ f \notin Broken})
SuccessMeansAllRan ==
  program = "exited" /\ exit_code = 0 =>
    \A f \in Files :
      TimesRun(f) = TimesNamed(f) \/ \E arg \in ToSet(argv) : arg.list # arg.names
=============================================================================
