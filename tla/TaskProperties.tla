--------------------------- MODULE TaskProperties ---------------------------
(***************************************************************************)
(* What the task library promises.  Some of it holds whatever scripts do;  *)
(* the rest needs scripts that keep to a discipline, given by Ops.         *)
(***************************************************************************)
EXTENDS TaskLibrary

\* Scripts that never change a container while task_step iterates over it:
\* no wait_for or do_after by what tasks_to_do_after resumes, no defer or cancel
\* by a deferred task, nothing that registers or cancels another waiter by a
\* waiter.  They return what they like, but what raises an error has a spawner that
\* catches it, and they hand to the library what it is documented to take, from where
\* they can yield.
CarefulScripts == [p \in CallPhases |->
  CASE p = "scripts"  -> {"wait", "spawn", "delay", "defer", "cancel", "wait_for",
                          "do_after", "create", "yield", "addctask", "raise_caught",
                          "return_value"}
    [] p = "after"    -> {"wait", "spawn", "delay", "defer", "cancel", "create", "yield",
                          "addctask", "raise_caught", "return_value"}
    [] p = "deferred" -> {"wait", "spawn", "delay", "wait_for", "do_after", "create",
                          "yield", "addctask", "raise_caught", "return_value"}
    [] p = "waiting"  -> {"wait", "defer", "wait_for", "do_after", "create", "yield",
                          "addctask", "return_value"}
    [] p = "ctasks"   -> {}]

\* The assumptions under which the theorems about careful scripts hold: they do no more
\* than that, a C task fails only where nothing goes on after it, and the clock advances
\* between a call to wait and the moment it can be due.
Careful ==
  /\ \A p \in ScriptPhases : Ops[p] \subseteq CarefulScripts[p]
  /\ Ops["ctasks"] \subseteq IF Embedded THEN {} ELSE {"raise"}
  /\ 0 \notin Durations
-----------------------------------------------------------------------------
IsMap(map, entries) ==
  /\ DOMAIN map \subseteq Threads
  /\ map = [t \in DOMAIN map |-> map[t]]
  /\ \A t \in DOMAIN map : map[t] \in entries

VmTypeOK ==
  /\ status \in [Threads -> Statuses] /\ top \in [Threads -> Nat]
  /\ running \in Seq(Threads)
  /\ \A t \in Threads :
       status[t] \in Active <=> \E i \in 1 .. Len(running) : running[i] = t
  /\ \A i, j \in 1 .. Len(running) : running[i] = running[j] => i = j

Waiters == [start : Nat, length : Nat, argn : Nat]
Followers == [after_this : Threads \cup {NoThread}, argn : Nat]
Instructions == [id : Threads, type : {"waiter", "after"}]
                  \cup [id : CTasks, type : {"ctask"}]
QueuesTypeOK ==
  /\ IsMap(waiting, Waiters) /\ IsMap(afters, Followers)
  /\ deferred \in Seq([thread : Threads, argn : Nat, held : BOOLEAN])
  /\ ctasks \in Seq(CTasks) /\ cleaning \in Seq(Instructions)
  /\ pins \in [Threads -> Int]

Loops == [at : Int, stop : Int, thread : Threads \cup {NoThread}, start : Nat]
LoopTypeOK ==
  /\ phase \in Phases /\ iter \in Loops
  /\ now \in Nat /\ clock \in Nat /\ calls \in Nat

\* Every variable has its type, and the active threads are those of the call
\* stack, each once.
TypeOK == VmTypeOK /\ QueuesTypeOK /\ LoopTypeOK

\* Instructions of the cleaning buffer yet to be carried out, and the containers
\* that will resume t.
Pending(id, type) ==
  {i \in DOMAIN cleaning :
     cleaning[i] = [id |-> id, type |-> type] /\ (phase = "clean" => i >= iter.at)}
WillWait(t) == t \in DOMAIN waiting /\ Pending(t, "waiter") = {}
WillFollow(t) == t \in DOMAIN afters /\ Pending(t, "after") = {}
WillRun(i, t) == deferred[i].thread = t /\ deferred[i].held
Scheduled(t) ==
  WillWait(t) \/ WillFollow(t) \/ \E i \in DOMAIN deferred : WillRun(i, t)

\* The references the entries of the containers hold to t.
Owed(t) ==
  Cardinality({t} \cap DOMAIN waiting) + Cardinality({t} \cap DOMAIN afters)
  + Cardinality({k \in DOMAIN afters : afters[k].after_this = t})
  + Cardinality({i \in DOMAIN deferred : WillRun(i, t)})
-----------------------------------------------------------------------------
\* The pointers to t that a loop of task_step can still follow, those in deferred_tasks
\* included that are released: the loop has passed them (238), but when the step fails
\* (240) they are not cleared away (243), and a host that steps again comes to them again.
ToVisit(i) == phase = "deferred" => i <= iter.at
Pointers(t) ==
  Cardinality({t} \cap DOMAIN waiting) + Cardinality({t} \cap DOMAIN afters)
  + Cardinality({k \in DOMAIN afters : afters[k].after_this = t})
  + Cardinality({i \in DOMAIN deferred : deferred[i].thread = t /\ ToVisit(i)})
LeftByFailedStep(t) ==
  IF Embedded
  THEN Cardinality({i \in DOMAIN deferred :
                      deferred[i].thread = t /\ ToVisit(i) /\ ~deferred[i].held})
  ELSE 0

\* Whatever scripts do, until a container is changed under its own loop: a thread
\* that containers point to is referenced from the registry once per pointer that
\* task_step can still follow, so it is not collected before.  That is so in dluau_run,
\* which a failed step ends; a host that steps again finds pointers without a reference,
\* but none other than those to the deferred tasks that the failed step has resumed.
QueuedThreadsArePinned ==
  phase \notin Stopped => \A t \in Threads : pins[t] + LeftByFailedStep(t) >= Pointers(t)

\* Likewise: the cleaning buffer does not ask to remove a C task more often than
\* it is registered, so task_step finds what it looks for.
CTasksMatch ==
  phase # "undefined" =>
    \A c \in CTasks : Cardinality(Pending(c, "ctask"))
                        <= Cardinality({i \in DOMAIN ctasks : ctasks[i] = c})
-----------------------------------------------------------------------------
\* Careful scripts, if no C task fails: no loop of task_step is left with dangling
\* iterators or shifted slots, no resume reads below a stack, no reference is released
\* twice, no key is gone when it is cleaned away (`at` throws), and no container resumes
\* a thread that has come to its end, which would fail the run.
NothingBreaks == phase \notin {"undefined", "aborted", "failed"}

\* The entries hold no more references than they release.
RefsBalanced == \A t \in Threads : pins[t] = Owed(t)

\* A thread inside task.wait_for is registered to be resumed, by an entry that is not
\* about to be cleaned away.
NoLostWaitFor == \A t \in Threads : status[t] = "in_wait_for" => WillFollow(t)

\* The entry that will resume a thread counts exactly the arguments that were
\* moved to its stack for that.
ArgumentsAreThere ==
  \A t \in Threads : status[t] \in {"fresh"} \cup Suspended /\ iter.thread # t =>
    /\ WillWait(t) => top[t] = waiting[t].argn
    /\ WillFollow(t) => top[t] = afters[t].argn
    /\ \A i \in DOMAIN deferred : WillRun(i, t) => top[t] = deferred[i].argn

-----------------------------------------------------------------------------
(***************************************************************************)
(* The refinement.  An entry counts until the host resumes its thread, or  *)
(* asks for it to be cleaned away; the entry of a waiter that has called   *)
(* wait again is a new one.                                                *)
(***************************************************************************)
BeingResumed(t, loop) == phase = loop /\ iter.thread = t
StillDue(t) ==
  WillWait(t) /\ (BeingResumed(t, "waiting") => waiting[t].start # iter.start)
StillFollowing(t) == WillFollow(t) /\ ~BeingResumed(t, "after")
StillDeferred ==
  CASE phase = "deferred" /\ iter.thread = NoThread -> iter.at
    [] phase = "deferred" /\ iter.thread # NoThread -> iter.at - 1
    [] OTHER                                        -> Len(deferred)

Abstract == INSTANCE Scheduler WITH
  turn  <- iter.thread,
  due   <- [t \in {u \in DOMAIN waiting : StillDue(u)} |-> waiting[t].start + waiting[t].length],
  after <- [t \in {u \in DOMAIN afters : StillFollowing(u)} |-> afters[t].after_this],
  later <- [i \in 1 .. StillDeferred |-> deferred[i].thread],
  ended <- {t \in Threads : IsFinished(t)},   \* who returned a value is not taken to have
  time  <- clock

\* Careful scripts find in the containers, loops and cleaning instructions of
\* task_library.cpp the scheduler of module Scheduler: no place of a thread is lost
\* or served twice, nobody's turn comes early or after its thread was cancelled, and
\* deferred tasks take their turns the newest first.
ImplementsScheduler == Abstract!Spec

\* Every task.wait returns.
WaitReturns ==
  \A t \in Threads : status[t] = "in_wait" ~> status[t] # "in_wait"

Awaits(t, ends) ==
  t \in {u \in DOMAIN afters :
         /\ status[u] = "in_wait_for" /\ afters[u].after_this # NoThread
         /\ <<status[afters[u].after_this], top[afters[u].after_this]>> \in ends}

\* A task.wait_for returns once the awaited thread has returned without a value or was
\* cancelled.
WaitForReturns ==
  \A t \in Threads : Awaits(t, {<<"finished", 0>>}) ~> status[t] # "in_wait_for"


\* dluau_run comes to its end, unless some thread is awaited for ever.
RunEnds == <>[](afters = <<>>) => <>(phase = "exit")
=============================================================================
