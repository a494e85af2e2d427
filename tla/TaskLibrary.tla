---------------------------- MODULE TaskLibrary ----------------------------
(***************************************************************************)
(* The `task` library and its scheduler, Core/task_library.cpp, driven by  *)
(* dluau_run (Core/runtime_setup.cpp).  Scripts are Luau threads; what the *)
(* executing one calls moves threads between five static containers, and   *)
(* task_step walks these one after the other and resumes threads, whose    *)
(* scripts call the library again under the loop that resumed them.        *)
(*                                                                         *)
(* Threads are numbers, ordered as the addresses of their lua_States: that *)
(* is the order of the flat_maps.                                          *)
(***************************************************************************)
EXTENDS Integers, Sequences, FiniteSets, SequencesExt

CONSTANTS
  MaxThread,     \* bound: the lua_States are 1 .. MaxThread
  MainScripts,   \* those of them that run the main scripts
  CTasks,        \* callbacks given to dluau_addctask
  Ops,           \* per phase of the run, what scripts may do then
  Durations,     \* the seconds they pass to wait and delay
  MaxArgs,       \* bound: arguments handed over with a thread
  MaxCalls,      \* bound: library calls, and steps after a failed one
  MaxClock,      \* bound: last instant at which something can fall due
  Embedded       \* TRUE: the host goes on after a failed step

Threads == 1 .. MaxThread
NoThread == 0

\* "any_thread" lifts the restriction of thread arguments to coroutines that no
\* container knows, and of cancel to threads that wait or are deferred;
\* "any_value" lets wait_for and do_after be given something else than a thread,
\* and the value of an error be something else than text; "raise" lets any thread
\* end in an error, "raise_caught" those that were spawned by one that catches it;
\* "unyieldable" lets scripts call from where Luau cannot yield.
OpNames == {"wait", "spawn", "delay", "defer", "cancel", "wait_for", "do_after",
            "addctask", "create", "yield", "raise", "raise_caught",
            "return_value", "any_thread", "any_value", "unyieldable"}
ScriptPhases == {"scripts", "after", "deferred", "waiting"}
CallPhases == ScriptPhases \cup {"ctasks"}
Stopped == {"exit", "failed", "aborted", "undefined"}
Phases == CallPhases \cup {"ready", "clean"} \cup Stopped

ASSUME ThreadsAssumption == MaxThread \in Nat /\ MainScripts \subseteq Threads
ASSUME ScriptsAssumption ==
  /\ Ops \in [CallPhases -> SUBSET OpNames] /\ Durations \subseteq Nat
  /\ MaxArgs \in Nat /\ MaxCalls \in Nat /\ MaxClock \in Nat /\ Embedded \in BOOLEAN

VARIABLES
  status,     \* per thread: its lua_status, and the C function it is suspended in
  top,        \* per thread: values on its stack above its function or frame
  running,    \* the active coroutines, the executing one first
  waiting,    \* waiting_tasks
  afters,     \* tasks_to_do_after
  deferred,   \* deferred_tasks
  ctasks,     \* c_based_tasks
  cleaning,   \* cleaning_buffer
  pins,       \* per thread: registry references to it
  phase,      \* where dluau_run and task_step are
  iter,       \* the loop being executed and the resume under way
  now,        \* task_step's `now`
  clock,      \* steady_clock
  calls       \* library calls so far

vm == <<status, top, running>>
queues == <<waiting, afters, deferred, ctasks, cleaning>>
times == <<now, clock, calls>>
vars == <<vm, queues, pins, phase, iter, times>>

Suspended == {"in_wait", "in_wait_for", "in_yield"}
Active == {"running", "normal"}
Statuses == {"absent", "fresh", "finished", "errored"} \cup Suspended \cup Active
-----------------------------------------------------------------------------
\* The flat_maps are functions of their keys.  Slot i is that of the i-th key;
\* emplace leaves an entry that is there as it is.
AtSlot(map, t, i) ==
  t \in DOMAIN map /\ Cardinality({u \in DOMAIN map : u < t}) = i - 1
Size(map) == Cardinality(DOMAIN map)
Emplace(map, t, entry) ==
  [k \in DOMAIN map \cup {t} |-> IF k \in DOMAIN map THEN map[k] ELSE entry]
Erase(map, t) == [k \in DOMAIN map \ {t} |-> map[k]]

\* A container that grows under the loop that iterates over it moves to new
\* storage and leaves the iterators dangling, or has room for the element.
Growing(loop) == IF phase = loop THEN {phase, "undefined"} ELSE {phase}

\* lua_ref and lua_unref.
Ref(t) == pins' = [pins EXCEPT ![t] = @ + 1]
Unref(t) == pins' = [pins EXCEPT ![t] = @ - 1]

(***************************************************************************)
(* lua_resume of t with argn arguments.  Under the arguments a fresh       *)
(* thread must have its function, so exactly argn values above it; without *)
(* a function a finished one is an error, and when it has fewer values     *)
(* than arguments the VM reads below its stack.  A suspended thread takes  *)
(* its topmost argn values, whatever they are.                             *)
(***************************************************************************)
CanRun(t, argn) ==
  \/ status[t] \in {"absent", "fresh"} /\ top[t] = argn
  \/ status[t] \in Suspended
ReadsBelow(t, argn) == status[t] = "finished" /\ top[t] < argn

\* The host resumes t, and keeps `start` of the entry until it is back.
HostResume(t, argn, start) ==
  IF ReadsBelow(t, argn)
  THEN phase' = "undefined" /\ UNCHANGED <<vm, iter>>
  ELSE /\ status' = [status EXCEPT ![t] = IF CanRun(t, argn) THEN "running" ELSE "errored"]
       /\ running' = IF CanRun(t, argn) THEN <<t>> ELSE <<>>
       /\ top' = [top EXCEPT ![t] = 0]
       /\ iter' = [iter EXCEPT !.thread = t, !.start = start]
       /\ UNCHANGED phase

\* The executing thread leaves its coroutine; the thread that spawned it goes on.
self == Head(running)
Leave(s, values) ==
  /\ running' = Tail(running)
  /\ status' = [t \in Threads |->
                  IF t = self THEN s
                  ELSE IF Len(running) > 1 /\ t = running[2] THEN "running"
                  ELSE status[t]]
  /\ top' = [top EXCEPT ![self] = values]

WaitsOrIsDeferred(t) ==
  t \in DOMAIN waiting \/ \E i \in DOMAIN deferred : deferred[i].thread = t
Queued(t) == WaitsOrIsDeferred(t) \/ t \in DOMAIN afters
Created == {t \in Threads : status[t] # "absent"}
Coroutines ==
  {t \in Threads \ MainScripts : status[t] = "absent"}
    \cup {t \in Created : \/ "any_thread" \in Ops[phase]
                          \/ status[t] \in {"fresh", "in_yield"} /\ ~Queued(t)}
Awaitable == Created \cup (IF "any_value" \in Ops[phase] THEN {NoThread} ELSE {})

\* resolve_task_argument: a function becomes a new thread; the arguments move to
\* the thread's stack, where they do not outlive the call an active thread is in.
HandOneMore(t, argn) ==   \* mutant
  /\ status' = [status EXCEPT ![t] = IF @ = "absent" THEN "fresh" ELSE @]
  /\ top' = [top EXCEPT ![t] = IF status[t] \in Active THEN @ ELSE @ + argn + 1]
  /\ UNCHANGED running
Hand(t, argn) ==
  /\ status' = [status EXCEPT ![t] = IF @ = "absent" THEN "fresh" ELSE @]
  /\ top' = [top EXCEPT ![t] = IF status[t] \in Active THEN @ ELSE @ + argn]
  /\ UNCHANGED running
-----------------------------------------------------------------------------
Call(op) ==
  /\ op \in Ops[phase]
  /\ calls < MaxCalls /\ calls' = calls + 1
  /\ UNCHANGED <<iter, now, clock>>

WaitAgainKeepsStart(seconds) ==   \* mutant
  /\ self \in DOMAIN waiting
  /\ waiting' = [waiting EXCEPT ![self].length = seconds]
  /\ UNCHANGED <<pins, phase>>
WaitAgain(seconds) ==
  /\ self \in DOMAIN waiting
  /\ waiting' = [waiting EXCEPT ![self].start = clock, ![self].length = seconds]
  /\ UNCHANGED <<pins, phase>>

WaitFirst(seconds) ==
  /\ self \notin DOMAIN waiting
  /\ waiting' = Emplace(waiting, self, [start |-> clock, length |-> seconds, argn |-> 0])
  /\ Ref(self)
  /\ phase' \in Growing("waiting")

Wait(seconds) ==
  /\ Call("wait") /\ clock + seconds <= MaxClock
  /\ WaitAgain(seconds) \/ WaitFirst(seconds)
  /\ Leave("in_wait", 0)
  /\ UNCHANGED <<afters, deferred, ctasks, cleaning>>

\* Where the thread cannot yield, wait raises an error before anything else.
WaitRefused ==
  /\ Call("wait") /\ "unyieldable" \in Ops[phase]
  /\ UNCHANGED <<vm, queues, pins, phase>>

\* A function, or a thread that lua_resume accepts, runs at once.  Otherwise
\* spawn raises an error, which the caller may catch.
Spawn(t, argn) ==
  /\ Call("spawn")
  /\ IF status[t] \in Active
     THEN UNCHANGED vm
     ELSE /\ top' = [top EXCEPT ![t] = 0]
          /\ IF CanRun(t, 0)
             THEN /\ status' = [status EXCEPT ![t] = "running", ![self] = "normal"]
                  /\ running' = <<t>> \o running
             ELSE /\ status' = [status EXCEPT ![t] = "errored"]
                  /\ UNCHANGED running
  /\ UNCHANGED <<queues, pins, phase>>

Delay(seconds, t, argn) ==
  /\ Call("delay") /\ clock + seconds <= MaxClock
  /\ Hand(t, argn) /\ Ref(t)
  /\ waiting' = Emplace(waiting, t, [start |-> clock, length |-> seconds, argn |-> argn])
  /\ phase' \in IF t \in DOMAIN waiting THEN {phase} ELSE Growing("waiting")
  /\ UNCHANGED <<afters, deferred, ctasks, cleaning>>

Defer(t, argn) ==
  /\ Call("defer")
  /\ Hand(t, argn) /\ Ref(t)
  /\ deferred' = Append(deferred, [thread |-> t, argn |-> argn, held |-> TRUE])
  /\ phase' \in Growing("deferred")
  /\ UNCHANGED <<waiting, afters, ctasks, cleaning>>

\* coroutine.close, then the first container, of the two looked at, that knows
\* the thread forgets it.  The reference of a deferred task that has run is
\* released already: to release it again breaks the registry's free list.  Erasing
\* from deferred_tasks under its own loop shifts it under the iterator.
FromWaitingKept(t) ==   \* mutant
  /\ t \in DOMAIN waiting
  /\ Unref(t)
  /\ UNCHANGED <<waiting, deferred, phase>>
FromWaitingKeepsRef(t) ==   \* mutant
  /\ t \in DOMAIN waiting
  /\ waiting' = Erase(waiting, t)
  /\ UNCHANGED <<deferred, pins, phase>>
FromWaiting(t) ==
  /\ t \in DOMAIN waiting
  /\ waiting' = Erase(waiting, t)
  /\ Unref(t)
  /\ UNCHANGED <<deferred, phase>>

FromDeferred(t) ==
  /\ t \notin DOMAIN waiting
  /\ \E i \in DOMAIN deferred :
       /\ deferred[i].thread = t /\ \A j \in 1 .. i - 1 : deferred[j].thread # t
       /\ deferred' = RemoveAt(deferred, i)
       /\ phase' = IF phase = "deferred" \/ ~deferred[i].held THEN "undefined" ELSE phase
  /\ Unref(t)
  /\ UNCHANGED waiting

FromNone(t) ==
  /\ t \notin DOMAIN waiting /\ \A i \in DOMAIN deferred : deferred[i].thread # t
  /\ UNCHANGED <<waiting, deferred, pins, phase>>

ClosableAlways(t) == TRUE   \* mutant
Closable(t) == status[t] \notin Active

Cancel(t) ==
  /\ Call("cancel")
  /\ "any_thread" \in Ops[phase] \/ WaitsOrIsDeferred(t)
  /\ IF Closable(t)
     THEN /\ status' = [status EXCEPT ![t] = "finished"]
          /\ top' = [top EXCEPT ![t] = 0]
          /\ FromWaiting(t) \/ FromDeferred(t) \/ FromNone(t)
     ELSE UNCHANGED <<status, top, waiting, deferred, pins, phase>>
  /\ UNCHANGED <<running, afters, ctasks, cleaning>>

\* The caller is referenced twice, and one of the references is never released.
Await(thread) ==
  /\ Call("wait_for")
  /\ pins' = [t \in Threads |-> pins[t] + (IF t = thread THEN 1 ELSE 0)
                                       + (IF t = self THEN 2 ELSE 0)]
  /\ afters' = Emplace(afters, self, [after_this |-> thread, argn |-> 0])
  /\ phase' \in IF self \in DOMAIN afters THEN {phase} ELSE Growing("after")
  /\ UNCHANGED <<waiting, deferred, ctasks, cleaning>>
WaitFor(thread) == Await(thread) /\ Leave("in_wait_for", 0)

\* Where the thread cannot yield, the error comes after the entry is made.
WaitForRefused(thread) ==
  Await(thread) /\ "unyieldable" \in Ops[phase] /\ UNCHANGED vm

DoAfter(thread, t, argn) ==
  /\ Call("do_after")
  /\ Hand(t, argn)
  /\ pins' = [u \in Threads |-> pins[u] + (IF u = thread THEN 1 ELSE 0)
                                       + (IF u = t THEN 1 ELSE 0)]
  /\ afters' = Emplace(afters, t, [after_this |-> thread, argn |-> argn])
  /\ phase' \in IF t \in DOMAIN afters THEN {phase} ELSE Growing("after")
  /\ UNCHANGED <<waiting, deferred, ctasks, cleaning>>

\* The second argument is no task: the error leaves the first one referenced.
DoAfterNothing(thread) ==
  /\ Call("do_after") /\ "any_value" \in Ops[phase]
  /\ pins' = [u \in Threads |-> pins[u] + (IF u = thread THEN 1 ELSE 0)]
  /\ UNCHANGED <<vm, queues, phase>>

\* dluau_addctask, by a C function the script calls or by a C task.
AddCTask(task) ==
  /\ Call("addctask")
  /\ ctasks' = Append(ctasks, task)
  /\ phase' \in Growing("ctasks")
  /\ UNCHANGED <<vm, waiting, afters, deferred, cleaning, pins>>

\* coroutine.create and coroutine.yield.
Create(t) ==
  /\ Call("create")
  /\ status[t] = "absent" /\ t \notin MainScripts
  /\ status' = [status EXCEPT ![t] = "fresh"]
  /\ UNCHANGED <<top, running, queues, pins, phase>>
Yield ==
  /\ Call("yield")
  /\ Leave("in_yield", 0)
  /\ UNCHANGED <<queues, pins, phase>>

\* The thread's function returns, and its values stay on the stack; or it raises
\* an error that it does not catch, which a spawner gets from spawn.
Finish(values) ==
  /\ values = 0 \/ "return_value" \in Ops[phase]
  /\ Leave("finished", values)
  /\ UNCHANGED <<queues, pins, phase, iter, times>>
Raise ==
  /\ \/ "raise" \in Ops[phase]
     \/ "raise_caught" \in Ops[phase] /\ Len(running) > 1
  /\ Leave("errored", 0)
  /\ UNCHANGED <<queues, pins, phase, iter, times>>

Executing == running # <<>> /\ phase \in ScriptPhases
Script ==
  /\ Executing
  /\ \/ \E s \in Durations : Wait(s)
     \/ \E t \in Coroutines, n \in 0 .. MaxArgs :
          \/ Spawn(t, n)
          \/ Defer(t, n)
          \/ \E s \in Durations : Delay(s, t, n)
          \/ \E u \in Awaitable : DoAfter(u, t, n)
     \/ \E t \in Created : Cancel(t)
     \/ \E u \in Awaitable : WaitFor(u) \/ WaitForRefused(u) \/ DoAfterNothing(u)
     \/ WaitRefused
     \/ \E c \in CTasks : AddCTask(c)
     \/ \E t \in Threads : Create(t)
     \/ Yield
     \/ \E n \in 0 .. 1 : Finish(n)
     \/ Raise
-----------------------------------------------------------------------------
\* iter.thread is the thread the host has resumed, until it looks at the result.
Result == status[iter.thread]
Idle == running = <<>> /\ iter.thread = NoThread
Back == running = <<>> /\ iter.thread # NoThread
\* How the host goes on when the thread it has resumed ended in an error.  It
\* takes the error for text, and lua_tostring gives none for most values.
OnError == {"failed"} \cup (IF "any_value" \in Ops[phase] THEN {"undefined"} ELSE {})
Loop(from, to) == [at |-> from, stop |-> to, thread |-> NoThread, start |-> 0]
Advanced(step) == [iter EXCEPT !.at = @ + step, !.thread = NoThread, !.start = 0]

\* dluau_run: the main scripts in turn, then steps until nothing is left.
RunScript(t) ==
  /\ phase = "scripts" /\ Idle
  /\ t \in MainScripts /\ status[t] = "absent"
  /\ HostResume(t, 0, 0)
  /\ UNCHANGED <<queues, pins, times>>

ScriptReturned ==
  /\ phase = "scripts" /\ Back
  /\ phase' \in IF Result = "errored" THEN OnError ELSE {phase}
  /\ iter' = Advanced(1)
  /\ UNCHANGED <<vm, queues, pins, times>>

ScriptsDone ==
  /\ phase = "scripts" /\ Idle
  /\ MainScripts \subseteq Created
  /\ phase' = "ready"
  /\ UNCHANGED <<vm, queues, pins, iter, times>>

tasks_in_progress ==
  waiting # <<>> \/ deferred # <<>> \/ afters # <<>> \/ ctasks # <<>>

Exit ==
  /\ phase = "ready" /\ ~tasks_in_progress
  /\ phase' = "exit"
  /\ UNCHANGED <<vm, queues, pins, iter, times>>

BeginStep ==
  /\ now' = clock
  /\ phase' = "after" /\ iter' = Loop(1, Size(afters))
  /\ UNCHANGED <<vm, queues, pins, clock>>
RunStep == phase = "ready" /\ tasks_in_progress /\ BeginStep /\ UNCHANGED calls

\* An embedder calls dluau_taskstep again after it has returned false, whether
\* anything is in progress or not.
StepAgain ==
  /\ Embedded /\ phase = "failed" /\ BeginStep
  /\ calls < MaxCalls /\ calls' = calls + 1

\* From one loop of task_step to the next.
Proceed(loop, next, from, to) ==
  /\ phase = loop /\ Idle
  /\ phase' = next /\ iter' = Loop(from, to)
  /\ UNCHANGED <<vm, waiting, afters, ctasks, cleaning, pins, times>>

(***************************************************************************)
(* task_step: tasks_to_do_after.                                           *)
(***************************************************************************)
IsFinishedWithValues(t) == status[t] = "finished" /\ top[t] # 0   \* mutant
IsFinished(t) == status[t] = "finished" /\ top[t] = 0

VisitAfter(t) ==
  /\ phase = "after" /\ Idle /\ iter.at <= iter.stop
  /\ AtSlot(afters, t, iter.at)
  /\ UNCHANGED <<queues, pins, times>>

SkipAfter(t) ==
  /\ VisitAfter(t)
  /\ afters[t].after_this # NoThread /\ ~IsFinished(afters[t].after_this)
  /\ iter' = Advanced(1)
  /\ UNCHANGED <<vm, phase>>

ResumeAfter(t) ==
  /\ VisitAfter(t)
  /\ afters[t].after_this # NoThread /\ IsFinished(afters[t].after_this)
  /\ HostResume(t, afters[t].argn, 0)

\* lua_gettop of a null lua_State.
AfterNothing(t) ==
  /\ VisitAfter(t)
  /\ afters[t].after_this = NoThread
  /\ phase' = "undefined"
  /\ UNCHANGED <<vm, iter>>

\* `state` is a reference into the slot, which may hold another thread by now.
AfterReturned(t) ==
  /\ phase = "after" /\ Back
  /\ AtSlot(afters, t, iter.at)
  /\ IF Result = "errored"
     THEN phase' \in OnError /\ UNCHANGED cleaning
     ELSE cleaning' = Append(cleaning, [id |-> t, type |-> "after"]) /\ UNCHANGED phase
  /\ iter' = Advanced(1)
  /\ UNCHANGED <<vm, waiting, afters, deferred, ctasks, pins, times>>

AftersDoneSkipsNewest ==   \* mutant
  /\ Proceed("after", "deferred", Len(deferred) - 1, 1) /\ iter.at > iter.stop
  /\ UNCHANGED deferred
AftersDone ==
  /\ Proceed("after", "deferred", Len(deferred), 1) /\ iter.at > iter.stop
  /\ UNCHANGED deferred

(***************************************************************************)
(* task_step: deferred_tasks.  The iterator counts down.                   *)
(***************************************************************************)
CountingDown == iter.at

ResumeDeferred ==
  /\ phase = "deferred" /\ Idle /\ iter.at >= iter.stop
  /\ HostResume(deferred[CountingDown].thread, deferred[CountingDown].argn, 0)
  /\ UNCHANGED <<queues, pins, times>>

DeferredReturned ==
  /\ phase = "deferred" /\ Back
  /\ Unref(deferred[CountingDown].thread)
  /\ deferred' = [deferred EXCEPT ![CountingDown].held = FALSE]
  /\ phase' \in IF ~deferred[CountingDown].held THEN {"undefined"}
                ELSE IF Result = "errored" THEN OnError ELSE {phase}
  /\ iter' = Advanced(-1)
  /\ UNCHANGED <<vm, waiting, afters, ctasks, cleaning, times>>

DeferredDoneKeepsTasks ==   \* mutant
  /\ Proceed("deferred", "waiting", 1, Size(waiting)) /\ iter.at < iter.stop
  /\ UNCHANGED deferred
DeferredDone ==
  /\ Proceed("deferred", "waiting", 1, Size(waiting)) /\ iter.at < iter.stop
  /\ deferred' = <<>>

(***************************************************************************)
(* task_step: waiting_tasks.                                               *)
(***************************************************************************)
Due(t) == now - waiting[t].start >= waiting[t].length

VisitWaiter(t) ==
  /\ phase = "waiting" /\ Idle /\ iter.at <= iter.stop
  /\ AtSlot(waiting, t, iter.at)
  /\ UNCHANGED <<queues, pins, times>>

SkipWaiter(t) ==
  /\ VisitWaiter(t) /\ ~Due(t)
  /\ iter' = Advanced(1)
  /\ UNCHANGED <<vm, phase>>

ResumeWaiter(t) ==
  /\ VisitWaiter(t) /\ Due(t)
  /\ HostResume(t, waiting[t].argn, waiting[t].start)

\* That the thread called wait again shows in the start of the slot's entry.
WaiterReturned(t) ==
  /\ phase = "waiting" /\ Back
  /\ AtSlot(waiting, t, iter.at)
  /\ LET yielded_independently == Result \in Suspended /\ waiting[t].start = iter.start
     IN cleaning' = IF Result = "finished" \/ yielded_independently
                    THEN Append(cleaning, [id |-> t, type |-> "waiter"])
                    ELSE cleaning
  /\ phase' \in IF Result = "errored" THEN OnError ELSE {phase}
  /\ iter' = Advanced(1)
  /\ UNCHANGED <<vm, waiting, afters, deferred, ctasks, pins, times>>

\* cancel under the loop has left fewer slots than the loop was started for.
NoSuchWaiter ==
  /\ phase = "waiting" /\ (Back \/ (Idle /\ iter.at <= iter.stop))
  /\ iter.at > Size(waiting)
  /\ phase' = "undefined"
  /\ UNCHANGED <<vm, queues, pins, iter, times>>

WaitersDone ==
  /\ Proceed("waiting", "ctasks", 1, Len(ctasks)) /\ iter.at > iter.stop
  /\ UNCHANGED deferred

(***************************************************************************)
(* task_step: c_based_tasks.                                               *)
(***************************************************************************)
CTaskRunning == phase = "ctasks" /\ iter.at <= iter.stop
RunCTask(result) ==
  /\ CTaskRunning /\ (result = "error" => "raise" \in Ops[phase])
  /\ cleaning' = IF result = "done"
                 THEN Append(cleaning, [id |-> ctasks[iter.at], type |-> "ctask"])
                 ELSE cleaning
  /\ phase' = IF result = "error" THEN "failed" ELSE phase
  /\ iter' = Advanced(1)
  /\ UNCHANGED <<vm, waiting, afters, deferred, ctasks, pins, times>>

CTasksDone ==
  /\ Proceed("ctasks", "clean", 1, Len(cleaning)) /\ iter.at > iter.stop
  /\ UNCHANGED deferred

(***************************************************************************)
(* task_step: the cleaning buffer.  `at` throws when the key is gone, and  *)
(* nothing up to main catches it.                                          *)
(***************************************************************************)
Instruction(type) ==
  /\ phase = "clean" /\ iter.at <= iter.stop
  /\ cleaning[iter.at].type = type
  /\ iter' = Advanced(1)
  /\ UNCHANGED <<vm, deferred, cleaning, times>>

CleanWaiter ==
  /\ Instruction("waiter")
  /\ LET t == cleaning[iter.at].id
     IN IF t \in DOMAIN waiting
        THEN Unref(t) /\ waiting' = Erase(waiting, t) /\ UNCHANGED phase
        ELSE phase' = "aborted" /\ UNCHANGED <<waiting, pins>>
  /\ UNCHANGED <<afters, ctasks>>

CleanAfter ==
  /\ Instruction("after")
  /\ LET t == cleaning[iter.at].id
     IN IF t \in DOMAIN afters
        THEN /\ pins' = [u \in Threads |->
                           pins[u] - (IF u = afters[t].after_this THEN 1 ELSE 0)
                                   - (IF u = t THEN 1 ELSE 0)]
             /\ afters' = Erase(afters, t)
             /\ UNCHANGED phase
        ELSE phase' = "aborted" /\ UNCHANGED <<afters, pins>>
  /\ UNCHANGED <<waiting, ctasks>>

CleanCTask ==
  /\ Instruction("ctask")
  /\ LET task == cleaning[iter.at].id
     IN \/ \E i \in DOMAIN ctasks :
             /\ ctasks[i] = task /\ \A j \in 1 .. i - 1 : ctasks[j] # task
             /\ ctasks' = RemoveAt(ctasks, i)
             /\ UNCHANGED phase
        \/ /\ \A i \in DOMAIN ctasks : ctasks[i] # task
           /\ phase' = "failed"
           /\ UNCHANGED ctasks
  /\ UNCHANGED <<waiting, afters, pins>>

StepDoneKeepsBuffer ==   \* mutant
  /\ phase = "clean" /\ iter.at > iter.stop
  /\ phase' = "ready" /\ iter' = Loop(1, 0)
  /\ UNCHANGED <<vm, queues, pins, times>>
StepDone ==
  /\ phase = "clean" /\ iter.at > iter.stop
  /\ cleaning' = <<>>
  /\ phase' = "ready" /\ iter' = Loop(1, 0)
  /\ UNCHANGED <<vm, waiting, afters, deferred, ctasks, pins, times>>
-----------------------------------------------------------------------------
\* Only wait, delay and the start of a step read the clock, so it is enough that
\* time passes while a script runs or a step is about to start.
Tick ==
  /\ Executing \/ phase = "ready"
  /\ clock < MaxClock /\ clock' = clock + 1
  /\ UNCHANGED <<vm, queues, pins, phase, iter, now, calls>>

Host ==
  \/ \E t \in Threads :
       \/ RunScript(t)
       \/ SkipAfter(t) \/ ResumeAfter(t) \/ AfterNothing(t) \/ AfterReturned(t)
       \/ SkipWaiter(t) \/ ResumeWaiter(t) \/ WaiterReturned(t)
  \/ ScriptReturned \/ ScriptsDone \/ Exit \/ RunStep \/ StepAgain
  \/ AftersDone
  \/ ResumeDeferred \/ DeferredReturned \/ DeferredDone
  \/ NoSuchWaiter \/ WaitersDone
  \/ \E r \in {"continue", "done", "error"} : RunCTask(r)
  \/ CTaskRunning /\ \E c \in CTasks : AddCTask(c)
  \/ CTasksDone
  \/ CleanWaiter \/ CleanAfter \/ CleanCTask \/ StepDone

Stop == phase \in Stopped /\ UNCHANGED vars

Init ==
  /\ status = [t \in Threads |-> "absent"] /\ top = [t \in Threads |-> 0]
  /\ running = <<>> /\ pins = [t \in Threads |-> 0]
  /\ waiting = <<>> /\ afters = <<>>
  /\ deferred = <<>> /\ ctasks = <<>> /\ cleaning = <<>>
  /\ phase = "scripts" /\ iter = Loop(1, 0)
  /\ now = 0 /\ clock = 0 /\ calls = 0

Next == Script \/ Host \/ Tick \/ Stop
Spec == Init /\ [][Next]_vars

\* A script gives control back in the end and the host goes on stepping.  Time
\* passes: that Tick is held up inside a step is only the reduction made there.
Fairness == WF_vars(Script) /\ WF_vars(Host) /\ SF_vars(Tick)
FairSpec == Spec /\ Fairness
=============================================================================
