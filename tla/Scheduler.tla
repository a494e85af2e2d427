----------------------------- MODULE Scheduler -----------------------------
(***************************************************************************)
(* What the task library promises to scripts that keep to its discipline,  *)
(* without containers, cleaning and loops: one thread at a time has its    *)
(* turn; a thread that waits has it once its time has come, one that       *)
(* follows another once that has ended, and deferred threads have it the   *)
(* newest first.  A thread has one place at most, and leaves it only for   *)
(* its turn, or when it is cancelled, which ends it.  TaskLibrary          *)
(* implements this module (TaskProperties).                                *)
(***************************************************************************)
EXTENDS Naturals, Sequences, SequencesExt

CONSTANTS Threads, MainScripts, NoThread, Durations

VARIABLES
  turn,    \* the thread that the host has resumed, or NoThread
  due,     \* per waiting thread, the time when it is to go on
  after,   \* per following thread, the thread it follows
  later,   \* the deferred threads
  ended,   \* threads that have returned, without a value, or were cancelled
  time

vars == <<turn, due, after, later, ended, time>>

Scheduled(t) ==
  t \in DOMAIN due \/ t \in DOMAIN after \/ \E i \in DOMAIN later : later[i] = t
Without(map, t) == [u \in DOMAIN map \ {t} |-> map[u]]
With(map, t, value) == [u \in DOMAIN map \cup {t} |-> IF u = t THEN value ELSE map[u]]

Init ==
  /\ turn = NoThread /\ due = <<>> /\ after = <<>> /\ later = <<>>
  /\ ended = {} /\ time = 0
-----------------------------------------------------------------------------
\* What the thread that has its turn, or one that it has spawned, does.
Wait(t) ==
  /\ turn # NoThread /\ ~Scheduled(t) /\ t \notin ended
  /\ \E seconds \in Durations : due' = With(due, t, time + seconds)
  /\ UNCHANGED <<turn, after, later, ended, time>>
Follow(t, u) ==
  /\ turn # NoThread /\ ~Scheduled(t) /\ t \notin ended
  /\ after' = With(after, t, u)
  /\ UNCHANGED <<turn, due, later, ended, time>>
Defer(t) ==
  /\ turn # NoThread /\ ~Scheduled(t) /\ t \notin ended
  /\ later' = Append(later, t)
  /\ UNCHANGED <<turn, due, after, ended, time>>
Cancel(t) ==
  /\ turn # NoThread
  /\ \/ t \in DOMAIN due /\ due' = Without(due, t) /\ UNCHANGED later
     \/ \E i \in DOMAIN later : later[i] = t /\ later' = RemoveAt(later, i) /\ UNCHANGED due
  /\ ended' = ended \cup {t}
  /\ UNCHANGED <<turn, after, time>>
End(t) ==
  /\ turn # NoThread /\ ~Scheduled(t)
  /\ ended' = ended \cup {t}
  /\ UNCHANGED <<turn, due, after, later, time>>
-----------------------------------------------------------------------------
\* What the host does.
Turn(t) == turn = NoThread /\ turn' = t /\ UNCHANGED <<ended, time>>

Start(t) == Turn(t) /\ t \in MainScripts \ ended /\ UNCHANGED <<due, after, later>>
ResumeWaiter(t) ==
  /\ Turn(t) /\ t \in DOMAIN due /\ due[t] <= time
  /\ due' = Without(due, t) /\ UNCHANGED <<after, later>>
ResumeFollower(t) ==
  /\ Turn(t) /\ t \in DOMAIN after /\ after[t] \in ended
  /\ after' = Without(after, t) /\ UNCHANGED <<due, later>>
ResumeDeferred ==
  /\ later # <<>> /\ Turn(Last(later))
  /\ later' = Front(later) /\ UNCHANGED <<due, after>>
Return == turn # NoThread /\ turn' = NoThread /\ UNCHANGED <<due, after, later, ended, time>>
Pass == time' = time + 1 /\ UNCHANGED <<turn, due, after, later, ended>>

Next ==
  \/ Return \/ Pass
  \/ \E t \in Threads :
       \/ Start(t) \/ ResumeWaiter(t) \/ ResumeFollower(t)
       \/ End(t) \/ Wait(t) \/ Defer(t) \/ Cancel(t)
       \/ \E u \in Threads : Follow(t, u)
  \/ ResumeDeferred

Spec == Init /\ [][Next]_vars
=============================================================================
