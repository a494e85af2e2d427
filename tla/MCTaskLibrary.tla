--------------------------- MODULE MCTaskLibrary ---------------------------
(***************************************************************************)
(* Instances of TaskLibrary for TLC: what scripts may do in each phase.    *)
(***************************************************************************)
EXTENDS TaskProperties

Everything == [p \in CallPhases |-> OpNames]

Without(ops, dropped) == [p \in CallPhases |-> ops[p] \ dropped]
With(ops, phases, added) ==
  [p \in CallPhases |-> IF p \in phases THEN ops[p] \cup added ELSE ops[p]]

\* Scripts that keep the books: wait_for keeps a reference that it does not
\* release, and a delayed thread that calls wait leaves the argument count of the
\* delay behind.  C tasks may fail.
BookKeeping ==
  With(Without([CarefulScripts EXCEPT !["waiting"] = @ \ {"wait"}], {"wait_for"}),
       {"ctasks"}, {"raise"})

\* Threads are made from functions only: what coroutine.create adds is a thread that
\* somebody awaits before anything is going to resume it.
CarefulRun == Without(CarefulScripts, {"create"})

\* One step outside the discipline: wait_for by what the loop over tasks_to_do_after has
\* resumed.
AwaitsWhenResumed == With(CarefulScripts, {"after"}, {"wait_for"})
=============================================================================
