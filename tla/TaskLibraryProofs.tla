------------------------- MODULE TaskLibraryProofs -------------------------
(***************************************************************************)
(* Theorems about TaskLibrary, for every set of threads, any main scripts, *)
(* C tasks and durations, and runs of any length: first what holds of any  *)
(* scripts, then what careful scripts can rely on.  The latter rest on one *)
(* invariant, CarefulInv: per thread, that it has one place from which it  *)
(* will be resumed and that the entries left over from its last place are  *)
(* on their way out; for the loops, that their containers keep their       *)
(* slots.  Each action preserves it (the lemmas ...Step), the properties   *)
(* of TaskProperties follow from it, and under it each action is a step of *)
(* Scheduler (the lemmas ...Mapped).                                       *)
(***************************************************************************)
EXTENDS TaskProperties, SequenceTheorems, FiniteSetTheorems, TLAPS

\* The loops that index a sequence stay inside it.
LoopsInBounds ==
  /\ phase = "deferred" => /\ iter.stop = 1 /\ iter.at \in 0 .. Len(deferred)
                           /\ iter.thread # NoThread => iter.at >= 1
  /\ phase = "ctasks" => iter.at >= 1 /\ iter.stop <= Len(ctasks)
  /\ phase = "clean" => iter.at >= 1 /\ iter.stop <= Len(cleaning)

TypeInv == TypeOK /\ LoopsInBounds

-----------------------------------------------------------------------------
LEMMA EmplaceIsMap ==
  ASSUME NEW map, NEW E, IsMap(map, E), NEW t \in Threads, NEW e \in E
  PROVE  IsMap(Emplace(map, t, e), E)
BY DEF IsMap, Emplace

LEMMA EraseIsMap ==
  ASSUME NEW map, NEW E, IsMap(map, E), NEW t
  PROVE  IsMap(Erase(map, t), E)
BY DEF IsMap, Erase

LEMMA SizeType ==
  ASSUME NEW map, NEW E, IsMap(map, E)
  PROVE  IsFiniteSet(DOMAIN map) /\ Size(map) \in Nat
<1>1. IsFiniteSet(Threads)
  BY ThreadsAssumption, FS_Interval DEF Threads
<1>2. IsFiniteSet(DOMAIN map)
  BY <1>1, FS_Subset DEF IsMap
<1> QED
  BY <1>2, FS_CardinalityType DEF Size

\* What RemoveAt leaves, and where.
LEMMA RemoveAtElements ==
  ASSUME NEW S, NEW s \in Seq(S), NEW i \in 1 .. Len(s)
  PROVE  /\ RemoveAt(s, i) \in Seq(S) /\ Len(RemoveAt(s, i)) = Len(s) - 1
         /\ DOMAIN RemoveAt(s, i) = 1 .. Len(s) - 1
         /\ \A j \in 1 .. Len(s) - 1 : RemoveAt(s, i)[j] = IF j < i THEN s[j] ELSE s[j + 1]
<1> DEFINE s1 == SubSeq(s, 1, i - 1)  s2 == SubSeq(s, i + 1, Len(s))
<1>1. Len(s) \in Nat /\ \A j \in 1 .. Len(s) : s[j] \in S
  BY ElementOfSeq, LenProperties
<1>2. s1 \in Seq(S) /\ Len(s1) = i - 1 /\ \A j \in 1 .. i - 1 : s1[j] = s[j]
  <2>1. \A j \in 1 .. i - 1 : s[j] \in S
    BY <1>1
  <2>2. /\ s1 \in Seq(S) /\ Len(s1) = IF 1 <= i - 1 THEN i - 1 - 1 + 1 ELSE 0
        /\ \A j \in 1 .. i - 1 - 1 + 1 : s1[j] = s[1 + j - 1]
    BY <1>1, <2>1, SubSeqProperties, i - 1 \in Int
  <2> QED
    BY <1>1, <2>2
<1>3. s2 \in Seq(S) /\ Len(s2) = Len(s) - i /\ \A j \in 1 .. Len(s) - i : s2[j] = s[i + j]
  <2>1. \A j \in i + 1 .. Len(s) : s[j] \in S
    BY <1>1
  <2>2. i + 1 \in Int /\ Len(s) \in Int
    BY <1>1
  <2>3. /\ s2 \in Seq(S) /\ Len(s2) = IF i + 1 <= Len(s) THEN Len(s) - (i + 1) + 1 ELSE 0
        /\ \A j \in 1 .. Len(s) - (i + 1) + 1 : s2[j] = s[(i + 1) + j - 1]
    BY <2>1, <2>2, SubSeqProperties
  <2>4. \A j \in 1 .. Len(s) - i : s2[j] = s[i + j]
    <3> TAKE j \in 1 .. Len(s) - i
    <3>1. (i + 1) + j - 1 = i + j /\ j \in 1 .. Len(s) - (i + 1) + 1
      BY <1>1
    <3> QED
      BY <2>3, <3>1
  <2> QED
    BY <1>1, <2>3, <2>4
<1>4. RemoveAt(s, i) = s1 \o s2
  BY DEF RemoveAt
<1> HIDE DEF s1, s2
<1>5. /\ s1 \o s2 \in Seq(S) /\ Len(s1 \o s2) = Len(s1) + Len(s2)
      /\ \A j \in 1 .. Len(s1) + Len(s2) :
           (s1 \o s2)[j] = IF j <= Len(s1) THEN s1[j] ELSE s2[j - Len(s1)]
  BY <1>2, <1>3, ConcatProperties
<1>6. Len(s1) + Len(s2) = Len(s) - 1
  BY <1>1, <1>2, <1>3
<1>7. ASSUME NEW j \in 1 .. Len(s) - 1
      PROVE  RemoveAt(s, i)[j] = IF j < i THEN s[j] ELSE s[j + 1]
  <2>1. CASE j < i
    <3>1. j \in 1 .. i - 1 /\ j <= i - 1
      BY <1>1, <2>1
    <3> QED
      BY <1>2, <1>4, <1>5, <1>6, <2>1, <3>1
  <2>2. CASE ~(j < i)
    <3>1. ~(j <= i - 1) /\ j - (i - 1) \in 1 .. Len(s) - i /\ i + (j - (i - 1)) = j + 1
      BY <1>1, <2>2
    <3>2. (s1 \o s2)[j] = s2[j - (i - 1)]
      BY <1>2, <1>5, <1>6, <3>1
    <3>3. s2[j - (i - 1)] = s[j + 1]
      BY <1>3, <3>1
    <3> QED
      BY <1>4, <2>2, <3>2, <3>3
  <2> QED
    BY <2>1, <2>2
<1>8. DOMAIN RemoveAt(s, i) = 1 .. Len(s) - 1
  BY <1>4, <1>5, <1>6, LenProperties
<1> QED
  BY <1>4, <1>5, <1>6, <1>7, <1>8

-----------------------------------------------------------------------------
LEMMA HandType ==
  ASSUME VmTypeOK, NEW t \in Threads, NEW argn \in Nat, Hand(t, argn)
  PROVE  VmTypeOK'
BY DEF VmTypeOK, Hand, Statuses, Active, Suspended

LEMMA LeaveType ==
  ASSUME VmTypeOK, running # <<>>, NEW s \in Statuses \ Active, NEW values \in Nat,
         Leave(s, values)
  PROVE  VmTypeOK'
<1>1. /\ self \in Threads /\ running' \in Seq(Threads)
      /\ Len(running') = Len(running) - 1 /\ Len(running) \in Nat \ {0}
      /\ \A i \in 1 .. Len(running') : running'[i] = running[i + 1]
  BY HeadTailProperties, EmptySeq, LenProperties DEF VmTypeOK, Leave, self
<1>2. self = running[1]
  BY DEF VmTypeOK, self
<1>3. status' \in [Threads -> Statuses] /\ top' \in [Threads -> Nat]
  BY <1>1 DEF VmTypeOK, Leave, Statuses, Active
<1>inj. \A i, j \in 1 .. Len(running) : running[i] = running[j] => i = j
  BY DEF VmTypeOK
<1>4. ASSUME NEW i \in 1 .. Len(running'), NEW j \in 1 .. Len(running'),
             running'[i] = running'[j]
      PROVE  i = j
  <2>1. i + 1 \in 1 .. Len(running) /\ j + 1 \in 1 .. Len(running)
    BY <1>1
  <2>2. running[i + 1] = running[j + 1]
    BY <1>1, <1>4
  <2>3. i + 1 = j + 1
    BY <1>inj, <2>1, <2>2
  <2> QED
    BY <2>3
<1>5. ASSUME NEW t \in Threads
      PROVE  status'[t] \in Active <=> \E i \in 1 .. Len(running') : running'[i] = t
  <2>1. CASE t = self
    <3>1. status'[t] \notin Active
      BY <2>1 DEF Leave
    <3>2. ASSUME NEW i \in 1 .. Len(running'), running'[i] = t
          PROVE  FALSE
      <4>1. i + 1 \in 1 .. Len(running) /\ 1 \in 1 .. Len(running) /\ i + 1 # 1
        BY <1>1
      <4>2. running[i + 1] = running[1]
        BY <1>1, <1>2, <2>1, <3>2
      <4> QED
        BY <1>inj, <4>1, <4>2
    <3> QED
      BY <3>1, <3>2
  <2>2. CASE t # self /\ Len(running) > 1 /\ t = running[2]
    <3>1. status'[t] = "running"
      BY <2>2 DEF Leave
    <3>2. 1 \in 1 .. Len(running') /\ running'[1] = t
      BY <1>1, <2>2
    <3> QED
      BY <3>1, <3>2 DEF Active
  <2>3. CASE t # self /\ ~(Len(running) > 1 /\ t = running[2])
    <3>1. status'[t] = status[t]
      BY <2>3 DEF Leave
    <3>2. ASSUME NEW i \in 1 .. Len(running), running[i] = t
          PROVE  \E j \in 1 .. Len(running') : running'[j] = t
      <4>1. i # 1
        BY <1>2, <2>3, <3>2
      <4>2. i - 1 \in 1 .. Len(running')
        BY <1>1, <4>1
      <4>3. running'[i - 1] = running[(i - 1) + 1] /\ (i - 1) + 1 = i
        BY <1>1, <4>2
      <4> QED
        BY <3>2, <4>2, <4>3
    <3>3. ASSUME NEW j \in 1 .. Len(running'), running'[j] = t
          PROVE  \E i \in 1 .. Len(running) : running[i] = t
      BY <1>1, <3>3
    <3> QED
      BY <3>1, <3>2, <3>3 DEF VmTypeOK
  <2> QED
    BY <2>1, <2>2, <2>3
<1> QED
  BY <1>1, <1>3, <1>4, <1>5 DEF VmTypeOK

LEMMA HostResumeType ==
  ASSUME VmTypeOK, LoopTypeOK, running = <<>>,
         NEW t \in Threads, NEW argn \in Nat, NEW start \in Nat,
         HostResume(t, argn, start)
  PROVE  /\ VmTypeOK'
         /\ phase' \in {phase, "undefined"}
         /\ iter' \in Loops
         /\ iter'.at = iter.at /\ iter'.stop = iter.stop
<1>1. CASE ReadsBelow(t, argn)
  BY <1>1 DEF HostResume, VmTypeOK, LoopTypeOK, vm
<1>2. CASE ~ReadsBelow(t, argn)
  <2>1. /\ phase' = phase
        /\ iter' = [iter EXCEPT !.thread = t, !.start = start]
        /\ status' = [status EXCEPT ![t] = IF CanRun(t, argn) THEN "running" ELSE "errored"]
        /\ running' = IF CanRun(t, argn) THEN <<t>> ELSE <<>>
        /\ top' = [top EXCEPT ![t] = 0]
    BY <1>2 DEF HostResume
  <2>2. \A u \in Threads : status[u] \notin Active
    BY DEF VmTypeOK
  <2>3. status' \in [Threads -> Statuses] /\ top' \in [Threads -> Nat]
    BY <2>1 DEF VmTypeOK, Statuses, Active
  <2>4. VmTypeOK'
    <3>1. CASE CanRun(t, argn)
      <4>1. running' = <<t>> /\ Len(running') = 1 /\ running'[1] = t
        BY <2>1, <3>1
      <4>2. \A u \in Threads : status'[u] \in Active <=> u = t
        BY <2>1, <2>2, <3>1 DEF VmTypeOK, Active
      <4>3. \A u \in Threads : u = t <=> \E i \in 1 .. Len(running') : running'[i] = u
        BY <4>1
      <4> QED
        BY <2>3, <4>1, <4>2, <4>3 DEF VmTypeOK
    <3>2. CASE ~CanRun(t, argn)
      <4>1. running' = <<>> /\ Len(running') = 0
        BY <2>1, <3>2
      <4>2. \A u \in Threads : status'[u] \notin Active
        BY <2>1, <2>2, <3>2 DEF VmTypeOK, Active
      <4> QED
        BY <2>3, <4>1, <4>2 DEF VmTypeOK
    <3> QED
      BY <3>1, <3>2
  <2> QED
    BY <2>1, <2>4 DEF LoopTypeOK, Loops
<1> QED
  BY <1>1, <1>2

LEMMA SpawnType ==
  ASSUME TypeInv, Executing, NEW t \in Threads, NEW argn \in Nat, Spawn(t, argn)
  PROVE  VmTypeOK'
<1>1. CASE status[t] \in Active
  BY <1>1 DEF Spawn, TypeInv, TypeOK, VmTypeOK, vm
<1>2. CASE status[t] \notin Active
  <2>1. running \in Seq(Threads) /\ Len(running) \in Nat \ {0} /\ self = running[1]
    BY EmptySeq, LenProperties, HeadTailProperties DEF TypeInv, TypeOK, VmTypeOK, Executing, self
  <2>2. self \in Threads /\ status[self] \in Active
    BY <2>1, ElementOfSeq DEF TypeInv, TypeOK, VmTypeOK
  <2>3. top' \in [Threads -> Nat]
    BY <1>2 DEF Spawn, TypeInv, TypeOK, VmTypeOK
  <2>4. CASE CanRun(t, 0)
    <3>1. /\ status' = [status EXCEPT ![t] = "running", ![self] = "normal"]
          /\ running' = <<t>> \o running
      BY <1>2, <2>4 DEF Spawn
    <3>2. /\ <<t>> \in Seq(Threads) /\ Len(<<t>>) = 1 /\ <<t>>[1] = t
          /\ running' \in Seq(Threads) /\ Len(running') = Len(running) + 1
      BY <2>1, <3>1, ConcatProperties
    <3>3. running'[1] = t /\ \A i \in 1 .. Len(running) : running'[i + 1] = running[i]
      BY <2>1, <3>1, <3>2, ConcatProperties
    <3>4. \A i \in 1 .. Len(running) : running[i] # t
      BY <1>2 DEF TypeInv, TypeOK, VmTypeOK
    <3>5. \A i \in 2 .. Len(running') :
            /\ i - 1 \in 1 .. Len(running) /\ running'[i] = running[i - 1]
      <4> TAKE i \in 2 .. Len(running')
      <4>1. i - 1 \in 1 .. Len(running) /\ (i - 1) + 1 = i
        BY <2>1, <3>2
      <4> QED
        BY <3>3, <4>1
    <3>6. ASSUME NEW i \in 1 .. Len(running'), NEW j \in 1 .. Len(running'),
                 running'[i] = running'[j]
          PROVE  i = j
      <4>1. CASE i = 1 /\ j # 1
        <5>1. j \in 2 .. Len(running')
          BY <2>1, <3>2, <4>1
        <5> QED
          BY <3>3, <3>4, <3>5, <3>6, <4>1, <5>1
      <4>2. CASE i # 1 /\ j = 1
        <5>1. i \in 2 .. Len(running')
          BY <2>1, <3>2, <4>2
        <5> QED
          BY <3>3, <3>4, <3>5, <3>6, <4>2, <5>1
      <4>3. CASE i # 1 /\ j # 1
        <5>1. i \in 2 .. Len(running') /\ j \in 2 .. Len(running')
          BY <2>1, <3>2, <4>3
        <5>2. running[i - 1] = running[j - 1]
          BY <3>5, <3>6, <5>1
        <5>3. i - 1 = j - 1
          BY <3>5, <5>1, <5>2 DEF TypeInv, TypeOK, VmTypeOK
        <5> QED
          BY <5>3
      <4> QED
        BY <4>1, <4>2, <4>3
    <3>7. ASSUME NEW u \in Threads
          PROVE  status'[u] \in Active <=> \E i \in 1 .. Len(running') : running'[i] = u
      <4>1. status'[u] \in Active <=> u = t \/ status[u] \in Active
        <5>1. status'[u] = IF u = self THEN "normal" ELSE IF u = t THEN "running" ELSE status[u]
          BY <2>2, <3>1 DEF TypeInv, TypeOK, VmTypeOK
        <5>2. t # self
          BY <1>2, <2>2
        <5>3. "normal" \in Active /\ "running" \in Active
          BY DEF Active
        <5>4. CASE u = self
          BY <2>2, <5>1, <5>3, <5>4
        <5>5. CASE u # self /\ u = t
          BY <5>1, <5>3, <5>5
        <5>6. CASE u # self /\ u # t
          BY <5>1, <5>6
        <5> QED
          BY <5>4, <5>5, <5>6
      <4>2. ASSUME NEW i \in 1 .. Len(running')
            PROVE  i = 1 \/ i \in 2 .. Len(running')
        OBVIOUS
      <4>3. 1 \in 1 .. Len(running') /\ \A i \in 1 .. Len(running) : i + 1 \in 1 .. Len(running')
        BY <2>1, <3>2
      <4>4. status[u] \in Active <=> \E i \in 1 .. Len(running) : running[i] = u
        BY DEF TypeInv, TypeOK, VmTypeOK
      <4>5. ASSUME status'[u] \in Active
            PROVE  \E i \in 1 .. Len(running') : running'[i] = u
        <5>1. CASE u = t
          BY <3>3, <4>3, <5>1
        <5>2. CASE u # t
          <6>1. PICK i \in 1 .. Len(running) : running[i] = u
            BY <4>1, <4>4, <4>5, <5>2
          <6> QED
            BY <3>3, <4>3, <6>1
        <5> QED
          BY <5>1, <5>2
      <4>6. ASSUME NEW i \in 1 .. Len(running'), running'[i] = u
            PROVE  status'[u] \in Active
        <5>1. CASE i = 1
          BY <3>3, <4>1, <4>6, <5>1
        <5>2. CASE i \in 2 .. Len(running')
          BY <3>5, <4>1, <4>4, <4>6, <5>2
        <5> QED
          BY <4>2, <5>1, <5>2
      <4> QED
        BY <4>5, <4>6
    <3>8. status' \in [Threads -> Statuses]
      BY <3>1 DEF TypeInv, TypeOK, VmTypeOK, Statuses, Active
    <3> QED
      BY <2>3, <3>2, <3>6, <3>7, <3>8 DEF VmTypeOK
  <2>5. CASE ~CanRun(t, 0)
    <3>1. status' = [status EXCEPT ![t] = "errored"] /\ running' = running
      BY <1>2, <2>5 DEF Spawn
    <3> QED
      BY <1>2, <2>3, <3>1 DEF TypeInv, TypeOK, VmTypeOK, Statuses, Active
  <2> QED
    BY <2>4, <2>5
<1> QED
  BY <1>1, <1>2

\* A call that changes the loop under it at most by growing what it indexes.
LEMMA CallKeepsLoop ==
  ASSUME TypeInv, QueuesTypeOK', Executing \/ CTaskRunning,
         phase' \in {phase, "undefined"},
         UNCHANGED <<iter, now, clock>>, calls' \in Nat, UNCHANGED cleaning,
         phase' # "undefined" => Len(deferred') >= Len(deferred),
         Len(ctasks') >= Len(ctasks)
  PROVE  LoopTypeOK' /\ LoopsInBounds'
<1>1. LoopTypeOK'
  BY DEF TypeInv, TypeOK, LoopTypeOK, Phases, Stopped
<1>2. /\ Len(deferred) \in Nat /\ Len(deferred') \in Nat
      /\ Len(ctasks) \in Nat /\ Len(ctasks') \in Nat
  BY LenProperties DEF TypeInv, TypeOK, QueuesTypeOK
<1>3. phase \notin {"clean", "ready"}
  BY DEF Executing, CTaskRunning, ScriptPhases
<1>4. iter.at \in Int /\ iter.stop \in Int
  BY DEF TypeInv, TypeOK, LoopTypeOK, Loops
<1>5. iter' = iter
  OBVIOUS
<1>6. phase' = "deferred" => /\ iter'.stop = 1 /\ iter'.at \in 0 .. Len(deferred')
                             /\ iter'.thread # NoThread => iter'.at >= 1
  BY <1>2, <1>4, <1>5 DEF TypeInv, LoopsInBounds
<1>7. phase' = "ctasks" => iter'.at >= 1 /\ iter'.stop <= Len(ctasks')
  BY <1>2, <1>4, <1>5 DEF TypeInv, LoopsInBounds
<1> QED
  BY <1>1, <1>3, <1>6, <1>7 DEF LoopsInBounds

LEMMA PinsType ==
  ASSUME pins \in [Threads -> Int], NEW t \in Threads
  PROVE  (Ref(t) => pins' \in [Threads -> Int]) /\ (Unref(t) => pins' \in [Threads -> Int])
BY DEF Ref, Unref

LEMMA CallPhase ==
  ASSUME NEW loop, phase' \in Growing(loop)
  PROVE  phase' \in {phase, "undefined"}
BY DEF Growing

LEMMA CallCounts ==
  ASSUME TypeInv, NEW op, Call(op)
  PROVE  UNCHANGED <<iter, now, clock>> /\ calls' \in Nat
BY DEF TypeInv, TypeOK, LoopTypeOK, Call

LEMMA KeptTypes ==
  ASSUME TypeInv
  PROVE  /\ UNCHANGED vm => VmTypeOK'
         /\ UNCHANGED <<queues, pins>> => QueuesTypeOK'
<1>1. ASSUME UNCHANGED vm
      PROVE  VmTypeOK'
  BY <1>1 DEF TypeInv, TypeOK, VmTypeOK, vm
<1>2. ASSUME UNCHANGED <<queues, pins>>
      PROVE  QueuesTypeOK'
  BY <1>2 DEF TypeInv, TypeOK, QueuesTypeOK, queues, IsMap
<1> QED
  BY <1>1, <1>2

\* dluau_addctask, whoever calls it.
LEMMA AddCTaskType ==
  ASSUME TypeInv, Executing \/ CTaskRunning, NEW c \in CTasks, AddCTask(c)
  PROVE  TypeInv'
<1>1. VmTypeOK /\ QueuesTypeOK /\ LoopTypeOK
  BY DEF TypeInv, TypeOK
<1>2. VmTypeOK'
  BY <1>1 DEF AddCTask, VmTypeOK, vm
<1>3. ctasks' \in Seq(CTasks) /\ Len(ctasks') = Len(ctasks) + 1
  BY <1>1, AppendProperties DEF AddCTask, QueuesTypeOK
<1>4. QueuesTypeOK' /\ UNCHANGED <<deferred, cleaning>>
  BY <1>1, <1>3 DEF AddCTask, QueuesTypeOK, IsMap
<1>5. Len(deferred) \in Nat /\ Len(ctasks) \in Nat
  BY <1>1, LenProperties DEF QueuesTypeOK
<1>6. LoopTypeOK' /\ LoopsInBounds'
  BY <1>3, <1>4, <1>5, CallKeepsLoop, CallCounts, CallPhase DEF AddCTask
<1> QED
  BY <1>2, <1>4, <1>6 DEF TypeInv, TypeOK

-----------------------------------------------------------------------------
\* A call of the executing script keeps the types.
LEMMA ScriptType ==
  ASSUME TypeInv, Script
  PROVE  TypeInv'
<1> USE ThreadsAssumption, ScriptsAssumption
<1>1. Executing /\ running # <<>> /\ self \in Threads
  BY HeadTailProperties, EmptySeq DEF Script, Executing, self, TypeInv, TypeOK, VmTypeOK
<1>2. Coroutines \subseteq Threads /\ Created \subseteq Threads
      /\ Awaitable \subseteq Threads \cup {NoThread}
  BY DEF Coroutines, Created, Awaitable
<1>3. VmTypeOK /\ QueuesTypeOK /\ LoopTypeOK
  BY DEF TypeInv, TypeOK
<1>4. /\ Len(deferred) \in Nat /\ Len(ctasks) \in Nat /\ clock \in Nat
      /\ pins \in [Threads -> Int]
  BY <1>3, LenProperties DEF QueuesTypeOK, LoopTypeOK
<1>5. ASSUME NEW s \in Durations, Wait(s)
      PROVE  TypeInv'
  <2>1. VmTypeOK'
    BY <1>1, <1>3, <1>5, LeaveType DEF Wait, Statuses, Suspended, Active
  <2>2. phase' \in {phase, "undefined"}
    BY <1>5, CallPhase DEF Wait, WaitAgain, WaitFirst
  <2>3. pins' \in [Threads -> Int]
    BY <1>1, <1>4, <1>5, PinsType DEF Wait, WaitAgain, WaitFirst
  <2>4. IsMap(waiting', Waiters)
    <3>1. s \in Nat
      OBVIOUS
    <3>2. CASE WaitAgain(s)
      BY <1>3, <1>4, <3>1, <3>2 DEF WaitAgain, IsMap, Waiters, QueuesTypeOK
    <3>3. CASE WaitFirst(s)
      <4>1. [start |-> clock, length |-> s, argn |-> 0] \in Waiters
        BY <1>4, <3>1 DEF Waiters
      <4> QED
        BY <1>1, <1>3, <3>3, <4>1, EmplaceIsMap DEF WaitFirst, QueuesTypeOK
    <3> QED
      BY <1>5, <3>2, <3>3 DEF Wait
  <2>5. QueuesTypeOK' /\ UNCHANGED <<deferred, ctasks, cleaning>>
    BY <1>3, <1>5, <2>3, <2>4 DEF Wait, QueuesTypeOK, IsMap
  <2>6. LoopTypeOK' /\ LoopsInBounds'
    BY <1>1, <1>4, <1>5, <2>2, <2>5, CallKeepsLoop, CallCounts DEF Wait
  <2> QED
    BY <2>1, <2>5, <2>6 DEF TypeInv, TypeOK
<1>6. ASSUME NEW t \in Coroutines, NEW n \in 0 .. MaxArgs, Spawn(t, n)
      PROVE  TypeInv'
  <2>1. VmTypeOK'
    BY <1>1, <1>2, <1>6, SpawnType
  <2>2. UNCHANGED <<queues, pins, phase>>
    BY <1>6 DEF Spawn
  <2>3. QueuesTypeOK' /\ UNCHANGED <<deferred, ctasks, cleaning>>
    BY <1>3, <2>2 DEF queues, QueuesTypeOK, IsMap
  <2>4. LoopTypeOK' /\ LoopsInBounds'
    BY <1>1, <1>4, <1>6, <2>2, <2>3, CallKeepsLoop, CallCounts DEF Spawn
  <2> QED
    BY <2>1, <2>3, <2>4 DEF TypeInv, TypeOK
<1>7. ASSUME NEW t \in Coroutines, NEW n \in 0 .. MaxArgs, Defer(t, n)
      PROVE  TypeInv'
  <2>1. t \in Threads /\ n \in Nat
    BY <1>2
  <2>2. VmTypeOK'
    BY <1>3, <1>7, <2>1, HandType DEF Defer
  <2>3. phase' \in {phase, "undefined"} /\ pins' \in [Threads -> Int]
    BY <1>4, <1>7, <2>1, CallPhase, PinsType DEF Defer
  <2>4. /\ deferred' \in Seq([thread : Threads, argn : Nat, held : BOOLEAN])
        /\ Len(deferred') = Len(deferred) + 1
    BY <1>3, <1>7, <2>1, AppendProperties DEF Defer, QueuesTypeOK
  <2>5. QueuesTypeOK' /\ UNCHANGED <<ctasks, cleaning>>
    BY <1>3, <1>7, <2>3, <2>4 DEF Defer, QueuesTypeOK, IsMap
  <2>6. LoopTypeOK' /\ LoopsInBounds'
    BY <1>1, <1>4, <1>7, <2>3, <2>4, <2>5, CallKeepsLoop, CallCounts DEF Defer
  <2> QED
    BY <2>2, <2>5, <2>6 DEF TypeInv, TypeOK
<1>8. ASSUME NEW t \in Coroutines, NEW n \in 0 .. MaxArgs, NEW s \in Durations,
             Delay(s, t, n)
      PROVE  TypeInv'
  <2>1. t \in Threads /\ n \in Nat /\ s \in Nat
    BY <1>2
  <2>2. VmTypeOK'
    BY <1>3, <1>8, <2>1, HandType DEF Delay
  <2>3. phase' \in {phase, "undefined"} /\ pins' \in [Threads -> Int]
    BY <1>4, <1>8, <2>1, CallPhase, PinsType DEF Delay
  <2>4. [start |-> clock, length |-> s, argn |-> n] \in Waiters
    BY <1>4, <2>1 DEF Waiters
  <2>5. IsMap(waiting', Waiters)
    BY <1>3, <1>8, <2>1, <2>4, EmplaceIsMap DEF Delay, QueuesTypeOK
  <2>6. QueuesTypeOK' /\ UNCHANGED <<deferred, ctasks, cleaning>>
    BY <1>3, <1>8, <2>3, <2>5 DEF Delay, QueuesTypeOK, IsMap
  <2>7. LoopTypeOK' /\ LoopsInBounds'
    BY <1>1, <1>4, <1>8, <2>3, <2>6, CallKeepsLoop, CallCounts DEF Delay
  <2> QED
    BY <2>2, <2>6, <2>7 DEF TypeInv, TypeOK
<1>9. ASSUME NEW t \in Coroutines, NEW n \in 0 .. MaxArgs, NEW u \in Awaitable,
             DoAfter(u, t, n)
      PROVE  TypeInv'
  <2>1. t \in Threads /\ n \in Nat /\ u \in Threads \cup {NoThread}
    BY <1>2
  <2>2. VmTypeOK'
    BY <1>3, <1>9, <2>1, HandType DEF DoAfter
  <2>3. phase' \in {phase, "undefined"}
    BY <1>9, CallPhase DEF DoAfter
  <2>4. pins' \in [Threads -> Int]
    BY <1>4, <1>9 DEF DoAfter
  <2>5. IsMap(afters', Followers)
    BY <1>3, <1>9, <2>1, EmplaceIsMap DEF DoAfter, QueuesTypeOK, Followers
  <2>6. QueuesTypeOK' /\ UNCHANGED <<deferred, ctasks, cleaning>>
    BY <1>3, <1>9, <2>4, <2>5 DEF DoAfter, QueuesTypeOK, IsMap
  <2>7. LoopTypeOK' /\ LoopsInBounds'
    BY <1>1, <1>4, <1>9, <2>3, <2>6, CallKeepsLoop, CallCounts DEF DoAfter
  <2> QED
    BY <2>2, <2>6, <2>7 DEF TypeInv, TypeOK
<1>10. ASSUME NEW u \in Awaitable, Await(u), VmTypeOK'
       PROVE  TypeInv'
  <2>1. u \in Threads \cup {NoThread}
    BY <1>2
  <2>3. phase' \in {phase, "undefined"}
    BY <1>10, CallPhase DEF Await
  <2>4. pins' \in [Threads -> Int]
    BY <1>4, <1>10 DEF Await
  <2>5. IsMap(afters', Followers)
    BY <1>1, <1>3, <1>10, <2>1, EmplaceIsMap DEF Await, QueuesTypeOK, Followers
  <2>6. QueuesTypeOK' /\ UNCHANGED <<deferred, ctasks, cleaning>>
    BY <1>3, <1>10, <2>4, <2>5 DEF Await, QueuesTypeOK, IsMap
  <2>7. LoopTypeOK' /\ LoopsInBounds'
    BY <1>1, <1>4, <1>10, <2>3, <2>6, CallKeepsLoop, CallCounts DEF Await
  <2> QED
    BY <1>10, <2>6, <2>7 DEF TypeInv, TypeOK
<1>18. ASSUME NEW u \in Awaitable, WaitFor(u) \/ WaitForRefused(u)
       PROVE  TypeInv'
  <2>1. VmTypeOK'
    <3>1. CASE WaitFor(u)
      BY <1>1, <1>3, <3>1, LeaveType DEF WaitFor, Statuses, Suspended, Active
    <3>2. CASE WaitForRefused(u)
      BY <3>2, KeptTypes DEF WaitForRefused
    <3> QED
      BY <1>18, <3>1, <3>2
  <2> QED
    BY <1>10, <1>18, <2>1 DEF WaitFor, WaitForRefused
<1>11. ASSUME NEW t \in Created, Cancel(t)
       PROVE  TypeInv'
  <2>1. t \in Threads
    BY <1>2
  <2>2. CASE status[t] \in Active
    <3>1. UNCHANGED <<vm, queues, pins, phase>>
      BY <1>11, <2>2 DEF Cancel, Closable, vm, queues
    <3>2. VmTypeOK'
      BY <1>3, <3>1 DEF VmTypeOK, vm
    <3>3. QueuesTypeOK' /\ UNCHANGED <<deferred, ctasks, cleaning>>
      BY <1>3, <3>1 DEF queues, QueuesTypeOK, IsMap
    <3>4. LoopTypeOK' /\ LoopsInBounds'
      BY <1>1, <1>4, <1>11, <3>1, <3>3, CallKeepsLoop, CallCounts DEF Cancel
    <3> QED
      BY <3>2, <3>3, <3>4 DEF TypeInv, TypeOK
  <2>3. CASE status[t] \notin Active
    <3>1. /\ status' = [status EXCEPT ![t] = "finished"] /\ top' = [top EXCEPT ![t] = 0]
          /\ FromWaiting(t) \/ FromDeferred(t) \/ FromNone(t)
          /\ UNCHANGED <<running, afters, ctasks, cleaning>>
      BY <1>11, <2>3 DEF Cancel, Closable
    <3>2. VmTypeOK'
      BY <1>3, <2>3, <3>1 DEF VmTypeOK, Statuses, Active
    <3>3. pins' \in [Threads -> Int] /\ phase' \in {phase, "undefined"}
      BY <1>4, <2>1, <3>1, PinsType DEF FromWaiting, FromDeferred, FromNone
    <3>4. IsMap(waiting', Waiters)
      <4>1. waiting' = waiting \/ waiting' = Erase(waiting, t)
        BY <3>1 DEF FromWaiting, FromDeferred, FromNone
      <4>2. IsMap(waiting, Waiters)
        BY <1>3 DEF QueuesTypeOK
      <4> QED
        BY <4>1, <4>2, EraseIsMap
    <3>5. /\ deferred' \in Seq([thread : Threads, argn : Nat, held : BOOLEAN])
          /\ phase' # "undefined" => Len(deferred') >= Len(deferred) \/ phase # "deferred"
      <4>1. CASE FromDeferred(t)
        <5>1. PICK i \in DOMAIN deferred :
                /\ deferred' = RemoveAt(deferred, i)
                /\ phase' = IF phase = "deferred" \/ ~deferred[i].held
                            THEN "undefined" ELSE phase
          BY <4>1 DEF FromDeferred
        <5>2. i \in 1 .. Len(deferred)
          BY <1>3, LenProperties DEF QueuesTypeOK
        <5> QED
          BY <1>3, <5>1, <5>2, RemoveAtElements DEF QueuesTypeOK
      <4>2. CASE UNCHANGED deferred
        BY <1>3, <1>4, <4>2 DEF QueuesTypeOK
      <4> QED
        BY <3>1, <4>1, <4>2 DEF FromWaiting, FromNone
    <3>6. QueuesTypeOK'
      BY <1>3, <3>1, <3>3, <3>4, <3>5 DEF QueuesTypeOK, IsMap
    <3>7. UNCHANGED <<iter, now, clock>> /\ calls' \in Nat
      BY <1>11, CallCounts DEF Cancel
    <3>8. LoopTypeOK' /\ LoopsInBounds'
      <4>1. LoopTypeOK'
        BY <1>3, <3>3, <3>7 DEF LoopTypeOK, Phases, Stopped
      <4>2. CASE phase = "deferred"
        <5>1. phase' # "undefined" => Len(deferred') >= Len(deferred)
          BY <3>5, <4>2
        <5>2. Len(ctasks') >= Len(ctasks) /\ UNCHANGED cleaning
          BY <1>4, <3>1
        <5> QED
          BY <1>1, <3>3, <3>6, <3>7, <5>1, <5>2, CallKeepsLoop
      <4>3. CASE phase # "deferred"
        <5>1. phase \notin {"deferred", "ctasks", "clean"}
          BY <1>1, <4>3 DEF Executing, ScriptPhases
        <5>2. phase' \notin {"deferred", "ctasks", "clean"}
          BY <3>3, <5>1
        <5> QED
          BY <4>1, <5>2 DEF LoopsInBounds
      <4> QED
        BY <4>1, <4>2, <4>3
    <3> QED
      BY <3>2, <3>6, <3>8 DEF TypeInv, TypeOK
  <2> QED
    BY <2>2, <2>3
<1>12. ASSUME NEW c \in CTasks, AddCTask(c)
       PROVE  TypeInv'
  BY <1>1, <1>12, AddCTaskType
<1>13. ASSUME NEW t \in Threads, Create(t)
       PROVE  TypeInv'
  <2>1. VmTypeOK'
    BY <1>3, <1>13 DEF Create, VmTypeOK, Statuses, Active
  <2>2. QueuesTypeOK' /\ UNCHANGED <<phase, deferred, ctasks, cleaning>>
    BY <1>3, <1>13 DEF Create, queues, QueuesTypeOK, IsMap
  <2>3. LoopTypeOK' /\ LoopsInBounds'
    BY <1>1, <1>4, <1>13, <2>2, CallKeepsLoop, CallCounts DEF Create
  <2> QED
    BY <2>1, <2>2, <2>3 DEF TypeInv, TypeOK
<1>14. CASE Yield
  <2>1. VmTypeOK'
    BY <1>1, <1>3, <1>14, LeaveType DEF Yield, Statuses, Suspended, Active
  <2>2. QueuesTypeOK' /\ UNCHANGED <<phase, deferred, ctasks, cleaning>>
    BY <1>3, <1>14 DEF Yield, queues, QueuesTypeOK, IsMap
  <2>3. LoopTypeOK' /\ LoopsInBounds'
    BY <1>1, <1>4, <1>14, <2>2, CallKeepsLoop, CallCounts DEF Yield
  <2> QED
    BY <2>1, <2>2, <2>3 DEF TypeInv, TypeOK
<1>15. ASSUME NEW n \in 0 .. 1, Finish(n) \/ Raise
       PROVE  TypeInv'
  <2>1. VmTypeOK'
    BY <1>1, <1>3, <1>15, LeaveType DEF Finish, Raise, Statuses, Suspended, Active
  <2>2. UNCHANGED <<queues, pins, phase, iter, times>>
    BY <1>15 DEF Finish, Raise
  <2>3. QueuesTypeOK' /\ LoopTypeOK'
    BY <1>3, <2>2 DEF queues, times, QueuesTypeOK, IsMap, LoopTypeOK
  <2>4. LoopsInBounds'
    BY <2>2 DEF queues, TypeInv, LoopsInBounds
  <2> QED
    BY <2>1, <2>3, <2>4 DEF TypeInv, TypeOK
<1>16. CASE Raise
  <2>1. 0 \in 0 .. 1
    OBVIOUS
  <2> QED
    BY <1>15, <1>16, <2>1
<1>17. ASSUME NEW u \in Awaitable, DoAfterNothing(u)
       PROVE  TypeInv'
  <2>1. pins' \in [Threads -> Int]
    BY <1>4, <1>17 DEF DoAfterNothing
  <2>2. QueuesTypeOK' /\ UNCHANGED <<phase, deferred, ctasks, cleaning>>
    BY <1>3, <1>17, <2>1 DEF DoAfterNothing, queues, QueuesTypeOK, IsMap
  <2>3. LoopTypeOK' /\ LoopsInBounds'
    BY <1>1, <1>4, <1>17, <2>2, CallKeepsLoop, CallCounts DEF DoAfterNothing
  <2>4. VmTypeOK'
    BY <1>17, KeptTypes DEF DoAfterNothing
  <2> QED
    BY <2>2, <2>3, <2>4 DEF TypeInv, TypeOK
<1>19. CASE WaitRefused
  <2>1. QueuesTypeOK' /\ UNCHANGED <<phase, deferred, ctasks, cleaning>>
    BY <1>3, <1>19 DEF WaitRefused, queues, QueuesTypeOK, IsMap
  <2>2. LoopTypeOK' /\ LoopsInBounds'
    BY <1>1, <1>4, <1>19, <2>1, CallKeepsLoop, CallCounts DEF WaitRefused
  <2>3. VmTypeOK'
    BY <1>19, KeptTypes DEF WaitRefused
  <2> QED
    BY <2>1, <2>2, <2>3 DEF TypeInv, TypeOK
<1> QED
  BY <1>5, <1>6, <1>7, <1>8, <1>9, <1>11, <1>12, <1>13, <1>14, <1>15, <1>16, <1>17, <1>18,
     <1>19
     DEF Script
-----------------------------------------------------------------------------
LEMMA LoopType ==
  ASSUME TypeInv
  PROVE  /\ \A from, to \in Int : Loop(from, to) \in Loops
         /\ \A step \in Int : Advanced(step) \in Loops
         /\ \A step \in Int : Advanced(step).at = iter.at + step
         /\ \A step \in Int : Advanced(step).stop = iter.stop
         /\ \A step \in Int : Advanced(step).thread = NoThread
         /\ iter.at \in Int /\ iter.stop \in Int
<1>1. iter \in Loops
  BY DEF TypeInv, TypeOK, LoopTypeOK
<1>2. iter.at \in Int /\ iter.stop \in Int /\ NoThread \in Threads \cup {NoThread}
  BY <1>1 DEF Loops
<1>3. \A from, to \in Int : Loop(from, to) \in Loops
  BY <1>2 DEF Loop, Loops
<1>4. ASSUME NEW step \in Int
      PROVE  /\ Advanced(step) \in Loops /\ Advanced(step).at = iter.at + step
             /\ Advanced(step).stop = iter.stop /\ Advanced(step).thread = NoThread
  <2>1. iter.at + step \in Int
    BY <1>2
  <2> QED
    BY <1>1, <1>2, <2>1 DEF Advanced, Loops
<1> QED
  BY <1>2, <1>3, <1>4

LEMMA ResumeKeepsTypes ==
  ASSUME TypeInv, running = <<>>,
         NEW t \in Threads, NEW argn \in Nat, NEW start \in Nat,
         HostResume(t, argn, start), UNCHANGED <<queues, pins, times>>,
         phase = "deferred" => iter.at >= 1
  PROVE  TypeInv'
<1>1. VmTypeOK /\ LoopTypeOK
  BY DEF TypeInv, TypeOK
<1>2. /\ VmTypeOK' /\ phase' \in {phase, "undefined"}
      /\ iter' \in Loops /\ iter'.at = iter.at /\ iter'.stop = iter.stop
  BY <1>1, HostResumeType
<1>3. QueuesTypeOK'
  BY KeptTypes
<1>4. LoopTypeOK'
  BY <1>1, <1>2 DEF LoopTypeOK, times, Phases, Stopped
<1>5. LoopsInBounds'
  <2>1. UNCHANGED <<deferred, ctasks, cleaning>>
    BY DEF queues
  <2> QED
    BY <1>2, <2>1 DEF TypeInv, LoopsInBounds
<1> QED
  BY <1>2, <1>3, <1>4, <1>5 DEF TypeInv, TypeOK

\* The four ways in which the host resumes a thread.
LEMMA ResumesType ==
  ASSUME TypeInv, NEW t,
         RunScript(t) \/ ResumeAfter(t) \/ ResumeDeferred \/ ResumeWaiter(t)
  PROVE  TypeInv'
<1>1. QueuesTypeOK /\ 0 \in Nat
  BY DEF TypeInv, TypeOK
<1>2. CASE RunScript(t)
  BY <1>1, <1>2, ThreadsAssumption, ResumeKeepsTypes DEF RunScript, Idle
<1>3. CASE ResumeAfter(t)
  <2>1. t \in DOMAIN afters /\ t \in Threads /\ running = <<>> /\ phase = "after"
    BY <1>1, <1>3 DEF ResumeAfter, VisitAfter, AtSlot, Idle, QueuesTypeOK, IsMap
  <2>2. afters[t].argn \in Nat
    BY <1>1, <2>1 DEF QueuesTypeOK, IsMap, Followers
  <2> QED
    BY <1>1, <1>3, <2>1, <2>2, ResumeKeepsTypes DEF ResumeAfter, VisitAfter
<1>4. CASE ResumeDeferred
  <2>1. iter.at \in 1 .. Len(deferred)
    BY <1>4, LoopType DEF ResumeDeferred, TypeInv, LoopsInBounds
  <2>2. deferred[iter.at] \in [thread : Threads, argn : Nat, held : BOOLEAN]
    BY <1>1, <2>1, ElementOfSeq DEF QueuesTypeOK
  <2>3. HostResume(deferred[iter.at].thread, deferred[iter.at].argn, 0)
    BY <1>4 DEF ResumeDeferred, CountingDown
  <2>4. running = <<>> /\ UNCHANGED <<queues, pins, times>> /\ iter.at >= 1
    BY <1>4, <2>1 DEF ResumeDeferred, Idle
  <2> QED
    BY <1>1, <2>2, <2>3, <2>4, ResumeKeepsTypes
<1>5. CASE ResumeWaiter(t)
  <2>1. t \in DOMAIN waiting /\ t \in Threads /\ running = <<>> /\ phase = "waiting"
    BY <1>1, <1>5 DEF ResumeWaiter, VisitWaiter, AtSlot, Idle, QueuesTypeOK, IsMap
  <2>2. waiting[t].argn \in Nat /\ waiting[t].start \in Nat
    BY <1>1, <2>1 DEF QueuesTypeOK, IsMap, Waiters
  <2> QED
    BY <1>5, <2>1, <2>2, ResumeKeepsTypes DEF ResumeWaiter, VisitWaiter
<1> QED
  BY <1>2, <1>3, <1>4, <1>5
-----------------------------------------------------------------------------
\* The steps of the host that run no script, in the order of task_step.
LEMMA OutsideIndexedLoops ==
  ASSUME TypeInv, UNCHANGED vm, QueuesTypeOK', iter' \in Loops,
         phase' \in Phases \ {"deferred", "ctasks", "clean"},
         now' \in Nat, clock' \in Nat, calls' \in Nat
  PROVE  TypeInv'
BY KeptTypes DEF TypeInv, TypeOK, LoopTypeOK, LoopsInBounds

LEMMA RunType ==
  ASSUME TypeInv, ScriptReturned \/ ScriptsDone \/ Exit \/ RunStep \/ StepAgain
  PROVE  TypeInv'
<1>1. QueuesTypeOK /\ LoopTypeOK /\ iter \in Loops
  BY DEF TypeInv, TypeOK, LoopTypeOK
<1>2. UNCHANGED vm /\ UNCHANGED <<queues, pins>>
  BY DEF ScriptReturned, ScriptsDone, Exit, RunStep, StepAgain, BeginStep
<1>3. Size(afters) \in Nat
  BY <1>1, SizeType DEF QueuesTypeOK
<1>4. iter' \in Loops
  BY <1>1, <1>3, LoopType DEF ScriptReturned, ScriptsDone, Exit, RunStep, StepAgain, BeginStep
<1>5. phase' \in Phases \ {"deferred", "ctasks", "clean"}
  BY DEF ScriptReturned, ScriptsDone, Exit, RunStep, StepAgain, BeginStep, OnError,
         Phases, CallPhases, ScriptPhases, Stopped
<1>6. now' \in Nat /\ clock' \in Nat /\ calls' \in Nat
  BY <1>1 DEF LoopTypeOK, ScriptReturned, ScriptsDone, Exit, RunStep, StepAgain,
              BeginStep, times
<1> QED
  BY <1>2, <1>4, <1>5, <1>6, KeptTypes, OutsideIndexedLoops

LEMMA AftersType ==
  ASSUME TypeInv, NEW t,
         SkipAfter(t) \/ AfterNothing(t) \/ AfterReturned(t) \/ AftersDone
  PROVE  TypeInv'
<1>1. QueuesTypeOK /\ LoopTypeOK /\ iter \in Loops /\ phase \in Phases
  BY DEF TypeInv, TypeOK, LoopTypeOK
<1>2. CASE SkipAfter(t) \/ AfterNothing(t)
  <2>1. UNCHANGED vm /\ UNCHANGED <<queues, pins, times>> /\ phase = "after"
    BY <1>2 DEF SkipAfter, AfterNothing, VisitAfter
  <2>2. iter' \in Loops /\ phase' \in {"after", "undefined"}
    BY <1>1, <1>2, <2>1, LoopType DEF SkipAfter, AfterNothing
  <2>3. phase' \in Phases \ {"deferred", "ctasks", "clean"}
    BY <2>2 DEF Phases, CallPhases, ScriptPhases, Stopped
  <2>4. now' \in Nat /\ clock' \in Nat /\ calls' \in Nat
    BY <1>1, <2>1 DEF LoopTypeOK, times
  <2> QED
    BY <2>1, <2>2, <2>3, <2>4, KeptTypes, OutsideIndexedLoops
<1>3. CASE AfterReturned(t)
  <2>1. cleaning' \in Seq(Instructions)
    <3>1. [id |-> t, type |-> "after"] \in Instructions
      BY <1>1, <1>3 DEF AfterReturned, AtSlot, QueuesTypeOK, IsMap, Instructions
    <3>2. cleaning' = cleaning \/ cleaning' = Append(cleaning, [id |-> t, type |-> "after"])
      BY <1>3 DEF AfterReturned
    <3>3. cleaning \in Seq(Instructions)
      BY <1>1 DEF QueuesTypeOK
    <3> QED
      BY <3>1, <3>2, <3>3, AppendProperties
  <2>2. QueuesTypeOK'
    BY <1>1, <1>3, <2>1 DEF AfterReturned, QueuesTypeOK, IsMap
  <2>3. phase' \in Phases \ {"deferred", "ctasks", "clean"}
    BY <1>3 DEF AfterReturned, OnError, Phases, CallPhases, ScriptPhases, Stopped
  <2>4. iter' \in Loops /\ UNCHANGED vm
    BY <1>3, LoopType DEF AfterReturned
  <2>5. now' \in Nat /\ clock' \in Nat /\ calls' \in Nat
    BY <1>1, <1>3 DEF AfterReturned, LoopTypeOK, times
  <2> QED
    BY <2>2, <2>3, <2>4, <2>5, OutsideIndexedLoops
<1>4. CASE AftersDone
  <2>1. /\ phase' = "deferred" /\ iter' = Loop(Len(deferred), 1)
        /\ UNCHANGED vm /\ UNCHANGED <<queues, pins>> /\ UNCHANGED times
    BY <1>4 DEF AftersDone, Proceed, queues
  <2>2. Len(deferred) \in Nat
    BY <1>1, LenProperties DEF QueuesTypeOK
  <2>3. LoopTypeOK'
    BY <1>1, <2>1, <2>2, LoopType DEF LoopTypeOK, times, Phases, CallPhases, ScriptPhases
  <2>4. LoopsInBounds'
    BY <2>1, <2>2 DEF LoopsInBounds, Loop, queues
  <2> QED
    BY <2>1, <2>3, <2>4, KeptTypes DEF TypeInv, TypeOK
<1> QED
  BY <1>2, <1>3, <1>4

LEMMA DeferredType ==
  ASSUME TypeInv, DeferredReturned \/ DeferredDone
  PROVE  TypeInv'
<1>1. QueuesTypeOK /\ LoopTypeOK /\ iter \in Loops
  BY DEF TypeInv, TypeOK, LoopTypeOK
<1>2. CASE DeferredReturned
  <2> DEFINE D == [thread : Threads, argn : Nat, held : BOOLEAN]
  <2>1. phase = "deferred" /\ iter.thread # NoThread
    BY <1>2 DEF DeferredReturned, Back
  <2>2. iter.stop = 1 /\ iter.at \in 1 .. Len(deferred) /\ Len(deferred) \in Nat
    BY <1>1, <2>1, LenProperties DEF TypeInv, LoopsInBounds, QueuesTypeOK
  <2>3. deferred[iter.at] \in D
    BY <1>1, <2>2, ElementOfSeq DEF QueuesTypeOK
  <2>4. deferred' = [deferred EXCEPT ![iter.at] = [deferred[iter.at] EXCEPT !.held = FALSE]]
    BY <1>2 DEF DeferredReturned, CountingDown
  <2>5. [deferred[iter.at] EXCEPT !.held = FALSE] \in D
    BY <2>3
  <2>6. deferred' \in Seq(D) /\ Len(deferred') = Len(deferred)
    BY <1>1, <2>2, <2>4, <2>5, ExceptSeq DEF QueuesTypeOK
  <2>7. pins' \in [Threads -> Int]
    BY <1>1, <1>2, <2>3, PinsType DEF DeferredReturned, CountingDown, QueuesTypeOK
  <2>8. QueuesTypeOK' /\ UNCHANGED vm
    BY <1>1, <1>2, <2>6, <2>7 DEF DeferredReturned, QueuesTypeOK, IsMap
  <2>9. phase' \in {"deferred", "failed", "undefined"} /\ iter' = Advanced(-1)
    BY <1>2, <2>1 DEF DeferredReturned, OnError
  <2>10. LoopTypeOK'
    <3>1. iter' \in Loops
      BY <2>9, LoopType
    <3>2. phase' \in Phases
      BY <2>9 DEF Phases, CallPhases, ScriptPhases, Stopped
    <3> QED
      BY <1>1, <1>2, <3>1, <3>2 DEF DeferredReturned, LoopTypeOK, times
  <2>11. LoopsInBounds'
    <3>1. iter'.stop = 1 /\ iter'.at = iter.at + (-1) /\ iter'.thread = NoThread
      BY <2>2, <2>9, LoopType
    <3> QED
      BY <2>2, <2>6, <2>9, <3>1 DEF LoopsInBounds
  <2> QED
    BY <2>8, <2>10, <2>11, KeptTypes DEF TypeInv, TypeOK
<1>3. CASE DeferredDone
  <2>1. Size(waiting) \in Nat
    BY <1>1, SizeType DEF QueuesTypeOK
  <2>2. iter' \in Loops /\ phase' = "waiting" /\ UNCHANGED vm
    BY <1>3, <2>1, LoopType DEF DeferredDone, Proceed
  <2>3. QueuesTypeOK'
    BY <1>1, <1>3 DEF DeferredDone, Proceed, QueuesTypeOK, IsMap
  <2>4. now' \in Nat /\ clock' \in Nat /\ calls' \in Nat
    BY <1>1, <1>3 DEF DeferredDone, Proceed, LoopTypeOK, times
  <2> QED
    BY <2>2, <2>3, <2>4, OutsideIndexedLoops DEF Phases, CallPhases, ScriptPhases
<1> QED
  BY <1>2, <1>3
LEMMA WaitersType ==
  ASSUME TypeInv, NEW t,
         SkipWaiter(t) \/ WaiterReturned(t) \/ NoSuchWaiter \/ WaitersDone
  PROVE  TypeInv'
<1>1. QueuesTypeOK /\ LoopTypeOK /\ iter \in Loops
  BY DEF TypeInv, TypeOK, LoopTypeOK
<1>2. CASE SkipWaiter(t) \/ NoSuchWaiter
  <2>1. UNCHANGED vm /\ UNCHANGED <<queues, pins, times>> /\ phase = "waiting"
    BY <1>2 DEF SkipWaiter, NoSuchWaiter, VisitWaiter
  <2>2. iter' \in Loops /\ phase' \in {"waiting", "undefined"}
    BY <1>1, <1>2, <2>1, LoopType DEF SkipWaiter, NoSuchWaiter
  <2>3. phase' \in Phases \ {"deferred", "ctasks", "clean"}
    BY <2>2 DEF Phases, CallPhases, ScriptPhases, Stopped
  <2>4. now' \in Nat /\ clock' \in Nat /\ calls' \in Nat
    BY <1>1, <2>1 DEF LoopTypeOK, times
  <2> QED
    BY <2>1, <2>2, <2>3, <2>4, KeptTypes, OutsideIndexedLoops
<1>3. CASE WaiterReturned(t)
  <2>1. cleaning' \in Seq(Instructions)
    <3>1. [id |-> t, type |-> "waiter"] \in Instructions
      BY <1>1, <1>3 DEF WaiterReturned, AtSlot, QueuesTypeOK, IsMap, Instructions
    <3>2. cleaning' = cleaning \/ cleaning' = Append(cleaning, [id |-> t, type |-> "waiter"])
      BY <1>3 DEF WaiterReturned
    <3>3. cleaning \in Seq(Instructions)
      BY <1>1 DEF QueuesTypeOK
    <3> QED
      BY <3>1, <3>2, <3>3, AppendProperties
  <2>2. QueuesTypeOK'
    BY <1>1, <1>3, <2>1 DEF WaiterReturned, QueuesTypeOK, IsMap
  <2>3. phase' \in Phases \ {"deferred", "ctasks", "clean"}
    BY <1>3 DEF WaiterReturned, OnError, Phases, CallPhases, ScriptPhases, Stopped
  <2>4. iter' \in Loops /\ UNCHANGED vm
    BY <1>3, LoopType DEF WaiterReturned
  <2>5. now' \in Nat /\ clock' \in Nat /\ calls' \in Nat
    BY <1>1, <1>3 DEF WaiterReturned, LoopTypeOK, times
  <2> QED
    BY <2>2, <2>3, <2>4, <2>5, OutsideIndexedLoops
<1>4. CASE WaitersDone
  <2>1. /\ phase' = "ctasks" /\ iter' = Loop(1, Len(ctasks))
        /\ UNCHANGED vm /\ UNCHANGED <<queues, pins>> /\ UNCHANGED times
    BY <1>4 DEF WaitersDone, Proceed, queues
  <2>2. Len(ctasks) \in Nat
    BY <1>1, LenProperties DEF QueuesTypeOK
  <2>3. LoopTypeOK'
    BY <1>1, <2>1, <2>2, LoopType DEF LoopTypeOK, times, Phases, CallPhases
  <2>4. LoopsInBounds'
    BY <2>1, <2>2 DEF LoopsInBounds, Loop, queues
  <2> QED
    BY <2>1, <2>3, <2>4, KeptTypes DEF TypeInv, TypeOK
<1> QED
  BY <1>2, <1>3, <1>4

LEMMA CTasksType ==
  ASSUME TypeInv, CTasksDone \/ \E r \in {"continue", "done", "error"} : RunCTask(r)
  PROVE  TypeInv'
<1>1. QueuesTypeOK /\ LoopTypeOK /\ iter \in Loops
  BY DEF TypeInv, TypeOK, LoopTypeOK
<1>2. ASSUME NEW r \in {"continue", "done", "error"}, RunCTask(r)
      PROVE  TypeInv'
  <2>1. iter.at \in 1 .. Len(ctasks) /\ iter.stop <= Len(ctasks) /\ Len(ctasks) \in Nat
    <3>1. phase = "ctasks" /\ iter.at <= iter.stop
      BY <1>2 DEF RunCTask, CTaskRunning
    <3>2. iter.at >= 1 /\ iter.stop <= Len(ctasks)
      BY <3>1 DEF TypeInv, LoopsInBounds
    <3>3. Len(ctasks) \in Nat /\ iter.at \in Int /\ iter.stop \in Int
      BY <1>1, LenProperties, LoopType DEF QueuesTypeOK
    <3> QED
      BY <3>1, <3>2, <3>3
  <2>2. [id |-> ctasks[iter.at], type |-> "ctask"] \in Instructions
    BY <1>1, <2>1, ElementOfSeq DEF Instructions, QueuesTypeOK
  <2>3. cleaning' \in Seq(Instructions)
    BY <1>1, <1>2, <2>2, AppendProperties DEF RunCTask, QueuesTypeOK
  <2>4. QueuesTypeOK' /\ UNCHANGED vm /\ UNCHANGED ctasks
    BY <1>1, <1>2, <2>3 DEF RunCTask, QueuesTypeOK, IsMap
  <2>5. phase' \in {"ctasks", "failed"} /\ iter' = Advanced(1)
    BY <1>2 DEF RunCTask, CTaskRunning
  <2>6. LoopTypeOK'
    <3>1. iter' \in Loops
      BY <2>5, LoopType
    <3>2. phase' \in Phases
      BY <2>5 DEF Phases, CallPhases, Stopped
    <3> QED
      BY <1>1, <1>2, <3>1, <3>2 DEF RunCTask, LoopTypeOK, times
  <2>7. LoopsInBounds'
    <3>1. iter'.at = iter.at + 1 /\ iter'.stop = iter.stop
      BY <2>5, LoopType
    <3> QED
      BY <2>1, <2>4, <2>5, <3>1 DEF LoopsInBounds
  <2> QED
    BY <2>4, <2>6, <2>7, KeptTypes DEF TypeInv, TypeOK
<1>3. CASE CTasksDone
  <2>1. /\ phase' = "clean" /\ iter' = Loop(1, Len(cleaning))
        /\ UNCHANGED vm /\ UNCHANGED <<queues, pins>> /\ UNCHANGED times
    BY <1>3 DEF CTasksDone, Proceed, queues
  <2>2. Len(cleaning) \in Nat
    BY <1>1, LenProperties DEF QueuesTypeOK
  <2>3. LoopTypeOK'
    BY <1>1, <2>1, <2>2, LoopType DEF LoopTypeOK, times, Phases
  <2>4. LoopsInBounds'
    BY <2>1, <2>2 DEF LoopsInBounds, Loop, queues
  <2> QED
    BY <2>1, <2>3, <2>4, KeptTypes DEF TypeInv, TypeOK
<1> QED
  BY <1>2, <1>3

LEMMA CleaningType ==
  ASSUME TypeInv, CleanWaiter \/ CleanAfter \/ CleanCTask \/ StepDone
  PROVE  TypeInv'
<1>1. QueuesTypeOK /\ LoopTypeOK /\ iter \in Loops
  BY DEF TypeInv, TypeOK, LoopTypeOK
<1>2. ASSUME NEW type, Instruction(type), phase' \in {phase, "aborted", "failed"},
             QueuesTypeOK'
      PROVE  TypeInv'
  <2>1. /\ phase = "clean" /\ iter' = Advanced(1)
        /\ UNCHANGED vm /\ UNCHANGED cleaning /\ UNCHANGED times
    BY <1>2 DEF Instruction
  <2>2. iter.at >= 1 /\ iter.stop <= Len(cleaning) /\ Len(cleaning) \in Nat
    BY <1>1, <2>1, LenProperties DEF TypeInv, LoopsInBounds, QueuesTypeOK
  <2>3. phase' \in Phases
    BY <1>2, <2>1 DEF Phases, Stopped
  <2>4. LoopTypeOK'
    BY <1>1, <2>1, <2>3, LoopType DEF LoopTypeOK, times
  <2>5. iter'.at = iter.at + 1 /\ iter'.stop = iter.stop
    BY <2>1, LoopType
  <2>6. phase' = "clean" => iter'.at >= 1 /\ iter'.stop <= Len(cleaning')
    <3>1. iter.at \in Int
      BY <1>1 DEF Loops
    <3>2. cleaning' = cleaning
      BY <2>1
    <3> QED
      BY <2>2, <2>5, <3>1, <3>2
  <2>7. LoopsInBounds'
    BY <1>2, <2>1, <2>6 DEF LoopsInBounds
  <2> QED
    BY <1>2, <2>1, <2>4, <2>7, KeptTypes DEF TypeInv, TypeOK
<1>3. ASSUME NEW type \in {"waiter", "after"}, Instruction(type)
      PROVE  cleaning[iter.at].id \in Threads
  <2>1. iter.at \in 1 .. Len(cleaning)
    <3>1. phase = "clean" /\ iter.at <= iter.stop
      BY <1>3 DEF Instruction
    <3>2. iter.at >= 1 /\ iter.stop <= Len(cleaning)
      BY <3>1 DEF TypeInv, LoopsInBounds
    <3>3. Len(cleaning) \in Nat /\ iter.at \in Int /\ iter.stop \in Int
      BY <1>1, LenProperties, LoopType DEF QueuesTypeOK
    <3> QED
      BY <3>1, <3>2, <3>3
  <2>2. cleaning[iter.at] \in Instructions
    BY <1>1, <2>1, ElementOfSeq DEF QueuesTypeOK
  <2> QED
    BY <1>3, <2>2 DEF Instruction, Instructions
<1>4. CASE CleanWaiter
  <2>1. Instruction("waiter") /\ cleaning[iter.at].id \in Threads
    BY <1>3, <1>4 DEF CleanWaiter
  <2>2. IsMap(waiting', Waiters)
    BY <1>1, <1>4, EraseIsMap DEF CleanWaiter, QueuesTypeOK
  <2>3. pins' \in [Threads -> Int]
    BY <1>1, <1>4, <2>1, PinsType DEF CleanWaiter, QueuesTypeOK
  <2>4. QueuesTypeOK'
    BY <1>1, <1>4, <2>2, <2>3 DEF CleanWaiter, Instruction, QueuesTypeOK, IsMap
  <2> QED
    BY <1>2, <1>4, <2>1, <2>4 DEF CleanWaiter
<1>5. CASE CleanAfter
  <2>1. Instruction("after") /\ cleaning[iter.at].id \in Threads
    BY <1>3, <1>5 DEF CleanAfter
  <2>2. IsMap(afters', Followers)
    BY <1>1, <1>5, EraseIsMap DEF CleanAfter, QueuesTypeOK
  <2>3. pins' \in [Threads -> Int]
    <3> DEFINE t == cleaning[iter.at].id
    <3>1. pins \in [Threads -> Int]
      BY <1>1 DEF QueuesTypeOK
    <3>2. CASE t \in DOMAIN afters
      <4>1. pins' = [u \in Threads |->
                       pins[u] - (IF u = afters[t].after_this THEN 1 ELSE 0)
                               - (IF u = t THEN 1 ELSE 0)]
        BY <1>5, <3>2 DEF CleanAfter
      <4> QED
        BY <3>1, <4>1
    <3>3. CASE t \notin DOMAIN afters
      BY <1>5, <3>1, <3>3 DEF CleanAfter
    <3> QED
      BY <3>2, <3>3
  <2>4. QueuesTypeOK'
    BY <1>1, <1>5, <2>2, <2>3 DEF CleanAfter, Instruction, QueuesTypeOK, IsMap
  <2> QED
    BY <1>2, <1>5, <2>1, <2>4 DEF CleanAfter
<1>6. CASE CleanCTask
  <2>1. ctasks' \in Seq(CTasks)
    <3>1. CASE UNCHANGED ctasks
      BY <1>1, <3>1 DEF QueuesTypeOK
    <3>2. CASE \E i \in DOMAIN ctasks : ctasks' = RemoveAt(ctasks, i)
      <4>1. PICK i \in DOMAIN ctasks : ctasks' = RemoveAt(ctasks, i)
        BY <3>2
      <4>2. i \in 1 .. Len(ctasks)
        BY <1>1, LenProperties DEF QueuesTypeOK
      <4> QED
        BY <1>1, <4>1, <4>2, RemoveAtElements DEF QueuesTypeOK
    <3> QED
      BY <1>6, <3>1, <3>2 DEF CleanCTask
  <2>2. QueuesTypeOK'
    BY <1>1, <1>6, <2>1 DEF CleanCTask, Instruction, QueuesTypeOK, IsMap
  <2> QED
    BY <1>2, <1>6, <2>2 DEF CleanCTask
<1>7. CASE StepDone
  <2>1. cleaning' \in Seq(Instructions)
    BY <1>7, EmptySeq DEF StepDone
  <2>2. QueuesTypeOK' /\ UNCHANGED vm
    BY <1>1, <1>7, <2>1 DEF StepDone, QueuesTypeOK, IsMap
  <2>3. iter' \in Loops /\ phase' = "ready"
    BY <1>7, LoopType DEF StepDone
  <2>4. now' \in Nat /\ clock' \in Nat /\ calls' \in Nat
    BY <1>1, <1>7 DEF StepDone, LoopTypeOK, times
  <2> QED
    BY <2>2, <2>3, <2>4, OutsideIndexedLoops DEF Phases
<1> QED
  BY <1>4, <1>5, <1>6, <1>7
-----------------------------------------------------------------------------
LEMMA InitType == Init => TypeInv
<1> SUFFICES ASSUME Init
             PROVE  TypeInv
  OBVIOUS
<1>1. VmTypeOK
  <2>1. running = <<>> /\ Len(running) = 0 /\ running \in Seq(Threads)
    BY EmptySeq DEF Init
  <2> QED
    BY <2>1 DEF Init, VmTypeOK, Statuses, Active
<1>2. QueuesTypeOK
  <2>1. \A E : IsMap(<<>>, E)
    BY DEF IsMap
  <2>2. \A S : <<>> \in Seq(S)
    BY EmptySeq
  <2> QED
    BY <2>1, <2>2 DEF Init, QueuesTypeOK
<1>3. LoopTypeOK /\ LoopsInBounds
  BY DEF Init, LoopTypeOK, Loops, Loop, Phases, CallPhases, ScriptPhases, LoopsInBounds
<1> QED
  BY <1>1, <1>2, <1>3 DEF TypeInv, TypeOK

LEMMA NextType == TypeInv /\ [Next]_vars => TypeInv'
<1> SUFFICES ASSUME TypeInv, [Next]_vars
             PROVE  TypeInv'
  OBVIOUS
<1>1. CASE Script
  BY <1>1, ScriptType
<1>2. CASE Host
  <2>1. ASSUME NEW t \in Threads,
               \/ RunScript(t)
               \/ SkipAfter(t) \/ ResumeAfter(t) \/ AfterNothing(t) \/ AfterReturned(t)
               \/ SkipWaiter(t) \/ ResumeWaiter(t) \/ WaiterReturned(t)
        PROVE  TypeInv'
    BY <2>1, ResumesType, AftersType, WaitersType
  <2>2. ASSUME AftersDone \/ ResumeDeferred \/ NoSuchWaiter \/ WaitersDone
        PROVE  TypeInv'
    BY <2>2, ResumesType, AftersType, WaitersType
  <2>3. CASE CTaskRunning /\ \E c \in CTasks : AddCTask(c)
    BY <2>3, AddCTaskType
  <2> QED
    BY <1>2, <2>1, <2>2, <2>3, RunType, DeferredType, CTasksType, CleaningType DEF Host
<1>3. CASE Tick
  <2>1. clock \in Nat /\ clock' = clock + 1
        /\ UNCHANGED <<vm, queues, pins, phase, iter, now, calls>>
    BY <1>3 DEF Tick, TypeInv, TypeOK, LoopTypeOK
  <2>2. LoopTypeOK'
    BY <2>1 DEF TypeInv, TypeOK, LoopTypeOK
  <2>3. LoopsInBounds'
    BY <2>1 DEF queues, TypeInv, LoopsInBounds
  <2> QED
    BY <2>1, <2>2, <2>3, KeptTypes DEF TypeInv, TypeOK
<1>4. CASE UNCHANGED vars
  <2>1. UNCHANGED <<vm, queues, pins, phase, iter, times>>
    BY <1>4 DEF vars
  <2>2. LoopTypeOK' /\ LoopsInBounds'
    BY <2>1 DEF queues, times, TypeInv, TypeOK, LoopTypeOK, LoopsInBounds
  <2> QED
    BY <2>1, <2>2, KeptTypes DEF TypeInv, TypeOK
<1> QED
  BY <1>1, <1>2, <1>3, <1>4 DEF Next, Stop

\* Whatever scripts, C tasks and embedders do, and however many there are: every
\* variable keeps its type, the active threads are those of the call stack, each
\* once, and task_step indexes its sequences within their bounds.
THEOREM TypeCorrect == Spec => []TypeOK
<1>1. TypeInv => TypeOK
  BY DEF TypeInv
<1> QED
  BY <1>1, InitType, NextType, PTL DEF Spec

-----------------------------------------------------------------------------
(* Counting. *)

Positions(s, X) == {i \in DOMAIN s : s[i] \in X}
Bit(x, S) == IF x \in S THEN 1 ELSE 0

LEMMA PositionsType ==
  ASSUME NEW S, NEW s \in Seq(S), NEW X
  PROVE  IsFiniteSet(Positions(s, X)) /\ Cardinality(Positions(s, X)) \in Nat
<1>1. IsFiniteSet(DOMAIN s)
  BY LenProperties, FS_Interval
<1>2. IsFiniteSet(Positions(s, X))
  BY <1>1, FS_Subset DEF Positions
<1> QED
  BY <1>2, FS_CardinalityType

LEMMA PositionsOfAppend ==
  ASSUME NEW S, NEW s \in Seq(S), NEW X, NEW e \in S
  PROVE  Cardinality(Positions(Append(s, e), X)) = Cardinality(Positions(s, X)) + Bit(e, X)
<1> DEFINE n == Len(s) + 1
<1>1. /\ Len(s) \in Nat /\ DOMAIN s = 1 .. Len(s) /\ DOMAIN Append(s, e) = 1 .. n
      /\ Append(s, e)[n] = e /\ \A i \in 1 .. Len(s) : Append(s, e)[i] = s[i]
  BY LenProperties, AppendProperties
<1>2. IsFiniteSet(Positions(s, X)) /\ Cardinality(Positions(s, X)) \in Nat
  BY PositionsType
<1>3. n \notin Positions(s, X)
  BY <1>1 DEF Positions
<1>4. \A i : i \in 1 .. n <=> i = n \/ i \in 1 .. Len(s)
  BY <1>1
<1>5. CASE e \in X
  <2>1. Positions(Append(s, e), X) = Positions(s, X) \cup {n}
    BY <1>1, <1>4, <1>5 DEF Positions
  <2> QED
    BY <1>2, <1>3, <1>5, <2>1, FS_AddElement DEF Bit
<1>6. CASE e \notin X
  <2>1. Positions(Append(s, e), X) = Positions(s, X)
    BY <1>1, <1>4, <1>6 DEF Positions
  <2> QED
    BY <1>2, <1>6, <2>1 DEF Bit
<1> QED
  BY <1>5, <1>6

LEMMA PositionsOfExcept ==
  ASSUME NEW S, NEW s \in Seq(S), NEW X, NEW i \in 1 .. Len(s), NEW e \in S, e \notin X
  PROVE  Cardinality(Positions([s EXCEPT ![i] = e], X))
           = Cardinality(Positions(s, X)) - Bit(s[i], X)
<1> DEFINE r == [s EXCEPT ![i] = e]
<1>1. /\ DOMAIN s = 1 .. Len(s) /\ DOMAIN r = 1 .. Len(s) /\ r[i] = e
      /\ \A j \in 1 .. Len(s) : j # i => r[j] = s[j]
  BY LenProperties
<1>2. IsFiniteSet(Positions(s, X)) /\ Cardinality(Positions(s, X)) \in Nat
  BY PositionsType
<1> HIDE DEF r
<1>3. Positions(r, X) = Positions(s, X) \ {i}
  BY <1>1 DEF Positions
<1>4. i \in Positions(s, X) <=> s[i] \in X
  BY <1>1 DEF Positions
<1>5. Cardinality(Positions(s, X) \ {i})
        = IF i \in Positions(s, X) THEN Cardinality(Positions(s, X)) - 1
                                  ELSE Cardinality(Positions(s, X))
  BY <1>2, FS_RemoveElement
<1>6. Cardinality(Positions(r, X)) = Cardinality(Positions(s, X)) - Bit(s[i], X)
  BY <1>2, <1>3, <1>4, <1>5 DEF Bit
<1> QED
  BY <1>6 DEF r

LEMMA PositionsOfRemoveAt ==
  ASSUME NEW S, NEW s \in Seq(S), NEW X, NEW i \in 1 .. Len(s)
  PROVE  Cardinality(Positions(RemoveAt(s, i), X)) = Cardinality(Positions(s, X)) - Bit(s[i], X)
<1> DEFINE r == RemoveAt(s, i)
           P == Positions(r, X)
           Q == Positions(s, X) \ {i}
           move == [j \in P |-> IF j < i THEN j ELSE j + 1]
<1>1. /\ Len(s) \in Nat /\ DOMAIN s = 1 .. Len(s) /\ DOMAIN r = 1 .. Len(s) - 1 /\ r \in Seq(S)
      /\ \A j \in 1 .. Len(s) - 1 : r[j] = IF j < i THEN s[j] ELSE s[j + 1]
  BY LenProperties, RemoveAtElements
<1>2. IsFiniteSet(Positions(s, X)) /\ Cardinality(Positions(s, X)) \in Nat /\ IsFiniteSet(P)
  BY <1>1, PositionsType
<1> HIDE DEF r
<1>3. P \subseteq 1 .. Len(s) - 1 /\ Q \subseteq (1 .. Len(s)) \ {i}
  BY <1>1 DEF Positions
<1>4. \A j \in P : move[j] \in Q
  <2> TAKE j \in P
  <2>1. j \in 1 .. Len(s) - 1 /\ r[j] \in X
    BY <1>1 DEF Positions
  <2>2. CASE j < i
    BY <1>1, <2>1, <2>2 DEF Positions
  <2>3. CASE ~(j < i)
    <3>1. j + 1 \in 1 .. Len(s) /\ j + 1 # i
      BY <1>1, <2>1, <2>3
    <3> QED
      BY <1>1, <2>1, <2>3, <3>1 DEF Positions
  <2> QED
    BY <2>2, <2>3
<1>5. \A j, k \in P : move[j] = move[k] => j = k
  BY <1>1, <1>3
<1>6. \A k \in Q : \E j \in P : move[j] = k
  <2> TAKE k \in Q
  <2>1. k \in 1 .. Len(s) /\ k # i /\ s[k] \in X
    BY <1>1 DEF Positions
  <2>2. CASE k < i
    <3>1. k \in 1 .. Len(s) - 1
      BY <1>1, <2>1, <2>2
    <3>2. k \in P
      BY <1>1, <2>1, <2>2, <3>1 DEF Positions
    <3> QED
      BY <2>2, <3>2
  <2>3. CASE ~(k < i)
    <3>1. k - 1 \in 1 .. Len(s) - 1 /\ ~(k - 1 < i) /\ (k - 1) + 1 = k
      BY <1>1, <2>1, <2>3
    <3>2. k - 1 \in P
      BY <1>1, <2>1, <3>1 DEF Positions
    <3> QED
      BY <3>1, <3>2
  <2> QED
    BY <2>2, <2>3
<1>7. move \in [P -> Q]
  BY <1>4
<1> HIDE DEF P, Q, move
<1>8. move \in Bijection(P, Q)
  BY <1>5, <1>6, <1>7 DEF Bijection, Injection, Surjection, IsInjective
<1>9. Cardinality(Q) = Cardinality(P)
  BY <1>2, <1>8, FS_Bijection DEF ExistsBijection
<1>10. i \in Positions(s, X) <=> s[i] \in X
  BY <1>1 DEF Positions
<1>11. Cardinality(Positions(s, X) \ {i})
         = IF i \in Positions(s, X) THEN Cardinality(Positions(s, X)) - 1
                                   ELSE Cardinality(Positions(s, X))
  BY <1>2, FS_RemoveElement
<1>12. Cardinality(P) = Cardinality(Positions(s, X)) - Bit(s[i], X)
  BY <1>2, <1>9, <1>10, <1>11 DEF Q, Bit
<1> QED
  BY <1>12 DEF P, r

-----------------------------------------------------------------------------
(* References. *)

DeferredTasks == [thread : Threads, argn : Nat, held : BOOLEAN]
Awaiting(a, t) == {k \in DOMAIN a : a[k].after_this = t}
Held(t) == {d \in DeferredTasks : d.thread = t /\ d.held}

\* What Owed adds up, for containers w, a and d.
Count(w, a, d, t) ==
  Bit(t, DOMAIN w) + Bit(t, DOMAIN a) + Cardinality(Awaiting(a, t))
    + Cardinality(Positions(d, Held(t)))
Containers(w, a, d) == IsMap(w, Waiters) /\ IsMap(a, Followers) /\ d \in Seq(DeferredTasks)

LEMMA AwaitingType ==
  ASSUME NEW a, IsMap(a, Followers), NEW t
  PROVE  IsFiniteSet(Awaiting(a, t)) /\ Cardinality(Awaiting(a, t)) \in Nat
<1>1. IsFiniteSet(Awaiting(a, t))
  BY SizeType, FS_Subset DEF Awaiting
<1> QED
  BY <1>1, FS_CardinalityType

LEMMA CountType ==
  ASSUME NEW w, NEW a, NEW d, Containers(w, a, d), NEW t
  PROVE  /\ Cardinality(Awaiting(a, t)) \in Nat /\ Cardinality(Positions(d, Held(t))) \in Nat
         /\ \A S : Bit(t, S) \in 0 .. 1
         /\ Count(w, a, d, t) \in Nat
<1>1. Cardinality(Awaiting(a, t)) \in Nat /\ Cardinality(Positions(d, Held(t))) \in Nat
  BY AwaitingType, PositionsType DEF Containers
<1>2. \A S : Bit(t, S) \in 0 .. 1
  BY DEF Bit
<1>3. Count(w, a, d, t) \in Nat
  BY <1>1, <1>2 DEF Count
<1> QED
  BY <1>1, <1>2, <1>3

LEMMA CountOf ==
  ASSUME NEW w, NEW a, NEW d, Containers(w, a, d), NEW t \in Threads
  PROVE  Cardinality({t} \cap DOMAIN w) + Cardinality({t} \cap DOMAIN a)
           + Cardinality({k \in DOMAIN a : a[k].after_this = t})
           + Cardinality({i \in DOMAIN d : d[i].thread = t /\ d[i].held}) = Count(w, a, d, t)
<1>1. \A S : Cardinality({t} \cap S) = Bit(t, S)
  <2> TAKE S
  <2>1. CASE t \in S
    <3>1. {t} \cap S = {t} /\ Cardinality({t}) = 1
      BY <2>1, FS_Singleton
    <3> QED
      BY <2>1, <3>1 DEF Bit
  <2>2. CASE t \notin S
    <3>1. {t} \cap S = {} /\ Cardinality({}) = 0
      BY <2>2, FS_EmptySet
    <3> QED
      BY <2>2, <3>1 DEF Bit
  <2> QED
    BY <2>1, <2>2
<1>2. \A i \in DOMAIN d : d[i] \in DeferredTasks
  BY LenProperties, ElementOfSeq DEF Containers
<1>3. {i \in DOMAIN d : d[i].thread = t /\ d[i].held} = Positions(d, Held(t))
  BY <1>2 DEF Positions, Held
<1>4. /\ Cardinality({t} \cap DOMAIN w) = Bit(t, DOMAIN w)
      /\ Cardinality({t} \cap DOMAIN a) = Bit(t, DOMAIN a)
      /\ {k \in DOMAIN a : a[k].after_this = t} = Awaiting(a, t)
  BY <1>1 DEF Awaiting
<1> QED
  BY <1>3, <1>4 DEF Count

LEMMA OwedIs ==
  /\ QueuesTypeOK =>
       /\ Containers(waiting, afters, deferred)
       /\ \A t \in Threads : Owed(t) = Count(waiting, afters, deferred, t)
  /\ QueuesTypeOK' =>
       /\ Containers(waiting', afters', deferred')
       /\ \A t \in Threads : Owed(t)' = Count(waiting', afters', deferred', t)
<1>1. ASSUME QueuesTypeOK
      PROVE  /\ Containers(waiting, afters, deferred)
             /\ \A t \in Threads : Owed(t) = Count(waiting, afters, deferred, t)
  <2>1. Containers(waiting, afters, deferred)
    BY <1>1 DEF QueuesTypeOK, Containers, DeferredTasks
  <2> QED
    BY <2>1, CountOf DEF Owed, WillRun
<1>2. ASSUME QueuesTypeOK'
      PROVE  /\ Containers(waiting', afters', deferred')
             /\ \A t \in Threads : Owed(t)' = Count(waiting', afters', deferred', t)
  <2>1. Containers(waiting', afters', deferred')
    BY <1>2 DEF QueuesTypeOK, Containers, DeferredTasks
  <2> QED
    BY <2>1, CountOf DEF Owed, WillRun
<1> QED
  BY <1>1, <1>2

\* What the operations on the containers add to a count and take from it.
LEMMA CountOfEmplacedWaiter ==
  ASSUME NEW w, NEW a, NEW d, Containers(w, a, d), NEW k \in Threads, NEW e, NEW t \in Threads
  PROVE  Count(Emplace(w, k, e), a, d, t) = Count(w, a, d, t) + Bit(t, {k} \ DOMAIN w)
<1>1. Cardinality(Awaiting(a, t)) \in Nat /\ Cardinality(Positions(d, Held(t))) \in Nat
  BY CountType
<1>2. Bit(t, DOMAIN Emplace(w, k, e)) = Bit(t, DOMAIN w) + Bit(t, {k} \ DOMAIN w)
  BY DEF Emplace, Bit
<1> QED
  BY <1>1, <1>2 DEF Count, Bit

LEMMA CountOfEmplacedFollower ==
  ASSUME NEW w, NEW a, NEW d, Containers(w, a, d), NEW k \in Threads,
         NEW e, NEW thread, e.after_this = thread, NEW t \in Threads
  PROVE  Count(w, Emplace(a, k, e), d, t)
           = Count(w, a, d, t) + (IF k \in DOMAIN a THEN 0
                                  ELSE Bit(t, {k}) + Bit(t, {thread}))
<1>1. /\ Cardinality(Awaiting(a, t)) \in Nat /\ Cardinality(Positions(d, Held(t))) \in Nat
      /\ IsFiniteSet(Awaiting(a, t))
  BY CountType, AwaitingType DEF Containers
<1>2. CASE k \in DOMAIN a
  <2>1. Emplace(a, k, e) = a
    BY <1>2 DEF Emplace, Containers, IsMap
  <2> QED
    BY <1>1, <1>2, <2>1 DEF Count, Bit
<1>3. CASE k \notin DOMAIN a
  <2>1. /\ DOMAIN Emplace(a, k, e) = DOMAIN a \cup {k} /\ Emplace(a, k, e)[k] = e
        /\ \A x \in DOMAIN a : Emplace(a, k, e)[x] = a[x]
    BY <1>3 DEF Emplace
  <2>2. Bit(t, DOMAIN Emplace(a, k, e)) = Bit(t, DOMAIN a) + Bit(t, {k})
    BY <1>3, <2>1 DEF Bit
  <2>3. Cardinality(Awaiting(Emplace(a, k, e), t))
          = Cardinality(Awaiting(a, t)) + Bit(t, {thread})
    <3>1. CASE thread = t
      <4>1. Awaiting(Emplace(a, k, e), t) = Awaiting(a, t) \cup {k} /\ k \notin Awaiting(a, t)
        BY <1>3, <2>1, <3>1 DEF Awaiting
      <4>2. Cardinality(Awaiting(a, t) \cup {k}) = Cardinality(Awaiting(a, t)) + 1
        BY <1>1, <4>1, FS_AddElement
      <4> QED
        BY <3>1, <4>1, <4>2 DEF Bit
    <3>2. CASE thread # t
      <4>1. Awaiting(Emplace(a, k, e), t) = Awaiting(a, t)
        BY <1>3, <2>1, <3>2 DEF Awaiting
      <4> QED
        BY <1>1, <3>2, <4>1 DEF Bit
    <3> QED
      BY <3>1, <3>2
  <2> QED
    BY <1>1, <1>3, <2>2, <2>3 DEF Count, Bit
<1> QED
  BY <1>2, <1>3

LEMMA CountOfErasedWaiter ==
  ASSUME NEW w, NEW a, NEW d, Containers(w, a, d), NEW k \in DOMAIN w, NEW t \in Threads
  PROVE  Count(Erase(w, k), a, d, t) = Count(w, a, d, t) - Bit(t, {k})
<1>1. Cardinality(Awaiting(a, t)) \in Nat /\ Cardinality(Positions(d, Held(t))) \in Nat
  BY CountType
<1>2. Bit(t, DOMAIN Erase(w, k)) = Bit(t, DOMAIN w) - Bit(t, {k})
  BY DEF Erase, Bit
<1> QED
  BY <1>1, <1>2 DEF Count, Bit

LEMMA CountOfErasedFollower ==
  ASSUME NEW w, NEW a, NEW d, Containers(w, a, d), NEW k \in DOMAIN a, NEW t \in Threads
  PROVE  Count(w, Erase(a, k), d, t)
           = Count(w, a, d, t) - Bit(t, {k}) - Bit(t, {a[k].after_this})
<1>1. /\ Cardinality(Awaiting(a, t)) \in Nat /\ Cardinality(Positions(d, Held(t))) \in Nat
      /\ IsFiniteSet(Awaiting(a, t))
  BY CountType, AwaitingType DEF Containers
<1>2. Bit(t, DOMAIN Erase(a, k)) = Bit(t, DOMAIN a) - Bit(t, {k})
  BY DEF Erase, Bit
<1>3. Awaiting(Erase(a, k), t) = Awaiting(a, t) \ {k}
  BY DEF Awaiting, Erase
<1>4. Cardinality(Awaiting(a, t) \ {k})
        = IF k \in Awaiting(a, t) THEN Cardinality(Awaiting(a, t)) - 1
                                  ELSE Cardinality(Awaiting(a, t))
  BY <1>1, FS_RemoveElement
<1>5. k \in Awaiting(a, t) <=> a[k].after_this = t
  BY DEF Awaiting
<1>6. Cardinality(Awaiting(Erase(a, k), t))
        = Cardinality(Awaiting(a, t)) - Bit(t, {a[k].after_this})
  BY <1>1, <1>3, <1>4, <1>5 DEF Bit
<1> QED
  BY <1>1, <1>2, <1>6 DEF Count, Bit

LEMMA CountOfAppended ==
  ASSUME NEW w, NEW a, NEW d, Containers(w, a, d),
         NEW k \in Threads, NEW n \in Nat, NEW t \in Threads
  PROVE  Count(w, a, Append(d, [thread |-> k, argn |-> n, held |-> TRUE]), t)
           = Count(w, a, d, t) + Bit(t, {k})
<1> DEFINE e == [thread |-> k, argn |-> n, held |-> TRUE]
<1>1. /\ Cardinality(Awaiting(a, t)) \in Nat /\ Cardinality(Positions(d, Held(t))) \in Nat
      /\ d \in Seq(DeferredTasks)
  BY CountType DEF Containers
<1>2. e \in DeferredTasks /\ Bit(e, Held(t)) = Bit(t, {k})
  BY DEF DeferredTasks, Bit, Held
<1> HIDE DEF e
<1>3. Cardinality(Positions(Append(d, e), Held(t)))
        = Cardinality(Positions(d, Held(t))) + Bit(t, {k})
  BY <1>1, <1>2, PositionsOfAppend
<1> QED
  BY <1>1, <1>3 DEF Count, Bit, e

\* A deferred task is cancelled.
LEMMA CountOfRemoved ==
  ASSUME NEW w, NEW a, NEW d, Containers(w, a, d), NEW i \in 1 .. Len(d), d[i].held,
         NEW t \in Threads
  PROVE  Count(w, a, RemoveAt(d, i), t) = Count(w, a, d, t) - Bit(t, {d[i].thread})
<1>1. /\ Cardinality(Awaiting(a, t)) \in Nat /\ Cardinality(Positions(d, Held(t))) \in Nat
      /\ d \in Seq(DeferredTasks)
  BY CountType DEF Containers
<1>2. d[i] \in DeferredTasks
  BY <1>1, ElementOfSeq
<1>3. Bit(d[i], Held(t)) = Bit(t, {d[i].thread})
  BY <1>2 DEF Bit, Held
<1>4. Cardinality(Positions(RemoveAt(d, i), Held(t)))
        = Cardinality(Positions(d, Held(t))) - Bit(t, {d[i].thread})
  BY <1>1, <1>3, PositionsOfRemoveAt
<1> QED
  BY <1>1, <1>4 DEF Count, Bit

\* A deferred task has run.
LEMMA CountOfReleased ==
  ASSUME NEW w, NEW a, NEW d, Containers(w, a, d), NEW i \in 1 .. Len(d), d[i].held,
         NEW t \in Threads
  PROVE  Count(w, a, [d EXCEPT ![i].held = FALSE], t)
           = Count(w, a, d, t) - Bit(t, {d[i].thread})
<1> DEFINE e == [d[i] EXCEPT !.held = FALSE]
<1>1. /\ Cardinality(Awaiting(a, t)) \in Nat /\ Cardinality(Positions(d, Held(t))) \in Nat
      /\ d \in Seq(DeferredTasks)
  BY CountType DEF Containers
<1>2. d[i] \in DeferredTasks
  BY <1>1, ElementOfSeq
<1>3. e \in DeferredTasks /\ e \notin Held(t) /\ Bit(d[i], Held(t)) = Bit(t, {d[i].thread})
  BY <1>2 DEF DeferredTasks, Bit, Held
<1>4. [d EXCEPT ![i].held = FALSE] = [d EXCEPT ![i] = e]
  OBVIOUS
<1> HIDE DEF e
<1>5. Cardinality(Positions([d EXCEPT ![i] = e], Held(t)))
        = Cardinality(Positions(d, Held(t))) - Bit(t, {d[i].thread})
  BY <1>1, <1>3, PositionsOfExcept
<1> QED
  BY <1>1, <1>4, <1>5 DEF Count, Bit

LEMMA CountOfNone ==
  ASSUME NEW w, NEW a, NEW d, Containers(w, a, d), NEW t \in Threads
  PROVE  /\ Count(w, a, <<>>, t) <= Count(w, a, d, t)
         /\ (\A i \in DOMAIN d : ~d[i].held) => Count(w, a, <<>>, t) = Count(w, a, d, t)
<1>1. Cardinality(Awaiting(a, t)) \in Nat /\ Cardinality(Positions(d, Held(t))) \in Nat
  BY CountType
<1>2. Positions(<<>>, Held(t)) = {} /\ Cardinality({}) = 0
  BY FS_EmptySet DEF Positions
<1>3. ASSUME \A i \in DOMAIN d : ~d[i].held
      PROVE  Positions(d, Held(t)) = {}
  BY <1>3 DEF Positions, Held
<1>4. Count(w, a, <<>>, t) <= Count(w, a, d, t)
  <2>1. Cardinality(Positions(<<>>, Held(t))) = 0
    BY <1>2
  <2>2. Bit(t, DOMAIN w) \in Int /\ Bit(t, DOMAIN a) \in Int
    BY DEF Bit
  <2> QED
    BY <1>1, <2>1, <2>2 DEF Count
<1> QED
  BY <1>2, <1>3, <1>4 DEF Count

\* The references to t beyond those that entries of the containers hold.
Spare(t) == pins[t] - Owed(t)
SpareKept == \A t \in Threads : Spare(t)' = Spare(t)

\* The thread that executes is one of the threads, and the calls name threads.
LEMMA Names ==
  ASSUME TypeInv
  PROVE  /\ Coroutines \subseteq Threads /\ Created \subseteq Threads
         /\ Awaitable \subseteq Threads \cup {NoThread}
         /\ Executing => self \in Threads /\ status[self] \in Active
         /\ QueuesTypeOK /\ pins \in [Threads -> Int]
         /\ Containers(waiting, afters, deferred)
         /\ \A t \in Threads : Owed(t) = Count(waiting, afters, deferred, t) /\ Owed(t) \in Nat
<1>1. Coroutines \subseteq Threads /\ Created \subseteq Threads
      /\ Awaitable \subseteq Threads \cup {NoThread}
  BY DEF Coroutines, Created, Awaitable
<1>2. QueuesTypeOK /\ pins \in [Threads -> Int]
  BY DEF TypeInv, TypeOK, QueuesTypeOK
<1>3. Executing => self \in Threads /\ status[self] \in Active
  <2> SUFFICES ASSUME Executing
               PROVE  self \in Threads /\ status[self] \in Active
    OBVIOUS
  <2>1. running \in Seq(Threads) /\ Len(running) \in Nat \ {0} /\ self = running[1]
    BY EmptySeq, LenProperties, HeadTailProperties DEF TypeInv, TypeOK, VmTypeOK, Executing, self
  <2> QED
    BY <2>1, ElementOfSeq DEF TypeInv, TypeOK, VmTypeOK
<1> QED
  BY <1>1, <1>2, <1>3, OwedIs, CountType

LEMMA SameSpare ==
  ASSUME TypeInv, UNCHANGED <<waiting, afters, deferred, pins>>
  PROVE  SpareKept
<1>1. \A t \in Threads : Owed(t)' = Owed(t)
  BY DEF Owed, WillRun
<1> QED
  BY <1>1 DEF SpareKept, Spare

LEMMA WaitSpare ==
  ASSUME TypeInv, TypeInv', Executing, NEW s, Wait(s)
  PROVE  SpareKept
<1>1. self \in Threads /\ pins \in [Threads -> Int]
  BY Names
<1>2. ASSUME NEW t \in Threads
      PROVE  Spare(t)' = Spare(t)
  <2>1. /\ Owed(t) = Count(waiting, afters, deferred, t) /\ Owed(t) \in Nat
        /\ Containers(waiting, afters, deferred)
    BY Names
  <2>2. Owed(t)' = Count(waiting', afters, deferred, t)
    BY OwedIs DEF TypeInv, TypeOK, Wait
  <2>3. CASE WaitAgain(s)
    <3>1. DOMAIN waiting' = DOMAIN waiting /\ pins' = pins
      BY <2>3 DEF WaitAgain
    <3>2. Owed(t)' = Owed(t)
      BY <2>1, <2>2, <3>1 DEF Count
    <3> QED
      BY <3>1, <3>2 DEF Spare
  <2>4. CASE WaitFirst(s)
    <3>1. pins'[t] = pins[t] + Bit(t, {self})
      BY <1>1, <2>4 DEF WaitFirst, Ref, Bit
    <3>2. Owed(t)' = Owed(t) + Bit(t, {self} \ DOMAIN waiting)
      BY <1>1, <2>1, <2>2, <2>4, CountOfEmplacedWaiter DEF WaitFirst
    <3>3. {self} \ DOMAIN waiting = {self}
      BY <2>4 DEF WaitFirst
    <3> QED
      BY <1>1, <2>1, <3>1, <3>2, <3>3 DEF Spare, Bit
  <2> QED
    BY <2>3, <2>4 DEF Wait
<1> QED
  BY <1>2 DEF SpareKept

LEMMA DelaySpare ==
  ASSUME TypeInv, TypeInv', NEW s, NEW k \in Coroutines, NEW n, Delay(s, k, n)
  PROVE  \A t \in Threads : Spare(t)' = Spare(t) + Bit(t, {k} \cap DOMAIN waiting)
<1> TAKE t \in Threads
<1>1. k \in Threads /\ pins \in [Threads -> Int]
  BY Names
<1>2. /\ Owed(t) = Count(waiting, afters, deferred, t) /\ Owed(t) \in Nat
      /\ Containers(waiting, afters, deferred)
  BY Names
<1>3. Owed(t)' = Count(waiting', afters, deferred, t)
  BY OwedIs DEF TypeInv, TypeOK, Delay
<1>4. pins'[t] = pins[t] + Bit(t, {k})
  BY <1>1 DEF Delay, Ref, Bit
<1>5. Owed(t)' = Owed(t) + Bit(t, {k} \ DOMAIN waiting)
  BY <1>1, <1>2, <1>3, CountOfEmplacedWaiter DEF Delay
<1> QED
  BY <1>1, <1>2, <1>4, <1>5 DEF Spare, Bit

LEMMA DeferSpare ==
  ASSUME TypeInv, TypeInv', NEW k \in Coroutines, NEW n \in Nat, Defer(k, n)
  PROVE  SpareKept
<1>1. k \in Threads /\ pins \in [Threads -> Int]
  BY Names
<1>2. ASSUME NEW t \in Threads
      PROVE  Spare(t)' = Spare(t)
  <2>1. /\ Owed(t) = Count(waiting, afters, deferred, t) /\ Owed(t) \in Nat
        /\ Containers(waiting, afters, deferred)
    BY Names
  <2>2. Owed(t)' = Count(waiting, afters, deferred', t)
    BY OwedIs DEF TypeInv, TypeOK, Defer
  <2>3. pins'[t] = pins[t] + Bit(t, {k})
    BY <1>1 DEF Defer, Ref, Bit
  <2>4. Owed(t)' = Owed(t) + Bit(t, {k})
    BY <1>1, <2>1, <2>2, CountOfAppended DEF Defer
  <2> QED
    BY <1>1, <2>1, <2>3, <2>4 DEF Spare, Bit
<1> QED
  BY <1>2 DEF SpareKept

\* What a call to wait_for or do_after references beyond its entry.
Surplus(t, k, thread) == IF k \in DOMAIN afters THEN Bit(t, {k}) + Bit(t, {thread}) ELSE 0

LEMMA AfterSpare ==
  ASSUME TypeInv, TypeInv', NEW k \in Threads, NEW thread \in Awaitable, NEW n \in Nat,
         NEW extra, afters' = Emplace(afters, k, [after_this |-> thread, argn |-> n]),
         UNCHANGED <<waiting, deferred>>,
         pins' = [t \in Threads |-> pins[t] + (IF t = thread THEN 1 ELSE 0)
                                            + (IF t = k THEN 1 + extra ELSE 0)],
         extra \in 0 .. 1
  PROVE  \A t \in Threads :
           Spare(t)' = Spare(t) + Surplus(t, k, thread) + (IF t = k THEN extra ELSE 0)
<1> TAKE t \in Threads
<1>1. thread \in Threads \cup {NoThread} /\ pins \in [Threads -> Int]
  BY Names
<1>2. /\ Owed(t) = Count(waiting, afters, deferred, t) /\ Owed(t) \in Nat
      /\ Containers(waiting, afters, deferred)
  BY Names
<1>3. Owed(t)' = Count(waiting, afters', deferred, t)
  BY OwedIs DEF TypeInv, TypeOK
<1>4. pins'[t] = pins[t] + Bit(t, {thread}) + (IF t = k THEN 1 + extra ELSE 0)
  BY <1>1 DEF Bit
<1>5. Owed(t)' = Owed(t) + (IF k \in DOMAIN afters THEN 0
                            ELSE Bit(t, {k}) + Bit(t, {thread}))
  <2> DEFINE e == [after_this |-> thread, argn |-> n]
  <2>1. e.after_this = thread /\ afters' = Emplace(afters, k, e)
    OBVIOUS
  <2> HIDE DEF e
  <2> QED
    BY <1>2, <1>3, <2>1, CountOfEmplacedFollower
<1> QED
  BY <1>1, <1>2, <1>4, <1>5 DEF Spare, Bit, Surplus

LEMMA AwaitSpare ==
  ASSUME TypeInv, TypeInv', Executing, NEW u \in Awaitable, Await(u)
  PROVE  \A t \in Threads : Spare(t)' = Spare(t) + Surplus(t, self, u) + Bit(t, {self})
<1>1. self \in Threads /\ 0 \in Nat /\ 1 \in 0 .. 1
  BY Names
<1>2. pins' = [t \in Threads |-> pins[t] + (IF t = u THEN 1 ELSE 0)
                                         + (IF t = self THEN 1 + 1 ELSE 0)]
  BY DEF Await
<1>4. /\ afters' = Emplace(afters, self, [after_this |-> u, argn |-> 0])
      /\ UNCHANGED <<waiting, deferred>>
  BY DEF Await
<1>3. \A t \in Threads :
        Spare(t)' = Spare(t) + Surplus(t, self, u) + (IF t = self THEN 1 ELSE 0)
  BY <1>1, <1>2, <1>4, AfterSpare
<1> QED
  BY <1>3 DEF Bit

LEMMA DoAfterSpare ==
  ASSUME TypeInv, TypeInv', NEW u \in Awaitable, NEW k \in Coroutines, NEW n \in Nat,
         DoAfter(u, k, n)
  PROVE  \A t \in Threads : Spare(t)' = Spare(t) + Surplus(t, k, u)
<1>1. k \in Threads /\ 0 \in 0 .. 1
  BY Names
<1>2. pins' = [t \in Threads |-> pins[t] + (IF t = u THEN 1 ELSE 0)
                                         + (IF t = k THEN 1 + 0 ELSE 0)]
  BY DEF DoAfter
<1>3. \A t \in Threads :
        Spare(t)' = Spare(t) + Surplus(t, k, u) + (IF t = k THEN 0 ELSE 0)
  BY <1>1, <1>2, AfterSpare DEF DoAfter
<1>4. \A t \in Threads : Spare(t) \in Int /\ Surplus(t, k, u) \in Int
  <2> TAKE t \in Threads
  <2>1. pins[t] \in Int /\ Owed(t) \in Nat
    BY Names
  <2> QED
    BY <2>1 DEF Spare, Surplus, Bit
<1> QED
  BY <1>3, <1>4

LEMMA DoAfterNothingSpare ==
  ASSUME TypeInv, NEW u \in Awaitable, DoAfterNothing(u)
  PROVE  \A t \in Threads : Spare(t)' = Spare(t) + Bit(t, {u})
<1> TAKE t \in Threads
<1>1. pins[t] \in Int /\ Owed(t) \in Nat
  BY Names
<1>2. Owed(t)' = Owed(t)
  BY DEF DoAfterNothing, queues, Owed, WillRun
<1>3. pins'[t] = pins[t] + Bit(t, {u})
  BY DEF DoAfterNothing, Bit
<1> QED
  BY <1>1, <1>2, <1>3 DEF Spare, Bit

LEMMA CancelSpare ==
  ASSUME TypeInv, TypeInv', NEW k \in Created, Cancel(k), phase' # "undefined"
  PROVE  SpareKept
<1>1. k \in Threads /\ pins \in [Threads -> Int]
  BY Names
<1>2. CASE UNCHANGED <<waiting, deferred, pins>>
  BY <1>2, SameSpare DEF Cancel
<1>3. ASSUME NEW t \in Threads, FromWaiting(k) \/ FromDeferred(k)
      PROVE  Spare(t)' = Spare(t)
  <2>1. /\ Owed(t) = Count(waiting, afters, deferred, t) /\ Owed(t) \in Nat
        /\ Containers(waiting, afters, deferred)
    BY Names
  <2>2. Owed(t)' = Count(waiting', afters, deferred', t)
    BY OwedIs DEF TypeInv, TypeOK, Cancel
  <2>3. pins'[t] = pins[t] - Bit(t, {k})
    BY <1>1, <1>3 DEF FromWaiting, FromDeferred, Unref, Bit
  <2>4. CASE FromWaiting(k)
    <3>1. Owed(t)' = Owed(t) - Bit(t, {k})
      BY <2>1, <2>2, <2>4, CountOfErasedWaiter DEF FromWaiting
    <3> QED
      BY <1>1, <2>1, <2>3, <3>1 DEF Spare, Bit
  <2>5. CASE FromDeferred(k)
    <3>1. PICK i \in DOMAIN deferred :
            /\ deferred[i].thread = k /\ deferred' = RemoveAt(deferred, i)
            /\ phase' = IF phase = "deferred" \/ ~deferred[i].held THEN "undefined" ELSE phase
      BY <2>5 DEF FromDeferred
    <3>2. deferred[i].held /\ waiting' = waiting
      BY <2>5, <3>1 DEF FromDeferred
    <3>3. i \in 1 .. Len(deferred)
      BY <2>1, LenProperties DEF Containers
    <3>4. Count(waiting, afters, RemoveAt(deferred, i), t)
            = Count(waiting, afters, deferred, t) - Bit(t, {deferred[i].thread})
      BY <2>1, <3>2, <3>3, CountOfRemoved
    <3>5. Owed(t)' = Owed(t) - Bit(t, {k})
      BY <2>1, <2>2, <3>1, <3>2, <3>4
    <3> QED
      BY <1>1, <2>1, <2>3, <3>5 DEF Spare, Bit
  <2> QED
    BY <1>3, <2>4, <2>5
<1> QED
  BY <1>2, <1>3 DEF Cancel, FromNone, SpareKept

LEMMA SpareType ==
  ASSUME TypeInv
  PROVE  \A t \in Threads : Spare(t) \in Int
<1> TAKE t \in Threads
<1>1. pins[t] \in Int /\ Owed(t) \in Nat
  BY Names
<1> QED
  BY <1>1 DEF Spare

LEMMA ScriptSpare ==
  ASSUME TypeInv, TypeInv', Script, phase' # "undefined"
  PROVE  \A t \in Threads : Spare(t)' >= Spare(t)
<1>1. Executing /\ \A n \in 0 .. MaxArgs : n \in Nat
  BY ScriptsAssumption DEF Script
<1>2. \A t \in Threads : Spare(t) \in Int
  BY SpareType
<1>3. \A t, S : Bit(t, S) \in 0 .. 1
  BY DEF Bit
<1>4. ASSUME SpareKept
      PROVE  \A t \in Threads : Spare(t)' >= Spare(t)
  BY <1>2, <1>4 DEF SpareKept
<1>5. ASSUME NEW s \in Durations, Wait(s)
      PROVE  SpareKept
  BY <1>1, <1>5, WaitSpare
<1>6. ASSUME NEW k \in Coroutines, NEW n \in 0 .. MaxArgs, Defer(k, n)
      PROVE  SpareKept
  BY <1>1, <1>6, DeferSpare
<1>7. ASSUME NEW k \in Coroutines, NEW n, NEW s, Delay(s, k, n)
      PROVE  \A t \in Threads : Spare(t)' >= Spare(t)
  <2>1. \A t \in Threads : Spare(t)' = Spare(t) + Bit(t, {k} \cap DOMAIN waiting)
    BY <1>7, DelaySpare
  <2> QED
    BY <1>2, <1>3, <2>1
<1>8. ASSUME NEW k \in Coroutines, NEW n \in 0 .. MaxArgs, NEW u \in Awaitable, DoAfter(u, k, n)
      PROVE  \A t \in Threads : Spare(t)' >= Spare(t)
  <2>1. \A t \in Threads : Spare(t)' = Spare(t) + Surplus(t, k, u)
    BY <1>1, <1>8, DoAfterSpare
  <2> QED
    BY <1>2, <2>1 DEF Surplus, Bit
<1>9. ASSUME NEW u \in Awaitable, WaitFor(u) \/ WaitForRefused(u)
      PROVE  \A t \in Threads : Spare(t)' >= Spare(t)
  <2>1. \A t \in Threads : Spare(t)' = Spare(t) + Surplus(t, self, u) + Bit(t, {self})
    BY <1>1, <1>9, AwaitSpare DEF WaitFor, WaitForRefused
  <2> QED
    BY <1>2, <2>1 DEF Surplus, Bit
<1>10. ASSUME NEW u \in Awaitable, DoAfterNothing(u)
       PROVE  \A t \in Threads : Spare(t)' >= Spare(t)
  <2>1. \A t \in Threads : Spare(t)' = Spare(t) + Bit(t, {u})
    BY <1>10, DoAfterNothingSpare
  <2> QED
    BY <1>2, <1>3, <2>1
<1>11. ASSUME NEW k \in Created, Cancel(k)
       PROVE  SpareKept
  BY <1>11, CancelSpare
<1>12. ASSUME NEW k, NEW n, NEW c, Spawn(k, n) \/ AddCTask(c) \/ Create(k) \/ Yield
                                   \/ Finish(n) \/ Raise \/ WaitRefused
       PROVE  SpareKept
  BY <1>12, SameSpare DEF Spawn, AddCTask, Create, Yield, Finish, Raise, WaitRefused, queues
<1> QED
  BY <1>4, <1>5, <1>6, <1>7, <1>8, <1>9, <1>10, <1>11, <1>12 DEF Script

\* What the host releases when a deferred task has run, ...
LEMMA DeferredReturnedSpare ==
  ASSUME TypeInv, TypeInv', DeferredReturned, phase' # "undefined"
  PROVE  SpareKept
<1>1. pins \in [Threads -> Int] /\ deferred \in Seq(DeferredTasks)
  BY Names DEF Containers
<1>2. iter.at \in 1 .. Len(deferred) /\ deferred[iter.at].held
  <2>1. iter.at \in 0 .. Len(deferred) /\ iter.at >= 1
    BY DEF DeferredReturned, Back, TypeInv, LoopsInBounds
  <2>2. deferred[iter.at].held
    BY DEF DeferredReturned, CountingDown
  <2> QED
    BY <1>1, <2>1, <2>2, LenProperties
<1>3. deferred[iter.at].thread \in Threads
  <2>1. deferred[iter.at] \in DeferredTasks
    BY <1>1, <1>2, ElementOfSeq
  <2> QED
    BY <2>1 DEF DeferredTasks
<1>4. ASSUME NEW t \in Threads
      PROVE  Spare(t)' = Spare(t)
  <2>1. /\ Owed(t) = Count(waiting, afters, deferred, t) /\ Owed(t) \in Nat
        /\ Containers(waiting, afters, deferred)
    BY Names
  <2>2. Owed(t)' = Count(waiting, afters, deferred', t)
    BY OwedIs DEF TypeInv, TypeOK, DeferredReturned
  <2>3. pins'[t] = pins[t] - Bit(t, {deferred[iter.at].thread})
    BY <1>1, <1>3 DEF DeferredReturned, CountingDown, Unref, Bit
  <2>4. Count(waiting, afters, [deferred EXCEPT ![iter.at].held = FALSE], t)
          = Count(waiting, afters, deferred, t) - Bit(t, {deferred[iter.at].thread})
    BY <1>2, <2>1, CountOfReleased
  <2>5. Owed(t)' = Owed(t) - Bit(t, {deferred[iter.at].thread})
    BY <2>1, <2>2, <2>4 DEF DeferredReturned, CountingDown
  <2> QED
    BY <1>1, <2>1, <2>3, <2>5 DEF Spare, Bit
<1> QED
  BY <1>4 DEF SpareKept

\* ... when it forgets the deferred tasks, ...
LEMMA DeferredDoneSpare ==
  ASSUME TypeInv, TypeInv', DeferredDone
  PROVE  /\ \A t \in Threads : Spare(t)' >= Spare(t)
         /\ (\A i \in DOMAIN deferred : ~deferred[i].held) => SpareKept
<1>1. ASSUME NEW t \in Threads
      PROVE  /\ Spare(t)' >= Spare(t)
             /\ (\A i \in DOMAIN deferred : ~deferred[i].held) => Spare(t)' = Spare(t)
  <2>1. /\ Owed(t) = Count(waiting, afters, deferred, t) /\ Owed(t) \in Nat
        /\ Containers(waiting, afters, deferred) /\ pins[t] \in Int
    BY Names
  <2>2. Owed(t)' = Count(waiting, afters, <<>>, t)
    BY OwedIs DEF TypeInv, TypeOK, DeferredDone, Proceed
  <2>3. Owed(t)' \in Nat
    BY Names, CountType, OwedIs DEF TypeInv, TypeOK
  <2>4. /\ Owed(t)' <= Owed(t)
        /\ (\A i \in DOMAIN deferred : ~deferred[i].held) => Owed(t)' = Owed(t)
    BY <2>1, <2>2, CountOfNone
  <2>5. pins' = pins
    BY DEF DeferredDone, Proceed
  <2> QED
    BY <2>1, <2>3, <2>4, <2>5 DEF Spare
<1> QED
  BY <1>1 DEF SpareKept

\* ... and when it carries out an instruction.
LEMMA CleaningSpare ==
  ASSUME TypeInv, TypeInv', CleanWaiter \/ CleanAfter
  PROVE  SpareKept
<1> DEFINE k == cleaning[iter.at].id
<1>1. pins \in [Threads -> Int]
  BY Names
<1>2. CASE UNCHANGED <<waiting, afters, pins>>
  BY <1>2, SameSpare DEF CleanWaiter, CleanAfter, Instruction
<1>3. ASSUME NEW t \in Threads, CleanWaiter, k \in DOMAIN waiting
      PROVE  Spare(t)' = Spare(t)
  <2>1. /\ Owed(t) = Count(waiting, afters, deferred, t) /\ Owed(t) \in Nat
        /\ Containers(waiting, afters, deferred)
    BY Names
  <2>2. Owed(t)' = Count(Erase(waiting, k), afters, deferred, t)
    BY <1>3, OwedIs DEF TypeInv, TypeOK, CleanWaiter, Instruction
  <2>3. k \in Threads /\ pins' = [pins EXCEPT ![k] = @ - 1]
    BY <1>3, <2>1 DEF CleanWaiter, Containers, IsMap, Unref
  <2> HIDE DEF k
  <2>4. pins'[t] = pins[t] - Bit(t, {k})
    BY <1>1, <2>3 DEF Bit
  <2>5. Owed(t)' = Owed(t) - Bit(t, {k})
    BY <1>3, <2>1, <2>2, CountOfErasedWaiter
  <2> QED
    BY <1>1, <2>1, <2>4, <2>5 DEF Spare, Bit
<1>4. ASSUME NEW t \in Threads, CleanAfter, k \in DOMAIN afters
      PROVE  Spare(t)' = Spare(t)
  <2>1. /\ Owed(t) = Count(waiting, afters, deferred, t) /\ Owed(t) \in Nat
        /\ Containers(waiting, afters, deferred)
    BY Names
  <2>2. Owed(t)' = Count(waiting, Erase(afters, k), deferred, t)
    BY <1>4, OwedIs DEF TypeInv, TypeOK, CleanAfter, Instruction
  <2>3. pins' = [u \in Threads |-> pins[u] - (IF u = afters[k].after_this THEN 1 ELSE 0)
                                           - (IF u = k THEN 1 ELSE 0)]
    BY <1>4 DEF CleanAfter
  <2> HIDE DEF k
  <2>4. pins'[t] = pins[t] - Bit(t, {afters[k].after_this}) - Bit(t, {k})
    BY <1>1, <2>3 DEF Bit
  <2>5. Owed(t)' = Owed(t) - Bit(t, {k}) - Bit(t, {afters[k].after_this})
    BY <1>4, <2>1, <2>2, CountOfErasedFollower
  <2> QED
    BY <1>1, <2>1, <2>4, <2>5 DEF Spare, Bit
<1>5. \/ UNCHANGED <<waiting, afters, pins>>
      \/ CleanWaiter /\ k \in DOMAIN waiting
      \/ CleanAfter /\ k \in DOMAIN afters
  BY DEF CleanWaiter, CleanAfter
<1> HIDE DEF k
<1> QED
  BY <1>2, <1>3, <1>4, <1>5 DEF SpareKept

\* The steps of the host that release nothing.
Releases == DeferredReturned \/ DeferredDone \/ CleanWaiter \/ CleanAfter
LEMMA HostKeepsPins ==
  ASSUME Host, ~Releases
  PROVE  UNCHANGED <<waiting, afters, deferred, pins>>
<1>1. ASSUME NEW t,
             \/ RunScript(t)
             \/ SkipAfter(t) \/ ResumeAfter(t) \/ AfterNothing(t) \/ AfterReturned(t)
             \/ SkipWaiter(t) \/ ResumeWaiter(t) \/ WaiterReturned(t)
      PROVE  UNCHANGED <<waiting, afters, deferred, pins>>
  BY <1>1 DEF RunScript, SkipAfter, ResumeAfter, AfterNothing, AfterReturned, SkipWaiter,
              ResumeWaiter, WaiterReturned, VisitAfter, VisitWaiter, queues
<1>2. ASSUME ScriptReturned \/ ScriptsDone \/ Exit \/ RunStep \/ StepAgain \/ AftersDone
      PROVE  UNCHANGED <<waiting, afters, deferred, pins>>
  BY <1>2 DEF ScriptReturned, ScriptsDone, Exit, RunStep, StepAgain, BeginStep, AftersDone,
              Proceed, queues
<1>3. ASSUME NEW r, NEW c, \/ ResumeDeferred \/ NoSuchWaiter \/ WaitersDone
                           \/ RunCTask(r) \/ AddCTask(c) \/ CTasksDone
                           \/ CleanCTask \/ StepDone
      PROVE  UNCHANGED <<waiting, afters, deferred, pins>>
  BY <1>3 DEF ResumeDeferred, NoSuchWaiter, WaitersDone, RunCTask, AddCTask, CTasksDone,
              CleanCTask, Instruction, StepDone, Proceed, queues
<1> QED
  BY <1>1, <1>2, <1>3 DEF Host, Releases

LEMMA NextSpare ==
  ASSUME TypeInv, TypeInv', [Next]_vars, phase' # "undefined"
  PROVE  \A t \in Threads : Spare(t)' >= Spare(t)
<1>1. \A t \in Threads : Spare(t) \in Int
  BY SpareType
<1>2. ASSUME SpareKept
      PROVE  \A t \in Threads : Spare(t)' >= Spare(t)
  BY <1>1, <1>2 DEF SpareKept
<1>3. CASE Host
  <2>1. CASE Releases
    BY <1>2, <2>1, DeferredReturnedSpare, DeferredDoneSpare, CleaningSpare DEF Releases
  <2>2. CASE ~Releases
    BY <1>2, <1>3, <2>2, HostKeepsPins, SameSpare
  <2> QED
    BY <2>1, <2>2
<1>4. CASE Tick \/ UNCHANGED vars
  BY <1>2, <1>4, SameSpare DEF Tick, queues, vars
<1> QED
  BY <1>3, <1>4, ScriptSpare DEF Next, Stop

\* Nothing is executed once the behaviour is undefined.
LEMMA UndefinedStays ==
  ASSUME [Next]_vars, phase = "undefined"
  PROVE  phase' = "undefined"
<1>1. ~Script /\ ~Tick
  BY DEF Script, Executing, ScriptPhases, Tick
<1>2. ASSUME NEW t,
             \/ RunScript(t)
             \/ SkipAfter(t) \/ ResumeAfter(t) \/ AfterNothing(t) \/ AfterReturned(t)
             \/ SkipWaiter(t) \/ ResumeWaiter(t) \/ WaiterReturned(t)
      PROVE  FALSE
  BY <1>2 DEF RunScript, SkipAfter, ResumeAfter, AfterNothing, AfterReturned, SkipWaiter,
              ResumeWaiter, WaiterReturned, VisitAfter, VisitWaiter
<1>3. ASSUME ScriptReturned \/ ScriptsDone \/ Exit \/ RunStep \/ StepAgain \/ AftersDone
             \/ ResumeDeferred \/ DeferredReturned \/ DeferredDone \/ NoSuchWaiter \/ WaitersDone
      PROVE  FALSE
  BY <1>3 DEF ScriptReturned, ScriptsDone, Exit, RunStep, StepAgain, BeginStep, AftersDone,
              ResumeDeferred, DeferredReturned, DeferredDone, NoSuchWaiter, WaitersDone, Proceed
<1>4. ASSUME NEW r, RunCTask(r) \/ CTaskRunning \/ CTasksDone
                    \/ CleanWaiter \/ CleanAfter \/ CleanCTask \/ StepDone
      PROVE  FALSE
  BY <1>4 DEF RunCTask, CTaskRunning, CTasksDone, CleanWaiter, CleanAfter, CleanCTask,
              Instruction, StepDone, Proceed
<1>5. ~Host
  BY <1>2, <1>3, <1>4 DEF Host
<1> QED
  BY <1>1, <1>5 DEF Next, Stop, vars

\* What a script leaves alone.
LEMMA ScriptKeeps ==
  ASSUME Script
  PROVE  /\ phase \in ScriptPhases /\ running # <<>> /\ phase' \in {phase, "undefined"}
         /\ UNCHANGED <<cleaning, iter, now, clock>>
<1>1. ASSUME NEW s, NEW t, NEW n, NEW u,
             Wait(s) \/ Spawn(t, n) \/ Defer(t, n) \/ Delay(s, t, n) \/ DoAfter(u, t, n)
      PROVE  phase' \in {phase, "undefined"} /\ UNCHANGED <<cleaning, iter, now, clock>>
  BY <1>1 DEF Wait, WaitAgain, WaitFirst, Spawn, Defer, Delay, DoAfter, Call, Growing, queues
<1>2. ASSUME NEW t, NEW u, NEW c,
             \/ Cancel(t) \/ Await(u) \/ DoAfterNothing(u) \/ AddCTask(c)
             \/ Create(t) \/ Yield \/ WaitRefused
      PROVE  phase' \in {phase, "undefined"} /\ UNCHANGED <<cleaning, iter, now, clock>>
  BY <1>2 DEF Cancel, FromWaiting, FromDeferred, FromNone, Await, DoAfterNothing, AddCTask,
              Create, Yield, WaitRefused, Call, Growing, queues
<1>3. ASSUME NEW n, Finish(n) \/ Raise
      PROVE  phase' \in {phase, "undefined"} /\ UNCHANGED <<cleaning, iter, now, clock>>
  BY <1>3 DEF Finish, Raise, queues, times
<1> QED
  BY <1>1, <1>2, <1>3 DEF Script, Executing, WaitFor, WaitForRefused

\* The entries of the containers that hold references hold one each: what a deferred
\* task releases when it has run is its own.
HeldArePinned == phase # "undefined" => \A t \in Threads : pins[t] >= Owed(t)
LEMMA HeldArePinnedAlways == Spec => []HeldArePinned
<1>1. TypeInv => (HeldArePinned
                    <=> (phase # "undefined" => \A t \in Threads : Spare(t) >= 0))
  <2> SUFFICES ASSUME TypeInv
               PROVE  \A t \in Threads : pins[t] >= Owed(t) <=> Spare(t) >= 0
    BY DEF HeldArePinned
  <2> TAKE t \in Threads
  <2>1. pins[t] \in Int /\ Owed(t) \in Nat
    BY Names
  <2> QED
    BY <2>1 DEF Spare
<1>2. Init => HeldArePinned
  <2> SUFFICES ASSUME Init, NEW t \in Threads
               PROVE  pins[t] >= Owed(t)
    BY DEF HeldArePinned
  <2>1. DOMAIN waiting = {} /\ DOMAIN afters = {} /\ DOMAIN deferred = {} /\ pins[t] = 0
    BY DEF Init
  <2>2. /\ {t} \cap DOMAIN waiting = {} /\ {t} \cap DOMAIN afters = {}
        /\ {k \in DOMAIN afters : afters[k].after_this = t} = {}
        /\ {i \in DOMAIN deferred : WillRun(i, t)} = {}
    BY <2>1
  <2>3. Cardinality({}) = 0
    BY FS_EmptySet
  <2> QED
    BY <2>1, <2>2, <2>3 DEF Owed
<1>3. TypeInv /\ TypeInv' /\ HeldArePinned /\ [Next]_vars => HeldArePinned'
  <2> SUFFICES ASSUME TypeInv, TypeInv', HeldArePinned, [Next]_vars,
                      phase' # "undefined", NEW t \in Threads
               PROVE  pins'[t] >= Owed(t)'
    BY DEF HeldArePinned
  <2>1. phase # "undefined"
    BY UndefinedStays
  <2>2. Spare(t) >= 0 /\ Spare(t)' >= Spare(t) /\ Spare(t) \in Int
    BY <1>1, <2>1, NextSpare, SpareType
  <2>3. pins'[t] \in Int /\ Owed(t)' \in Nat
    BY OwedIs, CountType DEF TypeInv, TypeOK, QueuesTypeOK
  <2> QED
    BY <2>2, <2>3 DEF Spare
<1> QED
  BY <1>2, <1>3, InitType, NextType, PTL DEF Spec

\* While a failed step ends the program, an entry without its reference is one that the
\* loop over deferred_tasks has passed.
ReleasedArePassed ==
  phase \notin Stopped /\ ~Embedded => \A i \in DOMAIN deferred : deferred[i].held \/ ~ToVisit(i)

LEMMA ReleasedScript ==
  ASSUME TypeInv, TypeInv', ReleasedArePassed, Script \/ Tick, phase' \notin Stopped, ~Embedded
  PROVE  ReleasedArePassed'
<1> DEFINE m == Len(deferred)
<1>1. phase' = phase /\ iter' = iter
  BY ScriptKeeps DEF Tick, Stopped
<1>2. m \in Nat /\ DOMAIN deferred = 1 .. m /\ iter.at \in Int
      /\ deferred \in Seq([thread : Threads, argn : Nat, held : BOOLEAN])
  BY LenProperties, LoopType DEF TypeInv, TypeOK, QueuesTypeOK
<1>3. \A i \in DOMAIN deferred : deferred[i].held \/ ~ToVisit(i)
  BY <1>1 DEF ReleasedArePassed
<1>4. CASE deferred' = deferred
  BY <1>1, <1>3, <1>4 DEF ReleasedArePassed, ToVisit
<1>5. ASSUME NEW k \in Threads, NEW n \in Nat,
             deferred' = Append(deferred, [thread |-> k, argn |-> n, held |-> TRUE])
      PROVE  ReleasedArePassed'
  <2> DEFINE e == [thread |-> k, argn |-> n, held |-> TRUE]
  <2>1. /\ DOMAIN deferred' = 1 .. m + 1 /\ deferred'[m + 1] = e
        /\ \A i \in 1 .. m : deferred'[i] = deferred[i]
    BY <1>2, <1>5, AppendProperties, LenProperties
  <2>2. \A i \in 1 .. m + 1 : i \in 1 .. m \/ i = m + 1
    BY <1>2
  <2>3. deferred'[m + 1].held
    BY <2>1
  <2> HIDE DEF e
  <2>4. ASSUME NEW i \in 1 .. m + 1
        PROVE  deferred'[i].held \/ ~ToVisit(i)'
    <3>1. CASE i = m + 1
      BY <2>3, <3>1
    <3>2. CASE i \in 1 .. m
      BY <1>1, <1>2, <1>3, <2>1, <3>2 DEF ToVisit
    <3> QED
      BY <2>2, <3>1, <3>2
  <2> QED
    BY <2>1, <2>4 DEF ReleasedArePassed
<1>6. ASSUME NEW k \in DOMAIN deferred, deferred' = RemoveAt(deferred, k), phase # "deferred"
      PROVE  ReleasedArePassed'
  <2>1. /\ DOMAIN deferred' = 1 .. m - 1
        /\ \A j \in 1 .. m - 1 : deferred'[j] = IF j < k THEN deferred[j] ELSE deferred[j + 1]
    <3>1. k \in 1 .. Len(deferred)
      BY <1>2, <1>6
    <3>2. /\ DOMAIN RemoveAt(deferred, k) = 1 .. Len(deferred) - 1
          /\ \A j \in 1 .. Len(deferred) - 1 :
               RemoveAt(deferred, k)[j] = IF j < k THEN deferred[j] ELSE deferred[j + 1]
      BY <1>2, <3>1, RemoveAtElements
    <3> QED
      BY <1>6, <3>2
  <2>2. \A j \in 1 .. m - 1 : j \in 1 .. m /\ j + 1 \in 1 .. m
    BY <1>2
  <2>3. \A i \in DOMAIN deferred : deferred[i].held
    BY <1>3, <1>6 DEF ToVisit
  <2> QED
    BY <1>2, <2>1, <2>2, <2>3 DEF ReleasedArePassed
<1>7. ASSUME NEW k \in Coroutines, NEW n \in 0 .. MaxArgs, Defer(k, n)
      PROVE  ReleasedArePassed'
  <2>1. k \in Threads /\ n \in Nat
    BY Names, ScriptsAssumption
  <2> QED
    BY <1>5, <1>7, <2>1 DEF Defer
<1>8. ASSUME NEW k \in Created, Cancel(k)
      PROVE  ReleasedArePassed'
  BY <1>1, <1>4, <1>6, <1>8 DEF Cancel, FromWaiting, FromDeferred, FromNone, Stopped
<1>9. ASSUME NEW s, NEW k, NEW n, NEW u, NEW c,
             \/ Wait(s) \/ WaitRefused \/ Spawn(k, n) \/ Delay(s, k, n) \/ DoAfter(u, k, n)
             \/ DoAfterNothing(u) \/ Await(u) \/ AddCTask(c) \/ Create(k) \/ Yield
             \/ Finish(n) \/ Raise \/ Tick
      PROVE  ReleasedArePassed'
  BY <1>4, <1>9 DEF Wait, WaitRefused, Spawn, Delay, DoAfter, DoAfterNothing, Await, AddCTask,
                    Create, Yield, Finish, Raise, Tick, queues
<1> QED
  BY <1>7, <1>8, <1>9 DEF Script, WaitFor, WaitForRefused

LEMMA ReleasedHost ==
  ASSUME TypeInv, ReleasedArePassed, Host, phase' \notin Stopped, ~Embedded
  PROVE  ReleasedArePassed'
<1>1. /\ Len(deferred) \in Nat /\ DOMAIN deferred = 1 .. Len(deferred) /\ iter.at \in Int
      /\ deferred \in Seq([thread : Threads, argn : Nat, held : BOOLEAN])
  BY LenProperties, LoopType DEF TypeInv, TypeOK, QueuesTypeOK
<1>2. phase \notin Stopped => \A i \in DOMAIN deferred : deferred[i].held \/ ~ToVisit(i)
  BY DEF ReleasedArePassed
\* Within a loop over another container, and from one to the next.
<1>3. ASSUME deferred' = deferred, phase \notin Stopped \cup {"deferred"}, phase' # "deferred"
      PROVE  ReleasedArePassed'
  BY <1>2, <1>3 DEF ReleasedArePassed, ToVisit
<1>4. ASSUME NEW t,
             \/ RunScript(t)
             \/ SkipAfter(t) \/ ResumeAfter(t) \/ AfterNothing(t) \/ AfterReturned(t)
             \/ SkipWaiter(t) \/ ResumeWaiter(t) \/ WaiterReturned(t)
      PROVE  ReleasedArePassed'
  BY <1>3, <1>4 DEF RunScript, SkipAfter, ResumeAfter, AfterNothing, AfterReturned, SkipWaiter,
       ResumeWaiter, WaiterReturned, VisitAfter, VisitWaiter, HostResume, OnError, queues, Stopped
<1>5. CASE \/ ScriptReturned \/ ScriptsDone \/ Exit \/ RunStep \/ NoSuchWaiter \/ WaitersDone
           \/ CTasksDone \/ CleanWaiter \/ CleanAfter \/ CleanCTask \/ StepDone
  BY <1>3, <1>5 DEF ScriptReturned, ScriptsDone, Exit, RunStep, BeginStep, NoSuchWaiter,
       WaitersDone, CTasksDone, CleanWaiter, CleanAfter, CleanCTask, Instruction, StepDone,
       Proceed, OnError, queues, Stopped
<1>11. ASSUME NEW r, NEW c, CTaskRunning, RunCTask(r) \/ AddCTask(c)
       PROVE  ReleasedArePassed'
  BY <1>3, <1>11 DEF RunCTask, CTaskRunning, AddCTask, Growing, Stopped
<1>12. \A r : RunCTask(r) => CTaskRunning
  BY DEF RunCTask
<1>6. CASE AftersDone
  <2>1. deferred' = deferred /\ phase = "after"
    BY <1>6 DEF AftersDone, Proceed
  <2> QED
    BY <1>2, <2>1 DEF ReleasedArePassed, ToVisit, Stopped
<1>7. CASE ResumeDeferred
  <2>1. deferred' = deferred /\ phase = "deferred" /\ phase' = "deferred" /\ iter'.at = iter.at
    BY <1>7 DEF ResumeDeferred, HostResume, queues, Stopped, TypeInv, TypeOK, LoopTypeOK, Loops
  <2> QED
    BY <1>2, <2>1 DEF ReleasedArePassed, ToVisit, Stopped
<1>8. CASE DeferredReturned
  <2>1. /\ phase = "deferred" /\ phase' = "deferred" /\ iter'.at = iter.at - 1
        /\ deferred' = [deferred EXCEPT ![iter.at].held = FALSE]
    BY <1>8, LoopType DEF DeferredReturned, CountingDown, Back, OnError, Stopped
  <2>2. /\ DOMAIN deferred' = DOMAIN deferred
        /\ \A i \in DOMAIN deferred \ {iter.at} : deferred'[i] = deferred[i]
    BY <1>1, <2>1
  <2>3. \A i \in DOMAIN deferred : i \in Int /\ (i <= iter.at - 1 => i <= iter.at /\ i # iter.at)
    BY <1>1
  <2> QED
    BY <1>2, <2>1, <2>2, <2>3 DEF ReleasedArePassed, ToVisit, Stopped
<1>9. CASE DeferredDone
  BY <1>9 DEF DeferredDone, ReleasedArePassed
<1>10. ~StepAgain
  BY DEF StepAgain
<1> QED
  BY <1>4, <1>5, <1>6, <1>7, <1>8, <1>9, <1>10, <1>11, <1>12 DEF Host

LEMMA ReleasedArePassedAlways == Spec => []ReleasedArePassed
<1>1. Init => ReleasedArePassed
  BY DEF Init, ReleasedArePassed
<1>2. TypeInv /\ TypeInv' /\ ReleasedArePassed /\ [Next]_vars => ReleasedArePassed'
  <2> SUFFICES ASSUME TypeInv, TypeInv', ReleasedArePassed, [Next]_vars,
                      phase' \notin Stopped, ~Embedded
               PROVE  ReleasedArePassed'
    BY DEF ReleasedArePassed
  <2>1. CASE Script \/ Tick
    BY <2>1, ReleasedScript
  <2>2. CASE Host
    BY <2>2, ReleasedHost
  <2>3. CASE UNCHANGED vars
    BY <2>3 DEF ReleasedArePassed, ToVisit, vars, queues
  <2> QED
    BY <2>1, <2>2, <2>3 DEF Next, Stop
<1> QED
  BY <1>1, <1>2, InitType, NextType, PTL DEF Spec

\* Whatever scripts do, and however many there are, until a container is changed under
\* its own loop: a thread has a reference in the registry for each pointer to it that
\* task_step can still follow, save, for a host that steps again after a failed step,
\* those to deferred tasks which that step has resumed.
THEOREM QueuedThreadsArePinnedCorrect == Spec => []QueuedThreadsArePinned
<1>1. TypeInv /\ HeldArePinned /\ ReleasedArePassed => QueuedThreadsArePinned
  <2> SUFFICES ASSUME TypeInv, HeldArePinned, ReleasedArePassed, phase \notin Stopped,
                      NEW t \in Threads
               PROVE  pins[t] + LeftByFailedStep(t) >= Pointers(t)
    BY DEF QueuedThreadsArePinned
  <2> DEFINE Running == {i \in DOMAIN deferred : WillRun(i, t)}
             Left == {i \in DOMAIN deferred :
                        deferred[i].thread = t /\ ToVisit(i) /\ ~deferred[i].held}
             All == {i \in DOMAIN deferred : deferred[i].thread = t /\ ToVisit(i)}
             Others == Cardinality({t} \cap DOMAIN waiting) + Cardinality({t} \cap DOMAIN afters)
                       + Cardinality({k \in DOMAIN afters : afters[k].after_this = t})
  <2>1. IsFiniteSet(DOMAIN deferred)
    <3>1. Len(deferred) \in Nat /\ DOMAIN deferred = 1 .. Len(deferred)
      BY LenProperties DEF TypeInv, TypeOK, QueuesTypeOK
    <3> QED
      BY <3>1, FS_Interval
  <2>2. IsFiniteSet(Running) /\ IsFiniteSet(Left) /\ IsFiniteSet(All)
    BY <2>1, FS_Subset
  <2>3. Cardinality(Running) \in Nat /\ Cardinality(Left) \in Nat /\ Cardinality(All) \in Nat
    BY <2>2, FS_CardinalityType
  <2>4. Cardinality(All) <= Cardinality(Running) + Cardinality(Left)
    <3>1. All \subseteq Running \cup Left
      BY DEF WillRun
    <3>2. IsFiniteSet(Running \cup Left)
      BY <2>2, FS_Union
    <3>3. Cardinality(Running \cup Left)
            = Cardinality(Running) + Cardinality(Left) - Cardinality(Running \cap Left)
      BY <2>2, FS_Union
    <3>4. Cardinality(Running \cap Left) = 0
      <4>1. Running \cap Left = {}
        BY DEF WillRun
      <4> QED
        BY <4>1, FS_EmptySet
    <3>5. Cardinality(All) <= Cardinality(Running \cup Left)
      BY <3>1, <3>2, FS_Subset
    <3> HIDE DEF Running, Left, All
    <3> QED
      BY <2>3, <3>3, <3>4, <3>5
  <2>5. ~Embedded => Left = {}
    BY DEF ReleasedArePassed
  <2>6. pins[t] >= Owed(t) /\ pins[t] \in Int /\ Owed(t) \in Nat
    BY Names DEF HeldArePinned, Stopped
  <2>7. Owed(t) = Others + Cardinality(Running) /\ Pointers(t) = Others + Cardinality(All)
    BY DEF Owed, Pointers
  <2>8. Others \in Nat
    <3>1. /\ IsFiniteSet(DOMAIN waiting) /\ IsFiniteSet(DOMAIN afters) /\ IsFiniteSet({t})
      <4>1. IsFiniteSet(Threads)
        BY ThreadsAssumption, FS_Interval DEF Threads
      <4> QED
        BY <4>1, FS_Subset, FS_Singleton DEF TypeInv, TypeOK, QueuesTypeOK, IsMap
    <3>2. /\ IsFiniteSet({t} \cap DOMAIN waiting) /\ IsFiniteSet({t} \cap DOMAIN afters)
          /\ IsFiniteSet({k \in DOMAIN afters : afters[k].after_this = t})
      BY <3>1, FS_Subset
    <3> QED
      BY <3>2, FS_CardinalityType
  <2>9. LeftByFailedStep(t) = IF Embedded THEN Cardinality(Left) ELSE 0
    BY DEF LeftByFailedStep
  <2>10. ~Embedded => Cardinality(Left) = 0
    BY <2>5, FS_EmptySet
  <2> HIDE DEF Held, Left, All, Others
  <2> QED
    BY <2>3, <2>4, <2>6, <2>7, <2>8, <2>9, <2>10
<1> QED
  BY <1>1, HeldArePinnedAlways, ReleasedArePassedAlways, InitType, NextType, PTL DEF Spec

-----------------------------------------------------------------------------
(* C tasks. *)

\* The requests to remove c, the registrations of c, and those of them that the loop
\* over the C tasks has passed.
Ask(c) == [id |-> c, type |-> "ctask"]
Asked(c) == Cardinality(Positions(cleaning, {Ask(c)}))
Registered(c) == Cardinality(Positions(ctasks, {c}))
Visited(c) == {i \in DOMAIN ctasks : ctasks[i] = c /\ i < iter.at}
Passed(c) == Cardinality(Visited(c))

\* Before the loop over the C tasks nobody asks to remove one; each run of it asks once
\* for what it has called; and the requests are the last of the instructions.
BeforeCTasks == {"scripts", "ready", "exit", "after", "deferred", "waiting"}
NobodyAsks == \A i \in DOMAIN cleaning : cleaning[i].type # "ctask"
AsksComeLast ==
  \A i, j \in DOMAIN cleaning :
    i <= j /\ cleaning[i].type = "ctask" => cleaning[j].type = "ctask"
AskedWasPassed == \A c \in CTasks : Asked(c) <= Passed(c)
CTaskInv ==
  phase # "undefined" =>
    /\ phase \in BeforeCTasks => NobodyAsks
    /\ phase = "ctasks" => AskedWasPassed
    /\ AsksComeLast
    /\ CTasksMatch

LEMMA CTaskTypes ==
  ASSUME TypeInv
  PROVE  /\ cleaning \in Seq(Instructions) /\ Len(cleaning) \in Nat
         /\ DOMAIN cleaning = 1 .. Len(cleaning)
         /\ ctasks \in Seq(CTasks) /\ Len(ctasks) \in Nat
         /\ DOMAIN ctasks = 1 .. Len(ctasks)
         /\ iter.at \in Int /\ iter.stop \in Int
BY LenProperties, LoopType DEF TypeInv, TypeOK, QueuesTypeOK

LEMMA NobodyAskedMatches == TypeInv /\ NobodyAsks => AsksComeLast /\ CTasksMatch
<1> SUFFICES ASSUME TypeInv, NobodyAsks
             PROVE  AsksComeLast /\ CTasksMatch
  OBVIOUS
<1>1. AsksComeLast
  BY DEF NobodyAsks, AsksComeLast
<1>2. ASSUME NEW c \in CTasks
      PROVE  Cardinality(Pending(c, "ctask")) <= Cardinality({i \in DOMAIN ctasks : ctasks[i] = c})
  <2>1. Pending(c, "ctask") = {} /\ Cardinality({}) = 0
    BY FS_EmptySet DEF Pending, NobodyAsks
  <2>2. {i \in DOMAIN ctasks : ctasks[i] = c} = Positions(ctasks, {c})
    BY DEF Positions
  <2>3. Cardinality(Positions(ctasks, {c})) \in Nat
    BY CTaskTypes, PositionsType
  <2> QED
    BY <2>1, <2>2, <2>3
<1> QED
  BY <1>1, <1>2 DEF CTasksMatch

LEMMA NobodyAskedMatchesNext == (TypeInv /\ NobodyAsks => AsksComeLast /\ CTasksMatch)'
BY NobodyAskedMatches, PTL

\* The phases before the loop over the C tasks.
LEMMA BeforeCTasksStep ==
  ASSUME TypeInv, [Next]_vars, phase \in BeforeCTasks, NobodyAsks, phase' # "undefined"
  PROVE  NobodyAsks' /\ phase' \in BeforeCTasks \cup {"ctasks", "failed"}
<1> DEFINE Asking == /\ \/ UNCHANGED cleaning
                        \/ \E t, y : y # "ctask" /\ cleaning' = Append(cleaning, [id |-> t, type |-> y])
                     /\ phase' \in BeforeCTasks \cup {"ctasks", "failed"}
<1>2. ASSUME NEW t,
             \/ RunScript(t)
             \/ SkipAfter(t) \/ ResumeAfter(t) \/ AfterNothing(t)
             \/ SkipWaiter(t) \/ ResumeWaiter(t)
      PROVE  Asking
  BY <1>2 DEF RunScript, SkipAfter, ResumeAfter, AfterNothing, HostResume, SkipWaiter,
              ResumeWaiter, VisitAfter, VisitWaiter, queues
<1>3. ASSUME NEW t, AfterReturned(t)
      PROVE  Asking
  <2>1. "after" # "ctask" /\ "waiter" # "ctask"
    OBVIOUS
  <2>2. UNCHANGED cleaning \/ cleaning' = Append(cleaning, [id |-> t, type |-> "after"])
    BY <1>3 DEF AfterReturned
  <2>3. phase' \in {"after", "failed", "undefined"}
    BY <1>3 DEF AfterReturned, OnError
  <2> QED
    BY <2>1, <2>2, <2>3 DEF BeforeCTasks
<1>4. ASSUME NEW t, WaiterReturned(t)
      PROVE  Asking
  <2>1. "waiter" # "ctask"
    OBVIOUS
  <2>2. UNCHANGED cleaning \/ cleaning' = Append(cleaning, [id |-> t, type |-> "waiter"])
    BY <1>4 DEF WaiterReturned
  <2>3. phase' \in {"waiting", "failed", "undefined"}
    BY <1>4 DEF WaiterReturned, OnError
  <2> QED
    BY <2>1, <2>2, <2>3 DEF BeforeCTasks
<1>5. ASSUME ScriptReturned \/ ScriptsDone \/ Exit \/ RunStep \/ AftersDone
             \/ ResumeDeferred \/ DeferredReturned \/ DeferredDone \/ NoSuchWaiter \/ WaitersDone
      PROVE  Asking
  BY <1>5 DEF ScriptReturned, ScriptsDone, Exit, RunStep, BeginStep, AftersDone, OnError,
              ResumeDeferred, HostResume, DeferredReturned, DeferredDone, NoSuchWaiter,
              WaitersDone, Proceed, queues, BeforeCTasks
<1>6. ASSUME NEW r, RunCTask(r) \/ CTaskRunning \/ CTasksDone \/ StepAgain
                    \/ CleanWaiter \/ CleanAfter \/ CleanCTask \/ StepDone
      PROVE  FALSE
  BY <1>6 DEF RunCTask, CTaskRunning, CTasksDone, StepAgain, CleanWaiter, CleanAfter,
              CleanCTask, Instruction, StepDone, Proceed, BeforeCTasks
<1>7. Asking
  <2>1. CASE Host
    BY <2>1, <1>2, <1>3, <1>4, <1>5, <1>6 DEF Host
  <2>2. CASE UNCHANGED <<cleaning, phase>> \/ Script
    BY <2>2, ScriptKeeps DEF BeforeCTasks
  <2> QED
    BY <2>1, <2>2 DEF Next, Stop, Tick, vars, queues
<1>8. NobodyAsks'
  <2>1. CASE UNCHANGED cleaning
    BY <2>1 DEF NobodyAsks
  <2>2. ASSUME NEW t, NEW y, y # "ctask", cleaning' = Append(cleaning, [id |-> t, type |-> y])
        PROVE  NobodyAsks'
    <3> DEFINE e == [id |-> t, type |-> y]
    <3>1. e.type # "ctask" /\ cleaning' = Append(cleaning, e)
      BY <2>2
    <3> HIDE DEF e
    <3>2. DOMAIN cleaning' = 1 .. Len(cleaning) + 1 /\ Len(cleaning) \in Nat
          /\ \A i \in 1 .. Len(cleaning) + 1 :
               cleaning'[i] = IF i = Len(cleaning) + 1 THEN e ELSE cleaning[i]
      BY <3>1, CTaskTypes
    <3> QED
      BY <3>1, <3>2, CTaskTypes DEF NobodyAsks
  <2> QED
    BY <1>7, <2>1, <2>2
<1> QED
  BY <1>7, <1>8

LEMMA CTaskCounts ==
  TypeInv => \A c \in CTasks :
    /\ IsFiniteSet(Visited(c)) /\ IsFiniteSet(Positions(ctasks, {c}))
    /\ Asked(c) \in Nat /\ Registered(c) \in Nat /\ Passed(c) \in Nat
    /\ Passed(c) <= Registered(c)
    /\ phase # "clean" => Pending(c, "ctask") = Positions(cleaning, {Ask(c)})
    /\ {i \in DOMAIN ctasks : ctasks[i] = c} = Positions(ctasks, {c})
<1> SUFFICES ASSUME TypeInv, NEW c \in CTasks
             PROVE  /\ IsFiniteSet(Visited(c)) /\ IsFiniteSet(Positions(ctasks, {c}))
                    /\ Asked(c) \in Nat /\ Registered(c) \in Nat /\ Passed(c) \in Nat
                    /\ Passed(c) <= Registered(c)
                    /\ phase # "clean" => Pending(c, "ctask") = Positions(cleaning, {Ask(c)})
                    /\ {i \in DOMAIN ctasks : ctasks[i] = c} = Positions(ctasks, {c})
  OBVIOUS
<1>1. Asked(c) \in Nat /\ Registered(c) \in Nat /\ IsFiniteSet(Positions(ctasks, {c}))
  BY CTaskTypes, PositionsType DEF Asked, Registered
<1>2. Visited(c) \subseteq Positions(ctasks, {c})
  BY DEF Positions, Visited
<1>3. IsFiniteSet(Visited(c)) /\ Passed(c) <= Registered(c)
  BY <1>1, <1>2, FS_Subset DEF Passed, Registered
<1>4. Passed(c) \in Nat
  BY <1>3, FS_CardinalityType DEF Passed
<1>5. phase # "clean" => Pending(c, "ctask") = Positions(cleaning, {Ask(c)})
  BY DEF Pending, Positions, Ask
<1>6. {i \in DOMAIN ctasks : ctasks[i] = c} = Positions(ctasks, {c})
  BY DEF Positions
<1> QED
  BY <1>1, <1>3, <1>4, <1>5, <1>6

LEMMA CTaskCountsNext ==
  (TypeInv => \A c \in CTasks :
    /\ IsFiniteSet(Visited(c)) /\ IsFiniteSet(Positions(ctasks, {c}))
    /\ Asked(c) \in Nat /\ Registered(c) \in Nat /\ Passed(c) \in Nat
    /\ Passed(c) <= Registered(c)
    /\ phase # "clean" => Pending(c, "ctask") = Positions(cleaning, {Ask(c)})
    /\ {i \in DOMAIN ctasks : ctasks[i] = c} = Positions(ctasks, {c}))'
BY CTaskCounts, PTL

\* What has been asked for is there.
LEMMA PassedMatches ==
  TypeInv /\ AskedWasPassed /\ phase # "clean" => CTasksMatch
<1> SUFFICES ASSUME TypeInv, AskedWasPassed, phase # "clean", NEW c \in CTasks
             PROVE  Cardinality(Pending(c, "ctask"))
                      <= Cardinality({i \in DOMAIN ctasks : ctasks[i] = c})
  BY DEF CTasksMatch
<1>1. /\ Asked(c) \in Nat /\ Registered(c) \in Nat /\ Passed(c) \in Nat
      /\ Asked(c) <= Passed(c) /\ Passed(c) <= Registered(c)
  BY CTaskCounts DEF AskedWasPassed
<1>2. Cardinality(Pending(c, "ctask")) = Asked(c)
  BY CTaskCounts DEF Asked
<1>3. Cardinality({i \in DOMAIN ctasks : ctasks[i] = c}) = Registered(c)
  BY CTaskCounts DEF Registered
<1> QED
  BY <1>1, <1>2, <1>3

LEMMA PassedMatchesNext == (TypeInv /\ AskedWasPassed /\ phase # "clean" => CTasksMatch)'
BY PassedMatches, PTL

\* The loop over the C tasks: a C task is called, ...
LEMMA RunCTaskStep ==
  ASSUME TypeInv, TypeInv', CTaskInv, NEW r, RunCTask(r)
  PROVE  CTaskInv'
<1> DEFINE d == ctasks[iter.at]
<1>1. phase = "ctasks" /\ AskedWasPassed /\ AsksComeLast
  BY DEF RunCTask, CTaskRunning, CTaskInv
<1>2. /\ iter.at \in DOMAIN ctasks /\ d \in CTasks
      /\ UNCHANGED ctasks /\ iter'.at = iter.at + 1 /\ phase' \in {"ctasks", "failed"}
  <2>1. iter.at \in DOMAIN ctasks
    BY CTaskTypes DEF RunCTask, CTaskRunning, TypeInv, LoopsInBounds
  <2>2. d \in CTasks
    BY <2>1, CTaskTypes, ElementOfSeq
  <2> QED
    BY <1>1, <2>1, <2>2, LoopType DEF RunCTask
<1>3. UNCHANGED cleaning \/ cleaning' = Append(cleaning, Ask(d))
  BY DEF RunCTask, Ask
<1> HIDE DEF d
<1>4. ASSUME NEW c \in CTasks
      PROVE  Passed(c)' = Passed(c) + Bit(d, {c})
  <2>1. /\ Visited(c)' = IF c = d THEN Visited(c) \cup {iter.at} ELSE Visited(c)
        /\ iter.at \notin Visited(c)
    BY <1>2, CTaskTypes DEF Visited, d
  <2>2. Cardinality(Visited(c) \cup {iter.at}) = Cardinality(Visited(c)) + 1
    BY <2>1, CTaskCounts, FS_AddElement
  <2>3. Passed(c) \in Nat
    BY CTaskCounts
  <2> QED
    BY <2>1, <2>2, <2>3 DEF Passed, Bit
<1>5. ASSUME NEW c \in CTasks
      PROVE  Asked(c)' <= Asked(c) + Bit(d, {c}) /\ Asked(c)' \in Nat
  <2>1. Asked(c) \in Nat
    BY CTaskCounts
  <2>2. CASE UNCHANGED cleaning
    BY <2>1, <2>2 DEF Asked, Bit
  <2>3. CASE cleaning' = Append(cleaning, Ask(d))
    <3>1. Ask(d) \in Instructions
      BY <1>2 DEF Ask, Instructions
    <3>2. Asked(c)' = Asked(c) + Bit(Ask(d), {Ask(c)})
      BY <2>3, <3>1, CTaskTypes, PositionsOfAppend DEF Asked
    <3>3. Bit(Ask(d), {Ask(c)}) = Bit(d, {c})
      BY DEF Bit, Ask
    <3> QED
      BY <2>1, <3>2, <3>3 DEF Bit
  <2> QED
    BY <1>3, <2>2, <2>3
<1>6. AskedWasPassed'
  <2> SUFFICES ASSUME NEW c \in CTasks
               PROVE  Asked(c)' <= Passed(c)'
    BY DEF AskedWasPassed
  <2>1. Asked(c) <= Passed(c) /\ Asked(c) \in Nat /\ Passed(c) \in Nat
    BY <1>1, CTaskCounts DEF AskedWasPassed
  <2>2. Bit(d, {c}) \in Nat
    BY DEF Bit
  <2> QED
    BY <1>4, <1>5, <2>1, <2>2
<1>7. AsksComeLast'
  <2>1. CASE UNCHANGED cleaning
    BY <1>1, <2>1 DEF AsksComeLast
  <2>2. CASE cleaning' = Append(cleaning, Ask(d))
    <3>1. DOMAIN cleaning' = 1 .. Len(cleaning) + 1
          /\ \A i \in 1 .. Len(cleaning) + 1 :
               cleaning'[i] = IF i = Len(cleaning) + 1 THEN Ask(d) ELSE cleaning[i]
      BY <2>2, CTaskTypes
    <3>2. Ask(d).type = "ctask"
      BY DEF Ask
    <3> QED
      BY <1>1, <3>1, <3>2, CTaskTypes DEF AsksComeLast
  <2> QED
    BY <1>3, <2>1, <2>2
<1>8. CTasksMatch'
  BY <1>2, <1>6, PassedMatchesNext
<1> QED
  BY <1>2, <1>6, <1>7, <1>8 DEF CTaskInv, BeforeCTasks

\* ... registers another one, ...
LEMMA AddCTaskStep ==
  ASSUME TypeInv, TypeInv', CTaskInv, phase = "ctasks", NEW d \in CTasks, AddCTask(d)
  PROVE  CTaskInv'
<1>1. /\ ctasks' = Append(ctasks, d) /\ UNCHANGED <<cleaning, iter>>
      /\ phase' \in {"ctasks", "undefined"} /\ AskedWasPassed /\ AsksComeLast
  BY DEF AddCTask, Call, Growing, CTaskInv
<1>2. /\ DOMAIN ctasks' = 1 .. Len(ctasks) + 1
      /\ \A i \in 1 .. Len(ctasks) + 1 :
           ctasks'[i] = IF i = Len(ctasks) + 1 THEN d ELSE ctasks[i]
  BY <1>1, CTaskTypes
<1>3. AskedWasPassed'
  <2> SUFFICES ASSUME NEW c \in CTasks
               PROVE  Asked(c)' <= Passed(c)'
    BY DEF AskedWasPassed
  <2>1. Visited(c) \in SUBSET Visited(c)'
    BY <1>1, <1>2, CTaskTypes DEF Visited
  <2>2. IsFiniteSet(Visited(c)') /\ Passed(c)' \in Nat
    BY CTaskCountsNext
  <2>3. Passed(c) <= Passed(c)'
    BY <2>1, <2>2, FS_Subset DEF Passed
  <2>4. Asked(c) <= Passed(c) /\ Asked(c) \in Nat /\ Passed(c) \in Nat
    BY <1>1, CTaskCounts DEF AskedWasPassed
  <2>5. Asked(c)' = Asked(c)
    BY <1>1 DEF Asked
  <2> QED
    BY <2>2, <2>3, <2>4, <2>5
<1>4. AsksComeLast'
  BY <1>1 DEF AsksComeLast
<1>5. phase' # "clean" => CTasksMatch'
  BY <1>3, PassedMatchesNext
<1> QED
  BY <1>1, <1>3, <1>4, <1>5 DEF CTaskInv, BeforeCTasks

\* ... and the loop ends.
LEMMA CTasksDoneStep ==
  ASSUME TypeInv, TypeInv', CTaskInv, CTasksDone
  PROVE  CTaskInv'
<1>1. /\ phase = "ctasks" /\ phase' = "clean" /\ iter'.at = 1 /\ UNCHANGED <<cleaning, ctasks>>
      /\ AskedWasPassed /\ AsksComeLast
  BY DEF CTasksDone, Proceed, Loop, CTaskInv
<1>2. CTasksMatch
  BY <1>1, PassedMatches
<1>3. AsksComeLast'
  BY <1>1 DEF AsksComeLast
<1>4. CTasksMatch'
  <2>1. ASSUME NEW c \in CTasks
        PROVE  Pending(c, "ctask")' = Pending(c, "ctask")
    BY <1>1, CTaskTypes DEF Pending
  <2> QED
    BY <1>1, <1>2, <2>1 DEF CTasksMatch
<1> QED
  BY <1>1, <1>3, <1>4 DEF CTaskInv, BeforeCTasks

\* The cleaning buffer: an instruction about a thread leaves the requests as they are, ...
LEMMA CleanThreadStep ==
  ASSUME TypeInv, TypeInv', CTaskInv, CleanWaiter \/ CleanAfter
  PROVE  CTaskInv'
<1>1. /\ phase = "clean" /\ iter.at <= iter.stop /\ cleaning[iter.at].type # "ctask"
      /\ iter'.at = iter.at + 1 /\ UNCHANGED <<cleaning, ctasks>>
      /\ phase' \in {"clean", "aborted"} /\ AsksComeLast /\ CTasksMatch
  BY LoopType DEF CleanWaiter, CleanAfter, Instruction, CTaskInv
<1>2. iter.at \in DOMAIN cleaning
  BY <1>1, CTaskTypes DEF TypeInv, LoopsInBounds
<1>3. ASSUME NEW c \in CTasks
      PROVE  Pending(c, "ctask")' = Pending(c, "ctask")
  <2>1. ASSUME NEW i \in DOMAIN cleaning, cleaning[i] = Ask(c)
        PROVE  i >= iter.at + 1
    <3>1. cleaning[i].type = "ctask" /\ cleaning[iter.at].type # "ctask"
      BY <1>1, <2>1 DEF Ask
    <3>2. ~(i <= iter.at)
      BY <1>1, <1>2, <3>1 DEF AsksComeLast
    <3> QED
      BY <3>2, CTaskTypes
  <2> QED
    BY <1>1, <2>1, CTaskTypes DEF Pending, Ask
<1>4. CTasksMatch'
  BY <1>1, <1>3 DEF CTasksMatch
<1>5. AsksComeLast'
  BY <1>1 DEF AsksComeLast
<1> QED
  BY <1>1, <1>4, <1>5 DEF CTaskInv, BeforeCTasks

\* ... and a request finds what it asks for.
LEMMA CleanCTaskStep ==
  ASSUME TypeInv, TypeInv', CTaskInv, CleanCTask
  PROVE  CTaskInv' /\ phase' = "clean"
<1> DEFINE d == cleaning[iter.at].id
<1>1. /\ phase = "clean" /\ iter.at <= iter.stop /\ cleaning[iter.at].type = "ctask"
      /\ iter'.at = iter.at + 1 /\ UNCHANGED cleaning /\ AsksComeLast /\ CTasksMatch
  BY LoopType DEF CleanCTask, Instruction, CTaskInv
<1>2. iter.at \in DOMAIN cleaning
  BY <1>1, CTaskTypes DEF TypeInv, LoopsInBounds
<1>3. d \in CTasks /\ cleaning[iter.at] = Ask(d)
  <2>1. cleaning[iter.at] \in Instructions
    BY <1>2, CTaskTypes, ElementOfSeq
  <2> QED
    BY <1>1, <2>1 DEF Instructions, Ask
<1> HIDE DEF d
<1>4. ASSUME NEW c \in CTasks
      PROVE  /\ IsFiniteSet(Pending(c, "ctask")) /\ Cardinality(Pending(c, "ctask")) \in Nat
             /\ Cardinality(Pending(c, "ctask")) <= Registered(c) /\ Registered(c) \in Nat
  <2>1. Pending(c, "ctask") \subseteq 1 .. Len(cleaning) /\ IsFiniteSet(1 .. Len(cleaning))
    BY CTaskTypes, FS_Interval DEF Pending
  <2>2. IsFiniteSet(Pending(c, "ctask")) /\ Cardinality(Pending(c, "ctask")) \in Nat
    BY <2>1, FS_Subset, FS_CardinalityType
  <2>3. Registered(c) \in Nat
    BY CTaskCounts
  <2>4. Cardinality(Pending(c, "ctask")) <= Registered(c)
    BY <1>1, CTaskCounts DEF CTasksMatch, Registered
  <2> QED
    BY <2>2, <2>3, <2>4
<1>5. iter.at \in Pending(d, "ctask")
  BY <1>1, <1>2, <1>3, CTaskTypes DEF Pending, Ask
<1>6. \E i \in DOMAIN ctasks : ctasks[i] = d
  <2> SUFFICES ASSUME \A i \in DOMAIN ctasks : ctasks[i] # d
               PROVE  FALSE
    OBVIOUS
  <2>1. Positions(ctasks, {d}) = {} /\ Registered(d) = 0
    BY FS_EmptySet DEF Positions, Registered
  <2>2. Cardinality(Pending(d, "ctask")) = 0
    BY <1>3, <1>4, <2>1
  <2> QED
    BY <1>3, <1>4, <1>5, <2>2, FS_EmptySet
<1>7. PICK i \in DOMAIN ctasks : ctasks[i] = d /\ ctasks' = RemoveAt(ctasks, i) /\ phase' = phase
  BY <1>6 DEF CleanCTask, d
<1>8. ASSUME NEW c \in CTasks
      PROVE  Registered(c)' = Registered(c) - Bit(d, {c})
  <2>1. i \in 1 .. Len(ctasks)
    BY <1>7, CTaskTypes
  <2> QED
    BY <1>7, <2>1, CTaskTypes, PositionsOfRemoveAt DEF Registered
<1>9. ASSUME NEW c \in CTasks
      PROVE  Cardinality(Pending(c, "ctask")') = Cardinality(Pending(c, "ctask")) - Bit(d, {c})
  <2>1. Pending(c, "ctask")' = Pending(c, "ctask") \ {iter.at}
    BY <1>1, <1>7, CTaskTypes DEF Pending
  <2>2. Cardinality(Pending(c, "ctask") \ {iter.at})
          = IF iter.at \in Pending(c, "ctask") THEN Cardinality(Pending(c, "ctask")) - 1
                                               ELSE Cardinality(Pending(c, "ctask"))
    BY <1>4, FS_RemoveElement
  <2>3. iter.at \in Pending(c, "ctask") <=> c = d
    BY <1>3, <1>5 DEF Pending, Ask
  <2>4. Cardinality(Pending(c, "ctask")) \in Nat
    BY <1>4
  <2>5. Cardinality(Pending(c, "ctask")') = Cardinality(Pending(c, "ctask") \ {iter.at})
    BY <2>1
  <2> QED
    BY <2>2, <2>3, <2>4, <2>5 DEF Bit
<1>10. CTasksMatch'
  <2> SUFFICES ASSUME NEW c \in CTasks
               PROVE  Cardinality(Pending(c, "ctask")') <= Registered(c)'
    BY CTaskCountsNext DEF CTasksMatch, Registered
  <2>1. Bit(d, {c}) \in Nat
    BY DEF Bit
  <2> QED
    BY <1>4, <1>8, <1>9, <2>1
<1>11. AsksComeLast'
  BY <1>1 DEF AsksComeLast
<1> QED
  BY <1>1, <1>7, <1>10, <1>11 DEF CTaskInv, BeforeCTasks

\* Without an embedder nothing runs after a failure.
LEMMA StoppedStays ==
  ASSUME [Next]_vars, phase \in Stopped, phase = "failed" => ~Embedded
  PROVE  UNCHANGED vars
<1>1. ~Script /\ ~Tick
  BY DEF Script, Executing, ScriptPhases, Tick, Stopped
<1>2. ASSUME NEW t,
             \/ RunScript(t)
             \/ SkipAfter(t) \/ ResumeAfter(t) \/ AfterNothing(t) \/ AfterReturned(t)
             \/ SkipWaiter(t) \/ ResumeWaiter(t) \/ WaiterReturned(t)
      PROVE  FALSE
  BY <1>2 DEF RunScript, SkipAfter, ResumeAfter, AfterNothing, AfterReturned, SkipWaiter,
              ResumeWaiter, WaiterReturned, VisitAfter, VisitWaiter, Stopped
<1>3. ASSUME ScriptReturned \/ ScriptsDone \/ Exit \/ RunStep \/ StepAgain \/ AftersDone
             \/ ResumeDeferred \/ DeferredReturned \/ DeferredDone \/ NoSuchWaiter \/ WaitersDone
      PROVE  FALSE
  BY <1>3 DEF ScriptReturned, ScriptsDone, Exit, RunStep, StepAgain, BeginStep, AftersDone,
              ResumeDeferred, DeferredReturned, DeferredDone, NoSuchWaiter, WaitersDone,
              Proceed, Stopped
<1>4. ASSUME NEW r, RunCTask(r) \/ CTaskRunning \/ CTasksDone
                    \/ CleanWaiter \/ CleanAfter \/ CleanCTask \/ StepDone
      PROVE  FALSE
  BY <1>4 DEF RunCTask, CTaskRunning, CTasksDone, CleanWaiter, CleanAfter, CleanCTask,
              Instruction, StepDone, Proceed, Stopped
<1>5. ~Host
  BY <1>2, <1>3, <1>4 DEF Host
<1> QED
  BY <1>1, <1>5 DEF Next, Stop

\* Which steps there are in the phases of the C tasks and of the cleaning buffer.
LEMMA LatePhases ==
  ASSUME Next, phase \in {"ctasks", "clean"}
  PROVE  \/ CTasksDone \/ CleanWaiter \/ CleanAfter \/ CleanCTask \/ StepDone
         \/ \E r \in {"continue", "done", "error"} : RunCTask(r)
         \/ phase = "ctasks" /\ \E c \in CTasks : AddCTask(c)
<1>1. ~Script /\ ~Tick /\ ~Stop
  BY DEF Script, Executing, ScriptPhases, Tick, Stop, Stopped
<1>2. ASSUME NEW t,
             \/ RunScript(t)
             \/ SkipAfter(t) \/ ResumeAfter(t) \/ AfterNothing(t) \/ AfterReturned(t)
             \/ SkipWaiter(t) \/ ResumeWaiter(t) \/ WaiterReturned(t)
      PROVE  FALSE
  BY <1>2 DEF RunScript, SkipAfter, ResumeAfter, AfterNothing, AfterReturned, SkipWaiter,
              ResumeWaiter, WaiterReturned, VisitAfter, VisitWaiter
<1>3. ASSUME ScriptReturned \/ ScriptsDone \/ Exit \/ RunStep \/ StepAgain \/ AftersDone
             \/ ResumeDeferred \/ DeferredReturned \/ DeferredDone \/ NoSuchWaiter \/ WaitersDone
      PROVE  FALSE
  BY <1>3 DEF ScriptReturned, ScriptsDone, Exit, RunStep, StepAgain, BeginStep, AftersDone,
              ResumeDeferred, DeferredReturned, DeferredDone, NoSuchWaiter, WaitersDone, Proceed
<1> QED
  BY <1>1, <1>2, <1>3 DEF Next, Host, CTaskRunning

LEMMA CTaskInvNext ==
  ASSUME TypeInv, TypeInv', CTaskInv, [Next]_vars, phase = "failed" => ~Embedded
  PROVE  CTaskInv'
<1> SUFFICES ASSUME phase' # "undefined"
             PROVE  CTaskInv'
  BY DEF CTaskInv
<1>1. CASE UNCHANGED vars
  BY <1>1 DEF vars, queues, CTaskInv, NobodyAsks, AskedWasPassed, AsksComeLast, CTasksMatch,
              Asked, Passed, Visited, Pending
<1>2. CASE phase \in Stopped
  BY <1>1, <1>2, StoppedStays
<1>3. CASE phase \in BeforeCTasks
  <2>1. NobodyAsks
    BY <1>3 DEF CTaskInv, BeforeCTasks
  <2>2. NobodyAsks' /\ phase' \in BeforeCTasks \cup {"ctasks", "failed"}
    BY <1>3, <2>1, BeforeCTasksStep
  <2>3. AsksComeLast' /\ CTasksMatch'
    BY <2>2, NobodyAskedMatchesNext
  <2>4. phase' = "ctasks" => AskedWasPassed'
    <3> SUFFICES ASSUME NEW c \in CTasks
                 PROVE  Asked(c)' <= Passed(c)'
      BY DEF AskedWasPassed
    <3>1. Positions(cleaning', {Ask(c)}) = {}
      BY <2>2 DEF NobodyAsks, Positions, Ask
    <3>2. Asked(c)' = 0
      BY <3>1, FS_EmptySet DEF Asked
    <3>3. Passed(c)' \in Nat
      BY CTaskCountsNext
    <3> QED
      BY <3>2, <3>3
  <2> QED
    BY <2>2, <2>3, <2>4 DEF CTaskInv
<1>4. CASE phase \in {"ctasks", "clean"} /\ Next
  <2>1. CASE StepDone
    <3>1. phase' = "ready" /\ cleaning' = <<>>
      BY <2>1 DEF StepDone
    <3>2. NobodyAsks'
      BY <3>1 DEF NobodyAsks
    <3> QED
      BY <3>1, <3>2, NobodyAskedMatchesNext DEF CTaskInv
  <2>2. CASE \E r \in {"continue", "done", "error"} : RunCTask(r)
    BY <2>2, RunCTaskStep
  <2>3. CASE phase = "ctasks" /\ \E c \in CTasks : AddCTask(c)
    BY <2>3, AddCTaskStep
  <2> QED
    BY <1>4, <2>1, <2>2, <2>3, LatePhases, CTasksDoneStep, CleanThreadStep, CleanCTaskStep
<1>5. phase \in Stopped \cup BeforeCTasks \cup {"ctasks", "clean"}
  BY DEF TypeInv, TypeOK, LoopTypeOK, Phases, CallPhases, ScriptPhases, BeforeCTasks
<1> QED
  BY <1>1, <1>2, <1>3, <1>4, <1>5

LEMMA CTaskInvInit == Init /\ TypeInv => CTaskInv
<1> SUFFICES ASSUME Init, TypeInv
             PROVE  CTaskInv
  OBVIOUS
<1>1. NobodyAsks /\ phase = "scripts"
  BY DEF Init, NobodyAsks
<1> QED
  BY <1>1, NobodyAskedMatches DEF CTaskInv

\* Whatever scripts and C tasks do, as long as nothing goes on after a failed step: the
\* cleaning buffer asks to remove a C task only as often as it is registered, so that
\* task_step finds what it looks for.  After a failed step the buffer keeps the requests of
\* that step, and the next one adds its own.
THEOREM CTasksMatchCorrect == ASSUME ~Embedded PROVE Spec => []CTasksMatch
<1>1. CTaskInv => CTasksMatch
  BY DEF CTaskInv, CTasksMatch
<1>2. Init /\ TypeInv => CTaskInv
  BY CTaskInvInit
<1>3. TypeInv /\ TypeInv' /\ CTaskInv /\ [Next]_vars => CTaskInv'
  BY CTaskInvNext
<1> QED
  BY <1>1, <1>2, <1>3, InitType, NextType, PTL DEF Spec

-----------------------------------------------------------------------------
\* Careful scripts.

\* A thread that can be resumed; where it still has a place to be resumed from.
CanGoOn(t) == status[t] \in {"fresh"} \cup Suspended
IsDeferred(t) == \E i \in DOMAIN deferred : deferred[i].thread = t
LaterArgs(t) == {deferred[i].argn : i \in {j \in 1 .. StillDeferred : deferred[j].thread = t}}
StillLater(t) == LaterArgs(t) # {}
Live(t) == StillDue(t) \/ StillFollowing(t) \/ StillLater(t)

\* A thread has one place at most, and can be resumed from it.
OnePlace(t) ==
  /\ ~(StillDue(t) /\ StillFollowing(t)) /\ ~(StillDue(t) /\ StillLater(t))
  /\ ~(StillFollowing(t) /\ StillLater(t))
  /\ Live(t) => CanGoOn(t)
  /\ status[t] = "in_wait_for" => StillFollowing(t)
  /\ status[t] = "absent" => ~Queued(t)

\* Its stack holds what the place counts, and nothing when it has no place.
Stacked(t) ==
  /\ StillDue(t) => \/ top[t] = waiting[t].argn
                    \/ status[t] = "in_wait" /\ "wait" \in Ops["waiting"]
  /\ StillFollowing(t) => top[t] = afters[t].argn
  /\ \A n \in LaterArgs(t) : top[t] = n
  /\ ~Live(t) /\ (CanGoOn(t) \/ status[t] = "absent") => top[t] = 0

\* An active thread is in a container only while the loop over it resumes that thread.
Inside(t) ==
  status[t] \in Active =>
    /\ t \in DOMAIN waiting => phase = "waiting" /\ t = iter.thread
    /\ t \in DOMAIN afters => phase = "after" /\ t = iter.thread
    /\ IsDeferred(t) => phase = "deferred" /\ t = iter.thread

\* Entries whose threads have been resumed are gone before the next step, and no loop of
\* this one gets to their threads again.
Served(t) ==
  /\ t \in DOMAIN afters /\ ~StillFollowing(t) =>
       /\ phase \notin {"scripts", "ready", "exit"} /\ ~StillLater(t)
       /\ StillDue(t) => waiting[t].start >= now
  /\ t \in DOMAIN waiting /\ ~StillDue(t) =>
       phase \in {"waiting", "ctasks", "clean", "failed"} /\ ~StillLater(t)

\* The cleaning buffer names an entry that is there, once.
Cleanable(t) ==
  /\ Pending(t, "waiter") # {} => t \in DOMAIN waiting
  /\ Pending(t, "after") # {} => t \in DOMAIN afters
  /\ \A i, j \in Pending(t, "waiter") : i = j
  /\ \A i, j \in Pending(t, "after") : i = j

Entered(t) ==
  /\ t \in DOMAIN waiting => waiting[t].length >= 1
  /\ t \in DOMAIN afters => afters[t].after_this # NoThread

ThreadInv(t) ==
  OnePlace(t) /\ Stacked(t) /\ Inside(t) /\ Served(t) /\ Cleanable(t) /\ Entered(t)

\* The loops look at what they were started for: the containers they iterate over keep
\* their keys, and the instructions are for slots passed by.
PassedBy(map, t) == \E s \in 1 .. iter.at - 1 : AtSlot(map, t, s)
AfterLoop ==
  phase = "after" =>
    /\ iter.stop = Size(afters) /\ iter.at >= 1
    /\ iter.thread # NoThread => AtSlot(afters, iter.thread, iter.at)
    /\ \A t \in Threads : Pending(t, "after") # {} => PassedBy(afters, t)
WaitingLoop ==
  phase = "waiting" =>
    /\ iter.stop = Size(waiting) /\ iter.at >= 1
    /\ iter.thread # NoThread => AtSlot(waiting, iter.thread, iter.at) /\ iter.start < now
    /\ \A t \in Threads : Pending(t, "waiter") # {} => PassedBy(waiting, t)
DeferredLoop ==
  /\ phase = "deferred" /\ iter.thread # NoThread => deferred[iter.at].thread = iter.thread
  /\ \A i \in DOMAIN deferred : deferred[i].held <=> (phase = "deferred" => i <= iter.at)
  /\ \A i, j \in 1 .. StillDeferred : deferred[i].thread = deferred[j].thread => i = j

\* The thread that the host has resumed is the one at the bottom of the call stack, and
\* raises no error.
CallStack ==
  /\ running # <<>> => iter.thread = Last(running) /\ phase \in ScriptPhases
  /\ phase = "waiting" => Len(running) <= 1
  /\ phase \notin ScriptPhases => iter.thread = NoThread
  /\ iter.thread # NoThread => status[iter.thread] \notin {"absent", "fresh", "errored"}

Buffer ==
  /\ phase \in {"scripts", "ready", "exit"} => cleaning = <<>>
  /\ phase \in {"after", "deferred"} => \A t \in Threads : Pending(t, "waiter") = {}
  /\ phase = "clean" => iter.stop = Len(cleaning)

PhaseInv ==
  /\ phase \notin {"undefined", "aborted"}
  /\ phase = "failed" => "raise" \in Ops["ctasks"]
  /\ now <= clock

LoopInv == AfterLoop /\ WaitingLoop /\ DeferredLoop /\ CallStack /\ Buffer /\ PhaseInv

CarefulInv == (\A t \in Threads : ThreadInv(t)) /\ LoopInv
-----------------------------------------------------------------------------
\* What a step leaves as it was for a thread u.
SameStatus(u) ==
  /\ status'[u] = status[u] \/ (status[u] \in Active /\ status'[u] \in Active)
  /\ top'[u] = top[u]
SameEntries(u) ==
  /\ u \in DOMAIN waiting' <=> u \in DOMAIN waiting
  /\ u \in DOMAIN waiting => waiting'[u] = waiting[u]
  /\ u \in DOMAIN afters' <=> u \in DOMAIN afters
  /\ u \in DOMAIN afters => afters'[u] = afters[u]
  /\ IsDeferred(u)' <=> IsDeferred(u)
SamePlaces(u) ==
  /\ StillDue(u)' <=> StillDue(u)
  /\ StillFollowing(u)' <=> StillFollowing(u)
  /\ LaterArgs(u)' = LaterArgs(u)
SameRequests(u) ==
  /\ Pending(u, "waiter")' = Pending(u, "waiter")
  /\ Pending(u, "after")' = Pending(u, "after")
Same(u) == SameStatus(u) /\ SameEntries(u) /\ SamePlaces(u) /\ SameRequests(u)

\* What holds of a thread goes on to hold where nothing happens to it, within a phase.
LEMMA KeptThread ==
  ASSUME NEW u \in Threads, ThreadInv(u), Same(u), phase' = phase, now' = now,
         status[u] \in Active /\ u = iter.thread => u = iter'.thread
  PROVE  ThreadInv(u)'
<1> USE DEF Same
<1>1. /\ CanGoOn(u)' <=> CanGoOn(u)
      /\ \A s \in Statuses \ Active : status'[u] = s <=> status[u] = s
      /\ status'[u] \in Active <=> status[u] \in Active
  BY DEF SameStatus, CanGoOn, Active, Suspended, Statuses
<1>2. StillLater(u)' <=> StillLater(u)
  BY DEF SamePlaces, StillLater
<1>3. Live(u)' <=> Live(u)
  BY <1>2 DEF SamePlaces, Live
<1>4. Queued(u)' <=> Queued(u)
  BY DEF SameEntries, Queued, WaitsOrIsDeferred, IsDeferred
<1>5. {"in_wait_for", "errored", "absent", "in_wait"} \subseteq Statuses \ Active
  BY DEF Statuses, Active, Suspended
<1>6. OnePlace(u)'
  BY <1>1, <1>2, <1>3, <1>4, <1>5 DEF OnePlace, SamePlaces, ThreadInv
<1>7. Stacked(u)'
  <2>1. StillDue(u) => u \in DOMAIN waiting
    BY DEF StillDue, WillWait
  <2>2. StillFollowing(u) => u \in DOMAIN afters
    BY DEF StillFollowing, WillFollow
  <2> QED
    BY <1>1, <1>3, <1>5, <2>1, <2>2
    DEF Stacked, SamePlaces, SameStatus, SameEntries, ThreadInv
<1>8. Inside(u)'
  BY <1>1 DEF Inside, SameEntries, ThreadInv
<1>9. Served(u)'
  <2>1. StillDue(u) => u \in DOMAIN waiting
    BY DEF StillDue, WillWait
  <2> QED
    BY <1>2, <2>1 DEF Served, SamePlaces, SameEntries, ThreadInv
<1>10. Cleanable(u)'
  BY DEF Cleanable, SameRequests, SameEntries, ThreadInv
<1>11. Entered(u)'
  BY DEF Entered, SameEntries, ThreadInv
<1> QED
  BY <1>6, <1>7, <1>8, <1>9, <1>10, <1>11 DEF ThreadInv

-----------------------------------------------------------------------------
(***************************************************************************)
(* What calls of the VM do, one thread at a time.                          *)
(***************************************************************************)
LEMMA ExecutingThread ==
  ASSUME TypeInv, LoopInv, Executing
  PROVE  /\ self \in Threads /\ status[self] \in Active /\ self = running[1]
         /\ iter.thread \in Threads /\ iter.thread # NoThread
         /\ status[iter.thread] \in Active
         /\ phase = "waiting" => iter.thread = self /\ running = <<self>>
<1>1. /\ running \in Seq(Threads) /\ Len(running) \in Nat \ {0}
      /\ self \in Threads /\ self = running[1]
  BY HeadTailProperties, EmptySeq, LenProperties DEF TypeInv, TypeOK, VmTypeOK, Executing, self
<1>2. /\ iter.thread = running[Len(running)]
      /\ phase = "waiting" => Len(running) <= 1
  BY <1>1 DEF LoopInv, CallStack, Executing, Last
<1>3. iter.thread \in Threads /\ NoThread \notin Threads
  <2>1. Len(running) \in 1 .. Len(running)
    BY <1>1
  <2>2. iter.thread \in Threads
    BY <1>1, <1>2, <2>1, ElementOfSeq
  <2> QED
    BY <2>2, ThreadsAssumption DEF Threads, NoThread
<1>4. status[self] \in Active /\ status[iter.thread] \in Active
  BY <1>1, <1>2, <1>3 DEF TypeInv, TypeOK, VmTypeOK
<1>5. phase = "waiting" => iter.thread = self /\ running = <<self>>
  <2> SUFFICES ASSUME phase = "waiting"
               PROVE  iter.thread = self /\ running = <<self>>
    OBVIOUS
  <2>1. Len(running) <= 1 /\ Len(running) \in Nat \ {0}
    BY <1>1, <1>2
  <2>2. Len(running) = 1
    <3>1. \A n \in Nat \ {0} : n <= 1 => n = 1
      OBVIOUS
    <3> QED
      BY <2>1, <3>1
  <2> QED
    BY <1>1, <1>2, <2>2
<1> QED
  BY <1>1, <1>3, <1>4, <1>5

LEMMA LeaveEffect ==
  ASSUME TypeInv, LoopInv, Executing, NEW s \in Statuses \ Active, NEW n,
         Leave(s, n)
  PROVE  /\ status'[self] = s /\ top'[self] = n
         /\ \A u \in Threads \ {self} : SameStatus(u)
         /\ Len(running') = Len(running) - 1
         /\ running' # <<>> => Last(running') = Last(running)
         /\ \/ status'[iter.thread] \notin {"absent", "fresh", "errored"}
            \/ s \in {"absent", "fresh", "errored"} /\ Len(running) = 1
            \/ s \in {"absent", "fresh"}
<1>1. /\ running \in Seq(Threads) /\ Len(running) \in Nat \ {0} /\ self \in Threads
      /\ status \in [Threads -> Statuses] /\ top \in [Threads -> Nat]
      /\ \A i \in 1 .. Len(running) : running[i] \in Threads /\ status[running[i]] \in Active
  BY HeadTailProperties, EmptySeq, LenProperties, ElementOfSeq
  DEF TypeInv, TypeOK, VmTypeOK, Executing, self
<1>2. /\ running' \in Seq(Threads) /\ Len(running') = Len(running) - 1
      /\ \A i \in 1 .. Len(running') : running'[i] = running[i + 1]
  BY <1>1, HeadTailProperties, EmptySeq DEF Leave, Executing
<1>3. status'[self] = s /\ top'[self] = n
  BY <1>1 DEF Leave
<1>4. ASSUME NEW u \in Threads \ {self}
      PROVE  SameStatus(u)
  <2>1. top'[u] = top[u]
    BY <1>1 DEF Leave
  <2>2. CASE Len(running) > 1 /\ u = running[2]
    <3>1. status'[u] = "running"
      BY <2>2 DEF Leave
    <3>2. status[u] \in Active
      BY <1>1, <2>2
    <3> QED
      BY <2>1, <3>1, <3>2 DEF SameStatus, Active
  <2>3. CASE ~(Len(running) > 1 /\ u = running[2])
    BY <2>1, <2>3 DEF Leave, SameStatus
  <2> QED
    BY <2>2, <2>3
<1>5. running' # <<>> => Last(running') = Last(running)
  <2> SUFFICES ASSUME running' # <<>>
               PROVE  Last(running') = Last(running)
    OBVIOUS
  <2>1. Len(running') \in Nat \ {0}
    BY <1>2, EmptySeq, LenProperties
  <2> QED
    BY <1>1, <1>2, <2>1 DEF Last
<1>6. \/ status'[iter.thread] \notin {"absent", "fresh", "errored"}
      \/ s \in {"absent", "fresh", "errored"} /\ Len(running) = 1
      \/ s \in {"absent", "fresh"}
  <2>1. CASE iter.thread = self
    <3>1. iter.thread = running[Len(running)] /\ self = running[1]
      BY ExecutingThread DEF LoopInv, CallStack, Executing, Last
    <3>2. Len(running) = 1
      <4>1. 1 \in 1 .. Len(running) /\ Len(running) \in 1 .. Len(running)
        BY <1>1
      <4>2. \A i, j \in 1 .. Len(running) : running[i] = running[j] => i = j
        BY DEF TypeInv, TypeOK, VmTypeOK
      <4>3. running[1] = running[Len(running)]
        BY <2>1, <3>1
      <4> QED
        BY <4>1, <4>2, <4>3
    <3> QED
      BY <1>3, <2>1, <3>2
  <2>2. CASE iter.thread # self
    BY <1>4, <2>2, ExecutingThread DEF SameStatus, Active
  <2> QED
    BY <2>1, <2>2
<1> QED
  BY <1>2, <1>3, <1>4, <1>5, <1>6

LEMMA StillDeferredType ==
  ASSUME TypeInv
  PROVE  /\ StillDeferred \in 0 .. Len(deferred) /\ Len(deferred) \in Nat
         /\ DOMAIN deferred = 1 .. Len(deferred) /\ 1 .. StillDeferred \subseteq DOMAIN deferred
<1>1. Len(deferred) \in Nat /\ DOMAIN deferred = 1 .. Len(deferred) /\ iter.at \in Int
  BY LenProperties DEF TypeInv, TypeOK, QueuesTypeOK, LoopTypeOK, Loops
<1>2. StillDeferred \in 0 .. Len(deferred)
  <2>1. CASE phase # "deferred"
    BY <1>1, <2>1 DEF StillDeferred
  <2>2. CASE phase = "deferred" /\ iter.thread = NoThread
    BY <1>1, <2>2 DEF StillDeferred, TypeInv, LoopsInBounds
  <2>3. CASE phase = "deferred" /\ iter.thread # NoThread
    <3>1. StillDeferred = iter.at - 1
      BY <2>3 DEF StillDeferred
    <3> QED
      BY <1>1, <2>3, <3>1 DEF TypeInv, LoopsInBounds
  <2> QED
    BY <2>1, <2>2, <2>3
<1> QED
  BY <1>1, <1>2

\* Threads that scripts may spawn, delay, defer and pass to do_after, and cancel.
LEMMA CarefulThreads ==
  ASSUME TypeInv, Careful, CarefulInv, Executing
  PROVE  /\ \A t \in Coroutines :
              /\ t \in Threads /\ status[t] \in {"absent", "fresh", "in_yield"}
              /\ ~Queued(t) /\ ~Live(t) /\ top[t] = 0
         /\ Awaitable = Created /\ NoThread \notin Awaitable
         /\ "any_thread" \notin Ops[phase] /\ "raise" \notin Ops[phase]
         /\ "unyieldable" \notin Ops[phase] /\ "any_value" \notin Ops[phase]
<1>1. /\ "any_thread" \notin Ops[phase] /\ "raise" \notin Ops[phase]
      /\ "unyieldable" \notin Ops[phase] /\ "any_value" \notin Ops[phase]
  BY DEF Careful, CarefulScripts, Executing, ScriptPhases, CallPhases
<1>2. ASSUME NEW t \in Coroutines
      PROVE  /\ t \in Threads /\ status[t] \in {"absent", "fresh", "in_yield"}
             /\ ~Queued(t) /\ ~Live(t) /\ top[t] = 0
  <2>1. t \in Threads /\ status[t] \in {"absent", "fresh", "in_yield"}
    BY <1>1 DEF Coroutines, Created
  <2>2. ~Queued(t)
    BY <1>1, <2>1 DEF Coroutines, Created, CarefulInv, ThreadInv, OnePlace
  <2>3. ~IsDeferred(t) /\ t \notin DOMAIN waiting /\ t \notin DOMAIN afters
    BY <2>2 DEF Queued, WaitsOrIsDeferred, IsDeferred
  <2>4. ~StillDue(t) /\ ~StillFollowing(t)
    BY <2>3 DEF StillDue, StillFollowing, WillWait, WillFollow
  <2>5. LaterArgs(t) = {}
    BY <2>3, StillDeferredType DEF IsDeferred, LaterArgs
  <2>6. ~Live(t)
    BY <2>4, <2>5 DEF Live, StillLater
  <2>7. top[t] = 0
    BY <2>1, <2>6 DEF CarefulInv, ThreadInv, Stacked, CanGoOn, Suspended
  <2> QED
    BY <2>1, <2>2, <2>6, <2>7
<1>3. Awaitable = Created /\ NoThread \notin Awaitable
  BY <1>1 DEF Awaitable, Created, Threads, NoThread
<1> QED
  BY <1>1, <1>2, <1>3

-----------------------------------------------------------------------------
(***************************************************************************)
(* The places, where the containers change.                                *)
(***************************************************************************)
LEMMA PlacesKept ==
  ASSUME NEW u \in Threads, SameEntries(u), LaterArgs(u)' = LaterArgs(u),
         UNCHANGED <<phase, iter, cleaning>>
  PROVE  SamePlaces(u) /\ SameRequests(u)
<1>1. SameRequests(u)
  BY DEF SameRequests, Pending
<1>2. SamePlaces(u)
  BY <1>1 DEF SamePlaces, SameRequests, SameEntries, StillDue, StillFollowing, WillWait,
              WillFollow, BeingResumed
<1> QED
  BY <1>1, <1>2

LEMMA LaterKept ==
  ASSUME NEW u \in Threads, UNCHANGED <<phase, iter, deferred>>
  PROVE  LaterArgs(u)' = LaterArgs(u) /\ (IsDeferred(u)' <=> IsDeferred(u))
BY DEF LaterArgs, IsDeferred, StillDeferred

\* With a loop of another container, or none, under way.
LEMMA LaterOutside ==
  ASSUME TypeInv, phase # "deferred", NEW u \in Threads
  PROVE  LaterArgs(u) = {deferred[i].argn : i \in {j \in DOMAIN deferred : deferred[j].thread = u}}
<1>1. StillDeferred = Len(deferred) /\ DOMAIN deferred = 1 .. Len(deferred)
  BY StillDeferredType DEF StillDeferred
<1> QED
  BY <1>1 DEF LaterArgs
LEMMA LaterOutsideNext ==
  ASSUME NEW u \in Threads
  PROVE  (TypeInv /\ phase # "deferred" =>
           LaterArgs(u) = {deferred[i].argn : i \in {j \in DOMAIN deferred : deferred[j].thread = u}})'
<1>1. TypeInv /\ phase # "deferred" =>
        LaterArgs(u) = {deferred[i].argn : i \in {j \in DOMAIN deferred : deferred[j].thread = u}}
  BY LaterOutside
<1> QED
  BY <1>1, PTL

LEMMA AppendedLater ==
  ASSUME TypeInv, TypeInv', phase # "deferred", phase' = phase,
         NEW t \in Threads, NEW n \in Nat, NEW d \in DeferredTasks, d.thread = t, d.argn = n,
         deferred' = Append(deferred, d), NEW u \in Threads
  PROVE  /\ LaterArgs(u)' = LaterArgs(u) \cup (IF u = t THEN {n} ELSE {})
         /\ IsDeferred(u)' <=> IsDeferred(u) \/ u = t
<1> DEFINE m == Len(deferred)
<1>1. /\ m \in Nat /\ DOMAIN deferred = 1 .. m /\ DOMAIN deferred' = 1 .. m + 1
      /\ \A i \in 1 .. m : deferred'[i] = deferred[i]
      /\ deferred'[m + 1] = d
  BY AppendProperties, LenProperties DEF TypeInv, TypeOK, QueuesTypeOK, DeferredTasks
<1>2. /\ LaterArgs(u) = {deferred[i].argn : i \in {j \in 1 .. m : deferred[j].thread = u}}
      /\ LaterArgs(u)' = {deferred'[i].argn : i \in {j \in 1 .. m + 1 : deferred'[j].thread = u}}
  BY <1>1, LaterOutside, LaterOutsideNext
<1>3. m + 1 \in 1 .. m + 1 /\ \A i \in 1 .. m + 1 : i \in 1 .. m \/ i = m + 1
  BY <1>1
<1>4. \A i \in 1 .. m : i \in 1 .. m + 1
  BY <1>1
<1> HIDE DEF m
<1>5. LaterArgs(u)' = LaterArgs(u) \cup (IF u = t THEN {n} ELSE {})
  BY <1>1, <1>2, <1>3, <1>4
<1>6. IsDeferred(u)' <=> IsDeferred(u) \/ u = t
  BY <1>1, <1>3, <1>4 DEF IsDeferred
<1> QED
  BY <1>5, <1>6

LEMMA RemovedLater ==
  ASSUME TypeInv, TypeInv', DeferredLoop, phase # "deferred", phase' = phase,
         NEW i \in DOMAIN deferred, deferred' = RemoveAt(deferred, i), NEW u \in Threads
  PROVE  /\ u # deferred[i].thread => /\ LaterArgs(u)' = LaterArgs(u)
                                      /\ IsDeferred(u)' <=> IsDeferred(u)
         /\ u = deferred[i].thread => LaterArgs(u)' = {} /\ ~IsDeferred(u)'
<1> DEFINE m == Len(deferred)
<1>1. /\ m \in Nat /\ DOMAIN deferred = 1 .. m /\ deferred \in Seq(DeferredTasks) /\ i \in 1 .. m
  BY LenProperties DEF TypeInv, TypeOK, QueuesTypeOK, DeferredTasks
<1>2. /\ DOMAIN deferred' = 1 .. m - 1
      /\ \A j \in 1 .. m - 1 : deferred'[j] = IF j < i THEN deferred[j] ELSE deferred[j + 1]
  BY <1>1, RemoveAtElements
<1>3. /\ LaterArgs(u) = {deferred[k].argn : k \in {j \in 1 .. m : deferred[j].thread = u}}
      /\ LaterArgs(u)' = {deferred'[k].argn : k \in {j \in 1 .. m - 1 : deferred'[j].thread = u}}
  BY <1>1, <1>2, LaterOutside, LaterOutsideNext
<1>4. \A j, k \in 1 .. m : deferred[j].thread = deferred[k].thread => j = k
  BY <1>1, StillDeferredType DEF DeferredLoop, StillDeferred
\* Where the elements come from, and where they go.
<1>5. \A j \in 1 .. m - 1 : \E k \in 1 .. m : k # i /\ deferred'[j] = deferred[k]
  <2> SUFFICES ASSUME NEW j \in 1 .. m - 1
               PROVE  \E k \in 1 .. m : k # i /\ deferred'[j] = deferred[k]
    OBVIOUS
  <2>1. CASE j < i
    BY <1>1, <1>2, <2>1
  <2>2. CASE ~(j < i)
    <3>1. j + 1 \in 1 .. m /\ j + 1 # i
      BY <1>1, <2>2
    <3> QED
      BY <1>2, <2>2, <3>1
  <2> QED
    BY <2>1, <2>2
<1>6. \A k \in 1 .. m : k # i => \E j \in 1 .. m - 1 : deferred'[j] = deferred[k]
  <2> SUFFICES ASSUME NEW k \in 1 .. m, k # i
               PROVE  \E j \in 1 .. m - 1 : deferred'[j] = deferred[k]
    OBVIOUS
  <2>1. CASE k < i
    <3>1. k \in 1 .. m - 1
      BY <1>1, <2>1
    <3> QED
      BY <1>2, <2>1, <3>1
  <2>2. CASE ~(k < i)
    <3>1. k - 1 \in 1 .. m - 1 /\ ~(k - 1 < i) /\ (k - 1) + 1 = k
      BY <1>1, <2>2
    <3> QED
      BY <1>2, <3>1
  <2> QED
    BY <2>1, <2>2
<1> HIDE DEF m
<1>7. ASSUME u # deferred[i].thread
      PROVE  LaterArgs(u)' = LaterArgs(u) /\ (IsDeferred(u)' <=> IsDeferred(u))
  <2>1. LaterArgs(u)' \subseteq LaterArgs(u)
    BY <1>3, <1>5
  <2>2. LaterArgs(u) \subseteq LaterArgs(u)'
    BY <1>3, <1>6, <1>7
  <2>3. /\ IsDeferred(u) <=> \E k \in 1 .. m : deferred[k].thread = u
        /\ IsDeferred(u)' <=> \E j \in 1 .. m - 1 : deferred'[j].thread = u
    BY <1>1, <1>2 DEF IsDeferred
  <2>4. IsDeferred(u)' => IsDeferred(u)
    BY <2>3, <1>5
  <2>5. IsDeferred(u) => IsDeferred(u)'
    BY <2>3, <1>6, <1>7
  <2> QED
    BY <2>1, <2>2, <2>4, <2>5
<1>8. ASSUME u = deferred[i].thread
      PROVE  LaterArgs(u)' = {} /\ ~IsDeferred(u)'
  <2>1. \A j \in 1 .. m - 1 : deferred'[j].thread # u
    BY <1>1, <1>4, <1>5, <1>8
  <2> QED
    BY <1>2, <1>3, <2>1 DEF IsDeferred
<1> QED
  BY <1>7, <1>8

-----------------------------------------------------------------------------
(***************************************************************************)
(* What scripts do.                                                        *)
(***************************************************************************)
\* A call concerns one thread, x, and leaves the others, the loop and its instructions
\* alone.
Concerns(x) == \A u \in Threads \ {x} : Same(u)
Within == UNCHANGED <<phase, iter, cleaning, now>>

LEMMA OthersKept ==
  ASSUME TypeInv, CarefulInv, NEW x \in Threads, Concerns(x), phase' = phase, now' = now,
         \A u \in Threads \ {x} :
           status[u] \in Active /\ u = iter.thread => u = iter'.thread
  PROVE  \A u \in Threads \ {x} : ThreadInv(u)'
BY KeptThread DEF CarefulInv, Concerns

\* The loops, over a call that changes the keys of no container under its own loop.
LEMMA LoopsKept ==
  ASSUME TypeInv, TypeInv', CarefulInv, Within, clock' >= clock,
         phase = "after" => DOMAIN afters' = DOMAIN afters,
         phase = "waiting" => DOMAIN waiting' = DOMAIN waiting,
         DeferredLoop', CallStack'
  PROVE  LoopInv'
<1>1. \A t, type : Pending(t, type)' = Pending(t, type)
  BY DEF Pending, Within
<1>2. AfterLoop'
  <2>1. \A t, i : phase = "after" => (AtSlot(afters, t, i)' <=> AtSlot(afters, t, i))
    BY DEF AtSlot
  <2>2. \A t : phase = "after" => (PassedBy(afters, t)' <=> PassedBy(afters, t))
    BY <2>1 DEF PassedBy, Within
  <2>3. phase = "after" => Size(afters)' = Size(afters)
    BY DEF Size
  <2> QED
    BY <1>1, <2>1, <2>2, <2>3 DEF AfterLoop, CarefulInv, LoopInv, Within
<1>3. WaitingLoop'
  <2>1. \A t, i : phase = "waiting" => (AtSlot(waiting, t, i)' <=> AtSlot(waiting, t, i))
    BY DEF AtSlot
  <2>2. \A t : phase = "waiting" => (PassedBy(waiting, t)' <=> PassedBy(waiting, t))
    BY <2>1 DEF PassedBy, Within
  <2>3. phase = "waiting" => Size(waiting)' = Size(waiting)
    BY DEF Size
  <2> QED
    BY <1>1, <2>1, <2>2, <2>3 DEF WaitingLoop, CarefulInv, LoopInv, Within
<1>4. Buffer'
  BY <1>1 DEF Buffer, CarefulInv, LoopInv, Within
<1>5. PhaseInv'
  BY DEF PhaseInv, CarefulInv, LoopInv, Within, TypeInv, TypeOK, LoopTypeOK
<1> QED
  BY <1>2, <1>3, <1>4, <1>5 DEF LoopInv

\* The active threads, and the instructions for them.
LEMMA ActiveThread ==
  ASSUME TypeInv, CarefulInv, Executing, NEW t \in Threads, status[t] \in Active
  PROVE  /\ ~Live(t) /\ ~StillDue(t) /\ ~StillFollowing(t) /\ ~StillLater(t)
         /\ t \in DOMAIN waiting => phase = "waiting" /\ t = iter.thread
         /\ t \in DOMAIN afters => phase = "after" /\ t = iter.thread
         /\ IsDeferred(t) => phase = "deferred" /\ t = iter.thread
         /\ Pending(t, "waiter") = {}
         /\ phase # "after" => Pending(t, "after") = {}
<1>1. ThreadInv(t)
  BY DEF CarefulInv
<1>2. ~Live(t)
  BY <1>1 DEF ThreadInv, OnePlace, CanGoOn, Active, Suspended
<1>3. /\ t \in DOMAIN waiting => phase = "waiting" /\ t = iter.thread
      /\ t \in DOMAIN afters => phase = "after" /\ t = iter.thread
      /\ IsDeferred(t) => phase = "deferred" /\ t = iter.thread
  BY <1>1 DEF ThreadInv, Inside
<1>4. Pending(t, "waiter") = {}
  <2>1. CASE t \notin DOMAIN waiting
    BY <1>1, <2>1 DEF ThreadInv, Cleanable
  <2>2. CASE t \in DOMAIN waiting
    <3>1. phase = "waiting" /\ t = iter.thread /\ t # NoThread
      BY <1>3, <2>2, ExecutingThread DEF CarefulInv
    <3>2. AtSlot(waiting, t, iter.at) /\ (Pending(t, "waiter") # {} => PassedBy(waiting, t))
      BY <3>1 DEF CarefulInv, LoopInv, WaitingLoop
    <3>3. ~PassedBy(waiting, t)
      BY <3>2 DEF PassedBy, AtSlot, TypeInv, TypeOK, LoopTypeOK, Loops
    <3> QED
      BY <3>2, <3>3
  <2> QED
    BY <2>1, <2>2
<1>5. phase # "after" => Pending(t, "after") = {}
  BY <1>1, <1>3 DEF ThreadInv, Cleanable
<1> QED
  BY <1>2, <1>3, <1>4, <1>5 DEF Live

LEMMA DeferredLoopKept ==
  ASSUME CarefulInv, UNCHANGED <<phase, iter, deferred>>
  PROVE  DeferredLoop'
BY DEF CarefulInv, LoopInv, DeferredLoop, StillDeferred

LEMMA CallStackLeft ==
  ASSUME TypeInv, CarefulInv, Executing, Within,
         NEW s \in Statuses \ (Active \cup {"absent", "fresh"}), NEW n, Leave(s, n),
         s = "errored" => Len(running) > 1
  PROVE  CallStack'
<1>1. /\ Len(running') = Len(running) - 1
      /\ running' # <<>> => Last(running') = Last(running)
      /\ status'[iter.thread] \notin {"absent", "fresh", "errored"}
  <2>1. /\ Len(running') = Len(running) - 1
        /\ running' # <<>> => Last(running') = Last(running)
        /\ \/ status'[iter.thread] \notin {"absent", "fresh", "errored"}
           \/ s \in {"absent", "fresh", "errored"} /\ Len(running) = 1
           \/ s \in {"absent", "fresh"}
    BY LeaveEffect DEF CarefulInv
  <2>2. s \notin {"absent", "fresh"}
    BY DEF Statuses
  <2>3. ~(s = "errored" /\ Len(running) = 1)
    <3>1. ~(1 > 1)
      OBVIOUS
    <3> QED
      BY <3>1
  <2> QED
    BY <2>1, <2>2, <2>3
<1>2. phase = "waiting" => Len(running) = 1
  BY ExecutingThread DEF CarefulInv
<1> QED
  BY <1>1, <1>2 DEF CarefulInv, LoopInv, CallStack, Within, Executing

\* A thread without a place that gets none.
LEMMA UnscheduledThread ==
  ASSUME NEW x \in Threads, ThreadInv(x), ~Live(x), phase' = phase, now' = now,
         SameEntries(x), SamePlaces(x), SameRequests(x),
         status'[x] \notin {"in_wait_for", "absent"},
         CanGoOn(x)' => top'[x] = 0, status'[x] \in Active => ~Queued(x)
  PROVE  ThreadInv(x)'
<1>1. ~Live(x)' /\ ~StillDue(x)' /\ ~StillFollowing(x)' /\ LaterArgs(x)' = {} /\ ~StillLater(x)'
  BY DEF Live, SamePlaces, StillLater
<1>2. OnePlace(x)' /\ Stacked(x)'
  BY <1>1 DEF OnePlace, Stacked
<1>3. Inside(x)'
  BY DEF Inside, SameEntries, Queued, WaitsOrIsDeferred, IsDeferred
<1>4. Served(x)'
  BY <1>1 DEF Served, SameEntries, SamePlaces, ThreadInv, Live
<1>5. Cleanable(x)' /\ Entered(x)'
  BY DEF Cleanable, Entered, SameRequests, SameEntries, ThreadInv
<1> QED
  BY <1>2, <1>3, <1>4, <1>5 DEF ThreadInv

\* task.wait
LEMMA WaitEffect ==
  ASSUME TypeInv, TypeInv', Careful, CarefulInv, Executing, NEW s \in Durations, Wait(s)
  PROVE  /\ Within /\ clock' = clock /\ UNCHANGED <<afters, deferred>>
         /\ DOMAIN waiting' = DOMAIN waiting \cup {self}
         /\ waiting'[self].start = clock /\ waiting'[self].length = s
         /\ self \notin DOMAIN waiting => waiting'[self].argn = 0
         /\ \A u \in DOMAIN waiting \ {self} : waiting'[u] = waiting[u]
         /\ self \in DOMAIN waiting <=> phase = "waiting"
<1>1. self \in Threads /\ status[self] \in Active
  BY ExecutingThread DEF CarefulInv
<1>2. self \in DOMAIN waiting <=> phase = "waiting"
  <2>1. self \in DOMAIN waiting => phase = "waiting"
    BY <1>1, ActiveThread
  <2>2. phase = "waiting" => AtSlot(waiting, self, iter.at)
    BY ExecutingThread DEF CarefulInv, LoopInv, WaitingLoop
  <2> QED
    BY <2>1, <2>2 DEF AtSlot
<1>3. UNCHANGED <<iter, now, clock, cleaning, afters, deferred>>
  BY DEF Wait, Call
<1>4. CASE phase = "waiting"
  <2>1. WaitAgain(s)
    BY <1>2, <1>4 DEF Wait, WaitFirst
  <2>2. /\ IsMap(waiting, Waiters) /\ self \in DOMAIN waiting
        /\ waiting' = [waiting EXCEPT ![self].start = clock, ![self].length = s]
        /\ phase' = phase
    BY <2>1, <1>2, <1>4 DEF WaitAgain, TypeInv, TypeOK, QueuesTypeOK
  <2>3. waiting[self] \in Waiters
    BY <2>2 DEF IsMap
  <2>4. /\ DOMAIN waiting' = DOMAIN waiting
        /\ waiting'[self].start = clock /\ waiting'[self].length = s
        /\ \A u \in DOMAIN waiting \ {self} : waiting'[u] = waiting[u]
    BY <2>2, <2>3 DEF Waiters
  <2> QED
    BY <1>2, <1>3, <1>4, <2>2, <2>4 DEF Within
<1>5. CASE phase # "waiting"
  <2>1. WaitFirst(s)
    BY <1>2, <1>5 DEF Wait, WaitAgain
  <2>2. phase' = phase
    BY <2>1, <1>5 DEF WaitFirst, Growing
  <2>3. /\ DOMAIN waiting' = DOMAIN waiting \cup {self}
        /\ waiting'[self] = [start |-> clock, length |-> s, argn |-> 0]
        /\ \A u \in DOMAIN waiting \ {self} : waiting'[u] = waiting[u]
    BY <2>1, <1>2, <1>5 DEF WaitFirst, Emplace
  <2> QED
    BY <1>2, <1>3, <1>5, <2>2, <2>3 DEF Within
<1> QED
  BY <1>4, <1>5

LEMMA WaitStep ==
  ASSUME TypeInv, TypeInv', Careful, CarefulInv, Executing, NEW s \in Durations, Wait(s),
         NEW x \in Threads, x = self
  PROVE  /\ Concerns(x) /\ CarefulInv'
         /\ StillDue(x)' /\ ~StillFollowing(x)' /\ ~StillLater(x)'
<1>0. status[x] \in Active /\ (phase = "waiting" => iter.thread = x /\ running = <<x>>)
  BY ExecutingThread DEF CarefulInv
<1>1. /\ Within /\ clock' = clock /\ UNCHANGED <<afters, deferred>>
      /\ DOMAIN waiting' = DOMAIN waiting \cup {x}
      /\ waiting'[x].start = clock /\ waiting'[x].length = s
      /\ x \notin DOMAIN waiting => waiting'[x].argn = 0
      /\ \A u \in DOMAIN waiting \ {x} : waiting'[u] = waiting[u]
      /\ x \in DOMAIN waiting <=> phase = "waiting"
  BY WaitEffect
<1>2. /\ status'[x] = "in_wait" /\ top'[x] = 0
      /\ \A u \in Threads \ {x} : SameStatus(u)
  BY LeaveEffect DEF Wait, CarefulInv, Statuses, Active, Suspended
<1>3. ASSUME NEW u \in Threads \ {x}
      PROVE  Same(u)
  <2>1. LaterArgs(u)' = LaterArgs(u) /\ (IsDeferred(u)' <=> IsDeferred(u))
    BY <1>1, LaterKept DEF Within
  <2>2. SameEntries(u)
    BY <1>1, <2>1 DEF SameEntries
  <2> QED
    BY <1>1, <1>2, <2>1, <2>2, PlacesKept DEF Same, Within
<1>4. Concerns(x)
  BY <1>3 DEF Concerns
<1>5. \A u \in Threads \ {x} : ThreadInv(u)'
  BY <1>1, <1>4, OthersKept DEF Within
<1>6. /\ ~StillFollowing(x)' /\ ~StillLater(x)' /\ (IsDeferred(x)' <=> IsDeferred(x))
      /\ Pending(x, "waiter")' = {} /\ Pending(x, "after")' = Pending(x, "after")
  <2>1. LaterArgs(x)' = LaterArgs(x) /\ (IsDeferred(x)' <=> IsDeferred(x))
    BY <1>1, LaterKept DEF Within
  <2>2. ~StillFollowing(x) /\ ~StillLater(x) /\ Pending(x, "waiter") = {}
    BY <1>0, ActiveThread
  <2>3. \A type : Pending(x, type)' = Pending(x, type)
    BY <1>1 DEF Within, Pending
  <2> QED
    BY <1>1, <2>1, <2>2, <2>3 DEF StillFollowing, WillFollow, BeingResumed, StillLater, Within
<1>7. StillDue(x)'
  <2>1. phase = "waiting" => clock > iter.start
    BY <1>0, ExecutingThread
    DEF CarefulInv, LoopInv, WaitingLoop, PhaseInv, TypeInv, TypeOK, LoopTypeOK, Loops
  <2>2. BeingResumed(x, "waiting")' => waiting'[x].start # iter'.start
    BY <1>1, <2>1 DEF BeingResumed, Within, TypeInv, TypeOK, LoopTypeOK, Loops
  <2> QED
    BY <1>1, <1>6, <2>2 DEF StillDue, WillWait
<1>8. ThreadInv(x)'
  <2>1. ThreadInv(x) /\ (x \in DOMAIN afters => phase = "after")
    BY <1>0, ActiveThread DEF CarefulInv
  <2>2. OnePlace(x)'
    BY <1>2, <1>6, <1>7 DEF OnePlace, CanGoOn, Suspended, Live
  <2>3. Stacked(x)'
    <3>1. x \in DOMAIN waiting => "wait" \in Ops["waiting"]
      BY <1>1 DEF Wait, Call
    <3> QED
      BY <1>1, <1>2, <1>6, <1>7, <3>1 DEF Stacked, Live, StillLater
  <2>4. Inside(x)'
    BY <1>2 DEF Inside, Active
  <2>5. Served(x)'
    BY <1>1, <1>6, <1>7, <2>1 DEF Served, Within, CarefulInv, LoopInv, PhaseInv
  <2>6. Cleanable(x)'
    BY <1>1, <1>6, <2>1 DEF Cleanable, ThreadInv
  <2>7. Entered(x)'
    <3>1. s >= 1
      BY ScriptsAssumption DEF Careful
    <3> QED
      BY <1>1, <2>1, <3>1 DEF Entered, ThreadInv
  <2> QED
    BY <2>2, <2>3, <2>4, <2>5, <2>6, <2>7 DEF ThreadInv
<1>9. LoopInv'
  <2>1. DeferredLoop'
    BY <1>1, DeferredLoopKept DEF Within
  <2>2. CallStack'
    BY <1>1, CallStackLeft DEF Wait, Statuses, Suspended, Active
  <2>3. clock' >= clock
    BY <1>1 DEF TypeInv, TypeOK, LoopTypeOK
  <2> QED
    BY <1>1, <2>1, <2>2, <2>3, LoopsKept
<1> QED
  BY <1>4, <1>5, <1>6, <1>7, <1>8, <1>9 DEF CarefulInv

\* coroutine.yield, and the end of a function.
LEMMA LeaveStep ==
  ASSUME TypeInv, TypeInv', CarefulInv, Executing,
         NEW s \in {"in_yield", "finished", "errored"}, NEW n, Leave(s, n),
         s = "in_yield" => n = 0, s = "errored" => Len(running) > 1,
         UNCHANGED <<queues, phase, iter, now, clock>>, NEW x \in Threads, x = self
  PROVE  /\ Concerns(x) /\ CarefulInv' /\ SamePlaces(x) /\ SameEntries(x)
         /\ status'[x] = s /\ top'[x] = n /\ ~Live(x)
<1>0. status[x] \in Active
  BY ExecutingThread DEF CarefulInv
<1>1. Within /\ clock' = clock /\ UNCHANGED <<waiting, afters, deferred>>
  BY DEF Within, queues
<1>2. /\ status'[x] = s /\ top'[x] = n
      /\ \A u \in Threads \ {x} : SameStatus(u)
  BY LeaveEffect DEF CarefulInv, Statuses, Active, Suspended
<1>3. ASSUME NEW u \in Threads
      PROVE  SameEntries(u) /\ SamePlaces(u) /\ SameRequests(u)
  <2>1. LaterArgs(u)' = LaterArgs(u) /\ (IsDeferred(u)' <=> IsDeferred(u))
    BY <1>1, LaterKept DEF Within
  <2>2. SameEntries(u)
    BY <1>1, <2>1 DEF SameEntries
  <2> QED
    BY <1>1, <2>1, <2>2, PlacesKept DEF Within
<1>4. Concerns(x)
  BY <1>2, <1>3 DEF Concerns, Same
<1>5. \A u \in Threads \ {x} : ThreadInv(u)'
  BY <1>1, <1>4, OthersKept DEF Within
<1>6. ThreadInv(x) /\ ~Live(x)
  BY <1>0, ActiveThread DEF CarefulInv
<1>7. ThreadInv(x)'
  <2>1. CanGoOn(x)' => top'[x] = 0
    BY <1>2 DEF CanGoOn, Suspended
  <2>2. status'[x] \notin {"in_wait_for", "absent"} /\ status'[x] \notin Active
    BY <1>2 DEF Active
  <2> QED
    BY <1>1, <1>3, <1>6, <2>1, <2>2, UnscheduledThread DEF Within
<1>8. LoopInv'
  <2>1. DeferredLoop'
    BY <1>1, DeferredLoopKept DEF Within
  <2>2. CallStack'
    <3>1. s \in Statuses \ (Active \cup {"absent", "fresh"})
      BY DEF Statuses, Suspended, Active
    <3> QED
      BY <1>1, <3>1, CallStackLeft
  <2>3. clock' >= clock
    BY <1>1 DEF TypeInv, TypeOK, LoopTypeOK
  <2> QED
    BY <1>1, <2>1, <2>2, <2>3, LoopsKept
<1> QED
  BY <1>2, <1>3, <1>4, <1>5, <1>6, <1>7, <1>8 DEF CarefulInv

\* task.wait_for
LEMMA WaitForStep ==
  ASSUME TypeInv, TypeInv', Careful, CarefulInv, Executing,
         NEW thread \in Awaitable, WaitFor(thread), NEW x \in Threads, x = self
  PROVE  /\ Concerns(x) /\ CarefulInv' /\ Within /\ clock' = clock
         /\ StillFollowing(x)' /\ ~StillDue(x)' /\ ~StillLater(x)'
         /\ afters'[x].after_this = thread /\ status'[x] = "in_wait_for"
<1>0. status[x] \in Active /\ phase # "after"
  BY ExecutingThread DEF CarefulInv, WaitFor, Await, Call, Careful, CarefulScripts, Executing,
                         ScriptPhases, CallPhases
<1>1. /\ Within /\ clock' = clock /\ UNCHANGED <<waiting, deferred>>
      /\ x \notin DOMAIN afters
      /\ DOMAIN afters' = DOMAIN afters \cup {x}
      /\ afters'[x] = [after_this |-> thread, argn |-> 0]
      /\ \A u \in DOMAIN afters \ {x} : afters'[u] = afters[u]
  <2>1. x \notin DOMAIN afters
    BY <1>0, ActiveThread
  <2>2. phase' = phase
    BY <1>0, <2>1 DEF WaitFor, Await, Growing
  <2>3. Within /\ clock' = clock /\ UNCHANGED <<waiting, deferred>>
    BY <2>2 DEF WaitFor, Await, Call, Within
  <2> QED
    BY <2>1, <2>3 DEF WaitFor, Await, Emplace
<1>2. /\ status'[x] = "in_wait_for" /\ top'[x] = 0
      /\ \A u \in Threads \ {x} : SameStatus(u)
  BY LeaveEffect DEF WaitFor, CarefulInv, Statuses, Active, Suspended
<1>3. ASSUME NEW u \in Threads \ {x}
      PROVE  Same(u)
  <2>1. LaterArgs(u)' = LaterArgs(u) /\ (IsDeferred(u)' <=> IsDeferred(u))
    BY <1>1, LaterKept DEF Within
  <2>2. SameEntries(u)
    BY <1>1, <2>1 DEF SameEntries
  <2> QED
    BY <1>1, <1>2, <2>1, <2>2, PlacesKept DEF Same, Within
<1>4. Concerns(x)
  BY <1>3 DEF Concerns
<1>5. \A u \in Threads \ {x} : ThreadInv(u)'
  BY <1>1, <1>4, OthersKept DEF Within
<1>6. /\ ~StillLater(x)' /\ (IsDeferred(x)' <=> IsDeferred(x))
      /\ Pending(x, "waiter")' = {} /\ Pending(x, "after")' = {}
      /\ ~StillDue(x)' /\ LaterArgs(x)' = {}
  <2>1. LaterArgs(x)' = LaterArgs(x) /\ (IsDeferred(x)' <=> IsDeferred(x))
    BY <1>1, LaterKept DEF Within
  <2>2. /\ ~StillDue(x) /\ ~StillLater(x)
        /\ Pending(x, "waiter") = {} /\ Pending(x, "after") = {}
    BY <1>0, ActiveThread
  <2>3. \A type : Pending(x, type)' = Pending(x, type)
    BY <1>1 DEF Within, Pending
  <2> QED
    BY <1>1, <2>1, <2>2, <2>3 DEF StillDue, WillWait, BeingResumed, StillLater, Within
<1>7. StillFollowing(x)'
  BY <1>0, <1>1, <1>6 DEF StillFollowing, WillFollow, BeingResumed, Within
<1>8. ThreadInv(x)'
  <2>1. ThreadInv(x) /\ (x \in DOMAIN waiting => phase = "waiting")
    BY <1>0, ActiveThread DEF CarefulInv
  <2>2. OnePlace(x)'
    BY <1>2, <1>6, <1>7 DEF OnePlace, CanGoOn, Suspended, Live
  <2>3. Stacked(x)'
    BY <1>1, <1>2, <1>6, <1>7 DEF Stacked, Live
  <2>4. Inside(x)'
    BY <1>2 DEF Inside, Active
  <2>5. Served(x)'
    BY <1>1, <1>6, <1>7, <2>1 DEF Served, Within
  <2>6. Cleanable(x)'
    BY <1>6 DEF Cleanable
  <2>7. Entered(x)'
    BY <1>1, <2>1, CarefulThreads DEF Entered, ThreadInv
  <2> QED
    BY <2>2, <2>3, <2>4, <2>5, <2>6, <2>7 DEF ThreadInv
<1>9. LoopInv'
  <2>1. DeferredLoop'
    BY <1>1, DeferredLoopKept DEF Within
  <2>2. CallStack'
    BY <1>1, CallStackLeft DEF WaitFor, Statuses, Suspended, Active
  <2>3. clock' >= clock
    BY <1>1 DEF TypeInv, TypeOK, LoopTypeOK
  <2> QED
    BY <1>0, <1>1, <2>1, <2>2, <2>3, LoopsKept
<1> QED
  BY <1>1, <1>2, <1>4, <1>5, <1>6, <1>7, <1>8, <1>9 DEF CarefulInv

\* Handing arguments over: t is a new thread, or one that yielded without a place.
LEMMA HandEffect ==
  ASSUME TypeInv, Careful, CarefulInv, Executing, NEW t \in Coroutines, NEW n \in Nat, Hand(t, n)
  PROVE  /\ t \in Threads /\ ThreadInv(t) /\ ~Queued(t) /\ ~Live(t)
         /\ status[t] \notin Active /\ status'[t] \in {"fresh", "in_yield"} /\ top'[t] = n
         /\ \A u \in Threads \ {t} : SameStatus(u)
         /\ iter.thread # t /\ status'[iter.thread] = status[iter.thread] /\ running' = running
         /\ Pending(t, "waiter") = {} /\ Pending(t, "after") = {}
<1>1. /\ t \in Threads /\ status[t] \in {"absent", "fresh", "in_yield"}
      /\ ~Queued(t) /\ ~Live(t) /\ top[t] = 0
  BY CarefulThreads
<1>2. ThreadInv(t)
  BY <1>1 DEF CarefulInv
<1>3. status[t] \notin Active /\ iter.thread # t /\ iter.thread \in Threads
  BY <1>1, ExecutingThread DEF Active, CarefulInv
<1>4. /\ status \in [Threads -> Statuses] /\ top \in [Threads -> Nat]
  BY DEF TypeInv, TypeOK, VmTypeOK
<1>5. /\ status'[t] \in {"fresh", "in_yield"} /\ top'[t] = n
      /\ \A u \in Threads \ {t} : status'[u] = status[u] /\ top'[u] = top[u]
      /\ running' = running
  BY <1>1, <1>3, <1>4 DEF Hand
<1>6. Pending(t, "waiter") = {} /\ Pending(t, "after") = {}
  BY <1>1, <1>2 DEF ThreadInv, Cleanable, Queued, WaitsOrIsDeferred
<1> QED
  BY <1>1, <1>2, <1>3, <1>5, <1>6 DEF SameStatus

LEMMA CallStackKept ==
  ASSUME CarefulInv, UNCHANGED <<phase, iter, running>>,
         status'[iter.thread] = status[iter.thread]
  PROVE  CallStack'
BY DEF CarefulInv, LoopInv, CallStack

\* task.delay
LEMMA DelayStep ==
  ASSUME TypeInv, TypeInv', Careful, CarefulInv, Executing, NEW t \in Coroutines,
         NEW n \in 0 .. MaxArgs, NEW s \in Durations, Delay(s, t, n)
  PROVE  /\ Concerns(t) /\ CarefulInv' /\ Within /\ clock' = clock
         /\ UNCHANGED <<afters, deferred>>
         /\ StillDue(t)' /\ ~StillFollowing(t)' /\ ~StillLater(t)'
         /\ waiting'[t].start = clock /\ waiting'[t].length = s
<1>0. n \in Nat /\ phase # "waiting"
  BY ScriptsAssumption
  DEF Delay, Call, Careful, CarefulScripts, Executing, ScriptPhases, CallPhases
<1>1. /\ t \in Threads /\ ThreadInv(t) /\ ~Queued(t) /\ ~Live(t)
      /\ status'[t] \in {"fresh", "in_yield"} /\ top'[t] = n
      /\ \A u \in Threads \ {t} : SameStatus(u)
      /\ iter.thread # t /\ status'[iter.thread] = status[iter.thread] /\ running' = running
      /\ Pending(t, "waiter") = {} /\ Pending(t, "after") = {}
  BY <1>0, HandEffect DEF Delay
<1>2. t \notin DOMAIN waiting /\ t \notin DOMAIN afters /\ ~IsDeferred(t)
  BY <1>1 DEF Queued, WaitsOrIsDeferred, IsDeferred
<1>3. /\ Within /\ clock' = clock /\ UNCHANGED <<afters, deferred>>
      /\ DOMAIN waiting' = DOMAIN waiting \cup {t}
      /\ waiting'[t] = [start |-> clock, length |-> s, argn |-> n]
      /\ \A u \in DOMAIN waiting \ {t} : waiting'[u] = waiting[u]
  <2>1. phase' = phase
    BY <1>0, <1>2 DEF Delay, Growing
  <2>2. Within /\ clock' = clock /\ UNCHANGED <<afters, deferred>>
    BY <2>1 DEF Delay, Call, Within
  <2> QED
    BY <1>2, <2>2 DEF Delay, Emplace
<1>4. ASSUME NEW u \in Threads \ {t}
      PROVE  Same(u)
  <2>1. LaterArgs(u)' = LaterArgs(u) /\ (IsDeferred(u)' <=> IsDeferred(u))
    BY <1>3, LaterKept DEF Within
  <2>2. SameEntries(u)
    BY <1>3, <2>1 DEF SameEntries
  <2> QED
    BY <1>1, <1>3, <2>1, <2>2, PlacesKept DEF Same, Within
<1>5. Concerns(t)
  BY <1>4 DEF Concerns
<1>6. \A u \in Threads \ {t} : ThreadInv(u)'
  BY <1>1, <1>3, <1>5, OthersKept DEF Within
<1>7. /\ StillDue(t)' /\ ~StillFollowing(t)' /\ LaterArgs(t)' = {} /\ ~StillLater(t)'
      /\ Pending(t, "waiter")' = {} /\ Pending(t, "after")' = {}
  <2>1. LaterArgs(t)' = LaterArgs(t)
    BY <1>1, <1>3, LaterKept DEF Within
  <2>2. \A type : Pending(t, type)' = Pending(t, type)
    BY <1>3 DEF Within, Pending
  <2> QED
    BY <1>0, <1>1, <1>2, <1>3, <2>1, <2>2
    DEF StillDue, StillFollowing, WillWait, WillFollow, BeingResumed, StillLater, Within, Live
<1>8. ThreadInv(t)'
  <2>1. OnePlace(t)' /\ Stacked(t)' /\ Inside(t)'
    BY <1>1, <1>3, <1>7 DEF OnePlace, Stacked, Inside, CanGoOn, Suspended, Active, Live
  <2>2. Served(t)' /\ Cleanable(t)'
    BY <1>2, <1>3, <1>7 DEF Served, Cleanable
  <2>3. Entered(t)'
    <3>1. s >= 1
      BY ScriptsAssumption DEF Careful
    <3> QED
      BY <1>2, <1>3, <3>1 DEF Entered
  <2> QED
    BY <2>1, <2>2, <2>3 DEF ThreadInv
<1>9. LoopInv'
  <2>1. DeferredLoop' /\ CallStack'
    BY <1>1, <1>3, DeferredLoopKept, CallStackKept DEF Within
  <2>2. clock' >= clock
    BY <1>3 DEF TypeInv, TypeOK, LoopTypeOK
  <2> QED
    BY <1>0, <1>3, <2>1, <2>2, LoopsKept
<1> QED
  BY <1>3, <1>5, <1>6, <1>7, <1>8, <1>9 DEF CarefulInv

\* task.do_after
LEMMA DoAfterStep ==
  ASSUME TypeInv, TypeInv', Careful, CarefulInv, Executing, NEW t \in Coroutines,
         NEW n \in 0 .. MaxArgs, NEW thread \in Awaitable, DoAfter(thread, t, n)
  PROVE  /\ Concerns(t) /\ CarefulInv' /\ Within /\ clock' = clock
         /\ UNCHANGED <<waiting, deferred>>
         /\ StillFollowing(t)' /\ ~StillDue(t)' /\ ~StillLater(t)'
         /\ afters'[t].after_this = thread
<1>0. n \in Nat /\ phase # "after"
  BY ScriptsAssumption
  DEF DoAfter, Call, Careful, CarefulScripts, Executing, ScriptPhases, CallPhases
<1>1. /\ t \in Threads /\ ThreadInv(t) /\ ~Queued(t) /\ ~Live(t)
      /\ status'[t] \in {"fresh", "in_yield"} /\ top'[t] = n
      /\ \A u \in Threads \ {t} : SameStatus(u)
      /\ iter.thread # t /\ status'[iter.thread] = status[iter.thread] /\ running' = running
      /\ Pending(t, "waiter") = {} /\ Pending(t, "after") = {}
  BY <1>0, HandEffect DEF DoAfter
<1>2. t \notin DOMAIN waiting /\ t \notin DOMAIN afters /\ ~IsDeferred(t)
  BY <1>1 DEF Queued, WaitsOrIsDeferred, IsDeferred
<1>3. /\ Within /\ clock' = clock /\ UNCHANGED <<waiting, deferred>>
      /\ DOMAIN afters' = DOMAIN afters \cup {t}
      /\ afters'[t] = [after_this |-> thread, argn |-> n]
      /\ \A u \in DOMAIN afters \ {t} : afters'[u] = afters[u]
  <2>1. phase' = phase
    BY <1>0, <1>2 DEF DoAfter, Growing
  <2>2. Within /\ clock' = clock /\ UNCHANGED <<waiting, deferred>>
    BY <2>1 DEF DoAfter, Call, Within
  <2> QED
    BY <1>2, <2>2 DEF DoAfter, Emplace
<1>4. ASSUME NEW u \in Threads \ {t}
      PROVE  Same(u)
  <2>1. LaterArgs(u)' = LaterArgs(u) /\ (IsDeferred(u)' <=> IsDeferred(u))
    BY <1>3, LaterKept DEF Within
  <2>2. SameEntries(u)
    BY <1>3, <2>1 DEF SameEntries
  <2> QED
    BY <1>1, <1>3, <2>1, <2>2, PlacesKept DEF Same, Within
<1>5. Concerns(t)
  BY <1>4 DEF Concerns
<1>6. \A u \in Threads \ {t} : ThreadInv(u)'
  BY <1>1, <1>3, <1>5, OthersKept DEF Within
<1>7. /\ StillFollowing(t)' /\ ~StillDue(t)' /\ LaterArgs(t)' = {} /\ ~StillLater(t)'
      /\ Pending(t, "waiter")' = {} /\ Pending(t, "after")' = {}
  <2>1. LaterArgs(t)' = LaterArgs(t)
    BY <1>1, <1>3, LaterKept DEF Within
  <2>2. \A type : Pending(t, type)' = Pending(t, type)
    BY <1>3 DEF Within, Pending
  <2> QED
    BY <1>0, <1>1, <1>2, <1>3, <2>1, <2>2
    DEF StillDue, StillFollowing, WillWait, WillFollow, BeingResumed, StillLater, Within, Live
<1>8. ThreadInv(t)'
  <2>1. OnePlace(t)' /\ Stacked(t)' /\ Inside(t)'
    BY <1>1, <1>3, <1>7 DEF OnePlace, Stacked, Inside, CanGoOn, Suspended, Active, Live
  <2>2. Served(t)' /\ Cleanable(t)'
    BY <1>2, <1>3, <1>7 DEF Served, Cleanable
  <2>3. Entered(t)'
    BY <1>2, <1>3, CarefulThreads DEF Entered
  <2> QED
    BY <2>1, <2>2, <2>3 DEF ThreadInv
<1>9. LoopInv'
  <2>1. DeferredLoop' /\ CallStack'
    BY <1>1, <1>3, DeferredLoopKept, CallStackKept DEF Within
  <2>2. clock' >= clock
    BY <1>3 DEF TypeInv, TypeOK, LoopTypeOK
  <2> QED
    BY <1>0, <1>3, <2>1, <2>2, LoopsKept
<1> QED
  BY <1>3, <1>5, <1>6, <1>7, <1>8, <1>9 DEF CarefulInv

\* task.defer
LEMMA DeferStep ==
  ASSUME TypeInv, TypeInv', Careful, CarefulInv, Executing, NEW t \in Coroutines,
         NEW n \in 0 .. MaxArgs, Defer(t, n)
  PROVE  /\ Concerns(t) /\ CarefulInv' /\ Within /\ clock' = clock /\ phase # "deferred"
         /\ UNCHANGED <<waiting, afters>>
         /\ StillLater(t)' /\ ~StillDue(t)' /\ ~StillFollowing(t)'
<1> DEFINE d == [thread |-> t, argn |-> n, held |-> TRUE]  m == Len(deferred)
<1>0. n \in Nat /\ phase # "deferred"
  BY ScriptsAssumption
  DEF Defer, Call, Careful, CarefulScripts, Executing, ScriptPhases, CallPhases
<1>1. /\ t \in Threads /\ ThreadInv(t) /\ ~Queued(t) /\ ~Live(t)
      /\ status'[t] \in {"fresh", "in_yield"} /\ top'[t] = n
      /\ \A u \in Threads \ {t} : SameStatus(u)
      /\ iter.thread # t /\ status'[iter.thread] = status[iter.thread] /\ running' = running
      /\ Pending(t, "waiter") = {} /\ Pending(t, "after") = {}
  BY <1>0, HandEffect DEF Defer
<1>2. t \notin DOMAIN waiting /\ t \notin DOMAIN afters /\ ~IsDeferred(t)
  BY <1>1 DEF Queued, WaitsOrIsDeferred, IsDeferred
<1>3. /\ Within /\ clock' = clock /\ UNCHANGED <<waiting, afters>>
      /\ deferred' = Append(deferred, d)
  <2>1. phase' = phase
    BY <1>0 DEF Defer, Growing
  <2> QED
    BY <2>1 DEF Defer, Call, Within
<1>d. d \in DeferredTasks /\ d.thread = t /\ d.argn = n /\ d.held
  BY <1>0, <1>1 DEF DeferredTasks
<1>e. /\ m \in Nat /\ DOMAIN deferred = 1 .. m /\ DOMAIN deferred' = 1 .. m + 1
      /\ \A i \in 1 .. m : deferred'[i] = deferred[i]
      /\ deferred'[m + 1] = d
  BY <1>3, <1>d, AppendProperties, LenProperties DEF TypeInv, TypeOK, QueuesTypeOK, DeferredTasks
<1>f. \A u \in Threads :
        /\ LaterArgs(u)' = LaterArgs(u) \cup (IF u = t THEN {n} ELSE {})
        /\ IsDeferred(u)' <=> IsDeferred(u) \/ u = t
  BY <1>0, <1>1, <1>3, <1>d, AppendedLater DEF Within
<1> HIDE DEF d, m
<1>4. ASSUME NEW u \in Threads \ {t}
      PROVE  Same(u)
  <2>1. LaterArgs(u)' = LaterArgs(u) /\ (IsDeferred(u)' <=> IsDeferred(u))
    BY <1>f
  <2>2. SameEntries(u)
    BY <1>3, <2>1 DEF SameEntries
  <2> QED
    BY <1>1, <1>3, <2>1, <2>2, PlacesKept DEF Same, Within
<1>5. Concerns(t)
  BY <1>4 DEF Concerns
<1>6. \A u \in Threads \ {t} : ThreadInv(u)'
  BY <1>1, <1>3, <1>5, OthersKept DEF Within
<1>7. /\ StillLater(t)' /\ ~StillDue(t)' /\ ~StillFollowing(t)' /\ LaterArgs(t)' = {n}
      /\ Pending(t, "waiter")' = {} /\ Pending(t, "after")' = {}
  <2>1. LaterArgs(t)' = {n}
    BY <1>1, <1>f DEF Live, StillLater
  <2>2. \A type : Pending(t, type)' = Pending(t, type)
    BY <1>3 DEF Within, Pending
  <2> QED
    BY <1>1, <1>2, <1>3, <2>1, <2>2
    DEF StillDue, StillFollowing, WillWait, WillFollow, StillLater
<1>8. ThreadInv(t)'
  <2>1. OnePlace(t)' /\ Stacked(t)' /\ Inside(t)'
    BY <1>1, <1>3, <1>7 DEF OnePlace, Stacked, Inside, CanGoOn, Suspended, Active, Live
  <2>2. Served(t)' /\ Cleanable(t)' /\ Entered(t)'
    BY <1>2, <1>3, <1>7 DEF Served, Cleanable, Entered
  <2> QED
    BY <2>1, <2>2 DEF ThreadInv
<1>9. LoopInv'
  <2>1. CallStack'
    BY <1>1, <1>3, CallStackKept DEF Within
  <2>2. clock' >= clock
    BY <1>3 DEF TypeInv, TypeOK, LoopTypeOK
  <2>3. DeferredLoop'
    <3>1. DeferredLoop /\ phase' # "deferred"
      BY <1>0, <1>3 DEF CarefulInv, LoopInv, Within
    <3>2. \A i \in 1 .. m : deferred[i].thread # t
      BY <1>2, <1>e DEF IsDeferred
    <3>3. StillDeferred = m /\ StillDeferred' = m + 1
      <4>1. Len(deferred') = m + 1
        BY <1>3, <1>d, AppendProperties DEF TypeInv, TypeOK, QueuesTypeOK, DeferredTasks, m
      <4> QED
        BY <1>0, <3>1, <4>1 DEF StillDeferred, m
    <3>4. \A i \in 1 .. m + 1 : i \in 1 .. m \/ i = m + 1
      BY <1>e
    <3>5. \A i, j \in 1 .. m + 1 : deferred'[i].thread = deferred'[j].thread => i = j
      BY <1>d, <1>e, <3>1, <3>2, <3>3, <3>4 DEF DeferredLoop
    <3>6. \A i \in 1 .. m + 1 : deferred'[i].held
      BY <1>0, <1>d, <1>e, <3>1, <3>4 DEF DeferredLoop
    <3> QED
      BY <1>e, <3>1, <3>3, <3>5, <3>6 DEF DeferredLoop
  <2> QED
    BY <1>3, <2>1, <2>2, <2>3, LoopsKept
<1> QED
  BY <1>0, <1>3, <1>5, <1>6, <1>7, <1>8, <1>9 DEF CarefulInv

\* Steps that the places, the stacks and the loops do not notice.
LEMMA QuietStep ==
  ASSUME TypeInv, TypeInv', CarefulInv, clock' >= clock,
         UNCHANGED <<vm, waiting, afters, deferred, cleaning, phase, iter, now>>
  PROVE  /\ CarefulInv' /\ \A u \in Threads : Same(u)
<1>1. ASSUME NEW u \in Threads
      PROVE  Same(u)
  <2>1. LaterArgs(u)' = LaterArgs(u) /\ (IsDeferred(u)' <=> IsDeferred(u))
    BY LaterKept
  <2>2. SameEntries(u) /\ SameStatus(u)
    BY <2>1 DEF SameEntries, SameStatus, vm
  <2> QED
    BY <2>1, <2>2, PlacesKept DEF Same
<1>2. \A u \in Threads : ThreadInv(u)'
  BY <1>1, KeptThread DEF CarefulInv
<1>3. DeferredLoop' /\ CallStack'
  BY DeferredLoopKept, CallStackKept DEF vm
<1> QED
  BY <1>1, <1>2, <1>3, LoopsKept DEF CarefulInv, Within

\* task.spawn
LEMMA SpawnStep ==
  ASSUME TypeInv, TypeInv', Careful, CarefulInv, Executing, NEW t \in Coroutines,
         NEW n \in 0 .. MaxArgs, Spawn(t, n)
  PROVE  /\ Concerns(t) /\ CarefulInv' /\ Within /\ clock' = clock
         /\ UNCHANGED <<waiting, afters, deferred>> /\ status'[t] = "running"
         /\ SameEntries(t) /\ SamePlaces(t) /\ ~Live(t)
<1>0. phase # "waiting"
  BY DEF Spawn, Call, Careful, CarefulScripts, Executing, ScriptPhases, CallPhases
<1>1. /\ t \in Threads /\ status[t] \in {"absent", "fresh", "in_yield"}
      /\ ~Queued(t) /\ ~Live(t) /\ top[t] = 0 /\ ThreadInv(t)
  BY CarefulThreads DEF CarefulInv
<1>2. /\ self \in Threads /\ status[self] \in Active /\ iter.thread \in Threads
      /\ status[iter.thread] \in Active /\ status[t] \notin Active
  BY <1>1, ExecutingThread DEF CarefulInv, Active
<1>3. /\ status' = [status EXCEPT ![t] = "running", ![self] = "normal"]
      /\ top' = [top EXCEPT ![t] = 0] /\ running' = <<t>> \o running
  BY <1>1, <1>2 DEF Spawn, CanRun, Suspended
<1>4. Within /\ clock' = clock /\ UNCHANGED <<waiting, afters, deferred>>
  BY DEF Spawn, Call, Within, queues
<1>5. /\ status'[t] = "running" /\ top'[t] = 0 /\ status'[iter.thread] \in Active
      /\ \A u \in Threads \ {t} : SameStatus(u)
  BY <1>1, <1>2, <1>3 DEF TypeInv, TypeOK, VmTypeOK, SameStatus, Active
<1>6. ASSUME NEW u \in Threads
      PROVE  SameEntries(u) /\ SamePlaces(u) /\ SameRequests(u)
  <2>1. LaterArgs(u)' = LaterArgs(u) /\ (IsDeferred(u)' <=> IsDeferred(u))
    BY <1>4, LaterKept DEF Within
  <2>2. SameEntries(u)
    BY <1>4, <2>1 DEF SameEntries
  <2> QED
    BY <1>4, <2>1, <2>2, PlacesKept DEF Within
<1>7. Concerns(t)
  BY <1>5, <1>6 DEF Concerns, Same
<1>8. \A u \in Threads : ThreadInv(u)'
  <2>1. \A u \in Threads \ {t} : ThreadInv(u)'
    BY <1>1, <1>4, <1>7, OthersKept DEF Within
  <2>2. ThreadInv(t)'
    BY <1>1, <1>4, <1>5, <1>6, UnscheduledThread DEF Within, CanGoOn, Suspended
  <2> QED
    BY <2>1, <2>2
<1>9. LoopInv'
  <2>1. CallStack'
    <3>1. /\ running \in Seq(Threads) /\ Len(running) \in Nat \ {0} /\ <<t>> \in Seq(Threads)
          /\ Len(<<t>>) = 1
      BY <1>1, EmptySeq, LenProperties DEF TypeInv, TypeOK, VmTypeOK, Executing
    <3>2. Len(running') = Len(running) + 1 /\ running'[Len(running) + 1] = running[Len(running)]
      BY <1>3, <3>1, ConcatProperties
    <3>3. Last(running') = Last(running) /\ running' # <<>>
      BY <3>1, <3>2 DEF Last
    <3> QED
      BY <1>0, <1>4, <1>5, <3>3 DEF CarefulInv, LoopInv, CallStack, Within, Executing, Active
  <2>2. DeferredLoop'
    BY <1>4, DeferredLoopKept DEF Within
  <2>3. clock' >= clock
    BY <1>4 DEF TypeInv, TypeOK, LoopTypeOK
  <2> QED
    BY <1>4, <2>1, <2>2, <2>3, LoopsKept
<1> QED
  BY <1>1, <1>4, <1>5, <1>6, <1>7, <1>8, <1>9 DEF CarefulInv

\* coroutine.create
LEMMA CreateStep ==
  ASSUME TypeInv, TypeInv', CarefulInv, Executing, NEW t \in Threads, Create(t)
  PROVE  /\ Concerns(t) /\ CarefulInv' /\ Within /\ clock' = clock
         /\ UNCHANGED <<waiting, afters, deferred>> /\ status'[t] = "fresh"
         /\ SameEntries(t) /\ SamePlaces(t) /\ status[t] = "absent"
<1>1. /\ status[t] = "absent" /\ ~Queued(t) /\ ThreadInv(t)
      /\ status' = [status EXCEPT ![t] = "fresh"] /\ UNCHANGED <<top, running>>
  BY DEF Create, CarefulInv, ThreadInv, OnePlace
<1>2. Within /\ clock' = clock /\ UNCHANGED <<waiting, afters, deferred>>
  BY DEF Create, Call, Within, queues
<1>3. ~Live(t) /\ top[t] = 0
  BY <1>1 DEF ThreadInv, OnePlace, CanGoOn, Suspended, Stacked
<1>4. iter.thread # t
  BY <1>1, ExecutingThread DEF CarefulInv, Active
<1>5. /\ status'[t] = "fresh" /\ top'[t] = 0 /\ status'[iter.thread] = status[iter.thread]
      /\ \A u \in Threads \ {t} : SameStatus(u)
  BY <1>1, <1>3, <1>4, ExecutingThread
  DEF CarefulInv, TypeInv, TypeOK, VmTypeOK, SameStatus, Active
<1>6. ASSUME NEW u \in Threads
      PROVE  SameEntries(u) /\ SamePlaces(u) /\ SameRequests(u)
  <2>1. LaterArgs(u)' = LaterArgs(u) /\ (IsDeferred(u)' <=> IsDeferred(u))
    BY <1>2, LaterKept DEF Within
  <2>2. SameEntries(u)
    BY <1>2, <2>1 DEF SameEntries
  <2> QED
    BY <1>2, <2>1, <2>2, PlacesKept DEF Within
<1>7. Concerns(t)
  BY <1>5, <1>6 DEF Concerns, Same
<1>8. \A u \in Threads : ThreadInv(u)'
  <2>1. \A u \in Threads \ {t} : ThreadInv(u)'
    BY <1>2, <1>7, OthersKept DEF Within
  <2>2. ThreadInv(t)'
    BY <1>1, <1>2, <1>3, <1>5, <1>6, UnscheduledThread DEF Within, Active
  <2> QED
    BY <2>1, <2>2
<1>9. LoopInv'
  <2>1. DeferredLoop' /\ CallStack'
    BY <1>1, <1>2, <1>5, DeferredLoopKept, CallStackKept DEF Within
  <2>2. clock' >= clock
    BY <1>2 DEF TypeInv, TypeOK, LoopTypeOK
  <2> QED
    BY <1>2, <2>1, <2>2, LoopsKept
<1> QED
  BY <1>1, <1>2, <1>5, <1>6, <1>7, <1>8, <1>9 DEF CarefulInv

\* task.cancel
LEMMA CancelStep ==
  ASSUME TypeInv, TypeInv', Careful, CarefulInv, Executing, NEW t \in Created, Cancel(t)
  PROVE  /\ Concerns(t) /\ CarefulInv' /\ Within /\ clock' = clock /\ afters' = afters
         /\ Live(t) /\ ~Live(t)' /\ status'[t] = "finished" /\ top'[t] = 0
         /\ ~StillFollowing(t) /\ phase # "deferred"
         /\ \/ deferred' = deferred /\ ~StillLater(t)
            \/ \E i \in DOMAIN deferred :
                 deferred[i].thread = t /\ deferred' = RemoveAt(deferred, i)
<1>0. phase \in {"scripts", "after"} /\ WaitsOrIsDeferred(t) /\ t \in Threads /\ ThreadInv(t)
  <2>1. "any_thread" \notin Ops[phase]
    BY CarefulThreads
  <2>2. phase \in {"scripts", "after"}
    BY DEF Cancel, Call, Careful, CarefulScripts, Executing, ScriptPhases, CallPhases
  <2> QED
    BY <2>1, <2>2 DEF Cancel, Created, CarefulInv
<1>1. t \in DOMAIN waiting \/ IsDeferred(t)
  BY <1>0 DEF WaitsOrIsDeferred, IsDeferred
<1>2. status[t] \notin Active
  BY <1>0, <1>1 DEF ThreadInv, Inside
<1>3. IsDeferred(t) <=> StillLater(t)
  BY <1>0, LaterOutside DEF StillLater, IsDeferred
<1>4. t \in DOMAIN waiting => StillDue(t)
  BY <1>0 DEF ThreadInv, Served
<1>5. ~StillFollowing(t) /\ Live(t)
  BY <1>0, <1>1, <1>3, <1>4 DEF ThreadInv, OnePlace, Live
<1>6. /\ status' = [status EXCEPT ![t] = "finished"] /\ top' = [top EXCEPT ![t] = 0]
      /\ FromWaiting(t) \/ FromDeferred(t)
      /\ UNCHANGED <<running, afters, cleaning, iter, now, clock>>
  BY <1>1, <1>2 DEF Cancel, Closable, FromNone, IsDeferred, Call
<1>7. /\ phase' = phase
      /\ \/ /\ t \in DOMAIN waiting /\ waiting' = Erase(waiting, t) /\ deferred' = deferred
            /\ ~StillLater(t)
         \/ /\ t \notin DOMAIN waiting /\ waiting' = waiting
            /\ \E i \in DOMAIN deferred :
                 deferred[i].thread = t /\ deferred' = RemoveAt(deferred, i)
  <2>1. CASE FromWaiting(t)
    BY <1>0, <1>4, <2>1 DEF FromWaiting, ThreadInv, OnePlace
  <2>2. CASE FromDeferred(t)
    <3>1. \A i \in DOMAIN deferred : deferred[i].held
      BY <1>0 DEF CarefulInv, LoopInv, DeferredLoop
    <3> QED
      BY <1>0, <2>2, <3>1 DEF FromDeferred
  <2> QED
    BY <1>6, <2>1, <2>2
<1>8. Within /\ clock' = clock /\ afters' = afters
  BY <1>6, <1>7 DEF Within
<1>9. /\ iter.thread # t /\ status'[iter.thread] = status[iter.thread]
      /\ status'[t] = "finished" /\ top'[t] = 0
      /\ \A u \in Threads \ {t} : SameStatus(u)
  BY <1>0, <1>2, <1>6, ExecutingThread
  DEF CarefulInv, TypeInv, TypeOK, VmTypeOK, SameStatus
<1>10. /\ DOMAIN waiting' = DOMAIN waiting \ {t}
       /\ \A u \in DOMAIN waiting' : waiting'[u] = waiting[u]
  BY <1>7 DEF Erase
<1>11. /\ \A u \in Threads \ {t} : /\ LaterArgs(u)' = LaterArgs(u)
                                   /\ IsDeferred(u)' <=> IsDeferred(u)
       /\ LaterArgs(t)' = {} /\ ~IsDeferred(t)'
  <2>1. CASE deferred' = deferred /\ ~StillLater(t)
    BY <1>0, <1>3, <1>8, <2>1, LaterKept DEF Within, StillLater
  <2>2. CASE \E i \in DOMAIN deferred :
               deferred[i].thread = t /\ deferred' = RemoveAt(deferred, i)
    BY <1>0, <1>8, <2>2, RemovedLater DEF CarefulInv, LoopInv, Within
  <2> QED
    BY <1>7, <2>1, <2>2
<1>12. ASSUME NEW u \in Threads \ {t}
       PROVE  Same(u)
  <2>1. SameEntries(u)
    BY <1>8, <1>10, <1>11 DEF SameEntries
  <2> QED
    BY <1>8, <1>9, <1>11, <2>1, PlacesKept DEF Same, Within
<1>13. Concerns(t)
  BY <1>12 DEF Concerns
<1>14. /\ Pending(t, "waiter")' = {} /\ Pending(t, "after")' = Pending(t, "after")
       /\ ~StillDue(t)' /\ ~StillFollowing(t)' /\ ~StillLater(t)' /\ ~Live(t)'
  <2>1. \A type : Pending(t, type)' = Pending(t, type)
    BY <1>8 DEF Within, Pending
  <2>2. Pending(t, "waiter") = {}
    BY <1>0, <1>4 DEF CarefulInv, LoopInv, Buffer, ThreadInv, Cleanable, StillDue, WillWait
  <2>3. ~StillFollowing(t)'
    BY <1>5, <1>8, <2>1 DEF StillFollowing, WillFollow, BeingResumed, Within
  <2> QED
    BY <1>10, <1>11, <2>1, <2>2, <2>3 DEF StillDue, WillWait, StillLater, Live
<1>15. ThreadInv(t)'
  <2>1. OnePlace(t)' /\ Stacked(t)' /\ Inside(t)'
    BY <1>9, <1>11, <1>14 DEF OnePlace, Stacked, Inside, CanGoOn, Suspended, Active
  <2>2. Served(t)' /\ Cleanable(t)' /\ Entered(t)'
    BY <1>0, <1>5, <1>8, <1>10, <1>14 DEF Served, Cleanable, Entered, ThreadInv, Within
  <2> QED
    BY <2>1, <2>2 DEF ThreadInv
<1>16. LoopInv'
  <2>1. CallStack'
    BY <1>6, <1>8, <1>9, CallStackKept DEF Within
  <2>2. clock' >= clock
    BY <1>8 DEF TypeInv, TypeOK, LoopTypeOK
  <2>3. CASE deferred' = deferred
    <3>1. DeferredLoop'
      BY <1>8, <2>3, DeferredLoopKept DEF Within
    <3> QED
      BY <1>0, <1>8, <2>1, <2>2, <3>1, LoopsKept
  <2>4. ASSUME NEW i \in DOMAIN deferred, deferred' = RemoveAt(deferred, i)
        PROVE  LoopInv'
    <3> DEFINE m == Len(deferred)
    <3>1. m \in Nat /\ deferred \in Seq(DeferredTasks) /\ i \in 1 .. m
      BY LenProperties DEF TypeInv, TypeOK, QueuesTypeOK, DeferredTasks
    <3>2. /\ DOMAIN deferred' = 1 .. m - 1 /\ Len(deferred') = m - 1
          /\ \A j \in 1 .. m - 1 : deferred'[j] = IF j < i THEN deferred[j] ELSE deferred[j + 1]
      BY <2>4, <3>1, RemoveAtElements
    <3>3. /\ \A j, k \in 1 .. m : deferred[j].thread = deferred[k].thread => j = k
          /\ \A j \in 1 .. m : deferred[j].held
      BY <1>0, StillDeferredType DEF CarefulInv, LoopInv, DeferredLoop, StillDeferred
    <3>4. StillDeferred' = m - 1 /\ phase' # "deferred"
      BY <1>0, <1>8, <3>2 DEF StillDeferred, Within
    <3>5. ASSUME NEW j \in 1 .. m - 1, NEW k \in 1 .. m - 1,
                 deferred'[j].thread = deferred'[k].thread
          PROVE  j = k
      <4>1. PICK p \in 1 .. m : deferred'[j] = deferred[p] /\ p = IF j < i THEN j ELSE j + 1
        BY <3>1, <3>2
      <4>2. PICK q \in 1 .. m : deferred'[k] = deferred[q] /\ q = IF k < i THEN k ELSE k + 1
        BY <3>1, <3>2
      <4>3. p = q
        BY <3>3, <3>5, <4>1, <4>2
      <4> QED
        BY <3>1, <4>1, <4>2, <4>3
    <3>6. \A j \in 1 .. m - 1 : deferred'[j].held
      BY <3>1, <3>2, <3>3
    <3>7. DeferredLoop'
      BY <3>2, <3>4, <3>5, <3>6 DEF DeferredLoop
    <3> QED
      BY <1>0, <1>8, <2>1, <2>2, <3>7, LoopsKept
  <2> QED
    BY <1>7, <2>3, <2>4
<1>17. CarefulInv'
  <2>1. \A u \in Threads \ {t} : ThreadInv(u)'
    BY <1>0, <1>8, <1>9, <1>13, OthersKept DEF Within
  <2> QED
    BY <1>15, <1>16, <2>1 DEF CarefulInv
<1> QED
  BY <1>0, <1>5, <1>7, <1>8, <1>9, <1>13, <1>14, <1>17

\* What is left of a script's step once the discipline has ruled out the rest.
LEMMA CarefulScript ==
  ASSUME TypeInv, Careful, CarefulInv, Script
  PROVE  \/ \E s \in Durations : Wait(s)
         \/ \E t \in Coroutines, n \in 0 .. MaxArgs :
              \/ Spawn(t, n)
              \/ Defer(t, n)
              \/ \E s \in Durations : Delay(s, t, n)
              \/ \E u \in Awaitable : DoAfter(u, t, n)
         \/ \E t \in Created : Cancel(t)
         \/ \E u \in Awaitable : WaitFor(u)
         \/ \E c \in CTasks : AddCTask(c)
         \/ \E t \in Threads : Create(t)
         \/ Yield
         \/ \E n \in 0 .. 1 : Finish(n)
         \/ Raise /\ Len(running) > 1
<1>1. /\ "raise" \notin Ops[phase] /\ "any_value" \notin Ops[phase]
      /\ "unyieldable" \notin Ops[phase]
  BY CarefulThreads DEF Script
<1>2. \A u : ~DoAfterNothing(u) /\ ~WaitForRefused(u)
  BY <1>1 DEF DoAfterNothing, WaitForRefused
<1>3. ~WaitRefused /\ (Raise => Len(running) > 1)
  BY <1>1 DEF Raise, WaitRefused
<1> QED
  BY <1>2, <1>3 DEF Script

LEMMA AddCTaskQuiet ==
  ASSUME TypeInv, Careful, CarefulInv, Executing, NEW c \in CTasks, AddCTask(c)
  PROVE  UNCHANGED <<vm, waiting, afters, deferred, cleaning, phase, iter, now, clock>>
<1>1. phase # "ctasks"
  BY DEF Executing, ScriptPhases
<1> QED
  BY <1>1 DEF AddCTask, Call, Growing

LEMMA ScriptCareful ==
  ASSUME TypeInv, TypeInv', Careful, CarefulInv, Script
  PROVE  CarefulInv'
<1>1. Executing
  BY DEF Script
<1>2. PICK x \in Threads : x = self
  BY <1>1, ExecutingThread DEF CarefulInv
<1>3. CASE \E s \in Durations : Wait(s)
  BY <1>1, <1>2, <1>3, WaitStep
<1>4. CASE \E t \in Coroutines, n \in 0 .. MaxArgs : Spawn(t, n) \/ Defer(t, n)
  BY <1>1, <1>4, SpawnStep, DeferStep
<1>5. CASE \E t \in Coroutines, n \in 0 .. MaxArgs : \E s \in Durations : Delay(s, t, n)
  BY <1>1, <1>5, DelayStep
<1>6. CASE \E t \in Coroutines, n \in 0 .. MaxArgs : \E u \in Awaitable : DoAfter(u, t, n)
  BY <1>1, <1>6, DoAfterStep
<1>7. CASE \E t \in Created : Cancel(t)
  BY <1>1, <1>7, CancelStep
<1>8. CASE \E u \in Awaitable : WaitFor(u)
  BY <1>1, <1>2, <1>8, WaitForStep
<1>9. CASE \E c \in CTasks : AddCTask(c)
  <2>1. UNCHANGED <<vm, waiting, afters, deferred, cleaning, phase, iter, now, clock>>
    BY <1>1, <1>9, AddCTaskQuiet
  <2> QED
    BY <2>1, QuietStep DEF TypeInv, TypeOK, LoopTypeOK
<1>10. CASE \E t \in Threads : Create(t)
  BY <1>1, <1>10, CreateStep
<1>11. CASE Yield
  <2>1. Leave("in_yield", 0) /\ UNCHANGED <<queues, phase, iter, now, clock>>
    BY <1>11 DEF Yield, Call
  <2> QED
    BY <1>1, <1>2, <2>1, LeaveStep
<1>12. ASSUME NEW n \in 0 .. 1, Finish(n)
       PROVE  CarefulInv'
  <2>1. Leave("finished", n) /\ UNCHANGED <<queues, phase, iter, now, clock>>
    BY <1>12 DEF Finish, times
  <2> QED
    BY <1>1, <1>2, <2>1, LeaveStep
<1>13. CASE Raise /\ Len(running) > 1
  <2>1. Leave("errored", 0) /\ UNCHANGED <<queues, phase, iter, now, clock>>
    BY <1>13 DEF Raise, times
  <2> QED
    BY <1>1, <1>2, <1>13, <2>1, LeaveStep
<1> QED
  BY <1>3, <1>4, <1>5, <1>6, <1>7, <1>8, <1>9, <1>10, <1>11, <1>12, <1>13, CarefulScript

-----------------------------------------------------------------------------
(***************************************************************************)
(* What the host does.  No thread is active when it moves on.              *)
(***************************************************************************)
FewerEntries(u) ==
  /\ u \in DOMAIN waiting' => u \in DOMAIN waiting /\ waiting'[u] = waiting[u]
  /\ u \in DOMAIN afters' => u \in DOMAIN afters /\ afters'[u] = afters[u]
  /\ IsDeferred(u)' => IsDeferred(u)

LEMMA NoneActive ==
  ASSUME TypeInv, running = <<>>
  PROVE  \A t \in Threads : status[t] \notin Active
BY DEF TypeInv, TypeOK, VmTypeOK

LEMMA HostKeepsThread ==
  ASSUME NEW u \in Threads, ThreadInv(u), status[u] \notin Active,
         status'[u] = status[u], top'[u] = top[u], FewerEntries(u), SamePlaces(u),
         Cleanable(u)', Served(u)'
  PROVE  ThreadInv(u)'
<1>1. /\ CanGoOn(u)' <=> CanGoOn(u)
      /\ StillLater(u)' <=> StillLater(u)
      /\ Live(u)' <=> Live(u)
  BY DEF CanGoOn, SamePlaces, StillLater, Live
<1>2. Queued(u)' => Queued(u)
  BY DEF FewerEntries, Queued, WaitsOrIsDeferred, IsDeferred
<1>3. OnePlace(u)'
  BY <1>1, <1>2 DEF OnePlace, SamePlaces, ThreadInv
<1>4. Stacked(u)'
  <2>1. /\ StillDue(u)' => u \in DOMAIN waiting'
        /\ StillFollowing(u)' => u \in DOMAIN afters'
    BY DEF StillDue, WillWait, StillFollowing, WillFollow
  <2> QED
    BY <1>1, <2>1 DEF Stacked, SamePlaces, FewerEntries, ThreadInv
<1>5. Inside(u)' /\ Entered(u)'
  BY DEF Inside, Entered, FewerEntries, ThreadInv
<1> QED
  BY <1>3, <1>4, <1>5 DEF ThreadInv

\* Served entries, in a step that stays in a phase or goes on with the step.
LEMMA StillServed ==
  ASSUME NEW u \in Threads, ThreadInv(u), FewerEntries(u), SamePlaces(u), now' = now,
         \/ phase' = phase
         \/ phase = "after" /\ phase' = "deferred"
         \/ phase = "deferred" /\ phase' = "waiting"
         \/ phase \in {"waiting", "ctasks"} /\ phase' \in {"ctasks", "clean", "failed"}
  PROVE  Served(u)'
<1>1. StillLater(u)' <=> StillLater(u)
  BY DEF SamePlaces, StillLater
<1>2. StillDue(u)' => u \in DOMAIN waiting'
  BY DEF StillDue, WillWait
<1> QED
  BY <1>1, <1>2 DEF Served, FewerEntries, SamePlaces, ThreadInv

\* The slot that a loop looks at has not been passed by.
LEMMA AtNotPassed ==
  ASSUME TypeInv, NEW map, NEW t, AtSlot(map, t, iter.at)
  PROVE  ~PassedBy(map, t)
BY DEF PassedBy, AtSlot, TypeInv, TypeOK, LoopTypeOK, Loops

\* Before the step.
Opened(x, start) ==
  /\ x \in DOMAIN waiting <=> phase = "waiting"
  /\ x \in DOMAIN afters <=> phase = "after"
  /\ IsDeferred(x) <=> phase = "deferred"
  /\ phase = "waiting" => /\ AtSlot(waiting, x, iter.at) /\ start = waiting[x].start
                          /\ start < now
  /\ phase = "after" => AtSlot(afters, x, iter.at)
  /\ phase = "deferred" => iter.at >= 1 /\ deferred[iter.at].thread = x

LEMMA ResumeStep ==
  ASSUME TypeInv, TypeInv', CarefulInv, Idle, phase \in ScriptPhases,
         NEW x \in Threads, NEW n, NEW start, HostResume(x, n, start), CanRun(x, n),
         Opened(x, start), UNCHANGED <<queues, pins, times>>
  PROVE  /\ Concerns(x) /\ CarefulInv' /\ ~Live(x)' /\ status'[x] = "running"
         /\ status[x] \in {"absent", "fresh"} \cup Suspended /\ phase' = phase
         /\ iter'.thread = x /\ UNCHANGED <<waiting, afters, deferred, cleaning, clock>>
<1>1. /\ UNCHANGED <<waiting, afters, deferred, cleaning, now, clock>>
      /\ running = <<>> /\ iter.thread = NoThread
  BY DEF queues, times, Idle
<1>2. status[x] \in {"absent", "fresh"} \cup Suspended
  BY DEF CanRun, Suspended
<1>3. ~ReadsBelow(x, n)
  BY <1>2 DEF ReadsBelow, Suspended
<1>4. /\ status' = [status EXCEPT ![x] = "running"] /\ top' = [top EXCEPT ![x] = 0]
      /\ running' = <<x>> /\ phase' = phase
      /\ iter' = [iter EXCEPT !.thread = x, !.start = start]
  BY <1>3 DEF HostResume
<1>5. /\ status'[x] = "running" /\ top'[x] = 0
      /\ \A u \in Threads \ {x} : status'[u] = status[u] /\ SameStatus(u)
  BY <1>4 DEF TypeInv, TypeOK, VmTypeOK, SameStatus
<1>6. /\ iter'.thread = x /\ iter'.start = start /\ iter'.at = iter.at /\ iter'.stop = iter.stop
      /\ x # NoThread /\ iter.at \in Int
  BY <1>4, ThreadsAssumption DEF TypeInv, TypeOK, LoopTypeOK, Loops, Threads, NoThread
<1>7. \A t, type : Pending(t, type)' = Pending(t, type)
  BY <1>1, <1>4, <1>6 DEF Pending
<1>8. /\ phase = "deferred" => /\ StillDeferred = iter.at /\ StillDeferred' = iter.at - 1
                               /\ iter.at \in DOMAIN deferred
      /\ phase # "deferred" => StillDeferred' = StillDeferred
  BY <1>1, <1>4, <1>6, StillDeferredType DEF StillDeferred, Opened, TypeInv, LoopsInBounds
<1>9. \A i, j \in 1 .. StillDeferred : deferred[i].thread = deferred[j].thread => i = j
  BY DEF CarefulInv, LoopInv, DeferredLoop
<1>10. ASSUME NEW u \in Threads \ {x}
       PROVE  LaterArgs(u)' = LaterArgs(u)
  <2>1. CASE phase # "deferred"
    BY <1>1, <1>8, <2>1 DEF LaterArgs
  <2>2. CASE phase = "deferred"
    <3>1. {j \in 1 .. iter.at : deferred[j].thread = u}
            = {j \in 1 .. iter.at - 1 : deferred[j].thread = u}
      BY <1>6, <2>2 DEF Opened
    <3> QED
      BY <1>1, <1>8, <2>2, <3>1 DEF LaterArgs
  <2> QED
    BY <2>1, <2>2
<1>11. LaterArgs(x)' = {}
  <2>1. CASE phase # "deferred"
    BY <1>1, <1>8, <2>1, StillDeferredType DEF LaterArgs, Opened, IsDeferred
  <2>2. CASE phase = "deferred"
    <3>1. \A j \in 1 .. iter.at - 1 : deferred[j].thread # x
      BY <1>6, <1>8, <1>9, <2>2 DEF Opened
    <3> QED
      BY <1>1, <1>8, <2>2, <3>1 DEF LaterArgs
  <2> QED
    BY <2>1, <2>2
<1>12. ASSUME NEW u \in Threads
       PROVE  SameEntries(u) /\ SameRequests(u)
  BY <1>1, <1>7 DEF SameEntries, SameRequests, IsDeferred
<1>13. ASSUME NEW u \in Threads \ {x}
       PROVE  Same(u)
  <2>1. u # iter.thread /\ u # iter'.thread
    BY <1>1, <1>6, ThreadsAssumption DEF Threads, NoThread
  <2>2. SamePlaces(u)
    BY <1>1, <1>4, <1>7, <1>10, <2>1
    DEF SamePlaces, StillDue, StillFollowing, WillWait, WillFollow, BeingResumed
  <2> QED
    BY <1>5, <1>12, <2>2 DEF Same
<1>14. ~StillDue(x)' /\ ~StillFollowing(x)' /\ ~StillLater(x)' /\ ~Live(x)'
  BY <1>1, <1>4, <1>6, <1>11
  DEF StillDue, StillFollowing, WillWait, WillFollow, BeingResumed, StillLater, Live, Opened
<1>15. ThreadInv(x)'
  <2>1. ThreadInv(x)
    BY DEF CarefulInv
  <2>2. OnePlace(x)' /\ Stacked(x)'
    BY <1>5, <1>11, <1>14 DEF OnePlace, Stacked, CanGoOn, Suspended, Live
  <2>3. Inside(x)'
    BY <1>1, <1>4, <1>6, <1>12 DEF Inside, Opened, SameEntries
  <2>4. Served(x)'
    BY <1>1, <1>4, <1>14 DEF Served, Opened
  <2>5. Cleanable(x)' /\ Entered(x)'
    BY <1>1, <1>12, <2>1 DEF Cleanable, Entered, SameRequests, ThreadInv
  <2> QED
    BY <2>2, <2>3, <2>4, <2>5 DEF ThreadInv
<1>16. LoopInv'
  <2>1. AfterLoop'
    BY <1>1, <1>4, <1>6, <1>7 DEF CarefulInv, LoopInv, AfterLoop, Opened, AtSlot, Size, PassedBy
  <2>2. WaitingLoop'
    BY <1>1, <1>4, <1>6, <1>7 DEF CarefulInv, LoopInv, WaitingLoop, Opened, AtSlot, Size, PassedBy
  <2>3. DeferredLoop'
    <3>1. 1 .. StillDeferred' \subseteq 1 .. StillDeferred
      BY <1>6, <1>8
    <3> QED
      BY <1>1, <1>4, <1>6, <3>1 DEF CarefulInv, LoopInv, DeferredLoop, Opened
  <2>4. CallStack'
    <3>1. Last(running') = x /\ Len(running') = 1
      BY <1>4 DEF Last
    <3> QED
      BY <1>4, <1>5, <1>6, <3>1 DEF CallStack
  <2>5. Buffer' /\ PhaseInv'
    BY <1>1, <1>4, <1>6, <1>7 DEF CarefulInv, LoopInv, Buffer, PhaseInv, ScriptPhases
  <2> QED
    BY <2>1, <2>2, <2>3, <2>4, <2>5 DEF LoopInv
<1>17. Concerns(x)
  BY <1>13 DEF Concerns
<1>18. CarefulInv'
  <2>1. \A u \in Threads \ {x} : ThreadInv(u)'
    <3>1. \A u \in Threads \ {x} : status[u] \notin Active
      BY <1>1, NoneActive
    <3> QED
      BY <1>1, <1>4, <1>17, <3>1, OthersKept
  <2> QED
    BY <1>15, <1>16, <2>1 DEF CarefulInv
<1> QED
  BY <1>1, <1>2, <1>4, <1>5, <1>6, <1>14, <1>17, <1>18

\* What is known of a thread at the entry that is to resume it.
LEMMA AtItsPlace ==
  ASSUME TypeInv, CarefulInv, NEW x \in Threads, Live(x)
  PROVE  /\ CanGoOn(x)
         /\ phase \in {"scripts", "ready", "after", "deferred"} /\ x \in DOMAIN waiting => StillDue(x)
         /\ phase # "deferred" => (IsDeferred(x) <=> StillLater(x))
         /\ StillLater(x) => x \notin DOMAIN waiting /\ x \notin DOMAIN afters
<1>1. ThreadInv(x)
  BY DEF CarefulInv
<1>2. phase # "deferred" => (IsDeferred(x) <=> StillLater(x))
  <2> SUFFICES ASSUME phase # "deferred"
               PROVE  IsDeferred(x) <=> StillLater(x)
    OBVIOUS
  <2>1. LaterArgs(x) = {deferred[i].argn : i \in {j \in DOMAIN deferred : deferred[j].thread = x}}
    BY LaterOutside
  <2> QED
    BY <2>1 DEF StillLater, IsDeferred
<1>3. StillLater(x) => x \notin DOMAIN waiting /\ x \notin DOMAIN afters
  BY <1>1 DEF ThreadInv, OnePlace, Served
<1> QED
  BY <1>1, <1>2, <1>3 DEF ThreadInv, OnePlace, Served

\* dluau_run resumes a main script.
LEMMA RunScriptStep ==
  ASSUME TypeInv, TypeInv', CarefulInv, NEW t \in Threads, RunScript(t)
  PROVE  /\ Concerns(t) /\ CarefulInv' /\ ~Live(t) /\ ~Live(t)'
         /\ status'[t] = "running" /\ status[t] = "absent" /\ iter.thread = NoThread
         /\ iter'.thread = t /\ phase' = phase
         /\ UNCHANGED <<waiting, afters, deferred, cleaning, clock>>
<1>1. /\ phase = "scripts" /\ Idle /\ status[t] = "absent" /\ HostResume(t, 0, 0)
      /\ UNCHANGED <<queues, pins, times>>
  BY DEF RunScript
<1>2. ThreadInv(t)
  BY DEF CarefulInv
<1>3. ~Queued(t) /\ ~Live(t) /\ top[t] = 0
  BY <1>1, <1>2 DEF ThreadInv, OnePlace, Stacked, CanGoOn, Suspended
<1>4. Opened(t, 0)
  BY <1>1, <1>3 DEF Opened, Queued, WaitsOrIsDeferred, IsDeferred
<1>5. CanRun(t, 0)
  BY <1>1, <1>3 DEF CanRun
<1>6. /\ Concerns(t) /\ CarefulInv' /\ ~Live(t)' /\ status'[t] = "running" /\ phase' = phase
      /\ iter'.thread = t /\ UNCHANGED <<waiting, afters, deferred, cleaning, clock>>
  <2>1. phase \in ScriptPhases
    BY <1>1 DEF ScriptPhases
  <2> QED
    BY <1>1, <1>4, <1>5, <2>1, ResumeStep
<1> QED
  BY <1>1, <1>3, <1>6 DEF Idle

\* task_step resumes a thread that follows one that has ended.
LEMMA ResumeAfterStep ==
  ASSUME TypeInv, TypeInv', CarefulInv, NEW t \in Threads, ResumeAfter(t)
  PROVE  /\ Concerns(t) /\ CarefulInv' /\ StillFollowing(t) /\ ~Live(t)'
         /\ status'[t] = "running" /\ CanGoOn(t) /\ iter.thread = NoThread
         /\ iter'.thread = t /\ phase = "after" /\ phase' = phase
         /\ UNCHANGED <<waiting, afters, deferred, cleaning, clock>>
<1>1. /\ phase = "after" /\ Idle /\ iter.thread = NoThread /\ AtSlot(afters, t, iter.at)
      /\ HostResume(t, afters[t].argn, 0) /\ UNCHANGED <<queues, pins, times>>
      /\ t \in DOMAIN afters
  BY DEF ResumeAfter, VisitAfter, Idle, AtSlot
<1>2. ThreadInv(t)
  BY DEF CarefulInv
<1>3. StillFollowing(t)
  <2>1. Pending(t, "after") = {}
    BY <1>1, AtNotPassed DEF CarefulInv, LoopInv, AfterLoop
  <2> QED
    BY <1>1, <2>1, ThreadsAssumption
    DEF StillFollowing, WillFollow, BeingResumed, Threads, NoThread
<1>4. t \notin DOMAIN waiting /\ ~IsDeferred(t) /\ CanGoOn(t) /\ top[t] = afters[t].argn
  BY <1>1, <1>2, <1>3, AtItsPlace DEF ThreadInv, OnePlace, Stacked, Live
<1>5. Opened(t, 0) /\ CanRun(t, afters[t].argn)
  BY <1>1, <1>4 DEF Opened, CanRun, CanGoOn
<1>6. /\ Concerns(t) /\ CarefulInv' /\ ~Live(t)' /\ status'[t] = "running" /\ phase' = phase
      /\ iter'.thread = t /\ UNCHANGED <<waiting, afters, deferred, cleaning, clock>>
  <2>1. phase \in ScriptPhases
    BY <1>1 DEF ScriptPhases
  <2> QED
    BY <1>1, <1>5, <2>1, ResumeStep
<1> QED
  BY <1>1, <1>3, <1>4, <1>6

\* The newest deferred thread that has not had its turn.
LEMMA ResumeDeferredStep ==
  ASSUME TypeInv, TypeInv', CarefulInv, ResumeDeferred,
         NEW t \in Threads, t = deferred[iter.at].thread
  PROVE  /\ Concerns(t) /\ CarefulInv' /\ StillLater(t) /\ ~Live(t)'
         /\ status'[t] = "running" /\ CanGoOn(t) /\ iter.thread = NoThread
         /\ iter'.thread = t /\ phase = "deferred" /\ phase' = phase /\ iter'.at = iter.at
         /\ UNCHANGED <<waiting, afters, deferred, cleaning, clock>>
<1>1. /\ phase = "deferred" /\ Idle /\ iter.thread = NoThread /\ iter.at >= iter.stop
      /\ HostResume(t, deferred[iter.at].argn, 0) /\ UNCHANGED <<queues, pins, times>>
  BY DEF ResumeDeferred, Idle, CountingDown
<1>2. ThreadInv(t)
  BY DEF CarefulInv
<1>3. StillDeferred = iter.at /\ iter.at \in DOMAIN deferred /\ iter.at \in 1 .. iter.at
  BY <1>1, StillDeferredType DEF StillDeferred, TypeInv, LoopsInBounds
<1>4. deferred[iter.at].argn \in LaterArgs(t)
  BY <1>3 DEF LaterArgs
<1>5. StillLater(t) /\ top[t] = deferred[iter.at].argn /\ IsDeferred(t)
  BY <1>2, <1>3, <1>4 DEF StillLater, ThreadInv, Stacked, IsDeferred
<1>6. t \notin DOMAIN waiting /\ t \notin DOMAIN afters /\ CanGoOn(t)
  BY <1>5, AtItsPlace DEF Live
<1>7. Opened(t, 0) /\ CanRun(t, deferred[iter.at].argn)
  BY <1>1, <1>3, <1>5, <1>6 DEF Opened, CanRun, CanGoOn
<1>8. /\ Concerns(t) /\ CarefulInv' /\ ~Live(t)' /\ status'[t] = "running" /\ phase' = phase
      /\ iter'.thread = t /\ UNCHANGED <<waiting, afters, deferred, cleaning, clock>>
  <2>1. phase \in ScriptPhases
    BY <1>1 DEF ScriptPhases
  <2> QED
    BY <1>1, <1>7, <2>1, ResumeStep
<1>9. iter'.at = iter.at
  <2>1. CASE ReadsBelow(t, deferred[iter.at].argn)
    BY <1>1, <2>1 DEF HostResume
  <2>2. CASE ~ReadsBelow(t, deferred[iter.at].argn)
    <3>1. iter' = [iter EXCEPT !.thread = t, !.start = 0]
      BY <1>1, <2>2 DEF HostResume
    <3> QED
      BY <3>1 DEF TypeInv, TypeOK, LoopTypeOK, Loops
  <2> QED
    BY <2>1, <2>2
<1> QED
  BY <1>1, <1>5, <1>6, <1>8, <1>9

\* A waiter whose time has come.
LEMMA ResumeWaiterStep ==
  ASSUME TypeInv, TypeInv', CarefulInv, NEW t \in Threads, ResumeWaiter(t)
  PROVE  /\ Concerns(t) /\ CarefulInv' /\ StillDue(t) /\ ~Live(t)'
         /\ status'[t] = "running" /\ CanGoOn(t) /\ iter.thread = NoThread
         /\ iter'.thread = t /\ phase = "waiting" /\ phase' = phase
         /\ waiting[t].start + waiting[t].length <= clock
         /\ UNCHANGED <<waiting, afters, deferred, cleaning, clock>>
<1>1. /\ phase = "waiting" /\ Idle /\ iter.thread = NoThread /\ AtSlot(waiting, t, iter.at)
      /\ HostResume(t, waiting[t].argn, waiting[t].start) /\ UNCHANGED <<queues, pins, times>>
      /\ t \in DOMAIN waiting /\ now - waiting[t].start >= waiting[t].length
  BY DEF ResumeWaiter, VisitWaiter, Idle, AtSlot, Due
<1>2. ThreadInv(t)
  BY DEF CarefulInv
<1>3. StillDue(t)
  <2>1. Pending(t, "waiter") = {}
    BY <1>1, AtNotPassed DEF CarefulInv, LoopInv, WaitingLoop
  <2> QED
    BY <1>1, <2>1, ThreadsAssumption DEF StillDue, WillWait, BeingResumed, Threads, NoThread
<1>4. waiting[t].start < now /\ waiting[t].start + waiting[t].length <= clock
  <2>1. waiting[t].length >= 1 /\ now <= clock
    BY <1>1, <1>2 DEF ThreadInv, Entered, CarefulInv, LoopInv, PhaseInv
  <2>2. waiting[t].start \in Nat /\ waiting[t].length \in Nat /\ now \in Nat /\ clock \in Nat
    BY <1>1 DEF TypeInv, TypeOK, QueuesTypeOK, LoopTypeOK, IsMap, Waiters
  <2> QED
    BY <1>1, <2>1, <2>2
<1>5. t \notin DOMAIN afters
  <2>1. waiting[t].start \in Nat /\ now \in Nat
    BY <1>1 DEF TypeInv, TypeOK, QueuesTypeOK, LoopTypeOK, IsMap, Waiters
  <2>2. ~StillFollowing(t) /\ ~(waiting[t].start >= now)
    BY <1>2, <1>3, <1>4, <2>1 DEF ThreadInv, OnePlace
  <2> QED
    BY <1>2, <1>3, <2>2 DEF ThreadInv, Served
<1>6. ~IsDeferred(t) /\ CanGoOn(t)
  BY <1>1, <1>2, <1>3, AtItsPlace DEF ThreadInv, OnePlace, Live
<1>7. Opened(t, waiting[t].start) /\ CanRun(t, waiting[t].argn)
  <2>1. CanRun(t, waiting[t].argn)
    BY <1>2, <1>3, <1>6 DEF CanRun, CanGoOn, ThreadInv, Stacked, Suspended
  <2> QED
    BY <1>1, <1>4, <1>5, <1>6, <2>1 DEF Opened
<1>8. /\ Concerns(t) /\ CarefulInv' /\ ~Live(t)' /\ status'[t] = "running" /\ phase' = phase
      /\ iter'.thread = t /\ UNCHANGED <<waiting, afters, deferred, cleaning, clock>>
  <2>1. phase \in ScriptPhases
    BY <1>1 DEF ScriptPhases
  <2> QED
    BY <1>1, <1>7, <2>1, ResumeStep
<1> QED
  BY <1>1, <1>3, <1>4, <1>6, <1>8

-----------------------------------------------------------------------------
\* No step of the loops is left without the slot it is at.
LEMMA InLastSlot ==
  ASSUME NEW map, NEW E, IsMap(map, E), NEW t, NEW i \in Int, AtSlot(map, t, i)
  PROVE  i <= Size(map) /\ i >= 1
<1> DEFINE D == {u \in DOMAIN map : u < t}
<1>1. IsFiniteSet(DOMAIN map) /\ Size(map) \in Nat
  BY SizeType
<1>2. D \subseteq DOMAIN map \ {t} /\ t \in DOMAIN map /\ DOMAIN map \subseteq Threads
  BY ThreadsAssumption DEF AtSlot, IsMap, Threads
<1>3. IsFiniteSet(DOMAIN map \ {t}) /\ Cardinality(DOMAIN map \ {t}) = Cardinality(DOMAIN map) - 1
  BY <1>1, <1>2, FS_RemoveElement
<1>4. Cardinality(D) <= Cardinality(DOMAIN map) - 1 /\ Cardinality(D) \in Nat
  BY <1>2, <1>3, FS_Subset, FS_CardinalityType
<1>5. Cardinality(D) = i - 1
  BY DEF AtSlot
<1> QED
  BY <1>1, <1>4, <1>5 DEF Size

LEMMA OneInSlot ==
  ASSUME NEW map, NEW E, IsMap(map, E), NEW t, NEW u, NEW i \in Int,
         AtSlot(map, t, i), AtSlot(map, u, i)
  PROVE  t = u
<1> DEFINE Below(x) == {y \in DOMAIN map : y < x}
<1>1. IsFiniteSet(DOMAIN map) /\ t \in DOMAIN map /\ u \in DOMAIN map
      /\ DOMAIN map \subseteq Int
  BY SizeType, ThreadsAssumption DEF AtSlot, IsMap, Threads
<1>2. Cardinality(Below(t)) = Cardinality(Below(u))
  BY DEF AtSlot
<1>3. ASSUME NEW x \in DOMAIN map, NEW y \in DOMAIN map, x < y
      PROVE  Cardinality(Below(x)) # Cardinality(Below(y))
  <2>1. Below(x) \subseteq Below(y) \ {x} /\ x \in Below(y) /\ Below(y) \subseteq DOMAIN map
    BY <1>1, <1>3
  <2>2. IsFiniteSet(Below(y))
    BY <1>1, <2>1, FS_Subset
  <2>3. IsFiniteSet(Below(y) \ {x}) /\ Cardinality(Below(y) \ {x}) = Cardinality(Below(y)) - 1
    BY <2>1, <2>2, FS_RemoveElement
  <2>4. /\ Cardinality(Below(x)) <= Cardinality(Below(y) \ {x})
        /\ Cardinality(Below(y)) \in Nat /\ Cardinality(Below(x)) \in Nat
    BY <2>1, <2>2, <2>3, FS_Subset, FS_CardinalityType
  <2> QED
    BY <2>3, <2>4
<1> HIDE DEF Below
<1>4. ~(t < u) /\ ~(u < t)
  BY <1>1, <1>2, <1>3
<1> QED
  BY <1>1, <1>4

\* The host goes on to the next slot, with no thread resumed.
LEMMA AdvanceEffect ==
  ASSUME TypeInv, NEW step \in Int, iter' = Advanced(step)
  PROVE  iter'.at = iter.at + step /\ iter'.stop = iter.stop /\ iter'.thread = NoThread
BY DEF TypeInv, TypeOK, LoopTypeOK, Loops, Advanced

LEMMA SkipStep ==
  ASSUME TypeInv, TypeInv', CarefulInv, phase \in {"scripts", "after", "waiting"},
         running = <<>>, iter.thread # NoThread => phase = "scripts",
         iter' = Advanced(1), UNCHANGED <<vm, queues, times, phase>>
  PROVE  CarefulInv' /\ \A u \in Threads : Same(u)
<1>1. /\ UNCHANGED <<status, top, running, waiting, afters, deferred, cleaning, now, clock, phase>>
      /\ iter'.at = iter.at + 1 /\ iter'.stop = iter.stop
      /\ iter'.thread = NoThread /\ iter.at \in Int
      /\ iter.thread # NoThread => phase = "scripts"
  BY AdvanceEffect DEF vm, queues, times, TypeInv, TypeOK, LoopTypeOK, Loops
<1>2. \A t, type : Pending(t, type)' = Pending(t, type)
  BY <1>1 DEF Pending
<1>3. StillDeferred' = StillDeferred
  BY <1>1 DEF StillDeferred
<1>4. ASSUME NEW u \in Threads
      PROVE  Same(u)
  <2>1. SameEntries(u) /\ SameRequests(u) /\ SameStatus(u)
    BY <1>1, <1>2 DEF SameEntries, SameRequests, SameStatus, IsDeferred
  <2>2. u # NoThread
    BY ThreadsAssumption DEF Threads, NoThread
  <2>3. SamePlaces(u)
    BY <1>1, <1>2, <1>3, <2>2
    DEF SamePlaces, StillDue, StillFollowing, WillWait, WillFollow, BeingResumed, LaterArgs
  <2> QED
    BY <2>1, <2>3 DEF Same
<1>5. \A u \in Threads : ThreadInv(u)'
  <2>1. \A u \in Threads : status[u] \notin Active
    BY <1>1, NoneActive
  <2> QED
    BY <1>1, <1>4, <2>1, KeptThread DEF CarefulInv
<1>6. \A map, t : PassedBy(map, t) => \E s \in 1 .. iter'.at - 1 : AtSlot(map, t, s)
  BY <1>1 DEF PassedBy
<1>7. AfterLoop'
  <2>1. \A t : PassedBy(afters, t) => PassedBy(afters, t)'
    BY <1>1, <1>6 DEF PassedBy, AtSlot
  <2> QED
    BY <1>1, <1>2, <2>1 DEF CarefulInv, LoopInv, AfterLoop, Size
<1>8. WaitingLoop'
  <2>1. \A t : PassedBy(waiting, t) => PassedBy(waiting, t)'
    BY <1>1, <1>6 DEF PassedBy, AtSlot
  <2> QED
    BY <1>1, <1>2, <2>1 DEF CarefulInv, LoopInv, WaitingLoop, Size
<1>9. DeferredLoop' /\ CallStack' /\ Buffer' /\ PhaseInv'
  BY <1>1, <1>2, <1>3 DEF CarefulInv, LoopInv, DeferredLoop, CallStack, Buffer, PhaseInv
<1> QED
  BY <1>4, <1>5, <1>7, <1>8, <1>9 DEF CarefulInv, LoopInv

\* An instruction more.
LEMMA AppendedRequest ==
  ASSUME TypeInv, phase # "clean", phase' = phase, NEW x, NEW kind,
         NEW e \in Instructions, e = [id |-> x, type |-> kind], cleaning' = Append(cleaning, e)
  PROVE  /\ \A t, type : t # x \/ type # kind => Pending(t, type)' = Pending(t, type)
         /\ Pending(x, kind)' = Pending(x, kind) \cup {Len(cleaning) + 1}
<1> DEFINE m == Len(cleaning)
<1>1. /\ m \in Nat /\ DOMAIN cleaning = 1 .. m /\ DOMAIN cleaning' = 1 .. m + 1
      /\ \A i \in 1 .. m : cleaning'[i] = cleaning[i]
      /\ cleaning'[m + 1] = e
  BY AppendProperties, LenProperties DEF TypeInv, TypeOK, QueuesTypeOK
<1>2. m + 1 \in 1 .. m + 1 /\ \A i \in 1 .. m + 1 : i \in 1 .. m \/ i = m + 1
  BY <1>1
<1>3. \A i \in 1 .. m : i \in 1 .. m + 1
  BY <1>1
<1> HIDE DEF m
<1>4. \A t, type : Pending(t, type) = {i \in 1 .. m : cleaning[i] = [id |-> t, type |-> type]}
  BY <1>1 DEF Pending
<1>5. \A t, type : Pending(t, type)' = {i \in 1 .. m + 1 : cleaning'[i] = [id |-> t, type |-> type]}
  BY <1>1 DEF Pending
<1>6. ASSUME NEW t, NEW type, t # x \/ type # kind
      PROVE  Pending(t, type)' = Pending(t, type)
  <2>1. e # [id |-> t, type |-> type]
    BY <1>6
  <2> QED
    BY <1>1, <1>2, <1>3, <1>4, <1>5, <2>1
<1>7. Pending(x, kind)' = Pending(x, kind) \cup {m + 1}
  BY <1>1, <1>2, <1>3, <1>4, <1>5
<1> QED
  BY <1>6, <1>7 DEF m

\* A follower is back: its entry is to be removed.
LEMMA AfterReturnedStep ==
  ASSUME TypeInv, TypeInv', CarefulInv, NEW x \in Threads, AfterReturned(x)
  PROVE  /\ CarefulInv' /\ iter.thread = x /\ iter'.thread = NoThread /\ phase' = phase
         /\ \A u \in Threads : SameStatus(u) /\ SameEntries(u) /\ SamePlaces(u)
         /\ UNCHANGED <<waiting, afters, deferred, clock>>
<1> DEFINE e == [id |-> x, type |-> "after"]
<1>1. /\ phase = "after" /\ running = <<>> /\ iter.thread # NoThread
      /\ AtSlot(afters, x, iter.at) /\ x \in DOMAIN afters /\ iter.at \in Int
      /\ UNCHANGED <<status, top, running, waiting, afters, deferred, now, clock>>
      /\ iter'.at = iter.at + 1 /\ iter'.stop = iter.stop /\ iter'.thread = NoThread
  BY AdvanceEffect DEF AfterReturned, Back, AtSlot, vm, times, TypeInv, TypeOK, LoopTypeOK, Loops
<1>2. iter.thread = x /\ x # NoThread
  <2>1. AtSlot(afters, iter.thread, iter.at) /\ IsMap(afters, Followers)
    BY <1>1 DEF CarefulInv, LoopInv, AfterLoop, TypeInv, TypeOK, QueuesTypeOK
  <2> QED
    BY <1>1, <2>1, OneInSlot
<1>3. ThreadInv(x) /\ \A u \in Threads : status[u] \notin Active
  BY <1>1, NoneActive DEF CarefulInv
<1>4. phase' = phase /\ cleaning' = Append(cleaning, e)
  BY <1>2 DEF AfterReturned, Result, CarefulInv, LoopInv, CallStack
<1>5. e \in Instructions
  BY DEF Instructions
<1>6. /\ \A t, type : t # x \/ type # "after" => Pending(t, type)' = Pending(t, type)
      /\ Pending(x, "after")' = Pending(x, "after") \cup {Len(cleaning) + 1}
  <2> HIDE DEF e
  <2>1. e = [id |-> x, type |-> "after"]
    BY DEF e
  <2> QED
    BY <1>1, <1>4, <1>5, <2>1, AppendedRequest
<1>7. Pending(x, "after") = {}
  BY <1>1, AtNotPassed DEF CarefulInv, LoopInv, AfterLoop
<1>8. StillDeferred' = StillDeferred
  BY <1>1, <1>4 DEF StillDeferred
<1>9. ASSUME NEW u \in Threads
      PROVE  SameStatus(u) /\ SameEntries(u) /\ SamePlaces(u) /\ Cleanable(u)'
  <2>0. u # NoThread /\ ThreadInv(u)
    BY ThreadsAssumption DEF Threads, NoThread, CarefulInv
  <2>1. SameStatus(u) /\ SameEntries(u)
    BY <1>1 DEF SameStatus, SameEntries, IsDeferred
  <2>2. (StillDue(u)' <=> StillDue(u)) /\ LaterArgs(u)' = LaterArgs(u)
    BY <1>1, <1>4, <1>6, <1>8 DEF StillDue, WillWait, BeingResumed, LaterArgs
  <2>3. StillFollowing(u)' <=> StillFollowing(u)
    <3>1. CASE u = x
      BY <1>1, <1>2, <1>6, <3>1 DEF StillFollowing, WillFollow, BeingResumed
    <3>2. CASE u # x
      BY <1>1, <1>2, <1>6, <2>0, <3>2 DEF StillFollowing, WillFollow, BeingResumed
    <3> QED
      BY <3>1, <3>2
  <2>4. Cleanable(u)'
    <3>1. CASE u = x
      BY <1>1, <1>6, <1>7, <2>0, <3>1 DEF Cleanable, ThreadInv
    <3>2. CASE u # x
      BY <1>1, <1>6, <2>0, <3>2 DEF Cleanable, ThreadInv
    <3> QED
      BY <3>1, <3>2
  <2> QED
    BY <2>1, <2>2, <2>3, <2>4 DEF SamePlaces
<1>10. \A u \in Threads : ThreadInv(u)'
  <2> SUFFICES ASSUME NEW u \in Threads
               PROVE  ThreadInv(u)'
    OBVIOUS
  <2>1. ThreadInv(u) /\ FewerEntries(u)
    BY <1>1, <1>9 DEF CarefulInv, FewerEntries, SameEntries
  <2>2. Served(u)'
    BY <1>1, <1>4, <1>9, <2>1, StillServed
  <2> QED
    BY <1>1, <1>3, <1>9, <2>1, <2>2, HostKeepsThread
<1>11. AfterLoop'
  <2>1. \A t : PassedBy(afters, t) => PassedBy(afters, t)'
    <3>1. \A map, t : PassedBy(map, t) => \E s \in 1 .. iter'.at - 1 : AtSlot(map, t, s)
      BY <1>1 DEF PassedBy
    <3> QED
      BY <1>1, <3>1 DEF PassedBy, AtSlot
  <2>2. PassedBy(afters, x)'
    <3>1. iter.at >= 1
      BY <1>1 DEF CarefulInv, LoopInv, AfterLoop
    <3>2. iter.at \in 1 .. iter'.at - 1
      BY <1>1, <3>1
    <3> QED
      BY <1>1, <3>2 DEF PassedBy, AtSlot
  <2> QED
    BY <1>1, <1>4, <1>6, <2>1, <2>2 DEF CarefulInv, LoopInv, AfterLoop, Size
<1>12. WaitingLoop' /\ DeferredLoop' /\ CallStack' /\ Buffer' /\ PhaseInv'
  BY <1>1, <1>4, <1>6, <1>8
  DEF CarefulInv, LoopInv, WaitingLoop, DeferredLoop, CallStack, Buffer, PhaseInv
<1> QED
  BY <1>1, <1>2, <1>4, <1>9, <1>10, <1>11, <1>12 DEF CarefulInv, LoopInv

\* A waiter is back: its entry is to be removed, unless it waits again.
LEMMA WaiterReturnedStep ==
  ASSUME TypeInv, TypeInv', CarefulInv, NEW x \in Threads, WaiterReturned(x)
  PROVE  /\ CarefulInv' /\ iter.thread = x /\ iter'.thread = NoThread /\ phase' = phase
         /\ \A u \in Threads : SameStatus(u) /\ SameEntries(u) /\ SamePlaces(u)
         /\ UNCHANGED <<waiting, afters, deferred, clock>>
<1> DEFINE e == [id |-> x, type |-> "waiter"]
<1>1. /\ phase = "waiting" /\ running = <<>> /\ iter.thread # NoThread
      /\ AtSlot(waiting, x, iter.at) /\ x \in DOMAIN waiting /\ iter.at \in Int
      /\ UNCHANGED <<status, top, running, waiting, afters, deferred, now, clock>>
      /\ iter'.at = iter.at + 1 /\ iter'.stop = iter.stop /\ iter'.thread = NoThread
  BY AdvanceEffect DEF WaiterReturned, Back, AtSlot, vm, times, TypeInv, TypeOK, LoopTypeOK, Loops
<1>2. iter.thread = x /\ x # NoThread
  <2>1. AtSlot(waiting, iter.thread, iter.at) /\ IsMap(waiting, Waiters)
    BY <1>1 DEF CarefulInv, LoopInv, WaitingLoop, TypeInv, TypeOK, QueuesTypeOK
  <2> QED
    BY <1>1, <2>1, OneInSlot
<1>3. ThreadInv(x) /\ \A u \in Threads : status[u] \notin Active
  BY <1>1, NoneActive DEF CarefulInv
<1>4. phase' = phase
  BY <1>2 DEF WaiterReturned, Result, CarefulInv, LoopInv, CallStack
<1>5. Pending(x, "waiter") = {}
  BY <1>1, AtNotPassed DEF CarefulInv, LoopInv, WaitingLoop
<1>6. status[x] \in {"finished"} \cup Suspended
  BY <1>2, <1>3 DEF CarefulInv, LoopInv, CallStack, ThreadInv, OnePlace, TypeInv, TypeOK,
                    VmTypeOK, Statuses
\* Only an entry that is no longer due is given to the cleaning buffer.
<1>7. \/ cleaning' = Append(cleaning, e) /\ ~StillDue(x)
      \/ cleaning' = cleaning /\ waiting[x].start # iter.start
  <2>1. CASE status[x] = "finished"
    <3>1. ~StillDue(x)
      BY <1>3, <2>1 DEF ThreadInv, OnePlace, Live, CanGoOn, Suspended
    <3> QED
      BY <1>2, <2>1, <3>1 DEF WaiterReturned, Result
  <2>2. CASE status[x] \in Suspended /\ waiting[x].start = iter.start
    <3>1. ~StillDue(x)
      BY <1>1, <1>2, <2>2 DEF StillDue, BeingResumed
    <3> QED
      BY <1>2, <2>2, <3>1 DEF WaiterReturned, Result
  <2>3. CASE status[x] \in Suspended /\ waiting[x].start # iter.start
    BY <1>2, <2>3 DEF WaiterReturned, Result, Suspended
  <2> QED
    BY <1>6, <2>1, <2>2, <2>3
<1>8. /\ \A t, type : t # x \/ type # "waiter" => Pending(t, type)' = Pending(t, type)
      /\ ~StillDue(x) => Pending(x, "waiter")' = {Len(cleaning) + 1}
      /\ StillDue(x) => Pending(x, "waiter")' = {}
  <2>1. CASE cleaning' = Append(cleaning, e) /\ ~StillDue(x)
    <3>1. e \in Instructions
      BY DEF Instructions
    <3> HIDE DEF e
    <3>2. e = [id |-> x, type |-> "waiter"]
      BY DEF e
    <3> QED
      BY <1>1, <1>4, <1>5, <2>1, <3>1, <3>2, AppendedRequest
  <2>2. CASE cleaning' = cleaning /\ waiting[x].start # iter.start
    <3>1. \A t, type : Pending(t, type)' = Pending(t, type)
      BY <1>1, <1>4, <2>2 DEF Pending
    <3>2. StillDue(x)
      BY <1>1, <1>5, <2>2 DEF StillDue, WillWait
    <3> QED
      BY <1>5, <3>1, <3>2
  <2> QED
    BY <1>7, <2>1, <2>2
<1>9. StillDeferred' = StillDeferred
  BY <1>1, <1>4 DEF StillDeferred
<1>10. ASSUME NEW u \in Threads
       PROVE  SameStatus(u) /\ SameEntries(u) /\ SamePlaces(u) /\ Cleanable(u)'
  <2>0. u # NoThread /\ ThreadInv(u)
    BY ThreadsAssumption DEF Threads, NoThread, CarefulInv
  <2>1. SameStatus(u) /\ SameEntries(u)
    BY <1>1 DEF SameStatus, SameEntries, IsDeferred
  <2>2. (StillFollowing(u)' <=> StillFollowing(u)) /\ LaterArgs(u)' = LaterArgs(u)
    BY <1>1, <1>4, <1>8, <1>9 DEF StillFollowing, WillFollow, BeingResumed, LaterArgs
  <2>3. StillDue(u)' <=> StillDue(u)
    <3>1. CASE u = x
      BY <1>1, <1>2, <1>8, <3>1 DEF StillDue, WillWait, BeingResumed
    <3>2. CASE u # x
      BY <1>1, <1>2, <1>8, <2>0, <3>2 DEF StillDue, WillWait, BeingResumed
    <3> QED
      BY <3>1, <3>2
  <2>4. Cleanable(u)'
    <3>1. CASE u = x
      BY <1>1, <1>8, <2>0, <3>1 DEF Cleanable, ThreadInv
    <3>2. CASE u # x
      BY <1>1, <1>8, <2>0, <3>2 DEF Cleanable, ThreadInv
    <3> QED
      BY <3>1, <3>2
  <2> QED
    BY <2>1, <2>2, <2>3, <2>4 DEF SamePlaces
<1>11. \A u \in Threads : ThreadInv(u)'
  <2> SUFFICES ASSUME NEW u \in Threads
               PROVE  ThreadInv(u)'
    OBVIOUS
  <2>1. ThreadInv(u) /\ FewerEntries(u)
    BY <1>1, <1>10 DEF CarefulInv, FewerEntries, SameEntries
  <2>2. Served(u)'
    BY <1>1, <1>4, <1>10, <2>1, StillServed
  <2> QED
    BY <1>1, <1>3, <1>10, <2>1, <2>2, HostKeepsThread
<1>12. WaitingLoop'
  <2>1. \A t : PassedBy(waiting, t) => PassedBy(waiting, t)'
    <3>1. \A map, t : PassedBy(map, t) => \E s \in 1 .. iter'.at - 1 : AtSlot(map, t, s)
      BY <1>1 DEF PassedBy
    <3> QED
      BY <1>1, <3>1 DEF PassedBy, AtSlot
  <2>2. PassedBy(waiting, x)'
    <3>1. iter.at >= 1
      BY <1>1 DEF CarefulInv, LoopInv, WaitingLoop
    <3>2. iter.at \in 1 .. iter'.at - 1
      BY <1>1, <3>1
    <3> QED
      BY <1>1, <3>2 DEF PassedBy, AtSlot
  <2> QED
    BY <1>1, <1>4, <1>8, <2>1, <2>2 DEF CarefulInv, LoopInv, WaitingLoop, Size
<1>13. AfterLoop' /\ DeferredLoop' /\ CallStack' /\ Buffer' /\ PhaseInv'
  BY <1>1, <1>4, <1>9
  DEF CarefulInv, LoopInv, AfterLoop, DeferredLoop, CallStack, Buffer, PhaseInv
<1> QED
  BY <1>1, <1>2, <1>4, <1>10, <1>11, <1>12, <1>13 DEF CarefulInv, LoopInv

\* A main script has come to its end, or waits.
LEMMA ScriptReturnedStep ==
  ASSUME TypeInv, TypeInv', CarefulInv, ScriptReturned
  PROVE  /\ CarefulInv' /\ iter.thread # NoThread /\ iter'.thread = NoThread /\ phase' = phase
         /\ \A u \in Threads : SameStatus(u) /\ SameEntries(u) /\ SamePlaces(u)
         /\ UNCHANGED <<waiting, afters, deferred, clock>>
<1>1. /\ phase = "scripts" /\ running = <<>> /\ iter.thread # NoThread
      /\ iter' = Advanced(1) /\ UNCHANGED <<vm, queues, times>>
  BY DEF ScriptReturned, Back
<1>2. iter.thread \in Threads
  BY <1>1 DEF TypeInv, TypeOK, LoopTypeOK, Loops
<1>3. phase' = phase
  BY <1>1 DEF ScriptReturned, Result, CarefulInv, LoopInv, CallStack
<1>4. CarefulInv' /\ \A u \in Threads : Same(u)
  BY <1>1, <1>3, SkipStep
<1> QED
  BY <1>1, <1>3, <1>4, AdvanceEffect DEF Same, queues, times

\* The reference of a deferred thread is released.
LEMMA DeferredReturnedStep ==
  ASSUME TypeInv, TypeInv', CarefulInv, DeferredReturned
  PROVE  /\ CarefulInv' /\ iter.thread # NoThread /\ iter'.thread = NoThread /\ phase' = phase
         /\ \A u \in Threads : SameStatus(u) /\ SameEntries(u) /\ SamePlaces(u)
         /\ StillDeferred' = StillDeferred
         /\ \A i \in 1 .. StillDeferred : deferred'[i].thread = deferred[i].thread
         /\ UNCHANGED <<waiting, afters, clock>>
<1>1. /\ phase = "deferred" /\ running = <<>> /\ iter.thread # NoThread
      /\ UNCHANGED <<status, top, running, waiting, afters, cleaning, now, clock>>
      /\ deferred' = [deferred EXCEPT ![iter.at].held = FALSE]
      /\ iter'.at = iter.at - 1 /\ iter'.stop = iter.stop /\ iter'.thread = NoThread
      /\ iter.at \in Int
  <2>1. iter' = Advanced(-1) /\ -1 \in Int /\ iter.at \in Int
    BY DEF DeferredReturned, TypeInv, TypeOK, LoopTypeOK, Loops
  <2>2. /\ iter'.at = iter.at + (-1) /\ iter'.stop = iter.stop /\ iter'.thread = NoThread
    BY <2>1, AdvanceEffect
  <2>3. iter.at + (-1) = iter.at - 1
    BY <2>1
  <2> QED
    BY <2>1, <2>2, <2>3 DEF DeferredReturned, Back, CountingDown, vm, times
<1>2. /\ Len(deferred) \in Nat /\ DOMAIN deferred = 1 .. Len(deferred)
      /\ iter.at \in 1 .. Len(deferred)
      /\ \A i \in 1 .. Len(deferred) : deferred[i] \in DeferredTasks
  <2>1. deferred \in Seq(DeferredTasks)
    BY DEF TypeInv, TypeOK, QueuesTypeOK, DeferredTasks
  <2>2. Len(deferred) \in Nat /\ DOMAIN deferred = 1 .. Len(deferred)
    BY StillDeferredType
  <2>3. iter.at \in 1 .. Len(deferred)
    BY <1>1, <2>2 DEF TypeInv, LoopsInBounds
  <2>4. \A i \in 1 .. Len(deferred) : deferred[i] \in DeferredTasks
    BY <2>1, <2>2, ElementOfSeq
  <2> QED
    BY <2>2, <2>3, <2>4
<1>3. /\ DOMAIN deferred' = 1 .. Len(deferred)
      /\ \A i \in 1 .. Len(deferred) :
           /\ deferred'[i].thread = deferred[i].thread /\ deferred'[i].argn = deferred[i].argn
           /\ deferred'[i].held <=> deferred[i].held /\ i # iter.at
  BY <1>1, <1>2 DEF DeferredTasks
<1>4. phase' = phase
  <2>1. deferred[iter.at].held
    BY <1>1, <1>2 DEF CarefulInv, LoopInv, DeferredLoop
  <2>2. iter.thread \in Threads
    BY <1>1 DEF TypeInv, TypeOK, LoopTypeOK, Loops
  <2> QED
    BY <1>1, <2>1 DEF DeferredReturned, CountingDown, Result, CarefulInv, LoopInv, CallStack
<1>5. /\ StillDeferred = iter.at - 1 /\ StillDeferred' = iter.at - 1
      /\ 1 .. iter.at - 1 \subseteq 1 .. Len(deferred)
  BY <1>1, <1>2, <1>4 DEF StillDeferred
<1>6. ASSUME NEW u \in Threads
      PROVE  Same(u)
  <2>1. IsDeferred(u)' <=> IsDeferred(u)
    BY <1>2, <1>3 DEF IsDeferred
  <2>2. LaterArgs(u)' = LaterArgs(u)
    <3>1. {j \in 1 .. iter.at - 1 : deferred'[j].thread = u}
            = {j \in 1 .. iter.at - 1 : deferred[j].thread = u}
      BY <1>3, <1>5
    <3> QED
      BY <1>3, <1>5, <3>1 DEF LaterArgs
  <2>3. \A type : Pending(u, type)' = Pending(u, type)
    BY <1>1, <1>4 DEF Pending
  <2>4. (StillDue(u)' <=> StillDue(u)) /\ (StillFollowing(u)' <=> StillFollowing(u))
    BY <1>1, <1>4, <2>3 DEF StillDue, StillFollowing, WillWait, WillFollow, BeingResumed
  <2> QED
    BY <1>1, <2>1, <2>2, <2>3, <2>4
    DEF Same, SameStatus, SameEntries, SamePlaces, SameRequests
<1>7. \A u \in Threads : ThreadInv(u)'
  <2>1. \A u \in Threads : status[u] \notin Active
    BY <1>1, NoneActive
  <2> QED
    BY <1>1, <1>4, <1>6, <2>1, KeptThread DEF CarefulInv
<1>8. DeferredLoop'
  <2>1. \A i \in 1 .. Len(deferred) : deferred'[i].held <=> i <= iter'.at
    BY <1>1, <1>2, <1>3 DEF CarefulInv, LoopInv, DeferredLoop
  <2>2. \A i, j \in 1 .. iter.at - 1 : deferred'[i].thread = deferred'[j].thread => i = j
    BY <1>3, <1>5 DEF CarefulInv, LoopInv, DeferredLoop
  <2> QED
    BY <1>1, <1>3, <1>4, <1>5, <2>1, <2>2 DEF DeferredLoop
<1>9. AfterLoop' /\ WaitingLoop' /\ CallStack' /\ PhaseInv'
  BY <1>1, <1>4 DEF CarefulInv, LoopInv, AfterLoop, WaitingLoop, CallStack, PhaseInv
<1>10. Buffer'
  BY <1>1, <1>4, <1>6 DEF CarefulInv, LoopInv, Buffer, Same, SameRequests
<1> QED
  BY <1>1, <1>3, <1>4, <1>5, <1>6, <1>7, <1>8, <1>9, <1>10 DEF CarefulInv, LoopInv, Same

-----------------------------------------------------------------------------
(***************************************************************************)
(* From one loop to the next.                                              *)
(***************************************************************************)
LEMMA PassedOn ==
  ASSUME iter.thread = NoThread, iter'.thread = NoThread,
         UNCHANGED <<status, top, waiting, afters>>,
         deferred' = deferred \/ (deferred' = <<>> /\ StillDeferred = 0),
         StillDeferred' = StillDeferred, NEW u \in Threads, SameRequests(u)
  PROVE  SameStatus(u) /\ SamePlaces(u) /\ FewerEntries(u)
<1>1. SameStatus(u)
  BY DEF SameStatus
<1>2. IsDeferred(u)' => IsDeferred(u)
  BY DEF IsDeferred
<1>3. LaterArgs(u)' = LaterArgs(u)
  <2>1. CASE deferred' = deferred
    BY <2>1 DEF LaterArgs
  <2>2. CASE StillDeferred = 0
    <3>1. 1 .. 0 = {}
      OBVIOUS
    <3> QED
      BY <2>2, <3>1 DEF LaterArgs
  <2> QED
    BY <2>1, <2>2
<1>4. u # NoThread
  BY ThreadsAssumption DEF Threads, NoThread
<1>5. (StillDue(u)' <=> StillDue(u)) /\ (StillFollowing(u)' <=> StillFollowing(u))
  BY <1>4 DEF StillDue, StillFollowing, WillWait, WillFollow, BeingResumed, SameRequests
<1> QED
  BY <1>1, <1>2, <1>3, <1>5 DEF SamePlaces, FewerEntries

\* With nothing left to clean away, entries are places.
LEMMA NothingServed ==
  ASSUME iter'.thread = NoThread, cleaning' = <<>>, NEW u \in Threads
  PROVE  Served(u)' /\ Pending(u, "waiter")' = {} /\ Pending(u, "after")' = {}
<1>1. \A type : Pending(u, type)' = {}
  BY DEF Pending
<1>2. u # NoThread
  BY ThreadsAssumption DEF Threads, NoThread
<1> QED
  BY <1>1, <1>2 DEF Served, StillDue, StillFollowing, WillWait, WillFollow, BeingResumed

LEMMA PhaseStep ==
  ASSUME TypeInv, CarefulInv, running = <<>>, iter.thread = NoThread, iter'.thread = NoThread,
         UNCHANGED <<status, top, waiting, afters>>,
         deferred' = deferred \/ (deferred' = <<>> /\ StillDeferred = 0),
         StillDeferred' = StillDeferred,
         \A u \in Threads : SameRequests(u),
         \/ cleaning' = <<>>
         \/ /\ now' = now
            /\ \/ phase = "after" /\ phase' = "deferred"
               \/ phase = "deferred" /\ phase' = "waiting"
               \/ phase \in {"waiting", "ctasks"} /\ phase' \in {"ctasks", "clean", "failed"}
  PROVE  \A u \in Threads : ThreadInv(u)' /\ SameStatus(u) /\ SamePlaces(u)
<1> SUFFICES ASSUME NEW u \in Threads
             PROVE  ThreadInv(u)' /\ SameStatus(u) /\ SamePlaces(u)
  OBVIOUS
<1>1. ThreadInv(u) /\ SameRequests(u) /\ status[u] \notin Active
  BY NoneActive DEF CarefulInv
<1>2. SameStatus(u) /\ SamePlaces(u) /\ FewerEntries(u)
  BY <1>1, PassedOn
<1>3. Served(u)'
  <2>1. CASE cleaning' = <<>>
    BY <2>1, NothingServed
  <2>2. CASE cleaning' # <<>>
    BY <1>1, <1>2, <2>2, StillServed
  <2> QED
    BY <2>1, <2>2
<1>4. Cleanable(u)'
  BY <1>1 DEF ThreadInv, Cleanable, SameRequests
<1> QED
  BY <1>1, <1>2, <1>3, <1>4, HostKeepsThread

LEMMA LoopsBegun ==
  ASSUME TypeInv, CarefulInv, running' = <<>>, iter'.thread = NoThread,
         UNCHANGED <<waiting, afters>>,
         \/ deferred' = deferred /\ phase # "deferred"
         \/ deferred' = <<>> /\ StillDeferred = 0,
         phase' # "waiting" \/ phase = "deferred", phase' # "after" \/ phase = "ready",
         \A u \in Threads : SameRequests(u),
         phase' \notin {"scripts", "undefined", "aborted"},
         phase' \in {"ready", "exit"} => cleaning' = <<>>,
         phase' = "after" => iter' = Loop(1, Size(afters)) /\ cleaning = <<>>,
         phase' = "deferred" => phase = "after" /\ iter' = Loop(Len(deferred), 1),
         phase' = "waiting" => iter' = Loop(1, Size(waiting)),
         phase' = "clean" => iter'.stop = Len(cleaning'),
         phase' = "failed" => "raise" \in Ops["ctasks"], now' <= clock',
         StillDeferred' = StillDeferred
  PROVE  LoopInv'
<1> DEFINE asked(u) == Pending(u, "waiter")' # {} \/ Pending(u, "after")' # {}
<1>0. phase' = "after" => \A u \in Threads : ~asked(u)
  <2>1. cleaning = <<>> => \A u, type : Pending(u, type) = {}
    BY DEF Pending
  <2> QED
    BY <2>1 DEF SameRequests
<1>1. AfterLoop'
  BY <1>0 DEF AfterLoop, Loop, Size
<1>2. WaitingLoop'
  BY DEF CarefulInv, LoopInv, Buffer, WaitingLoop, Loop, Size, SameRequests
<1>3. DeferredLoop'
  <2>1. CASE deferred' = <<>> /\ StillDeferred = 0
    <3>1. DOMAIN deferred' = {} /\ 1 .. StillDeferred' = {}
      BY <2>1
    <3> QED
      BY <2>1, <3>1 DEF DeferredLoop
  <2>2. CASE deferred' = deferred /\ phase # "deferred"
    <3>1. phase' = "deferred" => iter'.at = Len(deferred)
      BY DEF Loop
    <3> QED
      BY <2>2, <3>1, StillDeferredType DEF CarefulInv, LoopInv, DeferredLoop
  <2> QED
    BY <2>1, <2>2
<1>4. CallStack'
  BY DEF CallStack
<1>5. Buffer'
  BY <1>0 DEF CarefulInv, LoopInv, Buffer, SameRequests
<1>6. PhaseInv'
  BY DEF PhaseInv
<1> QED
  BY <1>1, <1>2, <1>3, <1>4, <1>5, <1>6 DEF LoopInv

\* The steps that do so.
LEMMA SameRequestsKept ==
  ASSUME TypeInv, cleaning' = cleaning, phase # "clean", phase' = "clean" => iter'.at = 1
  PROVE  \A u \in Threads : SameRequests(u)
<1>1. DOMAIN cleaning = 1 .. Len(cleaning) /\ Len(cleaning) \in Nat
  BY CTaskTypes
<1> QED
  BY <1>1 DEF SameRequests, Pending

Passes ==
  \/ ScriptsDone \/ Exit \/ RunStep \/ AftersDone \/ DeferredDone \/ WaitersDone
  \/ CTasksDone \/ StepDone \/ \E r \in {"continue", "done", "error"} : RunCTask(r)

LEMMA OutsideScripts ==
  ASSUME TypeInv, CarefulInv, phase \notin ScriptPhases
  PROVE  running = <<>> /\ iter.thread = NoThread
BY DEF CarefulInv, LoopInv, CallStack

LEMMA PassesEffect ==
  ASSUME TypeInv, CarefulInv, Passes
  PROVE  /\ running = <<>> /\ iter.thread = NoThread /\ iter'.thread = NoThread
         /\ UNCHANGED <<vm, waiting, afters, clock>>
         /\ now' = now \/ (phase = "ready" /\ now' = clock)
         /\ \A u \in Threads : SameRequests(u)
         /\ StillDeferred' = StillDeferred
         /\ \/ deferred' = deferred /\ phase # "deferred"
            \/ deferred' = <<>> /\ StillDeferred = 0
<1>1. CASE ScriptsDone
  <2>1. /\ running = <<>> /\ iter.thread = NoThread /\ phase = "scripts" /\ phase' = "ready"
        /\ UNCHANGED <<vm, queues, iter, times>>
    BY <1>1 DEF ScriptsDone, Idle
  <2> QED
    BY <2>1, SameRequestsKept DEF queues, times, StillDeferred
<1>2. CASE Exit
  <2>1. /\ phase = "ready" /\ phase' = "exit" /\ UNCHANGED <<vm, queues, iter, times>>
    BY <1>2 DEF Exit
  <2>2. running = <<>> /\ iter.thread = NoThread
    BY <2>1, OutsideScripts DEF ScriptPhases
  <2> QED
    BY <2>1, <2>2, SameRequestsKept DEF queues, times, StillDeferred
<1>3. CASE RunStep
  <2>1. /\ phase = "ready" /\ phase' = "after" /\ now' = clock /\ UNCHANGED <<vm, queues, clock>>
        /\ iter'.thread = NoThread
    BY <1>3 DEF RunStep, BeginStep, Loop
  <2>2. running = <<>> /\ iter.thread = NoThread
    BY <2>1, OutsideScripts DEF ScriptPhases
  <2> QED
    BY <2>1, <2>2, SameRequestsKept DEF queues, StillDeferred
<1>4. CASE AftersDone
  <2>1. /\ running = <<>> /\ iter.thread = NoThread /\ phase = "after" /\ phase' = "deferred"
        /\ UNCHANGED <<vm, queues, times>> /\ iter' = Loop(Len(deferred), 1)
    BY <1>4 DEF AftersDone, Proceed, Idle, queues
  <2>2. iter'.thread = NoThread /\ iter'.at = Len(deferred)
    BY <2>1 DEF Loop
  <2> QED
    BY <2>1, <2>2, SameRequestsKept DEF queues, times, StillDeferred
<1>5. CASE DeferredDone
  <2>1. /\ running = <<>> /\ iter.thread = NoThread /\ phase = "deferred" /\ phase' = "waiting"
        /\ UNCHANGED <<vm, waiting, afters, cleaning, times>> /\ iter'.thread = NoThread
        /\ deferred' = <<>> /\ iter.at < iter.stop
    BY <1>5 DEF DeferredDone, Proceed, Idle, Loop
  <2>2. iter.at = 0
    BY <2>1, StillDeferredType DEF TypeInv, LoopsInBounds
  <2>3. StillDeferred = 0 /\ StillDeferred' = 0
    BY <2>1, <2>2 DEF StillDeferred
  <2> QED
    BY <2>1, <2>3, SameRequestsKept DEF times
<1>6. CASE WaitersDone
  <2>1. /\ running = <<>> /\ iter.thread = NoThread /\ phase = "waiting" /\ phase' = "ctasks"
        /\ UNCHANGED <<vm, queues, times>> /\ iter'.thread = NoThread
    BY <1>6 DEF WaitersDone, Proceed, Idle, Loop, queues
  <2> QED
    BY <2>1, SameRequestsKept DEF queues, times, StillDeferred
<1>7. CASE CTasksDone
  <2>1. /\ running = <<>> /\ iter.thread = NoThread /\ phase = "ctasks" /\ phase' = "clean"
        /\ UNCHANGED <<vm, queues, times>> /\ iter'.thread = NoThread /\ iter'.at = 1
    BY <1>7 DEF CTasksDone, Proceed, Idle, Loop, queues
  <2> QED
    BY <2>1, SameRequestsKept DEF queues, times, StillDeferred
<1>8. CASE StepDone
  <2>1. /\ phase = "clean" /\ phase' = "ready" /\ iter.at > iter.stop
        /\ UNCHANGED <<vm, waiting, afters, deferred, times>> /\ iter'.thread = NoThread
        /\ cleaning' = <<>>
    BY <1>8 DEF StepDone, Loop
  <2>2. running = <<>> /\ iter.thread = NoThread
    BY <2>1, OutsideScripts DEF ScriptPhases
  <2>3. iter.stop = Len(cleaning) /\ DOMAIN cleaning = 1 .. Len(cleaning)
        /\ iter.at \in Int /\ Len(cleaning) \in Nat
    BY <2>1, CTaskTypes DEF CarefulInv, LoopInv, Buffer
  <2>4. \A u \in Threads : SameRequests(u)
    BY <2>1, <2>3, NothingServed DEF SameRequests, Pending
  <2> QED
    BY <2>1, <2>2, <2>4 DEF times, StillDeferred
<1>9. ASSUME NEW r \in {"continue", "done", "error"}, RunCTask(r)
      PROVE  /\ running = <<>> /\ iter.thread = NoThread /\ iter'.thread = NoThread
             /\ UNCHANGED <<vm, waiting, afters, deferred, now, clock>>
             /\ phase = "ctasks" /\ phase' \in {"ctasks", "failed"}
             /\ \A u \in Threads : SameRequests(u)
  <2>1. /\ phase = "ctasks" /\ phase' \in {"ctasks", "failed"} /\ iter.at <= iter.stop
        /\ UNCHANGED <<vm, waiting, afters, deferred, now, clock>> /\ iter'.thread = NoThread
    BY <1>9, AdvanceEffect DEF RunCTask, CTaskRunning, times
  <2>2. running = <<>> /\ iter.thread = NoThread
    BY <2>1, OutsideScripts DEF ScriptPhases
  <2>3. CASE r # "done"
    BY <1>9, <2>1, <2>2, <2>3, SameRequestsKept DEF RunCTask
  <2>4. CASE r = "done"
    <3> DEFINE e == [id |-> ctasks[iter.at], type |-> "ctask"]
    <3>1. cleaning' = Append(cleaning, e) /\ phase' = phase
      BY <1>9, <2>4 DEF RunCTask
    <3>2. ctasks[iter.at] \in CTasks
      BY <2>1, CTaskTypes, ElementOfSeq DEF TypeInv, LoopsInBounds
    <3>3. e \in Instructions
      BY <3>2 DEF Instructions
    <3>4. \A t, type : type # "ctask" => Pending(t, type)' = Pending(t, type)
      BY <2>1, <3>1, <3>3, AppendedRequest
    <3> QED
      BY <2>1, <2>2, <3>4 DEF SameRequests
  <2> QED
    BY <2>3, <2>4
<1>10. CASE \E r \in {"continue", "done", "error"} : RunCTask(r)
  BY <1>9, <1>10 DEF StillDeferred
<1> QED
  BY <1>1, <1>2, <1>3, <1>4, <1>5, <1>6, <1>7, <1>8, <1>10 DEF Passes

LEMMA PassesStep ==
  ASSUME TypeInv, TypeInv', CarefulInv, Passes
  PROVE  /\ CarefulInv'
         /\ \A u \in Threads : SameStatus(u) /\ SamePlaces(u)
         /\ iter.thread = NoThread /\ iter'.thread = NoThread
<1>1. /\ running = <<>> /\ iter.thread = NoThread /\ iter'.thread = NoThread
      /\ UNCHANGED <<status, top, running, waiting, afters, clock>>
      /\ now' = now \/ (phase = "ready" /\ now' = clock)
      /\ \A u \in Threads : SameRequests(u)
      /\ StillDeferred' = StillDeferred
      /\ \/ deferred' = deferred /\ phase # "deferred"
         \/ deferred' = <<>> /\ StillDeferred = 0
  BY PassesEffect DEF vm
<1>2. \/ /\ cleaning' = <<>> /\ phase' \in {"ready", "exit", "after"}
         /\ phase' = "after" => /\ phase = "ready" /\ cleaning = <<>>
                                /\ iter' = Loop(1, Size(afters))
         /\ cleaning = <<>> \/ phase = "clean"
      \/ /\ now' = now
         /\ cleaning' = cleaning \/ phase' = "ctasks"
         /\ \/ phase = "after" /\ phase' = "deferred" /\ iter' = Loop(Len(deferred), 1)
            \/ phase = "deferred" /\ phase' = "waiting" /\ iter' = Loop(1, Size(waiting))
            \/ phase = "waiting" /\ phase' = "ctasks"
            \/ phase = "ctasks" /\ phase' = "ctasks"
            \/ phase = "ctasks" /\ phase' = "clean" /\ iter'.stop = Len(cleaning')
            \/ phase = "ctasks" /\ phase' = "failed" /\ "raise" \in Ops["ctasks"]
  <2>1. CASE ScriptsDone \/ Exit \/ RunStep \/ StepDone
    <3>1. phase \in {"scripts", "ready"} => cleaning = <<>>
      BY DEF CarefulInv, LoopInv, Buffer
    <3> QED
      BY <2>1, <3>1 DEF ScriptsDone, Exit, RunStep, BeginStep, StepDone, queues
  <2>2. CASE AftersDone \/ DeferredDone \/ WaitersDone
    BY <2>2 DEF AftersDone, DeferredDone, WaitersDone, Proceed, times
  <2>3. CASE CTasksDone
    <3>1. iter'.stop = Len(cleaning)
      BY <2>3 DEF CTasksDone, Proceed, Loop
    <3> QED
      BY <2>3, <3>1 DEF CTasksDone, Proceed, times
  <2>4. CASE \E r \in {"continue", "done", "error"} : RunCTask(r)
    BY <2>4 DEF RunCTask, CTaskRunning, times
  <2> QED
    BY <2>1, <2>2, <2>3, <2>4 DEF Passes
<1>3. \A u \in Threads : ThreadInv(u)' /\ SameStatus(u) /\ SamePlaces(u)
  BY <1>1, <1>2, PhaseStep
<1>4. LoopInv'
  <2>1. now' <= clock'
    BY <1>1 DEF CarefulInv, LoopInv, PhaseInv, TypeInv, TypeOK, LoopTypeOK
  <2> QED
    BY <1>1, <1>2, <2>1, LoopsBegun
<1> QED
  BY <1>1, <1>2, <1>3, <1>4 DEF CarefulInv

-----------------------------------------------------------------------------
(***************************************************************************)
(* The cleaning buffer.                                                    *)
(***************************************************************************)
\* What the instruction that is carried out is about.
Named(t, type) == cleaning[iter.at].id = t /\ cleaning[iter.at].type = type

LEMMA InstructionEffect ==
  ASSUME TypeInv, CarefulInv, NEW kind, Instruction(kind), phase' = phase
  PROVE  /\ running = <<>> /\ iter.thread = NoThread /\ iter'.thread = NoThread
         /\ UNCHANGED <<status, top, running, deferred, cleaning, now, clock>>
         /\ phase = "clean" /\ iter'.stop = iter.stop
         /\ iter.at \in DOMAIN cleaning /\ cleaning[iter.at] \in Instructions
         /\ \A t, type : Named(t, type) => iter.at \in Pending(t, type)
                                           /\ Pending(t, type)' = Pending(t, type) \ {iter.at}
         /\ \A t, type : ~Named(t, type) => Pending(t, type)' = Pending(t, type)
         /\ StillDeferred' = StillDeferred
<1>1. /\ phase = "clean" /\ iter.at <= iter.stop
      /\ UNCHANGED <<status, top, running, deferred, cleaning, now, clock>>
      /\ iter'.at = iter.at + 1 /\ iter'.stop = iter.stop /\ iter'.thread = NoThread
  BY AdvanceEffect DEF Instruction, vm, times
<1>2. running = <<>> /\ iter.thread = NoThread
  BY <1>1, OutsideScripts DEF ScriptPhases
<1>3. /\ iter.at \in DOMAIN cleaning /\ DOMAIN cleaning = 1 .. Len(cleaning)
      /\ Len(cleaning) \in Nat /\ iter.at \in Int
  BY <1>1, CTaskTypes DEF TypeInv, LoopsInBounds
<1>4. cleaning[iter.at] \in Instructions
  BY <1>3, CTaskTypes, ElementOfSeq
<1>5. ASSUME NEW t, NEW type
      PROVE  /\ Pending(t, type)' = Pending(t, type) \ {iter.at}
             /\ iter.at \notin Pending(t, type) => Pending(t, type)' = Pending(t, type)
  <2>1. Pending(t, type)' = Pending(t, type) \ {iter.at}
    BY <1>1, <1>3 DEF Pending
  <2> QED
    BY <2>1
<1>6. ASSUME NEW t, NEW type
      PROVE  iter.at \in Pending(t, type) <=> Named(t, type)
  <2>1. iter.at \in Pending(t, type) <=> cleaning[iter.at] = [id |-> t, type |-> type]
    BY <1>3 DEF Pending
  <2>2. cleaning[iter.at] = [id |-> t, type |-> type] <=> Named(t, type)
    BY <1>4 DEF Instructions, Named
  <2> QED
    BY <2>1, <2>2
<1>7. StillDeferred' = StillDeferred
  BY <1>1 DEF StillDeferred
<1> QED
  BY <1>1, <1>2, <1>3, <1>4, <1>5, <1>6, <1>7

\* Outside the loops the only thing to know is about the buffer.
LEMMA CleanLoops ==
  ASSUME TypeInv, CarefulInv, phase = "clean", phase' = phase, iter'.stop = iter.stop,
         iter'.thread = NoThread, UNCHANGED <<running, deferred, cleaning, now, clock>>
  PROVE  LoopInv'
BY DEF CarefulInv, LoopInv, AfterLoop, WaitingLoop, DeferredLoop, CallStack, Buffer, PhaseInv,
       StillDeferred, ScriptPhases

LEMMA CleanWaiterStep ==
  ASSUME TypeInv, TypeInv', CarefulInv, CleanWaiter
  PROVE  /\ CarefulInv' /\ iter.thread = NoThread /\ iter'.thread = NoThread
         /\ \A u \in Threads : SameStatus(u) /\ SamePlaces(u) /\ FewerEntries(u)
         /\ StillDeferred' = StillDeferred /\ UNCHANGED <<deferred, clock>> /\ phase' = phase
<1> DEFINE x == cleaning[iter.at].id
<1>1. /\ phase = "clean" /\ iter.at \in DOMAIN cleaning /\ cleaning[iter.at].type = "waiter"
      /\ cleaning[iter.at] \in Instructions
  <2>1. phase = "clean" /\ iter.at <= iter.stop /\ cleaning[iter.at].type = "waiter"
    BY DEF CleanWaiter, Instruction
  <2>2. iter.at \in DOMAIN cleaning
    BY <2>1, CTaskTypes DEF TypeInv, LoopsInBounds
  <2> QED
    BY <2>1, <2>2, CTaskTypes, ElementOfSeq
<1>2. x \in Threads /\ cleaning[iter.at] = [id |-> x, type |-> "waiter"]
  BY <1>1 DEF Instructions
<1> HIDE DEF x
<1>3. iter.at \in Pending(x, "waiter")
  BY <1>1, <1>2, CTaskTypes DEF Pending
<1>4. x \in DOMAIN waiting /\ Pending(x, "waiter") = {iter.at}
  BY <1>2, <1>3 DEF CarefulInv, ThreadInv, Cleanable
<1>5. waiting' = Erase(waiting, x) /\ afters' = afters /\ phase' = phase
  BY <1>4 DEF CleanWaiter, x
<1>6. /\ running = <<>> /\ iter.thread = NoThread /\ iter'.thread = NoThread
      /\ UNCHANGED <<status, top, running, deferred, cleaning, now, clock>>
      /\ iter'.stop = iter.stop
      /\ \A t, type : Named(t, type) => Pending(t, type)' = Pending(t, type) \ {iter.at}
      /\ \A t, type : ~Named(t, type) => Pending(t, type)' = Pending(t, type)
      /\ StillDeferred' = StillDeferred
  BY <1>5, InstructionEffect DEF CleanWaiter
<1>7. DOMAIN waiting' = DOMAIN waiting \ {x} /\ \A u \in DOMAIN waiting' : waiting'[u] = waiting[u]
  BY <1>5 DEF Erase
<1>8. ASSUME NEW u \in Threads
      PROVE  /\ Pending(u, "after")' = Pending(u, "after")
             /\ u # x => Pending(u, "waiter")' = Pending(u, "waiter")
             /\ u = x => Pending(u, "waiter")' = {}
  <2>1. Named(u, "waiter") <=> u = x
    BY <1>1 DEF Named, x
  <2>2. ~Named(u, "after")
    BY <1>1 DEF Named
  <2> QED
    BY <1>4, <1>6, <2>1, <2>2
<1>9. ASSUME NEW u \in Threads
      PROVE  SameStatus(u) /\ SamePlaces(u) /\ FewerEntries(u) /\ ThreadInv(u)'
  <2>1. SameStatus(u)
    BY <1>6 DEF SameStatus
  <2>2. FewerEntries(u)
    BY <1>5, <1>6, <1>7 DEF FewerEntries, IsDeferred
  <2>3. LaterArgs(u)' = LaterArgs(u)
    BY <1>6 DEF LaterArgs
  <2>4. StillFollowing(u)' <=> StillFollowing(u)
    BY <1>1, <1>5, <1>8 DEF StillFollowing, WillFollow, BeingResumed
  <2>5. StillDue(u)' <=> StillDue(u)
    BY <1>1, <1>4, <1>5, <1>7, <1>8 DEF StillDue, WillWait, BeingResumed
  <2>6. SamePlaces(u)
    BY <2>3, <2>4, <2>5 DEF SamePlaces
  <2>7. ThreadInv(u) /\ status[u] \notin Active
    BY <1>6, NoneActive DEF CarefulInv
  <2>8. Served(u)'
    BY <1>5, <1>6, <2>2, <2>6, <2>7, StillServed
  <2>9. Cleanable(u)'
    BY <1>5, <1>7, <1>8, <2>7 DEF ThreadInv, Cleanable
  <2> QED
    BY <1>6, <2>1, <2>2, <2>6, <2>7, <2>8, <2>9, HostKeepsThread
<1>10. LoopInv'
  BY <1>1, <1>5, <1>6, CleanLoops
<1> QED
  BY <1>5, <1>6, <1>9, <1>10 DEF CarefulInv

LEMMA CleanAfterStep ==
  ASSUME TypeInv, TypeInv', CarefulInv, CleanAfter
  PROVE  /\ CarefulInv' /\ iter.thread = NoThread /\ iter'.thread = NoThread
         /\ \A u \in Threads : SameStatus(u) /\ SamePlaces(u) /\ FewerEntries(u)
         /\ StillDeferred' = StillDeferred /\ UNCHANGED <<deferred, clock>> /\ phase' = phase
<1> DEFINE x == cleaning[iter.at].id
<1>1. /\ phase = "clean" /\ iter.at \in DOMAIN cleaning /\ cleaning[iter.at].type = "after"
      /\ cleaning[iter.at] \in Instructions
  <2>1. phase = "clean" /\ iter.at <= iter.stop /\ cleaning[iter.at].type = "after"
    BY DEF CleanAfter, Instruction
  <2>2. iter.at \in DOMAIN cleaning
    BY <2>1, CTaskTypes DEF TypeInv, LoopsInBounds
  <2> QED
    BY <2>1, <2>2, CTaskTypes, ElementOfSeq
<1>2. x \in Threads /\ cleaning[iter.at] = [id |-> x, type |-> "after"]
  BY <1>1 DEF Instructions
<1> HIDE DEF x
<1>3. iter.at \in Pending(x, "after")
  BY <1>1, <1>2, CTaskTypes DEF Pending
<1>4. x \in DOMAIN afters /\ Pending(x, "after") = {iter.at}
  BY <1>2, <1>3 DEF CarefulInv, ThreadInv, Cleanable
<1>5. afters' = Erase(afters, x) /\ waiting' = waiting /\ phase' = phase
  BY <1>4 DEF CleanAfter, x
<1>6. /\ running = <<>> /\ iter.thread = NoThread /\ iter'.thread = NoThread
      /\ UNCHANGED <<status, top, running, deferred, cleaning, now, clock>>
      /\ iter'.stop = iter.stop
      /\ \A t, type : Named(t, type) => Pending(t, type)' = Pending(t, type) \ {iter.at}
      /\ \A t, type : ~Named(t, type) => Pending(t, type)' = Pending(t, type)
      /\ StillDeferred' = StillDeferred
  BY <1>5, InstructionEffect DEF CleanAfter
<1>7. DOMAIN afters' = DOMAIN afters \ {x} /\ \A u \in DOMAIN afters' : afters'[u] = afters[u]
  BY <1>5 DEF Erase
<1>8. ASSUME NEW u \in Threads
      PROVE  /\ Pending(u, "waiter")' = Pending(u, "waiter")
             /\ u # x => Pending(u, "after")' = Pending(u, "after")
             /\ u = x => Pending(u, "after")' = {}
  <2>1. Named(u, "after") <=> u = x
    BY <1>1 DEF Named, x
  <2>2. ~Named(u, "waiter")
    BY <1>1 DEF Named
  <2> QED
    BY <1>4, <1>6, <2>1, <2>2
<1>9. ASSUME NEW u \in Threads
      PROVE  SameStatus(u) /\ SamePlaces(u) /\ FewerEntries(u) /\ ThreadInv(u)'
  <2>1. SameStatus(u)
    BY <1>6 DEF SameStatus
  <2>2. FewerEntries(u)
    BY <1>5, <1>6, <1>7 DEF FewerEntries, IsDeferred
  <2>3. LaterArgs(u)' = LaterArgs(u)
    BY <1>6 DEF LaterArgs
  <2>4. StillDue(u)' <=> StillDue(u)
    BY <1>1, <1>5, <1>8 DEF StillDue, WillWait, BeingResumed
  <2>5. StillFollowing(u)' <=> StillFollowing(u)
    BY <1>1, <1>4, <1>5, <1>7, <1>8 DEF StillFollowing, WillFollow, BeingResumed
  <2>6. SamePlaces(u)
    BY <2>3, <2>4, <2>5 DEF SamePlaces
  <2>7. ThreadInv(u) /\ status[u] \notin Active
    BY <1>6, NoneActive DEF CarefulInv
  <2>8. Served(u)'
    BY <1>5, <1>6, <2>2, <2>6, <2>7, StillServed
  <2>9. Cleanable(u)'
    BY <1>5, <1>7, <1>8, <2>7 DEF ThreadInv, Cleanable
  <2> QED
    BY <1>6, <2>1, <2>2, <2>6, <2>7, <2>8, <2>9, HostKeepsThread
<1>10. LoopInv'
  BY <1>1, <1>5, <1>6, CleanLoops
<1> QED
  BY <1>5, <1>6, <1>9, <1>10 DEF CarefulInv

LEMMA CleanRequestStep ==
  ASSUME TypeInv, TypeInv', CarefulInv, CTaskInv, CleanCTask
  PROVE  /\ CarefulInv' /\ iter.thread = NoThread /\ iter'.thread = NoThread
         /\ \A u \in Threads : SameStatus(u) /\ SamePlaces(u) /\ FewerEntries(u)
         /\ StillDeferred' = StillDeferred /\ UNCHANGED <<deferred, clock>> /\ phase' = phase
<1>1. phase = "clean" /\ phase' = phase /\ UNCHANGED <<waiting, afters>>
  BY CleanCTaskStep DEF CleanCTask, Instruction
<1>2. /\ running = <<>> /\ iter.thread = NoThread /\ iter'.thread = NoThread
      /\ UNCHANGED <<status, top, running, deferred, cleaning, now, clock>>
      /\ iter'.stop = iter.stop
      /\ \A t, type : Named(t, type) => Pending(t, type)' = Pending(t, type) \ {iter.at}
      /\ \A t, type : ~Named(t, type) => Pending(t, type)' = Pending(t, type)
      /\ StillDeferred' = StillDeferred
  BY <1>1, InstructionEffect DEF CleanCTask
<1>3. cleaning[iter.at].type = "ctask"
  BY DEF CleanCTask, Instruction
<1>4. \A u \in Threads : SameRequests(u)
  BY <1>2, <1>3 DEF SameRequests, Named
<1>5. ASSUME NEW u \in Threads
      PROVE  SameStatus(u) /\ SamePlaces(u) /\ FewerEntries(u) /\ ThreadInv(u)'
  <2>1. SameStatus(u) /\ SamePlaces(u) /\ FewerEntries(u)
    BY <1>1, <1>2, <1>4, PassedOn
  <2>2. ThreadInv(u) /\ status[u] \notin Active
    BY <1>2, NoneActive DEF CarefulInv
  <2>3. Served(u)'
    BY <1>1, <1>2, <2>1, <2>2, StillServed
  <2>4. Cleanable(u)'
    BY <1>1, <1>4, <2>2 DEF ThreadInv, Cleanable, SameRequests
  <2> QED
    BY <1>2, <2>1, <2>2, <2>3, <2>4, HostKeepsThread
<1>6. LoopInv'
  BY <1>1, <1>2, CleanLoops
<1> QED
  BY <1>1, <1>2, <1>5, <1>6 DEF CarefulInv

-----------------------------------------------------------------------------
(***************************************************************************)
(* The invariant.                                                          *)
(***************************************************************************)

\* What the host of careful scripts never does: it does not step again after a failure, look
\* for a slot that is gone, or for a thread to be awaited that is none.
LEMMA CarefulHost ==
  ASSUME TypeInv, Careful, CarefulInv, Host
  PROVE  \/ \E t \in Threads : \/ RunScript(t) \/ ResumeAfter(t) \/ ResumeWaiter(t)
                               \/ SkipAfter(t) \/ AfterReturned(t)
                               \/ SkipWaiter(t) \/ WaiterReturned(t)
         \/ ScriptReturned \/ ResumeDeferred \/ DeferredReturned \/ Passes
         \/ CleanWaiter \/ CleanAfter \/ CleanCTask
<1>1. ~StepAgain
  BY DEF StepAgain, Careful, CarefulInv, LoopInv, PhaseInv
<1>2. ASSUME NEW t \in Threads, AfterNothing(t)
      PROVE  FALSE
  BY <1>2 DEF AfterNothing, VisitAfter, AtSlot, CarefulInv, ThreadInv, Entered
<1>3. ~NoSuchWaiter
  <2> SUFFICES ASSUME NoSuchWaiter
               PROVE  FALSE
    OBVIOUS
  <2>1. /\ iter.stop = Size(waiting) /\ phase = "waiting" /\ iter.at > Size(waiting)
        /\ iter.at \in Int /\ IsMap(waiting, Waiters) /\ Size(waiting) \in Nat
    BY SizeType DEF NoSuchWaiter, CarefulInv, LoopInv, WaitingLoop, TypeInv, TypeOK, LoopTypeOK,
                    Loops, QueuesTypeOK
  <2>2. Back /\ AtSlot(waiting, iter.thread, iter.at)
    BY <2>1 DEF NoSuchWaiter, Back, CarefulInv, LoopInv, WaitingLoop
  <2> QED
    BY <2>1, <2>2, InLastSlot
<1>4. ASSUME CTaskRunning, NEW c \in CTasks, AddCTask(c)
      PROVE  FALSE
  BY <1>4 DEF CTaskRunning, AddCTask, Call, Careful
<1> QED
  BY <1>1, <1>2, <1>3, <1>4 DEF Host, Passes

LEMMA SkipsStep ==
  ASSUME TypeInv, TypeInv', CarefulInv, NEW t \in Threads, SkipAfter(t) \/ SkipWaiter(t)
  PROVE  /\ CarefulInv' /\ \A u \in Threads : Same(u)
         /\ iter.thread = NoThread /\ iter'.thread = NoThread
         /\ phase \in {"after", "waiting"} /\ phase' = phase
         /\ UNCHANGED <<waiting, afters, deferred, clock>>
<1>1. /\ phase \in {"after", "waiting"} /\ running = <<>> /\ iter.thread = NoThread
      /\ iter' = Advanced(1) /\ UNCHANGED <<vm, queues, times, phase>>
  BY DEF SkipAfter, SkipWaiter, VisitAfter, VisitWaiter, Idle
<1>2. CarefulInv' /\ \A u \in Threads : Same(u)
  BY <1>1, SkipStep
<1> QED
  BY <1>1, <1>2, AdvanceEffect DEF queues, times

LEMMA NextDeferred ==
  ASSUME TypeInv, ResumeDeferred
  PROVE  deferred[iter.at].thread \in Threads
<1>1. deferred \in Seq(DeferredTasks)
  BY DEF TypeInv, TypeOK, QueuesTypeOK, DeferredTasks
<1>2. iter.at \in 1 .. Len(deferred)
  BY StillDeferredType DEF ResumeDeferred, TypeInv, LoopsInBounds
<1>3. deferred[iter.at] \in DeferredTasks
  BY <1>1, <1>2, ElementOfSeq
<1> QED
  BY <1>3 DEF DeferredTasks

LEMMA HostCareful ==
  ASSUME TypeInv, TypeInv', Careful, CarefulInv, CTaskInv, Host
  PROVE  CarefulInv'
<1>1. CASE \E t \in Threads : \/ RunScript(t) \/ ResumeAfter(t) \/ ResumeWaiter(t)
                              \/ SkipAfter(t) \/ AfterReturned(t)
                              \/ SkipWaiter(t) \/ WaiterReturned(t)
  BY <1>1, RunScriptStep, ResumeAfterStep, ResumeWaiterStep, SkipsStep, AfterReturnedStep,
     WaiterReturnedStep
<1>2. CASE ResumeDeferred
  BY <1>2, NextDeferred, ResumeDeferredStep
<1>3. CASE ScriptReturned \/ DeferredReturned \/ Passes \/ CleanWaiter \/ CleanAfter \/ CleanCTask
  BY <1>3, ScriptReturnedStep, DeferredReturnedStep, PassesStep, CleanWaiterStep, CleanAfterStep,
     CleanRequestStep
<1> QED
  BY <1>1, <1>2, <1>3, CarefulHost

LEMMA InitCareful == Init /\ TypeInv => CarefulInv
<1> SUFFICES ASSUME Init, TypeInv
             PROVE  CarefulInv
  OBVIOUS
<1>1. /\ status = [t \in Threads |-> "absent"] /\ top = [t \in Threads |-> 0]
      /\ running = <<>> /\ DOMAIN waiting = {} /\ DOMAIN afters = {} /\ deferred = <<>>
      /\ DOMAIN deferred = {} /\ Len(deferred) = 0 /\ DOMAIN cleaning = {} /\ cleaning = <<>>
      /\ phase = "scripts" /\ iter.thread = NoThread /\ now = 0 /\ clock = 0
  BY DEF Init, Loop
<1>2. StillDeferred = 0
  BY <1>1 DEF StillDeferred
<1>3. ASSUME NEW t \in Threads
      PROVE  ThreadInv(t)
  <2>1. LaterArgs(t) = {} /\ ~StillLater(t)
    BY <1>1, <1>2 DEF LaterArgs, StillLater
  <2>2. ~StillDue(t) /\ ~StillFollowing(t) /\ ~Queued(t) /\ ~Live(t) /\ ~IsDeferred(t)
    BY <1>1, <2>1 DEF StillDue, StillFollowing, WillWait, WillFollow, Queued, WaitsOrIsDeferred,
                      Live, IsDeferred
  <2>3. Pending(t, "waiter") = {} /\ Pending(t, "after") = {}
    BY <1>1 DEF Pending
  <2>4. status[t] = "absent" /\ top[t] = 0
    BY <1>1
  <2> QED
    BY <1>1, <2>1, <2>2, <2>3, <2>4
    DEF ThreadInv, OnePlace, Stacked, Inside, Served, Cleanable, Entered, CanGoOn, Suspended, Active
<1>4. LoopInv
  BY <1>1, <1>2 DEF LoopInv, AfterLoop, WaitingLoop, DeferredLoop, CallStack, Buffer, PhaseInv,
                    ScriptPhases
<1> QED
  BY <1>3, <1>4 DEF CarefulInv

LEMMA CarefulNext ==
  ASSUME TypeInv, TypeInv', Careful, CarefulInv, CTaskInv, [Next]_vars
  PROVE  CarefulInv'
<1>1. CASE Script
  BY <1>1, ScriptCareful
<1>2. CASE Host
  BY <1>2, HostCareful
<1>3. CASE Tick \/ UNCHANGED vars
  <2>1. clock' >= clock /\ UNCHANGED <<vm, waiting, afters, deferred, cleaning, phase, iter, now>>
    BY <1>3 DEF Tick, vars, queues, times, TypeInv, TypeOK, LoopTypeOK
  <2> QED
    BY <2>1, QuietStep
<1> QED
  BY <1>1, <1>2, <1>3 DEF Next, Stop

\* With that the C tasks are matched whether or not a host goes on after a failure.
LEMMA CarefulCTasks ==
  ASSUME TypeInv, TypeInv', Careful, CarefulInv, CTaskInv, [Next]_vars
  PROVE  CTaskInv'
<1>1. phase = "failed" => ~Embedded
  BY DEF Careful, CarefulInv, LoopInv, PhaseInv
<1> QED
  BY <1>1, CTaskInvNext

\* The invariant that the theorems about careful scripts rest on.
LEMMA CarefulAlways ==
  ASSUME Careful
  PROVE  Spec => [](TypeInv /\ CarefulInv /\ CTaskInv)
<1>1. Init => TypeInv /\ CarefulInv /\ CTaskInv
  BY InitType, InitCareful, CTaskInvInit
<1>2. TypeInv /\ CarefulInv /\ CTaskInv /\ [Next]_vars => (TypeInv /\ CarefulInv /\ CTaskInv)'
  BY NextType, CarefulNext, CarefulCTasks
<1> QED
  BY <1>1, <1>2, PTL DEF Spec

-----------------------------------------------------------------------------
(***************************************************************************)
(* What careful scripts can rely on.                                       *)
(***************************************************************************)

\* With C tasks that do not fail, careful scripts never bring the scheduler down.
THEOREM NothingBreaksCorrect ==
  ASSUME Careful, "raise" \notin Ops["ctasks"]
  PROVE  Spec => []NothingBreaks
<1>1. CarefulInv => NothingBreaks
  BY DEF CarefulInv, LoopInv, PhaseInv, NothingBreaks
<1> QED
  BY <1>1, CarefulAlways, PTL

\* A thread inside task.wait_for has an entry of tasks_to_do_after that nobody is about to
\* clean away.
THEOREM NoLostWaitForCorrect ==
  ASSUME Careful
  PROVE  Spec => []NoLostWaitFor
<1>1. CarefulInv => NoLostWaitFor
  BY DEF CarefulInv, ThreadInv, OnePlace, StillFollowing, NoLostWaitFor
<1> QED
  BY <1>1, CarefulAlways, PTL

\* The entry that will resume a thread counts the values that were moved to its stack,
\* unless waiters wait again: those keep the count of their first entry.
THEOREM ArgumentsAreThereCorrect ==
  ASSUME Careful, "wait" \notin Ops["waiting"]
  PROVE  Spec => []ArgumentsAreThere
<1>1. TypeInv /\ CarefulInv => ArgumentsAreThere
  <2> SUFFICES ASSUME TypeInv, CarefulInv, NEW t \in Threads, iter.thread # t
               PROVE  /\ WillWait(t) => top[t] = waiting[t].argn
                      /\ WillFollow(t) => top[t] = afters[t].argn
                      /\ \A i \in DOMAIN deferred : WillRun(i, t) => top[t] = deferred[i].argn
    BY DEF ArgumentsAreThere
  <2>1. Stacked(t)
    BY DEF CarefulInv, ThreadInv
  <2>2. WillWait(t) => top[t] = waiting[t].argn
    BY <2>1 DEF Stacked, StillDue, BeingResumed
  <2>3. WillFollow(t) => top[t] = afters[t].argn
    BY <2>1 DEF Stacked, StillFollowing, BeingResumed
  <2>4. ASSUME NEW i \in DOMAIN deferred, WillRun(i, t)
        PROVE  top[t] = deferred[i].argn
    <3>1. i \in 1 .. StillDeferred
      <4>1. i \in 1 .. Len(deferred) /\ Len(deferred) \in Nat /\ iter.at \in Int
        BY StillDeferredType DEF TypeInv, TypeOK, LoopTypeOK, Loops
      <4>2. deferred[i].thread = t /\ (phase = "deferred" => i <= iter.at)
        BY <2>4 DEF WillRun, CarefulInv, LoopInv, DeferredLoop
      <4>3. phase = "deferred" /\ iter.thread # NoThread => i # iter.at
        BY <4>2 DEF CarefulInv, LoopInv, DeferredLoop
      <4> QED
        BY <4>1, <4>2, <4>3 DEF StillDeferred
    <3>2. deferred[i].argn \in LaterArgs(t)
      BY <2>4, <3>1 DEF LaterArgs, WillRun
    <3> QED
      BY <2>1, <3>2 DEF Stacked
  <2> QED
    BY <2>2, <2>3, <2>4
<1> QED
  BY <1>1, CarefulAlways, PTL

\* wait_for keeps one reference too many.
LEMMA CarefulScriptSpare ==
  ASSUME TypeInv, TypeInv', Careful, CarefulInv, CarefulInv', Script,
         \A p \in ScriptPhases : "wait_for" \notin Ops[p]
  PROVE  SpareKept
<1>1. Executing /\ phase \in ScriptPhases /\ \A n \in 0 .. MaxArgs : n \in Nat
  BY ScriptsAssumption DEF Script, Executing
<1>2. \A t \in Threads : Spare(t) \in Int
  BY SpareType
<1>3. ASSUME NEW k \in Coroutines
      PROVE  k \in Threads /\ k \notin DOMAIN waiting /\ k \notin DOMAIN afters
  BY <1>1, CarefulThreads DEF Queued, WaitsOrIsDeferred
<1>4. ASSUME NEW s \in Durations, Wait(s)
      PROVE  SpareKept
  BY <1>1, <1>4, WaitSpare
<1>5. ASSUME NEW k \in Coroutines, NEW n \in 0 .. MaxArgs, Defer(k, n)
      PROVE  SpareKept
  BY <1>1, <1>5, DeferSpare
<1>6. ASSUME NEW k \in Coroutines, NEW n, NEW s, Delay(s, k, n)
      PROVE  SpareKept
  <2>1. \A t \in Threads : Spare(t)' = Spare(t) + Bit(t, {k} \cap DOMAIN waiting)
    BY <1>6, DelaySpare
  <2>2. \A t : Bit(t, {k} \cap DOMAIN waiting) = 0
    BY <1>3 DEF Bit
  <2> QED
    BY <1>2, <2>1, <2>2 DEF SpareKept
<1>7. ASSUME NEW k \in Coroutines, NEW n \in 0 .. MaxArgs, NEW u \in Awaitable, DoAfter(u, k, n)
      PROVE  SpareKept
  <2>1. \A t \in Threads : Spare(t)' = Spare(t) + Surplus(t, k, u)
    BY <1>1, <1>7, DoAfterSpare
  <2>2. \A t : Surplus(t, k, u) = 0
    BY <1>3 DEF Surplus
  <2> QED
    BY <1>2, <2>1, <2>2 DEF SpareKept
<1>8. ASSUME NEW u, WaitFor(u)
      PROVE  FALSE
  BY <1>1, <1>8 DEF WaitFor, Await, Call
<1>9. ASSUME NEW k \in Created, Cancel(k)
      PROVE  SpareKept
  BY <1>9, CancelSpare DEF CarefulInv, LoopInv, PhaseInv
<1>10. ASSUME NEW k, NEW n, NEW c,
              Spawn(k, n) \/ AddCTask(c) \/ Create(k) \/ Yield \/ Finish(n) \/ Raise
       PROVE  SpareKept
  BY <1>10, SameSpare DEF Spawn, AddCTask, Create, Yield, Finish, Raise, queues
<1> QED
  BY <1>4, <1>5, <1>6, <1>7, <1>8, <1>9, <1>10, CarefulScript

LEMMA CarefulSpare ==
  ASSUME TypeInv, TypeInv', Careful, CarefulInv, CarefulInv', [Next]_vars,
         \A p \in ScriptPhases : "wait_for" \notin Ops[p]
  PROVE  SpareKept
<1>1. CASE Script
  BY <1>1, CarefulScriptSpare
<1>2. CASE Host
  <2>1. CASE DeferredDone
    <3>1. phase = "deferred" /\ iter.at < iter.stop
      BY <2>1 DEF DeferredDone, Proceed
    <3>2. iter.at = 0 /\ DOMAIN deferred = 1 .. Len(deferred)
      BY <3>1, StillDeferredType DEF TypeInv, LoopsInBounds
    <3>3. \A i \in DOMAIN deferred : ~deferred[i].held
      BY <3>1, <3>2 DEF CarefulInv, LoopInv, DeferredLoop
    <3> QED
      BY <2>1, <3>3, DeferredDoneSpare
  <2>2. CASE DeferredReturned \/ CleanWaiter \/ CleanAfter
    BY <2>2, DeferredReturnedSpare, CleaningSpare DEF CarefulInv, LoopInv, PhaseInv
  <2>3. CASE ~Releases
    BY <1>2, <2>3, HostKeepsPins, SameSpare
  <2> QED
    BY <2>1, <2>2, <2>3 DEF Releases
<1>3. CASE Tick \/ UNCHANGED vars
  BY <1>3, SameSpare DEF Tick, queues, vars
<1> QED
  BY <1>1, <1>2, <1>3 DEF Next, Stop

\* Without wait_for the entries hold exactly the references they will release: the registry
\* neither leaks a thread nor loses one that is to be resumed.
THEOREM RefsBalancedCorrect ==
  ASSUME Careful, \A p \in ScriptPhases : "wait_for" \notin Ops[p]
  PROVE  Spec => []RefsBalanced
<1>1. Init => RefsBalanced
  <2> SUFFICES ASSUME Init, NEW t \in Threads
               PROVE  pins[t] = Owed(t)
    BY DEF RefsBalanced
  <2>1. DOMAIN waiting = {} /\ DOMAIN afters = {} /\ DOMAIN deferred = {} /\ pins[t] = 0
    BY DEF Init
  <2>2. /\ {t} \cap DOMAIN waiting = {} /\ {t} \cap DOMAIN afters = {}
        /\ {k \in DOMAIN afters : afters[k].after_this = t} = {}
        /\ {i \in DOMAIN deferred : WillRun(i, t)} = {}
    BY <2>1
  <2> QED
    BY <2>1, <2>2, FS_EmptySet DEF Owed
<1>2. /\ TypeInv /\ CarefulInv /\ TypeInv' /\ CarefulInv'
      /\ RefsBalanced /\ [Next]_vars
      => RefsBalanced'
  <2> SUFFICES ASSUME TypeInv, CarefulInv, TypeInv', CarefulInv', RefsBalanced, [Next]_vars,
                      NEW t \in Threads
               PROVE  pins'[t] = Owed(t)'
    BY DEF RefsBalanced
  <2>1. Spare(t)' = Spare(t)
    BY CarefulSpare DEF SpareKept
  <2>2. Spare(t) = 0
    BY Names DEF RefsBalanced, Spare
  <2>3. pins'[t] \in Int /\ Owed(t)' \in Nat
    BY OwedIs, CountType DEF TypeInv, TypeOK, QueuesTypeOK
  <2> QED
    BY <2>1, <2>2, <2>3 DEF Spare
<1> QED
  BY <1>1, <1>2, CarefulAlways, PTL DEF Spec

-----------------------------------------------------------------------------
(***************************************************************************)
(* The scheduler that careful scripts find: what Abstract stands for, step *)
(* by step.                                                                *)
(***************************************************************************)
AllDue == [t \in {u \in DOMAIN waiting : StillDue(u)} |-> waiting[t].start + waiting[t].length]
AllAfter == [t \in {u \in DOMAIN afters : StillFollowing(u)} |-> afters[t].after_this]
AllLater == [i \in 1 .. StillDeferred |-> deferred[i].thread]
AllEnded == {t \in Threads : IsFinished(t)}

\* The place of u is as it was.
Unmoved(u) ==
  /\ SameStatus(u) /\ SamePlaces(u)
  /\ StillDue(u)' => waiting'[u] = waiting[u]
  /\ StillFollowing(u)' => afters'[u] = afters[u]

LEMMA UnmovedIf ==
  ASSUME NEW u, SameStatus(u), SamePlaces(u), SameEntries(u) \/ FewerEntries(u)
  PROVE  Unmoved(u)
<1>1. /\ StillDue(u)' => u \in DOMAIN waiting'
      /\ StillFollowing(u)' => u \in DOMAIN afters'
  BY DEF StillDue, StillFollowing, WillWait, WillFollow
<1> QED
  BY <1>1 DEF Unmoved, SameEntries, FewerEntries

LEMMA ConcernsUnmoved ==
  ASSUME NEW x, Concerns(x)
  PROVE  \A u \in Threads \ {x} : Unmoved(u)
BY UnmovedIf DEF Concerns, Same

\* The threads that have a place, and which.
LEMMA PlacesOf ==
  /\ TypeInv =>
       /\ DOMAIN AllDue = {u \in Threads : StillDue(u)}
       /\ \A u \in DOMAIN AllDue : AllDue[u] = waiting[u].start + waiting[u].length
       /\ DOMAIN AllAfter = {u \in Threads : StillFollowing(u)}
       /\ \A u \in DOMAIN AllAfter : AllAfter[u] = afters[u].after_this
  /\ TypeInv' =>
       /\ DOMAIN AllDue' = {u \in Threads : StillDue(u)'}
       /\ \A u \in DOMAIN AllDue' : AllDue'[u] = waiting'[u].start + waiting'[u].length
       /\ DOMAIN AllAfter' = {u \in Threads : StillFollowing(u)'}
       /\ \A u \in DOMAIN AllAfter' : AllAfter'[u] = afters'[u].after_this
<1>1. \A u : /\ StillDue(u) => u \in DOMAIN waiting
             /\ StillFollowing(u) => u \in DOMAIN afters
             /\ StillDue(u)' => u \in DOMAIN waiting'
             /\ StillFollowing(u)' => u \in DOMAIN afters'
  BY DEF StillDue, StillFollowing, WillWait, WillFollow
<1>2. TypeInv => DOMAIN waiting \subseteq Threads /\ DOMAIN afters \subseteq Threads
  BY DEF TypeInv, TypeOK, QueuesTypeOK, IsMap
<1>3. TypeInv' => DOMAIN waiting' \subseteq Threads /\ DOMAIN afters' \subseteq Threads
  BY DEF TypeInv, TypeOK, QueuesTypeOK, IsMap
<1> QED
  BY <1>1, <1>2, <1>3 DEF AllDue, AllAfter

\* Where nothing but the place of x changes.
LEMMA DueChange ==
  ASSUME TypeInv, TypeInv', NEW x \in Threads, \A u \in Threads \ {x} : Unmoved(u)
  PROVE  /\ StillDue(x)' =>
              AllDue' = Abstract!With(AllDue, x, waiting'[x].start + waiting'[x].length)
         /\ ~StillDue(x)' => AllDue' = Abstract!Without(AllDue, x)
         /\ ~StillDue(x)' /\ ~StillDue(x) => AllDue' = AllDue
<1> DEFINE D == AllDue
           E == AllDue'
           v == waiting'[x].start + waiting'[x].length
<1>1. /\ \A u \in Threads \ {x} : u \in DOMAIN E <=> u \in DOMAIN D
      /\ \A u \in DOMAIN E \ {x} : E[u] = D[u]
      /\ DOMAIN D \subseteq Threads /\ DOMAIN E \subseteq Threads
      /\ x \in DOMAIN E <=> StillDue(x)'
      /\ x \in DOMAIN D <=> StillDue(x)
      /\ x \in DOMAIN E => E[x] = v
  BY PlacesOf DEF Unmoved, SamePlaces
<1>2. E = [u \in DOMAIN E |-> E[u]] /\ D = [u \in DOMAIN D |-> D[u]]
  BY DEF AllDue
<1> HIDE DEF D, E, v
<1>3. ASSUME x \in DOMAIN E
      PROVE  E = [u \in DOMAIN D \cup {x} |-> IF u = x THEN v ELSE D[u]]
  <2>1. DOMAIN E = DOMAIN D \cup {x}
    BY <1>1, <1>3
  <2> QED
    BY <1>1, <1>2, <1>3, <2>1
<1>4. ASSUME x \notin DOMAIN E
      PROVE  E = [u \in DOMAIN D \ {x} |-> D[u]]
  <2>1. DOMAIN E = DOMAIN D \ {x}
    BY <1>1, <1>4
  <2> QED
    BY <1>1, <1>2, <1>4, <2>1
<1>5. ASSUME x \notin DOMAIN E, x \notin DOMAIN D
      PROVE  E = D
  <2>1. DOMAIN E = DOMAIN D
    BY <1>1, <1>5
  <2> QED
    BY <1>1, <1>2, <1>5, <2>1
<1> QED
  BY <1>1, <1>3, <1>4, <1>5 DEF Abstract!With, Abstract!Without, D, E, v

LEMMA AfterChange ==
  ASSUME TypeInv, TypeInv', NEW x \in Threads, \A u \in Threads \ {x} : Unmoved(u)
  PROVE  /\ StillFollowing(x)' =>
              AllAfter' = Abstract!With(AllAfter, x, afters'[x].after_this)
         /\ ~StillFollowing(x)' => AllAfter' = Abstract!Without(AllAfter, x)
         /\ ~StillFollowing(x)' /\ ~StillFollowing(x) => AllAfter' = AllAfter
<1> DEFINE D == AllAfter
           E == AllAfter'
           v == afters'[x].after_this
<1>1. /\ \A u \in Threads \ {x} : u \in DOMAIN E <=> u \in DOMAIN D
      /\ \A u \in DOMAIN E \ {x} : E[u] = D[u]
      /\ DOMAIN D \subseteq Threads /\ DOMAIN E \subseteq Threads
      /\ x \in DOMAIN E <=> StillFollowing(x)'
      /\ x \in DOMAIN D <=> StillFollowing(x)
      /\ x \in DOMAIN E => E[x] = v
  BY PlacesOf DEF Unmoved, SamePlaces
<1>2. E = [u \in DOMAIN E |-> E[u]] /\ D = [u \in DOMAIN D |-> D[u]]
  BY DEF AllAfter
<1> HIDE DEF D, E, v
<1>3. ASSUME x \in DOMAIN E
      PROVE  E = [u \in DOMAIN D \cup {x} |-> IF u = x THEN v ELSE D[u]]
  <2>1. DOMAIN E = DOMAIN D \cup {x}
    BY <1>1, <1>3
  <2> QED
    BY <1>1, <1>2, <1>3, <2>1
<1>4. ASSUME x \notin DOMAIN E
      PROVE  E = [u \in DOMAIN D \ {x} |-> D[u]]
  <2>1. DOMAIN E = DOMAIN D \ {x}
    BY <1>1, <1>4
  <2> QED
    BY <1>1, <1>2, <1>4, <2>1
<1>5. ASSUME x \notin DOMAIN E, x \notin DOMAIN D
      PROVE  E = D
  <2>1. DOMAIN E = DOMAIN D
    BY <1>1, <1>5
  <2> QED
    BY <1>1, <1>2, <1>5, <2>1
<1> QED
  BY <1>1, <1>3, <1>4, <1>5 DEF Abstract!With, Abstract!Without, D, E, v

LEMMA EndedChange ==
  ASSUME NEW x \in Threads, \A u \in Threads \ {x} : Unmoved(u)
  PROVE  /\ IsFinished(x)' => AllEnded' = AllEnded \cup {x}
         /\ ~IsFinished(x)' /\ ~IsFinished(x) => AllEnded' = AllEnded
<1>1. ASSUME NEW u \in Threads \ {x}
      PROVE  IsFinished(u)' <=> IsFinished(u)
  BY DEF Unmoved, SameStatus, IsFinished, Active
<1> QED
  BY <1>1 DEF AllEnded

LEMMA NothingMoved ==
  ASSUME TypeInv, TypeInv', \A u \in Threads : Unmoved(u)
  PROVE  AllDue' = AllDue /\ AllAfter' = AllAfter /\ AllEnded' = AllEnded
<1>1. AllEnded' = AllEnded
  <2>1. ASSUME NEW u \in Threads
        PROVE  IsFinished(u)' <=> IsFinished(u)
    BY DEF Unmoved, SameStatus, IsFinished, Active
  <2> QED
    BY <2>1 DEF AllEnded
<1>2. AllDue' = AllDue
  <2>1. DOMAIN AllDue' = DOMAIN AllDue /\ \A u \in DOMAIN AllDue : AllDue'[u] = AllDue[u]
    BY PlacesOf DEF Unmoved, SamePlaces
  <2>2. /\ AllDue' = [u \in DOMAIN AllDue' |-> AllDue'[u]]
        /\ AllDue = [u \in DOMAIN AllDue |-> AllDue[u]]
    BY DEF AllDue
  <2> QED
    BY <2>1, <2>2
<1>3. AllAfter' = AllAfter
  <2>1. DOMAIN AllAfter' = DOMAIN AllAfter /\ \A u \in DOMAIN AllAfter : AllAfter'[u] = AllAfter[u]
    BY PlacesOf DEF Unmoved, SamePlaces
  <2>2. /\ AllAfter' = [u \in DOMAIN AllAfter' |-> AllAfter'[u]]
        /\ AllAfter = [u \in DOMAIN AllAfter |-> AllAfter[u]]
    BY DEF AllAfter
  <2> QED
    BY <2>1, <2>2
<1> QED
  BY <1>1, <1>2, <1>3

\* The deferred threads.
LEMMA LaterType ==
  ASSUME TypeInv
  PROVE  /\ AllLater \in Seq(Threads) /\ Len(AllLater) = StillDeferred /\ StillDeferred \in Nat
         /\ \A i \in 1 .. StillDeferred : AllLater[i] = deferred[i].thread
<1>1. StillDeferred \in 0 .. Len(deferred) /\ Len(deferred) \in Nat
  BY StillDeferredType
<1>2. \A i \in 1 .. StillDeferred : deferred[i].thread \in Threads
  <2>1. deferred \in Seq(DeferredTasks)
    BY DEF TypeInv, TypeOK, QueuesTypeOK, DeferredTasks
  <2>2. \A i \in 1 .. Len(deferred) : deferred[i] \in DeferredTasks
    BY <2>1, ElementOfSeq
  <2> QED
    BY <1>1, <2>2 DEF DeferredTasks
<1> QED
  BY <1>1, <1>2 DEF AllLater

LEMMA LaterTypeNext ==
  (TypeInv => /\ AllLater \in Seq(Threads) /\ Len(AllLater) = StillDeferred /\ StillDeferred \in Nat
              /\ \A i \in 1 .. StillDeferred : AllLater[i] = deferred[i].thread)'
BY LaterType, PTL

LEMMA LaterKeptIf ==
  ASSUME StillDeferred' = StillDeferred,
         \A i \in 1 .. StillDeferred : deferred'[i].thread = deferred[i].thread
  PROVE  AllLater' = AllLater
BY DEF AllLater

LEMMA PlacedIs ==
  ASSUME TypeInv
  PROVE  \A t \in Threads :
           (t \in DOMAIN AllDue \/ t \in DOMAIN AllAfter
              \/ \E i \in DOMAIN AllLater : AllLater[i] = t) <=> Live(t)
<1>1. DOMAIN AllLater = 1 .. StillDeferred
  BY DEF AllLater
<1>2. \A t : StillLater(t) <=> \E i \in 1 .. StillDeferred : deferred[i].thread = t
  BY DEF StillLater, LaterArgs
<1> QED
  BY <1>1, <1>2, PlacesOf, LaterType DEF Live

\* The actions of the scheduler, on what they stand for.

LEMMA ScheduledIs ==
  ASSUME TypeInv
  PROVE  \A t \in Threads : Abstract!Scheduled(t) <=> Live(t)
BY PlacedIs DEF Abstract!Scheduled, AllDue, AllAfter, AllLater

LEMMA Stuttered ==
  ASSUME iter'.thread = iter.thread, UNCHANGED <<AllDue, AllAfter, AllLater, AllEnded, clock>>
  PROVE  UNCHANGED Abstract!vars
BY DEF Abstract!vars, AllDue, AllAfter, AllLater, AllEnded

LEMMA Waited ==
  ASSUME NEW t \in Threads, iter.thread # NoThread, iter'.thread = iter.thread,
         ~Abstract!Scheduled(t), t \notin AllEnded, NEW s \in Durations,
         AllDue' = Abstract!With(AllDue, t, clock + s),
         UNCHANGED <<AllAfter, AllLater, AllEnded, clock>>
  PROVE  Abstract!Wait(t)
BY DEF Abstract!Wait, AllDue, AllAfter, AllLater, AllEnded

LEMMA Followed ==
  ASSUME NEW t \in Threads, NEW u, iter.thread # NoThread, iter'.thread = iter.thread,
         ~Abstract!Scheduled(t), t \notin AllEnded,
         AllAfter' = Abstract!With(AllAfter, t, u),
         UNCHANGED <<AllDue, AllLater, AllEnded, clock>>
  PROVE  Abstract!Follow(t, u)
BY DEF Abstract!Follow, AllDue, AllAfter, AllLater, AllEnded

LEMMA Deferred ==
  ASSUME NEW t \in Threads, iter.thread # NoThread, iter'.thread = iter.thread,
         ~Abstract!Scheduled(t), t \notin AllEnded,
         AllLater' = Append(AllLater, t), UNCHANGED <<AllDue, AllAfter, AllEnded, clock>>
  PROVE  Abstract!Defer(t)
BY DEF Abstract!Defer, AllDue, AllAfter, AllLater, AllEnded

LEMMA Cancelled ==
  ASSUME NEW t \in Threads, iter.thread # NoThread, iter'.thread = iter.thread,
         AllEnded' = AllEnded \cup {t}, UNCHANGED <<AllAfter, clock>>,
         \/ /\ t \in DOMAIN AllDue /\ AllDue' = Abstract!Without(AllDue, t)
            /\ UNCHANGED AllLater
         \/ /\ \E i \in DOMAIN AllLater : AllLater[i] = t /\ AllLater' = RemoveAt(AllLater, i)
            /\ UNCHANGED AllDue
  PROVE  Abstract!Cancel(t)
BY DEF Abstract!Cancel, Abstract!RemoveAt, RemoveAt, AllDue, AllAfter, AllLater, AllEnded

LEMMA CameToEnd ==
  ASSUME NEW t \in Threads, iter.thread # NoThread, iter'.thread = iter.thread,
         ~Abstract!Scheduled(t), AllEnded' = AllEnded \cup {t},
         UNCHANGED <<AllDue, AllAfter, AllLater, clock>>
  PROVE  Abstract!End(t)
BY DEF Abstract!End, AllDue, AllAfter, AllLater, AllEnded

LEMMA Started ==
  ASSUME NEW t \in Threads, iter.thread = NoThread, iter'.thread = t,
         t \in MainScripts \ AllEnded, UNCHANGED <<AllDue, AllAfter, AllLater, AllEnded, clock>>
  PROVE  Abstract!Start(t)
BY DEF Abstract!Start, Abstract!Turn, AllDue, AllAfter, AllLater, AllEnded

LEMMA WaiterResumed ==
  ASSUME NEW t \in Threads, iter.thread = NoThread, iter'.thread = t,
         t \in DOMAIN AllDue, AllDue[t] <= clock, AllDue' = Abstract!Without(AllDue, t),
         UNCHANGED <<AllAfter, AllLater, AllEnded, clock>>
  PROVE  Abstract!ResumeWaiter(t)
BY DEF Abstract!ResumeWaiter, Abstract!Turn, AllDue, AllAfter, AllLater, AllEnded

LEMMA FollowerResumed ==
  ASSUME NEW t \in Threads, iter.thread = NoThread, iter'.thread = t,
         t \in DOMAIN AllAfter, AllAfter[t] \in AllEnded,
         AllAfter' = Abstract!Without(AllAfter, t),
         UNCHANGED <<AllDue, AllLater, AllEnded, clock>>
  PROVE  Abstract!ResumeFollower(t)
BY DEF Abstract!ResumeFollower, Abstract!Turn, AllDue, AllAfter, AllLater, AllEnded

LEMMA DeferredResumed ==
  ASSUME iter.thread = NoThread, AllLater # <<>>, iter'.thread = Last(AllLater),
         AllLater' = Front(AllLater), UNCHANGED <<AllDue, AllAfter, AllEnded, clock>>
  PROVE  Abstract!ResumeDeferred
BY DEF Abstract!ResumeDeferred, Abstract!Turn, Abstract!Front, Abstract!Last, Front, Last,
       AllDue, AllAfter, AllLater, AllEnded

LEMMA Returned ==
  ASSUME iter.thread # NoThread, iter'.thread = NoThread,
         UNCHANGED <<AllDue, AllAfter, AllLater, AllEnded, clock>>
  PROVE  Abstract!Return
BY DEF Abstract!Return, AllDue, AllAfter, AllLater, AllEnded

LEMMA TimePassed ==
  ASSUME iter'.thread = iter.thread, clock' = clock + 1,
         UNCHANGED <<AllDue, AllAfter, AllLater, AllEnded>>
  PROVE  Abstract!Pass
BY DEF Abstract!Pass, AllDue, AllAfter, AllLater, AllEnded

\* Each step, mapped.
LEMMA CallLoop ==
  ASSUME TypeInv, CarefulInv, Executing, Within
  PROVE  /\ iter.thread # NoThread
         /\ iter'.thread = iter.thread
         /\ (deferred' = deferred => AllLater' = AllLater)
<1>1. iter.thread # NoThread
  BY ExecutingThread DEF CarefulInv
<1>2. iter' = iter /\ phase' = phase
  BY DEF Within
<1>3. ASSUME deferred' = deferred
      PROVE  AllLater' = AllLater
  <2>1. StillDeferred' = StillDeferred
    BY <1>2, <1>3 DEF StillDeferred
  <2> QED
    BY <1>3, <2>1, LaterKeptIf
<1> QED
  BY <1>1, <1>2, <1>3

LEMMA WaitMapped ==
  ASSUME TypeInv, TypeInv', Careful, CarefulInv, Executing, NEW s \in Durations, Wait(s),
         NEW x \in Threads, x = self
  PROVE  Abstract!Wait(x)
<1>1. /\ Within /\ clock' = clock /\ UNCHANGED <<afters, deferred>>
      /\ waiting'[x].start = clock /\ waiting'[x].length = s
  BY WaitEffect
<1>2. Concerns(x) /\ StillDue(x)' /\ ~StillFollowing(x)'
  BY WaitStep
<1>3. ~Live(x) /\ ~StillFollowing(x) /\ status[x] \in Active
  <2>1. status[x] \in Active
    BY ExecutingThread DEF CarefulInv
  <2> QED
    BY <2>1, ActiveThread DEF Live
<1>4. status'[x] = "in_wait"
  BY DEF Wait, Leave, TypeInv, TypeOK, VmTypeOK
<1>5. ~IsFinished(x) /\ ~IsFinished(x)'
  BY <1>3, <1>4 DEF IsFinished, Active
<1>6. AllDue' = Abstract!With(AllDue, x, clock + s)
  BY <1>1, <1>2, ConcernsUnmoved, DueChange
<1>7. AllAfter' = AllAfter /\ AllEnded' = AllEnded
  BY <1>2, <1>3, <1>5, ConcernsUnmoved, AfterChange, EndedChange
<1>8. ~Abstract!Scheduled(x) /\ x \notin AllEnded
  BY <1>3, <1>5, ScheduledIs DEF AllEnded
<1> QED
  BY <1>1, <1>6, <1>7, <1>8, CallLoop, Waited

LEMMA DelayMapped ==
  ASSUME TypeInv, TypeInv', Careful, CarefulInv, Executing, NEW t \in Coroutines,
         NEW n \in 0 .. MaxArgs, NEW s \in Durations, Delay(s, t, n)
  PROVE  t \in Threads /\ Abstract!Wait(t)
<1>1. /\ Concerns(t) /\ Within /\ clock' = clock /\ UNCHANGED <<afters, deferred>>
      /\ StillDue(t)' /\ ~StillFollowing(t)'
      /\ waiting'[t].start = clock /\ waiting'[t].length = s
  BY DelayStep
<1>2. /\ t \in Threads /\ ~Live(t) /\ status[t] \in {"absent", "fresh", "in_yield"}
  BY CarefulThreads
<1>3. status'[t] \in {"fresh", "in_yield"}
  BY ScriptsAssumption, HandEffect DEF Delay
<1>4. ~IsFinished(t) /\ ~IsFinished(t)' /\ ~StillFollowing(t)
  BY <1>2, <1>3 DEF IsFinished, Live
<1>5. AllDue' = Abstract!With(AllDue, t, clock + s)
  BY <1>1, <1>2, ConcernsUnmoved, DueChange
<1>6. AllAfter' = AllAfter /\ AllEnded' = AllEnded
  BY <1>1, <1>2, <1>4, ConcernsUnmoved, AfterChange, EndedChange
<1>7. ~Abstract!Scheduled(t) /\ t \notin AllEnded
  BY <1>2, <1>4, ScheduledIs DEF AllEnded
<1> QED
  BY <1>1, <1>2, <1>5, <1>6, <1>7, CallLoop, Waited

LEMMA DoAfterMapped ==
  ASSUME TypeInv, TypeInv', Careful, CarefulInv, Executing, NEW t \in Coroutines,
         NEW n \in 0 .. MaxArgs, NEW thread \in Awaitable, DoAfter(thread, t, n)
  PROVE  t \in Threads /\ thread \in Threads /\ Abstract!Follow(t, thread)
<1>1. /\ Concerns(t) /\ Within /\ clock' = clock /\ UNCHANGED <<waiting, deferred>>
      /\ StillFollowing(t)' /\ ~StillDue(t)' /\ afters'[t].after_this = thread
  BY DoAfterStep
<1>2. /\ t \in Threads /\ ~Live(t) /\ status[t] \in {"absent", "fresh", "in_yield"}
      /\ thread \in Threads
  BY CarefulThreads DEF Created
<1>3. status'[t] \in {"fresh", "in_yield"}
  BY ScriptsAssumption, HandEffect DEF DoAfter
<1>4. ~IsFinished(t) /\ ~IsFinished(t)' /\ ~StillDue(t)
  BY <1>2, <1>3 DEF IsFinished, Live
<1>5. AllAfter' = Abstract!With(AllAfter, t, thread)
  BY <1>1, <1>2, ConcernsUnmoved, AfterChange
<1>6. AllDue' = AllDue /\ AllEnded' = AllEnded
  BY <1>1, <1>2, <1>4, ConcernsUnmoved, DueChange, EndedChange
<1>7. ~Abstract!Scheduled(t) /\ t \notin AllEnded
  BY <1>2, <1>4, ScheduledIs DEF AllEnded
<1> QED
  BY <1>1, <1>2, <1>5, <1>6, <1>7, CallLoop, Followed

LEMMA WaitForMapped ==
  ASSUME TypeInv, TypeInv', Careful, CarefulInv, Executing, NEW thread \in Awaitable,
         WaitFor(thread), NEW x \in Threads, x = self
  PROVE  thread \in Threads /\ Abstract!Follow(x, thread)
<1>1. /\ Concerns(x) /\ Within /\ clock' = clock
      /\ StillFollowing(x)' /\ ~StillDue(x)'
      /\ afters'[x].after_this = thread /\ status'[x] = "in_wait_for"
  BY WaitForStep
<1>2. ~Live(x) /\ ~StillDue(x) /\ status[x] \in Active
  <2>1. status[x] \in Active
    BY ExecutingThread DEF CarefulInv
  <2> QED
    BY <2>1, ActiveThread DEF Live
<1>3. ~IsFinished(x) /\ ~IsFinished(x)'
  BY <1>1, <1>2 DEF IsFinished, Active
<1>4. AllAfter' = Abstract!With(AllAfter, x, thread)
  BY <1>1, ConcernsUnmoved, AfterChange
<1>5. AllDue' = AllDue /\ AllEnded' = AllEnded
  BY <1>1, <1>2, <1>3, ConcernsUnmoved, DueChange, EndedChange
<1>6. ~Abstract!Scheduled(x) /\ x \notin AllEnded
  BY <1>2, <1>3, ScheduledIs DEF AllEnded
<1>7. deferred' = deferred /\ thread \in Threads
  BY CarefulThreads DEF WaitFor, Await, Created
<1> QED
  BY <1>1, <1>4, <1>5, <1>6, <1>7, CallLoop, Followed

LEMMA DeferMapped ==
  ASSUME TypeInv, TypeInv', Careful, CarefulInv, Executing, NEW t \in Coroutines,
         NEW n \in 0 .. MaxArgs, Defer(t, n)
  PROVE  t \in Threads /\ Abstract!Defer(t)
<1>1. /\ Concerns(t) /\ Within /\ clock' = clock /\ phase # "deferred"
      /\ UNCHANGED <<waiting, afters>> /\ ~StillDue(t)' /\ ~StillFollowing(t)'
  BY DeferStep
<1>2. /\ t \in Threads /\ ~Live(t) /\ status[t] \in {"absent", "fresh", "in_yield"}
  BY CarefulThreads
<1>3. status'[t] \in {"fresh", "in_yield"}
  BY ScriptsAssumption, HandEffect DEF Defer
<1>4. ~IsFinished(t) /\ ~IsFinished(t)' /\ ~StillDue(t) /\ ~StillFollowing(t)
  BY <1>2, <1>3 DEF IsFinished, Live
<1>5. AllDue' = AllDue /\ AllAfter' = AllAfter /\ AllEnded' = AllEnded
  BY <1>1, <1>2, <1>4, ConcernsUnmoved, DueChange, AfterChange, EndedChange
<1>6. AllLater' = Append(AllLater, t)
  <2> DEFINE e == [thread |-> t, argn |-> n, held |-> TRUE]
  <2>1. deferred \in Seq(DeferredTasks) /\ e \in DeferredTasks /\ deferred' = Append(deferred, e)
    BY <1>2, ScriptsAssumption DEF TypeInv, TypeOK, QueuesTypeOK, DeferredTasks, Defer
  <2> DEFINE m == Len(deferred)
  <2>2. e.thread = t
    OBVIOUS
  <2> HIDE DEF e
  <2>3. /\ m \in Nat /\ Len(deferred') = m + 1
        /\ \A i \in 1 .. m : deferred'[i] = deferred[i]
        /\ deferred'[m + 1] = e
    BY <2>1, LenProperties, AppendProperties
  <2>4. StillDeferred = m /\ StillDeferred' = m + 1
    BY <1>1, <2>3 DEF StillDeferred, Within
  <2>5. /\ AllLater \in Seq(Threads) /\ Len(AllLater) = m
        /\ \A i \in 1 .. m : AllLater[i] = deferred[i].thread
        /\ AllLater' \in Seq(Threads) /\ Len(AllLater') = m + 1
        /\ \A i \in 1 .. m + 1 : AllLater'[i] = deferred'[i].thread
    BY <2>4, LaterType, LaterTypeNext
  <2>6. /\ Append(AllLater, t) \in Seq(Threads) /\ Len(Append(AllLater, t)) = m + 1
        /\ \A i \in 1 .. m : Append(AllLater, t)[i] = AllLater[i]
        /\ Append(AllLater, t)[m + 1] = t
    BY <1>2, <2>5, AppendProperties
  <2>7. \A i \in 1 .. m + 1 : AllLater'[i] = Append(AllLater, t)[i]
    <3> TAKE i \in 1 .. m + 1
    <3>1. i \in 1 .. m \/ i = m + 1
      BY <2>3
    <3> QED
      BY <2>2, <2>3, <2>5, <2>6, <3>1
  <2> QED
    BY <2>5, <2>6, <2>7, SeqEqual
<1>7. ~Abstract!Scheduled(t) /\ t \notin AllEnded
  BY <1>2, <1>4, ScheduledIs DEF AllEnded
<1> QED
  BY <1>1, <1>2, <1>5, <1>6, <1>7, CallLoop, Deferred

LEMMA CancelMapped ==
  ASSUME TypeInv, TypeInv', Careful, CarefulInv, Executing, NEW t \in Created, Cancel(t)
  PROVE  t \in Threads /\ Abstract!Cancel(t)
<1>1. /\ Concerns(t) /\ Within /\ clock' = clock
      /\ Live(t) /\ ~Live(t)' /\ status'[t] = "finished" /\ top'[t] = 0
      /\ ~StillFollowing(t) /\ phase # "deferred" /\ t \in Threads
  BY CancelStep DEF Created
<1>2. IsFinished(t)' /\ ~StillDue(t)' /\ ~StillFollowing(t)'
  BY <1>1 DEF IsFinished, Live
<1>3. AllAfter' = AllAfter /\ AllEnded' = AllEnded \cup {t}
  BY <1>1, <1>2, ConcernsUnmoved, AfterChange, EndedChange
<1>4. CASE deferred' = deferred /\ ~StillLater(t)
  <2>1. StillDue(t)
    BY <1>1, <1>4 DEF Live
  <2>2. t \in DOMAIN AllDue
    BY <1>1, <2>1, PlacesOf
  <2>3. AllDue' = Abstract!Without(AllDue, t)
    BY <1>1, <1>2, ConcernsUnmoved, DueChange
  <2> QED
    BY <1>1, <1>3, <1>4, <2>2, <2>3, CallLoop, Cancelled
<1>5. ASSUME NEW i \in DOMAIN deferred, deferred[i].thread = t, deferred' = RemoveAt(deferred, i)
      PROVE  Abstract!Cancel(t)
  <2> DEFINE m == Len(deferred)
  <2>1. m \in Nat /\ deferred \in Seq(DeferredTasks) /\ i \in 1 .. m
    BY LenProperties DEF TypeInv, TypeOK, QueuesTypeOK, DeferredTasks
  <2>2. /\ Len(deferred') = m - 1
        /\ \A j \in 1 .. m - 1 : deferred'[j] = IF j < i THEN deferred[j] ELSE deferred[j + 1]
    BY <1>5, <2>1, RemoveAtElements
  <2>3. StillDeferred = m /\ StillDeferred' = m - 1
    BY <1>1, <2>2 DEF StillDeferred, Within
  <2>4. /\ AllLater \in Seq(Threads) /\ Len(AllLater) = m /\ DOMAIN AllLater = 1 .. m
        /\ \A j \in 1 .. m : AllLater[j] = deferred[j].thread
    BY <2>3, LaterType, LenProperties
  <2>5. /\ AllLater' \in Seq(Threads) /\ Len(AllLater') = m - 1
        /\ \A j \in 1 .. m - 1 : AllLater'[j] = deferred'[j].thread
    BY <2>3, LaterTypeNext
  <2>6. /\ RemoveAt(AllLater, i) \in Seq(Threads) /\ Len(RemoveAt(AllLater, i)) = m - 1
        /\ \A j \in 1 .. m - 1 :
             RemoveAt(AllLater, i)[j] = IF j < i THEN AllLater[j] ELSE AllLater[j + 1]
    BY <2>1, <2>4, RemoveAtElements
  <2>7. \A j \in 1 .. m - 1 : AllLater'[j] = RemoveAt(AllLater, i)[j]
    <3> TAKE j \in 1 .. m - 1
    <3>1. j \in 1 .. m /\ j + 1 \in 1 .. m
      BY <2>1
    <3> QED
      BY <2>2, <2>4, <2>5, <2>6, <3>1
  <2>8. AllLater' = RemoveAt(AllLater, i)
    BY <2>5, <2>6, <2>7, SeqEqual
  <2>9. AllLater[i] = t /\ i \in DOMAIN AllLater
    BY <1>5, <2>1, <2>4
  <2>10. ~StillDue(t)
    <3>1. StillLater(t)
      BY <1>5, <2>1, <2>3 DEF StillLater, LaterArgs
    <3> QED
      BY <1>1, <3>1 DEF CarefulInv, ThreadInv, OnePlace
  <2>11. AllDue' = AllDue
    BY <1>1, <1>2, <2>10, ConcernsUnmoved, DueChange
  <2> QED
    BY <1>1, <1>3, <2>8, <2>9, <2>11, CallLoop, Cancelled
<1>6. \/ deferred' = deferred /\ ~StillLater(t)
      \/ \E i \in DOMAIN deferred : deferred[i].thread = t /\ deferred' = RemoveAt(deferred, i)
  BY CancelStep
<1> QED
  BY <1>1, <1>4, <1>5, <1>6

\* A thread that has no place, before and after, and comes to no end.
LEMMA PlacesStay ==
  ASSUME TypeInv, TypeInv', NEW x \in Threads, Concerns(x),
         ~StillDue(x), ~StillDue(x)', ~StillFollowing(x), ~StillFollowing(x)'
  PROVE  /\ AllDue' = AllDue /\ AllAfter' = AllAfter
         /\ (~IsFinished(x) /\ ~IsFinished(x)' => AllEnded' = AllEnded)
         /\ (IsFinished(x)' => AllEnded' = AllEnded \cup {x})
BY ConcernsUnmoved, DueChange, AfterChange, EndedChange

LEMMA SpawnMapped ==
  ASSUME TypeInv, TypeInv', Careful, CarefulInv, Executing, NEW t \in Coroutines,
         NEW n \in 0 .. MaxArgs, Spawn(t, n)
  PROVE  UNCHANGED Abstract!vars
<1>1. /\ Concerns(t) /\ Within /\ clock' = clock /\ UNCHANGED <<waiting, afters, deferred>>
      /\ status'[t] = "running" /\ SamePlaces(t) /\ ~Live(t)
  BY SpawnStep
<1>2. t \in Threads /\ status[t] \in {"absent", "fresh", "in_yield"}
  BY CarefulThreads
<1>3. ~IsFinished(t) /\ ~IsFinished(t)'
  BY <1>1, <1>2 DEF IsFinished
<1>4. ~StillDue(t) /\ ~StillDue(t)' /\ ~StillFollowing(t) /\ ~StillFollowing(t)'
  BY <1>1 DEF Live, SamePlaces
<1>5. AllDue' = AllDue /\ AllAfter' = AllAfter /\ AllEnded' = AllEnded
  BY <1>1, <1>2, <1>3, <1>4, PlacesStay
<1> QED
  BY <1>1, <1>5, CallLoop, Stuttered

LEMMA CreateMapped ==
  ASSUME TypeInv, TypeInv', Careful, CarefulInv, Executing, NEW t \in Threads, Create(t)
  PROVE  UNCHANGED Abstract!vars
<1>1. /\ Concerns(t) /\ Within /\ clock' = clock /\ UNCHANGED <<waiting, afters, deferred>>
      /\ status'[t] = "fresh" /\ SamePlaces(t) /\ status[t] = "absent"
  BY CreateStep
<1>2. ~IsFinished(t) /\ ~IsFinished(t)' /\ ~Live(t)
  BY <1>1 DEF IsFinished, CarefulInv, ThreadInv, OnePlace, CanGoOn, Suspended
<1>3. ~StillDue(t) /\ ~StillDue(t)' /\ ~StillFollowing(t) /\ ~StillFollowing(t)'
  BY <1>1, <1>2 DEF Live, SamePlaces
<1>4. AllDue' = AllDue /\ AllAfter' = AllAfter /\ AllEnded' = AllEnded
  BY <1>1, <1>2, <1>3, PlacesStay
<1> QED
  BY <1>1, <1>4, CallLoop, Stuttered

\* The executing thread leaves without a place: it yields, or comes to its end.
LEMMA LeaveMapped ==
  ASSUME TypeInv, TypeInv', Careful, CarefulInv, Executing,
         NEW s \in {"in_yield", "finished", "errored"}, NEW n, Leave(s, n),
         s = "in_yield" => n = 0, s = "errored" => Len(running) > 1,
         UNCHANGED <<queues, phase, iter, now, clock>>,
         NEW x \in Threads, x = self
  PROVE  /\ (~(s = "finished" /\ n = 0) => UNCHANGED Abstract!vars)
         /\ (s = "finished" /\ n = 0 => Abstract!End(x))
<1> DEFINE Ends == s = "finished" /\ n = 0
<1>1. /\ Concerns(x) /\ SamePlaces(x) /\ status'[x] = s /\ top'[x] = n /\ ~Live(x)
  BY LeaveStep
<1>2. Within /\ deferred' = deferred /\ clock' = clock
  BY DEF Within, queues
<1>3. status[x] \in Active
  BY ExecutingThread DEF CarefulInv
<1>4. ~IsFinished(x) /\ (IsFinished(x)' <=> Ends)
  BY <1>1, <1>3 DEF IsFinished, Active
<1>5. ~StillDue(x) /\ ~StillDue(x)' /\ ~StillFollowing(x) /\ ~StillFollowing(x)'
  BY <1>1 DEF Live, SamePlaces
<1>6. /\ AllDue' = AllDue /\ AllAfter' = AllAfter
      /\ (~Ends => AllEnded' = AllEnded)
      /\ (Ends => AllEnded' = AllEnded \cup {x})
  BY <1>1, <1>4, <1>5, PlacesStay
<1>7. ~Abstract!Scheduled(x)
  BY <1>1, ScheduledIs
<1>8. iter.thread # NoThread /\ iter'.thread = iter.thread /\ AllLater' = AllLater
  BY <1>2, CallLoop
<1>9. ~Ends => UNCHANGED Abstract!vars
  BY <1>2, <1>6, <1>8, Stuttered
<1>10. Ends => Abstract!End(x)
  BY <1>2, <1>6, <1>7, <1>8, CameToEnd
<1> QED
  BY <1>9, <1>10

\* Where no thread, container or loop changes.
LEMMA QuietMapped ==
  ASSUME TypeInv, TypeInv', CarefulInv, clock' >= clock,
         UNCHANGED <<vm, waiting, afters, deferred, cleaning, phase, iter, now>>
  PROVE  /\ UNCHANGED <<AllDue, AllAfter, AllLater, AllEnded>>
         /\ iter'.thread = iter.thread
<1>1. \A u \in Threads : Unmoved(u)
  BY QuietStep, UnmovedIf DEF Same
<1>2. StillDeferred' = StillDeferred
  BY DEF StillDeferred
<1> QED
  BY <1>1, <1>2, NothingMoved, LaterKeptIf

LEMMA ScriptMapped ==
  ASSUME TypeInv, TypeInv', Careful, CarefulInv, Script
  PROVE  [Abstract!Next]_(Abstract!vars)
<1>1. Executing
  BY DEF Script
<1>2. PICK x \in Threads : x = self
  BY <1>1, ExecutingThread DEF CarefulInv
<1>3. CASE \E s \in Durations : Wait(s)
  <2>1. Abstract!Wait(x)
    BY <1>1, <1>2, <1>3, WaitMapped
  <2> QED
    BY <2>1 DEF Abstract!Next
<1>4. CASE \E t \in Coroutines, n \in 0 .. MaxArgs : Spawn(t, n)
  <2>1. UNCHANGED Abstract!vars
    BY <1>1, <1>4, SpawnMapped
  <2> QED
    BY <2>1
<1>5. CASE \E t \in Coroutines, n \in 0 .. MaxArgs : Defer(t, n)
  <2>1. \E t \in Threads : Abstract!Defer(t)
    BY <1>1, <1>5, DeferMapped
  <2> QED
    BY <2>1 DEF Abstract!Next
<1>6. CASE \E t \in Coroutines, n \in 0 .. MaxArgs : \E s \in Durations : Delay(s, t, n)
  <2>1. \E t \in Threads : Abstract!Wait(t)
    BY <1>1, <1>6, DelayMapped
  <2> QED
    BY <2>1 DEF Abstract!Next
<1>7. CASE \E t \in Coroutines, n \in 0 .. MaxArgs : \E u \in Awaitable : DoAfter(u, t, n)
  <2>1. \E t \in Threads, u \in Threads : Abstract!Follow(t, u)
    BY <1>1, <1>7, DoAfterMapped
  <2> QED
    BY <2>1 DEF Abstract!Next
<1>8. CASE \E t \in Created : Cancel(t)
  <2>1. \E t \in Threads : Abstract!Cancel(t)
    BY <1>1, <1>8, CancelMapped
  <2> QED
    BY <2>1 DEF Abstract!Next
<1>9. CASE \E u \in Awaitable : WaitFor(u)
  <2>1. \E u \in Threads : Abstract!Follow(x, u)
    BY <1>1, <1>2, <1>9, WaitForMapped
  <2> QED
    BY <2>1 DEF Abstract!Next
<1>10. CASE \E c \in CTasks : AddCTask(c)
  <2>1. UNCHANGED <<vm, waiting, afters, deferred, cleaning, phase, iter, now, clock>>
    BY <1>1, <1>10, AddCTaskQuiet
  <2>2. clock' >= clock
    BY <2>1 DEF TypeInv, TypeOK, LoopTypeOK
  <2>3. UNCHANGED Abstract!vars
    BY <2>1, <2>2, QuietMapped, Stuttered
  <2> QED
    BY <2>3
<1>11. CASE \E t \in Threads : Create(t)
  <2>1. UNCHANGED Abstract!vars
    BY <1>1, <1>11, CreateMapped
  <2> QED
    BY <2>1
<1>12. CASE Yield
  <2>1. Leave("in_yield", 0) /\ UNCHANGED <<queues, phase, iter, now, clock>>
    BY <1>12 DEF Yield, Call
  <2>2. UNCHANGED Abstract!vars
    BY <1>1, <1>2, <2>1, LeaveMapped
  <2> QED
    BY <2>2
<1>13. ASSUME NEW n \in 0 .. 1, Finish(n)
       PROVE  [Abstract!Next]_(Abstract!vars)
  <2>1. Leave("finished", n) /\ UNCHANGED <<queues, phase, iter, now, clock>>
    BY <1>13 DEF Finish, times
  <2>2. Abstract!End(x) \/ UNCHANGED Abstract!vars
    BY <1>1, <1>2, <2>1, LeaveMapped
  <2> QED
    BY <2>2 DEF Abstract!Next
<1>14. CASE Raise /\ Len(running) > 1
  <2>1. Leave("errored", 0) /\ UNCHANGED <<queues, phase, iter, now, clock>>
    BY <1>14 DEF Raise, times
  <2>2. UNCHANGED Abstract!vars
    BY <1>1, <1>2, <1>14, <2>1, LeaveMapped
  <2> QED
    BY <2>2
<1> QED
  BY <1>3, <1>4, <1>5, <1>6, <1>7, <1>8, <1>9, <1>10, <1>11, <1>12, <1>13, <1>14,
     CarefulScript

\* What the host does, mapped.
LEMMA RunScriptMapped ==
  ASSUME TypeInv, TypeInv', CarefulInv, NEW t \in Threads, RunScript(t)
  PROVE  Abstract!Start(t)
<1>1. /\ Concerns(t) /\ ~Live(t) /\ ~Live(t)'
      /\ status'[t] = "running" /\ status[t] = "absent" /\ iter.thread = NoThread
      /\ iter'.thread = t /\ phase' = phase
      /\ UNCHANGED <<waiting, afters, deferred, cleaning, clock>>
  BY RunScriptStep
<1>2. ~IsFinished(t) /\ ~IsFinished(t)'
  BY <1>1 DEF IsFinished
<1>3. AllDue' = AllDue /\ AllAfter' = AllAfter /\ AllEnded' = AllEnded
  BY <1>1, <1>2, PlacesStay DEF Live
<1>4. AllLater' = AllLater
  <2>1. StillDeferred' = StillDeferred
    BY <1>1 DEF StillDeferred, RunScript
  <2> QED
    BY <1>1, <2>1, LaterKeptIf
<1>5. t \in MainScripts \ AllEnded
  BY <1>2 DEF RunScript, AllEnded
<1> QED
  BY <1>1, <1>3, <1>4, <1>5, Started

LEMMA ResumeWaiterMapped ==
  ASSUME TypeInv, TypeInv', CarefulInv, NEW t \in Threads, ResumeWaiter(t)
  PROVE  Abstract!ResumeWaiter(t)
<1>1. /\ Concerns(t) /\ StillDue(t) /\ ~Live(t)' /\ status'[t] = "running" /\ CanGoOn(t)
      /\ iter.thread = NoThread /\ iter'.thread = t /\ phase = "waiting" /\ phase' = phase
      /\ waiting[t].start + waiting[t].length <= clock
      /\ UNCHANGED <<waiting, afters, deferred, cleaning, clock>>
  BY ResumeWaiterStep
<1>2. ~IsFinished(t) /\ ~IsFinished(t)'
  BY <1>1 DEF IsFinished, CanGoOn, Suspended
<1>3. ~StillFollowing(t) /\ ~StillFollowing(t)' /\ ~StillDue(t)'
  BY <1>1 DEF CarefulInv, ThreadInv, OnePlace, Live
<1>4. AllDue' = Abstract!Without(AllDue, t)
  BY <1>1, <1>3, ConcernsUnmoved, DueChange
<1>5. AllAfter' = AllAfter /\ AllEnded' = AllEnded
  BY <1>1, <1>2, <1>3, ConcernsUnmoved, AfterChange, EndedChange
<1>6. AllLater' = AllLater
  <2>1. StillDeferred' = StillDeferred
    BY <1>1 DEF StillDeferred
  <2> QED
    BY <1>1, <2>1, LaterKeptIf
<1>7. t \in DOMAIN AllDue /\ AllDue[t] <= clock
  BY <1>1, PlacesOf
<1> QED
  BY <1>1, <1>4, <1>5, <1>6, <1>7, WaiterResumed

LEMMA ResumeAfterMapped ==
  ASSUME TypeInv, TypeInv', CarefulInv, NEW t \in Threads, ResumeAfter(t)
  PROVE  Abstract!ResumeFollower(t)
<1>1. /\ Concerns(t) /\ StillFollowing(t) /\ ~Live(t)' /\ status'[t] = "running" /\ CanGoOn(t)
      /\ iter.thread = NoThread /\ iter'.thread = t /\ phase = "after" /\ phase' = phase
      /\ UNCHANGED <<waiting, afters, deferred, cleaning, clock>>
  BY ResumeAfterStep
<1>2. ~IsFinished(t) /\ ~IsFinished(t)'
  BY <1>1 DEF IsFinished, CanGoOn, Suspended
<1>3. ~StillDue(t) /\ ~StillDue(t)' /\ ~StillFollowing(t)'
  BY <1>1 DEF CarefulInv, ThreadInv, OnePlace, Live
<1>4. AllAfter' = Abstract!Without(AllAfter, t)
  BY <1>1, <1>3, ConcernsUnmoved, AfterChange
<1>5. AllDue' = AllDue /\ AllEnded' = AllEnded
  BY <1>1, <1>2, <1>3, ConcernsUnmoved, DueChange, EndedChange
<1>6. AllLater' = AllLater
  <2>1. StillDeferred' = StillDeferred
    BY <1>1 DEF StillDeferred
  <2> QED
    BY <1>1, <2>1, LaterKeptIf
<1>7. t \in DOMAIN AllAfter /\ AllAfter[t] \in AllEnded
  <2>1. t \in DOMAIN afters /\ IsMap(afters, Followers)
    BY DEF ResumeAfter, VisitAfter, AtSlot, TypeInv, TypeOK, QueuesTypeOK
  <2>2. afters[t].after_this \in Threads
    BY <2>1 DEF ResumeAfter, IsMap, Followers
  <2>3. afters[t].after_this \in AllEnded
    BY <2>2 DEF ResumeAfter, AllEnded
  <2> QED
    BY <1>1, <2>3, PlacesOf
<1> QED
  BY <1>1, <1>4, <1>5, <1>6, <1>7, FollowerResumed

LEMMA ResumeDeferredMapped ==
  ASSUME TypeInv, TypeInv', CarefulInv, ResumeDeferred
  PROVE  Abstract!ResumeDeferred
<1> DEFINE m == iter.at
<1>1. PICK t \in Threads : t = deferred[m].thread
  BY NextDeferred
<1>2. /\ Concerns(t) /\ StillLater(t) /\ ~Live(t)' /\ status'[t] = "running" /\ CanGoOn(t)
      /\ iter.thread = NoThread /\ iter'.thread = t /\ phase = "deferred" /\ phase' = phase
      /\ iter'.at = m
      /\ UNCHANGED <<waiting, afters, deferred, cleaning, clock>>
  BY <1>1, ResumeDeferredStep
<1>3. ~IsFinished(t) /\ ~IsFinished(t)'
  BY <1>2 DEF IsFinished, CanGoOn, Suspended
<1>4. ~StillDue(t) /\ ~StillDue(t)' /\ ~StillFollowing(t) /\ ~StillFollowing(t)'
  BY <1>2 DEF CarefulInv, ThreadInv, OnePlace, Live
<1>5. AllDue' = AllDue /\ AllAfter' = AllAfter /\ AllEnded' = AllEnded
  BY <1>2, <1>3, <1>4, PlacesStay
<1>6. m \in Nat \ {0}
  BY StillDeferredType DEF ResumeDeferred, TypeInv, LoopsInBounds
<1>7. StillDeferred = m /\ StillDeferred' = m - 1
  <2>1. t # NoThread
    BY ThreadsAssumption DEF Threads, NoThread
  <2> QED
    BY <1>2, <2>1 DEF StillDeferred
<1>8. /\ AllLater \in Seq(Threads) /\ Len(AllLater) = m
      /\ \A i \in 1 .. m : AllLater[i] = deferred[i].thread
      /\ AllLater' \in Seq(Threads) /\ Len(AllLater') = m - 1
      /\ \A i \in 1 .. m - 1 : AllLater'[i] = deferred'[i].thread
  BY <1>7, LaterType, LaterTypeNext
<1> HIDE DEF m
<1>9. Last(AllLater) = t /\ AllLater # <<>>
  BY <1>1, <1>6, <1>8 DEF Last
<1>10. AllLater' = Front(AllLater)
  <2>1. /\ m - 1 \in Nat /\ m - 1 <= m /\ 1 .. m - 1 \subseteq 1 .. m
        /\ (1 <= m - 1 => (m - 1) - 1 + 1 = m - 1)
    BY <1>6
  <2>2. /\ Front(AllLater) \in Seq(Threads) /\ Len(Front(AllLater)) = m - 1
        /\ \A i \in 1 .. m - 1 : Front(AllLater)[i] = AllLater[i]
    BY <1>6, <1>8, <2>1, SubSeqProperties DEF Front
  <2>3. \A i \in 1 .. m - 1 : AllLater'[i] = Front(AllLater)[i]
    BY <1>2, <1>8, <2>1, <2>2
  <2> QED
    BY <1>8, <2>2, <2>3, SeqEqual
<1> QED
  BY <1>2, <1>5, <1>9, <1>10, DeferredResumed

\* Steps in which no thread moves.
LEMMA NothingMapped ==
  ASSUME TypeInv, TypeInv', \A u \in Threads : SameStatus(u) /\ SamePlaces(u),
         \A u \in Threads : SameEntries(u) \/ FewerEntries(u),
         StillDeferred' = StillDeferred, clock' = clock,
         \A i \in 1 .. StillDeferred : deferred'[i].thread = deferred[i].thread
  PROVE  UNCHANGED <<AllDue, AllAfter, AllLater, AllEnded, clock>>
BY UnmovedIf, NothingMoved, LaterKeptIf

LEMMA ReturnedMapped ==
  ASSUME TypeInv, TypeInv', CarefulInv,
         \/ \E t \in Threads : AfterReturned(t) \/ WaiterReturned(t)
         \/ ScriptReturned \/ DeferredReturned
  PROVE  Abstract!Return
<1>1. CASE \E t \in Threads : AfterReturned(t) \/ WaiterReturned(t)
  <2>1. PICK t \in Threads : AfterReturned(t) \/ WaiterReturned(t)
    BY <1>1
  <2>2. /\ iter.thread = t /\ iter'.thread = NoThread /\ phase' = phase
        /\ \A u \in Threads : SameStatus(u) /\ SameEntries(u) /\ SamePlaces(u)
        /\ UNCHANGED <<waiting, afters, deferred, clock>>
    BY <2>1, AfterReturnedStep, WaiterReturnedStep
  <2>3. phase \in {"after", "waiting"}
    BY <2>1 DEF AfterReturned, WaiterReturned
  <2>4. StillDeferred' = StillDeferred /\ t # NoThread
    BY <2>2, <2>3, ThreadsAssumption DEF StillDeferred, Threads, NoThread
  <2>5. UNCHANGED <<AllDue, AllAfter, AllLater, AllEnded, clock>>
    BY <2>2, <2>4, NothingMapped
  <2> QED
    BY <2>2, <2>4, <2>5, Returned
<1>2. CASE ScriptReturned
  <2>1. /\ iter.thread # NoThread /\ iter'.thread = NoThread /\ phase' = phase
        /\ \A u \in Threads : SameStatus(u) /\ SameEntries(u) /\ SamePlaces(u)
        /\ UNCHANGED <<waiting, afters, deferred, clock>>
    BY <1>2, ScriptReturnedStep
  <2>2. StillDeferred' = StillDeferred
    BY <1>2, <2>1 DEF StillDeferred, ScriptReturned
  <2>3. UNCHANGED <<AllDue, AllAfter, AllLater, AllEnded, clock>>
    BY <2>1, <2>2, NothingMapped
  <2> QED
    BY <2>1, <2>3, Returned
<1>3. CASE DeferredReturned
  <2>1. /\ iter.thread # NoThread /\ iter'.thread = NoThread
        /\ \A u \in Threads : SameStatus(u) /\ SameEntries(u) /\ SamePlaces(u)
        /\ StillDeferred' = StillDeferred
        /\ \A i \in 1 .. StillDeferred : deferred'[i].thread = deferred[i].thread
        /\ UNCHANGED <<waiting, afters, clock>>
    BY <1>3, DeferredReturnedStep
  <2>2. UNCHANGED <<AllDue, AllAfter, AllLater, AllEnded, clock>>
    BY <2>1, NothingMapped
  <2> QED
    BY <2>1, <2>2, Returned
<1> QED
  BY <1>1, <1>2, <1>3

LEMMA SkipsMapped ==
  ASSUME TypeInv, TypeInv', CarefulInv, NEW t \in Threads, SkipAfter(t) \/ SkipWaiter(t)
  PROVE  UNCHANGED Abstract!vars
<1>1. /\ \A u \in Threads : Same(u)
      /\ iter.thread = NoThread /\ iter'.thread = NoThread
      /\ phase \in {"after", "waiting"} /\ phase' = phase
      /\ UNCHANGED <<waiting, afters, deferred, clock>>
  BY SkipsStep
<1>2. StillDeferred' = StillDeferred
  BY <1>1 DEF StillDeferred
<1>3. UNCHANGED <<AllDue, AllAfter, AllLater, AllEnded, clock>>
  BY <1>1, <1>2, NothingMapped DEF Same
<1> QED
  BY <1>1, <1>3, Stuttered

LEMMA PassesMapped ==
  ASSUME TypeInv, TypeInv', CarefulInv, Passes
  PROVE  UNCHANGED Abstract!vars
<1>1. /\ iter.thread = NoThread /\ iter'.thread = NoThread
      /\ UNCHANGED <<vm, waiting, afters, clock>>
      /\ StillDeferred' = StillDeferred
      /\ deferred' = deferred \/ (deferred' = <<>> /\ StillDeferred = 0)
  BY PassesEffect
<1>2. \A u \in Threads : SameStatus(u) /\ SamePlaces(u)
  BY PassesStep
<1>3. \A u \in Threads : FewerEntries(u)
  <2> SUFFICES ASSUME NEW u \in Threads
               PROVE  IsDeferred(u)' => IsDeferred(u)
    BY <1>1 DEF FewerEntries
  <2>1. deferred' = <<>> => ~IsDeferred(u)'
    BY DEF IsDeferred
  <2>2. deferred' = deferred => (IsDeferred(u)' <=> IsDeferred(u))
    BY DEF IsDeferred
  <2> QED
    BY <1>1, <2>1, <2>2
<1>4. \A i \in 1 .. StillDeferred : deferred'[i].thread = deferred[i].thread
  <2>1. StillDeferred = 0 => 1 .. StillDeferred = {}
    OBVIOUS
  <2> QED
    BY <1>1, <2>1
<1>5. UNCHANGED <<AllDue, AllAfter, AllLater, AllEnded, clock>>
  BY <1>1, <1>2, <1>3, <1>4, NothingMapped
<1> QED
  BY <1>1, <1>5, Stuttered

LEMMA CleansMapped ==
  ASSUME TypeInv, TypeInv', CarefulInv, CTaskInv, CleanWaiter \/ CleanAfter \/ CleanCTask
  PROVE  UNCHANGED Abstract!vars
<1>1. /\ iter.thread = NoThread /\ iter'.thread = NoThread
      /\ \A u \in Threads : SameStatus(u) /\ SamePlaces(u) /\ FewerEntries(u)
      /\ StillDeferred' = StillDeferred /\ UNCHANGED <<deferred, clock>>
  BY CleanWaiterStep, CleanAfterStep, CleanRequestStep
<1>2. UNCHANGED <<AllDue, AllAfter, AllLater, AllEnded, clock>>
  BY <1>1, NothingMapped
<1> QED
  BY <1>1, <1>2, Stuttered

LEMMA HostMapped ==
  ASSUME TypeInv, TypeInv', Careful, CarefulInv, CTaskInv, Host
  PROVE  [Abstract!Next]_(Abstract!vars)
<1>1. CASE \E t \in Threads : RunScript(t) \/ ResumeAfter(t) \/ ResumeWaiter(t)
  <2>1. \E t \in Threads : \/ Abstract!Start(t)
                           \/ Abstract!ResumeFollower(t) \/ Abstract!ResumeWaiter(t)
    BY <1>1, RunScriptMapped, ResumeAfterMapped, ResumeWaiterMapped
  <2> QED
    BY <2>1 DEF Abstract!Next
<1>2. CASE ResumeDeferred
  <2>1. Abstract!ResumeDeferred
    BY <1>2, ResumeDeferredMapped
  <2> QED
    BY <2>1 DEF Abstract!Next
<1>3. CASE \/ \E t \in Threads : AfterReturned(t) \/ WaiterReturned(t)
           \/ ScriptReturned \/ DeferredReturned
  <2>1. Abstract!Return
    BY <1>3, ReturnedMapped
  <2> QED
    BY <2>1 DEF Abstract!Next
<1>4. CASE \/ \E t \in Threads : SkipAfter(t) \/ SkipWaiter(t)
           \/ Passes \/ CleanWaiter \/ CleanAfter \/ CleanCTask
  <2>1. UNCHANGED Abstract!vars
    BY <1>4, SkipsMapped, PassesMapped, CleansMapped
  <2> QED
    BY <2>1
<1> QED
  BY <1>1, <1>2, <1>3, <1>4, CarefulHost

LEMMA StepMapped ==
  ASSUME TypeInv, TypeInv', Careful, CarefulInv, CTaskInv, [Next]_vars
  PROVE  [Abstract!Next]_(Abstract!vars)
<1>1. CASE Script
  BY <1>1, ScriptMapped
<1>2. CASE Host
  BY <1>2, HostMapped
<1>3. CASE Tick
  <2>1. /\ clock' = clock + 1 /\ clock' >= clock
        /\ UNCHANGED <<vm, waiting, afters, deferred, cleaning, phase, iter, now>>
    BY <1>3 DEF Tick, queues, TypeInv, TypeOK, LoopTypeOK
  <2>2. Abstract!Pass
    BY <2>1, QuietMapped, TimePassed
  <2> QED
    BY <2>2 DEF Abstract!Next
<1>4. CASE UNCHANGED vars
  <2>1. /\ clock' = clock /\ clock' >= clock
        /\ UNCHANGED <<vm, waiting, afters, deferred, cleaning, phase, iter, now>>
    BY <1>4 DEF vars, queues, times, TypeInv, TypeOK, LoopTypeOK
  <2>2. UNCHANGED Abstract!vars
    BY <2>1, QuietMapped, Stuttered
  <2> QED
    BY <2>2
<1> QED
  BY <1>1, <1>2, <1>3, <1>4 DEF Next, Stop

LEMMA InitMapped == Init => Abstract!Init
<1> SUFFICES ASSUME Init
             PROVE  Abstract!Init
  OBVIOUS
<1>1. /\ status = [t \in Threads |-> "absent"] /\ waiting = <<>> /\ afters = <<>>
      /\ DOMAIN waiting = {} /\ DOMAIN afters = {} /\ deferred = <<>> /\ Len(deferred) = 0
      /\ phase = "scripts" /\ iter.thread = NoThread /\ clock = 0
  BY DEF Init, Loop
<1>2. StillDeferred = 0
  BY <1>1 DEF StillDeferred
<1>3. AllLater = <<>>
  <2>1. 1 .. 0 = {}
    OBVIOUS
  <2> QED
    BY <1>2, <2>1 DEF AllLater
<1>4. AllDue = <<>> /\ AllAfter = <<>>
  BY <1>1 DEF AllDue, AllAfter
<1>5. AllEnded = {}
  BY <1>1 DEF AllEnded, IsFinished
<1> QED
  BY <1>1, <1>3, <1>4, <1>5 DEF Abstract!Init, AllDue, AllAfter, AllLater, AllEnded

\* Careful scripts find the scheduler of module Scheduler, whatever the number of threads
\* and however long the run: no place is lost or served twice, a turn comes to whom it is
\* due and not before, and never again to a thread that was cancelled.
THEOREM ImplementsSchedulerCorrect ==
  ASSUME Careful
  PROVE  Spec => ImplementsScheduler
<1>1. Init => Abstract!Init
  BY InitMapped
<1>2. (TypeInv /\ CarefulInv /\ CTaskInv) /\ (TypeInv /\ CarefulInv /\ CTaskInv)' /\ [Next]_vars
        => [Abstract!Next]_(Abstract!vars)
  BY StepMapped
<1>3. Spec => [](TypeInv /\ CarefulInv /\ CTaskInv)
  BY CarefulAlways
<1> QED
  BY <1>1, <1>2, <1>3, PTL DEF Spec, ImplementsScheduler, Abstract!Spec
============================================================================
