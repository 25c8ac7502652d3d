---------------------------- MODULE Drain_proofs ----------------------------
(***************************************************************************)
(* Settling is sound for any number of tasks, context switches and drains.   *)
(* The inductive invariant says where a task with an early call must be      *)
(* recorded (Accounted), and what a sample in progress has established about *)
(* its task (SampleInv): unless the task is on a CPU or its switch count has *)
(* moved, a walk that read "outside" was of a task without an early call.    *)
(***************************************************************************)
EXTENDS Drain, TLAPS

Types ==
    /\ alive \in [Tasks -> BOOLEAN] /\ inside \in [Tasks -> BOOLEAN]
    /\ start \in [Tasks -> Nat] /\ switches \in [Tasks -> Nat]
    /\ cpu \in [Tasks -> {"off", "on", "leaving"}]
    /\ early \subseteq Tasks
    /\ groupFilter \in BOOLEAN
    /\ pc \in {"idle", "scan", "rescan", "settled"}
    /\ todo \subseteq Tasks
    /\ pending \subseteq Tasks \X Nat
    /\ sample.stage \in {0, 1, 3, 4, 5}
    /\ sample.stage > 0 => /\ sample.task \in Tasks /\ pc \in {"scan", "rescan"}
                           /\ sample.start = start[sample.task]
                           /\ sample.before \in Nat /\ sample.before <= switches[sample.task]
    /\ sample.stage \in {3, 4, 5} => sample.onCpu \in BOOLEAN
    /\ sample.stage = 3 => sample.ran \in BOOLEAN

\* A task with an early call is alive and inside it.
EarlyInside == \A t \in early : inside[t] /\ alive[t]

\* It is still to be scanned, pending, or being sampled for the first time.
Accounted ==
    /\ pc = "scan" => \A t \in early : \/ t \in todo \/ <<t, start[t]>> \in pending
                                       \/ sample.stage > 0 /\ sample.task = t
    /\ pc = "rescan" => \A t \in early : <<t, start[t]>> \in pending

SampleInv ==
    /\ sample.stage = 3 /\ ~sample.onCpu /\ sample.ran
          => cpu[sample.task] = "on" \/ switches[sample.task] > sample.before
    /\ sample.stage = 4 /\ ~sample.onCpu /\ sample.frames = "outside"
          => \/ sample.task \notin early
             \/ cpu[sample.task] = "on" \/ switches[sample.task] > sample.before
    /\ sample.stage = 5 /\ ~sample.onCpu /\ sample.frames = "outside"
          => sample.task \notin early \/ switches[sample.task] > sample.before

IInv == Types /\ EarlyInside /\ Accounted /\ SampleInv /\ SettledSound

-----------------------------------------------------------------------------
\* Before the drain begins no task is sampled or settled.
LEMMA InitIInv == Init => IInv
<1> SUFFICES ASSUME Init PROVE IInv
    BY Zenon
<1>1. Types
    BY DEF Init, Types, NoSample
<1>2. EarlyInside
    BY Zenon DEF Init, EarlyInside
<1>3. Accounted /\ SampleInv /\ SettledSound
    BY DEF Init, Accounted, SampleInv, SettledSound, NoSample
<1>4. QED
    BY <1>1, <1>2, <1>3, Zenon DEF IInv

-----------------------------------------------------------------------------
\* The steps of the tasks.

\* A task is put on a CPU.
LEMMA DispatchStep == ASSUME IInv, NEW u \in Tasks, Dispatch(u) PROVE IInv'
<1>0. Types /\ EarlyInside /\ Accounted /\ SampleInv /\ SettledSound
    BY Zenon DEF IInv
<1>1. /\ cpu' = [cpu EXCEPT ![u] = "on"] /\ cpu[u] = "off"
      /\ UNCHANGED <<alive, start, switches, inside, early, pc, todo, pending, drains, groupFilter>>
    BY Zenon DEF Dispatch
<1>2. CASE sample.stage = 3 /\ sample.task = u
  <2>1. sample' = [stage |-> 3, task |-> u, start |-> sample.start, before |-> sample.before,
                   onCpu |-> sample.onCpu, ran |-> TRUE]
    BY <1>2, Zenon DEF Dispatch
  <2>2. /\ sample'.stage = 3 /\ sample'.task = u /\ sample'.start = sample.start
        /\ sample'.before = sample.before /\ sample'.onCpu = sample.onCpu /\ sample'.ran = TRUE
    BY <2>1, Zenon
  <2>3. cpu' \in [Tasks -> {"off", "on", "leaving"}] /\ cpu'[u] = "on"
    BY <1>0, <1>1, Zenon DEF Types
  <2>4. Types'
    BY <1>0, <1>1, <1>2, <2>2, <2>3, ZenonT(120) DEF Types
  <2>5. EarlyInside' /\ SettledSound'
    BY <1>0, <1>1, Zenon DEF EarlyInside, SettledSound
  <2>6. Accounted'
    BY <1>0, <1>1, <1>2, <2>2, Zenon DEF Accounted
  <2>7. SampleInv'
    BY <2>2, <2>3 DEF SampleInv
  <2>8. QED
    BY <2>4, <2>5, <2>6, <2>7, Zenon DEF IInv
<1>3. CASE ~(sample.stage = 3 /\ sample.task = u)
  <2>1. sample' = sample
    BY <1>3, Zenon DEF Dispatch
  <2>2. cpu' \in [Tasks -> {"off", "on", "leaving"}] /\ \A t \in Tasks : cpu[t] = "on" => cpu'[t] = "on"
    BY <1>0, <1>1, Zenon DEF Types
  <2>3. Types'
    BY <1>0, <1>1, <2>1, <2>2 DEF Types
  <2>4. EarlyInside' /\ SettledSound' /\ Accounted'
    BY <1>0, <1>1, <2>1, ZenonT(120) DEF EarlyInside, SettledSound, Accounted
  <2>5. SampleInv'
    BY <1>0, <1>1, <2>1, <2>2 DEF SampleInv, Types
  <2>6. QED
    BY <2>3, <2>4, <2>5, Zenon DEF IInv
<1>4. QED
    BY <1>2, <1>3, Zenon

\* The kernel counts a context switch.
LEMMA CountSwitchStep == ASSUME IInv, NEW u \in Tasks, CountSwitch(u) PROVE IInv'
<1>0. Types /\ EarlyInside /\ Accounted /\ SampleInv /\ SettledSound
    BY DEF IInv
<1>1. /\ cpu' = [cpu EXCEPT ![u] = "leaving"]
      /\ switches' = [switches EXCEPT ![u] = switches[u] + 1]
      /\ UNCHANGED <<alive, start, inside, early, pc, todo, pending, sample, drains, groupFilter>>
    BY Zenon DEF CountSwitch, loaderVars
<1>2. /\ switches' \in [Tasks -> Nat] /\ switches'[u] = switches[u] + 1
      /\ cpu' \in [Tasks -> {"off", "on", "leaving"}]
      /\ \A t \in Tasks : switches'[t] >= switches[t]
      /\ \A t \in Tasks \ {u} : switches'[t] = switches[t] /\ cpu'[t] = cpu[t]
    BY <1>0, <1>1, SMTT(120) DEF Types
<1>3. Types'
    BY <1>0, <1>1, <1>2 DEF Types
<1>4. EarlyInside' /\ SettledSound' /\ Accounted'
    BY <1>0, <1>1, ZenonT(120) DEF EarlyInside, SettledSound, Accounted
<1>5. SampleInv'
    BY <1>0, <1>1, <1>2 DEF SampleInv, Types
<1>6. QED
    BY <1>3, <1>4, <1>5 DEF IInv

\* A task is marked as off its CPU.
LEMMA ClearOnCpuStep == ASSUME IInv, NEW u \in Tasks, ClearOnCpu(u) PROVE IInv'
<1>0. Types /\ EarlyInside /\ Accounted /\ SampleInv /\ SettledSound
    BY DEF IInv
<1>1. /\ cpu[u] = "leaving" /\ cpu' = [cpu EXCEPT ![u] = "off"]
      /\ UNCHANGED <<alive, start, switches, inside, early, pc, todo, pending, sample, drains, groupFilter>>
    BY Zenon DEF ClearOnCpu, loaderVars
<1>2. cpu' \in [Tasks -> {"off", "on", "leaving"}] /\ \A t \in Tasks : cpu[t] = "on" => cpu'[t] = "on"
    BY <1>0, <1>1, ZenonT(120) DEF Types
<1>3. Types'
    BY <1>0, <1>1, <1>2 DEF Types
<1>4. EarlyInside' /\ SettledSound' /\ Accounted'
    BY <1>0, <1>1, ZenonT(120) DEF EarlyInside, SettledSound, Accounted
<1>5. SampleInv'
    BY <1>0, <1>1, <1>2 DEF SampleInv, Types
<1>6. QED
    BY <1>3, <1>4, <1>5 DEF IInv

\* A task enters a call after the completion programs attached, which is not an early one.
LEMMA EnterCallStep == ASSUME IInv, NEW u \in Tasks, EnterCall(u) PROVE IInv'
<1>0. Types /\ EarlyInside /\ Accounted /\ SampleInv /\ SettledSound
    BY DEF IInv
<1>1. /\ inside' = [inside EXCEPT ![u] = TRUE]
      /\ UNCHANGED <<alive, start, cpu, switches, early, pc, todo, pending, sample, drains, groupFilter>>
    BY Zenon DEF EnterCall, loaderVars
<1>2. inside' \in [Tasks -> BOOLEAN] /\ \A t \in Tasks : inside[t] => inside'[t]
    BY <1>0, <1>1, ZenonT(120) DEF Types
<1>3. Types'
    BY <1>0, <1>1, <1>2 DEF Types
<1>4. EarlyInside'
    BY <1>0, <1>1, <1>2, Zenon DEF EarlyInside, Types
<1>5. SettledSound' /\ Accounted' /\ SampleInv'
    BY <1>0, <1>1, Zenon DEF SettledSound, Accounted, SampleInv
<1>6. QED
    BY <1>3, <1>4, <1>5, Zenon DEF IInv

\* A task leaves its call, and owes nothing any more.
LEMMA LeaveCallStep == ASSUME IInv, NEW u \in Tasks, LeaveCall(u) PROVE IInv'
<1>0. Types /\ EarlyInside /\ Accounted /\ SampleInv /\ SettledSound
    BY DEF IInv
<1>1. /\ inside' = [inside EXCEPT ![u] = FALSE] /\ early' = early \ {u}
      /\ UNCHANGED <<alive, start, cpu, switches, pc, todo, pending, sample, drains, groupFilter>>
    BY Zenon DEF LeaveCall, loaderVars
<1>2. inside' \in [Tasks -> BOOLEAN] /\ \A t \in Tasks \ {u} : inside'[t] = inside[t]
    BY <1>0, <1>1, ZenonT(120) DEF Types
<1>3. Types'
    BY <1>0, <1>1, <1>2 DEF Types
<1>4. EarlyInside'
    BY <1>0, <1>1, <1>2, Zenon DEF EarlyInside, Types
<1>5. SettledSound' /\ Accounted' /\ SampleInv'
    BY <1>0, <1>1, ZenonT(120) DEF SettledSound, Accounted, SampleInv
<1>6. QED
    BY <1>3, <1>4, <1>5 DEF IInv

\* A task exits.
LEMMA ExitStep == ASSUME IInv, NEW u \in Tasks, Exit(u) PROVE IInv'
<1>0. Types /\ EarlyInside /\ Accounted /\ SampleInv /\ SettledSound
    BY DEF IInv
<1>1. /\ ~inside[u] /\ alive' = [alive EXCEPT ![u] = FALSE] /\ cpu' = [cpu EXCEPT ![u] = "off"]
      /\ switches' = [switches EXCEPT ![u] = switches[u] + 1]
      /\ UNCHANGED <<start, inside, early, pc, todo, pending, sample, drains, groupFilter>>
    BY Zenon DEF Exit, loaderVars
<1>2. /\ alive' \in [Tasks -> BOOLEAN] /\ \A t \in Tasks \ {u} : alive'[t] = alive[t]
      /\ cpu' \in [Tasks -> {"off", "on", "leaving"}]
      /\ switches' \in [Tasks -> Nat] /\ switches'[u] = switches[u] + 1
      /\ \A t \in Tasks : switches'[t] >= switches[t]
      /\ \A t \in Tasks \ {u} : switches'[t] = switches[t] /\ cpu'[t] = cpu[t]
    BY <1>0, <1>1, SMTT(120) DEF Types
<1>3. Types'
    BY <1>0, <1>1, <1>2, SMTT(120) DEF Types
<1>4. EarlyInside'
    BY <1>0, <1>1, <1>2 DEF EarlyInside, Types
<1>5. SettledSound' /\ Accounted'
    BY <1>0, <1>1, ZenonT(120) DEF SettledSound, Accounted
<1>6. SampleInv'
    BY <1>0, <1>1, <1>2 DEF SampleInv, Types
<1>7. QED
    BY <1>3, <1>4, <1>5, <1>6, Zenon DEF IInv

\* A task is created; its calls are not early.
LEMMA ForkStep == ASSUME IInv, NEW u \in Tasks, Fork(u) PROVE IInv'
<1>0. Types /\ EarlyInside /\ Accounted /\ SampleInv /\ SettledSound
    BY DEF IInv
<1>1. /\ ~alive[u] /\ (sample.stage > 0 => sample.task # u)
      /\ alive' = [alive EXCEPT ![u] = TRUE] /\ start' = [start EXCEPT ![u] = start[u] + 1]
      /\ UNCHANGED <<cpu, switches, inside, early, pc, todo, pending, sample, drains, groupFilter>>
    BY Zenon DEF Fork, loaderVars
<1>2. /\ alive' \in [Tasks -> BOOLEAN] /\ \A t \in Tasks \ {u} : alive'[t] = alive[t]
      /\ start' \in [Tasks -> Nat] /\ \A t \in Tasks \ {u} : start'[t] = start[t]
    BY <1>0, <1>1 DEF Types
<1>3. u \notin early
    BY <1>0, <1>1, ZenonT(120) DEF EarlyInside
<1>4. Types'
    BY <1>0, <1>1, <1>2 DEF Types
<1>5. EarlyInside' /\ Accounted'
    BY <1>0, <1>1, <1>2, <1>3 DEF EarlyInside, Accounted, Types
<1>6. SettledSound' /\ SampleInv'
    BY <1>0, <1>1, Zenon DEF SettledSound, SampleInv
<1>7. QED
    BY <1>4, <1>5, <1>6, Zenon DEF IInv

-----------------------------------------------------------------------------
\* The steps of the loader.

\* A drain begins with every task to be scanned.
LEMMA BeginDrainStep == ASSUME IInv, BeginDrain PROVE IInv'
<1>0. Types /\ EarlyInside /\ Accounted /\ SampleInv /\ SettledSound
    BY Zenon DEF IInv
<1>1. /\ pc = "idle" /\ pc' = "scan" /\ todo' = Tasks /\ pending' = {}
      /\ UNCHANGED <<alive, start, cpu, switches, inside, early, sample, groupFilter>>
    BY Zenon DEF BeginDrain, taskVars
<1>2. Types'
    BY <1>0, <1>1, ZenonT(120) DEF Types
<1>3. EarlyInside' /\ Accounted' /\ SampleInv' /\ SettledSound'
    BY <1>0, <1>1, Zenon DEF EarlyInside, Accounted, SampleInv, SettledSound, Types
<1>4. QED
    BY <1>2, <1>3, Zenon DEF IInv

\* The scan takes up a task: an exited one needs no sample.
LEMMA ScanTaskStep == ASSUME IInv, NEW u \in Tasks, ScanTask(u) PROVE IInv'
<1>0. Types /\ EarlyInside /\ Accounted /\ SampleInv /\ SettledSound
    BY DEF IInv
<1>1. /\ pc = "scan" /\ sample.stage = 0 /\ todo' = todo \ {u}
      /\ UNCHANGED <<alive, start, cpu, switches, inside, early, pc, pending, groupFilter>>
    BY Zenon DEF ScanTask, taskVars
<1>2. EarlyInside' /\ SettledSound'
    BY <1>0, <1>1, Zenon DEF EarlyInside, SettledSound
<1>3. CASE alive[u]
  <2>1. sample' = [stage |-> 1, task |-> u, start |-> start[u], before |-> switches[u]]
    BY <1>3, Zenon DEF ScanTask, NewSample
  <2>2. sample'.stage = 1 /\ sample'.task = u /\ sample'.start = start[u] /\ sample'.before = switches[u]
    BY <2>1, Zenon
  <2>3. Types'
    BY <1>0, <1>1, <2>2 DEF Types
  <2>4. Accounted' /\ SampleInv'
    BY <1>0, <1>1, <2>2 DEF Accounted, SampleInv
  <2>5. QED
    BY <1>2, <2>3, <2>4, Zenon DEF IInv
<1>4. CASE ~alive[u]
  <2>1. sample' = sample /\ u \notin early
    BY <1>0, <1>4, Zenon DEF ScanTask, EarlyInside
  <2>2. Types'
    BY <1>0, <1>1, <2>1, ZenonT(120) DEF Types
  <2>3. Accounted' /\ SampleInv'
    BY <1>0, <1>1, <2>1, Zenon DEF Accounted, SampleInv
  <2>4. QED
    BY <1>2, <2>2, <2>3 DEF IInv
<1>5. QED
    BY <1>3, <1>4, Zenon

\* A pending task is taken up again, or is gone.
LEMMA RescanTaskStep == ASSUME IInv, NEW u \in Tasks, NEW k, RescanTask(u, k) PROVE IInv'
<1>0. Types /\ EarlyInside /\ Accounted /\ SampleInv /\ SettledSound
    BY Zenon DEF IInv
<1>1. /\ pc = "rescan" /\ sample.stage = 0 /\ <<u, k>> \in pending
      /\ UNCHANGED <<alive, start, cpu, switches, inside, early, pc, todo, groupFilter>>
    BY Zenon DEF RescanTask, taskVars
<1>2. EarlyInside' /\ SettledSound'
    BY <1>0, <1>1, Zenon DEF EarlyInside, SettledSound
<1>3. CASE ~alive[u] \/ start[u] # k
  <2>1. sample' = sample /\ pending' = pending \ {<<u, k>>}
    BY <1>3, Zenon DEF RescanTask
  <2>2. Types'
    BY <1>0, <1>1, <2>1, Zenon DEF Types
  <2>3. \A t \in early : <<t, start[t]>> \in pending'
    BY <1>0, <1>1, <1>3, <2>1, Zenon DEF Accounted, EarlyInside
  <2>4. Accounted' /\ SampleInv'
    BY <1>0, <1>1, <2>1, <2>3, Zenon DEF Accounted, SampleInv
  <2>5. QED
    BY <1>2, <2>2, <2>4, Zenon DEF IInv
<1>4. CASE ~(~alive[u] \/ start[u] # k)
  <2>1. /\ sample' = [stage |-> 1, task |-> u, start |-> start[u], before |-> switches[u]]
        /\ pending' = pending
    BY <1>4, <1>0, Zenon DEF RescanTask, NewSample, Filtered, Types
  <2>2. sample'.stage = 1 /\ sample'.task = u /\ sample'.start = start[u] /\ sample'.before = switches[u]
    BY <2>1, Zenon
  <2>3. Types'
    BY <1>0, <1>1, <2>1, <2>2, SMTT(120) DEF Types
  <2>4. Accounted' /\ SampleInv'
    BY <1>0, <1>1, <2>1, <2>2 DEF Accounted, SampleInv
  <2>5. QED
    BY <1>2, <2>3, <2>4 DEF IInv
<1>5. QED
    BY <1>3, <1>4, Zenon

\* The sample reads on_cpu, and the walk of the stack begins.
LEMMA StartWalkStep == ASSUME IInv, StartWalk PROVE IInv'
<1>0. Types /\ EarlyInside /\ Accounted /\ SampleInv /\ SettledSound
    BY DEF IInv
<1>1. /\ sample.stage = 1
      /\ UNCHANGED <<alive, start, cpu, switches, inside, early, pc, todo, pending, groupFilter>>
    BY Zenon DEF StartWalk, taskVars
<1>2. sample' = [stage |-> 3, task |-> sample.task, start |-> sample.start, before |-> sample.before,
                 onCpu |-> cpu[sample.task] # "off", ran |-> cpu[sample.task] # "off"]
    BY Zenon DEF StartWalk
<1>3. /\ sample'.stage = 3 /\ sample'.task = sample.task /\ sample'.start = sample.start
      /\ sample'.before = sample.before
      /\ sample'.onCpu = (cpu[sample.task] # "off") /\ sample'.ran = (cpu[sample.task] # "off")
    BY <1>2, ZenonT(120)
<1>4. Types'
    BY <1>0, <1>1, <1>3 DEF Types
<1>5. EarlyInside' /\ SettledSound'
    BY <1>0, <1>1, ZenonT(120) DEF EarlyInside, SettledSound
<1>6. Accounted'
    BY <1>0, <1>1, <1>3 DEF Accounted
<1>7. SampleInv'
    BY <1>0, <1>1, <1>3 DEF SampleInv, EarlyInside, Types
<1>8. QED
    BY <1>4, <1>5, <1>6, <1>7, Zenon DEF IInv

\* The walk has read a stack.
LEMMA EndWalkStep == ASSUME IInv, EndWalk PROVE IInv'
<1>0. Types /\ EarlyInside /\ Accounted /\ SampleInv /\ SettledSound
    BY DEF IInv
<1>1. /\ sample.stage = 3
      /\ UNCHANGED <<alive, start, cpu, switches, inside, early, pc, todo, pending, groupFilter>>
    BY Zenon DEF EndWalk, taskVars
<1>2. PICK frames \in {"inside", "outside", "short"} :
         /\ ~sample.ran /\ frames # "short" => frames = IF inside[sample.task] THEN "inside" ELSE "outside"
         /\ sample' = [stage |-> 4, task |-> sample.task, start |-> sample.start, before |-> sample.before,
                       onCpu |-> sample.onCpu, frames |-> frames]
    BY Zenon DEF EndWalk
<1>3. /\ sample'.stage = 4 /\ sample'.task = sample.task /\ sample'.start = sample.start
      /\ sample'.before = sample.before
      /\ sample'.onCpu = sample.onCpu /\ sample'.frames = frames
    BY <1>2, Zenon
<1>4. Types'
    BY <1>0, <1>1, <1>3 DEF Types
<1>5. EarlyInside' /\ SettledSound'
    BY <1>0, <1>1, Zenon DEF EarlyInside, SettledSound
<1>6. Accounted'
    BY <1>0, <1>1, <1>3, SMTT(120) DEF Accounted
<1>7. SampleInv'
    BY <1>0, <1>1, <1>2, <1>3 DEF SampleInv, EarlyInside, Types
<1>8. QED
    BY <1>4, <1>5, <1>6, <1>7, Zenon DEF IInv

\* on_cpu is read again after the walk.
LEMMA ReadOnCpuStep == ASSUME IInv, ReadOnCpu PROVE IInv'
<1>0. Types /\ EarlyInside /\ Accounted /\ SampleInv /\ SettledSound
    BY DEF IInv
<1>1. /\ sample.stage = 4
      /\ UNCHANGED <<alive, start, cpu, switches, inside, early, pc, todo, pending, groupFilter>>
    BY Zenon DEF ReadOnCpu, taskVars
<1>2. sample' = [stage |-> 5, task |-> sample.task, start |-> sample.start, before |-> sample.before,
                 onCpu |-> sample.onCpu \/ cpu[sample.task] # "off", frames |-> sample.frames]
    BY Zenon DEF ReadOnCpu
<1>3. /\ sample'.stage = 5 /\ sample'.task = sample.task /\ sample'.start = sample.start
      /\ sample'.before = sample.before
      /\ sample'.onCpu = (sample.onCpu \/ cpu[sample.task] # "off") /\ sample'.frames = sample.frames
    BY <1>2, ZenonT(120)
<1>4. Types'
    BY <1>0, <1>1, <1>3 DEF Types
<1>5. EarlyInside' /\ SettledSound'
    BY <1>0, <1>1, ZenonT(120) DEF EarlyInside, SettledSound
<1>6. Accounted'
    BY <1>0, <1>1, <1>3, SMTT(120) DEF Accounted
<1>7. SampleInv'
    BY <1>0, <1>1, <1>3 DEF SampleInv, EarlyInside, Types
<1>8. QED
    BY <1>4, <1>5, <1>6, <1>7 DEF IInv

\* A sample with an unchanged switch count, off the CPU and outside, proves that the task is outside.
LEMMA ClassifySampleStep == ASSUME IInv, ClassifySample PROVE IInv'
<1>0. Types /\ EarlyInside /\ Accounted /\ SampleInv /\ SettledSound
    BY DEF IInv
<1>1. /\ sample.stage = 5 /\ sample' = [stage |-> 0]
      /\ UNCHANGED <<alive, start, cpu, switches, inside, early, pc, todo, groupFilter>>
    BY Zenon DEF ClassifySample, taskVars, NoSample
<1>2. sample'.stage = 0
    BY <1>1, Zenon
<1>3. /\ sample.task \in Tasks /\ sample.start \in Nat /\ sample.start = start[sample.task]
    BY <1>0, <1>1 DEF Types
<1>4. EarlyInside' /\ SettledSound' /\ SampleInv'
    BY <1>0, <1>1, <1>2 DEF EarlyInside, SettledSound, SampleInv
<1>5. CASE Clear
  <2>1. pending' = pending \ {<<sample.task, sample.start>>}
    BY <1>5, Zenon DEF ClassifySample
  <2>2. sample.task \notin early
    BY <1>0, <1>1, <1>5 DEF SampleInv, Clear, Types
  <2>3. Types'
    BY <1>0, <1>1, <1>2, <2>1 DEF Types
  <2>4. Accounted'
    BY <1>0, <1>1, <1>2, <2>1, <2>2, Zenon DEF Accounted
  <2>5. QED
    BY <1>4, <2>3, <2>4, Zenon DEF IInv
<1>6. CASE ~Clear
  <2>1. pending' = pending \cup {<<sample.task, sample.start>>}
    BY <1>6, ZenonT(120) DEF ClassifySample
  <2>2. Types'
    BY <1>0, <1>1, <1>2, <1>3, <2>1 DEF Types
  <2>3. Accounted'
    BY <1>0, <1>1, <1>2, <1>3, <2>1, Zenon DEF Accounted
  <2>4. QED
    BY <1>4, <2>2, <2>3 DEF IInv
<1>7. QED
    BY <1>5, <1>6, Zenon

\* A pass over the tasks ends.
LEMMA EndScanStep == ASSUME IInv, EndScan PROVE IInv'
<1>1. /\ pc = "scan" /\ todo = {} /\ sample.stage = 0 /\ pc' = "rescan"
      /\ UNCHANGED <<alive, start, cpu, switches, inside, early, todo, pending, sample, groupFilter>>
    BY Zenon DEF EndScan, taskVars
<1>2. Types'
    BY <1>1, ZenonT(120) DEF IInv, Types
<1>3. EarlyInside' /\ Accounted' /\ SampleInv' /\ SettledSound'
    BY <1>1 DEF IInv, EarlyInside, Accounted, SampleInv, SettledSound
<1>4. QED
    BY <1>2, <1>3 DEF IInv

\* The guard is settled when nothing is pending.
LEMMA SettleGuardStep == ASSUME IInv, SettleGuard PROVE IInv'
<1>1. /\ pc = "rescan" /\ pending = {} /\ sample.stage = 0 /\ pc' = "settled"
      /\ UNCHANGED <<alive, start, cpu, switches, inside, early, todo, pending, sample, groupFilter>>
    BY Zenon DEF SettleGuard, taskVars
<1>2. Types'
    BY <1>1 DEF IInv, Types
<1>3. EarlyInside' /\ Accounted' /\ SampleInv' /\ SettledSound'
    BY <1>1, Zenon DEF IInv, EarlyInside, Accounted, SampleInv, SettledSound
<1>4. QED
    BY <1>2, <1>3 DEF IInv

\* The drain gives up at its deadline, and settles nothing.
LEMMA DeadlineStep == ASSUME IInv, Deadline PROVE IInv'
<1>1. /\ pc' = "idle" /\ todo' = {} /\ pending' = {} /\ sample' = [stage |-> 0]
      /\ UNCHANGED <<alive, start, cpu, switches, inside, early, groupFilter>>
    BY Zenon DEF Deadline, taskVars, NoSample
<1>2. sample'.stage = 0
    BY <1>1, Zenon
<1>3. Types'
    BY <1>1, <1>2, SMTT(120) DEF IInv, Types
<1>4. EarlyInside' /\ Accounted' /\ SampleInv' /\ SettledSound'
    BY <1>1, <1>2 DEF IInv, EarlyInside, Accounted, SampleInv, SettledSound
<1>5. QED
    BY <1>3, <1>4 DEF IInv

-----------------------------------------------------------------------------
\* Every step of the kernel and of the drain preserves the invariant.
LEMMA StepIInv == IInv /\ [Next]_vars => IInv'
<1> SUFFICES ASSUME IInv, [Next]_vars PROVE IInv'
    BY Zenon
<1>1. CASE LoaderStep
    BY <1>1, BeginDrainStep, StartWalkStep, EndWalkStep, ReadOnCpuStep, ClassifySampleStep, EndScanStep,
       SettleGuardStep, DeadlineStep, ScanTaskStep, RescanTaskStep, Zenon DEF LoaderStep
<1>2. ASSUME NEW t \in Tasks, TaskStep(t) PROVE IInv'
    BY <1>2, DispatchStep, CountSwitchStep, ClearOnCpuStep, EnterCallStep, LeaveCallStep, ExitStep, ForkStep, ZenonT(120)
       DEF TaskStep
<1>3. CASE UNCHANGED vars
    BY <1>3 DEF IInv, Types, EarlyInside, Accounted, SampleInv, SettledSound, vars, taskVars, loaderVars
<1>4. QED
    BY <1>1, <1>2, <1>3, Zenon DEF Next

\* The invariant holds in every state of the drain.
LEMMA InvariantIInv == Spec => []IInv
    BY InitIInv, StepIInv, PTL DEF Spec

\* The variables of a drain keep their types, and a sample in progress is always of a task.
THEOREM TypeCorrect == Spec => []TypeOK
<1>1. IInv => TypeOK
    BY Zenon DEF IInv, Types, TypeOK
<1>2. QED
    BY <1>1, InvariantIInv, PTL

\* drain() settles the guard only when no call that began before the completion programs
\* attached is still running, for any number of tasks, switches, exits and reused thread IDs.
THEOREM SettlingIsSound == Spec => []SettledSound
<1>1. IInv => SettledSound
    BY Zenon DEF IInv
<1>2. QED
    BY <1>1, InvariantIInv, PTL

\* Every step of a drain is a step of the promise that the guard's caches are built on: a call
\* ends, or the guard is settled with none left.
THEOREM DrainKeepsPromise == Spec => SettlesLikePromised
<1>1. Init => Promise!Init
    BY Zenon DEF Init, Promise!Init
<1>2. IInv /\ [Next]_vars => [Promise!Next]_<<early, pc = "settled">>
  <2> SUFFICES ASSUME IInv, [Next]_vars PROVE Promise!Next \/ UNCHANGED <<early, pc = "settled">>
    BY Zenon
  <2>1. CASE SettleGuard
    BY <2>1, Zenon DEF IInv, Accounted, SettleGuard, taskVars, Promise!Next, Promise!Settle
  <2>2. CASE BeginDrain \/ StartWalk \/ EndWalk \/ ReadOnCpu \/ ClassifySample \/ EndScan \/ Deadline
    BY <2>2, Zenon DEF BeginDrain, StartWalk, EndWalk, ReadOnCpu, ClassifySample, EndScan, Deadline, taskVars
  <2>3. ASSUME NEW t \in Tasks, ScanTask(t) \/ \E k \in 0..start[t] : RescanTask(t, k)
        PROVE UNCHANGED <<early, pc = "settled">>
    BY <2>3, Zenon DEF ScanTask, RescanTask, taskVars
  <2>4. ASSUME NEW t \in Tasks, LeaveCall(t) PROVE Promise!End
    <3>1. early' = early \ (early \cap {t}) /\ UNCHANGED pc
        BY <2>4, Zenon DEF LeaveCall, loaderVars
    <3>2. QED
        BY <3>1, Zenon DEF Promise!End
  <2>5. ASSUME NEW t \in Tasks,
               Dispatch(t) \/ CountSwitch(t) \/ ClearOnCpu(t) \/ EnterCall(t) \/ Exit(t) \/ Fork(t)
        PROVE UNCHANGED <<early, pc = "settled">>
    BY <2>5, Zenon DEF Dispatch, CountSwitch, ClearOnCpu, EnterCall, Exit, Fork, loaderVars
  <2>6. CASE UNCHANGED vars
    BY <2>6, Zenon DEF vars, taskVars, loaderVars
  <2>7. QED
    BY <2>1, <2>2, <2>3, <2>4, <2>5, <2>6, Zenon DEF Next, LoaderStep, TaskStep, Promise!Next
<1>3. QED
    BY <1>1, <1>2, InvariantIInv, PTL DEF Spec, SettlesLikePromised, Promise!Spec
=============================================================================
