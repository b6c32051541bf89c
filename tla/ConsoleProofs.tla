--------------------------- MODULE ConsoleProofs ----------------------------
(***************************************************************************)
(* Proofs about the way of a key to a command: about Executor, for any set *)
(* of tasks and any queue capacity; about Keyboard, which refines Executor *)
(* and strands no scancode in its queue, for any capacities and any other  *)
(* tasks; and about ShellCommands, for every tree and every input.         *)
(***************************************************************************)
EXTENDS Keyboard, ShellCommands, SequenceTheorems, WellFoundedInduction, TLAPS

-----------------------------------------------------------------------------
(* The executor and the keyboard. *)

(* The inductive invariant.  The last conjunct is what CompletedNeverPolled
   needs: the task being polled is still in the map. *)
Inv == /\ TypeOK
       /\ HaltedOnlyWhenIdle
       /\ WakerCacheFollowsTasks
       /\ InterruptsDisabledOnlyToSleep
       /\ pc = "poll" => current \in tasks

(* A push that finds room appends the id, and the queue stays within its
   capacity. *)
LEMMA PushType ==
  ASSUME NEW t \in TaskId, TypeOK, PushTask(t)
  PROVE  /\ task_queue' \in Seq(TaskId) /\ Len(task_queue') <= TaskQueueCap
         /\ task_queue' # <<>>
PROOF BY AppendProperties, CapAssumption DEF TypeOK, PushTask

(* A pop leaves a queue of ids that is no longer than before. *)
LEMMA PopType ==
  ASSUME TypeOK, task_queue # <<>>, task_queue' = Tail(task_queue)
  PROVE  /\ Head(task_queue) \in TaskId
         /\ task_queue' \in Seq(TaskId) /\ Len(task_queue') <= TaskQueueCap
PROOF BY HeadTailProperties, LenProperties, CapAssumption DEF TypeOK

(* Executor::new establishes the invariant. *)
LEMMA InitInv == Init => Inv
PROOF BY CapAssumption, EmptySeq DEF Init, Inv, TypeOK, HaltedOnlyWhenIdle,
        WakerCacheFollowsTasks, InterruptsDisabledOnlyToSleep, Pc

(* Every step of the executor, of a future or of a handler preserves it. *)
LEMMA NextInv == Inv /\ [Next]_executorVars => Inv'
<1> SUFFICES ASSUME Inv, [Next]_executorVars PROVE Inv'
  OBVIOUS
<1> USE DEF Inv, HaltedOnlyWhenIdle, WakerCacheFollowsTasks,
            InterruptsDisabledOnlyToSleep, Pc
<1>1. ASSUME NEW t \in TaskId, Spawn(t) PROVE Inv'
  <2>1. CASE PushTask(t) /\ UNCHANGED pc
    BY <1>1, <2>1, PushType DEF Spawn, TypeOK
  <2>2. CASE TaskQueueFull /\ Panic
    BY <1>1, <2>2 DEF Spawn, TypeOK, TaskQueueFull, Panic
  <2> QED BY <1>1, <2>1, <2>2 DEF Spawn, WakeFromMain
<1>2. CASE Run
  BY <1>2 DEF Run, TypeOK
<1>3. CASE PopStale
  BY <1>3, PopType DEF PopStale, TypeOK
<1>4. CASE PopTask
  BY <1>4, PopType DEF PopTask, TypeOK
<1>5. CASE PopNothing
  BY <1>5 DEF PopNothing, TypeOK
<1>6. CASE DisableInterrupts
  BY <1>6 DEF DisableInterrupts, TypeOK
<1>7. CASE Sleep
  BY <1>7 DEF Sleep, TypeOK
<1>8. CASE StayAwake
  BY <1>8 DEF StayAwake, TypeOK
<1>9. CASE PollReady
  BY <1>9 DEF PollReady, TypeOK
<1>10. CASE PollPending \/ FutureStops
  BY <1>10 DEF PollPending, FutureStops, Panic, TypeOK
<1>11. ASSUME NEW t \in TaskId, FutureWakes(t) PROVE Inv'
  <2>1. CASE PushTask(t) /\ UNCHANGED pc
    BY <1>11, <2>1, PushType DEF FutureWakes, TypeOK
  <2>2. CASE TaskQueueFull /\ Panic
    BY <1>11, <2>2 DEF FutureWakes, TypeOK, TaskQueueFull, Panic
  <2> QED BY <1>11, <2>1, <2>2 DEF FutureWakes, WakeFromMain
<1>12. ASSUME NEW t \in TaskId, DeviceWakes(t) PROVE Inv'
  <2>1. CASE PushTask(t) /\ Resume /\ UNCHANGED IF_
    BY <1>12, <2>1, PushType DEF DeviceWakes, TypeOK, Resume
  <2>2. CASE TaskQueueFull /\ Panic /\ IF_' = FALSE
    BY <1>12, <2>2 DEF DeviceWakes, TypeOK, TaskQueueFull, Panic
  <2> QED BY <1>12, <2>1, <2>2 DEF DeviceWakes, WakeFromHandler
<1>13. CASE TimerInterrupt
  BY <1>13 DEF TimerInterrupt, TypeOK, Resume
<1>14. CASE HltLoop \/ UNCHANGED executorVars
  BY <1>14 DEF HltLoop, executorVars, TypeOK
<1> QED BY <1>1, <1>2, <1>3, <1>4, <1>5, <1>6, <1>7, <1>8, <1>9, <1>10,
           <1>11, <1>12, <1>13, <1>14 DEF Next, ExecutorStep

(* sleep_if_idle never sleeps over a ready task, for any number of tasks and any
   interleaving with the handlers that wake them. *)
THEOREM NeverSleepsOverReadyTask == Spec => [](TypeOK /\ HaltedOnlyWhenIdle)
<1>1. Inv => TypeOK /\ HaltedOnlyWhenIdle
  BY DEF Inv
<1> QED BY InitInv, NextInv, <1>1, PTL DEF Spec

(* run_ready_tasks drops the cached waker with its task and makes one only for a
   task that is there. *)
THEOREM WakerCacheIsKept == Spec => []WakerCacheFollowsTasks
<1>1. Inv => WakerCacheFollowsTasks
  BY DEF Inv
<1> QED BY InitInv, NextInv, <1>1, PTL DEF Spec

(* Every way out of sleep_if_idle enables interrupts again; only a panic in a handler
   leaves them off. *)
THEOREM InterruptsComeBack == Spec => []InterruptsDisabledOnlyToSleep
<1>1. Inv => InterruptsDisabledOnlyToSleep
  BY DEF Inv
<1> QED BY InitInv, NextInv, <1>1, PTL DEF Spec

(* A step from a state of the invariant never polls or revives a task that has
   completed. *)
LEMMA CompletedStep ==
  ASSUME Inv, Next, NEW t \in TaskId, t \in created \ tasks
  PROVE  ~Polling(t)' /\ t \notin tasks'
<1> USE DEF Inv, TypeOK, Polling
<1>1. ASSUME NEW u \in TaskId, Spawn(u) PROVE ~Polling(t)' /\ t \notin tasks'
  BY <1>1 DEF Spawn, WakeFromMain, Panic
<1>2. CASE ExecutorStep
  BY <1>2 DEF ExecutorStep, PopStale, PopTask, PopNothing, DisableInterrupts,
              Sleep, StayAwake
<1>3. CASE PollReady \/ PollPending \/ FutureStops \/ Run
  BY <1>3 DEF PollReady, PollPending, FutureStops, Panic, Run
<1>4. ASSUME NEW u \in TaskId, FutureWakes(u) PROVE ~Polling(t)' /\ t \notin tasks'
  BY <1>4 DEF FutureWakes, WakeFromMain, Panic
<1>5. ASSUME NEW u \in TaskId, DeviceWakes(u) PROVE ~Polling(t)' /\ t \notin tasks'
  BY <1>5 DEF DeviceWakes, WakeFromHandler, Panic, Resume
<1>6. CASE TimerInterrupt \/ HltLoop
  BY <1>6 DEF TimerInterrupt, HltLoop, executorVars, Resume
<1> QED BY <1>1, <1>2, <1>3, <1>4, <1>5, <1>6 DEF Next

(* run_ready_tasks never polls a completed task again, for any number of stale
   wakes. *)
THEOREM CompletedStaysCompleted == Spec => CompletedNeverPolled
<1>1. Inv /\ [Next]_executorVars =>
        [\A t \in TaskId : t \in created \ tasks =>
           ~Polling(t)' /\ t \notin tasks']_executorVars
  BY CompletedStep
<1> QED BY InitInv, NextInv, <1>1, PTL DEF Spec, CompletedNeverPolled

-----------------------------------------------------------------------------
(* The keyboard. *)

(* The task waits: the next interrupt finds its waker and an empty queue. *)
Waiting == WAKER = KeyTask /\ scancodes = <<>>

(* Where the wakeup is at each point of the task.  Outside a poll the task
   either waits or is queued.  Between register and the second pop an interrupt
   may already have called the waker. *)
WakeupKept ==
  /\ ready /\ ~Polling(KeyTask) =>
       kpc = "fast" /\ (Waiting \/ KeyTask \in Queued)
  /\ Polling(KeyTask) /\ kpc = "recheck" => WAKER = KeyTask \/ KeyTask \in Queued
  /\ Polling(KeyTask) /\ kpc = "pending" => Waiting \/ KeyTask \in Queued

(* The inductive invariant: the keyboard's task stays alive and keeps its
   cached waker from its first poll on, its wakeup is kept, and it holds a
   scancode exactly between the pop and the shell. *)
KInv == /\ Inv /\ KTypeOK
        /\ KeyTask \in created => KeyTask \in tasks
        /\ Polling(KeyTask) \/ ready => KeyTask \in waker_cache
        /\ ready <=> kpc # "new"
        /\ WAKER # NoTask \/ scancodes # <<>> => ready
        /\ pc # "hlt_loop" =>
             WakeupKept /\ (hand # <<>> <=> kpc \in {"take", "process"})

-----------------------------------------------------------------------------
(* A push puts the id among the queued ones and removes none. *)
LEMMA QueuedPush ==
  ASSUME NEW t \in TaskId, TypeOK, PushTask(t)
  PROVE  Queued' = Queued \cup {t}
<1>1. /\ task_queue \in Seq(TaskId) /\ task_queue' = Append(task_queue, t)
      /\ Len(task_queue) \in Nat
  BY LenProperties DEF TypeOK, PushTask
<1>2. /\ DOMAIN task_queue = 1..Len(task_queue)
      /\ DOMAIN task_queue' = 1..(Len(task_queue) + 1)
      /\ \A i \in 1..Len(task_queue) : task_queue'[i] = task_queue[i]
      /\ task_queue'[Len(task_queue) + 1] = t
  BY <1>1, AppendProperties, LenProperties
<1> QED BY <1>1, <1>2 DEF Queued, Range

(* A pop removes no other id than the one it returns. *)
LEMMA QueuedPop ==
  ASSUME TypeOK, task_queue # <<>>, task_queue' = Tail(task_queue)
  PROVE  Queued \subseteq Queued' \cup {Head(task_queue)}
<1>1. /\ task_queue \in Seq(TaskId) /\ Len(task_queue) \in Nat \ {0}
      /\ DOMAIN task_queue = 1..Len(task_queue)
  BY LenProperties, EmptySeq DEF TypeOK
<1>2. /\ DOMAIN task_queue' = 1..(Len(task_queue) - 1)
      /\ \A i \in 1..(Len(task_queue) - 1) : task_queue'[i] = task_queue[i + 1]
  BY <1>1, HeadTailProperties, LenProperties
<1>3. Head(task_queue) = task_queue[1]
  BY <1>1
<1>4. ASSUME NEW i \in 1..Len(task_queue)
      PROVE  task_queue[i] \in Queued' \cup {Head(task_queue)}
  <2>1. CASE i = 1
    BY <2>1, <1>3
  <2>2. CASE i # 1
    <3>1. i - 1 \in DOMAIN task_queue' /\ task_queue'[i - 1] = task_queue[i]
      BY <1>1, <1>2, <2>2
    <3> QED BY <3>1 DEF Queued, Range
  <2> QED BY <2>1, <2>2
<1> QED BY <1>1, <1>4 DEF Queued, Range

-----------------------------------------------------------------------------
(* The keyboard's initial states satisfy the invariant. *)
LEMMA KInitInv == KInit => KInv
<1> SUFFICES ASSUME KInit PROVE KInv
  OBVIOUS
<1>1. Inv
  BY InitInv DEF KInit
<1>2. <<>> \in Seq(1..MaxKeys) /\ Len(<<>>) = 0
  BY EmptySeq
<1>3. 0 \in 0..MaxKeys /\ 0 <= ScancodeQueueCap /\ 0 <= 1
  BY ScancodeCapAssumption, MaxKeysAssumption
<1>4. TypeOK
  BY <1>1 DEF Inv
<1>5. KTypeOK
  BY <1>2, <1>3, <1>4, Zenon DEF KInit, KTypeOK, KeyPc
<1> QED BY <1>1, <1>5 DEF KInit, Init, KInv, WakeupKept, Polling

(* Seen from the executor, every step of the keyboard path is a step of the
   executor, of a future or of a device: the task only wakes and returns as
   Executor allows. *)
LEMMA KStepIsExecutorStep == KInv /\ [KNext]_vars => [Next]_executorVars
<1> SUFFICES ASSUME KInv, [KNext]_vars PROVE [Next]_executorVars
  OBVIOUS
<1>1. CASE UNCHANGED vars
  BY <1>1 DEF vars, executorVars
<1>2. CASE \/ \E t \in TaskId : Spawn(t)
           \/ Run \/ ExecutorStep \/ TimerInterrupt \/ HltLoop
  BY <1>2 DEF Next
<1>3. CASE OtherTaskReturns
  BY <1>3 DEF OtherTaskReturns, Next
<1>4. CASE OtherTaskWakes
  BY <1>4, NoTaskAssumption DEF OtherTaskWakes, Next, FutureWakes, KInv, Inv, TypeOK
<1>5. CASE KeyTaskStep
  BY <1>5 DEF KeyTaskStep, KeyStep, StreamNew, ShellNew, PopScancode, FastPop,
     FastPopEmpty, Register, SecondPop, SecondPopEmpty, Take, Process, KeyPending, Next
<1>6. CASE ShellStops
  BY <1>6 DEF ShellStops, Next
<1>7. CASE KeyboardInterrupt
  <2>1. CASE AddScancode /\ WAKER # NoTask
    <3>1. WAKER = KeyTask /\ KeyTask \in wakers
      BY <2>1 DEF KInv, KTypeOK, Inv, WakerCacheFollowsTasks
    <3>2. DeviceWakes(KeyTask)
      BY <1>7, <2>1, <3>1 DEF KeyboardInterrupt, AddScancode, Wake, DeviceWakes
    <3> QED BY <3>2, KeyTaskAssumption DEF Next
  <2>2. CASE ~(AddScancode /\ WAKER # NoTask)
    <3>1. /\ IF_ /\ Resume
          /\ UNCHANGED <<created, tasks, task_queue, waker_cache, wakers, current, IF_>>
      BY <1>7, <2>2 DEF KeyboardInterrupt, AddScancode, DropScancode, Wake
    <3>2. CASE pc = "halted"
      BY <3>1, <3>2 DEF TimerInterrupt, Next
    <3>3. CASE pc # "halted"
      BY <3>1, <3>3 DEF Resume, executorVars
    <3> QED BY <3>2, <3>3
  <2> QED BY <2>1, <2>2
<1> QED BY <1>1, <1>2, <1>3, <1>4, <1>5, <1>6, <1>7 DEF KNext

-----------------------------------------------------------------------------
(* The type invariant is preserved: a pop moves one code to the task's hand, a
   push keeps to the capacity. *)
LEMMA KTypeStep ==
  ASSUME KTypeOK, TypeOK', [KNext]_vars
  PROVE  KTypeOK'
<1> DEFINE Code == 1..MaxKeys
<1>a. /\ scancodes \in Seq(Code) /\ Len(scancodes) \in Nat
      /\ Len(scancodes) <= ScancodeQueueCap
      /\ hand \in Seq(Code) /\ typed \in Seq(Code) /\ pressed \in 0..MaxKeys
      /\ <<>> \in Seq(Code) /\ Len(<<>>) = 0
  BY LenProperties, EmptySeq DEF KTypeOK
<1> HIDE DEF Code
<1>1. CASE UNCHANGED keyboardVars
  BY <1>1 DEF KTypeOK, keyboardVars, streamVars, taskVars
<1>2. ASSUME NEW start, NEW to \in KeyPc, PopScancode(start, to) PROVE KTypeOK'
  <2>1. /\ Head(scancodes) \in Code /\ Tail(scancodes) \in Seq(Code)
        /\ Len(Tail(scancodes)) <= ScancodeQueueCap
    BY <1>a, <1>2, HeadTailProperties, ScancodeCapAssumption DEF PopScancode
  <2>2. <<Head(scancodes)>> \in Seq(Code) /\ Len(<<Head(scancodes)>>) <= 1
    BY <2>1
  <2> QED BY <1>2, <2>1, <2>2 DEF PopScancode, KeyStep, KTypeOK, Code
<1>3. CASE KeyTaskStep
  <2>1. CASE FastPop \/ SecondPop
    BY <1>2, <2>1 DEF FastPop, SecondPop, KeyPc
  <2>2. CASE Process
    BY <1>a, <2>2, ConcatProperties
       DEF Process, KeyStep, KTypeOK, streamVars, KeyPc, Code
  <2>3. CASE StreamNew \/ ShellNew \/ FastPopEmpty \/ SecondPopEmpty \/ KeyPending
    BY <2>3 DEF StreamNew, ShellNew, FastPopEmpty, SecondPopEmpty, KeyPending,
                KeyStep, KTypeOK, streamVars, KeyPc
  <2>4. CASE Register \/ Take
    BY <2>4 DEF Register, Take, KeyStep, KTypeOK, KeyPc
  <2> QED BY <1>3, <2>1, <2>2, <2>3, <2>4 DEF KeyTaskStep
<1>4. CASE ShellStops
  BY <1>a, <1>4, ConcatProperties DEF ShellStops, KTypeOK, streamVars, Code
<1>5. CASE KeyboardInterrupt
  <2>1. pressed' \in 0..MaxKeys /\ pressed' \in Code
    BY <1>5, <1>a, MaxKeysAssumption DEF KeyboardInterrupt, Code
  <2>2. CASE AddScancode
    <3>1. scancodes' \in Seq(Code) /\ Len(scancodes') <= ScancodeQueueCap
      BY <1>a, <2>1, <2>2, AppendProperties, ScancodeCapAssumption DEF AddScancode
    <3>2. WAKER' \in {NoTask, KeyTask}
      BY <2>2 DEF AddScancode, Wake, KTypeOK
    <3> QED BY <1>5, <2>1, <3>1, <3>2 DEF KeyboardInterrupt, taskVars, KTypeOK, Code
  <2>3. CASE DropScancode
    BY <1>5, <2>1, <2>3 DEF KeyboardInterrupt, DropScancode, taskVars, KTypeOK
  <2> QED BY <1>5, <2>2, <2>3 DEF KeyboardInterrupt
<1> QED BY <1>1, <1>3, <1>4, <1>5 DEF KNext, vars

(* Every step of the executor and of the other tasks keeps the keyboard task's
   wakeup: only a pop takes it out of the ready queue, and then it is polled. *)
LEMMA ExecutorKeeps ==
  ASSUME KInv, Inv', KTypeOK', UNCHANGED keyboardVars,
         \/ \E t \in TaskId : Spawn(t)
         \/ Run \/ ExecutorStep
         \/ OtherTaskReturns \/ OtherTaskWakes
         \/ TimerInterrupt \/ HltLoop
  PROVE  KInv'
<1> USE DEF Inv, KInv, WakeupKept, Waiting, Polling, keyboardVars, streamVars, taskVars
<1>1. ASSUME NEW t \in TaskId, Spawn(t) PROVE KInv'
  <2>1. CASE PushTask(t) /\ UNCHANGED pc
    BY <1>1, <2>1, QueuedPush DEF Spawn
  <2>2. CASE TaskQueueFull /\ Panic
    BY <1>1, <2>2 DEF Spawn, Panic
  <2> QED BY <1>1, <2>1, <2>2 DEF Spawn, WakeFromMain
<1>2. CASE Run \/ PopNothing \/ DisableInterrupts \/ Sleep \/ StayAwake
  BY <1>2 DEF Run, PopNothing, DisableInterrupts, Sleep, StayAwake, Queued
<1>3. CASE PopStale
  BY <1>3, QueuedPop DEF PopStale, TypeOK, WakerCacheFollowsTasks
<1>4. CASE PopTask
  BY <1>4, QueuedPop DEF PopTask
<1>5. CASE OtherTaskReturns
  BY <1>5 DEF OtherTaskReturns, PollReady, PollPending, Queued
<1>6. CASE OtherTaskWakes
  <2>1. current \in TaskId
    BY <1>6, NoTaskAssumption DEF OtherTaskWakes, FutureWakes, TypeOK
  <2>2. CASE PushTask(current) /\ UNCHANGED pc
    BY <1>6, <2>1, <2>2, QueuedPush DEF OtherTaskWakes, FutureWakes
  <2>3. CASE TaskQueueFull /\ Panic
    BY <1>6, <2>3 DEF OtherTaskWakes, FutureWakes, Panic
  <2> QED BY <1>6, <2>2, <2>3 DEF OtherTaskWakes, FutureWakes, WakeFromMain
<1>7. CASE TimerInterrupt \/ HltLoop
  BY <1>7 DEF TimerInterrupt, HltLoop, Resume, executorVars, Queued
<1> QED BY <1>1, <1>2, <1>3, <1>4, <1>5, <1>6, <1>7 DEF ExecutorStep

(* The steps of the task itself keep its wakeup. *)
LEMMA KeyTaskKeeps ==
  ASSUME KInv, Inv', KTypeOK', KeyTaskStep \/ ShellStops
  PROVE  KInv'
<1> USE DEF Inv, KInv, WakeupKept, Waiting, Polling, streamVars
<1>1. CASE KeyTaskStep /\ ~KeyPending
  <2>1. UNCHANGED <<executorVars, pressed>>
    BY <1>1 DEF KeyTaskStep, KeyStep, StreamNew, ShellNew, PopScancode, FastPop,
       FastPopEmpty, Register, SecondPop, SecondPopEmpty, Take, Process
  <2>2. UNCHANGED <<created, tasks, task_queue, Queued, waker_cache, pc, current>>
    BY <2>1 DEF executorVars, Queued
  <2>3. CASE StreamNew \/ ShellNew \/ FastPopEmpty \/ SecondPopEmpty
    BY <2>2, <2>3 DEF StreamNew, ShellNew, FastPopEmpty, SecondPopEmpty, KeyStep
  <2>4. CASE FastPop \/ SecondPop
    <3>1. <<Head(scancodes)>> # <<>>
      OBVIOUS
    <3> QED BY <2>2, <2>4, <3>1 DEF FastPop, SecondPop, PopScancode, KeyStep
  <2>5. CASE Register \/ Take \/ Process
    BY <2>2, <2>5 DEF Register, Take, Process, KeyStep
  <2> QED BY <1>1, <2>3, <2>4, <2>5 DEF KeyTaskStep
<1>2. CASE KeyPending
  BY <1>2 DEF KeyPending, PollPending, Queued
<1>3. CASE ShellStops
  BY <1>3 DEF ShellStops, FutureStops, Panic
<1> QED BY <1>1, <1>2, <1>3

(* The keyboard's handler keeps it: a scancode that enters the queue finds the
   waker, or a task that will look at the queue again. *)
LEMMA InterruptKeeps ==
  ASSUME KInv, Inv', KTypeOK', KeyboardInterrupt
  PROVE  KInv'
<1> USE DEF Inv, KInv, WakeupKept, Waiting, Polling, KeyboardInterrupt, taskVars
<1>1. CASE AddScancode /\ WAKER # NoTask
  <2>1. WAKER = KeyTask
    BY <1>1 DEF KTypeOK
  <2>2. CASE PushTask(WAKER) /\ Resume /\ UNCHANGED IF_
    BY <1>1, <2>1, <2>2, QueuedPush, KeyTaskAssumption DEF AddScancode, Resume, Wake
  <2>3. CASE TaskQueueFull /\ Panic
    BY <1>1, <2>3 DEF AddScancode, Panic, Wake
  <2> QED BY <1>1, <2>2, <2>3 DEF AddScancode, Wake, WakeFromHandler
<1>2. CASE AddScancode /\ WAKER = NoTask
  BY <1>2, NoTaskAssumption, KeyTaskAssumption DEF AddScancode, Wake, Resume, Queued
<1>3. CASE DropScancode
  BY <1>3 DEF DropScancode, Resume, Queued
<1> QED BY <1>1, <1>2, <1>3

(* Every step preserves the invariant. *)
LEMMA KNextInv == KInv /\ [KNext]_vars => KInv'
<1> SUFFICES ASSUME KInv, [KNext]_vars PROVE KInv'
  OBVIOUS
<1>1. Inv'
  BY KStepIsExecutorStep, NextInv DEF KInv
<1>2. KTypeOK'
  BY <1>1, KTypeStep DEF KInv, Inv
<1>3. CASE UNCHANGED vars
  BY <1>1, <1>2, <1>3 DEF vars, executorVars, keyboardVars, streamVars, taskVars,
     KInv, WakeupKept, Waiting, Polling, Queued
<1> QED BY <1>1, <1>2, <1>3, ExecutorKeeps, KeyTaskKeeps, InterruptKeeps DEF KNext

-----------------------------------------------------------------------------
(* The composed system is an instance of the executor with one real future: the
   safety properties of Executor hold of it. *)
THEOREM KeyboardRefinesExecutor == KSpec => Init /\ [][Next]_executorVars
<1>1. KInit => Init
  BY DEF KInit
<1> QED BY KInitInv, KNextInv, KStepIsExecutorStep, <1>1, PTL DEF KSpec

(* No interrupt, wherever it falls in poll_next, in the executor or in another
   task, leaves a scancode in the queue without a wakeup for its task. *)
THEOREM NoScancodeIsStranded == KSpec => [](KTypeOK /\ NoStrandedScancode)
<1>1. KInv => KTypeOK /\ NoStrandedScancode
  BY DEF KInv, WakeupKept, Waiting, NoStrandedScancode
<1> QED BY KInitInv, KNextInv, <1>1, PTL DEF KSpec

(* The interrupt handler never drops the last reference to a waker, so it never
   enters the allocator. *)
THEOREM HandlerStaysOutOfTheHeap == KSpec => []HandlerNeverFreesWaker
<1>1. KInv => HandlerNeverFreesWaker
  BY DEF KInv, KTypeOK, HandlerNeverFreesWaker
<1> QED BY KInitInv, KNextInv, <1>1, PTL DEF KSpec

-----------------------------------------------------------------------------
(* The refinement of the channel, step by step. *)

(* What the sequence operators do to the codes under way. *)
LEMMA UnderWay ==
  ASSUME NEW S, NEW h, NEW q \in Seq(S)
  PROVE  /\ <<>> \o q = q
         /\ q # <<>> => <<Head(q)>> \o Tail(q) = q
         /\ Len(<<h>>) = 1
<1>1. <<>> \o q = q
  BY ConcatEmptySeq
<1>2. ASSUME q # <<>> PROVE <<Head(q)>> \o Tail(q) = q
  <2>1. /\ Head(q) \in S /\ Tail(q) \in Seq(S) /\ Len(Tail(q)) = Len(q) - 1
        /\ \A i \in 1..Len(Tail(q)) : Tail(q)[i] = q[i + 1]
        /\ Len(q) \in Nat \ {0} /\ Head(q) = q[1]
    BY <1>2, HeadTailProperties, LenProperties, EmptySeq
  <2>2. <<Head(q)>> \in Seq(S) /\ Len(<<Head(q)>>) = 1 /\ <<Head(q)>>[1] = Head(q)
    BY <2>1
  <2>3. /\ <<Head(q)>> \o Tail(q) \in Seq(S)
        /\ Len(<<Head(q)>> \o Tail(q)) = Len(q)
        /\ \A i \in 1..Len(q) : (<<Head(q)>> \o Tail(q))[i] = q[i]
    BY <2>1, <2>2, ConcatProperties
  <2> QED BY <2>3, SeqEqual
<1> QED BY <1>1, <1>2

(* Appending to the queue appends to what is under way; and a code in hand is the
   head of what is under way. *)
LEMMA UnderWayAppend ==
  ASSUME NEW S, NEW h \in Seq(S), NEW q \in Seq(S), NEW c \in S
  PROVE  /\ h \o Append(q, c) = Append(h \o q, c)
         /\ Len(h \o q) = Len(h) + Len(q)
<1>1. Append(q, c) = q \o <<c>> /\ Append(h \o q, c) = (h \o q) \o <<c>>
  BY AppendIsConcat, ConcatProperties
<1>2. <<c>> \in Seq(S)
  OBVIOUS
<1> QED BY <1>1, <1>2, ConcatAssociative, ConcatProperties

(* Delivering the code in hand. *)
LEMMA HandIsHead ==
  ASSUME NEW S, NEW h \in Seq(S), h # <<>>, Len(h) <= 1, NEW q \in Seq(S),
         NEW d \in Seq(S)
  PROVE  /\ h \o q # <<>>
         /\ Tail(h \o q) = q
         /\ d \o h = Append(d, Head(h \o q))
<1>1. Len(h) = 1 /\ h[1] \in S /\ h = <<h[1]>>
  <2>1. Len(h) = 1
    <3>1. Len(h) \in Nat \ {0}
      BY EmptySeq
    <3>2. \A n \in Nat \ {0} : n <= 1 => n = 1
      OBVIOUS
    <3> QED BY <3>1, <3>2, Zenon
  <2>2. h[1] \in S
    BY <2>1, ElementOfSeq
  <2>3. <<h[1]>> \in Seq(S) /\ Len(<<h[1]>>) = 1 /\ <<h[1]>>[1] = h[1]
    BY <2>2
  <2> QED BY <2>1, <2>2, <2>3, SeqEqual
<1>2. /\ h \o q \in Seq(S) /\ Len(h \o q) = 1 + Len(q) /\ (h \o q)[1] = h[1]
      /\ \A i \in 1..Len(q) : (h \o q)[i + 1] = q[i]
      /\ Len(q) \in Nat
  <2>1. /\ h \o q \in Seq(S) /\ Len(h \o q) = Len(h) + Len(q) /\ Len(q) \in Nat
        /\ \A i \in 1..(Len(h) + Len(q)) :
             (h \o q)[i] = IF i <= Len(h) THEN h[i] ELSE q[i - Len(h)]
    BY ConcatProperties, LenProperties
  <2>2. \A i \in 1..Len(q) : (h \o q)[i + 1] = q[i]
    <3>1. ASSUME NEW i \in 1..Len(q) PROVE (h \o q)[i + 1] = q[i]
      <4>1. i + 1 \in 1..(Len(h) + Len(q)) /\ ~(i + 1 <= Len(h)) /\ i + 1 - Len(h) = i
        BY <1>1, <2>1
      <4> QED BY <2>1, <4>1
    <3> QED BY <3>1
  <2>3. 1 \in 1..(Len(h) + Len(q)) /\ 1 <= Len(h)
    BY <1>1, <2>1
  <2>4. (h \o q)[1] = h[1]
    BY <2>1, <2>3
  <2> QED BY <1>1, <2>1, <2>2, <2>4
<1>3. h \o q # <<>> /\ Head(h \o q) = h[1]
  <2>1. Len(h \o q) # 0
    BY <1>2
  <2>2. h \o q # <<>>
    BY <2>1, EmptySeq
  <2> QED BY <1>2, <2>2
<1>4. /\ Tail(h \o q) \in Seq(S) /\ Len(Tail(h \o q)) = Len(q)
      /\ \A i \in 1..Len(q) : Tail(h \o q)[i] = q[i]
  BY <1>2, <1>3, HeadTailProperties
<1>5. Tail(h \o q) = q
  BY <1>4, SeqEqual
<1>6. d \o h = Append(d, h[1])
  BY <1>1, AppendIsConcat
<1> QED BY <1>3, <1>5, <1>6

(* Under the refinement mapping every step of the keyboard path is a step of the
   channel or leaves it alone. *)
LEMMA ChannelStep ==
  ASSUME KInv, [KNext]_vars
  PROVE  [Channel!Next]_(Channel!vars)
<1> DEFINE Code == 1..MaxKeys
<1>a. /\ scancodes \in Seq(Code) /\ Len(scancodes) \in Nat
      /\ Len(scancodes) <= ScancodeQueueCap
      /\ hand \in Seq(Code) /\ typed \in Seq(Code)
      /\ Len(hand) \in Nat /\ Len(hand) <= 1
      /\ pressed \in 0..MaxKeys
  BY LenProperties DEF KInv, KTypeOK
<1> HIDE DEF Code
<1>1. CASE /\ UNCHANGED keyboardVars
           /\ pc' = "hlt_loop" \/ (pc # "hlt_loop" /\ pc' # "hlt_loop")
  BY <1>1 DEF keyboardVars, streamVars, taskVars, Channel!Next, Channel!Stop, Channel!vars
<1>2. CASE UNCHANGED vars
  BY <1>2 DEF vars, executorVars, keyboardVars, streamVars, taskVars, Channel!vars
<1>3. CASE /\ \/ \E t \in TaskId : Spawn(t)
              \/ Run \/ ExecutorStep
              \/ OtherTaskReturns \/ OtherTaskWakes
              \/ TimerInterrupt \/ HltLoop
           /\ UNCHANGED keyboardVars
  <2>1. pc' = "hlt_loop" \/ (pc # "hlt_loop" /\ pc' # "hlt_loop")
    BY <1>3 DEF Spawn, WakeFromMain, Panic, Run, ExecutorStep, PopStale, PopTask,
       PopNothing, DisableInterrupts, Sleep, StayAwake, OtherTaskReturns, PollReady,
       PollPending, OtherTaskWakes, FutureWakes, TimerInterrupt, Resume, HltLoop,
       executorVars
  <2> QED BY <1>1, <1>3, <2>1
<1>4. CASE KeyTaskStep
  <2>0. pc # "hlt_loop" /\ pc' # "hlt_loop"
    BY <1>4 DEF KeyTaskStep, KeyStep, Polling, executorVars, StreamNew, ShellNew,
       PopScancode, FastPop, FastPopEmpty, Register, SecondPop, SecondPopEmpty,
       Take, Process, KeyPending, PollPending
  <2>1. CASE StreamNew
    BY <2>0, <2>1 DEF StreamNew, KeyStep, KInv, Channel!Next, Channel!Open
  <2>2. CASE \/ ShellNew \/ FastPopEmpty \/ Register \/ SecondPopEmpty \/ Take
             \/ KeyPending
    BY <2>0, <2>2 DEF ShellNew, FastPopEmpty, Register, SecondPopEmpty, Take,
       KeyPending, KeyStep, streamVars, Channel!vars
  <2>3. CASE FastPop \/ SecondPop
    <3>1. hand = <<>> /\ scancodes # <<>>
      BY <2>0, <2>3 DEF FastPop, SecondPop, PopScancode, KeyStep, KInv
    <3>2. hand' \o scancodes' = hand \o scancodes
      BY <1>a, <2>3, <3>1, UnderWay DEF FastPop, SecondPop, PopScancode
    <3> QED BY <2>0, <2>3, <3>2 DEF FastPop, SecondPop, PopScancode, KeyStep, Channel!vars
  <2>4. CASE Process
    <3>1. hand # <<>>
      BY <2>0, <2>4 DEF Process, KeyStep, KInv
    <3>2. /\ hand \o scancodes # <<>>
          /\ hand' \o scancodes' = Tail(hand \o scancodes)
          /\ typed' = Append(typed, Head(hand \o scancodes))
      BY <1>a, <2>4, <3>1, HandIsHead, UnderWay DEF Process, streamVars
    <3> QED BY <2>0, <2>4, <3>2 DEF Process, KeyStep, streamVars, Channel!Next,
               Channel!Deliver, Channel!MayStop
  <2> QED BY <1>4, <2>1, <2>2, <2>3, <2>4 DEF KeyTaskStep
<1>5. CASE ShellStops
  <2>0. pc # "hlt_loop" /\ pc' = "hlt_loop" /\ UNCHANGED <<ready, scancodes, pressed>>
    BY <1>5 DEF ShellStops, Polling, FutureStops, Panic, streamVars
  <2>1. CASE hand = <<>>
    <3>1. typed' = typed /\ hand' = hand
      BY <1>5, <1>a, <2>1, ConcatEmptySeq DEF ShellStops
    <3> QED BY <2>0, <3>1 DEF Channel!Next, Channel!Stop
  <2>2. CASE hand # <<>>
    <3>1. /\ hand \o scancodes # <<>>
          /\ hand' \o scancodes' = Tail(hand \o scancodes)
          /\ typed' = Append(typed, Head(hand \o scancodes))
      BY <1>a, <1>5, <2>0, <2>2, HandIsHead, UnderWay DEF ShellStops
    <3> QED BY <2>0, <3>1 DEF Channel!Next, Channel!Deliver, Channel!MayStop
  <2> QED BY <2>1, <2>2
<1>6. CASE KeyboardInterrupt
  <2>0. UNCHANGED <<ready, hand, typed>> /\ pressed < MaxKeys /\ pressed' = pressed + 1
    BY <1>6 DEF KeyboardInterrupt, taskVars
  <2>1. CASE AddScancode
    <3>1. pressed' \in Code
      BY <1>a, <2>0, MaxKeysAssumption DEF Code
    <3>2. hand' \o scancodes' = Append(hand \o scancodes, pressed')
      BY <1>a, <2>0, <2>1, <3>1, UnderWayAppend DEF AddScancode
    <3>3. Len(hand \o scancodes) = Len(hand) + Len(scancodes)
      BY <1>a, <3>1, UnderWayAppend
    <3>4. Len(hand \o scancodes) < ScancodeQueueCap + 1
      BY <1>a, <2>1, <3>3, ScancodeCapAssumption DEF AddScancode
    <3>5. pc' = "hlt_loop" \/ (pc # "hlt_loop" /\ pc' # "hlt_loop")
      BY <2>1 DEF AddScancode, Wake, WakeFromHandler, Panic, Resume
    <3> QED BY <2>0, <2>1, <3>2, <3>4, <3>5 DEF AddScancode, Channel!Next,
               Channel!Accept, Channel!MayStop
  <2>2. CASE DropScancode
    <3>1. Len(hand \o scancodes) = Len(hand) + Len(scancodes)
      BY <1>a, ConcatProperties
    <3>2. ~ready \/ Len(hand \o scancodes) >= ScancodeQueueCap + 1 - 1
      BY <1>a, <2>2, <3>1, ScancodeCapAssumption DEF DropScancode
    <3>3. pc' = "hlt_loop" <=> pc = "hlt_loop"
      BY <2>2 DEF DropScancode, Resume
    <3> QED BY <2>0, <2>2, <3>2, <3>3 DEF DropScancode, Channel!Next, Channel!Refuse
  <2> QED BY <1>6, <2>1, <2>2 DEF KeyboardInterrupt
<1> QED BY <1>2, <1>3, <1>4, <1>5, <1>6 DEF KNext

(* The keyboard path implements the channel: what was accepted reaches the shell
   once and in order, and nothing is refused by an open channel with room.  (That
   it arrives at all is liveness, and is left to TLC.) *)
THEOREM KeyboardImplementsChannel == KSpec => Channel!Safety
<1>1. KInit => Channel!Init
  <2> SUFFICES ASSUME KInit PROVE Channel!Init
    OBVIOUS
  <2>1. <<>> \o <<>> = <<>>
    BY ConcatEmptySeq, EmptySeq
  <2> QED BY <2>1 DEF KInit, Init, Channel!Init
<1> QED BY KInitInv, KNextInv, ChannelStep, <1>1, PTL DEF KSpec, Channel!Safety

-----------------------------------------------------------------------------
(* What a loop computes. *)

(* What holds at the start and is kept by every turn holds after every turn. *)
LEMMA EveryTurn ==
  ASSUME NEW n \in Nat, NEW K, 0 \in K, \A i \in 1..n : i - 1 \in K => i \in K
  PROVE  \A i \in 0..n : i \in K
<1> SUFFICES ASSUME {i \in 0..n : i \notin K} # {} PROVE FALSE
  OBVIOUS
<1> DEFINE B == {i \in 0..n : i \notin K}
<1>1. PICK m \in B : \A k \in B : ~(<<k, m>> \in OpToRel(<, Nat))
  <2>1. B \subseteq Nat /\ B # {}
    OBVIOUS
  <2> HIDE DEF B
  <2> QED BY <2>1, NatLessThanWellFounded, WFMin
<1>2. m \in B /\ \A k \in B : ~(k < m)
  <2>1. B \subseteq Nat
    OBVIOUS
  <2> HIDE DEF B
  <2> SUFFICES ASSUME NEW k \in B PROVE ~(k < m)
    BY <1>1
  <2>2. k \in Nat /\ m \in Nat /\ <<k, m>> \notin OpToRel(<, Nat)
    BY <1>1, <2>1
  <2> QED BY <2>2 DEF OpToRel
<1>3. m \in 1..n /\ m - 1 \in 0..n /\ m - 1 < m
  BY <1>2
<1>4. m - 1 \notin B
  BY <1>2, <1>3
<1> QED BY <1>3, <1>4

(* The states of a loop that starts with b; F is its body. *)
IsHistory(S, b, n, F, h) ==
  h \in [0..n -> S] /\ h[0] = b /\ \A i \in 1..n : h[i] = F[<<i, h[i - 1]>>]

(* A loop over a closed set of states has a history. *)
LEMMA History ==
  ASSUME NEW S, NEW b \in S, NEW n \in Nat, NEW F, DOMAIN F = (1..n) \X S,
         \A i \in 1..n, v \in S : F[<<i, v>>] \in S
  PROVE  \E h : IsHistory(S, b, n, F, h)
<1> DEFINE Good(k, h) == h[0] = b /\ \A i \in 1..k : h[i] = F[<<i, h[i - 1]>>]
           K == {k \in 0..n : \E h \in [0..k -> S] : Good(k, h)}
<1>1. 0 \in K
  <2> DEFINE h == [i \in 0..0 |-> b]
  <2>1. h \in [0..0 -> S] /\ h[0] = b
    OBVIOUS
  <2>2. Good(0, h)
    BY <2>1
  <2> HIDE DEF h, Good
  <2> QED BY <2>1, <2>2
<1>2. ASSUME NEW k \in 1..n, k - 1 \in K PROVE k \in K
  <2>1. PICK h \in [0..(k - 1) -> S] : Good(k - 1, h)
    BY <1>2, SMTT(30)
  <2> DEFINE g == [i \in 0..k |-> IF i = k THEN F[<<k, h[k - 1]>>] ELSE h[i]]
  <2>2. h[k - 1] \in S
    BY <2>1
  <2>3. F[<<k, h[k - 1]>>] \in S
    BY <2>2
  <2>4. g \in [0..k -> S]
    BY <2>1, <2>3
  <2>5. g[0] = b /\ g[k] = F[<<k, h[k - 1]>>] /\ \A i \in 0..(k - 1) : g[i] = h[i]
    BY <2>1
  <2>6. \A i \in 1..k : g[i] = F[<<i, g[i - 1]>>]
    <3> SUFFICES ASSUME NEW i \in 1..k PROVE g[i] = F[<<i, g[i - 1]>>]
      OBVIOUS
    <3>1. i - 1 \in 0..(k - 1) /\ (i # k => i \in 1..(k - 1) /\ i \in 0..(k - 1))
      OBVIOUS
    <3>2. g[i - 1] = h[i - 1]
      BY <3>1, <2>5
    <3> HIDE DEF g
    <3> QED BY <3>1, <3>2, <2>5, <2>1
  <2> HIDE DEF g
  <2> QED BY <2>4, <2>5, <2>6
<1> HIDE DEF K
<1>3. n \in K
  BY <1>1, <1>2, EveryTurn
<1> QED BY <1>3 DEF K, IsHistory

-----------------------------------------------------------------------------
(* Walking a path of a tree. *)

ChildIn(tree, d, name) ==
  IF ~(d \in DOMAIN tree /\ tree[d].dir) THEN Missing
  ELSE IF name \in {".", ".."}
  THEN IF d = <<>> THEN Missing ELSE IF name = "." THEN d ELSE Front(d)
  ELSE IF Append(d, name) \in DOMAIN tree THEN Append(d, name) ELSE Missing

Visits(tree, d, text, h) ==
  h = [i \in 0..Len(text) |-> IF i = 0 THEN d ELSE ChildIn(tree, h[i - 1], text[i])]

WalkIn(tree, d, text) ==
  LET dir[i \in 0..Len(text)] == IF i = 0 THEN d ELSE ChildIn(tree, dir[i - 1], text[i])
  IN  dir[Len(text)]

(* The walk of the model, with its tree as an argument. *)
LEMMA WalkIsWalkIn ==
  ASSUME NEW d, NEW text
  PROVE  Walk(d, text) = WalkIn(fs, d, text)
BY DEF Walk, WalkIn, Child, ChildIn, IsDir

(* Where a name leads is a path, or no place at all. *)
LEMMA ChildIsPath ==
  ASSUME NEW tree, NEW d \in Seq(Pieces), NEW name \in Pieces
  PROVE  ChildIn(tree, d, name) \in Seq(Pieces)
<1>1. Missing \in Seq(Pieces)
  BY TreeAssumption DEF Missing
<1>2. Append(d, name) \in Seq(Pieces)
  OBVIOUS
<1>3. d # <<>> => Front(d) \in Seq(Pieces)
  BY DEF Front
<1> QED BY <1>1, <1>2, <1>3, Zenon DEF ChildIn

(* Every walk visits a directory after each piece. *)
LEMMA WalkVisits ==
  ASSUME NEW tree, NEW d \in Seq(Pieces), NEW text \in Seq(Pieces)
  PROVE  \E h \in [0..Len(text) -> Seq(Pieces)] : Visits(tree, d, text, h)
<1> DEFINE n == Len(text)
           S == Seq(Pieces)
           F == [p \in (1..n) \X S |-> ChildIn(tree, p[2], text[p[1]])]
<1>1. n \in Nat /\ \A i \in 1..n : text[i] \in Pieces
  OBVIOUS
<1>2. \A i \in 1..n, v \in S : F[<<i, v>>] = ChildIn(tree, v, text[i])
  OBVIOUS
<1>3. \A i \in 1..n, v \in S : F[<<i, v>>] \in S
  BY <1>1, <1>2, ChildIsPath
<1>0. d \in S /\ DOMAIN F = (1..n) \X S
  OBVIOUS
<1> HIDE DEF n, S, F
<1>a. PICK h : IsHistory(S, d, n, F, h)
  BY <1>0, <1>1, <1>3, History
<1>4. h \in [0..n -> S] /\ h[0] = d /\ \A i \in 1..n : h[i] = F[<<i, h[i - 1]>>]
  BY <1>a DEF IsHistory
<1>5. \A i \in 1..n : i - 1 \in 0..n /\ h[i] = ChildIn(tree, h[i - 1], text[i])
  <2> SUFFICES ASSUME NEW i \in 1..n
               PROVE  i - 1 \in 0..n /\ h[i] = ChildIn(tree, h[i - 1], text[i])
    OBVIOUS
  <2>1. i - 1 \in 0..n
    BY <1>1
  <2>2. h[i - 1] \in S
    BY <2>1, <1>4
  <2> QED BY <2>1, <2>2, <1>2, <1>4
<1>6. h = [i \in 0..n |-> h[i]]
  BY <1>4
<1>7. \A i \in 0..n : h[i] = IF i = 0 THEN d ELSE ChildIn(tree, h[i - 1], text[i])
  BY <1>1, <1>4, <1>5
<1>8. h = [i \in 0..n |-> IF i = 0 THEN d ELSE ChildIn(tree, h[i - 1], text[i])]
  BY <1>6, <1>7
<1> QED BY <1>4, <1>8 DEF Visits, n, S

(* And there is one way to walk it. *)
LEMMA WalkEnds ==
  ASSUME NEW tree, NEW d, NEW text, Len(text) \in Nat, NEW h, Visits(tree, d, text, h)
  PROVE  WalkIn(tree, d, text) = h[Len(text)]
<1> DEFINE n == Len(text)
           g == CHOOSE v : Visits(tree, d, text, v)
<1>1. Visits(tree, d, text, g)
  BY Zenon
<1>2. WalkIn(tree, d, text) = g[n]
  BY DEF WalkIn, Visits
<1> HIDE DEF g, n
<1>3. n \in Nat
  BY DEF n
<1>4. g[0] = d /\ h[0] = d
  BY <1>1, <1>3 DEF Visits, n
<1>5. \A i \in 1..n : /\ g[i] = ChildIn(tree, g[i - 1], text[i])
                      /\ h[i] = ChildIn(tree, h[i - 1], text[i])
  <2> SUFFICES ASSUME NEW i \in 1..n
               PROVE  /\ g[i] = ChildIn(tree, g[i - 1], text[i])
                      /\ h[i] = ChildIn(tree, h[i - 1], text[i])
    OBVIOUS
  <2>1. i \in 0..n /\ i # 0
    BY <1>3
  <2>2. \A v : Visits(tree, d, text, v) => v[i] = ChildIn(tree, v[i - 1], text[i])
    <3> SUFFICES ASSUME NEW v, v = [k \in 0..n |-> IF k = 0 THEN d ELSE ChildIn(tree, v[k - 1], text[k])]
                 PROVE  v[i] = ChildIn(tree, v[i - 1], text[i])
      BY DEF Visits, n
    <3> QED BY <2>1
  <2> QED BY <1>1, <2>2
<1>6. \A i \in 0..n : i \in {k \in 0..n : g[k] = h[k]}
  <2>1. 0 \in {k \in 0..n : g[k] = h[k]}
    BY <1>3, <1>4
  <2>2. \A i \in 1..n : i - 1 \in {k \in 0..n : g[k] = h[k]} => i \in {k \in 0..n : g[k] = h[k]}
    BY <1>3, <1>5
  <2> QED BY <1>3, <2>1, <2>2, EveryTurn
<1> QED BY <1>2, <1>3, <1>6 DEF n

(* Two walks, one after the other, are the walk of both paths. *)
LEMMA WalkOn ==
  ASSUME NEW tree, NEW d \in Seq(Pieces), NEW s \in Seq(Pieces), NEW t \in Seq(Pieces)
  PROVE  WalkIn(tree, d, s \o t) = WalkIn(tree, WalkIn(tree, d, s), t)
<1>1. PICK h \in [0..Len(s) -> Seq(Pieces)] : Visits(tree, d, s, h)
  BY WalkVisits
<1> DEFINE e == h[Len(s)]
<1>2. Len(s) \in Nat /\ Len(t) \in Nat /\ e \in Seq(Pieces)
  BY <1>1
<1> HIDE DEF e
<1>3. PICK g \in [0..Len(t) -> Seq(Pieces)] : Visits(tree, e, t, g)
  BY <1>2, WalkVisits
<1>4. WalkIn(tree, d, s) = e /\ WalkIn(tree, e, t) = g[Len(t)]
  BY <1>1, <1>2, <1>3, WalkEnds DEF e
<1> DEFINE m == Len(s)
           n == Len(t)
           u == s \o t
           b == [i \in 0..Len(u) |-> IF i <= m THEN h[i] ELSE g[i - m]]
<1>5. /\ u \in Seq(Pieces) /\ Len(u) = m + n
      /\ \A i \in 1..m : u[i] = s[i]
      /\ \A i \in 1..n : u[m + i] = t[i]
  OBVIOUS
<1>6. h[0] = d /\ g[0] = e /\ h[m] = e
  BY <1>1, <1>2, <1>3 DEF Visits, e
<1>7. \A i \in 1..m : h[i] = ChildIn(tree, h[i - 1], u[i])
  <2>1. \A i \in 1..m : i \in 0..m /\ i # 0
    BY <1>2
  <2>2. \A i \in 1..m : h[i] = ChildIn(tree, h[i - 1], s[i])
    BY <1>1, <2>1 DEF Visits
  <2> QED BY <2>2, <1>5
<1>8. \A i \in 1..n : g[i] = ChildIn(tree, g[i - 1], u[m + i])
  <2>1. \A i \in 1..n : i \in 0..n /\ i # 0
    BY <1>2
  <2>2. \A i \in 1..n : g[i] = ChildIn(tree, g[i - 1], t[i])
    BY <1>3, <2>1 DEF Visits
  <2> QED BY <2>2, <1>5
<1>9. m \in Nat /\ n \in Nat /\ Len(u) = m + n
  BY <1>2, <1>5
<1> HIDE DEF m, n, u
<1>10. \A i \in 0..Len(u) : b[i] = IF i = 0 THEN d ELSE ChildIn(tree, b[i - 1], u[i])
  <2> SUFFICES ASSUME NEW i \in 0..Len(u)
               PROVE  b[i] = IF i = 0 THEN d ELSE ChildIn(tree, b[i - 1], u[i])
    OBVIOUS
  <2>1. \A k \in 0..Len(u) : b[k] = IF k <= m THEN h[k] ELSE g[k - m]
    OBVIOUS
  <2> HIDE DEF b
  <2>2. CASE i = 0
    BY <2>1, <2>2, <1>6, <1>9
  <2>3. CASE i \in 1..m
    <3>1. i - 1 \in 0..Len(u) /\ i - 1 <= m /\ i <= m /\ i # 0
      BY <2>3, <1>9
    <3> QED BY <3>1, <2>1, <2>3, <1>7
  <2>4. CASE i = m + 1
    <3>1. i - 1 \in 0..Len(u) /\ i - 1 = m /\ ~(i <= m) /\ i # 0 /\ i - m = 1 /\ 1 \in 1..n /\ m + 1 = i
      BY <2>4, <1>9
    <3>2. b[i] = g[1] /\ b[i - 1] = h[m]
      BY <3>1, <2>1, <1>9
    <3>3. g[1] = ChildIn(tree, g[1 - 1], u[m + 1])
      BY <3>1, <1>8
    <3>4. g[1 - 1] = e
      BY <1>6
    <3> QED BY <3>1, <3>2, <3>3, <3>4, <1>6
  <2>5. CASE i \in (m + 2)..Len(u)
    <3>1. /\ i - 1 \in 0..Len(u) /\ ~(i - 1 <= m) /\ ~(i <= m) /\ i # 0 /\ i - m \in 1..n
          /\ (i - m) - 1 = (i - 1) - m /\ m + (i - m) = i
      BY <2>5, <1>9
    <3>2. b[i] = g[i - m] /\ b[i - 1] = g[(i - 1) - m]
      BY <3>1, <2>1
    <3>3. g[i - m] = ChildIn(tree, g[(i - m) - 1], u[m + (i - m)])
      BY <3>1, <1>8, SMTT(30)
    <3> QED BY <3>1, <3>2, <3>3
  <2> QED BY <2>2, <2>3, <2>4, <2>5, <1>9
<1>11. Visits(tree, d, u, b)
  <2>1. b = [i \in 0..Len(u) |-> b[i]]
    OBVIOUS
  <2> HIDE DEF b
  <2> QED BY <2>1, <1>10 DEF Visits
<1>12. WalkIn(tree, d, u) = b[Len(u)]
  <2>1. Len(u) \in Nat
    BY <1>9
  <2> HIDE DEF b
  <2> QED BY <2>1, <1>11, WalkEnds
<1>13. b[Len(u)] = g[n]
  <2>1. Len(u) \in 0..Len(u) /\ (Len(u) <= m <=> n = 0) /\ Len(u) - m = n /\ (n = 0 => Len(u) = m)
    BY <1>9
  <2> QED BY <2>1, <1>6
<1> QED BY <1>4, <1>12, <1>13 DEF n, u

Keeps(tree, more) == \A p \in DOMAIN tree : p \in DOMAIN more /\ (tree[p].dir => more[p].dir)

(* A path that leads somewhere leads there for as long as nothing is removed. *)
LEMMA WalkKept ==
  ASSUME NEW tree, NEW more, Keeps(tree, more), Missing \notin DOMAIN tree,
         NEW d \in Seq(Pieces), NEW text \in Seq(Pieces), WalkIn(tree, d, text) \in DOMAIN tree
  PROVE  WalkIn(more, d, text) = WalkIn(tree, d, text)
<1> DEFINE n == Len(text)
<1>1. PICK h \in [0..n -> Seq(Pieces)] : Visits(tree, d, text, h)
  BY WalkVisits
<1>2. n \in Nat /\ WalkIn(tree, d, text) = h[n]
  BY <1>1, WalkEnds
<1> HIDE DEF n
<1>3. h[0] = d /\ \A i \in 1..n : h[i] = ChildIn(tree, h[i - 1], text[i])
  <2>1. 0 \in 0..n /\ \A i \in 1..n : i \in 0..n /\ i # 0
    BY <1>2
  <2> QED BY <1>1, <2>1 DEF Visits, n
<1>4. \A i \in 0..n : h[n - i] \in DOMAIN tree
  <2> DEFINE K == {i \in 0..n : h[n - i] \in DOMAIN tree}
  <2>1. 0 \in K
    BY <1>2
  <2>2. ASSUME NEW i \in 1..n, i - 1 \in K PROVE i \in K
    <3>1. /\ n - (i - 1) \in 1..n /\ (n - (i - 1)) - 1 = n - i /\ i \in 0..n
          /\ h[n - (i - 1)] \in DOMAIN tree
      BY <2>2, <1>2
    <3>2. ChildIn(tree, h[n - i], text[n - (i - 1)]) \in DOMAIN tree
      BY <3>1, <1>3
    <3>3. h[n - i] \in DOMAIN tree
      BY <3>2 DEF ChildIn
    <3> QED BY <3>1, <3>3
  <2>3. \A i \in 0..n : i \in K
    <3> HIDE DEF K
    <3> QED BY <1>2, <2>1, <2>2, EveryTurn
  <2> QED BY <2>3
<1>5. \A i \in 0..n : h[i] \in DOMAIN tree
  <2> SUFFICES ASSUME NEW i \in 0..n PROVE h[i] \in DOMAIN tree
    OBVIOUS
  <2>1. n - i \in 0..n /\ n - (n - i) = i
    BY <1>2
  <2> QED BY <2>1, <1>4, SMTT(30)
<1>6. ASSUME NEW i \in 1..n PROVE h[i] = ChildIn(more, h[i - 1], text[i])
  <2>1. i \in 0..n
    BY <1>2
  <2>2. h[i] = ChildIn(tree, h[i - 1], text[i]) /\ h[i] # Missing
    BY <2>1, <1>3, <1>5
  <2>3. h[i - 1] \in DOMAIN tree /\ tree[h[i - 1]].dir
    BY <2>2 DEF ChildIn
  <2>4. h[i - 1] \in DOMAIN more /\ more[h[i - 1]].dir
    BY <2>3 DEF Keeps
  <2>5. CASE text[i] \in {".", ".."}
    BY <2>2, <2>3, <2>4, <2>5, Zenon DEF ChildIn
  <2>6. CASE text[i] \notin {".", ".."}
    <3>1. h[i] = Append(h[i - 1], text[i]) /\ h[i] \in DOMAIN tree
      BY <2>1, <2>2, <2>3, <2>6, <1>5, Zenon DEF ChildIn
    <3>2. Append(h[i - 1], text[i]) \in DOMAIN more
      BY <3>1 DEF Keeps
    <3> QED BY <3>1, <3>2, <2>4, <2>6, Zenon DEF ChildIn
  <2> QED BY <2>5, <2>6
<1>7. Visits(more, d, text, h)
  <2>1. h = [i \in 0..n |-> h[i]]
    BY <1>1
  <2>2. \A i \in 0..n : h[i] = IF i = 0 THEN d ELSE ChildIn(more, h[i - 1], text[i])
    <3>1. \A i \in 0..n : i = 0 \/ i \in 1..n
      BY <1>2
    <3> QED BY <3>1, <1>3, <1>6, Zenon
  <2>3. h = [i \in 0..n |-> IF i = 0 THEN d ELSE ChildIn(more, h[i - 1], text[i])]
    BY <2>1, <2>2
  <2> QED BY <2>3 DEF Visits, n
<1> QED BY <1>2, <1>7, WalkEnds DEF n

-----------------------------------------------------------------------------
(* The commands. *)

SoundTree(tree) ==
  /\ <<>> \in DOMAIN tree /\ tree[<<>>].dir /\ Missing \notin DOMAIN tree
  /\ \A p \in DOMAIN tree : p \in Seq(Pieces) /\ tree[p].data \in Seq(Pieces)

Opens(tree, text) == /\ text \in Seq(Pieces) /\ text # <<>>
                     /\ WalkIn(tree, <<>>, text) \in DOMAIN tree
                     /\ tree[WalkIn(tree, <<>>, text)].dir

(* The tree is sound, and the working directory leads to a directory of it. *)
ShellInv == /\ SoundTree(fs)
            /\ working_dir = None \/ \E v : working_dir = Some(v) /\ Opens(fs, v)

(* An Option holds a value or none. *)
LEMMA SomeIs ==
  /\ None.some = FALSE
  /\ \A x : Some(x).some = TRUE /\ Some(x).value = x /\ Some(x) # None
BY DEF Some, None

(* What workdir() returns is a directory. *)
LEMMA WorkdirIs ==
  ASSUME ShellInv
  PROVE  /\ workdir.some = TRUE
         /\ workdir.value \in Seq(Pieces) /\ IsDir(workdir.value)
         /\ working_dir = None => workdir.value = <<>>
         /\ \A v : working_dir = Some(v) => workdir.value = WalkIn(fs, <<>>, v)
<1>1. SoundTree(fs)
  BY DEF ShellInv
<1>2. CASE working_dir = None
  <2>1. workdir = Some(<<>>)
    BY <1>2, SomeIs DEF workdir
  <2>2. IsDir(<<>>) /\ <<>> \in Seq(Pieces)
    BY <1>1 DEF SoundTree, IsDir
  <2> QED BY <1>2, <2>1, <2>2, SomeIs
<1>3. ASSUME NEW v, working_dir = Some(v), Opens(fs, v)
      PROVE  /\ workdir.some = TRUE /\ working_dir # None
             /\ workdir.value \in Seq(Pieces) /\ IsDir(workdir.value)
             /\ workdir.value = WalkIn(fs, <<>>, v)
  <2>1. workdir = open_dir(<<>>, v)
    BY <1>3, SomeIs DEF workdir
  <2>2. v # <<>> /\ IsDir(WalkIn(fs, <<>>, v))
    BY <1>3 DEF Opens, IsDir
  <2>3. workdir = Some(WalkIn(fs, <<>>, v))
    BY <2>1, <2>2, WalkIsWalkIn DEF open_dir
  <2>4. WalkIn(fs, <<>>, v) \in Seq(Pieces)
    BY <2>2, <1>1 DEF IsDir, SoundTree
  <2> QED BY <1>3, <2>2, <2>3, <2>4, SomeIs
<1>4. \A u, v : Some(u) = Some(v) => u = v
  BY SomeIs
<1> QED BY <1>2, <1>3, <1>4 DEF ShellInv

(* A command has the texts of its line. *)
LEMMA CommandIs ==
  ASSUME NEW toks \in Lines, from(toks) \notin {Empty, Failed}
  PROVE  /\ from(toks).cmd \in OnePath => from(toks).path \in Seq(Pieces)
         /\ from(toks).cmd = "Put" => from(toks).path \in Seq(Pieces) /\ from(toks).text \in Seq(Pieces)
<1> DEFINE arg == path_arg(toks, 2)
           text == path_arg(toks, 3)
           kind == toks[1].kind
           c == from(toks)
<1>1. \A n \in 2..3 : path_arg(toks, n).some => path_arg(toks, n).value \in Seq(Pieces)
  <2> SUFFICES ASSUME NEW n \in 2..3, path_arg(toks, n).some
               PROVE  path_arg(toks, n).value \in Seq(Pieces)
    OBVIOUS
  <2>1. n <= Len(toks) /\ toks[n].kind \in HasText
    BY SomeIs DEF path_arg
  <2>2. path_arg(toks, n) = Some(toks[n].text)
    BY <2>1 DEF path_arg
  <2>3. n \in 2..Len(toks)
    BY <2>1, LinesAssumption
  <2>4. toks[n].text \in Seq(Pieces)
    BY <2>1, <2>3, LinesAssumption DEF HasText
  <2> QED BY <2>2, <2>4, SomeIs
<1>2. \/ c = [cmd |-> "Ls", directory |-> arg]
      \/ c = [cmd |-> kind, path |-> arg.value] /\ arg.some /\ kind \in OnePath
      \/ c = [cmd |-> "Put", path |-> arg.value, text |-> text.value] /\ arg.some /\ text.some
      \/ c = [cmd |-> "Exit"]
  <2>1. toks # <<>>
    BY DEF from
  <2>2. c # Failed
    OBVIOUS
  <2> QED BY <2>1, <2>2 DEF from
<1> HIDE DEF c, kind, arg, text
<1>3. arg.some => arg.value \in Seq(Pieces)
  BY <1>1 DEF arg
<1>4. text.some => text.value \in Seq(Pieces)
  BY <1>1 DEF text
<1>5. /\ c.cmd \in OnePath => c.path \in Seq(Pieces)
      /\ c.cmd = "Put" => c.path \in Seq(Pieces) /\ c.text \in Seq(Pieces)
  BY <1>2, <1>3, <1>4 DEF OnePath
<1> QED BY <1>5 DEF c

(* A new entry has a name, which is not '?'. *)
LEMMA NewPathIs ==
  ASSUME ShellInv, NEW d, NEW text \in Seq(Pieces), NewPath(d, text).some
  PROVE  /\ NewPath(d, text).value \in Seq(Pieces)
         /\ NewPath(d, text).value # Missing /\ NewPath(d, text).value # <<>>
<1> DEFINE parent == Walk(d, Front(text))
           x == Last(text)
<1>1. text # <<>> /\ x \notin {".", "..", "?"} /\ IsDir(parent) /\ NewPath(d, text) = Some(Append(parent, x))
  BY SomeIs DEF NewPath
<1>2. parent \in Seq(Pieces)
  BY <1>1 DEF IsDir, ShellInv, SoundTree
<1>3. x \in Pieces
  BY <1>1 DEF Last
<1> HIDE DEF parent, x
<1>4. Append(parent, x) \in Seq(Pieces) /\ Len(Append(parent, x)) \in Nat /\ Len(Append(parent, x)) > 0
  BY <1>2, <1>3
<1>5. Append(parent, x)[Len(Append(parent, x))] = x
  BY <1>2, <1>3
<1>6. Len(Missing) = 1 /\ Missing[1] = "?"
  BY DEF Missing
<1>7. Append(parent, x) # Missing
  BY <1>1, <1>5, <1>6
<1>8. NewPath(d, text).value = Append(parent, x) /\ Append(parent, x) # <<>>
  <2>1. NewPath(d, text).value = Append(parent, x)
    BY <1>1, SomeIs DEF parent, x
  <2>2. ASSUME NEW s, Len(s) > 0 PROVE s # <<>>
    <3>1. Len(<<>>) = 0
      OBVIOUS
    <3> QED BY <2>2, <3>1
  <2> QED BY <2>1, <2>2, <1>4
<1> QED BY <1>4, <1>7, <1>8

(* One entry more, or another content of a file. *)
LEMMA EntryPut ==
  ASSUME SoundTree(fs), NEW p \in Seq(Pieces), p # Missing, p # <<>>, ~IsDir(p),
         NEW e, e.data \in Seq(Pieces)
  PROVE  SoundTree(With(p, e)) /\ Keeps(fs, With(p, e))
<1> DEFINE tree == With(p, e)
<1>1. /\ DOMAIN tree = {p} \cup DOMAIN fs
      /\ tree[p] = e /\ \A q \in DOMAIN fs : q # p => tree[q] = fs[q]
  BY DEF With
<1> HIDE DEF tree
<1>2. SoundTree(tree) /\ Keeps(fs, tree)
  BY <1>1 DEF SoundTree, Keeps, IsDir
<1> QED BY <1>2 DEF tree

(* The working directory opens in a tree that has grown. *)
LEMMA StillOpens ==
  ASSUME SoundTree(fs), NEW tree, Keeps(fs, tree), NEW v, Opens(fs, v)
  PROVE  Opens(tree, v)
<1>1. v \in Seq(Pieces) /\ <<>> \in Seq(Pieces) /\ WalkIn(fs, <<>>, v) \in DOMAIN fs
  BY DEF Opens
<1>2. WalkIn(tree, <<>>, v) = WalkIn(fs, <<>>, v)
  BY <1>1, WalkKept DEF SoundTree
<1> QED BY <1>1, <1>2 DEF Opens, Keeps

(* A tree that keeps what it had leaves the working directory open. *)
LEMMA TreeChanges ==
  ASSUME ShellInv, SoundTree(fs'), Keeps(fs, fs'), UNCHANGED working_dir
  PROVE  ShellInv'
<1>1. ASSUME NEW v, Opens(fs, v) PROVE Opens(fs', v)
  BY <1>1, StillOpens DEF ShellInv
<1> QED BY <1>1 DEF ShellInv

(* cd: the text it adds leads on from where the working directory is. *)
LEMMA CdKeeps ==
  ASSUME ShellInv, NEW text \in Seq(Pieces), Cd(workdir.value, text)
  PROVE  ShellInv'
<1> DEFINE w == workdir.value
<1>1. CASE UNCHANGED working_dir
  BY <1>1 DEF Cd, ShellInv
<1>2. CASE open_dir(w, text).some
  <2>1. w \in Seq(Pieces)
    BY WorkdirIs
  <2>2. text # <<>> /\ IsDir(WalkIn(fs, w, text))
    <3>1. text # <<>> \/ ~IsDir(Missing)
      BY DEF ShellInv, SoundTree, IsDir
    <3> QED BY <1>2, <3>1, WalkIsWalkIn, SomeIs DEF open_dir
  <2>3. CASE working_dir = None
    <3>1. working_dir' = Some(text) /\ fs' = fs /\ w = <<>>
      BY <1>2, <2>3, SomeIs, WorkdirIs DEF Cd
    <3>2. Opens(fs, text)
      BY <2>2, <3>1 DEF Opens, IsDir
    <3> QED BY <3>1, <3>2 DEF ShellInv
  <2>4. ASSUME NEW v, working_dir = Some(v), Opens(fs, v) PROVE ShellInv'
    <3>1. working_dir' = Some(v \o text) /\ fs' = fs /\ w = WalkIn(fs, <<>>, v)
      BY <1>2, <2>4, SomeIs, WorkdirIs DEF Cd
    <3>2. v \in Seq(Pieces) /\ v # <<>> /\ <<>> \in Seq(Pieces)
      BY <2>4 DEF Opens
    <3>3. v \o text \in Seq(Pieces) /\ v \o text # <<>>
      BY <3>2
    <3>4. WalkIn(fs, <<>>, v \o text) = WalkIn(fs, w, text)
      <4>1. WalkIn(fs, <<>>, v \o text) = WalkIn(fs, WalkIn(fs, <<>>, v), text)
        <5> HIDE DEF w
        <5> QED BY <3>2, WalkOn
      <4> QED BY <3>1, <4>1
    <3>5. Opens(fs, v \o text)
      BY <2>2, <3>3, <3>4 DEF Opens, IsDir
    <3> QED BY <3>1, <3>5 DEF ShellInv
  <2> QED BY <2>3, <2>4 DEF ShellInv
<1>3. open_dir(w, text).some \/ UNCHANGED working_dir
  BY DEF Cd
<1> QED BY <1>1, <1>2, <1>3

(* mkdir keeps the invariant: a new directory, or nothing. *)
LEMMA MkdirKeeps ==
  ASSUME ShellInv, NEW text \in Seq(Pieces), Mkdir(workdir.value, text)
  PROVE  ShellInv'
<1> DEFINE p == NewPath(workdir.value, text)
           e == [dir |-> TRUE, data |-> <<>>]
<1>1. CASE UNCHANGED fs
  BY <1>1 DEF Mkdir, ShellInv
<1>2. CASE p.some /\ p.value \notin DOMAIN fs /\ fs' = With(p.value, e)
  <2>1. p.value \in Seq(Pieces) /\ p.value # Missing /\ p.value # <<>>
    BY <1>2, NewPathIs
  <2>2. e.data \in Seq(Pieces)
    OBVIOUS
  <2>3. ~IsDir(p.value) /\ fs' = With(p.value, e) /\ SoundTree(fs)
    BY <1>2 DEF IsDir, ShellInv
  <2> HIDE DEF p, e
  <2>4. SoundTree(fs') /\ Keeps(fs, fs')
    BY <2>1, <2>2, <2>3, EntryPut
  <2> QED BY <2>4, TreeChanges DEF Mkdir
<1> QED BY <1>1, <1>2 DEF Mkdir

(* put keeps the invariant: a file that is new or written over, or nothing. *)
LEMMA PutKeeps ==
  ASSUME ShellInv, NEW text \in Seq(Pieces), NEW content \in Seq(Pieces),
         Put(workdir.value, text, content)
  PROVE  ShellInv'
<1> DEFINE p == NewPath(workdir.value, text)
           old == IF IsFile(p.value) THEN fs[p.value].data ELSE <<>>
<1>1. CASE UNCHANGED fs
  BY <1>1 DEF Put, ShellInv
<1>2. ASSUME p.some, ~IsDir(p.value), NEW n \in 0..Len(content),
             fs' = With(p.value, [dir |-> FALSE, data |-> Written(old, content, n)])
      PROVE  ShellInv'
  <2> DEFINE e == [dir |-> FALSE, data |-> Written(old, content, n)]
  <2>1. p.value \in Seq(Pieces) /\ p.value # Missing /\ p.value # <<>>
    BY <1>2, NewPathIs
  <2>2. old \in Seq(Pieces)
    BY DEF IsFile, ShellInv, SoundTree
  <2> HIDE DEF old
  <2>3. Written(old, content, n) \in Seq(Pieces)
    <3>1. SubSeq(content, 1, n) \in Seq(Pieces)
      OBVIOUS
    <3>2. SubSeq(old, n + 1, Len(old)) \in Seq(Pieces)
      BY <2>2
    <3> QED BY <3>1, <3>2 DEF Written
  <2>4. e.data \in Seq(Pieces)
    BY <2>3
  <2>5. SoundTree(fs) /\ fs' = With(p.value, e) /\ ~IsDir(p.value)
    BY <1>2 DEF ShellInv
  <2> HIDE DEF p, e
  <2>6. SoundTree(fs') /\ Keeps(fs, fs')
    BY <2>1, <2>4, <2>5, EntryPut
  <2> QED BY <2>6, TreeChanges DEF Put
<1> QED BY <1>1, <1>2 DEF Put

(* Shell::new establishes the invariant: it starts at the root. *)
LEMMA ShellInitInv == ShellInit => ShellInv
BY TreeAssumption DEF ShellInit, ShellInv, SoundTree

(* Every line that is entered preserves it. *)
LEMMA ShellNextInv == ShellInv /\ [ShellNext]_shellVars => ShellInv'
<1> SUFFICES ASSUME ShellInv, [ShellNext]_shellVars PROVE ShellInv'
  OBVIOUS
<1>1. CASE UNCHANGED <<fs, working_dir>>
  BY <1>1 DEF ShellInv
<1>2. ASSUME NEW toks \in Lines, enter_pressed(toks) PROVE ShellInv'
  <2> DEFINE c == from(toks)
             w == workdir.value
  <2>1. CASE c \in {Empty, Failed}
    BY <1>1, <1>2, <2>1 DEF enter_pressed, Quiet
  <2>2. CASE c \notin {Empty, Failed}
    <3>1. execute_command(c) /\ workdir.some = TRUE
      BY <1>2, <2>2, WorkdirIs DEF enter_pressed
    <3>2. /\ c.cmd \in OnePath => c.path \in Seq(Pieces)
          /\ c.cmd = "Put" => c.path \in Seq(Pieces) /\ c.text \in Seq(Pieces)
      BY <2>2, CommandIs
    <3> HIDE DEF c
    <3>3. \/ UNCHANGED <<fs, working_dir>>
          \/ c.cmd = "Cd" /\ Cd(w, c.path)
          \/ c.cmd = "Mkdir" /\ Mkdir(w, c.path)
          \/ c.cmd = "Put" /\ Put(w, c.path, c.text)
      BY <3>1 DEF execute_command, Exit, Quiet, Cat, Exec
    <3>4. CASE c.cmd = "Cd" /\ Cd(w, c.path)
      BY <3>2, <3>4, CdKeeps DEF OnePath
    <3>5. CASE c.cmd = "Mkdir" /\ Mkdir(w, c.path)
      BY <3>2, <3>5, MkdirKeeps DEF OnePath
    <3>6. CASE c.cmd = "Put" /\ Put(w, c.path, c.text)
      BY <3>2, <3>6, PutKeeps
    <3> QED BY <1>1, <3>3, <3>4, <3>5, <3>6
  <2> QED BY <2>1, <2>2
<1> QED BY <1>1, <1>2 DEF ShellNext, ShellHltLoop, shellVars

(* Whatever commands were given before, the working directory opens: no workdir() of
   shell/mod.rs fails at its unwrap. *)
THEOREM WorkdirAlwaysOpens == ShellSpec => []WorkdirOpens
<1>1. ShellInv => WorkdirOpens
  BY WorkdirIs DEF WorkdirOpens
<1> QED BY <1>1, ShellInitInv, ShellNextInv, PTL DEF ShellSpec

(* What cat prints and exec runs is the file, if it is no longer than a cluster: a
   shorter read would leave the buffer of read_file as the heap gave it. *)
THEOREM FilesAreRead == ShellSpec => ReadsWholeFile
<1> DEFINE A == output' # output /\ output'.some /\ Len(output'.value.content) <= Cluster
                  => output'.value.content = fs[output'.value.path].data
<1>1. ShellInv /\ [ShellNext]_shellVars => [A]_shellVars
  <2> SUFFICES ASSUME ShellInv, ShellNext, output' # output, output'.some,
                      Len(output'.value.content) <= Cluster
               PROVE  output'.value.content = fs[output'.value.path].data
    OBVIOUS
  <2>1. PICK toks \in Lines : enter_pressed(toks)
    BY DEF ShellNext, ShellHltLoop, shellVars
  <2>2. \E text : read_file(workdir.value, text)
    BY <2>1, WorkdirIs DEF enter_pressed, execute_command, Quiet, Exit, Cd, Mkdir, Put, Cat, Exec
  <2>3. PICK text : read_file(workdir.value, text)
    BY <2>2
  <2> DEFINE p == open_file(workdir.value, text)
             data == fs[p.value].data
  <2>4. p.some /\ output' = Some([path |-> p.value, content |-> Read(data)])
    BY <2>3, SomeIs DEF read_file
  <2>5. p.value \in DOMAIN fs
    BY <2>4, SomeIs DEF open_file, IsFile
  <2>6. data \in Seq(Pieces)
    BY <2>5 DEF ShellInv, SoundTree
  <2> HIDE DEF data, p
  <2>7. output'.value.content = Read(data) /\ output'.value.path = p.value
    <3> DEFINE r == [path |-> p.value, content |-> Read(data)]
    <3>1. output'.value = r
      BY <2>4, SomeIs, Zenon
    <3>2. r.content = Read(data) /\ r.path = p.value
      BY Zenon
    <3> QED BY <3>1, <3>2, Zenon
  <2>8. Len(Read(data)) = Len(data)
    BY <2>6 DEF Read
  <2>9. Read(data) = data
    BY <2>6, <2>7, <2>8, TreeAssumption DEF Read
  <2> QED BY <2>7, <2>9 DEF data
<1> QED BY <1>1, ShellInitInv, ShellNextInv, PTL DEF ShellSpec, ReadsWholeFile

=============================================================================
