------------------------------ MODULE Executor ------------------------------
(***************************************************************************)
(* The kernel's cooperative executor (kernel/src/scheduling): the map of   *)
(* spawned tasks, the ready queue shared with the wakers, and the sleep    *)
(* that must not lose a wakeup.                                            *)
(*                                                                         *)
(* There is one processor.  The main flow of control is cut where an       *)
(* interrupt can fall between two accesses to state that a handler also    *)
(* uses: the ready queue and the interrupt flag.  A handler is entered     *)
(* only while the interrupt flag is set, clears it (the IDT entries are    *)
(* interrupt gates) and runs to its end, so it is one atomic action.       *)
(*                                                                         *)
(* What a future does while it is polled is the business of the future:    *)
(* here it may wake any task whose waker exists, and return either way.    *)
(* Module Keyboard puts the kernel's real task in its place.               *)
(***************************************************************************)
EXTENDS Naturals, Sequences, Functions

CONSTANTS TaskId,       \* the ids TaskId::new hands out
          NoTask,       \* no task is being polled
          TaskQueueCap  \* capacity of the ready queue (100 in the code)

ASSUME NoTaskAssumption == NoTask \notin TaskId
ASSUME CapAssumption == TaskQueueCap \in Nat \ {0}

VARIABLES
  created,      \* ids TaskId::new has returned: they are never reused
  tasks,        \* keys of Executor::tasks
  task_queue,   \* the ready queue
  waker_cache,  \* keys of Executor::waker_cache
  wakers,       \* ids whose TaskWaker was built: a clone of it may be anywhere
  pc,           \* where the main flow of control is
  current,      \* the task being polled
  IF_           \* the interrupt flag

executorVars == <<created, tasks, task_queue, waker_cache, wakers, pc, current, IF_>>

Pc == {"setup",     \* kernel_main before executor.run()
       "pop",       \* head of the loop of run_ready_tasks
       "poll",      \* inside task.poll
       "idle",      \* sleep_if_idle before interrupts::disable
       "check",     \* sleep_if_idle after it
       "halted",    \* the processor executes hlt with the flag set
       "hlt_loop"}  \* a panic or the exit command: never left

Queued == Range(task_queue)
Polling(t) == pc = "poll" /\ current = t

-----------------------------------------------------------------------------
(* The ready queue: an ArrayQueue, whose push fails when it is full. *)

PushTask(t) == Len(task_queue) < TaskQueueCap /\ task_queue' = Append(task_queue, t)
TaskQueueFull == Len(task_queue) = TaskQueueCap /\ UNCHANGED task_queue

(* A panic prints a message and enters hlt_loop; the interrupt flag stays as it
   was, so a panic in a handler leaves the machine deaf. *)
Panic == pc' = "hlt_loop"

(* TaskWaker::wake_task from code that runs in the main flow. *)
WakeFromMain(t) == (PushTask(t) /\ UNCHANGED pc) \/ (TaskQueueFull /\ Panic)

(* The return from a handler resumes the interrupted flow, after the hlt if the
   processor was halted; in hlt_loop the next hlt follows. *)
Resume == pc' = IF pc = "halted" THEN "pop" ELSE pc

(* TaskWaker::wake_task from a handler, and the handler's return. *)
WakeFromHandler(t) == \/ PushTask(t) /\ Resume /\ UNCHANGED IF_
                      \/ TaskQueueFull /\ Panic /\ IF_' = FALSE

-----------------------------------------------------------------------------
(* Executor::new, with the interrupts that yacuri::init enabled. *)
Init == /\ created = {} /\ tasks = {} /\ waker_cache = {} /\ wakers = {}
        /\ task_queue = <<>>
        /\ pc = "setup" /\ current = NoTask /\ IF_ = TRUE

(* Executor::spawn(Task::new(future)): the id is fresh, so the insertion never
   finds it taken. *)
Spawn(t) == /\ pc = "setup" /\ t \notin created
            /\ created' = created \cup {t}
            /\ tasks' = tasks \cup {t}
            /\ WakeFromMain(t)
            /\ UNCHANGED <<waker_cache, wakers, current, IF_>>

(* Executor::run never returns, and nothing spawns once it is called. *)
Run == /\ pc = "setup" /\ pc' = "pop"
       /\ UNCHANGED <<created, tasks, task_queue, waker_cache, wakers, current, IF_>>

(* run_ready_tasks: the popped id belongs to a task that is gone. *)
PopStale == /\ pc = "pop" /\ task_queue # <<>> /\ Head(task_queue) \notin tasks
            /\ task_queue' = Tail(task_queue)
            /\ UNCHANGED <<created, tasks, waker_cache, wakers, pc, current, IF_>>

(* Mutants: the id is not looked up; the waker is not cached. *)
PopTaskUnchecked == /\ pc = "pop" /\ task_queue # <<>>
                    /\ current' = Head(task_queue)
                    /\ waker_cache' = waker_cache \cup {Head(task_queue)}
                    /\ wakers' = wakers \cup {Head(task_queue)}
                    /\ task_queue' = Tail(task_queue)
                    /\ pc' = "poll"
                    /\ UNCHANGED <<created, tasks, IF_>>
PopTaskUncached == /\ pc = "pop" /\ task_queue # <<>> /\ Head(task_queue) \in tasks
                   /\ current' = Head(task_queue)
                   /\ wakers' = wakers \cup {Head(task_queue)}
                   /\ task_queue' = Tail(task_queue)
                   /\ pc' = "poll"
                   /\ UNCHANGED <<created, tasks, waker_cache, IF_>>

(* run_ready_tasks: the popped task gets its cached waker, made on first use,
   and is polled. *)
PopTask == /\ pc = "pop" /\ task_queue # <<>> /\ Head(task_queue) \in tasks
           /\ LET t == Head(task_queue) IN
              /\ current' = t
              /\ waker_cache' = waker_cache \cup {t}
              /\ wakers' = wakers \cup {t}
           /\ task_queue' = Tail(task_queue)
           /\ pc' = "poll"
           /\ UNCHANGED <<created, tasks, IF_>>

(* run_ready_tasks: the queue is empty, so it returns. *)
PopNothing == /\ pc = "pop" /\ task_queue = <<>> /\ pc' = "idle"
              /\ UNCHANGED <<created, tasks, task_queue, waker_cache, wakers, current, IF_>>

(* Mutant: the waker stays in the cache. *)
PollReadyKeepsWaker == /\ pc = "poll" /\ pc' = "pop" /\ current' = NoTask
                       /\ tasks' = tasks \ {current}
                       /\ UNCHANGED <<created, task_queue, waker_cache, wakers, IF_>>

(* run_ready_tasks: what follows the return of task.poll. *)
PollReady == /\ pc = "poll" /\ pc' = "pop" /\ current' = NoTask
             /\ tasks' = tasks \ {current}
             /\ waker_cache' = waker_cache \ {current}
             /\ UNCHANGED <<created, task_queue, wakers, IF_>>

PollPending == /\ pc = "poll" /\ pc' = "pop" /\ current' = NoTask
               /\ UNCHANGED <<created, tasks, task_queue, waker_cache, wakers, IF_>>

(* sleep_if_idle: interrupts::disable(). *)
DisableInterrupts ==
  /\ pc = "idle" /\ pc' = "check" /\ IF_' = FALSE
  /\ UNCHANGED <<created, tasks, task_queue, waker_cache, wakers, current>>

(* Mutant: the queue is not looked at again. *)
SleepUnchecked == /\ pc = "check" /\ pc' = "halted" /\ IF_' = TRUE
                  /\ UNCHANGED <<created, tasks, task_queue, waker_cache, wakers, current>>

(* sleep_if_idle: enable_and_hlt is `sti; hlt`.  The processor recognises no
   interrupt between the two, so the flag rises in the halted state. *)
Sleep == /\ pc = "check" /\ task_queue = <<>>
         /\ pc' = "halted" /\ IF_' = TRUE
         /\ UNCHANGED <<created, tasks, task_queue, waker_cache, wakers, current>>

(* Mutant: interrupts are not enabled again. *)
StayAwakeDeaf == /\ pc = "check" /\ task_queue # <<>> /\ pc' = "pop"
                 /\ UNCHANGED <<created, tasks, task_queue, waker_cache, wakers, current, IF_>>

(* sleep_if_idle: a wake came since the queue was seen empty. *)
StayAwake == /\ pc = "check" /\ task_queue # <<>>
             /\ pc' = "pop" /\ IF_' = TRUE
             /\ UNCHANGED <<created, tasks, task_queue, waker_cache, wakers, current>>

(* hlt_loop: every interrupt is followed by the next hlt. *)
HltLoop == pc = "hlt_loop" /\ UNCHANGED executorVars

(* The timer handler only acknowledges the interrupt; it ends a hlt. *)
TimerInterrupt ==
  /\ IF_ /\ pc = "halted" /\ Resume
  /\ UNCHANGED <<created, tasks, task_queue, waker_cache, wakers, current, IF_>>

-----------------------------------------------------------------------------
(* What the futures and the devices may do with the wakers. *)

(* The polled future wakes a task: itself, to yield, or another one. *)
FutureWakes(t) == /\ pc = "poll" /\ t \in wakers
                  /\ WakeFromMain(t)
                  /\ UNCHANGED <<created, tasks, waker_cache, wakers, current, IF_>>

(* The polled future panics, or stops the kernel with the exit command. *)
FutureStops == /\ pc = "poll" /\ Panic
               /\ UNCHANGED <<created, tasks, task_queue, waker_cache, wakers, current, IF_>>

(* A device's handler wakes the task that waits for it. *)
DeviceWakes(t) == /\ IF_ /\ t \in wakers
                  /\ WakeFromHandler(t)
                  /\ UNCHANGED <<created, tasks, waker_cache, wakers, current>>

(* The steps of the main flow that belong to the executor: the processor never
   stops executing them. *)
ExecutorStep == \/ PopStale \/ PopTask \/ PopNothing
                \/ DisableInterrupts \/ Sleep \/ StayAwake

Next == \/ \E t \in TaskId : Spawn(t)
        \/ Run
        \/ ExecutorStep
        \/ PollReady \/ PollPending \/ FutureStops
        \/ \E t \in TaskId : FutureWakes(t)
        \/ \E t \in TaskId : DeviceWakes(t)
        \/ TimerInterrupt
        \/ HltLoop

(* The processor keeps executing the main flow, and a future that is polled
   returns.  Nothing is assumed of the interrupts, the timer included. *)
Fairness == /\ WF_executorVars(Run)
            /\ WF_executorVars(ExecutorStep)
            /\ WF_executorVars(PollReady \/ PollPending)

Spec == Init /\ [][Next]_executorVars /\ Fairness

-----------------------------------------------------------------------------
(* Properties. *)

TypeOK == /\ created \in SUBSET TaskId /\ tasks \in SUBSET created
          /\ wakers \in SUBSET created /\ waker_cache \in SUBSET created
          /\ task_queue \in Seq(TaskId) /\ Len(task_queue) <= TaskQueueCap
          /\ pc \in Pc
          /\ current \in TaskId \cup {NoTask}
          /\ IF_ \in BOOLEAN

(* sleep_if_idle never halts the processor over a task that is ready to run,
   whatever interrupt falls between its test of the queue and the hlt. *)
HaltedOnlyWhenIdle == pc = "halted" => task_queue = <<>> /\ IF_

(* run_ready_tasks keeps a waker exactly as long as the task it wakes: no entry
   of waker_cache outlives its task (a leak) and a task that has been polled
   keeps its one waker until it completes. *)
WakerCacheFollowsTasks == waker_cache = wakers \cap tasks

(* Interrupts are disabled only inside sleep_if_idle, or for ever by a panic in
   a handler. *)
InterruptsDisabledOnlyToSleep == ~IF_ => pc \in {"check", "hlt_loop"}

(* A task that returned Poll::Ready is never polled again, however often its
   waker is still called ("task no longer exists"). *)
CompletedNeverPolled ==
  [][\A t \in TaskId : t \in created \ tasks =>
       ~Polling(t)' /\ t \notin tasks']_executorVars

(* A task whose waker was called while it is alive is polled after a finite
   time, without the help of the timer, unless the kernel stopped. *)
WokenIsPolled ==
  \A t \in TaskId : (t \in Queued /\ t \in tasks)
                      ~> (Polling(t) \/ pc = "hlt_loop")
=============================================================================
