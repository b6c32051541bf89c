------------------------------ MODULE Keyboard ------------------------------
(***************************************************************************)
(* The keyboard path (kernel/src/drivers/keyboard.rs) on top of the        *)
(* executor: the interrupt handler that queues scancodes and wakes, and    *)
(* the task process_keypresses that takes them out of the queue.           *)
(*                                                                         *)
(* The task runs in the "poll" state of the executor.  Its code is cut     *)
(* before every access to the scancode queue and to WAKER, which the       *)
(* handler shares.  The n-th byte the keyboard sends is the number n, so   *)
(* that losses and reorderings show.                                       *)
(***************************************************************************)
EXTENDS Executor

CONSTANTS KeyTask,           \* the id of Task::new(process_keypresses())
          ScancodeQueueCap,  \* capacity of SCANCODE_QUEUE (100 in the code)
          MaxKeys            \* bound on the bytes the keyboard sends

ASSUME KeyTaskAssumption == KeyTask \in TaskId
ASSUME ScancodeCapAssumption == ScancodeQueueCap \in Nat \ {0}
ASSUME MaxKeysAssumption == MaxKeys \in Nat

VARIABLES
  ready,      \* SCANCODE_QUEUE is initialised
  scancodes,  \* the content of SCANCODE_QUEUE
  WAKER,      \* the task whose waker the AtomicWaker holds, or NoTask
  kpc,        \* where process_keypresses is
  hand,       \* the scancode poll_next took, until the shell has it
  typed,      \* the scancodes handed to the shell so far
  pressed     \* how many bytes the keyboard has sent

streamVars == <<ready, scancodes, WAKER>>
taskVars == <<kpc, hand, typed>>
keyboardVars == <<streamVars, taskVars, pressed>>
vars == <<executorVars, keyboardVars>>

KeyPc == {"new",       \* before ScancodeStream::new()
          "shell",     \* before Shell::new(fat_from_secondary())
          "fast",      \* poll_next, first pop
          "register",  \* poll_next, WAKER.register
          "recheck",   \* poll_next, second pop
          "take",      \* poll_next, WAKER.take
          "process",   \* the body of the while loop
          "pending"}   \* poll_next returned Pending

-----------------------------------------------------------------------------
(* process_keypresses, while the executor polls it. *)

(* From one point of the task to the next; the executor's state stays. *)
KeyStep(from, to) == /\ Polling(KeyTask)
                     /\ kpc = from /\ kpc' = to
                     /\ UNCHANGED <<executorVars, pressed>>

(* ScancodeStream::new: try_init_once.  Only this task calls it. *)
StreamNew == /\ KeyStep("new", "shell") /\ ready' = TRUE
             /\ UNCHANGED <<scancodes, WAKER, hand, typed>>

(* Shell::new(fat_from_secondary()) reads the disk while interrupts arrive. *)
ShellNew == KeyStep("shell", "fast") /\ UNCHANGED <<streamVars, hand, typed>>

(* Take the first scancode out of the queue and go on at `to`. *)
PopScancode(from, to) == /\ scancodes # <<>>
                         /\ KeyStep(from, to)
                         /\ hand' = <<Head(scancodes)>>
                         /\ scancodes' = Tail(scancodes)
                         /\ UNCHANGED <<ready, WAKER, typed>>

FastPop == PopScancode("fast", "process")

FastPopEmpty == /\ scancodes = <<>> /\ KeyStep("fast", "register")
                /\ UNCHANGED <<streamVars, hand, typed>>

(* Mutant: Pending right after the registration. *)
RegisterOnly == /\ KeyStep("register", "pending") /\ WAKER' = KeyTask
                /\ UNCHANGED <<ready, scancodes, hand, typed>>

(* WAKER.register replaces whatever waker the cell held. *)
Register == /\ KeyStep("register", "recheck") /\ WAKER' = KeyTask
            /\ UNCHANGED <<ready, scancodes, hand, typed>>

(* Mutant: the result of the second pop is not returned. *)
SecondPopPending == PopScancode("recheck", "pending")

SecondPop == PopScancode("recheck", "take")

SecondPopEmpty == /\ scancodes = <<>> /\ KeyStep("recheck", "pending")
                  /\ UNCHANGED <<streamVars, hand, typed>>

(* WAKER.take: the waker is dropped unless a handler has already called it. *)
Take == /\ KeyStep("take", "process") /\ WAKER' = NoTask
        /\ UNCHANGED <<ready, scancodes, hand, typed>>

(* keyboard.add_byte, process_keyevent and shell.key_pressed; then the next
   poll_next of the same poll. *)
Process == /\ KeyStep("process", "fast")
           /\ typed' = typed \o hand /\ hand' = <<>>
           /\ UNCHANGED streamVars

(* Shell::new panics without a disk; key_pressed does not return from the exit
   command or from a panic. *)
ShellStops == /\ Polling(KeyTask) /\ kpc \in {"shell", "process"}
              /\ FutureStops
              /\ typed' = typed \o hand /\ hand' = <<>>
              /\ UNCHANGED <<streamVars, kpc, pressed>>

(* The Pending of poll_next is the Pending of the task; the next poll starts
   at the first pop again.  The stream never ends, so the task never does. *)
KeyPending == /\ Polling(KeyTask) /\ kpc = "pending" /\ kpc' = "fast"
              /\ PollPending
              /\ UNCHANGED <<streamVars, hand, typed, pressed>>

KeyTaskStep == \/ StreamNew \/ ShellNew \/ FastPop \/ FastPopEmpty \/ Register
               \/ SecondPop \/ SecondPopEmpty \/ Take \/ Process \/ KeyPending

-----------------------------------------------------------------------------
(* keyboard_interrupt_handler: read the byte, add_scancode, end of interrupt. *)

(* WAKER.wake: take the waker out of the cell and call it. *)
Wake == \/ /\ WAKER # NoTask
           /\ WakeFromHandler(WAKER) /\ WAKER' = NoTask
        \/ /\ WAKER = NoTask
           /\ Resume /\ UNCHANGED <<task_queue, IF_, WAKER>>

(* add_scancode when the queue takes the byte. *)
AddScancode == /\ ready /\ Len(scancodes) < ScancodeQueueCap
               /\ scancodes' = Append(scancodes, pressed')
               /\ Wake

(* add_scancode when there is no queue yet, or it is full: a warning. *)
DropScancode == /\ ~ready \/ Len(scancodes) = ScancodeQueueCap
                /\ Resume
                /\ UNCHANGED <<scancodes, WAKER, task_queue, IF_>>

KeyboardInterrupt == /\ IF_ /\ pressed < MaxKeys /\ pressed' = pressed + 1
                     /\ AddScancode \/ DropScancode
                     /\ UNCHANGED <<created, tasks, waker_cache, wakers, current,
                                    ready, taskVars>>

-----------------------------------------------------------------------------
(* The other tasks: they yield by waking themselves, wait or complete. *)
OtherTaskReturns == current # KeyTask /\ (PollReady \/ PollPending)
OtherTaskWakes == current # KeyTask /\ FutureWakes(current)

KInit == /\ Init
         /\ ready = FALSE /\ scancodes = <<>> /\ WAKER = NoTask
         /\ kpc = "new" /\ hand = <<>> /\ typed = <<>> /\ pressed = 0

KNext == \/ /\ \/ \E t \in TaskId : Spawn(t)
               \/ Run \/ ExecutorStep
               \/ OtherTaskReturns \/ OtherTaskWakes
               \/ TimerInterrupt \/ HltLoop
            /\ UNCHANGED keyboardVars
         \/ KeyTaskStep \/ ShellStops
         \/ KeyboardInterrupt

(* As in Executor; shell commands and the other tasks' polls return. *)
KFairness == /\ WF_vars((Run \/ ExecutorStep) /\ UNCHANGED keyboardVars)
             /\ WF_vars(KeyTaskStep)
             /\ WF_vars(OtherTaskReturns /\ UNCHANGED keyboardVars)

KSpec == KInit /\ [][KNext]_vars /\ KFairness

-----------------------------------------------------------------------------
(* Properties. *)

KTypeOK == /\ TypeOK
           /\ ready \in BOOLEAN /\ kpc \in KeyPc
           /\ WAKER \in {NoTask, KeyTask}
           /\ pressed \in 0..MaxKeys
           /\ scancodes \in Seq(1..MaxKeys) /\ Len(scancodes) <= ScancodeQueueCap
           /\ hand \in Seq(1..MaxKeys) /\ Len(hand) <= 1
           /\ typed \in Seq(1..MaxKeys)

(* poll_next and add_scancode never strand a scancode: while one is queued, the
   task that takes it out is itself in the ready queue or being polled, wherever
   the interrupt fell in poll_next. *)
NoStrandedScancode ==
  scancodes # <<>> /\ pc # "hlt_loop" => KeyTask \in Queued \/ Polling(KeyTask)

(* "must not block or allocate": the handler drops the waker it calls, and that
   drop never frees it, since the executor's cache holds another reference.
   (Freeing it would take the heap's lock, which the interrupted code may
   hold.) *)
HandlerNeverFreesWaker == WAKER # NoTask => WAKER \in waker_cache

(* TaskWaker::wake_task expects room in the ready queue: whenever a handler may
   call the waker, there is. *)
WakeFindsRoom == IF_ /\ WAKER # NoTask => Len(task_queue) < TaskQueueCap

(* What the keyboard path promises: a lossy first-in first-out channel from the
   device to the shell. *)
Channel == INSTANCE ScancodeChannel
             WITH Cap <- ScancodeQueueCap + 1,
                  open <- ready,
                  chan <- hand \o scancodes,
                  delivered <- typed,
                  stopped <- pc = "hlt_loop"
ImplementsChannel == Channel!Spec
=============================================================================
