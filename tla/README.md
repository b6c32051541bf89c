# A verification of yacuri

yacuri is a hobby kernel for x86-64 (`src/kernel`) with a just-in-time compiled
language, yacari (`src/lang`).  This directory holds TLA+ modules that model its
parts, TLC configurations that check them on small instances, and TLAPS proofs of
the properties that hold for every instance.

## The system and its parts

| Part | Source | Module | State |
|---|---|---|---|
| executor, tasks, wakers | `kernel/src/scheduling/` | `Executor`, `ConsoleProofs` | modelled, proved |
| keyboard driver | `kernel/src/drivers/keyboard.rs` | `Keyboard`, `ScancodeChannel`, `ConsoleProofs` | modelled, proved |
| interrupt handlers | `kernel/src/drivers/interrupts/` | `Executor`, `Keyboard` | timer and keyboard |
| ATA PIO driver | `kernel/src/drivers/disk/ata_pio.rs` | `AtaDrive`, `ByteDisk`, `AtaDriveProofs` | modelled, proved |
| kernel entry, panic, exit | `kernel/src/main.rs`, `lib.rs` | `Executor` | the way into the executor and into `hlt_loop` |
| block allocator (the global one) | `kernel/src/allocator/fixed_size_block.rs` | `BlockAllocator`, `Heap`, `AllocatorProofs` | modelled, proved |
| bump allocator | `kernel/src/allocator/bump.rs` | `BumpAllocator`, `Heap`, `AllocatorProofs` | modelled, proved |
| frames, page mapping | `kernel/src/allocator/memory.rs`, `mod.rs` | `BootMemory`, `BootMemoryProofs` | modelled, proved |
| code heap | `kernel/src/vm/` | `BootMemory` | its mapping |
| file system access | `kernel/src/drivers/disk/mod.rs`, `fat.rs` | `ExecutePath`, `ShellCommands`, `ExecutePathProofs`, `ConsoleProofs` | the walk and reading a file, proved; FAT is external |
| shell | `kernel/src/shell/` | `LineEditor`, `LineBuffer`, `ShellCommands`, `ScreenProofs`, `ConsoleProofs` | modelled, proved |
| VGA text buffer | `kernel/src/drivers/vga_buffer.rs` | `VgaBuffer`, `ScreenProofs` | modelled, proved |
| framebuffer | `kernel/src/graphics/` | `Framebuffer`, `ScreenProofs` | modelled, proved |
| serial port | `kernel/src/drivers/serial.rs` | | left out |
| lexer | `lang/src/lexer.rs` | `Parser` | kinds of tokens, binding powers |
| parser | `lang/src/parser/` | `Parser` | modelled |
| compiler passes, IR | `lang/src/compiler/` | `ModuleCompiler`, `ModuleCompilerProofs`, `ExprCompiler` | modelled, the passes proved; string constants left out |
| JIT | `lang/src/vm/` | `FnTranslator`, `JitFunction`, `JitModule`, `LanguageProofs` | modelled but for strings and values of class type; the linking proved |
| small strings | `lang/src/smol_str.rs` | `SmolStr`, `LanguageProofs` | modelled, proved |
| entry points | `lang/src/lib.rs`, `filesystem.rs` | `ExecutePath`, `ExecutePathProofs` | modelled, proved |

How they interact: `kernel_main` initialises interrupts, graphics, the heap and the
code heap, runs a program of the language from the disk (`test_app`: file system over
ATA, parser, compiler, JIT), and enters the executor for good.  The executor polls
tasks; the keyboard task waits for scancodes that an interrupt handler queues, and
hands decoded keys to the shell, which edits a line and runs commands on the file
system.  In the repository as it stands, the line of `kernel_main` that spawns the
keyboard task is commented out (`main.rs:38`); the model has the task spawned, since
that is what the driver is written for.

There is one processor.  All concurrency is between the main flow of control and
interrupt handlers, and between the processor and the drive.

## Modules

### Executor

Variables are the fields of `Executor` (`tasks` and `waker_cache` by their keys,
`task_queue` as a sequence), the ids handed out so far (`created`), the ids for which
a `TaskWaker` was built (`wakers`: clones of it may be held anywhere, so that it may be
called at any later time), and the processor: `pc`, `current`, the interrupt flag `IF_`.

| Action | Code |
|---|---|
| `Spawn`, `Run` | `Executor::spawn(Task::new(..))`, entering `run` |
| `PopStale`, `PopTask`, `PopNothing` | the three outcomes of the pop in `run_ready_tasks` |
| `PollReady`, `PollPending` | what follows the return of `task.poll` |
| `DisableInterrupts`, `Sleep`, `StayAwake` | `sleep_if_idle` |
| `FutureWakes`, `FutureStops` | the polled future calls a waker, or panics or exits |
| `DeviceWakes`, `TimerInterrupt` | handlers |
| `HltLoop` | `hlt_loop`, after a panic or the exit command |

A step ends before each access to the ready queue or the interrupt flag, the state
that a handler shares.  A handler is atomic: the IDT entries are interrupt gates, which
clear the flag.  `sti; hlt` is one step, since the processor takes no interrupt between
the two.  A full queue makes a push panic; in a handler the flag is then off for ever.

### Keyboard, ScancodeChannel

`Keyboard` extends `Executor` with the one real task.  `process_keypresses` is cut
before each access to `SCANCODE_QUEUE` and `WAKER`; `kpc` says where it is, also while
it is not being polled.  The n-th byte from the keyboard is the number n, which makes
loss, duplication and reordering visible.  `ArrayQueue`, `OnceCell` and `AtomicWaker`
are external and atomic.  (A wake that falls into `AtomicWaker::register` makes
`register` itself call the waker, which is the same as a wake right after it.)  Other
tasks may yield, wait or complete.

`ScancodeChannel` is what the path promises: a FIFO channel that refuses bytes only when
closed or full, and delivers every accepted byte unless the kernel stops.  The mapping
takes for the channel's content the scancode in the task's hand followed by the queue.

### AtaDrive, ByteDisk

The driver's variables are `position`, the call under way (`op`), and the locals of
`read` and `write`; the drive's are its bytes, its status, its sector number, the
sectors left and its sector buffer.  The driver polls the status register, and what the
drive does in between cannot be seen: a driver step is a wait followed by everything up
to the next wait.  Bytes are opaque and stand for their origin, `<<0, address>>` on the
disk at the start and `<<operation, index>>` in the buffer of a write.

The word loops of `read` and `write` are the operators `Assigned` and `Source`, which
say for each word or byte of a sector what the `match` does with it.  Sector counts keep
their width (`CountMod`, 256 in the code), and their sum panics on overflow: the cargo
aliases of the repository make debug builds.  A count of zero asks a drive for 256
sectors.  `CacheFlush` is ignored by a drive that is still busy.

`ByteDisk` is an array of bytes with a position; a write changes a growing prefix of its
range and nothing else.  In the mapping, a sector handed to the drive counts as written.

### Heap, BlockAllocator, BumpAllocator

`Heap` is the contract of `GlobalAlloc`: a block is aligned, inside the heap and over no
block that is out.  Both allocators have the blocks that are out (`live`) beside their
own fields; callers free what they were given, with the layout they asked for.  A null
result ends in `alloc_error_handler`, which panics: `stopped`.

In `BlockAllocator` memory is counted in cells of a pointer, and the lists are where the
code has them: `list_heads` points to a block and the first cell of a free block to the
next.  The owner of a block fills it with `Data` as soon as it gets it, so that a list
that runs through a block that is out shows at once.  The fallback heap
(`linked_list_allocator`) is external: first fit, no region and no hole below two
words, so that a block of 8 bytes takes 16 of it.

`BumpAllocator` keeps the padding of `align_up` and the reset at a count of zero.

### BootMemory

`usable_frames` is the sequence that the iterator chain yields: the frames of each usable
region, one region after the other.  `MapPage(n)` is one turn
of the loop of `prepare_pages`: a frame for the page and n frames that `map_to` draws for
page tables, of which any number up to three may be missing (external).
`FrameAllocationFailed` is the same when the frames run out, after some of the tables
have got theirs.  `AreaReady` is the return of `prepare_pages` and the initialisation of
the heap on it; `Areas` lists the heap and the code heap in the order of `init_memory`.

### VgaBuffer, LineEditor, LineBuffer

`VgaBuffer` has the `Writer` as one record (cells with their colour, position, cursor
registers) and its methods as functions on it.  `log` keeps all text written, so that
the screen can be compared with what a terminal would show.  In this kernel `print!` goes
to the serial port; the text rows are written only through `fmt::Write`.

`LineEditor` extends it with the shell's line: one action per arm of `key_pressed`, each
ending in `redraw`, and text from elsewhere between two keys.  The line is a sequence of
bytes and a character its UTF-8 bytes, because the code takes the cursor, which moves by
one per key, for a byte index.  Every panic of `String::insert`, `remove` and of the
subtraction is an outcome.  `LineBuffer` is what an editor promises: the text left and
right of the cursor.  The refinement needs a way out: a key that leaves the line
(an arrow past its end or past the limit, a character of two bytes) makes the editor
`astray`, and then nothing is promised until Enter; a backspace at the start of the line
panics.

### ShellCommands, ExecutePath

`ShellCommands` has the directory tree, the working directory and one action per command
behind `Command::from`, which is modelled on tokens.  A text is the sequence of the
pieces between its slashes.  fatfs is external: a path is resolved through `.` and `..`,
which the root does not have; a read ends with the cluster; a write on a full disk stops
anywhere.

`ExecutePath` is `execute_path` over both file systems and `execute_module`: the walk as
an explicit stack, the path buffer handed to the closure, then parsing, compiling and
translating, where one bad file has one of five effects.  A directory is read in any
order.

### Framebuffer

`draw_rect` is one step per pixel and per line, with `line_offset` and `offset` as in the
code, on a buffer with padding.  Coordinates are converted by `as_usize` as in
`test_draw_rect`, so that a negative one is huge, and the sums of the assertions panic
beyond `usize`.

### SmolStr

A text is a sequence of bytes, a string one of the three variants of `Repr`; the actions
are its two constructors, the second of which panics on a text that is too long.

### Parser

A token is its kind, known by its place in the text.  Every parsing function takes a
place and returns a tree, an error or a panic with the new place; the actions are the
turns of the loop of `parse`, recovery by `synchronize` included.  Trees hold places, so
that they can be read back as text.

### ModuleCompiler, ExprCompiler, FnTranslator, JitFunction, JitModule

`ModuleCompiler` is `stage_1` for each module: four passes, one action per item.  A pass
that needs a mutable borrow of the module it iterates panics, as `RefCell` does.

`ExprCompiler` turns the tree of a function into IR, with the stack of scopes and the
vector of locals, including that references into it go stale when it moves.
`FnTranslator` turns the IR into blocks of Cranelift instructions through a model of
`FunctionBuilder` (external), which records each misuse.  `JitFunction` chains the two,
verifies and runs the result block by block, and holds a reference evaluator of trees
that knows nothing of IR or blocks.  Integers have `W` bits.

`JitModule` declares, defines and links the functions of a program, module by module.

## Runs

| Run | Instance | Shows |
|---|---|---|
| `executor` | 3 tasks, queue of 4 | `HaltedOnlyWhenIdle`; `WakerCacheFollowsTasks`; `InterruptsDisabledOnlyToSleep`; `CompletedNeverPolled`; `WokenIsPolled` |
| `keyboard` | keyboard task and one more, ready queue 4, scancode queue 2, 6 bytes | `NoStrandedScancode`; `HandlerNeverFreesWaker`; refinement of `ScancodeChannel` with its liveness |
| `keyboard_ready_queue` | queues of 3, 5 bytes | violation of `WakeFindsRoom` |
| `ata` | 3 sectors of 4 bytes, 2 calls | `SectorCountExact`; `TransfersComplete`; refinement of `ByteDisk` with its liveness |
| `ata_count_wraps` | the same with counts modulo 2, 1 call | violation of `ReadFillsBuffer` |
| `allocators` | block sizes 1, 2, 4, six layouts, 11 cells; bump: four layouts, 9 bytes from address 3 | `ListsSound`; `Conserved`; `CountsLiveBlocks`; refinement of `Heap` by both |
| `boot_memory` | 13 usable frames in 3 regions, 2 areas of 3 pages | `FramesOnce`; `FramesUnused`; `AreasMapped` |
| `console` | terminal: 3 rows of 5 columns, lines of up to 4 bytes; commands: 49 lines, trees of up to 5 entries with the root; programs: 2 paths, 5 files of 6 contents; screen of 3 by 2 with padding | `ShowsLine`; `ScreenShowsTail`; refinement of `LineBuffer`; `WorkdirOpens`; `ReadsWholeFile`; `EverySourceOnce`; `PathsNameModules`; `RunsWhole`; `Ends`; `DrawsRectangle` |
| `portrait_screen` | a screen of 2 by 3 | violation of `FillsScreen` |
| `language` | texts of up to 6 bytes; 6,843 token sequences; 14,792 programs of up to two modules for the passes and 9,354 for the linking; 18,259 functions with bodies of up to three statements | `RoundTrip`; `HeapOnlyWhenNeeded`; `SaysWhatWasRead`; `GroupsByPower`; `EveryTurnAdvances`; `TypesMeanNames`; `CompilesExactly`; `RunsAsWritten`; `BuilderIsObeyed`; `CallsArrive`; `LinksExactly` |
| `parser_error_tokens` | the texts of `language` | violation of `ErrorTokensAreErrors` |
| `type_errors` | the functions of `language` | violation of `MismatchIsAnError` |

`allocators`, `console` and `language` hold several parts that share no state.  Their
modules extend the parts' modules (`Parser` and `JitFunction`, about which nothing is
proved, are instantiated).  A variable says which part is at work in a behaviour, so that
TLC visits the sum of their states; the parts at rest do not move.  The terminal is a real composition of editor and buffer.
The type invariants of `Executor`, `Keyboard` and `BumpAllocator`, and what the executor
promises when it runs the keyboard task, are not in a run: the theorems below state them.

Bounds.  Three tasks make a task that is woken, one that wakes it and one between them
in the queue; the queue of 4 fills.  The scancode queue of 2 fills, empties and fills
again within 6 bytes, and the ready queue of 4 overflows there.  Four bytes are the
smallest sector with two words: every combination of odd and even positions, of words
that straddle either end of the buffer and of transfers over one, two and three sectors
occurs.  The second call of a behaviour sees the disk and the drive as the first left
them.  The layouts of the allocators share classes by size and by alignment, and two
exceed every class.  The heap of the blocks is so small that in nearly every running
state (3,511 of 3,524) some layout finds no room, and its odd size makes first fits that
would leave a hole too small for the fallback heap.  13 frames are enough for some page tables
and too few for others.  `MaxKeys` and `MaxOps` bound behaviours; no code corresponds to them.

The terminal's rows are filled, wrapped and scrolled by seven bytes of text (`MaxLog`) and
by lines one byte longer than their row (`MaxLine`); the limit of the cursor lies inside
the longest line.  Trees (`MaxTree`) and working directories (`MaxPath`) have room for a
directory in a directory and for a path that goes up and down again.  `MaxDepth` is one
more than the deepest tree, so that a walk that does not end is seen to overflow.  The
small strings have limits 1, 2 and 3 and texts one byte longer than the longest slice of
the white space constant.  The parser's texts have every pair and triple of operators, every sequence of up to four
brackets, commas, names and minus signs, and every one to three declarations of a set of good
and broken ones.  Function bodies combine 14 statements, three at a time, with shadowing,
assignment from inner scopes, calls, branches and loops (`Fuel` bounds their turns), and
right with wrong ones; integers of three bits overflow.  Three places for locals
(`InlineLocals`) are exceeded by some bodies.

Fairness.  The processor goes on executing (weak fairness of the executor's steps and of
the driver's), a polled future returns, and the drive carries out what it accepted.
Interrupts, the timer's included, are never assumed to come: `WokenIsPolled` says that a
wakeup does not depend on the next tick.  Keeping scheduling fair to a *shell command*
means that commands end.  `ExecutePath` runs on one thread and waits for nothing, so
its next step is weakly fair; `Ends` is the only liveness property there.

### What the violations mean

`keyboard_ready_queue`: wakes are not deduplicated.  An interrupt between
`WAKER.register` and the second pop queues the task's id while the task, already running,
takes the scancode itself and registers again.  Each such round in one poll leaves one id
behind; when the queue is full, `.expect("task_queue full")` (`waker.rs:13`) panics in
the handler.  With the real capacity this takes 100 rounds in a single poll.

`ata_count_wraps`: `(bytes / 512) as u8` wraps at 128 KiB.  An aligned read of that
length transfers nothing and returns `Ok` with the buffer untouched.

`portrait_screen`: `draw_rect` asserts `(y + h) <= buf.width` (`graphics/mod.rs:93`) where
the height is meant.  The fill at boot panics on a screen that is higher than wide; on
the screen of `console`, which is wider than high, `DrawsRectangle` holds, and a rectangle
that leaves it at the bottom, if the assertion lets it pass, is drawn as far as the buffer
goes before its index panics.

`parser_error_tokens`: `is_at_end` takes any `Error` token for the end of the text
(`parser/mod.rs:371`), so a token the lexer does not know between two declarations ends
the parse with success, and the rest of the file is ignored.

`type_errors`: `ExprCompiler::err` has an empty body (`expr_compiler.rs:180`): all errors
from E500 to E508 are built and dropped, and the function compiles.

### Limits the properties state

Several properties hold within limits that the code has today; each limit is a condition
of the property or a clause of its reference definition:

* `RunsAsWritten` is for functions with no dropped error other than E501 (which every
  comparison of numbers raises) and with parameters or locals, not both: both are
  numbered from 0 (`ir/mod.rs:79`) and share Cranelift's variables, and TLC finds wrong
  results without this condition.  Two or more parameters panic in `define_local`, in
  every function of the instance.
  A callee that is not a name is not evaluated; `and`, `or` and the comparison of
  booleans panic in the JIT.
* More locals than a `Function` holds in place leave stale references, as the comment at
  `ir/mod.rs:96` fears; the model calls such a function undefined.
* `CompilesExactly`: a class with a method, a static function or a member of class type
  panics in `generate_classes`.
* `LinksExactly`: all modules share one space of names, and an extern function needs its
  body in the same or an earlier module, or a symbol of the host.
* `GroupsByPower`: all operators group to the right, `-` and `/` as well.
* `ReadsWholeFile`: only files of one cluster are read whole; behind that the buffer keeps
  what the heap held.
* `EverySourceOnce`: `skip(2)` hides nothing in a directory other than the root, and no
  caller walks the root.
* `PathsNameModules`: the walk of a host never pops its path, so there only the first and
  the last name are right.
* `ImplementsLineBuffer`: see above for the keys that leave the line.
* `ScreenShowsTail`: a shell line longer than its row scrolls the text.

## Proofs

| Theorem | Statement |
|---|---|
| `ConsoleProofs!NeverSleepsOverReadyTask` | `Spec => []` of the executor's `TypeOK`, `HaltedOnlyWhenIdle` |
| `ConsoleProofs!WakerCacheIsKept` | `Spec => []WakerCacheFollowsTasks` |
| `ConsoleProofs!InterruptsComeBack` | `Spec => []InterruptsDisabledOnlyToSleep` |
| `ConsoleProofs!CompletedStaysCompleted` | `Spec => CompletedNeverPolled` |
| `ConsoleProofs!KeyboardRefinesExecutor` | `KSpec` takes only steps of `Executor` |
| `ConsoleProofs!NoScancodeIsStranded` | `KSpec => []` of `KTypeOK`, `NoStrandedScancode` |
| `ConsoleProofs!HandlerStaysOutOfTheHeap` | `KSpec => []HandlerNeverFreesWaker` |
| `ConsoleProofs!KeyboardImplementsChannel` | `KSpec => Channel!Safety` |
| `ConsoleProofs!WorkdirAlwaysOpens` | `ShellSpec => []WorkdirOpens` |
| `ConsoleProofs!FilesAreRead` | `ShellSpec => ReadsWholeFile` |
| `ScreenProofs!LinesAreShown` | `ESpec => []ShowsLine` |
| `ScreenProofs!TextIsShown` | `ESpec => []ScreenShowsTail` |
| `ScreenProofs!TerminalEditsLine` | `ESpec => ImplementsLineBuffer` |
| `ScreenProofs!RectanglesAreDrawn` | `DrawSpec => []DrawsRectangle`, for screens no higher than wide |
| `ExecutePathProofs!EverySourceIsReadOnce` | `PathSpec => []EverySourceOnce` |
| `ExecutePathProofs!ModulePathsAreNamed` | `PathSpec => []PathsNameModules` |
| `ExecutePathProofs!ProgramsRunWhole` | `PathSpec => []RunsWhole` |
| `AtaDriveProofs!SectorCountIsExact` | `Spec => []SectorCountExact` |
| `AtaDriveProofs!TransfersAreComplete` | `Spec /\ []ShortTransfers => []TransfersComplete` |
| `AtaDriveProofs!DriveIsByteDisk` | `Spec /\ []ShortTransfers => Disk!Safety` |
| `AllocatorProofs!BlockListsAreSound` | `BlockSpec => []ListsSound` |
| `AllocatorProofs!BlocksAreConserved` | `BlockSpec => []Conserved` |
| `AllocatorProofs!BlockAllocatorIsHeap` | `BlockSpec => BlockImplementsHeap` |
| `AllocatorProofs!BumpCounts` | `Spec => []` of the bump allocator's `TypeOK`, `CountsLiveBlocks` |
| `AllocatorProofs!BumpImplementsHeap` | `Spec => ImplementsHeap` |
| `BootMemoryProofs!FramesGivenOnce` | `Spec => []FramesOnce` |
| `BootMemoryProofs!FramesAreUnused` | `Spec => []FramesUnused`, for regions of whole pages |
| `BootMemoryProofs!AreasAreMapped` | `Spec => []AreasMapped` |
| `LanguageProofs!StringsReadBack` | `Spec => []RoundTrip` |
| `LanguageProofs!HeapIsLastResort` | `Spec => []HeapOnlyWhenNeeded` |
| `LanguageProofs!EveryCallArrives` | `JitSpec => []CallsArrive` |
| `LanguageProofs!LinkableProgramsRun` | `JitSpec => []LinksExactly` |
| `ModuleCompilerProofs!SignaturesMeanWhatTheySay` | `CompileSpec => []TypesMeanNames` |
| `ModuleCompilerProofs!AcceptsExactlyTheCompilable` | `CompileSpec => []CompilesExactly` |

`ConsoleProofs` holds the theorems about `Executor` as well, since `Keyboard` extends it
and its proofs rest on the executor's invariant.  `Prefixes` has four operators of
`SequencesExt` on their own: a proof over paths would carry along all of that module and
the bags it extends, which makes the provers several times slower.

### Assumptions

Most are an `ASSUME` of the module that declares the constants: `NoTask` is not a task id,
capacities are positive, the keyboard task has an id; the sector size is positive and even,
sector counts have a modulus above 1, the sectors of the disk have numbers a command can
hold, and `None` and `NoOp` are no sector and no call; page size, sizes and alignments are
positive; there is at least one area; the memory map is a sequence of regions of which no
two usable ones share a frame; the limits of small strings are natural numbers.  For the
parts that this list leaves open:

* `VgaBuffer!BufferAssumption`: at least two rows and two columns, and texts are bytes.
* `LineEditor!LineAssumption`: a character starts with no continuation byte, Enter types
  none, and rows, columns and line fit the 16 bits of the cursor registers.
* `ShellCommands!LinesAssumption`, `TreeAssumption`: words of a line are texts; the tree of
  the disk has its root, which is a directory.
* `ExecutePath!DiskAssumption`: a path given to `execute_path` has a last name; no file is
  above another, and no two share a path.
* `JitModule!LinkedAssumption`: a call of a function is a place in its module, which is
  what the compiler hands over.

Three are operators, a hypothesis of the theorem, which the module of a run assumes:

* `BlockAllocator!SoundConstants`: sizes and alignments are positive, and an alignment no
  larger than a block size divides it.  Both are powers of two in the code.
* `Framebuffer!SoundScreen`: a pixel has three bytes or more, a line holds its pixels, and
  lengths fit a `usize`.
* `ModuleCompiler!SoundPrograms`: a program is a vector of one module or more, and what the
  AST holds in vectors are sequences.

Four theorems have a condition on top of these, where the code needs it:

* `ShortTransfers`, for both theorems about transfers: every call touches fewer sectors
  than the modulus of the count (256 in the code).  Beyond it the driver is wrong: see
  `ata_count_wraps`.
* `PageAligned`, that the usable regions consist of whole pages, as the bootloader's do.
  Otherwise the last frame of a region lies partly outside it.
* `height <= width`, because `draw_rect` compares the lower edge of a rectangle with the
  width: see `portrait_screen`.

### The arguments

*Executor.*  The inductive invariant `Inv` adds to the four invariants that a task being
polled is still in the map.  `HaltedOnlyWhenIdle` is kept because a handler that pushes an
id also ends the hlt, and `sleep_if_idle` tests the queue with interrupts off.

*Keyboard.*  `NoStrandedScancode` is not inductive: what keeps it is where the task is.
`WakeupKept` says that outside its poll the task stands before its first pop and either
waits (its waker registered, no scancode queued) or has its id in the ready queue; that
before its second pop it is registered or queued; and that before it returns `Pending` it
waits or is queued.  `HandlerNeverFreesWaker` follows
because the task never completes, so that its cached waker is never removed.  The
refinement of the channel is one step per action: a pop moves the head from queue to
hand, which leaves the channel's content as it is, and `Process` delivers it.

*AtaDrive.*  `SectorCount` writes position and length as quotient and remainder of the
sector size and follows the four cases of the code.  The transfers need an invariant of
three parts.  `TypeInv` says which call is under way at each point of the driver.
`DevInv` says that the drive is in step with the driver's loop: as many sectors are left
of the command as turns of the loop, and the next one is the loop's.  `DataInv` says what
the buffers hold: a read has filled its buffer up to the current sector, `start_sector`
and `end_sector` hold the bytes of the disk before and after the data, and a write has
reached the disk up to the current sector.  The refinement follows action by action; a
sector handed to the drive is one step of `ByteDisk`, and its commit none.

*BlockAllocator.*  The lists are in the memory of the blocks, so the invariant says that
sequences exist, one per class, that the pointers spell out (`Linked`): no block is in
them twice, none is out, each is aligned as its class, and the regions of the fallback
heap are these blocks and those that are out.  `Apart` says that regions do not overlap and
that the owners' data is intact.  Each of the four ways through `alloc` and `dealloc`
has a lemma that gives the new sequences.  `Walk` shows that following the pointers finds
the sequence and its end, and `RegionsCount` that it all adds up.

*BumpAllocator.*  `Inv` adds that every block that is out ends at or before `next`; the
count then says that a reset finds no such block.  `Placement` shows that `align_up`
leaves room after all of them.

*BootMemory.*  `UsableFrames` shows from the memory map that the iterator chain yields no
frame twice, and frames of usable regions only; it needs what flattening a sequence of
sequences yields (`Flattened`), by a minimal counterexample.  `Inv` says
that frames in use are among the first `next` usable ones, which makes the next ones new,
and that the pages of the area are mapped up to the loop's page.

*Framebuffer.*  The invariant ties `line_offset` and `offset` to the row and column of the
loops, says that the pixels the loops have passed are painted and that no byte outside
the rectangle has changed, and that a panic means that the rectangle leaves the screen.

*VgaBuffer, LineEditor.*  `write_byte` is a function of the writer, so what the screen
shows after a text is a function of the text: `RowsOf` says which rows a terminal breaks it
into.  `ScreenOk` says that, as long as no line of the shell was longer than its row, the rows
above the shell's are the last of these; `ShowsByte` carries it through a newline, a full row
and the scroll, byte by byte.  `LineOk` says that a line that fits the bottom row is in it
and that the cursor registers hold the cursor's place; `redraw` establishes it from any
screen that is `ScreenOk` (`Redrawn`).  `EditInv` adds what keeps the indices of `String::insert` and `remove`
meaningful: while no key went astray, the cursor is in the line and every character of it
is one byte.  For the refinement, the text left and right of the cursor is the line cut at
the cursor; each arm of `key_pressed` has a lemma that either moves, inserts or takes a
character there, or sets `astray`, which is the step of `LineBuffer` that promises
nothing more.

*ShellCommands.*  `ShellInv` says that the tree is sound and that a working directory that
was set still leads to a directory of it.  `cd` sets it to a text that opened; what remains
to be shown is that no command takes the directory away.  `WalkKept` proves that a path that
leads somewhere in a tree leads there in every tree that keeps what the first has; the walk
through `.` and `..` is a recursive function, followed step by step from the start of the path.
`FilesAreRead` is an action property and follows from the same invariant.

*ExecutePath.*  The walk is a stack of open directories.  `GoodStack` says that each is one
level below its caller, and that no caller still has the entry through which it called;
hence no file lies under two entries that are left (`OneEntry`).  `Settled` counts: how often
a file was parsed, plus one if the walk has still to meet it, is the number of paths begun so
far that it lies under (`Owed`).  A directory that is opened replaces one entry by its
entries, a file that is met moves from the second summand to the first, and at the end the
second is nothing.  `WalkInv` adds that on FAT the path buffer is the way from the root of
the walk to the open directory, whose name a module takes; on the host, only its first name.
`RunsWhole` is kept because errors stay empty from the parser on and each later phase has
passed over the modules before it.

*SmolStr.*  The invariant is that a string is what `Repr::new` makes of its text, whichever
constructor made it.  `NewlinesLead` finds, by the well-foundedness of the naturals, that
the newlines `take_while` counts are those the text starts with; `ReadsBack` follows the
three cases.

*ModuleCompiler.*  `Handled(i, p)` is how many items of module i pass p has done, and
`Compiled` is what the IR of a module then is: the classes and functions declared so
far, in order, with what their signatures mean; the reserved names, each used once; and
what the passes have found to be in order.  One lemma per pass adds an item; `Resolution`
shows that in the second pass a name resolves exactly if the module knows it, since all its
classes are declared.  A panic contradicts `Compilable` of the current module, and at the
end everything is handled, which is `Compilable` of every module.

*JitModule.*  `JitInv` says that the tables of the JIT are those of the functions it has
passed (`Done`): a name is declared exactly if one of them has it or calls it, with the
signature they all give it, and exported if it has a body; what is defined is exactly
`Done`, so that no two bodies share a name; and the calls of the modules finished so far
are linked to a body of the callee's name or to the host (`Arrives`).  A panic needs a
conflict of signatures, a second body, a missing symbol or a missing `main`, each of which
contradicts `Linkable`; when the program runs, `Done` is everything, which is `Linkable`.

### What TLC alone checks

* Liveness: `WokenIsPolled`, the fairness of `ScancodeChannel` and `ByteDisk`, `Ends`.
  The prover does not handle fairness.
* `SaysWhatWasRead`, `GroupsByPower`, `EveryTurnAdvances`, `RunsAsWritten`,
  `BuilderIsObeyed`: parser, expression compiler and translator are recursive operators
  over texts and trees, about which the prover cannot reason.

## Not modelled

The page tables, descriptor tables and exception handlers (x86_64 crate, or code that
prints and halts); FAT (fatfs crate); the token automata (logos) and machine code
(cranelift); the serial port, whose lock is held only with interrupts off; `draw_pixel`
and `draw_hori_line`, which nothing calls; string constants (`unimplemented!()` in
`vm/function/exprs.rs:108`) and values of class type in the JIT; the wording of errors.  The drive of
the model reports no errors, and loses no power: `read` and `write` never look at the error
bit and never return an error.  The inner protocol of
`ArrayQueue` is not modelled: a push in a handler that interrupts a pop of a full queue
may spin.
