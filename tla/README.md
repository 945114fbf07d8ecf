# A verification of BenmoshOS in TLA+

BenmoshOS is a 32-bit kernel for one x86 CPU, written in C and assembly. These
modules model the parts of it that keep state, TLC checks them on small
instances, and TLAPS proves the central invariants of the memory managers, the
heap, the scheduler and the disk driver, and the refinements of the keyboard
queue and of round robin, for every value of the constants. `PROJECT.json` maps
every definition to the lines it models. Paths below are relative to `src/src/` of the repository.

## The system

| Part | Source | Module |
| --- | --- | --- |
| Physical memory manager: two-level bitmap of frames | `memory/pmm/pmm.c` | `Pmm`, `PmmProof` |
| Kernel heap: first fit, coalescing | `memory/heap/heap.c` | `Heap`, `HeapProof` |
| Virtual memory: directories, tables, scratchpad page, stack faults | `memory/vmm/vmm.c`, `cpu/idt/idt.c` | `Vmm`, `VmmProof` |
| Scheduler: create, yield, exit, kill, reap, context switch | `kernel/task/task.c`, `task.asm` | `Task`, `TaskProof`, abstract `Sched` |
| Intrusive list | `klib/list.h` | `List`, abstract `ListSeq` |
| Interrupts | `cpu/interrupts.asm`, `cpu/idt/idt.c` | in `Task`, `Vmm`, `Keyboard`, `Shell` |
| Keyboard: handler and ring buffer | `drivers/keyboard/keyboard.c` | `Keyboard`, abstract `KbdQueue` |
| System calls: reading a line | `kernel/syscall/syscall.c` | `Syscall`, `SyscallProof`; its wait also in `Task` |
| FAT16: clusters, files, directories | `fs/fat16.c` | `Fat16`, abstract `FileStore` |
| FAT16: directory slots and long names | `fs/fat16.c` | `FatDir` |
| FAT16: paths | `fs/fat16.c` | `FatPath` |
| Disk driver and its device | `drivers/ata/ata.c` | `Ata`, `AtaProof`; its errors, in `Fat16` |
| Console: ring of rows, scrolling, escape sequences | `drivers/print/print.c` | `Console` |
| Shell: line editor, history, tokenizer | `shell/shell.c` | `Shell` |
| Conversions of numbers | `klib/stdlib.c` | `Stdlib` |
| Boot, GDT, TSS, PIC, IDT set-up, in-kernel tests | `bootloader`, `cpu`, `kernel/tss`, `kernel/test.c` | not modelled |

How they interact: the timer interrupt calls `task_yield`, which reaps dead
tasks through the heap and the virtual memory manager; both managers take
frames from the physical one. Almost every operation masks interrupts with
`irq_save`, so it is one action; where the code does not (reading the keyboard
ring, waiting for a key, writing sectors) the action is one memory or disk
access. Some modules are composed: `Syscall` extends `Keyboard`, `Shell` extends
`Console`, and `MCFatDir` runs `FatPath` beside `FatDir`. Five
places call code that is modelled elsewhere: `Task` keeps only
which pieces of memory a task owns, `Vmm` has the allocation order of the
physical manager and treats its frames as a set, `Task` uses lists as
sequences, which `List` shows the pointers to implement, `Fat16` has
directories as tables, whose slots are the subject of `FatDir`, and uses of the
disk driver only that a call succeeds or fails.

## State and actions

**Pmm.** `bitmap` and `summary_bitmap` are the sets of set bits. `pmm_init` is a
step per E820 entry (`pmm_init_entry`) and one for the fixed reservations. The
history variables `held` and `pool` are the frames handed out and those free at
boot. An address is cut to 32 bits by `% AddrSpace`. `pmm_free_block` is called
with frames the caller holds; freeing a free frame panics.

**Heap.** `hdr` maps header addresses to size, free flag and next pointer; `live`
is what callers hold. `kfree` merges forward, then backward, as the code does;
`kfree_aligned` is `kfree` of the raw pointer saved in front of the block.

**Task.** The ready list is a sequence; PCB fields are functions of the task.
`frames` holds the interrupt frames on every task's stack and `flags` the eflags
`task_yield` saved, so that the interrupt flag is exact after each switch. The
timer (`isr_timer`) fires where interrupts are on and the PIC has had its EOI.
`task_create_fail(t, n)` is a failure after `n` allocations.

`switch_context` never loads the directory it is given: it fetches `new_cr3` into
EAX (`task.asm:29`), overwrites EAX with CR3 (`:32`), and compares CR3 with, and
loads it from, ECX (`:33`, `:36`), which it does not set. CR3 becomes what the
compiler left in ECX for the call in `task_yield`. The constant `EcxHoldsCr3` says
that this is `next_task->cr3`. It is so in the image kept in the repository
(`BenmoshOS.bin`, built with `-O0`): the last value moved to ECX before the only
call (file offset 0xfb7) is `next_task->cr3` (0xfa6). Nothing in the source
guarantees it. Without it `Switch` may load the directory of any task.

**List.** `next` and `prev` of every cell; `list_for_each_safe` is a start, a body
that unlinks and frees the node, and an end.

**Vmm.** `mem` gives the contents of every frame, so a table can be written
through the wrong pointer. `wanted` records what callers mapped, `held` the data
frames they can free. `access` is the MMU filling the TLB; a page fault on the
stack range allocates and maps a frame. `switch_context(ecx)` loads any existing
directory, because of the above, and empties the TLB only if that is another one.

**Keyboard.** The handler is atomic. The reader is split into the test for empty,
the load of the character, the load of `kbd_tail` and its store.

**Syscall.** The keyboard with either of its readers: the shell, which polls with
interrupts on and may be interrupted at any of those steps, or a program in
system call 4, which has them off except in its `hlt`. `input_buffer` is the
static buffer of the call and `typed` the keys the call has popped.

**Ata.** One step per read of the status register, and one for the transfer of a
sector. The device is external: it is busy from the moment it takes a command
(the model has BSY set before the driver can read the status again), keeps
written sectors in a cache until a flush or until it writes them back, may fail
any command, and may take longer than the driver waits, or for ever. `possible`
is the set of values a sector may hold, `late` says that a wait has timed out.

**Console.** `line_buffer` and `line_lengths` are the ring, `video` is the screen.
`print_char` masks interrupts and is one step; `set_print_color` does not and is
two, between which a page key may scroll. `text` is all that was printed since
the screen was cleared, with backspaces taking characters back; `Layout` breaks
it into rows and is the reference the screen is compared with.

**Shell.** Handling a key changes the line, the history and the position in it,
and leaves the characters it prints in `out`. They reach the console one by one,
so that a page key falls between any two. `echo` prints words of the line, `cat` the
characters of a file (`Files`), escape sequences included; `test` begins with `sti` (`shell.c:525`), the token `STI`. Any other command
is a message or nothing on the console.

**Stdlib.** `itoa`, `atoi` and `itoh` on integers of `4 * Nibbles` bits.

**Fat16.** One step per sector write, `pc` naming the next step and `op` the
variables of the call. An append walks to the end of its chain link by link
(`walk_chain`; the loop at `fat16.c:904` has no counter). Every FAT write is two
steps, one per copy. Errors are separate actions, one for each place where the code sees or ignores one; a write
that fails may have changed the sector, because the driver reports errors of the
flush behind it (`ata.c:101`). Any number of the accesses of one call may fail. A
search that cannot read a sector takes the name for absent (`search_error`), and
create, write and mkdir then enter it a second time. `trust` says what failed calls
have left each object as, `lost` that a call failed after it had allocated clusters.

**FileStore.** The store `Fat16` implements. `call` is the call in progress with its
arguments: only a call that returns success has its effect, with its own bytes, and
on its own object. One that fails leaves the object as it was, except that an
overwrite that runs out of space leaves it "torn" (bytes unknown until it is
overwritten or deleted), that an append that does leaves it "frayed" (bytes kept,
torn by the next append that writes), and that a disk error may tear it.

**FatDir.** The slots of one directory: end mark, tombstone, fragment, or short
entry. `Find` runs the visitor over the slots with its name buffer, which is the
only memory between slots.

**FatPath.** `fat16_resolve_path` as a recursive scan of the characters, compared
with `Resolved`, which splits at slashes and descends.

## Runs

Bounds are small enough for a complete search; each is chosen so that the
boundary named here is met.

| Run | Bounds | Shows |
| --- | --- | --- |
| `pmm` | 12 frames in 3 words; 4 maps, with odd lengths, unordered entries, one entry running past 4GB, one empty map | bitmap, summary, count and circulation agree (`SummaryExact`, `FreeCountExact`, `FramesConserved`); what is free at boot is RAM (`PoolIsUsableRam`) |
| `heap` | 112 bytes, real header, granule and split sizes; requests 0, 13, 24, 40; alignments 6 (invalid) and 16 | tiling, coalescing, no leak, allocations inside their blocks |
| `list` | 4 nodes, 2 lists | the pointers implement sequences (`ListSpec`), and the tamper check never fires; draining empties |
| `task` | 2 tasks and the kernel's, pids to 5, so PCBs are reused; `EcxHoldsCr3` | round robin (`SchedSpec`); lists, states and CPU context agree; every ready task runs, every dead one is reaped |
| `vmm` | 10 frames, 3 entries to a table | translation, frame accounting, separation, TLB |
| `keyboard` | ring of 3, 4 keys, so it fills and wraps; lines of 0, 1, 2 and 4, cut to a buffer of 3; 2 calls, so the buffer holds an old line | a bounded queue with either reader (`QueueSpec`); a line is what was typed in its call (`LineIsTyped`); what is typed is read (`KeysRead`) |
| `fat16` | 3 clusters of 2 bytes, so files have 0 to 2 clusters and the volume runs full; 2 names; a root of one entry and subdirectories of two, so both fill; disk errors at any accesses of the last call | sound chains at every write, also on a full volume; a store of files (`StoreSpec`); an error hurts no other file and the call returns |
| `fatdir` | 8 slots, names of one and two fragments; every path of up to 9 characters without a doubled leading or a trailing slash | exactly the names created and not deleted are found, short names are unique, paths resolve as the reference says |
| `shell` | screen of 2 rows and 3 columns, ring of 3 rows, so a line wraps, the ring wraps and the view scrolls; lines of 3 characters, history of 2, 3 lines entered; files with a whole escape sequence and with one that is cut off; lines of up to 6 characters to tokenize; numbers of 8 bits | the screen shows the text (`ScreenShowsText`), the text ends with prompt and line (`ShowsLine`), the history is the log (`HistoryIsLog`), lines are split into words, numbers survive conversion |
| `ata` | 2 sectors, 2 values, 4 calls, waits of 2 polls, so a wait can succeed at once, later, or time out | success means done, down to the media, while no wait has timed out (`SectorsHold`); every call ends (`CallsEnd`) |

`MaxRow`, `AfterEsc` and `MaxEntered` bound the keys of `shell`: no key is read below
the second row, but what the last one prints goes on past the third, so that the
ring is reused, and after Esc only the keys of a colour sequence are typed.

`task` has `EcxHoldsCr3 = TRUE`. With FALSE TLC finds `RunningOwnsContext` violated (the
CPU is on another directory than the running task's); the other properties
of the run hold with either value, and `vmm` is checked for every value of ECX that
is a directory.

`ChainsDisjoint`, `VolumeInOrder` and `NoLostClusters` are claimed only until a disk
error, because the code ignores failed FAT writes; `AppendKeepsOld`, `StoreSpec` and
`CallsReturn` hold in the call that meets errors as well. No call is made after
that one (`Idle`). This is a limit of the model. Where the device sets ERR, later
calls fail too, because the driver sends no command while it is set (`ata.c:8`); but
after a wait that timed out (`ata.c:15`, `:30`) the disk goes on, and what calls then
do on the volume that the failed one left is not covered: two entries of one name,
clusters in two chains, or a cycle, along which the walk at `fat16.c:904` would not
end.

`NoLostClusters` also excepts calls that ran out of space. An overwrite frees the
old chain first, and if space runs out the directory entry keeps the old start. The chain is sound nevertheless: the search is for the
lowest free cluster and fails only when all are taken, so the old start is by
then part of the new chain.

Deadlock is checked except in `heap` and `vmm`, which stop at `kernel_panic`, in
`shell`, where `exit` halts, and in `keyboard` and `ata`, where the bounded number of keys
or calls ends the run.

### Fairness

`task` assumes that handlers go on once entered, that a system call that waits
returns to its wait, and strong fairness of the timer: the PIC keeps the request
while interrupts are masked. Tasks are not assumed to yield. `keyboard` assumes
that the shell polls, as its loop does, and that a program goes on, since the
timer ends every `hlt` of system call 4. `fat16` assumes that a call in progress
goes on, `ata` the same of the driver and nothing of the device.

### Where code and comments disagree

Two runs end in a counterexample to what a comment says; `PROJECT.json` quotes
the lines. Each also shows why the passing run of its module has a restriction.

| Run | What happens | Restriction |
| --- | --- | --- |
| `vmm_fault` | `vmm_map_page_current` reads a directory entry through the scratchpad after pointing it at the new table (`vmm.c:326`) | `vmm` has no stack faults of tasks with a directory of their own (`TasksFault = FALSE`); in the present kernel only the boot task faults there |
| `fatdir_full` | a name that fills its last fragment, behind fragments of a deleted longer name, is not found and is created again (`fat16.c:1016`) | `fatdir` has no such names |

### Exceptions the properties make

Cases met while reading the code in which it does less than one might expect.
The models contain them unless said otherwise; the properties are worded, or the
inputs chosen, so as not to claim the opposite.

- `pmm.c:109`: E820 entries above 4GB are cut to 32 bits: their frames are entered
  below 4GB, where there may be no RAM, and can be counted twice. The maps of
  `pmm` have no entry that begins above 4GB, and `FreeCountCorrect` has the hypothesis
  `DisjointMaps`.
- `heap.c:22`: a size of 0xFFFFFFFD is rounded up to 0 and granted. No request of
  `heap` wraps, and `InsideCorrect` has the hypothesis `NoWrap`.
- `heap.c:83`: an empty block cannot be freed: `kfree` panics.
- `task.c:172`: an exiting task is reaped, stack and directory included, before the
  switch away from it. Interrupts are masked until the switch, so nothing else
  can take the memory; `RunningOwnsContext` is about the state after the switch.
- `vmm.c:195`: destroying an address space frees its tables, not the frames they
  map; a demand-paged stack is lost. `FramesAccounted` counts the frames callers
  keep a handle of.
- `vmm.c:109`, `vmm.c:141`: early returns that leave interrupts off.
- `fat16.c:917`: after an append that ran out of space, size and chain disagree and
  the next append misses the end of file. `StoreSpec` lets that append, and only
  that, tear the file ("frayed" in `FileStore`).
- `fat16.c:185`: the result of a FAT write is ignored by its callers.
- `fat16.c:512`: a read error during the search for a name counts as its absence,
  also in create, write and mkdir (`search_error`). `StoreSpec` gives the object up,
  and holds for all others. `FatDir` has no disk errors.
- `fat16.c:1141`: a directory whose check for emptiness meets a read error counts as
  empty and is removed (`empty_check_error`); what is in it can no longer be named.
- `fat16.c:1016`: fragments of deleted names are never reclaimed and use a
  directory up.
- `fat16.c:554`: `//a` is not found, though redundant slashes are ignored (comment at
  `:559`) everywhere else; `a/` is read as `a`, though the comment at `:580` calls a path
  that ends with a slash invalid: the loop at `:560` has skipped it by then.
  `ResolvesPath` excepts both.
- `fat16.c:1008`: a restart between the freeing of a chain and the change of its
  entry is not modelled.
- `ata.c:30`: a wait that times out abandons the call, not the command. The device
  may finish it in the next call and hand that one the wrong sector; `SectorsHold`
  claims nothing once `late` is set.
- `print.c:149`: Esc and the bracket behind it return before `irq_restore`, so a task
  that prints Esc, typed or from a file through `cat`, goes on with interrupts off:
  the shell then polls a ring that no interrupt fills. Only the `sti` of `test`
  turns them on. `iflag` shows it; no property claims the opposite. `ShowsLine`
  stops at a typed Esc.
- `print.c:295`: a page key inside `set_print_color` leaves a cell of another row on
  the screen until it is drawn again (`stray`).
- `stdlib.c:22`: the least integer has no positive counterpart; `NumbersRoundTrip`
  excepts it.
- `keyboard.c:33`, `syscall.c:41`: two tasks that read the keyboard at once, or wait in
  system call 4 at once, share the ring and the line. The models have one reader.

## Proofs

The theorems hold for every value of the constants that satisfies the assumptions
`PmmAssumption`, `LowMemAssumption`, `HeapAssumption`, `VmmAssumption`,
`TaskAssumption`, `KeyboardAssumption` and `AtaAssumption`, and the hypotheses named
below.

*Physical memory manager.* The inductive invariant is the conjunction of
`TypeOK`, `SummaryExact`, `FramesConserved` and "nothing is held before
`pmm_init` has returned". `SummaryExact` rests on two lemmas on the marking
helpers, `FramesConserved` on callers freeing only what they hold.
`FreeCountCorrect` needs one hypothesis more, `DisjointMaps`: no frame is covered
by two usable entries after truncation. RAM above 4GB can break it. `PoolCorrect`,
for `PoolIsUsableRam`, assumes that usable regions begin at a page below 4GB
(`AlignedMaps`); its invariant adds that a frame free so far is inside such a region.

*Heap.* The invariants `BlocksTile` and `Coalesced` are not inductive alone: the
merge must know that the block in front of a block is unique, and that the block
being freed is on the list. The invariant `Inv` says that the list is
well-formed (every block ends where the next begins, the last at the end of the
heap), that no two neighbours are free, and that used blocks and live
allocations correspond. `TakeWellFormed` covers splitting, `AbsorbWellFormed` and
`FreeWellFormed` merging. `RestoredCorrect` follows: a tiled, coalesced heap
without used blocks is one block. `InsideCorrect` assumes `NoWrap`: no request
wraps when it is rounded up.

*Virtual memory.* `MappingsCorrect`, `RolesCorrect`, `FramesCorrect` and `TlbCorrect` are
the four properties of the run `vmm`, for any number of frames, pages and address
spaces. `VmmAssumption` fixes the layout: the pages are outside the directory entries
shared with the kernel, and code and stack of the user process are in one table.
All four have the hypothesis `~TasksFault`; the run `vmm_fault` shows what happens
without it. No property is inductive alone: a write through the scratchpad keeps the
others' translations only if no table is behind two entries (`Distinct`) and no table
is a directory or a data frame (`Apart`); `Accounted` says frame by frame that what is
allocated has a role, so that a new frame has none; `Handles` says that a page's frame
is still in its caller's hands when the page goes; and `UserTable` that the table the
page-fault handler needs exists.

*Scheduler.* `ListsCorrect`, `NothingLeaks`, `ContextCorrect` and `Refinement` (`Spec =>
SchedSpec`) hold for any set of tasks. `ContextCorrect` has the hypothesis
`EcxHoldsCr3`, the others need nothing of ECX. The inductive invariant has two parts.
`ListInv`: lists and states agree, only live tasks own memory, the CPU's stack and
directory are the current task's, and the kernel task, which `task_kill` spares, is
always ready or running, so that there is a task to switch to. `FlagInv`: a stack has
at most one frame of each kind, because where the timer's is on top interrupts are
off, or will be when the task continues (`Masked`). The refinement follows from
`ListInv`, action by action.

*Keyboard.* `QueueCorrect` is the refinement `SysSpec => QueueSpec`, from
`KeyboardAssumption` alone (a ring of at least two slots). The mapping takes the
slots from `kbd_tail` up to `kbd_head` as the queue. It needs the invariant `Inv`
of `SyscallProof`: a shell inside `kbd_getchar` has seen a ring that was not
empty, and the character and the index it has loaded are still those at
`kbd_tail`, because the handler does not write that slot while the ring is not
empty, and no program reads beside the shell. `PutAppends` and `PopTakes` say what
the handler and the readers do to the queue; below them is the arithmetic of
indices modulo the size.

*Disk driver.* `SectorsCorrect` proves `SectorsHold` from `AtaAssumption`. The
inductive invariant ties the phase of the driver to the state of the device: which
command it executes and for which sector, what is in its transfer buffer, that
media and cache hold nothing a sector may not hold, and that without an error only
the sector being written may hold more than one value. All but the types is
claimed only while no wait has timed out.

Proved and not in a run: `HeapRestored`, a consequence of the others, and the
type invariants of the two allocators. Only model-checked: liveness, which is beyond
the prover (`KeysRead`, `CallsEnd`, `CallsReturn`, `ReadyRuns`, `DeadReaped`); `List` and
`FatPath`, which use recursive operators; and everything about `Fat16`, `FatDir`,
`Console`, `Shell`, `Stdlib`, and `LineIsTyped` of `Syscall`.

## Not modelled

- Boot, descriptor tables, PIC, PIT and TSS set-up run once in a fixed order and
  write constants. What they leave behind is the initial state of the modules.
- The in-kernel tests are programs that use the parts above.
- `printf`, copying and comparing strings, and the port instructions have no state
  of their own; `sleep` polls a counter. Directory listings only read and print.
- The checksum of long names is stored and never compared; the geometry of the
  volume is read once.
- Colours, the hardware cursor and page flags: nothing that is modelled depends on
  them.
- `KernelMain` does not start the shell in the present build. `Shell` models
  `shell_run` as it is written, as the only task that prints.
- Several tasks in code that does not mask interrupts: the bitmap search of the
  physical manager, the disk driver, the file system and the two readers of the
  keyboard. The code has no lock there and promises nothing; each model has one
  caller at a time.
- A restart of the machine. The disk between two writes is covered by
  `AppendKeepsOld`, `ChainsDisjoint` and `SectorsHold`, which speak of every state.
