# A TLA+ verification of BanjOS

BanjOS (`src/`) is a single-CPU x86_64 kernel in C and assembly with cooperative
kernel threads, interrupt-driven keyboard and serial drivers, demand paging, a
pool allocator, an ATA driver and a read-only ext2. Its hard part is not data
but interruption: one CPU, several stacks, interrupts that nest (`irq_handler`
sets the interrupt flag *before* the assembly stub has left the process), and
queues shared between threads and handlers. This project models that part first,
then memory, the drivers, the file system and the console.

## Inventory

| component | state | operations | interacts with | correct when |
|---|---|---|---|---|
| ring buffer (`ring_buffer.c`) | `buff`, `consumer`, `producer`, `blocked` | init, consume, blocking consume, produce | keyboard and serial drivers | it is a bounded FIFO; no reader sleeps on data |
| process queues (`processes.c:41-99`) | circular doubly linked lists with a `head` | append, unlink, rotate, block, unblock | handlers append while a thread rotates | every queue is one closed circle, no node is in two |
| scheduler (`processes.c`, `kmain.c`) | `avail_procs`, `cur_proc`, `next_proc`, `source_proc` | create, run, reschedule, yield, block, unblock, exit | stub, keyboard, disk | a live thread is in exactly one queue; nothing freed is used; runnable threads run |
| dispatch and context switch (`interrupts.c`, `isr_handler.asm`) | `irq_table`, the stacks, `context->rsp` | stub entry, dispatch, compare, save, load, iretq | everything | a process is resumed from the frame it left, on its own stack |
| GDT, TSS, IDT (`gdt.c`, `interrupts.c`) | three tables and their registers | set up, load | the processor | every vector reaches its stub, on its stack, before interrupts are on |
| PIC (`interrupts.c`) | masks, handler table | remap, mask, deliver, EOI | drivers | no line stays in service, every request is served |
| keyboard (`ps2.c`) | controller, keyboard, `keyboard_ring` | initialise, handler, `getc` | ring, scheduler | it ends up in scan set 1, interrupting; every accepted scan code wakes the readers |
| serial (`serial.c`) | ring, transmitter | `SER_write`, transmit handler | ring, PIC | characters leave once, in order, and none is stranded |
| ATA (`block_device.c`) | request list, per-request queue, device status | probe, queue, execute, handler, read | scheduler, kmalloc | each reader gets its own block, and gets it |
| boot tags, memory map (`multiboot_tags.c`) | tags, `mem_regions` | walk, build regions | boot loader | regions are exactly the usable pages outside the kernel |
| frame allocator, page table (`page_allocator.c`, `page_table.c`) | `free_list`, `region->next`, entries, `brk` | allocate, free, fault | kmalloc | a frame has one owner, a page keeps its data |
| kmalloc (`allocator.c`) | six pools | allocate, free | page allocator | live blocks are disjoint and return to their pool |
| MBR, VFS, ext2 (`mbr.c`, `fs.c`, `ext2.c`, `string.c`) | partition table, superblock, inodes | probe, read inode, readdir, read file | ATA | the wanted file is found and its bytes are read |
| console (`vga.c`, `printk.c`) | screen, cursor | clear, scroll, print | serial | the text shown is the text printed |
| md5, scan code table, boot code | - | - | - | third-party, data, straight-line code |

The hard behaviours, each listed with its line under `hazards` in
`PROJECT.json`: interrupts between two steps of a thread; interrupts inside the
switch itself; state tested before an interrupt window and used after it; free
followed by use; wake-ups and device interrupts that arrive before anybody waits
for them; devices that answer late or fail; and the edges of the block, index and
digit arithmetic.

## Plan

1. Ring buffer, with its abstract specification and a refinement proof. *Done.*
2. Process queues on pointers, and the sequences they represent, with a proof
   that they do. *Done.*
3. Scheduler with interrupts anywhere, safety and progress, proofs. *Done.*
4. The stub at the level of instructions, with proofs. *Done.*
5. Memory: tags, regions, frames, page table, demand paging, kmalloc. *Done,
   with proofs.*
6. Serial port, PIC, interrupt tables, keyboard set-up, and the ATA driver on the
   scheduler's queues. *Done, with proofs.*
7. Mount, directories and files of ext2. *Done, with proofs.*
8. Console and `printk`. *Done; the cursor is proved.*
9. Left: the refinement `PrintsText` of the console, and the digits of `printk`,
   are only model-checked.

## Modules

| module | models |
|---|---|
| `RingOps` | the functions of `ring_buffer.c` as operators; a pointer into `buff` is its index |
| `BoundedFifo` | the abstract queue: refuse when full or empty, first in first out |
| `RingBuffer` | one ring with producer and consumer, `ok` the returned boolean; `Contents` is the refinement mapping to `BoundedFifo` |
| `QueueOps` | the process queues as sequences that start at the head |
| `ProcQueue` | the same queues as `head`, `next` and `prev` pointers, side by side with the sequences |
| `Scheduler` | `processes.c`, kmain's loop, `ring_consumer_block_next`, the keyboard handler, and dispatch and stub as single steps |
| `ContextSwitch` | the stub of `isr_handler.asm`, one action per instruction that touches shared state |
| `BootTags`, `MemoryMap` | `multiboot_tags.c`: the walk over the tags; `build_mem_regions` and `add_region` |
| `PageAlloc` | `page_allocator.c` and `page_table.c` over physical memory |
| `Kmalloc` | `allocator.c`, and the stacks that `PROC_create_kthread` takes from it |
| `Serial` | `serial.c` |
| `Pic`, `GateTables` | of `interrupts.c`, the controllers and the dispatch; with `gdt.c`, the tables |
| `Ata` | `block_device.c` |
| `Ps2Init` | `ps2.c` up to the first keys |
| `Ext2Mount`, `Ext2Dir`, `Ext2File` | `fs.c`, `mbr.c`, `ext2.c`, of `string.c` what they use |
| `Vga`, `ScreenText`, `Printk` | `vga.c` and what it promises; `printk.c` |
| `MC*` | instances for TLC |
| `QueueLemmas` | lemmas on sequences and rings that several proofs use |
| `QueueProofs` | theorems on `RingBuffer` and `ProcQueue` |
| `SchedulerProofs`, `ContextSwitchProofs` | theorems on `Scheduler`; on `ContextSwitch` |
| `DeviceProofs` | theorems on `Serial`, `Pic`, `Ata`, `GateTables`, `Vga` and `Ps2Init` |
| `MemoryProofs`, `PageProofs` | theorems on `BootTags`, `MemoryMap` and `Kmalloc`; on `PageAlloc` |
| `Ext2FileProofs` | theorems on `Ext2Mount`, `Ext2Dir` and `Ext2File` |

Components that share state are in one module or compose operators: the scheduler
with the keyboard and its ring, the disk with the queues, the serial port with a
ring. Where they meet only in an assumption (regions, present stacks, registered
handlers), the property of one module is the assumption of the other.

Definitions named after a fault ("Fault: ..." in their comment) are mutated
forms of the definition that follows them. No specification uses them; putting
one in the place of its original must break the property that `mutants` names.

### Scheduler

A *flow* is a stack: one for each kernel thread and `Source` for kmain's.
`run` is the flow whose stack the CPU is on. `pc[f]` says where it is: `s_*`
labels are kmain and `PROC_run`, `run` is a thread's own code, `g_*` is
`ring_consumer_block_next`, `y_*` is `PROC_reschedule` followed by `int $0x80`,
`epi` is the stub after `irq_handler`'s STI, `iret` the `iretq`, `dead` a stack
that nobody can resume. `ret` and `frameIF` are the parts of the trap frame that
matter: where the flow goes on and its interrupt flag. `intr` is the CPU's flag.
`loc` holds the two values `cycle_next_proc` has loaded and not yet stored.

Atomicity follows the interrupt flag. What the code runs under CLI (the test and
block of `ring_consumer_block_next`, a handler) is one step, or several between
which `intr` is FALSE. What runs with interrupts on is split wherever a handler
can see or change the state in between; `unlink_proc` in `kexit_handler` runs in
a handler, and in `PROC_block_on` under the caller's CLI. An interrupt is
`ps2_irq_handler(c)` or `OtherIrq` and includes its way out through the stub
(`StubReturn`), because a device interrupt that finds `cur_proc # next_proc`
switches itself. The build is the debug build the repository documents, in which
every C access is a memory access.

`Calls[t]` says which calls the body of thread `t` may make, in any order. In
the instances `k` is `keyboard_io`, the only caller of `ps2_initialize`; `y` is
like `test_thread1`, may read the keyboard too and returns, which is `kexit`; `d`
faults pages in before it returns, like `drive_init`. A scan code is the
character `scan_code_to_char` makes of it, NUL for none.

### ContextSwitch

A stack pointer is a stack and a number of frames; a stack is memory with trap
frames (the CPU's frame and `push_scratch_regs`) and the callee-saved half that a
switch adds. A popped frame becomes `Unused`, since an interrupt may overwrite it.
`rax`, `rcx` carry the node the stub has loaded; C code and segment selectors
leave `NULL` for "no node". `regs` has a register for each way in which the stub
saves one: `r10` (and the scratch registers like it), `r11`, which is pushed last,
`rbx` (and all that C code preserves), `ds` and `gs`. `Own(p, r)` is the value
that process `p` has in register `r`, so that a register brought back for the
wrong process, or into the wrong register, shows. Two things come back changed in
the source and in the model. `ShiftStack` is `isr_err`, whose loop stops one word
short: a page fault returns with r10's value in r11. And `PopCallee` pops ds where
gs was pushed and the other way round, which nobody notices because
`long_mode_init.asm` and `PROC_create_kthread` put 0 (`Selector`) into both. The
queues are abstracted: a process that reschedules may be given any live thread, or
none. `int 0x81` and page faults enter on their own interrupt stacks, at depth 0.
Page faults come from a process's own code only: `Kmalloc!StackPresent` shows that
a thread's stack is mapped from its creation on, so the pushes of the stub do not
fault.

### Memory

The four modules are layers. `BootTags` walks over the boot loader's tags and
finds the two tables that `MemoryMap` makes regions of; `PageAlloc` takes such
regions as the constant `Regions` (its assumption asks for what `Ordered` gives)
and hands out heap pages; `Kmalloc` uses two facts about them: addresses only
grow, and a page keeps its data once it is touched (`KeepsData`).

`BootTags` keeps the sizes of tags and their padding; the walk moves by
`align_pointer` of the address behind a tag. Tags may come in any order, with
sizes that are no multiple of 8; a table that is not there stays `Unset`.

`MemoryMap` starts from every input in `MemMaps` and `ElfTables` and reproduces
the loops with their variables. It takes both tables to be in address order, as
the function does. An empty section inside a page costs that page; `Usable` says
so.

`PageAlloc` models memory as words that are page table entries. A free node's
`next` pointer is page aligned, hence an entry with clear flags, so tables, free
nodes and data share one format: if a frame were used twice, one use would read
what the other wrote. Memory starts as garbage that looks like present entries.
`pml4` is CR3; `page_table_get_entry` walks real tables and allocates missing
ones. `allocs`, `used` and `untouched` are the callers' side, and a caller writes
`Data(v)` into page `v`. `tlb` holds cached translations. `MMU_free_page` leaves
them: its `invlpg` is given the variable that holds the address as its memory
operand and invalidates the page of the stack. A store to frame 0, which is
outside the direct map, faults and stops the kernel as `page_fault_handler` does.

`Kmalloc` works on word addresses with the page, header, stack and frame sizes
of the source. `first[a]` is the first word of block `a`: the list's link or the
header, as in the code's union of the two. `touched` and `freed` are the pages
that have a frame and the pages `MMU_free_pages` was given.

### Drivers and tables

`Serial` has `SER_write` step by step (the guard that clears the interrupt flag,
the ring, the priming of an idle transmitter) against `UartShift` and the
handler. External: the UART, whose transmitter holds one character and whose line
goes up when it becomes empty, and the latch of IRQ 4, which is edge triggered. So
an interrupt that finds nothing to send is not repeated, and only `SER_write` can
start the line again. `sent` and `wire` record what the ring accepted and what
left the UART.

`Pic` has `IRQ_init`, the drivers' set-up of their lines (`IRQ_handler_set`, then
`IRQ_clear_mask`), delivery through the gate, `irq_handler` with `PIC_sendEOI` and
its STI, and the return. `frames` are the interrupts not yet returned from. The
two 8259s are external and specified by priority and in-service bits, the slave
behind line 2.

`Ata` has `ata_probe` (reset, signature, IDENTIFY), then readers that call
`ata_48_read_block` under the scheduler's queue operators: queue a request, issue
the command if the list was empty, loop on the alternate status and block on the
queue of the request at the head, copy the data; and `read_block_handler`. The
drive is external: it ends a command with DRQ or ERR in its own time and raises
its line, whether IRQ 14 is masked or not. `wild` records a use of a NULL
`req_head`. The reader takes no page faults: the stub of one would let an interrupt
in between the unmasking at `block_device.c:211` and the first request. No caller in
the tree has a fault there, as the partition table and the request come from pools
whose pages were cut before (`dev_identify` allocates a block of the same size).

`Ps2Init` runs the calls of `ps2_initialize` from a script against the
controller's one-byte output buffer and a keyboard that answers late, refuses, or
is being typed on. A read with a timeout may give up in the very turn that sees
the byte, which then stays for the next read; bytes of `reset_seq` that were not
read have any value.

`GateTables` builds GDT, TSS and IDT as `GDT_setup`, `IRQ_init_tss` and
`IRQ_init` do, with addresses of 8 bits for 64 and descriptors split accordingly,
and `VectorsReady` decodes them as the processor does.

### File system

`Ext2Mount` is `FS_register`, `FS_probe`, `mbr_init`, `MBR_read_block`, `ext2_probe`,
the superblock functions and `read_inode`, over any partition table; an inode found is the byte
it is read from. `Ext2Dir` is `readdir` over blocks of entries with padding and
deleted entries, with the callbacks of `kmain.c` and the `strcmp` of `string.c`.
`Ext2File` is `ext2_file_read` with one action per branch of its loop and
`read_inode_block` with the pointer blocks by name: byte `i` of the file is the
number `i`. External: where the medium keeps the group table and the inodes.

### Console

`Vga` is `vga.c`, each function one step since it runs under `CLI_GUARD`;
`ScreenText` is what it promises, the last rows of a text wrapped at the width of
the screen, and `Rows` the refinement mapping. `Printk` is the loop of `printk`
and its print functions, with C's division and the widths of the C types, to the
console and to the serial line.

## Runs

`MCQueues`, `MCMemory`, `MCDrivers` and `MCFilesText` hold several components that
share no variable. A variable `moves`, chosen in the initial state, says which of
them moves in a behaviour; the inputs of the others are fixed. The reachable
states are the union of the components' own, each property speaks of one
component, and fairness is stated for the steps of the one that moves, so the run
says of each component what a run of its own would.

| run | checks | bounds |
|---|---|---|
| `queues` | `ImplementsFifo`: the ring implements `BoundedFifo`; `Represents`: pointers are closed circles of the sequences, under every interruption of a rotation | 4 slots, 3 characters: every consumer and producer position, wraps of both, full at every offset; 3 nodes, 2 waiting queues: 3 is the least with distinct neighbours |
| `scheduler` | `QueuedOnce`, `NoSleepOnData`, `NoDangling`, `ExitHandled`, `Cooperative` and, under `FairKeysSpec`, `Progress` | 3 threads, a ring of 2 slots (one character, so it is full at once), 1 character and NUL |
| `context_switch` | `ContextOnOwnStack`, `RunsOnOwnStack`, `ResumesSavedContext`, `PopsWhatWasPushed`, interrupts everywhere but in the window | 2 threads and kmain, 4 frames a stack, 5 trap frames in all: a yield interrupted in its stub, that interrupt interrupted again |
| `memory` | `TablesFound`; `ExactlyUsable`, `Ordered`; `OneUse`, `KeepsData`, `StopsOnlyWhenFull`; `BlocksDisjoint`, `Conserved`, `FreesOwnPages`, `StackPresent` | tags: any order, sizes off the boundary. Map: up to 2 entries and every sorted table of up to 2 sections (overlapping, nested, empty) behind the null section, over addresses up to 6 and pages of 2; a table of 2 regions, so that its assertion fires. Pages: tables of 4 entries on 3 levels, 12 usable frames in 2 regions, 5 heap pages in requests of 1 and 2: two heap tables, reuse of frames, memory that runs out in a fault and in a walk. Pools: the source's sizes with its two largest pools, requests at the limits of each pool and of a page, 5 pages, 3 blocks held at a time |
| `drivers` | `InOrder`, `Transmitted`; `InService`, `Served`; `ReadsOwnBlock`, `HandlerHasRequest`, `ReadEnds`; `ScanSet1`, `ReadyForKeys`, `HandlerHasByte`; `VectorsReady` | serial: 3 slots, strings up to longer than the ring, 6 characters. PIC: lines 1, 4 and 14 (both controllers, all priorities apart), 2 edges each, pending ones at the start. Disk: 1 reader with 3 reads of 2 blocks and a thread that yields, errors included. Keyboard: 2 keys before the end of the set-up, 2 after. Tables: 256 vectors, 6 addresses of the TSS |
| `files_text` | `ReadsFile`, `FitsBuffer`; `FindsInode`; `FindsPlain`; `CursorOnScreen`, `PrintsText`, `ReadsBack` | blocks of 4 bytes, 2 direct and 2 indirect, files of 0 to 16 bytes, buffers of 1, 3, 4, 6 and 9 in any order; every table of 4 partitions of 6 kinds, file systems of 1, 2 and 16 groups (16 fill the group table), blocks of 1K and 2K, inode tables of several blocks; directories of up to 2 blocks of up to 3 entries. Screen: 3 rows of 3 cells; formats of two items, types of 4, 6 and 8 bits, arguments at the edges of each |
| `scheduler_lost_wakeup` | `Progress` under `FairSpec`: **violated** | 2 threads |
| `context_switch_race` | `PopsWhatWasPushed` with interrupts everywhere: **violated** | as `context_switch` |
| `page_fault_r11` | `KeepsR11`: **violated** | as `context_switch` |
| `ata_two_readers` | `ReadsOwnBlock`: **violated** | 2 readers |
| `ps2_init_key` | `WellConfigured`: **violated** | 1 key before the end |
| `ext2_file_large` | `ReadsFile`: **violated** | files of 17 to 24 bytes, behind the singly indirect blocks |

`queues`, `scheduler` and `context_switch` check for deadlock: kmain's loop always
has a next step, HLT included, since another device may interrupt. The others do
not: set-up code returns, the kernel stops when memory is gone, files end, and
edges, keys, characters and reads are bounded.

**What the violations show.** *Lost wake-up* (`kmain.c:136-138`): kmain tests
`PROC_has_unblocked` with interrupts on; a key that arrives between the test and
HLT makes the reader runnable, and the CPU halts all the same until some other
interrupt comes. `scheduler` shows that this is the only way to starve: with
scan codes that keep coming every runnable thread runs.
*Switch window* (`isr_handler.asm:96-106`): between the store of the old stack
pointer and the store of `cur_proc`, an interrupt's own stub sees
`cur_proc # next_proc` and switches again; a process is then filed under another
one's context. `context_switch` shows that the window is exactly what is wrong:
with interrupts at every other instruction all properties hold. This is the
race the repository's README lists under Known Issues.
*Page fault and r11* (`isr_handler.asm:53-60`): `shift_stack` leaves its loop when
`rax` has come down to `rsp`, before it copies the word there, so after
`add rsp, 8` the word popped into r11 is the one that was pushed from r10. Every
page fault that is resolved, each first touch of a demand-paged page, returns with
r11 lost. `context_switch` shows that nothing else is: behind any nesting
of interrupts, switches and faults a process finds its other registers and, if not
its r11, its r10 there.
*Two readers* (`block_device.c:171`): the loop of `ata_48_read_block` ends when
the drive has data, whoever asked for it; the second reader takes the first one's
block. With one reader, which is all the tree has, `drivers` shows that reads are
right and end, drive errors and the interrupt left over from IDENTIFY included.
*Key during set-up* (`ps2.c:101`): the first configuration written enables the
port again, so that a key can lie where the configuration byte is read and is
written back as one. `drivers` shows that scan set 1 is in use even then, and
that without such a key the late answers of a keyboard do no harm.
*Large files* (`ext2.c:165`): behind the singly indirect blocks `read_inode_block`
indexes the wrong pointer block.

**Divergences without a run.** While modelling, these were seen as well; the
models contain them, and the properties that pass say what holds in spite of them:

* `processes.c:116`: "all processes completed" is also reached while others are
  blocked. Resuming kmain is still right, as `Progress` shows.
* `page_allocator.c:120`: `MMU_free_page` does not ask whether demand paging has
  put a frame behind the page; if not, it frees frame 0, which stops the kernel.
  `StopsOnlyWhenFull` holds for callers that touch what they free. No caller in
  the tree does otherwise today: pool pages and thread stacks are touched when
  they are made (`StackPresent`), and block buffers are filled before their free.
* `block_device.c:49`: "waits until master drive is ready again" is said of
  `ata_soft_reset`, which does not wait; a slow drive is taken for none.
* `isr_handler.asm:110-117`: the segment registers are pushed as ds, es, fs, gs and
  popped into ds, fs, es, gs, so that ds and gs come back exchanged. All selectors
  are 0, and `PopsWhatWasPushed` shows that they stay so.
* `ext2.c:333-337`: with the cursor inside a block the rest of that block is copied
  whatever the length of the buffer, and one shorter than a block is overrun.
  `FitsBuffer` promises its end only to buffers of a block or more, and bounds the
  excess of a shorter one by a block. `drive_init`'s buffers have 7000 bytes.
* `ext2.c:338`: the last block is copied as far as the buffer goes, so reading a
  file to its end may return bytes behind it; `ReadsFile` bounds them by a block.
* `ext2.c:108`: the group table is read from the sector behind the superblock,
  which is wrong for blocks of 4K; the instances have 1K and 2K.
* `ext2.c:208` and `string.c:50`: a deleted first entry hides its block, and a
  name that begins like the wanted one is taken for it. `FindsPlain` is about
  directories without either.
* `ext2.c:215`: `readdir` hands on what `read_inode` returns, which is NULL for a
  number that a corrupt medium's file system does not have, and the callbacks of
  `kmain.c` read through it; the entries of `Ext2Dir` name inodes that exist.
* `vga.c:43`: a carriage return sets the cursor to the number of its line, not to the
  line's first cell. `CursorOnScreen` has it among its inputs; the text of `PrintsText`
  has none.
* `printk.c:94`: `%qx` is signed and prints no digits for a number with its top
  bit set (not among the instances' formats); `printk.c:55`: a sign goes to the
  console and not to the serial line.

**Fairness.** In `Scheduler`, `CpuFairness` is weak fairness of kernel code: of
kmain's loop, of each flow's reschedule-and-trap path and of the blocking read. On
one CPU that is just "the CPU executes instructions", since only the flow `run` is
enabled. A thread's own code is not assumed to be fair; `Progress` assumes through
`Cooperating` that a thread on the CPU keeps coming to a yield, the contract of
cooperative multitasking. `KeyFairness` is the environment's: scan codes keep
coming. It is what `scheduler_lost_wakeup` drops. Device interrupts are
otherwise not fair: they need not come at all. In `Serial` the CPU runs a call of
`SER_write` on and the caller restores its flag (weak), the UART shifts out what
it holds (weak), and a latched interrupt is taken if interrupts are on again and
again (strong: each character turns them off for a while). In `Pic` every step
but the edges of the lines is weakly fair, all of them the CPU's. In `Ata` the CPU
and the drive are: a drive ends every command, with data or with an error.

## Proofs

All theorems hold for every value of the constants that meets the named
assumption of the module: sizes are positive, sets that must not meet do not,
block sizes of pools divide a page and grow. TLC evaluates these on every run. Some
theorems suppose more, and each of these hypotheses is a definition with its own
comment:

| hypothesis | of | what it means |
|---|---|---|
| `WindowClosed` | the theorems on `ContextSwitch` | no interrupt in the switch window; the constants of `context_switch` meet it, those of `context_switch_race` do not, and there it fails |
| `NullSections` | `RegionsAreUsable` | an ELF section of type 0 is empty, as the ELF format has it; evaluated in `memory` |
| `StackInTwoPages` | `StacksPresent` | the initial frame starts in the first two pages of a stack's block: with the source's sizes in words, 2 + 1024 - 25 = 1001 is below 2 * 512 by 23; evaluated in `memory` |
| `OneReader`, `Reads` | the theorems on `Ata` | one thread reads blocks, as in kmain, and reads at least one; the constants of `drivers` meet both, those of `ata_two_readers` not the first, and there it fails |
| `MediaReadable` | `InodesFound` | the group table is the sector that is read and describes all groups, which hold all inodes: blocks of 1K or 2K, at most 16 groups; evaluated in `files_text`. `FirstIsMounted` does without it |
| `FilesSmall` | `FileIsRead` | no file needs the doubly indirect pointer; `ext2_file_large` is what happens without it; evaluated in `files_text` |

**Ring and process queues.** `RingTypeCorrect`, `RingImplementsFifo`: the
invariant is `TypeOK`. `UnreadBounds` shows that the pointer tests mean empty and
full; `PutAppends` and `TakeRemovesHead` that the two bodies are `Append` and
`Tail` under `Contents`; each action of the ring is then an action of the queue.
`PointersAreQueues`: `Represents` is inductive once the types are added. One lemma
for each pointer operation says that if `next` and `prev` are the circle of a
sequence before it, they are the circle of the changed sequence afterwards, and
that the circles of the other queues, which share no node with it, are untouched.

**Scheduler.** `Inv` adds to the type what every label knows: where interrupts
are off (`g_test`, `g_block`), which flow may be at which label, and `SwitchInv`:
outside `y_int` and `epi`, `cur_proc = next_proc` or there is nobody to switch to.
Then `TypeCorrect`, `NoLostWakeup` (`NoSleepOnData` needs that the test and the
block happen with interrupts off) and `CpuIsYielded` (`Cooperative`, an action
property). `SafetyInv` relates the queues to the rest: the running thread is in
`avail` unless it has blocked (`RunnableInv`), the locals of `cycle_next_proc` are
still queued when they are used (`LocalInv`), every live thread that does not run
is at a place from which it can be resumed (`StackInv`), and vectors 0x80 and 0x81
are set while threads run (`HandlerInv`). It gives `QueuesPartitionThreads`,
`NoUseAfterExit` and `ExitIsHandled`.

**Context switch.** None of the four properties is inductive: what is popped
depends on every frame below. `IInv` says of each stack that its frames nest
(`FrameOK`: the frame at place `i` returns to the same stack at depth `i - 1`, to
a label that finds there what it is about to pop, with the registers it relies on;
one that returns to code of its process has that process's scratch registers),
what the switch's halves between them hold, where the processor may be (on the
stack of its process, on the page fault stack, on what is left of a thread that
has exited), and which processes wait in their contexts (`SavedSet`: exactly those
that do not run). `ValueInv` ties the registers to the process: rbx is that of
`cur_proc` except from the load of the new stack pointer to the pops. An interrupt
can come there, just before the pops (`Pending`); its stub runs with the old
process's rbx, and it is harmless because `cur_proc = next_proc` by then, so that
it saves nothing. The window appears in `FrameOK`: a frame pushed there would
return into the middle of a switch that another one has overtaken.
`ContextInvariant`, then `StoresOwnStack`, `RunsWhereItShould`, `ResumesOnce`,
`PopsAreMatched`.

**Serial port and controllers.** `SerialInOrder`: `SerialInv` adds to `InOrder`
that `SER_write` has interrupts off and that the transmitter is empty when it
writes to it. `ServicesItsHandlers`: `PicInv` adds that a line is unmasked after
its handler is set, so that every delivered request is acknowledged, and that only
the innermost frame can be before its EOI.

**Disk.** `ReaderGetsItsBlock`, `HandlerFindsRequest`: `DiskInv` says that the
reader's request is in the list from the moment it asks to the moment it has
finished, and that the drive works on a command only then, on its own block
(`RequestInv`). The rest is about interrupts that are left over (`LatchInv`): one of
IDENTIFY can wait only as long as the reader, whose flag is clear as it is new, has
not yet put its first request in the list, and one of a read is taken before the
data is copied, as interrupts are on again by then.

**Keyboard.** `KeyboardInSet1`, `PortIsReady`, `HandlerNeverWaits`: `KbdInv` is about
`Stream`, the bytes that are still to be read, in the output buffer or on their way.
A read that timed out leaves answers in it, so that later calls take bytes that were
meant for earlier ones. `AnswerInv` says why the last test cannot take the wrong
acknowledgement: that of the reset is always followed by the result of the
keyboard's test, which no call after `reset_seq` accepts. Keys may come anywhere, and
there is no bound on them. With no key before the end (`QuietInv`) the stream is
known at every call, and empty at the last ones. What happens otherwise is
`ps2_init_key`.

**Interrupt tables.** `EveryVectorReady`: `GateInv` says what the two tables hold at
each step of their set-up; the rest is the arithmetic of an address cut into the
parts of a descriptor (`PartsMakeAddress`).

**Memory.** `TablesAreFound`: `TagInv` says that the walk is at the address of some
tag and what the tags before it have left noted. The addresses are a recursive
function; that it exists (`PlacesExist`) and grows from tag to tag (`AddressGrows`),
so that an address belongs to one tag, follows by taking a least counterexample.
The assumption of `BootTags` is what Multiboot2 says of a list of tags: sizes that
count the header of 8 bytes, one terminator, one table of each kind at most.
`RegionsOrdered`: `MapInv` keeps the last region behind the part of
the memory map already seen (`Frontier`). `RegionsAreUsable`: `UsableInv` says for
every page what is decided about it, wherever the two loops stand: pages of
entries passed, pages of this entry below `cur_start`, and those still to come.
The theorems on `Kmalloc` share `HeapInv`: the heap is cut into parts that lie side
by side (`Layout`), each of a pool or a large block of whole pages
(`LargePages`); some parts, `F`, are on lists whose links stay in their pool and
meet nowhere (`Lists`), callers hold others, each once (`Owned`), and freed pages
belonged to large blocks that nobody holds (`FreedPages`). The parts, their pools
and `F` are quantified: no variable of the code has them. That gives
`HeldBlocksDisjoint`, `FreesOnlyItsPages` and, with the pages touched,
`StacksPresent`. `BlocksConserved` needs that nothing is lost as well
(`Complete`): the first word of a part says whether it is on a list, a page that
is cut for a pool is cut to its end, and every part on a list is the head or
behind one of lower rank, which excludes circles. From it a walk of as many steps
as there are parts meets every free part of its pool once (`WalkOnce`,
`WalkReaches`), by taking a least counterexample.

**Pages.** `OneUse` is about what walks over memory find, and a walk is right only
if no other use has written into the tables it goes through; so nothing less than
the whole picture is inductive. `PageInv` has it as a function `at` from nodes to
frames that no variable of the code holds: `<<0, v>>` is page `v` of the heap,
`<<l, q>>` the table of level `l - 1` at place `q`, and `<<-1, i>>` the `i`-th node of
the free list. Every usable frame is fresh (behind `region->next`) or the frame of
exactly one node (`Owned`); the nodes hang together as a list (`FreeList`) and as a
tree (`Tree`); and memory says so: the entry for a node is present if and only if
the node is there, and then has its frame (`Filed`). `Z` are the pages that were
freed. Their entries keep old addresses and their translations may be cached
(`Cached`), which is harmless as sbrk passes each address once, so that no caller
holds a page of `Z`. A walk is an induction over levels (`DescendStep`) inside one
over pages (`WalkStep`), a free one over pages (`FreedStep`); each round either
keeps the picture or stops the kernel with no frame left. The model's recursive
functions exist by `RoundsExist`, for the finitely many kinds of loop there are.
`PageInvariant`, then `StopsWhenFull`, `DataKept` and, with the nodes that the walks
of `Uses` meet (`UsesAreNodes`), `OneUseEach`. The assumption says what `Ordered`
gives of the regions, that memory ends below the heap and that the heap fits into
its entry of the top-level table: 2^39 bytes for the source's sizes.

**File system.** `FirstIsMounted`: `MountInv` says that the loop of `ext2_probe` has
passed partitions in use without a file system. `InodesFound` adds the arithmetic of
groups and blocks (`InodePlace`). `PlainNameFound`: `DirInv` says that the entries
behind `readdir` are those of the blocks before this one and of this one up to
`header`, and that the callback has noted one of them with the wanted name, if there
is one. It uses that the entries of a block follow each other to its end (`Chained`,
in the assumption of `Ext2Dir`), and that `strcmp` is right for names that differ in
the first character (`PlainNames`).

**Files and screen.** `BufferKept`: `FileInv` ties the loop's counters to the
cursor and says that only the first turn starts inside a block. `FileIsRead` adds
`ContentInv`, what was returned is the file up to here, and that a block read
through the direct or the indirect pointers holds the bytes it should.
`CursorStaysOnScreen`: the property is inductive; what needs proof is the
arithmetic of lines and of the scroll.

**Only model-checked.** Liveness (`Progress`, `Transmitted`, `Served`,
`ReadEnds`): the prover has no fairness. `ReadsBack` and `PrintsText`: reading
text back is a fold (`FoldLeft`) and the rows of the screen are filtered with
`SelectSeq`; both take an operator as a parameter, over which the prover cannot do
induction.

## Not modelled

`md5.c` is third-party code; the scan code table of `keycodes.c` is data; the boot
code (`boot.asm`, `long_mode_init.asm`) sets up hardware in a straight line before
kmain; only the selectors it loads are used. `BLK_register`, `IRQ_set_mask`, `ps2_echo` and `strcpy` have no callers.
`MMU_memtest` and `get_free_memory` change nothing that stays. Also left out:
`pid_count`, which nothing reads; the attribute byte of the screen and the access
flags of descriptors; the sizes of the interrupt stacks and that their table
entries hold the lowest address; stack overflow; optimised builds.
