# A TLA+ model of the CS330 operating-systems assignments

The repository holds four assignments around a small teaching kernel (gemOS)
and a set of multi-threaded C programs. This directory models the parts that
carry their logic, checks them with TLC on small instances, and proves the
safety properties of eleven of its parts with TLAPS for every value of the
constants: any number of threads, processes, pages, frames, descriptors, inputs
or bytes.

Abbreviations for paths: `A2` is
`src/Assignment2/OS_CS330_Assignment_2-master-.../gemOS/src`, `A3` is
`src/Assignment3/Ass3/src`, `A4` is `src/Assignment4/ass4`.

## 1. Inventory

| Component | State | Operations | Correct means |
|---|---|---|---|
| Reader-writer lock, `A4/part-2` | one 64-bit counter | `write_lock`, `write_unlock`, `read_lock`, `read_unlock`, the threads of `main.c` | a writer is alone; no update under the write lock is lost; everybody finishes |
| Block hash, `A4/part-1` | two shared pointers under a mutex, the output array | the worker loop, `calculate_and_store_hash` | slot *i* gets the hash of block *i* |
| Parallel hash table, `A4/part-3` | the input pointer, `being_processed`, the table with one lock per entry, `used` | `read_op`, `lookup`, `insert_update`, `purge_key`, `done_one` | operations on a key take effect in input order; probing finds every key; no lost wake-up |
| Serial hash table and generator, `A4/part-3` | a table; the keys put so far | the same three operations; the operations of an input | the parallel program prints what the serial one prints |
| vm_area list, `A3/mmap.c` | a linked list of areas per process | `vm_area_map`, `vm_area_unmap`, `vm_area_mprotect` | sorted, disjoint, merged; placement rules; at most 128 areas |
| Process memory, `A3/mmap.c`, `cfork.c`, `page.c`, `entry.c` | page tables, frames with reference counts and contents, the data segment | faults, `alloc_pfn`, `pfn_unmap`, `change_permissions`, `cfork_copy_mm`, `vfork_copy_mm`, `handle_cow_fault`, expand, shrink, exit, restart of init | the page table never grants more than areas and segments; a frame in use is not free; what a process stores shows in no other |
| Processes and scheduler, `A3/schedule.c`, `entry.c`, `context.c`, `cfork.c` | the context table, `current` | timer tick, sleep, exit, fork, cfork, vfork, clone, restart from the shell | one running context; vfork parents wait; the last exit cleans up |
| Page and object allocators, `memory.c` | bitmaps, free lists, node pool | `os_pfn_alloc`, `os_alloc`, and their frees | nothing is given out twice, nothing is lost |
| Page tables and process images, `A2/context.c`, `entry.c` | four table levels, kernel stacks, user pages | init, fork, clone, faults, expand, shrink, exit, clean-up | a page has one owner; what an address space took goes back |
| Descriptors and file objects, `A2/file.c`, `pipe.c`, `entry.c` | descriptor tables, shared file objects with `ref_count`, pipe ends | open, close, dup, dup2, pipe, fork, clone, exit | the count is the number of descriptors; a pipe lives as long as an end |
| Pipe contents, `A2/pipe.c` | a page and its positions | `pipe_read`, `pipe_write` | first in, first out, no byte lost |
| Regular files, `A2/file.c`, `fs.c` | the inode table (names, modes, sizes), offsets of the file objects | open, create, read, write, lseek, close | one inode per name; transfers stay in the file; the size follows the writes |
| Signals and scheduler of Assignment 2, `A2/entry.c`, `schedule.c` | handlers, alarms, saved registers, user stacks | signal, alarm, sleep, tick, exceptions, fork, clone, exit | handlers are the process's own and return to the program; registers survive; nobody starves |
| Shell exercises, `src/Assignment1` | working directory, recursion stack, descriptors, child processes, pipe ends | `grep`, `recurse` and `main` of the three programs | every file once, right sums, all output delivered, everybody ends |
| Drivers, boot code, user programs, test cases, submission copies | | | not modelled, see section 7 |

How the parts interact. In gemOS every system call runs to its end with
interrupts off on one processor; user programs call in any order, and the
timer interrupt comes between any two of their instructions. `mmap.c` is
reached by system calls and by page faults, and both work on the area list and
on the page table. `fork`, `vfork` and `clone` copy a context slot and with it
the descriptor table, the areas and the pid of the parent; `exit` looks the
parent up by slot number. In Assignment 4 the interaction is shared memory
between pthreads: atomic instructions, mutexes, a condition variable. In
Assignment 1 it is the working directory of a process, inherited descriptors
and pipes between a program and its children.

What is hard: the visible intermediate values of the lock counter; probes that
release one entry before they lock the next; wake-ups by broadcast; long
sequences of splits and merges in one list; page table and area list that must
agree though different calls update them; contexts and pids that are reused;
counts shared by processes that exit in any order. `PROJECT.json` lists these
hazards at their lines.

## 2. Modules

| Module | Models | Main abstractions |
|---|---|---|
| `RWLock` | `rwlock.c`, `common.h`, `thfunc` | one step per atomic instruction and per load or store of a shared variable |
| `RWLockAbstract` | what the lock promises | acquisition and release are single steps |
| `BlockHash` | part 1 | a hash is the set of words it sums; pointers are offsets |
| `ParallelHash` | part 3 | a critical section without a visible intermediate state is one step; data pointers are the id of the PUT that stored them |
| `OrderedStore` | what part 3 promises | operations take effect one at a time, per key in input order |
| `SerialHash` | `serial_hash.c` as operators on a table record | the reference for `ParallelHash` |
| `InputGen` | `inputgen.c`: the set of inputs it can write | random keys are any keys |
| `VmAreas` | `mmap.c` as operators from a list to `[areas, ret]` | the linked list is a sequence, addresses are page numbers, lengths are bytes and rounded as in the code |
| `VmArea` | a process that makes the three calls in any order (`AreaSpec`) | extends `VmAreas` |
| `AddressSpace` | what mmap, munmap, mprotect promise | one protection per page; the call and its result are visible |
| `CowMemory` | the same calls with page tables, faults, stores, expand, shrink, cfork, vfork, exit and restart of several processes | extends `VmAreas`; a page holds one value; upper table levels, code, rodata and stack left out; no fork and no clone (section 7) |
| `PrivateMemory` | what copy-on-write promises | every address space has contents of its own, and a new one starts with all that its parent's has |
| `Scheduler` | context table and scheduler of Assignment 3 | registers and memory contents left out; page tables by identity |
| `Signals` | signals, alarms, registers and scheduler of Assignment 2 | registers are the rip and the return addresses on the user stack |
| `PageAllocator` | the page lists of `memory.c` as operators on a list record | the bitmap is the set of pages whose bit is set |
| `PageTables` | pages of tables, kernel stacks and segments | extends `PageAllocator`; contents left out, pages of a segment counted |
| `ObjectAllocator` | `os_alloc`, `os_free`, the node pool and the lists of `lib.c` | an object is its page, position, size and class; powers of two are a recursive function |
| `FileTable` | descriptors, file objects, pipe ends | the allocator gives any free page |
| `PipeBuffer` | the bytes of one pipe | an end is open or closed |
| `ByteQueue` | what a pipe promises | a bounded queue |
| `RegularFile` | the inode table and the file objects on it | which bytes a transfer touches, not their values |
| `DirWalk` | `part1.c`, `part3.c` | the tree of the host is chosen at the start; a file is a short sequence of characters |
| `Pipeline` | `part2.c` | grep, wc and the command are external: what they write and read |
| `...Proofs` | | theorems about `RWLock`, `ParallelHash`, `FileTable`, `Scheduler`, `Signals`, (`MemoryProofs`) `VmArea` and `CowMemory`, (`KernelMemoryProofs`) `ObjectAllocator`, and (`DataPathProofs`) `BlockHash`, `PipeBuffer`, `RegularFile` and `Pipeline` |
| `MC...` | instances for TLC | constants are in the `.cfg` files |

Definitions keep the names of the C functions, and `PROJECT.json` ("map")
gives the lines each one stands for. Where the code repeats one block for
several places (mmap has the extend-or-allocate block nine times) the model
has one operator, and its entry names one of the copies; the other copies were
compared with it.

`TypeOK` of `RWLock` is a theorem (section 5). In most other modules the type
invariant is the first conjunct of the module's main invariant (`OneRunning`,
`ListSound`, `SerialHashes`, `TableSound`, `EntriesFollowAreas`,
`RefCountExact`, `TransfersInPlace`, `OneInodePerName`, `PagesOwned`,
`ReturnsToProgram`, `PipelineComplete`).

Two modules that share no state are checked in one run when they belong to one
subsystem (`MCKernelMemory`, `MCFileIO`, `MCShellTools`): the variable `part`
chooses at the start which of them a behaviour exercises.

A definition whose comment starts with "Mutant" is a deliberately wrong
version of the definition after it: a dropped guard, a missing reset, an
off-by-one. It is not used by any specification. `PROJECT.json` ("mutants")
pairs each property with the one that must break it, so that a property which
could not fail is noticed.

### How state and actions correspond to the code

*RWLock.* `value` is `lock->value`, starting at `W` (2^48). A failed attempt
is two steps (`..._try`, `..._undo`), because another thread can act on the
counter between them. A writer spins (`w_spin`) until it reads at least `W`;
readers retry at once. The two statements of `thfunc` on `wr_ctr` and `rd_ctr`
are a load and a store each.

*ParallelHash.* `read_op` registers the operation and scans for an earlier one
on the same key; if there is one the thread waits, and wakes by the broadcast
of `done_one` or spuriously. `probe_next` moves from one entry to the next.
Insertion and deletion change the entry in one step and `used` in another,
with the entry locked in between. A failed assertion sets `aborted` and stops
the process. The inputs are the ones `InputGen` can write, and `SerialHash` runs
each of them from beginning to end in one evaluation.

*VmAreas.* `MapNoHint`, `MapHint` and the operators below them are the
branches of `vm_area_map`; `SearchForward` and `SearchFromStart` are the two
searches after an unusable hint; `Place` extends a neighbour, joins two, or
allocates. In `vm_area_mprotect` the code first checks the range
(`RangeAccepted`) and predicts the number of areas (`TooManyAreas`), then
rewrites the list (`Reprotect`) and finally merges it (`MergeAll`).

*VmArea.* `call` and `ret` are the last system call with its arguments and what
it returned. `AddressSpace` has the same two variables, so the refinement
compares each step with the promise for that very call: a munmap that succeeds
clears the pages of its own address and length and no other, an mprotect gives
its protection to the mapped ones of its own range, an mmap adds as many pages
as it was asked for where nothing was mapped, at the fixed address if there is
one, and what it returns is the start of a range with the protection; a call
that fails changes nothing. munmap may fail inside the region only when it would
cut a hole into one mapping, for which it needs an area.

*CowMemory.* `state`, `ppid`, `pgd`, `areas` and `next_free` are fields of the
context slots; `pte` holds the leaf entries of every page table, `bitmap` and
`refcount` (a u8) the state of the user frames, `mem` their contents. An access
is a `store`, or a `do_page_fault` after which the program tries again; a load
that does not fault changes nothing and is no action. A fault installs what the
faulting access needs, not what the area allows, so a page that was first read
faults again at its first store (`handle_cow_fault`). `cfork_copy_mm` makes
every present page read-only in both tables and counts the child;
`handle_cow_fault` copies unless the count is 1; `pfn_unmap` frees unless it is
more; exit does neither. The contents of a frame nobody can read are dropped,
because whoever gets the frame next finds any value in it. The last exit frees
every frame its table names (`pt_cleanup`), after which the shell starts init
again in slot 1 (`exec_init`), whose `areas` are still those of the last process
there. fork and clone, which would give two contexts one list of areas or one page
table, are no actions here (section 7). A step that needs a
frame when none is free does not happen in the model (`os_pfn_alloc` returns 0
then, and its callers do not test for it); the user region has more than
100000 frames.

*Scheduler.* `state`, `ppid`, `pgd` and the tick counters are fields of the
context slots and keep their values after exit, as in the code. `alive`,
`vparent` and `misled` are history variables used by properties and not by the
guards; `misled` is set by an exit that wakes a slot which is not a parent
waiting for it. `crashed` is set where the code dereferences the NULL of
`get_new_ctx`.

*Signals.* `live` is the register file on the processor (or on the kernel stack
of the interrupted process), `regs` the one in every context. A tick does all of
`handle_timer_tick`: it accounts sleep and alarm, may push the frame of SIGALRM,
and switches. `invoke_sync_signal` pushes the frame, `HandlerReturns` is the
plain return of the handler. `own` is a history variable: the handlers a process, or
the one it was copied from, has registered.

*PageTables.* `pt` and `user` are the page lists of the two regions, `table`
holds per page directory which page is at which level and the leaf entries.
`lost` and `lost_pt` collect the pages nobody refers to any more, `twice` counts
second frees, `clash` is set when the allocator gives out a page that is in use.

*ObjectAllocator.* `ck`, `freelist`, `node` and `nodemem` are the C structures;
`objects` and `freed` are what the callers know. `broken` is set when
`node_alloc` takes a node behind the pool or one that is in use, and nothing
happens after that; `handed` counts the nodes `node_alloc` has given out so far.
An object keeps the page, position and class it was cut from; its address is
computed from them (`Addr`), and the size is that of the last request.

*FileTable.* `files` are the descriptor tables, `file` the file objects and
`pipe` the pipe_info objects. `do_exit` runs the loop of `do_file_exit` one
descriptor per step with nobody else running. `overrun` is set where
`open_standard_IO` walks past the end of the table; the model stops there.

*DirWalk.* `stack` is the recursion of `recurse` with the names still to come,
`cwd` the working directory, `fds` the open descriptors of the process. The program
starts in a directory (`Start`) that need not be the one above its argument
(`Above`), which is where the walk leaves it. There part1 looks its argument up a
second time (`main_again`, part1.c:91): it may be the directory still, another
file, whose lines are printed as well (status "strayed"), or nothing. The `child`
of part3 walks while its parent waits in `read`.

*Pipeline.* `rd` and `wr` say which processes hold an end of which pipe;
`fork` copies the holdings, `close` and exit drop them. `outfd` is what `tee_open`
got for the output file, perhaps no descriptor; each write to it may fail, which
nobody notices (part2.c:81-84) and `missed` records for the properties.

*RegularFile.* Offsets and lengths are 32-bit unsigned in `file.c` and signed in
`fs.c` (`Signed`, `Unsigned`, modulus `U32`); lseek computes with a long and cuts
the sum to an int. A length that is negative as an int can pass the test of
`do_write_regular`, whose sum wraps, and that of `flat_write`; the loop then
compares a u64 with it and does not end. The model has these calls: they make a
transfer of kind "runaway", which is the last step of a behaviour.

## 3. Runs

| Run | Instance | Shows |
|---|---|---|
| `rwlock` | 3 threads, `W` = 4, 2 iterations | the counter accounts for all attempts, exclusion, no lost write, the printed total, termination, refinement of `RWLockAbstract` |
| `block_hash` | 3 threads, files of 1, 5, 8, 11 bytes, blocks of 4, words of 2 | every thread has its own slot and the output is the serial one; termination |
| `parallel_hash` | 3 threads, every input of 4 operations (2 of them mandatory PUTs) on 2 keys that collide in a table of 3 | probe chains and counting, assertions, the serial program's results, refinement of `OrderedStore`, termination |
| `vmarea` | 6 pages of 2 bytes, at most 4 areas, 2 protections | list structure and limit, placement of every kind of call, no protection across holes, refinement of `AddressSpace` call by call |
| `cow` | 2 processes (init, cfork, vfork), one data page, one mmap page, 3 frames, 2 values | page tables grant only what areas and segments allow, counts cover the sharers, refinement of `PrivateMemory` |
| `mprotect_pte` | `CowMemory` with 1 process, 4 mmap pages, mprotect of two pages | *violation*: the second entry stays writable |
| `scheduler` | 4 slots, fork, vfork, clone, sleep 0 or 1, restart | one running context, vfork parents wait, the shell is back exactly when the last process is gone |
| `signals` | 3 slots, one handler for SIGFPE and SIGALRM, stack of 2, sleep 1, alarm 1 | own handlers, return to the program, registers kept, sleepers wake, nobody starves |
| `filetable` | 2 processes, 3 descriptors, 4 objects, 2 pipes | exact reference counts, pipes freed with their last end |
| `file_io` | a pipe of 3 bytes of 2 values, every length up to 4; 2 inodes of 2 bytes, 3 names, 2 file objects, 32-bit numbers scaled to 16, lengths 0 to 3 and 15 (an int -1), seeks by 0 to 2 | one inode per name, transfers in place, refinement of `ByteQueue`, size follows the writes |
| `kernel_memory` | regions of 256 and 96 pages with words of 4 bits, 3 slots, 7 calls; objects of 2 and 4 bytes in pages of 8, 5 nodes, 8 calls | one owner per page, the allocator's books, disjoint objects and faithful free lists |
| `shell_tools` | the argument, a file or a directory, and up to 4 nodes below it, 2 names, 3 contents, `int` of 8 values, 6 or 10 descriptors; 3 bytes through pipes of 2 | part1 and part3 print the right lines, part2 delivers everything to the command, and to the file unless a write fails, all end |

Why the bounds are enough to be interesting. Three threads are the least with
which two can disturb a third one (two failing writers and a reader). `W` = 4
is the least value above the number of threads, the condition the code meets
with 64 < 2^48. The two keys of `parallel_hash` have the same hash value, so
probing, deletion marks and wrap-around happen; four operations allow a second
put after a delete of one key in all distributions over the threads. Six pages
allow three separated areas and the neighbours on both sides of each, and the
limit of four areas is reached and met by calls that would exceed it. Page
size 2 separates lengths that are whole pages from those that are not. Hints
range over 0, a page below the area, every page, the end, and beyond. The file
of `block_hash` ends inside a word, at a block, and inside a block. Four
context slots are the swapper and three processes: a parent, a child and a
grandchild, with slots reused after exit. `U32` = 16 is more than four times
the size of the file, so that signed and unsigned views differ as in the code.
In `cow` two slots are enough for a parent that shares frames with a child
while earlier children, whose counts remain, have exited; three frames let both
sides of a broken sharing have their own and leave one over, and `RefLimit` = 3
lets counts exceed the number of processes; its third slot is the swapper. The
regions of `kernel_memory` are so small that the scanned part of the bitmap of
the user region fills up within seven calls and the search wraps; page tables
need all four levels for each segment. Five nodes let the node pool run out
within eight calls. A user stack of two return addresses lets a handler be
interrupted by another signal once more. In `shell_tools` four nodes are the
least for equal names at two depths with a file behind the inner directory;
with 6 descriptors a child of part3 runs out of them and with 10 it does not,
and an `int` of 8 values overflows for a directory with two files. Three bytes do not fit a pipe
of two, so that writers block.

`vmarea` has a VIEW, the list: the last call and its result say nothing of what
comes next, and TLC compares every step with `AddressSpace` before it looks
whether the state is new.

Symmetry is used in `filetable` for pages of the allocator, in `cow` for frames
and values, and in `file_io` for file objects and names; all check safety
properties only. Deadlock is checked wherever the program cannot stop by
itself; `scheduler`, `signals`, `cow`, `filetable`, `file_io`, `kernel_memory`
and `shell_tools` have states in which nothing more happens (a crash or overrun,
no process left, a pipe with both ends closed, the bound on calls reached, the
program ended). `scheduler` has a CONSTRAINT that stops behind the first misled
exit: dead contexts may run there, and its properties say nothing about it.

Scope that is a choice, not a bound: `cow` has processes made by init, cfork and
vfork only, mprotect of one page and no hints, and it and `kernel_memory` shrink only over frames nobody else maps;
`file_io` has no negative seek; `parallel_hash` scans as many slots as
there are threads; `vmarea` has no munmap of length 0. Section 6 says what
happens outside.

## 4. Fairness

- Threads of Assignment 4 are kernel-scheduled pthreads: weak fairness of the
  step of each thread. The mutex and the condition variable are not assumed to
  be fair, and spurious wake-ups may happen but need not.
- `Signals`: weak fairness of the timer interrupt (`handle_irq`) only. The timer
  is periodic and user code cannot mask it. No process is assumed to make any
  call, to fault, or to return from a handler.
- `shell_tools`: weak fairness of each process of the pipeline, and of the walk.
  Processes are scheduled by the host; the command at the end is assumed to
  read what it is offered or to exit, which is how the program uses it.

Termination of `rwlock` holds because a writer that failed waits until it sees
the counter at `W`; if it tried again at once, two writers could fail against
each other for ever (the mutant of that property).

## 5. Proofs

Each proof module extends the module it is about. Its invariant `IInv` was
checked with TLC on a small instance first; then `Init => IInv` and
`IInv /\ [Next]_vars => IInv'` are proved with one lemma per action, and the
theorems follow from it.

| Module | Theorem | States | For all |
|---|---|---|---|
| `RWLockProofs` | `TypeCorrect`, `Inductive` | `Spec => []TypeOK`, `Spec => []IInv` | finite sets of fewer than `W` threads, `W`, `Iters` |
| | `Accounting` | `Spec => []CounterAccounts` | |
| | `Exclusion` | `Spec => []MutualExclusion` | |
| | `FreshWrites` | `Spec => []NoStaleWrite` | |
| | `Total` | `Spec => []WriteTotal` | |
| | `Implements` | `Spec => Refinement`, the code implements `RWLockAbstract` | |
| `ParallelHashProofs` | `Inductive` | `Spec => []IInv` | tables, keys, inputs, and up to `Scanned` threads |
| | `Sound` | `Spec => []TableSound` | |
| | `AssertionsHold` | `Spec => []AssertsHold` | |
| | `TakesEffectInOrder` | `Spec => SerialOrder`, the code implements `OrderedStore` | |
| | `PrintsTheSame` | `Spec => []SameAsSerial`, the results and the final table are those of `SerialHash` | |
| `MemoryProofs` | `ListWellFormed` | `AreaSpec => [](WellFormed /\ Sorted(list))` | sizes of the region and of pages, limits, lengths, protections |
| | `ListStaysSound` | `AreaSpec => []ListSound` | the same, `0 \notin UnmapLengths` |
| | `MapPlacesRight`, `ProtectNoHole` | `AreaSpec => []PlacesRight`, `[]ProtectsNoHole` | as `ListWellFormed` |
| | `ListImplementsAddressSpace` | `AreaSpec => Refinement`, the list implements `AddressSpace` | |
| | `MappedOnly` | `Spec => []PresentOnlyMapped` | processes of cfork and vfork, pages, frames, values |
| | `SharersStayCounted` | `Spec => []SharersCounted` | the same, `~ShrinkShared`, `RefLimit <= 255` |
| | `EntriesStayInside` | `Spec => []EntriesFollowAreas` | and mprotect of one page |
| | `MemoryIsPrivate` | `Spec => SeparateMemory`, copy-on-write implements `PrivateMemory` | as `SharersStayCounted`, `Hints \subseteq {0}` |
| `KernelMemoryProofs` | `ObjectsStaySound` | `ObjSpec => []ObjectsSound` | ranges of classes, sizes of pages and of the node pool, calls |
| `FileTableProofs` | `Inductive`, `CountsExact`, `EndsTracked` | `Spec => []IInv`, `[]RefCountExact`, `[]PipeEndsTracked` | processes, descriptors, objects |
| `SchedulerProofs` | `Inductive`, `OneRuns`, `VforkParentWaits`, `CleansUp` | `Spec => []IInv`, `[]OneRunning`, `[]ParentWaits`, `[]CleanupAtLastExit` | context tables, sleeping times, creating calls |
| `SignalsProofs` | `Inductive`, `RunsItsOwn`, `ComesBack` | `FairSpec => []IInv`, `[]OwnHandlers`, `[]ReturnsToProgram` | context tables, handlers, depths of the stack |
| | `KeepsRegisters` | `FairSpec => RegistersKept` (an action property) | |
| `DataPathProofs` | `BlocksInductive`, `BlocksSerial` | `Spec => []BlocksIInv`, `Spec => []SerialHashes` | threads, sizes of files, blocks and words |
| | `PipeIsFifo` | `MCSpec => Fifo`, the ring buffer implements `ByteQueue` | sizes of the pipe, bytes, lengths |
| | `FilesInductive`, `NamesUnique` | `MCSpec => []FileIInv`, `[]OneInodePerName` | inodes, names, file objects, sizes |
| | `SizesFollow` | `MCSpec => SizeFollowsWrites` (an action property) | |
| | `StayInPlace` | `MCSpec => []TransfersInPlace` | the same and all lengths of 32 bits, with `Offsets \subseteq Forward` |
| | `PipelineInductive`, `ArrivesComplete` | `PipelineSpec => []PipeIInv`, `[]PipelineComplete` | outputs of grep, sizes of the pipes |

### Assumptions

They are the named `ASSUME`s of the modules, which TLC evaluates in every run.

- `RWLock`: fewer threads than `W` (the program has at most 64 and `W` is
  2^48), finitely many of them.
- `BlockHash`: at least one thread (`main` refuses less), sizes above 0.
- `ParallelHash`: a table with an entry, keys other than 0, inputs that are
  sequences of operations. The theorems have the hypothesis `NThreads <=
  Scanned`: with 33 threads the scan misses a slot (section 6) and they fail.
- `VmAreas`: a region of at least a page, which does not begin at page 0, and
  rounded lengths that are not above its first page (4 GB in `mmap.c`, so that
  the ends of ranges do not wrap). `ListStaysSound` has the hypothesis that
  nobody calls munmap with length 0, which splits an area (section 6).
- `CowMemory`: the data segment lies below the mmap region. `MappedOnly` needs no
  more. All four theorems are about the calls of this module, which fork and
  clone are not (section 7): after a fork `MappedOnly` and `EntriesStayInside` do
  not hold of the program. Three of its theorems have hypotheses, each a defect of section 6:
  `~ShrinkShared` (`do_unmap_user` frees frames whatever their counts),
  `RefLimit <= 255` (the count is a u8) and, for `EntriesStayInside`, mprotect of
  one page (the loop of `vm_area_mprotect` changes the first entry only; the run
  `mprotect_pte` shows what happens otherwise). `MemoryIsPrivate` excludes hints:
  one at the end of the last area makes MAP_POPULATE replace entries that are
  there. It needs no hypothesis on mprotect.
- `ObjectAllocator`: more than one class, sizes from 1 to that of the largest
  class (`os_alloc` refuses others), a pool of at least one page.
- `FileTable`: finitely many file objects.
- `Scheduler`, `Signals`: a slot besides the swapper's; finitely many sleeping
  times (an argument is a machine integer); no handler at a program's address.
- `RegularFile`: `U32` exceeds four times the size of a file; lengths are any u32.
  `StayInPlace` has the hypothesis that arguments of lseek are not negative and
  no sum leaves an int (`Forward`): the code accepts negative results (section
  6), the run has none. It speaks of the transfers that end; `FilesInductive`,
  `NamesUnique` and `SizesFollow` need no hypothesis.
- `Pipeline`: the output is a sequence, a pipe holds at least one byte.

### Arguments

*RWLock.* Mutual exclusion is not inductive: that a writer which reads 0
is alone is a statement about what the counter contains. `IInv` therefore adds
`CounterAccounts`: the counter is `W` times one less the number of writers
whose subtraction is in it, minus the number of readers whose subtraction is
in it, failed attempts included. The number of readers is below `W`, so the
result of a writer's subtraction is 0 exactly when both sets were empty
(`WriterAdmitted`) and that of a reader's is negative exactly when some writer
is in (`ReaderRefused`). Each action moves at most one thread into or out of
one set (`CountMoves`, `Worth`), and `NoStaleWrite` follows because only the
lock's owner stores `wr_ctr`. `WriteTotal` speaks of the end only; on the way
`wr_ctr` is 5 times the number of pairs of a thread and an iteration whose store
has been made (`TotalInv`). The refinement
maps holders to `readers` and `writers`; failed attempts are stuttering steps.

*BlockHash.* `dataptr = BLOCK_SIZE * optr` holds whenever nobody is between the
two updates (`PointersAgree`, `MutexHeld`), so the slot a thread takes belongs
to the block it takes (`SlotsHeld`), and every slot below `optr` has been given
to exactly one thread, which fills it or has filled it (`SlotsGiven`).

*ParallelHash.* A thread at work has the earliest operation on its key that
anybody has taken (`InOrder`), by the scan of `read_op`; hence no two threads
work on one key (`Exclusive`). Entries never become empty again, and only the
thread that has a key can bring it in, so what a probe has passed holds neither
the key nor an empty entry for as long as it runs, though it holds one entry
lock at a time (`Probing`). A probe that stops at an empty entry, or after a
round, therefore knows that its key is nowhere (`Stopped`), and a fresh insertion
does not double it. Each entry in use was taken by a PUT of its own
(`PutsDone`), and `used` exceeds the keys at most by the deletions whose count
is outstanding, which hold entries of their own (`UsedBound`): this bounds both
assertions. In the refinement an operation takes effect when its thread finds
the entry.

The serial program is one evaluation of a recursive function, which the proof
solves: each of its operations keeps the table sound and changes nothing but its
key (`SerialStops`, `SerialWrites`, `SerialExecutes`), and `Run` is the end of
the sequence of tables so obtained (`SerialRuns`). `SameInv` then says that
whatever of the input has been executed in parallel, for each key a prefix of
its operations, gave the serial results, and that the key's data is what the
serial table holds after that prefix; since a thread exits only when all
operations are taken, the prefixes are complete at the end (`EndsSame`).

*VmArea.* The list is sorted, its areas are not empty and lie in the region
(`Sorted`), and neighbours that touch differ (`Merged`). All calls are described
page by page (`Has`): what a list maps at a page after `Place`, `Unmap`,
`Reprotect` and `MergeAll`, given what it mapped before (`PlaceRight`,
`UnmapRight`, `ProtectRight`), which is what `AddressSpace` says of the same call;
that a refused munmap lies inside one mapping is what the limit on areas leaves.
`MergeAll` and the flattening of the pieces are
recursive functions; like every recursion in these proofs they are solved by a
sequence of partial results, which exists by a least counterexample
(`Recursion`). That mmap finds the lowest gap and misses none is a fact about
the gaps of a sorted list (`GapCases`, `NoHintPlaces`, `ForwardPlaces`), and
`ProtectNoHole` follows the chain of areas that touch from the first page on.

*CowMemory.* Three invariants build on each other. `MemInv`: contexts that run
have page tables of their own, because a vfork parent waits, and their tables
show only what their areas and data segments have. Almost every call is a step
of one process on its own table, areas and segment (`Own`), so that the others
need no argument. `CountInv`: the number of entries in live tables that name a
frame is at most its count, counted frames are in use, a frame that an entry can
write counts once, and a table has one page for a frame. The inequality is what
makes it inductive, since exit leaves counts as they are; that a table names a
frame once is needed because `pfn_unmap` counts down once for each frame. `HeldInv`:
frames that entries name hold a value. The mapping to `PrivateMemory` is what the
table and the frames show. A store changes one page of one space because the
frame of a writable entry has no other entry; cfork is `Fork`, equal page by page to the
parent at that moment, because every present entry is covered, hence shared; a new frame was in no table because it
was free; every other step only loses pages, of one space (`Loses`).

*ObjectAllocator.* Two arguments that do not touch each other. The pages of the
classes differ, and the next page lies behind all of them, so a page holds
objects of one class; a place in a page is taken once and then belongs to one
object in use or to one position in one free list (`ObjInv`). Objects at
different places of a class are apart because positions are multiples of the
class size (`Product`), and an object that does not lie behind its page ends
inside it (`Quotient`); that `os_free` may put an object into the list of a
smaller class is harmless because its size is still at least that class's
(`LowIs`, `HighIs`). The free lists (`ListInv`): there are sequences of nodes,
one for each class, which the `next` pointers run through from head to tail and
which share no node. `Appended`, `StartList` and `TakenOff` say what
`enqueue_tail` and `dequeue_front` make of one list, `ListChanged` that the
others keep theirs. A node taken from the pool is in no list as long as the pool
was not handed out once, because all nodes from `next_free` on have a NULL next
(`Ahead`); later the last node of a list, whose next is NULL as well, may be
taken, and this is what sets `broken`.

*FileTable.* As long as no call has run past the descriptor table, an object's
count is the number of descriptors that name it, because every step adds or
removes one descriptor and one reference together (`AddRef`, `DropRef`), and the
descriptors an exit has not visited yet still count. The counters of a pipe are
the numbers of file objects at its two ends, and it is allocated while either
is positive (`PipesSound`); a process that has exited names no object.

*Scheduler.* That slots and processor agree (`Placed`) is kept whatever happens,
also when dead contexts run after a misled exit, where the run has its
CONSTRAINT. What is promised to vfork parents (`Honest`) needs in addition that
ticks are left only to contexts that wait and that no two children have one
parent. The page table a call takes exists by counting (`SparePgd`).

*Signals.* The registers of a process are on the processor or in its context;
`IInv` speaks of them wherever they are (`Ctx`). A signal pushes one frame on a
sound stack (`Push`), a return pops it (`Pop`), and a switch saves and loads
without mixing (`Switched`). The swapper needs that it has no alarm.

*PipeBuffer, RegularFile, Pipeline.* The refinement of `ByteQueue` keeps read and write position one
buffer's length of bytes apart modulo the size. For files, that the pages of two
inodes do not overlap is a fact about the recursive function `PagesTaken`
(`StorePositions`); it is proved from an explicit solution of the recursion and
a least counterexample, because the induction theorems of the library take an
operator. For the pipeline, `EndsHeld` says which process holds which end at
which point of its program, and `BytesFlow` that what was received, what is in
the pipes, the byte `tee` has in hand and what is still to be sent make up the
output in this order, whether or not the file took it; the file has what `tee` has
handled (`Handled`) as long as no write failed. In `RegularFile` a length that is
negative as an int moves neither size nor offset, and the offset stays below the
size of a file (`OffsetsInside`), so that the sums of all other transfers do not
wrap. A process that sees the end of its input sees an empty
pipe without a writer; the only writer has then exited, and a process exits by
itself only when its own input has ended.

### Only model-checked

- Liveness and fairness (`Termination`, `SleepEnds`, `NoStarvation`, `AllEnd`):
  out of the prover's reach, like everything about `ENABLED`.
- `WalkRight`: the lines part1 and part3 print are compared with sums and paths
  over the whole tree, which recursive operators and folds compute; that the walk
  agrees with them is an induction over the tree.
- `PagesOwned`, `PagesAccounted`: stated up to the first page that is given out
  twice; for every size of the regions one would also have to exclude that memory
  runs out, which the callers of `os_pfn_alloc` do not test for.
- The violation that `mprotect_pte` finds.

## 6. Disagreements between the code and its documents

With a run that shows it:

- `mprotect_pte`: the loop at `mmap.c:496` calls `change_permissions` with the
  first address each time, so the other pages keep their entries
  (assignment3.tex:425: "the access rights should also be updated accordingly
  in the underlying physical pages as well if they exist").

Met while modelling, kept in the models and left out of the scope of the
passing properties:

- `mmap.c:813`: with a hint at the end of the last area mmap returns the start
  of that area, not of the new pages (assignment3.tex:395: "On success, mmap()
  returns a pointer to the mapped area"). `ReturnsMapping` (part of
  `PlacesRight`) names the case
  (`ExtendsLast`). With MAP_POPULATE the entry is then present and its frame is
  lost (`mmap.c:156`; the comment at 155 says it cannot be).
- `mmap.c:335`: the prediction of `mprotect` counts on merging with a list
  neighbour that need not touch the range, so 129 areas are possible
  (assignment3.tex:665: "There can be at most 128 vm_area"). `LimitKept` is
  about mmap and munmap.
- `mmap.c:280`: a range that starts in the last area is accepted whatever its
  end ("//check continuous range or not", mmap.c:275). `ProtectsNoHole` stops
  at the end of the last area.
- `mmap.c:1090`: munmap of length 0 inside an area splits it into two areas
  that touch and have equal flags; `FullyMerged` is checked without it.
- `entry.c:79`: shrink frees the frame of a data page whatever its count. With
  `ShrinkShared` = TRUE TLC violates `SharersCounted` in 6 states (expand,
  fault, cfork, shrink): the other process goes on using a free frame
  (assignment3.tex:607: "refcount which is used to maintain count of number of
  sharers for a physical memory page").
- `cfork.c:126`, `context.c`: exit does not decrement the counts of the frames
  its page table names, and the count is a u8. With `RefLimit` = 300 and one
  frame TLC violates `SharersCounted` and `SeparateMemory` after 255 rounds of
  cfork and exit: the count wraps and a shared frame is written in place. In
  `cow` the counts stay small, and `SharersCounted` is therefore an inequality.
- `cfork.c:278`: `vfork_exit_handle` makes the slot named by `ppid` READY
  although its process has exited, if the page tables have the same address;
  `do_exit` then finds a READY context and does not clean up (entry.c:213: "If
  the only process alive in system is swapper, invoke do_cleanup() to shutdown
  gem5"). Clone does not set `ppid` at all (`entry.c:332`), so a thread in a
  reused slot can wake a vfork parent at its exit (assignment3.tex:549: "The
  parent continues in waiting state until child exits"). Without `~misled` TLC
  violates `CleanupAtLastExit` and `ParentWaits`.
- `entry.c:283`: with a full context table the NULL of `get_new_ctx` is used
  (assignment3.tex:506: "On failure, -1 is returned in the parent").
- `part-2/main.c:39`: `rd_ctr` is updated under the shared lock, so it need not
  reach the value `main` prints as expected for both counters (line 81).
- `parallel_hash.c:64`: the scan covers 32 slots, `main` admits 33 threads
  (`part-3/main.c:90`).
- `parallel_hash.c:136`: deleted entries are not reused, so the assertion can
  fail with few live keys (`part-3/README:11` says the cap on unique keys can
  be the table size). `AssertsHold` counts PUTs.
- `A2/file.c:77`: the search for a descriptor of a standard stream has no bound
  (`include/context.h:93` declares `files[MAX_OPEN_FILES]`).
- `A2/file.c:229`: lseek accepts offsets behind the end of the file
  (assignment2.tex:457) and negative ones.
- `A2/file.c:189`, `fs.c:252`: a length of 2^31 or more is negative as an int. If
  the sum with the offset wraps it passes both tests, and the loop of `flat_write`
  (a u64 against an int) copies without end. `TransferInFile` leaves such a
  transfer ("runaway") out by name.
- `entry.c:252`: sleep(0) waits for ever; `SleepEnds` is about positive times.
- `A2/memory.c:66`: `get_free_page` searches `size >> 8` words although a word
  has 32 bits, wraps to word 0, and when that is full gives page 32 out again
  (`include/context.h` wants kernel stacks "Must be unique for every context").
  `PagesOwned` is stated up to the first such page.
- `A2/context.c:431`, `entry.c:225`: the last exit frees its kernel stack twice
  and loses the first of two OS PMDs; the table of every other process is never
  freed. A stack fault installs the faulting page twice and loses one, and in a
  clone with an old `next_free` overwrites present entries. `PagesAccounted`
  counts these.
- `A2/entry.c:81`: shrink of rodata frees a page that fork has shared; with
  `ShrinkShared` = TRUE TLC violates `PagesOwned`.
- A page of data or stack that is first read is read-only for good in
  Assignment 2: the later store is a SIGSEGV.
- `A3/memory.c:211`: the last object of a page lies behind it (`Behind`).
  `os_free` rounds a size down and `os_alloc` up, which is harmless because the
  class is then smaller. `node_alloc` runs off the end of its pool, `num_free`
  counts 99 of the 100 pages, and the last node of a list counts as free because
  its next is NULL. `A2/memory.c:189` computes `free_position >> i`, so that the
  objects of a class overlap; it is called at boot only.
- `A2/context.c`, `A3/context.c`: `create_context` clears neither handlers and
  alarm nor the vm_area list, so a restarted init inherits them.
- `A2/entry.c:341`: the frame of a signal is written to the user stack unchecked
  (the comment above it says so). The alarm counts only the ticks in which its
  process runs, and is re-armed each time.
- `A2/fs.c`: inode 0 takes one page too many; the inodes' reference count is
  never used; an open with O_CREAT that fails later leaves the file created.
- `part-3/serial_hash.c:67`: `assert(ctr != hashval - 1)` fails for PUT 2,
  PUT 5, DEL 5, PUT 5 in a table of 3 entries, where the parallel table works.
- `inputgen.c` may draw the key 0, which the tables assert against.
- `part3.c:79`: `recurse` returns an int; a file that cannot be opened counts
  -1; the read ends of the pipes leak; the parent adds an uninitialised value
  when a child dies. `part1.c:61`: a failing chdir is not noticed, and after a
  symbolic link ".." is not where the walk came from. `part1.c:91`: after a walk
  the argument is looked up again from the directory above it, where a relative
  path may be another file, whose lines are printed too; if it is nothing, an
  uninitialised struct stat is tested. `part2.c:81`: the results of creat, open
  and write of the output file are not tested; the file may lack bytes that the
  command has got. `part2.c:92`: the command
  inherits the read end of the first pipe, so grep gets its SIGPIPE only after
  the command has ended.

## 7. Not modelled

- Boot code, interrupt set-up, keyboard, serial port, shell text and formatted
  output: device registers and text.
- User programs and test cases: the models let processes make any call.
- Submission copies (`170635/` directories) of the modelled files, and
  `prefinal.c`, an earlier draft of `mmap.c` that is not compiled.
- `flat_open`, `flat_close` and `flat_remove_inode`, which nothing calls.
- The contents of pages in `PageTables` and of files in `RegularFile`.
- Out of memory: `os_pfn_alloc` returning 0 is not tested by its callers.
- fork and clone in `CowMemory` (they are in `Scheduler`). `do_fork`
  (`A3/entry.c:266`) copies the `vm_area` pointer with the context, while
  `copy_mm` makes page tables of its own for the child. Parent and child then
  change one list: a munmap of one leaves the other with entries no area covers,
  so `PresentOnlyMapped` and `EntriesFollowAreas` are false in the program from
  there on, and it frees nodes the other may still point to, so what the other
  finds later is any memory of the allocator. `do_clone` (`A3/entry.c:332`) gives a
  thread the page table of its maker and leaves the slot's old `vm_area`
  list. cfork copies the list and a vfork child hands it back at its exit; they
  are the calls this assignment adds.
- Descriptors outside the table: `close`, `read`, `write` and `lseek` index `files`
  without a test (`A2/entry.c:404-485`), and the models pass descriptors that are in
  it.
- A NULL handler passed to `do_signal`, which takes a handler back: `Signals`
  registers handlers. Its registers are the rip and the return addresses on the
  stack, so `RegistersKept` says nothing of the others, which the same copies
  move.
- Lengths near 2^32 in `pipe_write`: the sum with the position wraps, the
  test passes and the loop fills what is left of the pipe. To the queue that is a
  write of as many bytes, which `PipeBuffer` has.
- In Assignment 1 symbolic links, directories that may not be entered, and
  lines and paths longer than the fixed buffers.

## 8. Plan

Every part with logic of its own is modelled, and the safety properties of all
parts but two are proved. What remains:

1. `PageTables`: `PagesOwned` and `PagesAccounted` up to the first page given out
   twice, for regions that do not run out.
2. `DirWalk`: `WalkRight`, from a definition of the sums without recursion.
