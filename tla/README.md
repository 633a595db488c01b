# A TLA+ model of the xv6 labs

The repository holds an x86 xv6 kernel with the students' extensions (`src/xv6`)
and the POSIX programs of eight labs (`src/lab-01` ... `src/lab-08`). This
directory models the kernel, the programs with shared state and the algorithms
worth checking, model-checks them with TLC on small instances and proves the main
invariants of twelve of them with TLAPS for all sizes. `PROJECT.json` lists the
components, the runs, the source lines behind every definition, the hazards and
the theorems.

## The system's parts

| Part | Source | Module | State |
|---|---|---|---|
| processes, scheduler, sleep/wakeup, timer | `xv6/proc.c`, `trap.c`, `sysproc.c`, `swtch.S`, `init.c` | `Proc` | partly |
| spinlocks, interrupts, `intena` | `xv6/spinlock.c`, `sched`, `scheduler`, `trapasm.S` | `Spinlock` | modelled |
| page allocator, address spaces, exec | `xv6/kalloc.c`, `vm.c`, `exec.c` | `Mem` | partly |
| console input and cursor | `xv6/console.c` | `Console` | partly |
| pipes | `xv6/pipe.c`, `file.c` | `Pipe`, `ByteQueue` | modelled |
| open files and descriptors | `xv6/file.c`, `sysfile.c` | `FileTable` | partly |
| buffer cache, sleep-locks, disk drivers | `xv6/bio.c`, `sleeplock.c`, `ide.c`, `memide.c` | `BufCache` | modelled |
| write-ahead log and crash recovery | `xv6/log.c` | `Log`, `AtomicDisk` | modelled |
| inodes, directories, calls on names | `xv6/fs.c`, `sysfile.c` | `Inode` | modelled |
| contents of files | `xv6/fs.c`, `file.c` | `FileData` | modelled |
| file system image | `xv6/mkfs.c` | `Mkfs` | modelled |
| library routines | `xv6/string.c`, `ulib.c`, `printf.c`, `cprintf` | `Libc` | partly |
| user memory allocator | `xv6/umalloc.c` | `Umalloc` | modelled |
| user-level threads | `xv6/uthreadlib.c`, `uthread.c`, `uthread_switch.S` | `Uthread` | modelled |
| grep | `xv6/grep.c` | `Grep` | partly |
| shells | `xv6/sh.c`, `lab-02/sh.c` | `Sh`, `Lab2Sh` | partly |
| racing threads | `lab-04/glob.c`, `sched-threads.c` | `Races` | modelled |
| producer/consumer buffer | `lab-05/buf.c` | `BoundedBuffer` | modelled |
| stack of words in shared memory | `lab-05/wordheap.c` | `WordHeap` | modelled |
| page replacement simulator | `lab-07/sim.c` | `PageSim` | modelled |

How the parts interact. The calls on names (`Inode`) and on data (`FileData`) run
inside `begin_op`/`end_op` of the log, which writes through the buffer cache and
the disk driver. A pipe, or an inode, is reached through the file table, whose
reference counts decide when `pipeclose` or `iput` runs. Log, pipes, console,
sleep-locks, `wait` and `sys_sleep` all block with `sleep` and `wakeup` of
`proc.c`. `Proc` models that mechanism itself, at the level of `ptable.lock` and
`swtch`; `Spinlock` is one level below, where a lock is an `xchg` and interrupts
come between instructions. The other modules use what these two provide: what a
spinlock protects is one step, and `sleep` releases the caller's lock and blocks
in one atomic step, because `proc.c:434-437` takes `ptable.lock` before it lets
the caller's lock go and `wakeup` needs `ptable.lock`. `Mkfs` is composed with
`FileData`: the kernel's own `readi` and `bmap` read the image `mkfs` has made.
`Lab2Sh` shares the state of `Sh`, so that the two parsers can be compared on the
same line.

## The modules and the code

A definition named `X_Suffix` is a mutant of `X`: a bug the code could have had,
which must break a property. It is used nowhere else.

### Kernel

**Proc.** One variable per field of `struct proc` (`state`, `pid`, `parent`,
`killed`, `chan`, `kstack`). `lock` and `tickslock` name the CPU that holds
them. `cproc` and `scan` are the scheduler of each CPU, `irq` is a timer
interrupt in progress, `pc` and `ctx` say where a process is in its own code and
whether it is inside `sched`. A stretch of code that takes and releases
`ptable.lock` without `sched` is one action. Code that touches the table without
the lock is an action of its own: the second half of `allocproc`, the middle of
`fork`, and the two reads of `sys_getppid`. `kalloc` and `copyuvm` may fail.
Interrupts arrive only on a CPU that holds no spinlock. User programs are any
sequence of the calls in `Calls`. init forks and waits, and it exits when its fork
fails (`init.c:25-28`) or when it is killed: `exit` then panics (`exit_panics`) and
the CPU stays in `panic`'s loop with interrupts off. `asked` is a history variable,
as is the field `val` of `sys_getppid`'s locals.

**Spinlock.** `acquire` and `release` with `pushcli` and `popcli`, on several
CPUs, under interrupts, and across `sched`, `scheduler` and `forkret`. A kernel
thread has a stack of frames, its own code and interrupt handlers on top of it.
Kernel code is any code that takes locks in ascending order, handlers included.
`ptable.lock` is somewhere in that order: locks under which `wakeup` is called come
before it, and `kmem.lock`, which `wait` takes through `kfree`, comes after it.
`savedif` is `sched`'s local variable; a new process gets its flags from its trap
frame instead.

**Mem.** The free list is a set, and every loop that allocates goes one page per
step, so that processes compete for the last pages and each allocation may be the
one that fails. Page directories, page-table pages, kernel stacks and user pages
are counted apart. Permission bits and the copying of bytes are left out. The TLB
is taken to be flushed where the code calls `switchuvm`.

**Console.** The three indices of the input ring modulo `CUINT`, `cons.lock`
(`consoleread` keeps it except while it sleeps), the keyboard interrupt with one
character per step, and the cursor of `cgaputc`. `consoleread` tests `killed` and
goes to sleep in two steps, between which `kill` may come. Characters are classes.

**Pipe.** The ring with its `uint` counters modulo `UINT`, the two ends, the
sets of processes that hold them, and `p->lock`, which is explicit because a
read or write keeps it over several iterations. `kill` needs only `ptable.lock`,
so it interleaves everywhere. `fileclose` and `pipeclose` are two steps, because
`fileclose` lets `ftable.lock` go before it calls `pipeclose`. `ByteQueue` is
what a pipe promises: a bounded first-in first-out queue.

**FileTable.** The table of open files with the descriptor tables of all
processes: `open`, `pipe`, `dup`, `close`, and `fork` and `exit` as far as they
copy and close descriptors one by one. A call that fails half way has a list of
files still to close. Of a pipe there is which ends are open; of inodes, how many
references open files hold.

**BufCache.** `bget` with its two scans, the least recently used list, the
sleep-lock of each buffer, `log_write` pinning a buffer with `B_DIRTY`, and below
either `ide.c` (queue, interrupt, failed reads) or `memide.c` (synchronous). The
actors are hands, one for each buffer a process has at a time: `install_trans`,
`bmap` with `balloc` and `itrunc` with `bfree` have two. When `bget` finds no buffer
it panics, and the machine stays in that state.

**Log.** The disk (`home`, `logd`, `head`) survives `crash`; everything else does
not. Each block write of `write_log`, `write_head` and `install_trans` is a step.
`log_write` is two steps, because it tests `log.lh.n` before it takes
`log.lock`. A `write_log` past the log area overwrites whatever block is behind
it. The buffer cache is abstracted to the contents `bread` returns. A panic
is a value of `mode`. `AtomicDisk` is what the log promises: the writes of complete
calls become durable together, and a crash goes back to the last durable state.

**Inode.** The inode cache with `ref`, `valid` and the sleep-lock of each slot,
the inodes and directory entries on disk, and the calls `open`, `link`, `unlink`,
`mkdir`, `mknod` and `chdir` with their error paths. A step goes from one
sleep-lock to the next place where the process may have to wait; `iput` is three
steps. The links and entries of a call are written as the code writes them;
that they become durable together is what `Log` shows.

**FileData.** Blocks, the bitmap, direct and indirect pointers, and open files
with offsets. `filewrite` goes in chunks and `writei` one block per step, with
`balloc` failing when the disk is full. `content` is a history variable: what the
file should read as. Two processes that share an open file and write to it at
the same time are not modelled.

**Mkfs.** `main` and `iappend` of `mkfs.c`, one turn of a loop per step, on a
command line of files of every size. Its unit is one directory entry.

### Libraries and programs

**Libc.** Copying, comparing and number conversion as operators on small arrays;
the loops of `printf`, `cprintf` and `gets` one character per step. What
`skipelem`, `dirlink` and `namecmp` do with names is composed from them, which
justifies that `Inode` takes names as values.

**Umalloc.** The circular free list with `freep`, coalescing and `morecore`, as a
function from addresses to headers.

**Uthread.** The thread table and `thread_schedule` with its circular search,
driven by the program `uthread.c`. There is one flow of control. A `thread_create`
that finds no free slot writes behind the table; the model ends there (`overrun`).

**Grep.** The matcher of `grep.c` as recursive operators, `Means` as a reference
definition of what a pattern matches, and the loop that cuts lines out of a
buffer of `GBUF` bytes, whatever a read delivers. `gkept` is a history variable, the
text not dropped. `main`'s loop over files is left out.

**Sh, Lab2Sh.** The recursive-descent parsers over the characters of the line,
`nulterminate` (or `mkcopy`), and `runcmd` with its file descriptors. `open` of the
console may fail, and then the shell goes on with what it has. The code of
both `runcmd`s runs only the left side of a pipe or list, and so does the model.

**Races.** One step per load or store of the shared variable; the store of
`buf[pos]` comes a step after the load of `pos`. `Scheduled` is the
rule of the scheduling policy the program asks for.

**BoundedBuffer.** Producer and consumer, one step per statement that touches
shared state, and the `main` that destroys the semaphores and the mutex while
both threads run. Destroying is undefined in POSIX; the model takes the outcomes
glibc can produce (external, see the module's header).

**WordHeap.** The commands `-c`, `-d`, `-w`, `-r` and `-p`, one step per library
call or copy. A slot is its bytes, and a word is so many letters: `strncpy` of
`strlen` bytes writes no NUL and goes on into the next slot when the word is too
long, and `printf` shows what it finds up to a NUL. `-c` runs over a region that
exists and keeps its bytes; under commands in progress it makes the region "torn",
about which nothing is claimed. The history variable `clean` says that every word
had room for its NUL and `-c` left no words behind.

**PageSim.** One action per pair read from the input. The history variable
`order` is what the ideal algorithm would hold in memory. The `memoria` of a page
is not initialised by the program, so its first read gives any number. An index of
-1 that results is where the model stops (`undefined`). `astray` is a history
variable: the pages whose frame number a FIFO eviction made wrong.

## Runs

Several runs put independent components side by side in one MC module: a
variable (`part`, `table`, `layer`, `prog`) says which one is at work, and the
others stay in one initial state. States add up and do not multiply.

| Run | Instance | Result |
|---|---|---|
| `pipe_fifo` | 2 processes, 2 byte values, 2 slots, counters modulo 4, calls of up to 2 bytes | the pipe implements `ByteQueue`; once the other end is closed every call returns |
| `log_crash` | 2 calls of 2 blocks, 3 blocks with 2 contents, a crash at any step | `Log` implements `AtomicDisk` (so a commit excludes calls); a quiet system is durable |
| `log_space` | 3 calls of 2 blocks, 5 blocks, room for 4 and a separate header | the log never overflows; whoever waits for space is woken; recovery ends |
| `log_reserve` | 3 calls of 1 block, `nlog = LOGSIZE = 3` | violated: finding 1 |
| `proc_life` | 2 CPUs, 3 slots, all calls, `ticks` modulo 3 | one CPU per process, the lock's hand-over, no lost exit, the process tree, no oversleeping, the life cycle, `getppid` |
| `proc_live` | 1 CPU, 3 slots, init may be killed or fail to fork | until init's exit panics: no starvation; killed processes die; orphans are reaped |
| `proc_kills` | 2 CPUs, 3 slots, 3 forks | violated: finding 2 |
| `kernel` | pipe: 3 processes, 1 slot, counters modulo 2 | no lost wakeup, no use after `kfree`, end of file only after the last writer |
| | console: 2 readers, ring of 2, indices modulo 4, a screen of 2 by 3 | the ring is a queue of complete lines plus one being edited; a full ring can be read; a reader sleeps only when there is nothing to read; the cursor stays on the screen |
| | memory: 3 slots, 13 pages, 2-byte pages, `KERNBASE` 8, `uint` modulo 16 | every page is free or has one owner, `sz` is what is mapped, no panic of `vm.c` and `kalloc.c` |
| | locks: 2 CPUs, 2 processes, `ptable.lock` and a lock above it | one holder per lock; interrupts are on exactly where they should be; no CPUs spin for each other; no panic |
| `tables` | cache: 3 hands, 2 buffers, 3 blocks, 1 pinned block, both drivers | one buffer per block, reads return the last write, sleepers have a waker, `bget` panics only when buffers are really out |
| | files: 2 processes, 3 files, 2 descriptors each, 1 page for pipes | reference counts are the descriptors and the calls in progress; pipes and inodes live exactly as long as a file needs them |
| `fs` | names: 2 processes, 3 calls out of 13, 4 inodes, 3 slots in the cache, any of the initial trees | references and links are right, the cache is the disk, an open inode is not freed, no panic but the three named in the module |
| | data: 2 open files on 2 inodes, 8 blocks of 2 words, 1 direct pointer, 3 writes of up to 3 words | a file reads as it was written; one owner per block; a chunk fits its reservation |
| | mkfs: up to 3 files of up to 7 units, 9 blocks | the kernel reads the files and the root directory `mkfs` was given, and the bitmap is exact |
| `fs_deadlock` | as `fs` | violated: finding 3 |
| `programs` | every line of up to 4 characters (6 for the nesting ones, 7 for words and redirections), 3 arguments | both shells parse by the grammar, lose no string, agree with each other and redirect as typed |
| | 7 pages of 2 processes, 3 frames, 4 swap frames | no page is lost; page table, memory contents and swap exhaustion are those of LRU, and of FIFO until a stale frame number, after which the wrong rows are those it reached |
| | requests of 1, 3 and 8 bytes, heap of 14 units | blocks and free blocks partition the heap; neighbours are merged; NULL only if nothing fits |
| | 36 patterns, texts of up to 5 characters, buffer of 4 | the matcher means what patterns mean; of the text not dropped the matching lines are printed however reads cut them |
| | 5 items, 2 slots | items in order, both threads finish |
| | 0 to 8 threads in a table of 8, 0 to 2 yields | the table is overrun exactly when the threads do not fit; otherwise round robin, one thread at a time, the program ends |
| | 2 processes, 3 slots of 3 bytes, words of 1, 2 and 4 letters | the heap is a stack, pops return its top, no place is lost, and the bytes are whole words while words have room |
| | 2 threads with 4 loops; 2 threads with 3 items | how many increments can be lost; writes stay in the buffer; FIFO is in order |
| | memory of 5 bytes, names of up to 5 characters in arrays of 3 and 4, 8-bit numbers, formats of up to 4 characters | `memmove`, names, numbers, formats and `gets` compute what they should |

**Properties.** Statements about one data structure are conjuncts of one
property, under the names they have in the module. TLC reports the property, and
the trace shows which conjunct failed. The mutant of such a property breaks one
of its conjuncts.

| Property | Conjuncts |
|---|---|
| `SwtchIsSafe` | `TypeOK`, `OneCpuPerProcess`, `LockHandover` |
| `FamilyTree` | `TreeUnderInit`, `WaitMissesNoExit` |
| `LegalSteps` | `LifeCycle`, `GetppidOfLiveParent` (action properties) |
| `ConsoleKeepsLines` | `CTypeOK`, `RingIsLineQueue`, `FullRingIsReadable`, `SleepingReaderHasNothing`, `CursorOnScreen` |
| `MemoryIsOwned` | `MTypeOK`, `PageAccounting`, `SizeIsMapped`, `MNoPanic` |
| `LocksExclude` | `SpTypeOK`, `OneHolder`, `NoSpinCycle`, `SpNoPanic` |
| `CacheIsRegisters` | `BTypeOK`, `OneBufferPerBlock`, `BlockIsRegister`, `BSleepersHaveWaker`, `PanicsOnlyWhenFull` |
| `FilesCounted` | `FTypeOK`, `RefsAreDescriptors`, `ObjectsFollowFiles`, `FNoPanic` |
| `CacheCountsInodes` | `ITypeOK`, `RefsCounted`, `OneSlotPerInode`, `CacheIsDisk` |
| `UsedStaysAllocated` | `LinksCovered`, `OpenStaysAllocated`, `INoPanic` |
| `FileIsBytes` | `ReadsWhatWasWritten`, `OffsetInFile` |
| `BlocksAreOwned` | `OneOwnerPerBlock`, `DNoPanic` |
| `ImageIsMountable` | `KernelReadsImage`, `RootListsFiles` |
| `LineRunsAsTyped` | `ParserIsGrammar`, `StringsSurvive`, `FdsAsRedirected` |
| `RunsAsXv6` | `SameTreeAsXv6`, `FdsAsRedirected2` |
| `SimIsIdeal` | `NoPageIsLost`, `TableMatchesMemories`, `RamHoldsIdealSet`, `SwapFullOnlyWhenUsed` |
| `HeapIsSound` | `HeapPartition`, `BlockHoldsRequest`, `FreeListCoalesced`, `NullOnlyWithoutFit` |
| `GrepIsRight` | `MatchIsMeaning`, `PrintsMatchingLines` |
| `ThreadsTakeTurns` | `UtTypeOK`, `RoundRobin`, `OneRunning`, `EndedTogether`, `OverrunsWhenFull` |
| `WordsAreStack` | `HeapIsStack`, `PopsTop`, `PlacesConserved` |
| `RacesAreBounded` | `PrintedGlob`, `WritesInBuffer`, `FifoInOrder` |
| `CallsAreRight` | `MemmoveCopies`, `SameEntry`, `NameTerminated`, `PrintsNumber`, `PrintsFormat`, `GetsOneLine` |
| `ProgramsEnd` | `BufFinishes`, `UthreadEnds` (liveness) |

`TypeOK` of `Pipe`, `Log` and `BoundedBuffer`, `CommitExcludesCalls`,
`SleepersHaveWaker` and `NoSlotRace` are in no run: they are proved for every
size (see Proofs).

**Bounds, and why they are enough.** Bounds are chosen so that every error path
and every boundary is crossed. `MaxN` bounds the size of a read or write; with 2
in a pipe it crosses the capacity in the middle of a call, with 3 in a file it
crosses a block and the beginning of the indirect block. `PIPESIZE` and `UINT`
keep the code's relation (the capacity divides 2^32) and are small enough for
the counters to wrap several times, as do `INPUT_BUF` and `CUINT`. `MaxPid`
bounds the number of forks: with three slots, 3 allows init, a child and a
grandchild; `proc_kills` allows a slot to be used again. `TICKS` = 3 makes
`ticks` wrap during a sleep of 2. In the log, `OpBlocks` is what a call really
writes and equals `MAXOPBLOCKS`, the worst case the reservation is made for.
`log_crash` has a log larger than both calls need, so both run at once;
`log_space` lets only two of three in. `NBUF` = 2 for three hands and a pinned block
lets `bget` run out of buffers as well as recycle them. `NINODE` = 3 is one less
than the inodes, so that `iget` runs out of slots. `PtableLock` = 2 of locks 2 and 3
has a lock taken under it. Words of 1, 2 and 4 letters in slots of 3 bytes leave a
NUL, or run into the next slot. Thirteen pages do not
suffice for three processes of full size, so every allocation fails somewhere.
Three files with two descriptors let a process fill its descriptors and still
find two files for a pipe, so `sys_pipe` fails after its first descriptor.
`MaxCalls` = 3 lets two processes work at once on a name that a third call made.
`MkMaxSize` = 7 is past the largest file (3 blocks of 2), and 9 blocks are
exhausted by three files. `MaxBrk`, `MaxLru`, `MaxBlind`, `MaxLoops` and
`MaxItems` cap what would grow without bound. `INTBITS` = 8 includes the most
negative number. `MAX_THREAD` is the code's own 8.

Symmetry is used in `log_crash`, `kernel`, `tables`, `fs` and `fs_deadlock`,
which check no liveness. Deadlock is not checked where the system may stop:
a closed pipe nobody uses in `pipe_fifo`, killed or closed pipe users and full tables in `kernel`, calls that are used up
in `fs`, a deadlock that is a finding in `fs_deadlock`, and the programs of
`programs`, which end.

**Fairness.** `Pipe` and `Log`: a process inside the kernel keeps running, and a
spinlock that is free again and again is obtained. No process is obliged to make
a call, and no crash is obliged to happen or not to. In `Log`, a call that was
admitted reaches its `end_op`: file system calls have no unbounded loop between
the two. `Proc`: each CPU executes, the timer interrupts a CPU that can be
interrupted again and again, a process that is scheduled again and again makes
progress in the kernel, and init calls `wait` again and again while its forks
succeed (`init.c:34`): the properties say "unless init's exit panicked".
xv6's spinlocks do not queue their waiters, so strong fairness of `acquire` is an
assumption on the hardware. `Uthread` and `BoundedBuffer`: threads keep running,
and a mutex that is free again and again is obtained. The other modules claim
safety only. For `WordHeap` no fairness could be justified: its mutex is not
initialised as shared between processes.

## Proofs

Each theorem holds for every value of the constants that satisfies the named
`ASSUME`s of the modules it is about: any number of processes, CPUs, blocks,
buffers, slots or items, any width of the counters. TLC evaluates those `ASSUME`s
in the runs. Every theorem about a specification is proved the same way: an
invariant that the initial states satisfy and every action preserves, one step
per action, and the property from the invariant. TLC was run on each invariant
before it was proved. What follows says why each invariant has to say more than
its property.

**`Proc_proofs`** (`proc.c`, `trap.c`): `SwitchesAreSafe` (`SwtchIsSafe`),
`TreeAndExits` (`FamilyTree`), `SleepsAreTimed` (`NoOversleep`) and the action
property `StepsAreLegal` (`LegalSteps`). That a process is on one CPU is not
inductive: `ptable.lock` is taken by one context and released by another, so the
invariant says for each CPU whose lock it is, from the process it has and from
the place of that process in its code (`CpuInv`). `FamilyTree` needs that no
two forks fill the same slot (`ForkInv`) and that nobody waits beside a zombie
(`WaitInv`); `NoOversleep` needs that a sleeper whose time is over meets a timer
interrupt that has advanced `ticks` and not yet called `wakeup` (`TickInv`). An
init that exits stays `RUNNING` in `panic`, so that every process keeps a live
parent.

**`Spinlock_proofs`** (`spinlock.c`, `sched`, `trapasm.S`): `MutualExclusion`
(`LocksExclude`) and `FlagsRestored` (`InterruptsAsBefore`). `FlagInv` says that
`ncli` is the number of locks held plus the one a CPU spins for, and that
`intena` of a CPU is the flag of the thread on it; for threads that are off the
CPU, `SavedInv` says it of `sched`'s local variable. That no CPUs spin for each
other follows from the order of the locks: the CPU that spins for the greatest
one would have to wait for a holder that does not spin. `SpinAssumption` asks only
that there be a greatest lock, wherever `ptable.lock` is; that xv6 keeps to one
order is read off the code, not proved.

**`Mem_proofs`** (`kalloc.c`, `vm.c`, `exec.c`, `growproc`, `fork`, `wait`):
`MemoryOwned` (`MemoryIsOwned`). `Owned` says that each page has one holder: the
free list, a kernel stack, a page table or a page table under construction. Every
action moves pages between two or three holders, and two lemmas (`Pair`, `Trio`)
say that this keeps one holder per page. `kfree` never meets a page of the free
list because the two have different holders. The property is not inductive: a
failed `allocuvm` frees what lies between `sz` and the size asked for, which is
exactly what it mapped only because the pages mapped so far are those below the
loop's counter (`Loop`), and freeing a whole table needs to know in which stages
of `fork` and `exec` there is one (`Has`). `copyuvm` finds every page since the
parent cannot change `sz` meanwhile. `MemAssumption` asks for whole pages below
`KERNBASE` and for enough memory for the first process; nothing is asked of the
order in which `kalloc` returns pages.

**`BufCache_proofs`** (`bio.c`, `sleeplock.c`, `ide.c`, `memide.c`):
`CacheIsSound` (`CacheIsRegisters`), for any number of buffers, blocks and hands and
with no condition on them. `bget` may run out of buffers, but only while
`NBUF - LogMax` hands have one: `refcnt` counts hands, so a buffer in nobody's hands
is free or dirty, and dirty ones are at most `LogMax`. `param.h` has
`NBUF = LOGSIZE`: the log can pin 29 of 30 buffers, which leaves one for all
processes, so xv6 itself rests on fewer pinned blocks. A reader sees the last contents because `refcnt` counts
the processes in calls, so that a buffer in use is not recycled, and because the
disk is behind only for blocks with a dirty buffer (`DataInv`).

**`Rings_proofs`** (`pipe.c`): `WakeupsArrive` (`NoLostWakeup`), `UseBeforeFree`,
`EofIsFinal`, `PipeTypes`, and `PipeIsQueue`, the refinement of `ByteQueue`. The
invariant says who holds `p->lock` (`LockInv`), how references and open flags
agree (`RefInv`, `EndsInv`), that sleepers have a reason (`SleepInv`), and that a
reader in the copying loop has found bytes or no writer (`CopyInv`).
`NoLostWakeup` is not inductive alone: it needs to know that only the holder of
the lock can be changing the ring. The refinement maps the ring to the sequence
of bytes between the two counters. It needs that at most `PIPESIZE` of them wait
(`CountInv`) and that `PIPESIZE` divides `UINT`, so that a counter which wraps
goes on to the next slot.

The same module has the ring of `console.c`: `LinesAreKept`
(`ConsoleKeepsLines`). `C('U')` goes back to the last newline, which is the whole
line only because the line being edited has none; a ring without a complete line
has room only because the character that fills the ring ends the line. Both are
in `CInv`. A reader that has decided to sleep holds `cons.lock` until it does, so a
line cannot end in between; a `kill` can.

**`FileTable_proofs`** (`file.c`, `sysfile.c`, `fork` and `exit`):
`FilesAreCounted` (`FilesCounted`), for any finite set of processes and any
number of files, descriptors and pipe pages. A step changes one descriptor and
what one call has in its hands, and the count of the file by the same amount
(`DescriptorChange`, `HandsChange`, `RefsChange`). The equation is not inductive
alone. `dup` installs its descriptor before it counts it, so the count may lag
behind; it is at least 1 all the same, because such a `dup` has two descriptors
of the file (`DupInv`, `Named`). A pipe's end is closed once only because no two
files have the same end (`EndInv`), and for that a file that gets its type must
have one owner (`NoneInv`). That no descriptor is left when `fileclose` empties a
file follows from the count itself, in the next state (`Unnamed`).

**`Log_proofs`** (`log.c`): `CommitAlone` (`CommitExcludesCalls`),
`QuietIsDurable`, `WakersExist` (`SleepersHaveWaker`), `TypeCorrect` and
`AtomicCalls`, the refinement of `AtomicDisk`. The invariant says what is on disk
at each stage of a commit: before the header is written the log holds a prefix of
the transaction and the header is empty, afterwards header and log determine the
contents of every block although only a prefix is installed. The refinement maps
the durable state to "home overwritten by the committed log"; the first
`write_head` is the commit, every other disk write is a stutter. All theorems are
about a log with `Room`: without it `write_log` runs over the blocks behind the log
and none of them holds, so the two invariants are proved together. `LogHasRoom`
(`LogFits`) and `NoCallTooBig` (`NeverTooBig`) are about the space of the log.
They count: entries plus reservations are at most `LOGSIZE` plus the writes of
calls in progress that have their entry (`ReserveInv`). Their hypotheses are the
exact price. `Room`, `LOGSIZE + OpBlocks - MAXOPBLOCKS <= NLOG - 1`, suffices for
the entries to fit; `Spare`, one entry more on disk and in each reservation, for
`log_write`'s test never to fail. With `nlog = LOGSIZE`, as `mkfs` makes it, they
say that calls must write fewer than `MAXOPBLOCKS` blocks, which is the other side
of finding 1. `log_space` and `log_crash` are instances with `Room`.

**`Threads_proofs`** (`uthreadlib.c`, lab-04, lab-05):

- `TurnsAreTaken` (`ThreadsTakeTurns`): the invariant says how far every thread
  is, seen from the one that runs; those before it in the table are one turn
  ahead. The circular search is shown to find the next thread of the table, for
  every `MAX_THREAD`. While main creates threads it says which slots are taken, so
  that the table is full exactly when one thread too many is asked for.
- `InOrder`, `SlotsApart` (`NoSlotRace`), `TypeCorrect` of `buf.c`: the values of
  the semaphores are determined by the two positions. The mutex does not occur in
  the invariant, which is why its destruction does no harm.
- `WordsAreKept` (`WordsAreStack`) of `wordheap.c`: a semaphore's value plus the
  commands between their `sem_wait` and `sem_post` is the number of words, or of
  free slots. That holds for words of any bytes up to two slots
  (`WordHeapAssumption`); that a pop prints the word pushed is proved for words with
  room for their NUL, as long as `-c` left none behind (`BytesInv`). Of a torn region
  nothing is claimed.
- `LossIsBounded` and `RacesBounded` (`RacesAreBounded`) of `glob.c` and
  `sched-threads.c`. A thread that has been through the loop once has seen a
  value of at least 1, hence stores at least 2. The position of `sched-threads`
  is at most the number of finished rounds, so that also one loaded a step before
  the store is inside the buffer, and under `SCHED_FIFO` the threads
  are finished, at work and not begun, in this order.

Only model-checked:

- liveness, in every module, which the prover cannot do;
- what the recursive definitions of `Sh`, `Lab2Sh`, `Grep`, `Libc` and `Umalloc`
  compute, which would be inductions over data;
- `Inode`, `FileData`, `Mkfs` and `PageSim`, which count links, blocks and pages
  with folds, about which nothing can be proved here for every size, or with
  recursive definitions.

## Findings

1. `log.c:218`: `begin_op` reserves from `LOGSIZE` data blocks, but `mkfs` makes
   `nlog = LOGSIZE` with the header among them. Admitted calls that respect
   `MAXOPBLOCKS` run into "too big a transaction". `LogFits` is checked with
   `NLOG = LOGSIZE + 1` for this reason. With `NLOG = LOGSIZE` it fails as well,
   because two `log_write`s can pass the unlocked test on the last free block.
2. `proc.c:486`: a fork that fails leaves its pid in an `UNUSED` slot. `kill` of
   that pid marks the slot, and the next process there is born killed.
3. `fs.c:334`: `create` calls `iunlockput` on the directory with the new inode
   locked, and `iput` takes the directory's lock again. An `unlink` of the same
   name holds the directory and waits for the inode: both wait for ever.

Observations that have no run of their own. Each is a named exception in the
property it concerns.

- `pipe.c:86`: a writer that stored bytes and is killed while the ring is full
  returns without `wakeup(&p->nread)`; a reader stays asleep on a pipe that has
  bytes. `NoLostWakeup` speaks of readers only while nobody is killed.
- `pipe.c:86`, `107`, `console.c:246`: a `kill` between the killed test and `sleep`
  is not seen until the process is woken for another reason.
- `sysproc.c:113`: `getppid` can return 0 or a stranger's pid when the parent
  exits during the call; `GetppidOfLiveParent` states what does hold.
- `uthreadlib.c:61`: the branch "the current thread is the only runnable thread"
  is never taken. A single thread that yields hands control to main, which
  prints "all threads ended." `EndedTogether` excludes one thread.
- `proc.c:168-170`: `sbrk(-sz)` frees everything, but growproc takes the 0 that
  `deallocuvm` returns for an error and keeps `sz` (`SizeIsMapped`).
- `sysfile.c:227`: `..` of a directory that was removed while it is a current
  directory can lead to a freed inode and "ilock: no type" (`INoPanic`).
- `mkfs.c:161`: a root directory that fills its blocks exactly gets a size one
  block too large (`RootListsFiles`). The Makefile's list does not fill one.
- `grep.c:29-30`: when a read leaves the buffer without a newline, the read and the
  remainder of an earlier line are dropped (`PrintsMatchingLines`).
- `bio.c:92`: transactions that pin what they may leave one buffer for all
  processes; `bget` then panics (`PanicsOnlyWhenFull`).
- `fs.c:261`: 100 open files can refer to more inodes than `NINODE` = 50 slots, and
  `iget` then panics (`INoPanic`).
- `init.c:27`: a failing `fork` of init is the end of the system
  (`OrphansReaped`).
- `uthreadlib.c:84-91`: with the table full a thread is created behind it
  (`OverrunsWhenFull`).
- `wordheap.c:66`: a word of `MAX_WORD` letters or more runs into the slot of the
  word before (`HeapIsStack`).
- `sim.c:309`: FIFO eviction does not note the swap frame; a row of the table can be
  trusted unless its page was evicted to a frame of another number or exchanged
  through such a row (`TableMatchesMemories`). No page is lost (`NoPageIsLost`).
- `sim.c:222-228`: `memoria` is not initialised; a 1 or 2 that happens to be there
  makes the program index with -1, or take a page for loaded.
- `syscall.h:26-27` defines `SYS_pscnt` twice and `SYS_pgcnt` never, so that
  `syscall.c` does not compile as it stands. No model depends on the numbers.

## Not modelled

- Boot code, interrupt controllers, segment set-up (`main.c`, `mp.c`, `lapic.c`,
  `bootmain.c`, ...): device programming in a straight line.
- System call entry (`syscall.c`, `usys.S`, `vectors.pl`): a dispatch table and
  the fetching of arguments, without state of their own.
- `procdump`, `sys_pscnt`, `sys_uptime`, `sys_trace`, `sys_answer`, `sys_pgcnt`
  and `filestat` read or print and change no state of another part. `sys_pscnt`
  scans the table without the lock; a scan position per process would multiply
  the states of `proc_life`.
- Page permissions, `loaduvm`, `copyout`, the ELF checks of `exec`: copying and
  arithmetic on addresses, with memory contents `Mem` does not have.
- Scan codes and the serial port (`kbd.c`, `uart.c`): tables and port accesses.
- `cd` lines of the two shells: they call `chdir` in the shell itself. `main` of
  `grep.c`: it opens its files one after another.
- The other user programs and `usertests.c`: sequential clients of the system
  calls. `lab-01`, `lab-06`, `lab-08` and `maps.c` likewise; `lab-03` depends on the
  host's scheduler and on wall-clock time; `benchmark.c` and `threads.c` measure
  and print; `msgbox.c` and `canvas.c` make one POSIX call per run.
- Failures of the host's file calls in `mkfs`, thread creation failing in
  `lab-04`, and `malloc` failing in the shells.

## What could come next

A proof of the safety part of `Inode`: `CacheCountsInodes` counts the entries of
the inode cache the way `RefsAreDescriptors` counts files, and its lemmas on
cardinalities would serve. `OneOwnerPerBlock` of `FileData` would first have to be
stated as "every block has one owner" instead of as a sum, as `PageAccounting` of
`Mem` is.
