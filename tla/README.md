# TLA+ models of c-cpp-projects

The repository is a collection: an xv6 kernel with copy-on-write and swapping
(`src/c/os-master`), a restaurant simulation and a chat client
(`src/c++/spl`), and small exercises. The kernel carries nearly all of the
logic that is hard to get right, so the models begin there; the two C++
programs, the shells and the allocator follow.

## 1. Inventory

### The kernel (`src/c/os-master`)

| Component | State | Operations | Correct when |
|---|---|---|---|
| Write-ahead log (`log.c`, part of `bio.c`) | `log.lh`, `log.outstanding`, `log.committing`, the log area of the disk, dirty buffers | `begin_op`, `log_write`, `end_op`, `commit`, `recover_from_log` | a group of calls is on the disk wholly or not at all after any crash; the log does not overflow; waiting calls are woken |
| Locks and scheduler (`spinlock.c`, `sleeplock.c`, `proc.c`, `trap.c`) | spinlocks, `cpu.ncli`/`intena`, `proc.state`/`chan`, the sleep lock | `acquire`, `release`, `pushcli`, `popcli`, `scheduler`, `sched`, `yield`, `sleep`, `wakeup`, `acquiresleep`, `releasesleep`, timer | a stack runs on one processor; sleep locks exclude; no wakeup is lost; everybody gets a turn |
| Life of processes (`proc.c`, `trap.c`) | `ptable`, `nextpid` | `fork` (`allocproc`), `exit`, `wait`, `kill` | the family tree stays whole, nothing leaks, the killed exit, orphans are reaped |
| Pipes (`pipe.c`, `file.c`) | ring buffer, two counters, two open flags, file references | `pipewrite`, `piperead`, `pipeclose`, `filedup`, `fileclose` | bytes arrive once and in order; no use after free; nobody sleeps without a reason |
| Frames and copy-on-write (`kalloc.c`, `vm.c`) | free list, `page_refs_num`, page tables | `kalloc`, `kfree`, `copyuvm`, `allocuvm`, `deallocuvm`, `handle_page_fault` | processes have private memories; counts cover mappings |
| Inodes and names (`fs.c`, `sysfile.c`, `file.c`) | inode cache, inodes, directories, `cwd`, open files | `iget`, `ilock`, `iput`, `ialloc`, `namex`, `dirlink`, `create`, `open`, `mkdir`, `link`, `unlink`, `chdir`, `close` | nothing in use is freed; link and reference counts are right; directories form a tree |
| File contents (`fs.c`, `file.c`, `mkfs.c`) | block addresses, bitmap, sizes, shared offsets | `bmap`, `balloc`, `bfree`, `itrunc`, `readi`, `writei`, `filewrite` in chunks | files hold what was written; a block belongs to one file; a chunk fits its reservation |
| Buffer cache and disk (`bio.c`, `ide.c`, `memide.c`) | buffers, reference counts, request queue | `bget`, `bread`, `bwrite`, `brelse`, `iderw`, `ideintr` | a read sees the latest write; each request gets its own answer |
| Paging (`vm.c`, `proc.c`, `exec.c`, `fs.c`) | `pages[]`, `RAMQueue`, `offsetQueue`, swap file | `swapToFile`, `get_page`, four policies, `growproc`, `fork`, `exec` | a page is in memory or in one slot of the swap file; the right page goes |
| Console (`console.c`, `kbd.c`, `uart.c`) | ring buffer with `r`, `w`, `e`; shift keys | `kbdgetc`, `consoleintr`, `consoleread` | committed input is neither lost nor changed; no reader sleeps over it |
| Shell (`sh.c`, `init.c`, `echo.c`, `cat.c`, `wc.c`) | command tree, processes, descriptors, pipes | the parser, `runcmd`, `main` | a line is parsed as written; the prompt comes back, and not too early |
| Allocator (`umalloc.c`) | ring of free blocks | `malloc`, `free`, `morecore` | the heap is partitioned; free neighbours are joined |

The kernel components interact through shared memory and sleep/wakeup. File
system calls run between `begin_op` and `end_op` and take inode locks, which are
sleep locks, which sleep through the scheduler. `fork` copies page tables and
takes references to files and directories; `exit` gives them back; `wait` frees
the rest. The disk answers by interrupt.

### The other programs

| Component | State | Hard part |
|---|---|---|
| Restaurant (`spl/resturant`) | tables, customers, orders, action log, backup | customers have two owners; long sequences of legal commands |
| Chat client (`spl/chat_client`) | one socket, two threads, flags | frames without lengths; the threads stop on their own; a connection that closes in a frame |
| Shell of lab 6 (`lab6/task4`) | list of jobs, variables | jobs stop and end while the user types |
| Other labs, image permutation, LoRa bridge | none that lasts, or devices outside the repository | not modelled |

### Hard behaviours

Interleavings on several processors, between critical sections (all of the
kernel); a crash between two block writes (log); values read under a lock and
used after it (`iput`, `handle_page_fault`, `log_write`); error returns in the
middle of a call that holds locks and references (`link`, `unlink`, `fork`);
counters that wrap (pipe, console ring); wakeups (log, pipe, wait, sleep locks,
console, disk); limits (log space, frames, process table, disk blocks, buffers,
swap slots); objects with two owners (restaurant); streams that must be cut into
frames (chat). `PROJECT.json` lists each at its line.

## 2. Modules

`X` is a component, `MCX` instantiates it for TLC, `XProofs` holds the theorems
about it (`SchedProofs` also those about `Paging`, `ProcProofs` about `LabShell` and `Malloc`,
`DeviceProofs` about `Disk` and `Console`).

| Module | Models | A step is |
|---|---|---|
| `Log`, over `Transactions` | `log.c` | a critical section of `log.lock`, or one block write |
| `Sched` | `spinlock.c`, `sleeplock.c`, scheduling | an `xchg`, a release, a `swtch`, or what lies between |
| `Proc` | `fork`, `exit`, `wait`, `kill` | a critical section of `ptable.lock` |
| `Pipe`, over `ByteStream` | `pipe.c` | a critical section of `p->lock` up to a sleep |
| `Cow`, over `PrivateMemory` | `kalloc.c`, the copy-on-write half of `vm.c` | a critical section of `kmem.lock`, or a change of the own page table |
| `Fs` | inodes and names | what a call does between two lock operations |
| `Files` | contents, blocks, `mkfs` | one turn of `writei`'s loop, under the inode lock |
| `Paging` | swap file, queues, policies, `exec` | a system call, a fault or an access of one process |
| `Disk` | `bio.c`, `ide.c`, `memide.c` | a critical section of `bcache.lock` or `idelock` |
| `Console` | `console.c`, `kbd.c`, `uart.c` | an interrupt, or `consoleread` up to a sleep |
| `ShParse`, `Shell` | `sh.c` and programs it runs | a system call of one process |
| `Malloc` | `umalloc.c` | a call |
| `LabShell` | `myshell.c`, `LineParser.c` | a line typed, a wait, or a change of a job |
| `Restaurant` | `spl/resturant` | a command |
| `Chat` | `spl/chat_client` | a byte received, a frame shown, a command sent |

Components that share no state are composed for TLC in one module whose extra
variable says which of them a behaviour exercises: `MCStorage` (`Files`,
`Paging`), `MCDevices` (`Disk`, `Console`), `MCUser` (`Shell`, `Malloc`,
`LabShell`), `MCSpl` (`Restaurant`, `Chat`).

`Transactions`, `ByteStream` and `PrivateMemory` are the abstract
specifications. `CrashAtomic`, `IsByteStream` and `IsPrivateMemory` say that the
detailed modules implement them, under the mapping given at the `INSTANCE`.

**Log.** `disk`, `dlog` and `dhead` survive `Crash`; all other variables are
memory. `BeginOp`, `ModifyBuf`, `LogWriteCheck`, `LogWriteAppend` and `EndOp` are
a system call. `LogWriteCheck` is the part of `log_write` before it takes
`log.lock`. `WriteLog`, `WriteHead`, `InstallTrans`, `EraseLog` and `EndCommit`
are `commit`, one block each; recovery starts at `ReadHead` and joins them.
`LoadBuf` and `Evict` are the buffer cache: a dirty buffer is never recycled.
The mapping to `Transactions` takes as *durable* what recovery would make of the
disk, and as *view* what `bread` returns.

**Sched.** Every process loops through `acquiresleep` and `releasesleep` of one
lock, on `CPU` processors with a timer that may fire wherever interrupts are on.
`ncli`, `intena` and the interrupt flag are variables, because they decide that.

**Proc.** Entries of the table, with the failure paths of `fork`. `RUNNABLE`
stands for `RUNNABLE` and `RUNNING`; who runs is `Sched`. A process may also
sleep elsewhere (`Other`), so that `kill` finds it there.

**Pipe.** The counters wrap at `MOD`, `2^32` in the code. Descriptors are
inherited and closed in any order; any process may be killed.

**Cow.** Frames of user pages. Page tables need memory too, so `mappages` may
fail at any time. The model is the build with `SELECTION=NONE`; what the other
builds add is `Paging`.

**Fs.** Locals of a call are the record `fr[p]`: the path and the element it is
at, and the inodes it has references to. `iput` is two steps, `IputFree` and
`IputDrop`, because `ip->ref` is read in one critical section and decremented in
another. `Calls` is the set of calls processes make. That a call is atomic on
the disk is `Log`'s business, and the cached copy of an inode is write-through,
so one copy is modelled, with the flag `valid`.

**Files.** One unit stands for a byte, a directory entry and a block number, so
that `BSIZE` is also the number of indirect addresses. `mkfs` runs first and makes
the disk (`phase`): `iappend` unit by unit, then `MkfsEnds`, which rounds the root up
to a block and marks what was taken in the bitmap. A write is `BeginChunk`, `WriteBlock`..., `EndChunk`; two processes may share an entry of the
file table, and so an offset. `logged` collects the blocks of a chunk.

**Paging.** One process; after `fork` the model follows the parent or the child.
`swapFile` says which page each slot holds. Where the code leaves what is defined
(an index of -1, a slot that `fork` did not copy, a write past the end of the
file) `broken` is set and nothing is claimed. `AfterRun` is `agingPages`;
`advanceQueue` changes nothing (see the remarks).

**Disk.** Buffers, the list from most to least recently used, `idequeue`, and the
disk, which is external. `MemDiskNext` is the build with `memide.c`. A buffer may
be left dirty and unheld, pinned by the log.

**Console.** The keyboard's bytes with the E0 prefix and the control keys, the
editing keys, the ring, and readers that sleep holding nothing. The three indices
are moved back together, which the code never needs to do.

**Shell.** `ShParse` parses tokens by recursive descent as `sh.c` does, with its
panics. `Shell` runs the tree: every process has a descriptor table, `pipe`,
`fork` and `open` may fail, and `init` restarts a shell that ends.

**Malloc.** The ring is walked from `freep` as the code walks it. The program may
call `sbrk` itself, so the heap may have holes.

**LabShell.** The list holds the numbers the code stores in `status`, including
the wait status that `waitpid` puts there. Signals and ends of jobs are external.

**Restaurant.** Customers are heap objects that a table and the logged
`OpenTable` both point to. What C++ leaves undefined ends the run (`crashed`), as
does an exception nobody catches.

**Chat.** Bytes, not messages: `decodeable` counts zeros, `decode` and `encode`
are the code's, numbers are two bytes, and the server is external.

## 3. Runs

| Run | Instance | What it shows |
|---|---|---|
| `log_atomic` | 2 calls, 3 blocks, 2 values, 2 blocks per call, log of 4 | crash atomicity, with a crash between any two writes and in recovery |
| `log_calls` | 3 calls, 3 blocks, log of 2 | the log does not overflow, reservations are honoured, commits run alone, sleepers are woken, recovery ends |
| `sched_safe` | 2 processors, 3 processes | one processor per stack, mutual exclusion, interrupts restored, no panic, no lost wakeup |
| `sched_live` | 1 processor, 3 processes | sleepers wake, the runnable run |
| `proc_family` | init and 2 entries, pids up to 4 | whole family, no leaks, the killed exit, orphans are reaped |
| `pipe_stream` | 2 readers, 2 writers, 2 bytes of buffer, counters modulo 4 | a bounded byte queue; sleeping only for a reason; no use after free |
| `cow_private` | 3 processes, 3 frames, 2 pages each | private memories, counts that cover mappings, no panic |
| `fs_names` | 2 processes, root and 2 inodes, calls on `/a` and `/a/b` | link counts, references, locks, tree, nothing in use is freed |
| `devices` | 2 threads, 3 blocks, 2 buffers; 2 readers, ring of 3 | reads see the latest write, requests are answered, input is kept |
| `storage` | 2 processes, 2 files, 9 data blocks; 2 pages in memory of up to 4, 4 policies | contents, owners of blocks, reservations; queue and slots exact, fair victim |
| `user` | lines of up to 3 tokens and 6 longer ones, 5 processes, 2 pipes; heap of 12 units; 3 jobs | parsing, the prompt, the heap, the list of jobs |
| `spl` | 2 tables, 4 customers, 7 dishes; 2 commands or messages under way | no dangling customer, no order lost; frames understood both ways, logout ends both threads |

**Why the bounds are enough.** Two calls and three blocks let a group hold
blocks of both, with absorption, and one block left that is not in the group;
three calls are the least for which one waits for space while another commits.
Two processors and three processes have a sleeper, a holder and a process that
takes the lock in between. Three entries are a parent, a child and init. A pipe
of two bytes is full, empty and in between, and messages of three bytes block in
the middle; counters modulo 4 wrap with every other message. Three processes share
a frame after two forks, and three frames run out. Two inodes beside the root are
a directory with something in it; a third call would add a third holder of the
same locks and no new order between two. Two buffers for three blocks are
recycled, one of them while the other is pinned. A ring of three is full with a
line half read. Nine data blocks are too few for two files with indirect blocks, so
the disk fills in each place of a write. Two pages in memory and three or four in
all swap, fault and reuse slots; the ages have two bits, so that they tie and
shift out. Five processes are a pipeline of three with the processes that build
it. Heaps of 12 units take three blocks of the smallest `morecore` and one larger
than it. Tables of one and two seats are full, emptied and moved between.
`MAXPID`, `MaxPages`, `MaxLinks`, `Message`, `Count`, `MaxPinned`, `MaxRead`,
`MaxWrites`, `MaxSize`, `MaxLeak`, `BusyLines`, `NProc`, `NPipe`, `HeapMax`,
`MaxHoles`, `MaxPid`, `MaxCustomers`, `MaxOrders`, `MaxBelow`, `MaxFlight` and
`MaxJunk` are bounds of the models; `MaxLinks` is needed because a link that is
made in a removed directory raises `nlink` for good.

**Deadlock** is checked for the log and the scheduler. The others may stop:
pipes when everybody has closed, frames when they run out, processes when the
pids of the bound are used up, names when the kernel panics or calls wait for each
other (see the remarks), the devices after a panic, the storage when the disk is
full or paging is broken, programs when they end. That the shell never stops by
waiting is `PromptReturns`.

**Fairness.** `Log`: a runnable thread is scheduled (the scheduler's scan is
round-robin, and `sched_live` shows what it gives), disk requests complete, and a
call that is in a transaction reaches its `end_op` (strong, because other calls
may take `log.lock` in between). `Sched`: processors execute; a spinning `xchg`
that can win infinitely often wins; the timer ticks, and a tick that finds
interrupts off stays pending. `Proc`: system calls go on, a killed process is
trapped by the timer, and `init` calls `wait` again and again (`init.c`).
`Disk`: the disk answers, its interrupt is taken, and a thread in `iderw` goes
on. `Shell`: each process is scheduled; the user need not type. `Chat`: both
threads run; the user need not type and the server need not answer.

### Remarks on the code

No run expects a violation. While the models were written these places were met
where the code does less than one might expect; the models follow the code, and
the properties are stated so that they say what holds.

- `log.c`: `begin_op` reserves against `LOGSIZE` data blocks, but `mkfs` makes a
  log of `LOGSIZE` blocks *with* the header, and `log_write` panics one block
  earlier. `ReservationHonoured` is checked, and proved, for a log one block
  larger. The calls of this kernel write fewer blocks.
- `proc.c`: `kill` compares `pid` in entries that hold no process, and `allocproc`
  does not clear `killed`: `kill(0)` marks the next process forked.
- `kalloc.c`: `kfree` frees a page only if its count was 0 before the call, and
  `kalloc` sets it to 1: no page that was allocated comes back.
- `fs.c`: `link` to a path that ends in `.` puts the directory it has locked, and
  `iput` takes that lock. The same lock in `iput` orders a child before its parent
  in `create` and `unlink`. Two `iput`s of an unlinked inode may both see the
  other's reference, so that nobody frees it. `..` of a removed directory may lead
  to a free inode, which `ilock` answers with a panic; `TreeWalked` says that
  there is no other way to one.
- `pipe.c`: a writer that is killed while asleep is only woken by the pipe.
- `vm.c`: `swapToFile` leaves `PTE_P` set, so a page that is out does not fault
  until `fork` makes it read-only, and its frame is in use twice. `allocuvm`
  decides to swap by the address and not by the queue. A growth that fails keeps
  the records of the pages it frees.
- `proc.c`: the comment that `numberOfPagedOut` counts the pages in the swap file
  (`proc.h`) fails after a shrink; `fork` copies that many slots from the start,
  which need not be the ones in use; `offsetQueue` has `MAX_PSYC_PAGES` places and
  may need more; `removeLAPA` compares ages as signed numbers; the loop of
  `advanceQueue` never runs, so AQ is first in, first out.
- `Table.cpp`, `Action.cpp`: `closeTable` keeps the orders unless the last customer
  moved away; `OpenTable` admits a table number one past the last.
- `connectionHandler.cpp`: `getFrameAscii` does not look at what `getBytes`
  returned; when the connection closes in a frame it never returns, although its
  header says it returns false.
- `myshell.c`: a job that ended with exit(0) is shown once as SUSPENDED; `kill`
  drops a job from the list even if it ignores the signal; the first process of
  a pipeline keeps the read end, so it is not told when the second has ended; a
  program of a pipeline that cannot be executed leaves a second shell; an empty line
  is a null pointer. `LineParser.c` loses the words after a redirection.

## 4. Proofs

The theorems hold for every value of the constants that meets the module's
assumption; only `ReservationSuffices` assumes more. In no component is the property inductive
by itself; what is proved is an invariant that is, one lemma per action.

| Theorems | From | State |
|---|---|---|
| `LogProofs`: `CallsShareLog`, `LogNeverOverflows`, `CommitsAlone`, `ReservationSuffices`, `LogIsCrashAtomic` | `LogAssumption` | `LogSafe`, `ReservationHonoured`, `Spec => CrashAtomic` |
| `ProcProofs`: `NothingLost`, `FamilyAlwaysSafe`, `NoLeaks`, `ForksApart` | `ProcAssumption` | `EntriesAccounted`, `FamilySafe` |
| `ProcProofs`: `JobsAreKept` | `LabAssumption` | `JobsKept` |
| `ProcProofs`: `HeapIsExact` | `MallocAssumption` | `HeapExact` |
| `SchedProofs`: `StacksNotShared`, `LocksAlwaysSafe`, `SleepLockExcludes`, `NoWakeupLost` | `SchedAssumption` | `OneCpu`, `LocksSafe` |
| `SchedProofs`: `SlotsAreAccounted`, `VictimsAreFair` | `PagingAssumption` | `PagesAccounted`, `VictimFair` |
| `PipeProofs`: `PageAlwaysSafe`, `NobodyEverForgotten`, `PipeIsByteStream` | `PipeAssumption` | `PageSafe`, `NobodyForgotten`, `Spec => IsByteStream` |
| `CowProofs`: `FramesAlwaysSafe`, `CopyOnWriteIsInvisible` | `CowAssumption` | `FramesSafe`, `Spec => IsPrivateMemory` |
| `FsProofs`: `NamesAreSound`, `TreesAreWalked`, `AllIsGivenBack` | `FsAssumption` | `NamesSound`, `TreeWalked`, `GivenBack` |
| `FilesProofs`: `BlocksAreOwnedOnce`, `ContentsAreAsWritten`, `OpsFit` | `FilesAssumption` | `BlocksOwnedOnce`, `ContentsAsWritten`, `OpFits` |
| `DeviceProofs`: `HoldersReadLatest`, `MemHoldersReadLatest` | `DiskAssumption` | `ReadsLatest`, with either driver |
| `DeviceProofs`: `InputAlwaysKept` | `ConsoleAssumption` | `InputKept` |

**Assumptions.** `PIPESIZE` divides `MOD` (512 and 2^32 do), or the index of the
ring would jump where a counter wraps. Readers and writers are different
processes: one that keeps both ends is not in the model. `Cow` and `Disk` have
finitely many processes and threads, because users are counted, and a process
may have a page. `Fs` has finitely many processes, inodes and names, for the same
reason; a path is any sequence of names, also the empty one, with a "/" in front or
not, since `skipelem` takes several slashes for one. `Files` has `MAXOPBLOCKS` of at
least 6 (the code has 10): with less a chunk of `filewrite` is empty and its loop
would not end. In `LabShell` the numbers typed after `suspend`, `kill` and `wake` are pids: the code
passes any other to `kill(2)` as it is. In `Paging` a process may have two pages in memory,
those `exec` starts with, and no more records in memory than records; that powers of two are
positive is assumed, because the provers do not know `^`. In `Malloc` every request is of
at least two units, its header and one more, as `malloc` rounds up; how much `sbrk` can give
(`HeapMax`) is any positive number. The rest are types, and that `None` is not one
of them.

**Log: who runs and how full the log is.** `LogFits` is not inductive: whether a
call may append depends on what it appended before. `IInv` adds

- `Mode`: either one thread recovers and all others are down, or one commits and
  the others are idle, or nobody does either and calls run;
- `outstanding` is the number of threads inside a call;
- the log and the *unused slots* of the calls inside, the pairs of a call and a
  number up to `MAXOPBLOCKS` above what it has logged, together are at most
  `LOGSIZE`: an append moves one from the second to the first, and `begin_op`
  adds `MAXOPBLOCKS` of them after its test;
- `Holding` and `Logged`: which buffer a call has, and that what it logged is in
  the log, so that a repeated write is absorbed.

`ReservationSuffices` needs `NLOG > LOGSIZE`, which the code misses by one.

**Log: atomicity.** `DInv` follows the data of a block through a transaction. A
block is listed once (`Indices`); until `write_log` has copied it, its only
new copy is a pinned buffer (`Buffers`, `Unlogged`), which is why a dirty buffer may
not be recycled; after that the log block agrees with the buffer (`Copied`); from
the header on the log block counts, and what is installed agrees with it
(`Installing`); after a crash nothing is cached before the header is read
(`Booting`). `DurableFacts` says what recovery would make of the disk in
each of these phases, and the lemmas after it take every step of `Log` to a step of
`Transactions` or to a stutter: `WriteHead` is the commit, `Crash` falls back to
what is durable, and installing, erasing and caching change nothing that is seen.

**Proc.** The invariant adds that a fork in progress owns an `EMBRYO` entry that
nobody else names, has a stack and page table as far as it got, and that its
parent is still in `fork` (`ForkInv`); that init is alive; and that nobody is its own
parent. Without `ForkInv` a published child could have an exited parent.

**Sched.** One invariant for the five parts, because they lean on each other. A process
runs on one processor because its state changes under `ptable.lock`, which is
held across `swtch` and released by whoever runs next (`Held`, `States`). That
only its holder releases a lock rests on interrupts being off while one is held, so
on `ncli` and the interrupt flag being what the program point says (`Nesting`,
`Off`), and that interrupts come back on rests on `sched` keeping `intena` with the
process (`Kept`). The wakeup is not lost because `sleep` holds `lk->lk` until it
has `ptable.lock` (`Sleepers`).

**Pipe.** `PageSafe` and `NobodyForgotten` rest on which flag the last
descriptor of an end clears (`Ends`, `Descriptors`). For `IsByteStream`
the bytes between `nread` and `nwrite` are at different indices of the
ring, also where a counter wraps (`Slots`, `Wrapped`); `WritePuts` and
`ReadGets` say that a write appends what it copied and a read takes the front. They
stand on lemmas about `%`.

**Cow.** `RefsCovered` compares the count with the mappings, which a fault in
progress contradicts: it has a frame no entry shows, or still owes a
`dec_ref_count`. `Covered` counts the *holders* of a frame instead, the entries but
the one `copyuvm` has not counted yet, and the frame a fault has in hand. `Private`
says that a fault that read a count of 1 and released `kmem.lock` is still
the only holder, since only a holder can make another. From these a step
writes to a frame only if nobody else maps it, and so one process changes
its own memory, as in `PrivateMemory`.

**Fs.** A call takes a lock, does something, and goes on later with what it
found, so the invariant says for each place in a call which inodes it has
references to (`Shape`), which lock it keeps (`LocksKept`), and which of those
inodes are in use (`Live`): all but one reached by `..`, and what `unlink` found
is still under that name, because it keeps the directory locked. `ref` is the
number of holders. `nlink` is not the number of names while `link`, `unlink` or
`mkdir` is on the way: it covers the names, the subdirectories and the links a call
*owes*, those counted before the entry is there and those not uncounted yet
after it is gone (`LinksCover`). This is why an inode with a name, or one that a
call is about to name, is not freed by an `iput` that found `nlink` zero. Most
steps leave types and entries alone and are instances of `QuietStep`: what is
left to show is how the counts of one process change. `IputFree`, `Create`, the
removal of an entry and `dirlink` are instances of `ChangeStep`.

**Files.** Sharing a block is a matter of *places*: an inode has one for each data
block and one for the indirect block, `At` gives the address there, and `Sound` says
that no address but 0 occurs at two places of any inodes and that the bitmap marks
exactly those that occur. `Grows` is what it takes to add one: the addresses that
were there stay, the new ones were free; `bmap` does that (`BmapGrows`), and so does
`iappend` of `mkfs`, whose bitmap is a counter (`FreshGrows`). `Unlink` takes all the
places of one inode at once. For the contents, a file in the middle of a chunk
holds the units written so far over the old ones (`Written`), with blocks up to
where the writer has got to and not only up to `size`; and what only the inode
cache knows is on the way to the disk, because the file is growing (`Saved`):
`writei` calls `iupdate` only when the size changes, and this is why that is
enough. `OpFits` follows from where the chunk began and has got to: the transaction
has logged at most the blocks between the two, the bitmap and the indirect block
(`Logging`), and a chunk of `n` blocks touches `n + 1`.

**Disk.** The latest contents of a block are in its one buffer while that is
dirty, and on the disk otherwise (`OneBuffer`, `Latest`, `OnDisk`). A
request belongs to a thread asleep with the buffer locked, and the disk works
on the head of the queue (`Queued`, `Requests`), so nothing changes the
buffer before the answer comes. `refcnt` is the number of threads that have the
buffer (`Counted`), so a buffer that is recycled is in nobody's hands.

**Console.** `r`, `w` and `e` stay in this order and within one round of the ring
(`Indices`), so a character stored at `e` overwrites nothing between `r` and
`e`, and what a newline commits goes behind what was committed before.

**Lab shell.** `JobsKept` speaks of the prompt; while the shell waits, a child need not
be on the list if the shell is going to wait for it (`Watched`). A child that is
started was not there before because pids are given in order (`PidsInOrder`), so it
is not listed twice. An entry is never one collected before the last listing, and it is
marked `TERMINATED` only after `kill`, so the entries a listing drops are of children
that were collected or given to `kill` (`Listed`). A variable has one
place at most (`Kept`). Both lists are filtered, which `Only` writes as a function:
`OnlyKeeps` shows, over the ranks of the places, that each place is kept once.

**Malloc.** `HeapExact` looks at the list through `Walk`, a recursive function, about which the
provers know nothing. `Ring` is the set of free blocks instead, the addresses with a
pointer; each is followed by the next higher one, or by `base` (`Follows`), and the blocks
that are free or given out tile what lies below the break, up to the holes (`Layout`). That
the loops meet the whole ring before they are back at `freep` needs a count: the walk must
come back within the number of addresses, because one address, the break or the block being
freed, is not on the list (`WalkReturns`), and what follows a ring and comes back has been
everywhere (`RingWhole`, `WalkTurns`). So `free` finds the block below (`FreePlace`),
wherever `freep` is. Its two joins are taken one after the other, the block to be freed first
being put in alone (`StageMerge`); that no two blocks touch at the end rests on none having
touched before. `morecore` frees a block above all others, so that what it returns to
`malloc` has a block that fits.

**Paging.** A call works on all the records at once, so the lemmas speak of a record of
them (`Now`), one lemma per helper of the code: what it is given is `Fine` and what it
returns is `Fine` again, or broken. `Fine` says that the queue lists the pages in memory
once each (`Queue`), and that every page has one record (`Owned`). Two parts are not in
`PagesAccounted`: the flag `PTE_PG` is set for exactly the pages that are out (`Marks`),
because a write fault decides by it whether to call `get_page`; and inside a call a slot may be in hand,
taken from `offsetQueue` and not yet a page's (`SlotsBut`). Every policy removes one
place of the queue, however it reorders the rest (`Drops`), and the page at that
place may go (`Fair`); `AfterRun` and `exec` swap nothing out (`FairStays`).
`swapToFile` writes within the file or at its end because slots below `fileOffset` have been
written; the parts of `exec` that fail are undone up to the ages.

**Only model-checked.** Every liveness property, because the prover has no
fairness or `ENABLED`. `Shell`, whose parser (`ShParse`) is recursive, and `Chat`, whose words are split
recursively and whose frames are put together and taken apart by folds. `Restaurant`,
where orders and customers are filtered and folded over with operators as arguments,
which no prover here takes.

## 5. Not modelled

The system call layer fetches and checks arguments and keeps no state; boot code and
device set-up run before the modelled state exists. `usertests.c` and the other
test programs are clients. `ulib.c`, `printf.c` and the output half of the console
are strings and formatting. The other labs, the image permutation and the LoRa
bridge are single exercises, pure computations, or need hardware and services
outside the repository.
`Fs` leaves out `mknod` (a `create` with another type), `dup`, and the limit of the
inode cache; `Cow` leaves out kernel pages; `Paging` leaves out frames; `Sched` has
one sleep lock; `exec` is modelled for what it does to the paging records, not
for the ELF file; the restaurant's and the chat client's commands are well formed.

## 6. Plan

Done: every component the inventory lists as modelled, the proofs of `Log`, `Proc`,
`Sched`, `Pipe`, `Cow`, `Fs`, `Files`, `Disk`, `Console`, `LabShell`, `Malloc` and `Paging`, and the
three refinements. Worth proving next, with filters written as functions like `Only` of
`LabShell`: `SeatedAlive` of `Restaurant`.
