# A TLA+ model of MINIX 1.5 for the Atari ST

This directory models the core of the operating system in this repository: the
kernel (`src/src/kernel`), the memory manager MM (`src/src/mm`) and the file
system FS (`src/src/fs`), as they are compiled for `CHIP == M68000` and
`MACHINE == ATARI`. TLC checks the models on small instances; TLAPS proves the
most important facts for every value of the constants.

## The system

MINIX is a small kernel, a handful of kernel tasks (drivers), two server
processes and user programs, all of them talking by messages with rendezvous:
a sender blocks until its receiver takes the message, there are no buffers.

| part | state | operations | talks to |
|---|---|---|---|
| process switching (`proc.c`, `stmpx.s`) | `proc[]`: flags, caller queue, message buffer; the ready queues, `proc_ptr`, `bill_ptr`, the held queue | `sys_call` (send, receive, both), `interrupt`, `unhold`, `ready`, `unready`, `sched`, the `lock_` gateways | everything |
| system task (`system.c`) | pending signals, `sig_procs`, its message `m` | fork, exec, xit, fresh, kill, sig, trace, copy, ...; `cause_sig`, `inform` | requests of MM and FS |
| shadowing (`stshadow.c`) | `p_shadow`, `p_physio`, the memory maps | `mkshadow`, `rmshadow`, `unshadow` | called by fork, exit, exec and the clock |
| clock (`clock.c`) | alarms, ticks, the quantum | set alarm, get and set time, tick | `cause_sig`, `lock_sched`, `unshadow` |
| terminal (`tty.c`, `stkbd.c`, `stvdu.c`, `rs232.c`) | lines, process group, a suspended read | read, write, ioctl, cancel, setpgrp, characters from the keyboard | requests of FS, REVIVE to FS, `cause_sig` |
| disks, printer, memory | controller commands | read, write | requests of FS, interrupts |
| MM: processes (`forkexit.c`, `signal.c`, `trace.c`) | `mproc[]`: in use, hanging, waiting, paused, stopped, signal sets | fork, exit, wait, kill, signal, alarm, pause, ptrace, KSIG | users; SYSTASK, CLOCK, FS |
| MM: memory (`alloc.c`, `exec.c`, `break.c`) | the hole list, segments | exec, brk | SYSTASK, FS |
| FS: suspension (`pipe.c`, `main.c`, `misc.c`, `device.c`) | `fproc[]`: suspended, revived, the task waited for; `susp_count`, `reviving` | suspend, release, revive, unpause, exit | users, MM, drivers |
| FS: files (`cache.c`, `super.c`, `inode.c`, `path.c`, `link.c`, `open.c`, `read.c`, `write.c`, ...) | the buffer cache, bit maps, inodes, filp | the file calls | drivers |

What is hard here, and what a test of the running system would hardly reach
(each is a hazard in `PROJECT.json`, at its line):

* One processor, but interrupts everywhere: while a task is inside a `lock_`
  routine, while held interrupts are being flushed, while a program runs.
* One word of flags per process that the sender, the receiver, the signal code,
  the tracer and exit all write; a process may run exactly if the word is 0.
* Exit, fork and exec find their process in any state: queued on another
  process, with signals MM has not been told of, a shadow, used by a driver.
* Kernel signals are reported to MM through an ordinary message, when MM is
  idle, and through a buffer that belongs to SYSTASK.
* Shadowing: the ST has no memory mapping, so a forked child shares the
  addresses of its parent. The members of a family take turns in the place; the
  others are shadows in other memory, and are copied in when they are to run.
* MM, FS and the drivers keep their own idea of the same process, and learn of
  changes one message later.

What makes each part correct: the ready queues and caller queues agree with the
flags; no message and no interrupt is lost, duplicated or given to the wrong
process; signals are counted right and always reported; a family has exactly one
owner of its place; memory is never lost or given twice; a suspended process is
woken exactly once; the counters (`sig_procs`, `susp_count`, `bufs_in_use`,
link counts) equal what they count.

## Modules

| module | models | proved about |
|---|---|---|
| `ProcTable` | `kernel/proc.c`, the process and signal part of `kernel/system.c`, `kernel/stshadow.c`, as operators on one record `k` | in `ProcSafety`, `ProcSteps` |
| `Proc` | the kernel as it runs: traps, interrupts, tasks; EXTENDS `ProcTable` | in `ProcSafety`, `ProcSteps` |
| `ProcMC` | instances of `Proc` for TLC | |
| `ProcSafety`, `ProcSteps` | theorems about `Proc`: its types, queues and signal books; memory, signals and messages | |
| `Alloc` | `mm/alloc.c`, with the parts of fork, exec, exit and of the start of MM that use it | in `AllocProofs` |
| `Memory` | what `Alloc` promises: an abstract memory without holes | in `AllocProofs` |
| `AllocProofs` | theorems about `Alloc` | |
| `MmTable` | the routines of `mm/forkexit.c`, `signal.c`, `trace.c` and `main.c` on MM's process table, as operators on one record `s` | in `MmProofs` |
| `MmProc` | MM's calls and loops, the programs that make them and the signals of the kernel; EXTENDS `MmTable` | in `MmProofs` |
| `MmMC` | instances of `MmProc` for TLC | |
| `MmProofs` | theorems about `MmProc`: families, who waits and who is told | |
| `FsTable` | `fs/pipe.c`, `filedes.c` and the parts of `open.c`, `read.c`, `misc.c` and `inode.c` that count references and suspend processes, as operators on one record `f` | |
| `FsPipe` | FS's main loop with the programs and MM around it; EXTENDS `FsTable` | |
| `Stream` | what a pipe promises: a bounded stream of bytes | in `FsPipeStream` |
| `FsPipeProofs` | theorems about `FsPipe`: references, suspended processes, who hangs on what | |
| `FsPipeStream` | the theorem that `FsPipe` implements `Stream` | |
| `FsMC` | instances of `FsPipe` for TLC | |
| `Cache` | `fs/cache.c`, `super.c` and `rahead()`: the buffers, their chain and the bit maps, as operators on one record `c` | in `CacheProofs` |
| `FsCache` | calls that use blocks, sync, mount, unmount and I/O errors; EXTENDS `Cache` | in `CacheProofs` |
| `BlockStore` | what the cache promises: that it is not to be seen | |
| `CacheMC` | instances of `FsCache` for TLC | |
| `CacheProofs` | theorems about `FsCache` | |
| `Names` | `fs/inode.c`, `path.c` and the calls of `open.c`, `link.c`, `stadir.c` on inodes and directories, as operators on one record `f` | |
| `FsNames` | programs that make, link, rename, open and remove files; EXTENDS `Names` | |
| `NamesMC` | instances of `FsNames` for TLC | |
| `TtyLine` | `kernel/tty.c` with the buffers of `rs232.c`, as operators on one record `t` | |
| `Tty` | the driver's task and interrupts, FS as its client (`fs/device.c`, `pipe.c`), programs and keys; EXTENDS `TtyLine` | |
| `TtyMC` | instances of `Tty` for TLC | |
| `Clock` | `kernel/clock.c`: the handler between any two statements of the task, with MM, SYSTASK, users and the flips of `stshadow.c` around it | in `ClockProofs` |
| `ClockProofs` | theorems about `Clock` | |

The tables (`ProcTable`, `MmTable`, `FsTable`, `Cache`, `Names`, `TtyLine`) hold
routines as operators from a state to a state, each with the name of the source;
the module that EXTENDS a table cuts the code into actions at the points where
others can come between. Servers serve one call at a time, so a call of FS or MM
is one step except where it waits for somebody else.

### `ProcTable` and `Proc`

A kernel routine runs to completion between two points at which an interrupt is
let in, and calls other routines on the way. So `ProcTable` writes each routine
as an operator from the kernel's state to the kernel's state (`mini_send`,
`unready`, `cause_sig`, `do_xit`, ... under the names of the source), and `Proc`
has the actions, cut where the code can be interrupted:

* a trap (`Call`, `Answer`, `trap`) is one step: interrupts are masked from
  `sys` to `restart`. `Call` is any call that the calls of the `mix` allow the
  running process; `Answer` is a reply to a process that waits for the running
  server or task, or that has died in the meantime;
* `Irq` is an interrupt while a program runs. A server, a user or the idle
  process is pre-empted if a task is ready then; a task is not;
* `IrqNested` and `unhold` interleave while `restart` flushes the held queue;
* a task runs with interrupts open. Its routines that change the tables
  (`Kernel_Work`) are one step each, and `lock_` lets interrupts come between
  entering a `lock_` routine and leaving it: those interrupts are held;
* SYSTASK serves a request (`Serve`) that it has received and not yet answered.
  The reply is built in `m`, the same buffer; that is why `mess[SYSTASK]` is
  part of the state.

A message is its source and a type, as nothing in these files looks further. The
memory map is abstracted to the place a process image starts at (`img`), the set
of shadows and the set of processes a driver has an address of.

What a user, a server or a driver asks for is not modelled by a program of its
own here: each of `Mixes` says what calls are made, which services SYSTASK is
asked for and which signals are raised, in any order; a behaviour has one of them,
the variable `mix`. So the kernel is checked for all programs that keep to the
interface, not only for this MM and FS. Two limits: signals are raised for live processes only, and SYSTASK's
requests of MM for a process come when the process waits for MM or is being
killed. The first one is violated by one race in the real system (a hazard in
`PROJECT.json`). The SIGTRAP that `do_exec` raises for a traced process
(`system.c:271`) is not part of `do_exec`: a signal raised for a live process at any
time is among those of the mixes.

### `Memory` and `Alloc`

`Memory` says what fork, exec and exit may expect: there is a set of free
clicks; an image is put at the lowest address that has room for it, is refused
only if no address has, and is free again when it is given back. `Alloc` is the
hole list: `hole_head`'s chain is a sequence, the chain of unused table entries
their number, and a pointer into the list an index. `free_mem`, `merge` and the
others have the names of the source and are operators on the table; the actions
are the places that call them: `do_fork`, `new_mem` (exec: `max_hole()`, then
`alloc_mem()`, and the old image given back only after that, as the M68000 does
it), `mm_exit`. The state also has the images of programs, which in the source
are in the kernel's memory maps: the kernel gives back one block per exit or
exec, a shadow's if the family goes on (`OneOwner` of `ProcTable`), and which
program has which block does not matter to MM. A `panic()` ends the behaviour.

`NO_MEM` is 0 as in the source, which is also an address. That nobody confuses
the two rests on click 0 being the system's.

### `MmTable` and `MmProc`

MM serves one message after the other, so a call is one action of `MmProc`, and
the routines it calls are operators of `MmTable` under their names in the source:
`mm_exit`, `cleanup`, `wait`, `sig_proc`, `unpause`, `stop_proc`, `trace`, ...
MM sends messages to SYSTASK, CLOCK and FS while it serves a call. In most calls
nothing that goes on meanwhile can touch what the call looks at; in two it can,
and these are cut into steps: the loop of `check_sig()` over the processes
(`CheckSig`, `Checked`) and the loop of `do_ksig()` over the signals of a
process. `mm` says where MM is in them.

The record `s` has `mproc[]` (flags, parent, group, signal sets, `mp_sigstatus`,
`procs_in_use`) and beside it the kernel's side of the same process: whether it
exists, runs, has a call queued on MM or waits for a reply (`at`), its pending
signals and their number, its alarm, its stop. So the properties can say that
the two agree. The kernel's part is what `kernel/system.c` and `clock.c` do with
the requests of MM; `ProcTable` models the same routines with the queues and the
messages.

A program may make any of the calls of the behaviour's mix (`may`, one of `Mixes`),
at any time it runs, and with any process as an argument; the mix also has the
signals that the kernel raises on its own. `init` forks and waits for ever, ignores all signals but
`SIGHUP`, which it catches (`tools/init.c`); that one signal is left out. A
process id is its slot; a program could name an old id as well as a new one. A process
group is called by a member: its leader at first, and another one when the slot of the
leader is used again (`Regrouped`), as do_fork() gives no process an id that still names a group.
Programs have one uid, the superuser's or not (`Super`). fork and exec may fail
for reasons that are not modelled here (memory, the file). Writing a core image
and telling FS change nothing in these tables and are left out.

Two disasters are recorded instead of ending the behaviour: MM replies to a
process that does not wait for it (MM then hangs in `send()`), and SYSTASK is
asked to free a slot that is free, and MM to free its memory again.

### `FsTable`, `FsPipe` and `Stream`

FS has one process's descriptors (`fp_filp`), the filp table, the inodes of pipes
with their bytes, and for a suspended process the call that it makes again later
(`hung`). `suspend`, `release`, `revive`, `do_unpause`, `pipe_check` (as `NoData`
and `IsFull`) and the calls are operators of `FsTable`. Beside them stand what the
program knows: whether it waits for FS (`at`) and which descriptors it was given
(`knows`). `FsPipe` has FS take one message at a time, and none while somebody is
to be revived (`get_work()`): `Revived` makes the call of the first such process
again. MM comes in three ways: a fork, a signal that ends a call (`Unpause`) and a
death, which is two steps (`Kill` frees the slot in the kernel, `Exit` tells FS),
as other programs go on in between.

A byte is the process that wrote it. `IsStream` maps the bytes of the pipe in inode
`Slot` from the reader's position on to the queue of `Stream`, and whether it has a
reader to `reading`: reads take from its front, each write appends all it writes, and
the queue is lost only when the last reader is gone. What is written when nobody
reads is never seen by anyone, as an unnamed pipe cannot be opened again. Nothing is
said of the named pipe: it may be opened again, and then starts at position 0. Two
ways out of `read_write()` are left out: no bytes asked for (`read.c:75`) and an I/O
error in the middle (`read.c:133-136`).

### `Cache`, `FsCache` and `BlockStore`

A buffer has a device, a block, its use count, whether it is dirty, and data; the
LRU chain is a sequence; the hash chains are a search (`Found`). One block stands
for the bit maps of a device. `rw_scattered()` is modelled with its errors: a
sector of `MayFail` may fail each time, which invalidates the buffer. FS is cut
where a call of the source gets, changes or puts a block (`held` has the blocks
that the call holds), as errors, evictions and the order of puts matter there;
mount, unmount, sync, open and close of a block device are one step each.

`IsStore` maps what a program would read (a buffer, or the medium if there is
none) to `BlockStore`: nothing changes that nobody works on, unless its transfer
fails; and what is stored is what was there to read.

### `Names` and `FsNames`

An inode is its mode and link count, in the table and in its block (`d_inode`); a
directory is a set of entries and the slots that it has grown to. Blocks are as FS sees
them, through the cache: `rw_inode` copies an inode to its block at once, as the source
does, and says nothing of the disk. When a block gets there is `FsCache`'s part. In this
build inodes and directories are not written at once (`ROBUST` is 0, `config.h:25`;
`buf.h:55`), so nothing is claimed of their order on the disk or of a crash. The routines are those of the
source with their error returns: each call of `put_inode()` is there, so that the
counts come out as they do in the code. `room` is the number of slots of the inode
table that others leave: `get_inode()` fails when they are used up. `full` says
that a directory cannot grow during a call. The error code and the inode that a
routine returns are in `f`, where the source has `err_code` and its return value;
using `NIL_INODE` as an inode is recorded as a crash. A path is a sequence of
names, absolute or not; each of `Paths` may be given to each call. With the permissions
goes one case of rmdir(): a directory that may not be searched is taken for empty
(`link.c:146`).

### `TtyLine` and `Tty`

A line has the queue of characters typed, the count of lines in it, the reader and
the writer it remembers, and for a serial line `rs_buf` as two counts. Characters
are told apart only as far as the driver does: a letter, newline, end of file,
erase, kill, the interrupt key, XOFF and XON. `Tty` cuts the task where it
receives, sends, and between two characters; the interrupts of the keyboard and
the UART come in between (`Type`, `Uart`), and wake it by a message that is
recorded as a bit while it is busy. `tty_cum = 0` (`tty.c:619`) is one step
with the computation of the address that follows it: no interrupt falls between the two. FS is in `Tty` as far as it deals with the
driver: `dev_io()` and `rw_dev()` with its retry after `ELOCKED`, `suspend`,
`revive` and `do_unpause`. It can be interrupted by MM's signals for a program
that waits (`Unpause`).

The rendezvous is that of `Proc`: a send blocks until the other receives, a
`sendrec` to a process that is sending to the caller fails with `ELOCKED`. The
driver has priority over FS, FS over programs.

### `Clock`

`clock_handler` is one step, and each statement of the task that reads or writes
something the handler uses is another: taking over `pending_ticks`, the entry of
the alarm, the search for the next one, the first test of a tick, the alarms, the
decrement of `sched_ticks` (a read and a write), the switch, the reset and the flip. The
handler comes between any two of them, at most `MaxLate` times from when the task
is made ready until it rests. Times are relative to `realtime`. A stopwatch for
each alarm (`left`) counts every tick, for `TimeKept` only. Around the task, users
call MM and FS; MM sets alarms by a message (`set_alarm`), SYSTASK copies an alarm
to a child (`Fork`) and clears it (`Exec`, `Xit`) while the clock task may be ready;
FS suspends and revives callers.

`run` has the two queues of users, the process billed and the process that a server
works for. The families of `stshadow.c` are in it as far as they decide who stands in
which queue: who shares a place (`family`), who of them is a shadow, and `flipwait`.
`Fork` makes the parent a shadow (`mkshadow`), or the child if the parent is one
already; `Fresh`, the first half of an exec, and `Xit` leave the family (`rmshadow`),
whose next member gets the place and changes queues if it is ready; the last statement
of a tick is `Flip`, in which `unshadow` exchanges the first of SHADOW_Q with the owner,
unless `flipwait` is not over or a driver works for the owner. The exchange is one step:
the handler looks only at whether both queues are empty. A driver's work is recorded
for owners of a shared place while they wait (`physio`); that rmshadow() panics if it
meets one is in `Proc`, as are the images themselves. A child is ready from sys_fork()
on.

### The runs

All instances have the real numbers of tasks and servers and one to three users
(`NR_PROCS` is the number of servers and user slots; user 2 is `init`).

| run | question | instance |
|---|---|---|
| `ProcIpc` | do queues, flags and the running process agree, is every message delivered once and to the right process, is no interrupt lost? | two users, MM, FS, SYSTASK, TTY with interrupts; FS and TTY also send to each other. Users that fork, exec and exit; mixes with stopping and resuming them, and with flips of images |
| `ProcFlush` | are interrupts that have to be held flushed before anything but a task runs, and all delivered in the end? | two interrupting drivers, locks, one user |
| `ProcSignal` | are signals counted and reported right, and does a killed process leave the queue it is in? | two users; a mix in which they fork, exec and exit while a signal is raised by TTY, a trap or a server; one with two signals at a time, with MM idle or busy; one in which both are queued on FS, which waits for TTY, and are killed |
| `ProcLife` | does a family always have exactly one owner of its place, and is an image that a driver uses left where it is? | three users, forks, execs, exits, flips, quanta; a disk driver that works for one of them (that one makes no calls of MM itself); in the mix with flips only `init` calls MM |
| `Alloc` | is memory kept, and every request served as `Memory` promises? does the hole table ever fill up? | 14 clicks, 2 of them the system's, three programs, a table of `NR_PROCS - 1` entries |
| `Mm` | is every parent told once, every orphan inherited, every signal finished once, and do MM and the kernel agree on who lives, waits and is stopped? | `init` and up to three programs, in one of the mixes `MmMixes`: families that fork, exit, wait and kill until the table is full; signals to programs that wait and fork; kernel signals of one program that pauses, with alarms and exec; tracing |
| `FsPipe` | is whoever waits for a pipe released, are references counted, does FS get back to its messages, is a pipe a stream? | three programs with two descriptors, two filps and one inode, so that each table fills up; a pipe of two bytes; mixes for pipes, a named pipe, and dup with `O_NONBLOCK` |
| `FsCache` | is the cache invisible, are its buffers counted, is there always one left? | four buffers, three devices of which one has a sector that fails, two sectors in use, two blocks held at a time (`MaxHeld`), one left by a mount (`MARGIN`) |
| `FsNames` | are inodes counted, allocated and linked exactly, do directories stay a tree, does a failed call change nothing? | one program, three inodes, four paths of at most two names, a disk and a directory that may be full, an inode table with 2 or 8 slots left (`Rooms`) |
| `Tty` | do FS and the driver agree on who waits, does neither wait for the other for ever, does each answer reach its call? | two programs, a console and a serial line, queues of two characters; mixes of a reader and a writer of the console, two readers of it, a reader of the serial line, and a writer of it whose modes change; two of the keys at a time |
| `Clock` | is no alarm forgotten, no tick lost, is the quantum sane and does everybody get his turn? | three users in families of up to three, alarms of two ticks while only the first two live (`Sleepers`), a quantum of two, three rounds between flips |
| `ProcMessage` | the first of the disagreements below | locks and signals of `ProcSignal` |

A property of a run is a conjunction of named parts where several of them speak of
the same thing (`Scheduled`, `Queued`, `MmAgrees`, `Suspension`, `BothKnow`, ...); each
part has its own comment.

The bounds. `maxPend` of a mix in `Proc` limits the unfinished signals of a process;
two are enough for a second signal to arrive before and after the first was
reported, and one where programs fork and exit as well. The queues are bounded by the number of processes. Two users are enough
for a queue of two and for both orders in it; three are enough for a family whose
owner exits and leaves two shadows.

Three programs of up to four clicks in 12 clicks fragment the memory into as many
holes as there can be, so the run meets a full table, blocks that abut none, one
or two holes when they are freed, requests of exactly the size of a hole and
refused ones.

`Mm` needs no bound on a counter: signals are sets. Three programs beside `init`
give a family of three generations, a program that has exited with children of its
own, and slots that are used again while others are left. A signal is for one
process and MM's loop looks at one process at a time, so the mix of kernel signals
has one program and many signals. The mixes that pass leave out the calls that lead
to a disagreement below.

`MaxDrift` in `FsPipe` bounds how far `susp_count` may rise above the number of
processes that hang: each signal that ends an `open()` of a FIFO raises it by one
for ever. One is enough for every test of the count to see it wrong. `Slot` is no bound:
it names the inode whose pipe `IsStream` follows, and the run has one inode.

Four buffers in `FsCache` are two for the maps of mounted devices, and two for the
blocks of a call; the real numbers are 30 and more, of which `load_bit_maps()` leaves
3 for a call that holds at most that many. The buffers are symmetric.

Three inodes in `FsNames` are the root, a directory and a third that is a file or a
directory in either; a directory block has two entries (64 in the source), so that
the third name makes a directory grow. `NR_LINKS` is 8 for 256 and `LINK_MAX` 3 for
127. Calls of rename() that lead to a disagreement below are excluded by `Wild =
FALSE` (`Tame`, `Roomy`).

In `Tty` the input queue, `rs_buf` and the buffer that the interrupt fills hold two
characters (`TTY_IN_BYTES`, `RS_BUF_SIZE`, `BufMax`), a write is three, so that it
takes two rounds. Two kinds of keys are typed at a time, which keeps the liveness checks
small; with all of a line's keys in one mix the properties hold as well. `DoneMax` bounds `output_done`, which the source increases for a
completed write and does not always decrease. Each line is a different mix, since
the lines share only the loop of the task.

In `Clock`, `MaxPending` bounds the ticks that are told apart: those that are more
than every alarm make no difference. `MaxLate` says that the clock task takes less
than two ticks from its interrupt to its `receive()`; the invariants hold with 3 as
well. `FLIPWAIT` is 3 for 5. `Sleepers` are the users who may live while an alarm
runs: with three of them TLC would need more than five minutes. Alarms do not depend on
the queues, and turns on alarms only by the rounds of the task that these add.

`Turns` has two escapes beside a call of somebody. `Held`: a driver works for the
owner, and the flip waits for it. `Crowded`: the q users of USER_Q take up to
`MaxLate` + 1 rounds of the task each, and one that was flipped in may be flipped out
before its turn if q (`MaxLate` + 1) > `FLIPWAIT` + 1. The bound is exact: without this
escape (`AllTurns`) the property fails with `FLIPWAIT` 2 and holds with 3 and 4, for
three users and `MaxLate` 1; with `MaxLate` 0 it fails with 0 and holds with 1 for three
users, fails with 1 and holds with 2 for four. With the source's five rounds that is
more than six users who only compute, or more than three if the task is always one
tick late.

Deadlock is checked in `ProcIpc`, `ProcFlush`, `ProcSignal` and `Alloc`. In the others
the system may really stop: in `ProcLife` in a `panic()` of `rmshadow()`, in `Mm` when
all programs are stopped and nobody is left to resume them, in `FsPipe` when all
hang on a pipe, in `Tty` when nobody types, in `Clock` when no process is left; the
mixes of `FsCache` and `FsNames` have states in which no call is possible.

All runs are small enough to end in less than a minute on two cores of a current
machine, `Clock` in about two and a half: each has between six thousand (`Alloc`) and 1.2 million (`Mm`) distinct states.

### Fairness

`Proc`: weak fairness of `unhold` (a loop without waiting), weak fairness of leaving
a `lock_` routine, and strong fairness of the calls of a running task: a task is a
loop around `receive()`, so whenever it runs it gets to its next trap. Nothing is
assumed of users, servers, or the arrival of interrupts. `HeldServed` needs all
three: held interrupts are flushed by `restart`, and while a task runs only its next
call gets there.

`FsPipe`: weak fairness of `Revived`, the step that FS takes before any other.
`TakesWorkAgain` is about the retries themselves, which could revive each other.

`Tty`: the task, its interrupts and FS go on when they can (weak fairness; strong for
those that only get on while the driver rests). That FS gets the processor at all is
not fairness of the code: who types without end can keep the driver busy. So the
liveness properties have the premise `TimeLeft`, that FS runs again and again.

`Clock`: ticks come, and not all of them while the clock task is busy (strong fairness
of `clock_handler` while the task rests); the task goes on; MM, FS and SYSTASK finish a
call when the clock leaves them the processor again and again.

### Where code and comments disagree

The run `ProcMessage` shows one of them: `inform()` uses SYSTASK's own message
buffer. If SYSTASK is ready, with a request received, when another task signals a
process, the request is overwritten (`MessageKept`).

TLC refutes further properties on the instances named here. They are stated in
the modules, and have no run of their own:

| property | instance | what the code does |
|---|---|---|
| `TasksFirst` | that of `ProcIpc`, no services | `ready()` does not pre-empt on the M68000 and nothing picks a process at the end of a trap, so a server goes on running after it has made a task ready (`proc.c:331`), in spite of the priorities in `proc.c:321` |
| `NoPhysioShadow` | that of `ProcLife` | an exit or exec of the owner of a family's place panics if the next member is in use by a driver (`stshadow.c:74`) |
| `OneExit` | `KillAllMixes`, `NR_PROCS = 5` | the superuser's `kill(-1)` reaches a process that has exited and was not waited for yet, in spite of `signal.c:160`, "if a process has already exited, it can't receive signals": the test for `HANGING` is overridden a few lines below. It exits again and its memory is freed twice (`signal.c:170`) |
| `OneExit` | `ExitedMixes`, `NR_PROCS = 5` | a process that exits while it is stopped is still found by ptrace, and a signal with request 7 makes it exit again (`trace.c:48`) |
| `StopAgrees` | `StepMixes`, `NR_PROCS = 5` | request 9 lets the process run, and MM keeps `STOPPED` (`trace.c:53`) |
| `ChildUntraced` | `ForkMixes`, `NR_PROCS = 5` | a child inherits `STOPPED` of a parent that is stopped while its fork is queued (`forkexit.c:83`) |
| `Interrupts` | `ResumeMixes`, `NR_PROCS = 5` | a signal sent by ptrace does not end a pause or wait (`trace.c:48`) |
| `AlarmKept` | `AlarmMixes`, `NR_PROCS = 5` | a late `SIGALRM` clears `ALARM_ON` of the next alarm, whose signal is then dropped (`signal.c:180`) |
| `SignalsFinished` | `AlarmMixes` with signal 16 raised | a stack fault reported together with another signal is never finished, and the process stays inhibited (`signal.c:123`) |
| `PairRevives` | that of `FsPipe` | `open.c:259` says that with a reader/writer pair all are revived; who opens a FIFO for both waits for a reader, and leaves a writer that waits for one where it is |
| `NoLeak` | that of `FsPipe` | an `open()` of a FIFO that a signal ends keeps its descriptor and filp, which the program does not know of (`pipe.c:258`) |
| `SuspCounts` | that of `FsPipe` | `susp_count` is more than the "number of procs suspended on pipe" (`glo.h:11`) once such an `open()` was interrupted |
| `NoJunk` | that of `FsCache`, `BadAddress = TRUE` | a write of a whole block from an address the program does not have marks the block dirty with what the buffer held before, another file's data (`read.c:225-236`; `cache.c:36`) |
| `LinksCounted` | `DotPaths`, `Wild` | rename("a/.", "b") moves the entry "." of a directory: the test looks at the whole path only (`link.c:224`) |
| `IsTree` | `LoopPaths`, `LINK_MAX = 4`, `Wild` | rename("../a", "b") inside of a puts a into itself: the prefix test compares the strings of the paths (`link.c:221`) |
| `LinksCounted` | `LockedPaths`, `Wild` | the ".." of a moved directory that its owner may not write is not changed, and the counts of both parents are (`link.c:282`) |
| `NoCrash`, `NamedOnce` | `DeepPaths`, four inodes, `Rooms = {3}`, `Wild` | with a full inode table mkdir() uses the `NIL_INODE` of last_dir() (`open.c:378`), and rename() takes a name that it could not look up for one that does not exist (`link.c:217`) |
| `LinksLimited` | `LockedPaths`, four inodes | mkdir() counts up the parent without looking at `LINK_MAX` (`open.c:392`, `limits.h:54`); with `NR_LINKS = 4` the count wraps and `LinksCounted` fails |
| `NoneForgotten` | `TwoWriters` of `TtyMC` | a line is in use until `tty_o_done()`, but do_write() asks for `tty_outleft` only: a second writer of a serial line takes the place of the first, in spite of `tty.c:607`, "better return an error than mess it up" |
| `NoneForgotten` | `ReadAndWrite` | of two REVIVEs in one round of the task the second is refused with `ELOCKED` while FS asks the driver for something, and tty_reply() does not look (`tty.c:791`) |
| `BusySends`, `WritesEnd` | `StopLine` | XOFF, then XON on a serial line: the line is marked busy with no character on its way (`rs232.c:396`) |
| `LinesCounted` | `StopAndEof`, `EraseEof` | an end of file is counted as a line before it is known to be stored: one that is typed while the output is stopped only resumes the output, and one that is erased is not counted down (`tty.c:280`, `tty.c:460`) |
| `InputSeen` | `TypeAhead` | do_int() returns after it has finished a write: characters wait for the next interrupt (`tty.c:116`) |
| `WrittenAll`, `PhysioLeft` | `WriteSignals` | an interrupt key empties the output; the write is reported shorter than it is, or its memory stays fixed |
| `BusySends`, `FsReturns`, `OnlyCallers` | `BadBuffers` | a bad address is found when the line is already taken: do_read() answers and leaves the reader on it, do_write() starts an empty output (`tty.c:484-492`, `tty.c:622-627`) |
| `OwnAnswer`, `NoneForgotten` | `TwoLines` | a REVIVE for one line is taken by FS for the answer of the other, as dev_io() looks at the status of whatever message it gets (`device.c:97`) |
| `ReadersServed` | `ModeChange` | a reader is not looked at when the line changes to CBREAK |
| `BilledMoved`, `AllRun` | that of `Clock` with `Deltas = {0}` | sched() moves the head of the user queue, which need not be "the current process" (`proc.c:444`) that has run too long: that one may be blocked in a call. A ready user may so be put back again and again, with no shadow about |
| `AllFlip` | that of `Clock` with `Deltas = {0}` | each fork sets `flipwait` again (`stshadow.c:34`): while a program goes on forking, no shadow gets its place |
| `AllTurns` | that of `Clock` with `Deltas = {0}`, `FLIPWAIT = 2` | with enough users who only compute, a shadow that was flipped in is flipped out again before its turn |
| `Turns` | that of `Clock` with `Deltas = {0}`, `MaxLate = 2` | if the clock task is held up, two quanta end before a user runs |

Read in the code, without a property: `open.c:96-103` says that a new inode is forced
to the disk before its entry is made, which it is not unless `ROBUST` is 1
(`config.h:20-25`): its block is only marked as modified; an alarm is put off while ticks always fall
into the search of do_setalarm() (`next_alarm` is the maximum there); `SECONDS_LEFT`
rounds down to 0; a child has its parent's alarm; `mm/signal.c:313` says that READ and
WRITE on pipes return EINTR, and do_unpause() lets them hang (`pipe.c:245`); a writer
that hangs on a full pipe which was emptied hangs until the next read; a FIFO that is
opened again starts at position 0 though data remain; mount() marks a device as loaded
when load_bit_maps() has failed (`mount.c:89`); unlink("/") of the superuser deletes
the first entry of the root; do_mknod() has a call with its parentheses in the wrong
place (`open.c:58`); rename("a", "ab") fails with EINVAL for the prefix; rs_flush()
returns without restoring the interrupt mask; a full input queue drops newlines and
interrupt keys.

## What is proved

`ProcSafety` proves for all sets of tasks, numbers of processes, signals and
calls that satisfy the named assumptions of the modules:

* `TypeCorrect`: `Spec => []TypeOK`. One lemma per routine (`ReadyType`,
  `SendType`, `ForkType`, ...) says that it maps a kernel to a kernel; a lemma
  per kind of action lifts them to steps. The interesting parts are that
  `p_pendcount` stays a natural number (the check in `do_sig()`), and that a
  queue is a sequence of processes after a removal from its middle.
* `QueuesRight`: `Spec => []Scheduled`: every ready queue holds the runnable
  processes of its class and nobody else, each once, and `proc_ptr` is the head of
  a queue that is not the shadows';
* `SendersRight`: `Spec => []Queued`: SENDING and the caller queues agree, and no
  two processes wait in the queues of each other;
* `SignalBooks`: `Spec => []SignalsCounted`: the flags, sets and counts of pending
  and of unfinished signals agree.

The inductive invariant of the last three is `Kept(k)`: `Runs`, which is `Scheduled`; `Sends`, which
adds to `Queued` that nobody queues on a user (why fork() may copy the empty
queue of the parent, and a killed user leaves no sender behind); `FlagsKept`, which
flags a task, a server and a free slot can have at all, and that a process that
is both SENDING and RECEIVING (in the middle of BOTH) waits for one source (why
cause_sig(), which does not look at SENDING, calls inform() only when MM takes the
message); and `Books`, which is
`SignalsCounted`. `Runs` is stated for the set of the processes that count as
runnable, because the routines change the flags and the queues one after the
other: between `unready()` and the new flag, or while a shadow changes queues, the
queues are right for a set that differs from {p : p_flags = 0} by one process.
Each routine has a lemma that it maps kept tables to kept tables; an interrupt, a
trap and the work of a task are compositions of these. That nobody sends to himself
is an assumption (`CallsAssumption`): mini_send() does not test it, and a process
that did would wait in its own queue.

`ProcSteps` proves, on top of these and from the same assumptions:

* `FamiliesPlaced`: `Spec => []FamilyPlaced`. The invariant `PlacesRight` adds that a
  user whose memory a driver uses waits for FS (`UsersOfDrivers`), so it can neither
  fork nor exec nor be freed by its own exit, and that the only panic is the one for a shadow that
  a driver uses: rmshadow() finds an heir in every family that has a shadow left and
  unshadow() an owner to flip with, since a family has exactly one;
* `PhysioNotMoved`: `Spec => PhysioFixed`, an action property, from the same invariant:
  the process that flips, forks or execs does not wait for FS, and a step that
  moves others looks at `p_physio`;
* `SignalsTold`: `Spec => []NoSignalForgotten`. The invariant `MmTold` says of MM's
  RECEIVING what the property says, and that MM never waits for an interrupt; a
  lemma per routine says that MM waits afterwards only if it has waited before
  and nothing is new (`NothingNew`), or that it was told;
* `MessagesDelivered`: `Spec => Delivered`, an action property in three parts, each a relation
  between two tables (`Wanted`, `Heard`, `Recorded`) that is proved per routine and
  for the steps. Most routines leave messages, caller queues and interrupts on record
  alone (`Silent`); what mini_send(), mini_rec(), inform() and interrupt() deliver is
  said by a lemma each (`Sent`, `Taken`, `Interrupted`), and the replies of SYSTASK come to
  processes that wait for it.

That a program does not ask for a message from HARDWARE is part of
`CallsAssumption`: only tasks do.

`AllocProofs` proves for every size of memory, every size of the tables and all
requests, if `TOTAL > MINIX + RAM` and `NR_HOLES >= NR_PROCS - 1` (the source has
128 and 32):

* `MemoryKept`: `Spec => []HolesKept`, all state properties of the run;
* `NeverFull`: no panic. The argument: holes never abut, so below each hole ends
  an image or the system, no two holes have the same neighbour, and hence there
  is at most one hole more than there are images;
* `Implements`: `Spec => PromiseKept`, the refinement of `Memory`.

All rest on one inductive invariant, `IInv`. To the properties themselves it adds
the number of images (without it the table could be full) and states the
partition click by click (`Layout`), which is what the lemmas about the operators
speak of: `AllocMem`, `FreeMem` and `MergeSpec` say which clicks are in a hole
afterwards and that the list stays sorted; between the insertion and the merge it
is `Sorted` except at the two places where the new hole may abut.

`MmProofs` proves for any number of slots and any mixes of calls and kernel signals, those
left out of the run and those that lead to a disagreement above among them:

* `FamilyKept`: `Spec => []Family`: MM and the kernel agree on who lives, parents exist,
  `procs_in_use` counts;
* `WaitersRight`: `Spec => []WaitersKnown`: WAITING and PAUSED say who waits for MM, and MM
  replies to nobody else;
* `ParentsTold`: `Spec => []WaitAnswered`; and `Types`: `Spec => []TypeOK`.

The inductive invariant `IInv` is about the process table and holds between any two
routines, with two exceptions: `Good(t, w, x)` is stated of a table t with a process w
whose call MM serves (it waits, and has neither flag) and a process x that is dying (MM
has written it off, the kernel not yet). Its parts are `Parented` and `Counted`, which are
`Family`, where a slot that has exited is in use and no slot is its own parent; `Agree`,
`TablesAgree` but for x; `Waiters`, `BlockedKnown` for w too; and `InitKept`: INIT lives,
ignores what it may be sent and makes only the two calls of its loop, which is why every
parent that goes leaves an heir. `Told` is `WaitAnswered`; `ToldBut` excepts the parent of
the process that MM is about to report. The order of the proof is that of the code:
`WakeGood` (a reply to who waits), `FreedGood` (a slot is given back and its children go to
INIT), `CleanupGood` (both, and the same once more for a dead child if INIT waits),
`ExitGood`, `SigGood`, `CheckGood`, `WaitGood`, `TraceGood`, `ForkGood`; what only changes
signals, marks or alarms is `Alike`. A free slot is found by counting (`FreeGood`).

`FsPipeProofs` proves for any number of processes, descriptors, filps, inodes and bytes of a
pipe, and any mix of calls that the programs of the types in `MixAssumption` make:

* `CountsRight`: `Spec => []Counts`: the count of a filp is the number of descriptors
  that refer to it, that of an inode the number of filps;
* `SuspensionRight`: `Spec => []Suspension`: types; `reviving` is the number of the
  processes marked; `susp_count` covers those that hang; FS holds a call exactly while
  the program waits for it;
* `NobodyStrandedRight`: `Spec => []NobodyStranded`: nobody hangs on a pipe or in
  open() for what has come already.

The three properties hold only together, in the inductive invariant `IInv`, because
each routine of FS relies on what another has left:

* `Files`: the counts, that slots without references are empty (`Slots`: a slot is found
  free by its count), and `PipeEnds`: a pipe has at most one filp to read from and one
  to write with, the writer's position is the end of the data, and the reader's is
  short of it unless the pipe is empty: a pipe that is read out is reset at once;
* `Told`: the dead have no descriptors and no call, except the one whose death MM is
  about to tell FS of; and `Marks`, `Covers`: the counters;
* `Hooked`: what a suspended process hangs on is open in the way it needs, by a
  descriptor of its own that is counted, so that a retry finds it whoever closes
  another;
* `AllFlow`, which is `NobodyStranded` for pipes, and `Alone`: nobody has the other end
  of what a process waits for in open(), since an open() that finds it open suspends
  nobody and releases all who wait.

While FS works on a call the program waits and FS does not hold the call, which is why
the invariant `Good(f, e, w)` is stated of tables f with a process w that is excepted.
Each routine has a lemma on tables (`ReleasedGood`, `ClosedGood`, `ClaimedGood`,
`ReadGood`, ...); a call is a composition of them, and `RunsServed` and `RetryServed`
say that a new call and a retry start from good tables.

`FsPipeStream` proves from the same assumptions, for the pipe in any inode:

* `StreamKept`: `Spec => IsStream`, the refinement of `Stream`: every step of FS, of a
  program or of MM is a step of the stream or leaves it alone.

It is a fact about two tables, `Moved(f, g)`: the stream is the `Same`, it is `Shut`, it
has a new reader and is empty, or bytes were taken or appended. Most routines only
change processes (`ProcsOnly`), counts and descriptors (`Kept`), or other inodes
(`Elsewhere`), and leave the stream as it was; what close(), dup2() and exit() do is
`Shrunk`: inodes and filps are as they were or given back, so the stream is the same or
has lost its reader. For reads and writes the proof needs `PipeEnds`: the pipe has one
position to read from (`SoleReader`), a write is at the end (`WrittenMoved`), and the
reset of a pipe that is read out takes exactly the rest (`EmptiedMoved`). A new pipe is
in an inode that nobody has read from, by `Slots` (`PipeMoved`). `TakenRest` and
`PutRest` are the facts about sequences.

`CacheProofs` proves for any number of buffers, devices and blocks, any use of blocks by the
calls, and whatever sectors fail, if a call holds no more blocks than a mount leaves
(`RoomAssumption`; `load_bit_maps()` leaves 4, a call holds 3 at most):

* `BufsRight`: `Spec => []BufsKept`: a buffer counts the calls and the bit maps that use it,
  `bufs_in_use` the buffers in use, the chain has each buffer once, and no call finds
  the pool exhausted;
* `ConsistentRight`: `Spec => []Consistent`: a block is in one buffer, a buffer that is not
  dirty has what the device has, and of a device that is neither mounted nor open
  there is nothing in the cache.

The inductive invariant `IInv` is `Safe(c, held, open)`. `Books(x, u)` says of a cache x that
its counts are u; between calls, u is `Uses(held, super)`: what the call holds and the bit
maps of what is mounted. Within a routine u differs from that, and a routine's lemma says
what it adds or takes (`Takes`, `Puts`, `Queues` for what is read ahead). `Single` and `Clean`
are what makes the cache consistent; `Good(x, u, w)` excepts from `Clean` the buffers w that
a routine has taken and not filled yet. Three parts are about the super block table.
`MapsRight`: the bit maps of a device are in a buffer of its own, so that unmounting and
invalidating one leaves the others. `Slots`: slots are taken from the last one on, and only
with enough buffers, so that `load_bit_maps()` cannot fail for a slot that was used once
(`NotStale`); if it could, the buffers that the slot still points at would be put once more,
as `do_mount()` takes the maps for loaded even then (`mount.c:89`). And that at
least `MaxHeld` buffers are not maps, which is the margin. That `flushall()`, `invalidate()` and
`rahead()` end with what is claimed is by induction on devices, chain or blocks, on the
recursive functions they are written as (`Recursion`, `Steps`); the blocks that `rahead()`
queues are all different and in no other buffer, so that it reads none twice.

`ClockProofs` proves for any number of processes, every quantum, all times below
`MAX_P_LONG` and any number of interrupts that fall into the task:

* `AlarmsRight`: `Spec => []AlarmsKept`, and `QuantumSane`: `Spec => []SchedSane`.

For these, and as part of the invariant, it proves `OnePlace` and `Families`: who is
ready stands in one queue once, a shadow in SHADOW_Q and an owner in USER_Q, and every
family has exactly one owner. So `unshadow()` always finds the owner that it exchanges
with, and its panic "only shadow(s)" (`stshadow.c:118`) is not reached. `Placed` states
the two for given sets of live, waiting and served users; one lemma for each routine
(`ReadyPlaced`, `UnreadyPlaced`, `RmshadowPlaced`, `MkshadowPlaced`, `FlippedPlaced`)
says what becomes of it.

The invariant `IInv` says at each place in the task what the properties say when it
rests: `NextInv` is open only while the table is searched; `TimeInv` excepts the one
alarm that is being set, whose stopwatch already runs; `SchedInv` has `sched_ticks`
positive everywhere but between `do_clocktick()`'s test and its reset, where the handler
can only take it further below 0 and therefore never tests it true; `MessInv` says that
MM waits until CLOCK has answered, so that nobody else touches the alarm. That the
search finds the least of the alarms (`Least`) follows from the well-foundedness of the
subsets of a finite set: the numbers below the least are the fewest.

## What is only model-checked

Liveness (`HeldServed`, `TakesWorkAgain`, `FsReturns`, `WritesEnd`, `AlarmSounds`,
`Turns`), the refinement of `BlockStore` by `FsCache`, and all properties of
`FsNames` and `Tty` are checked by TLC only. Of `Mm` these are `MmAgrees`,
`SignalsFinished` and `Interrupts`, which do not hold for all mixes (see the
disagreements): `MmAgrees` not with request 9 and not if a program that is traced forks,
`SignalsFinished` not with stack faults, `Interrupts` not with signals sent by ptrace.

## Not modelled

* Registers and stacks, the content of memory, `sys_copy` and the other requests to
  SYSTASK that change no table the properties look at.
* The commands of the disk, floppy, DMA and printer controllers: sequences dictated by
  hardware that is not in this repository. As senders, receivers and sources of
  interrupts they are tasks of `Proc`.
* FS: permissions, mount points in paths, times; the search in bit maps and the
  zones of a file, which are computations on the content of blocks.
* The terminal: escape characters, RAW mode, process groups, line speeds, screen and
  keyboard layout.
* The clock: get and set time, the accounting of time, watch_dog functions (no task
  of this build sets one).
* The kernel, MM, FS and terminal in one model: a signal for a process group that
  reaches a slot which is free already (`tty.c:728`) needs all four.
* The library, the commands, tests and tools: programs on top of the system, by far
  the most lines of the repository, with no state that they share with each other but
  through the calls above.
* `src/src/llvm`, the `.ll` files and `src/kernel_cpp17`: derived files and headers that
  no build of the system uses.

`PROJECT.json` lists every component with its status.

## Plan

1. `ProcTable`, `Proc`, `Alloc`, `MmTable`, `MmProc`: done.
2. `FsTable`, `FsPipe`, `Cache`, `FsCache`, `Names`, `FsNames`, `TtyLine`, `Tty`, `Clock`:
   done.
3. Theorems: all state properties and both action properties of `Proc`, all of `Alloc`, the state
   properties of `Clock`, `FsPipe` and `FsCache`, the refinement of `Stream`: done, and of
   `Mm` those that hold for all mixes. Left: the refinement of `BlockStore`, the invariants
   of `Tty` and `FsNames`, and what holds of `Mm` for some mixes.
4. The bit maps and zones of a file (`super.c`, `write.c`); permissions and mount
   points in `Names`; a composition of kernel, MM, FS and terminal for the races
   between their ideas of one process.
