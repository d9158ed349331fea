# StartOS in TLA+

This directory holds TLA+ models of the StartOS kernel (`src/kernel`), the TLC
configurations that check them on small instances, and TLAPS proofs of the
properties that matter most. `PROJECT.json` lists the components, the runs, the
source lines behind each definition, the hazards, the findings and the theorems.

StartOS is a small RISC-V kernel in C++ for the K210 board and QEMU: a process
table with a round-robin scheduler, traps and a timer, pipes, a VFS with a
FAT32 and a device file system on a buffer cache and a virtio disk or an SD card,
virtual memory with `mmap`, and the drivers of the board.

## 1. The system

### Who runs where

`boot/main.cpp` decides what can interleave. Hart 0 initialises the kernel and
runs `scheduler()`; hart 1 enables its interrupts and spins, so it never runs a
task but takes timer and device interrupts. Tasks are preempted in the kernel
too: `kerneltrap` calls `yield` on a timer interrupt when the task is `RUNNING`.
A spin lock turns the interrupts of its hart off, so

* code under a spin lock is atomic for the tasks of hart 0;
* between two spin locks a task can lose the hart;
* an interrupt handler on hart 1 runs in parallel with all of this, and only
  spin locks keep it out.

Every model below rests on these three facts.

### Components

| Component | State | Operations | Interacts with | What makes it correct |
|---|---|---|---|---|
| Task table, scheduler (`os/TaskScheduler.cpp`) | slots: state, parent, channel, killed, lock; current task | fork, clone, exit, wait, wait4, sleep, wakeup, sleepTime, yield, kill | traps and the timer call it; everything that sleeps uses it | no lost wakeup, no lost slot, a slot has one owner, zombies are reaped, runnable tasks run |
| Traps, timer (`os/trap.cpp`, `os/Timer.cpp`) | tick counter, its lock | user and kernel trap, device and timer interrupt | wakeup, yield, exit | a tick is seen by whoever waits for it |
| Spin locks (`os/SpinLock.cpp`, `os/Intr.cpp`) | owner, nesting depth | lock, unlock, push_off, pop_off | all | a task switches with exactly its own lock |
| Sleep locks (`os/SleepLock.cpp`) | locked, pid | lock, unlock | buffers and inodes | nobody sleeps on a free lock |
| Pipes (`fs/Pipe.cpp`) | ring, two 32-bit counters, two open flags | read, write, close | sleep, wakeup, file references | bytes arrive once and in order; deleted when unreachable |
| VFS, files (`fs/vfs`, `fs/vfs_file.cpp`) | files, references, offsets, mounts, inodes | openat, read, write, close, dup, mount, namex | file systems, pipes | a file lives as long as its references |
| Buffer cache (`fs/buf/BufferLayer.cpp`) | buffers: block, valid, refcnt, data, lock | allocBuffer, freeBuffer, read, write | FAT32 above, disk below | a block is in one buffer, eviction loses nothing |
| Virtio disk (`driver/virtio.cpp`) | descriptors, rings, request table | VirtioRw, VirtioIntr | device, sleep, wakeup | every call transfers its own sector once |
| FAT32 (`fs/fat32`) | FAT, directories, inode cache | lookup, create, unlink, read, write, allocate and free clusters | buffer cache, raw sectors | chains do not share clusters; entries agree with chains |
| Device files, console (`fs/devfs`, `device/Console.cpp`) | line buffer | read, write, interrupt | VFS, UART | typed lines arrive once |
| Physical memory (`memory/MemAllocator.cpp`, `BuddyAllocator.cpp`) | free list, buddy lists | alloc, free | all | a block has one owner, buddies merge |
| Virtual memory, mmap, exec (`memory/`, `os/Exec.cpp`) | page tables, vmas | map, unmap, copy, fault, mmap, munmap, exec | allocators, files | a frame has one mapping or a counted share; failure undoes itself |
| System calls (`os/Syscall*.cpp`) | fd tables | argument checks and dispatch | all | an error leaves nothing half done |
| Containers (`src/sstl`) | map, list | put, get, poll | inode cache | a map is a map |
| SD card (`device/Sdcard.cpp`, `driver/spi.cpp`, `dmac.cpp`) | SPI controller, DMA channel, chip select, lock | start-up, read and write of sectors | card, sleep, wakeup | one owner of the bus; every sector arrives whole |
| Pins (`driver/fpioa.c`, `gpiohs.cpp`) | pad settings, GPIO registers | assign a function, set a drive mode or a level | SD card | the card's wires are on one pad each |
| Clock (`driver/rtc.c`, `device/Clock.cpp`, `os/time.cpp`) | date, time, tick and alarm registrations | set, read, register ticks and alarms | `gettimeofday`, `clock_gettime` | a time read is a time that was |
| System controller (`driver/sysctl.c`) | clock enables, resets, PLLs, dividers | enable, reset, select, frequencies | all drivers | a clock that is enabled reaches its device |

`rustsbi`, the user programs and the tools are not part of the kernel. The old
file system code (`Vfs.cpp`, `Fat.cpp`, `DeviceFileSystem.cpp`) is still compiled
but superseded, except for `vfs::close`, which `exit` calls.

### What is hard here

Interrupts of hart 1 against the task table; preemption between two spin locks
(`allocTask`, `exit`, `allocBuffer`, `allocVma`); wakeups that nobody repeats;
counters that overflow; device completions in any order; a cache and a
directory update that does not use it; calls that fail in the middle; reference
counts that many paths share; long sequences of calls on one address space;
registers that are read one after the other while the hardware moves on.
`PROJECT.json` lists each such place with its line under `hazards`, with the
properties that cover it, what a property leaves open, or why there is none.

## 2. Modules

| Module | Models |
|---|---|
| `TaskScheduler` | task table, scheduler, traps, timer of both harts |
| `TaskSchedulerProofs` | its theorems |
| `ByteStream` | abstract: a bounded byte queue with two ends |
| `Pipe`, `MCPipe` | `fs/Pipe.cpp` and the references of its two files; implements `ByteStream` |
| `PipeProofs` | its theorems |
| `BlockStore` | abstract: blocks that hold what was last written |
| `BufferCache`, `MCBufferCache` | buffer cache and sleep locks, as FAT32 uses them; implements `BlockStore` |
| `BufferCacheProofs` | its theorems |
| `Virtio` | the disk driver and its interrupt against the device; implements `BlockStore` |
| `VirtioProofs` | its theorems |
| `FileStore` | abstract: files that are sequences of blocks |
| `Fat32`, `MCFat32` | cluster chains, directory entries and inodes of the FAT32 file system, with `openat`, `close` and `unlinkat`; implements `FileStore` |
| `Fat32Proofs` | its theorems |
| `Files`, `MCFiles` | descriptors, file objects, pipe ends and inode references: `SyscallFile.cpp`, `vfs.cpp`, and what `fork` and `exit` do to them |
| `FilesProofs` | its theorems |
| `FileIo` | offsets and sizes of files: read, write, readv, writev, lseek, fstat |
| `Memory` | page frames, page tables and mapped areas: `MemAllocator`, `VmManager`, `mmap`, `exec`, `growtask`, page faults |
| `MemoryProofs` | its theorems, and those of `Buddy` and `HashMap` |
| `Buddy` | the kernel heap: `operator new` and `delete` over `BuddyAllocator` |
| `HashMap` | `std::map` of `sstl`, with its nodes in the heap of `Buddy` |
| `MCMemory` | one run for `Memory` and for `HashMap` on `Buddy` |
| `SdCard` | the SD card driver over SPI and DMA, with the card |
| `FunctionTable`, `Pins` | the table of 256 pad settings, and the pin multiplexer and GPIO that use it |
| `Rtc`, `MCRtc` | the calendar, `clock::init`, and the reads of the clock in `CurrentTimeSpec` and `getTimeVal` through the struct they share |
| `RtcTicks` | the tick and the alarm that share one hardware tick |
| `BoardProofs` | theorems about `Pins`, `Rtc`, `RtcTicks`, `Sysctl` and `SdCard` |
| `Sysctl` | clock enables, resets, DMA request lines and the tree of frequencies |
| `MCDevices` | one run for the five device parts |

`BlockStore` is the seam between the two disk modules: `Virtio` shows that the
driver is a block store, and `BufferCache` assumes exactly that of its disk
(a transfer takes effect at one moment) and shows that the cache is one again.

`MCMemory` and `MCDevices` check parts that share no state. A variable `part`,
chosen in the initial state, says which part moves; the others stay in their
initial state. The state spaces of the parts add up instead of multiplying, and
every behaviour of each part alone is still there.

Operators whose name has a suffix after an underscore (`Room_OneMore`,
`ExitReparent_Skip`, ...) are mutants: plausible mistakes in the definition they
precede. The `mutants` of `PROJECT.json` say which property each of them breaks.

### TaskScheduler

Per slot: `state`, `parent`, `chan`, `killed` are the fields of `Task`; `pc` is
where the task is in the kernel, `idx`, `have` and `left` its local variables
(`left` is the deadline of `sleepTime` less the current tick, so that the tick
counter needs no bound). `lock` and `timerLock` are owners of spin locks; `cur`,
`sched`, `next` describe hart 0 and `h1` hart 1.

* `SchedulerSkip`, `SchedulerRun`, `SchedulerRelease`: the loop of `scheduler()`,
  with its store to init's state when it meets a zombie.
* `Resume`: the other side of `swtch`. `TimerIntrEnter`, `TimerIntrTask`,
  `TimerIntrIdle`: `handleIntr` on hart 0, with `wakeup` and the `yield` that
  `usertrap` or `kerneltrap` makes after it.
* `Hart1Tick`, `Hart1Check`, `Hart1Set`, `Hart1Done`: the same handler on hart 1,
  slot by slot, because it runs in parallel with hart 0.
* `SysFork`, `AllocTask`, `ForkLink`, `ForkRun`; `SysExit`, `ExitReparent`,
  `ExitZombie`, `ExitWake`, `ExitSched`; `SysWait`, `WaitScan`, `WaitEnd`;
  `SysWait4`, `Wait4Lock`, `Wait4Check`; `SysSleep`, `SleepPushOff`,
  `SleepLockTimer`, `SleepCheck`, `SleepOnTicks`; `SysKill`, `KillSet`; `SysYield`:
  one action per stretch of code between two points where the hart can be lost
  or hart 1 can tell the difference.

`InitCalls` says what init calls: everything but `exit` in `sched_safety`, `fork` and
`wait` (what `user/init.c` and `user/oscmp_init.c` do before they spin) where liveness is
checked.

Left out: the memory and files of a process (`Memory`, `Files`); the
`panic` of `exit` when init exits (init is not in `Killable` and does not call
exit: `user/init.c` and `user/oscmp_init.c` end in endless loops); the panic at tick 600
(`run out of time`). A killed task
that returns from a trap exits through the same steps as one that calls exit.

### Pipe

`data`, `nread`, `nwrite`, `readopen`, `writeopen` are the fields of `Pipe`; the
counters are kept modulo `WORD` (2^32 in the code). `ref` and `fds` are the
references of the two `file` objects and who has them; `asleep` is the channel of
a process that sleeps. `buf` and `want` are what a process still has to write or
read. `Pipe` holds its spin lock through a whole turn of its loops, so a turn is
one action: `ReadEmpty` and `ReadBytes` (which may lose a byte when `copyout`
fails after `nread` was advanced), `WriteBlock`, `WriteDone`, `WriteFail`,
`CloseFile` (`VfsManager::close`), `ClosePipe`, `Dup` (fork and dup), `Kill`.
`abandoned` is a history variable: a `write` has returned -1 after it had put
bytes in the pipe. `VfsManager::read` does not look at `readable`, so either end
may be read from; the model allows that too.

### BufferCache

`valid`, `blockno`, `refcnt`, `data` and `owner` (the sleep lock) are `struct buf`;
`disk` is what is on the disk. A process runs `Start`, then `AllocHit`, `CountHit`
or `AllocMiss`, `TakeVictim` (`allocBuffer`), `SleepLock`, `ReadDisk`, `UseRead`,
`UseWrite` or `UseFails` (the copy fails and the loop is left with the buffer
referenced and locked), `WriteDisk`, `FreeRef`, `FreeLock` (`freeBuffer`), and
after a write `UpdateRead`, `UpdateWrite` (`UpdateInode`, which reads and writes
the sector of the directory entry past the cache).

A file has one block of data and one entry in `Dir`. Which of the unused buffers
has the smallest `last_use_tick` is left open, so LRU is one of the choices. The
lock of an inode is not modelled: calls on the same file interleave more than
they can. The entry of the directory itself lies in another block, which is not
modelled. `Preempt` says whether a task may lose the hart inside `allocBuffer`
while the spin lock is released; it can, see the findings.

### Virtio

`free`, `desc`, `ops`, `info`, `avail`, `availIdx`, `used_idx` belong to the driver,
`used`, `usedIdx`, `devIdx`, `taken`, `raise`, `irq`, `disk` to the device, which is
external: it takes requests from the avail ring, serves those it has taken in
any order, and raises the interrupt some time after the used entry. `Start`,
`Submit`, `NoDescs` and `Finish` are `VirtioRw`; `IntrEnter`, `IntrStep` and
`IntrLeave` are `VirtioIntr`, whose steps can be on hart 1 and so alternate with
the device, but not with `VirtioRw`, which takes the same lock. Ring indices are
kept modulo `WORD` (2^16 in the code). Entries of the rings that were consumed
are blanked, which only merges states. A process sleeps on the address of its
own buffer, so it is woken by its own completion only.

### Fat32

`fat` is the FAT, which the code keeps in memory; `dir` and `cached` are the entries
of one directory, on the disk and as the buffer cache shows them; `inode` is
`inode_cache_map_` with the fields of the inodes (`logi` and `clus` are the place
`bmap` remembers); `file` says which inode a process has open, `dirLock` and the
field `lock` are sleep locks of inodes. An action is what a task does between two places where it
sleeps. `OpenCreate`, `CreateEntry` are `Create`; `Open`, `NamexLock` are `namei`;
`LookupFails`, `LookupBuilds`, `LookupFinds`, `LookupSleeps`, `LookupWakes` are
`Lookup`, `BuildInode`, `GetInode` and `inode::dup`; `Close` is `inode::free`; `Exit`
is the old `vfs::close`, which `exit` still calls and which forgets the inode;
`Read`, `ReadDone`, `Write`, `WriteGrow`, `Grow`, `WriteBlock`, `UpdateRead`, `UpdateWrite` are
`inode::read` and `inode::write`; `Unlink`, `MarkEntryDeleted`, `FreeChain` are `Unlink`.
`Reload` stands for the cache: the directory's buffer is taken for another block.
`Hang` is the endless loop of `AllocCluster` on a full disk.

`UpdateInode` is two steps, because it sleeps between them: `UpdateRead` copies the directory
from the disk into `sector[p]`, `UpdateWrite` writes the `PerSector` entries of the file's
sector back (`SameSector`), its own one changed and the others as they were read. It holds only the
file's own lock, so what others did to the sector meanwhile is undone. Two processes that
update two files of one sector do this to each other's sizes in every run; that an
entry is created or deleted in between is a window (see `Races`).

Abstractions: a block is a cluster, and calls transfer one. A file's long and
short entries are one entry. A cluster that has not been written since it was
allocated holds `None`, which stands for zeroes or for what the cache still has of it
(`ZeroCluster` writes past the cache). A process has one file open. As in the code, names are compared as far
as the name asked for goes, and `O_CREATE` does not look whether the name exists. `Lookup` compares
with `strncasecmp` (`Found`, the pairs `Alike`), `Unlink` with `strncmp` (the pairs `Prefixes`, fewer):
a name that opens a file need not remove it. Both loops also compare the name with what
`tmp_name` still holds when they pass a deleted entry. That is the name of a live entry before it, which
did not match or the loop would have ended, or one whose first letter is the mark of a
deleted entry; the models leave it out, under the assumption that the first entry of the directory is a file
that is never removed.

Bounds: `MaxSlot`, `MaxClus`, `MaxLen`, and `NoLeak` (at most one reference leaked by
`exit` at a time); the run `fat_safety` adds the constraint `MCOneAfterLeak`, by which
one process at a time has a file open or is in a call once a reference is leaked.
`Races` says whether the windows that no lock covers are entered: `Create` and `Unlink` beside another of them or beside a lookup (they work
on the directory without its lock), `Create` and `Unlink` between the two steps of an
`UpdateInode` (`MayWriteDir`), and `Close` overtaking a sleeper in `dup`.

Left out: directories that grow, `Mkdir`, `ReadDir`, paths of several names and
the references to parents; the place `bmap` remembers for the root (its `i_clus`
and `i_logi` are never initialised: it works because `MemAllocator` fills pages
with 5, so that `i_logi` is larger than any cluster asked for); the entry of the
directory itself, which `WriteInode` of a directory updates (for the root, that
is the first entry of the volume); that the FAT is never written back.

### Files and FileIo

`fd` is `openFiles` of each process, `file` the objects with their `ref`, `pipe` the
open ends of each pipe, `iref` the references of five inodes: the root, a directory
`dev` on which a second file system is mounted, its root and its file, and a file
that can be created. A call that touches only the caller's descriptors and the
counts is one action: `sys_openat` (with `namex`, one `Step` per element and
`ConvertInodeByMp` for the mount), `sys_faccessat`, `sys_close`, `sys_dup`, `sys_dup3`,
`sys_fcntl`, `sys_pipe`, `fork`, `exit`. What the code really does is kept: `O_CREATE`
drops the result of `nameiparent` and creates the last element where the path
starts; an inode that is built keeps a reference to its directory for ever;
`registerFileHandle` refuses descriptors above `NFILE`, which is less than `NOFILE`, and
`fcntl` then keeps the reference it has counted; `exit` calls the old `close`, which
does not release the inode; a null file, a path that starts at a pipe's descriptor (`NoStart`)
and a full table of descriptors (`TableFull`) are a panic. `BadBuffer` says whether
`copyout` may fail in `sys_pipe`.

`FileIo` has the offsets that `Files` leaves out: `sys_rw`, `CallInode`, `ReadInode`,
`WriteInode`, `Advance` are one buffer of a read or write, with the offset read
before the inode's lock and changed after it; `sys_lseek`, `sys_fstat`.

### Memory

Addresses are counted in units of which `PGSIZE` make a page. A page table is a
function from its own pages (`Root`, `Top1`, ...) and the virtual pages to frames;
`View` is what a call has of memory while it runs. `alloc`, `walk`, `mappages`,
`userAlloc`, `userUnmap`, `CopyPages`, `FreeTaskPagetable`, `taskPagetable` are the
functions of `VmManager.cpp` and `TaskScheduler.cpp`, with their failures; `fork`,
`exec`, `growtask`, `sys_mmap`, `sys_munmap`, `usertrap`, `exit`, `freeTask` are the
calls, one action each. `lost` collects the frames that no pointer leads to any
more: an `exec` of a missing file forgets its new page table, and a fault that
gets a frame but no table for it forgets the frame. `exec` is called with files
that are missing, too short, no ELF, good, and with a segment that is bad after one
that was loaded.

As in the code: every area is of type `PROG`; `fork` copies no page of an `mmap`
(`CopyVmaMem` keeps the address in an int); `clone` with an area, and `exit` with a
shared one, dereference a null file. Those, and the panics of the code, end the
behaviour (`panicked`). Left out: permissions, contents, the kernel page table,
two calls that overlap.

### Buddy and HashMap

`heap` holds the free list of every level, MemAllocator's pages, and the level in
the header of every block in use. `Look` is `alloc` up to the load of the list's
head, `Take` the rest (`Carve`: the list without the block, `Without`, and the other halves
in the lists of their levels, `SplitLists`); `Delete` is `buddy_free`, one `MergeAt` per level.
`Preemptible` lets another task run between `Look` and `Take`: the allocator has no
lock. `HashMap` puts and polls nodes in that heap: `poll` makes a node that it never
deletes (`leaked`, bounded by `MaxLeak`), and `Reached` is its loop, which ends on the
last node when the key is not there. `begin` and `increment` are the iterator.
`put` is only called for a key that `get` has not found, and `poll` only for one that
is there, as `GetInode` and `FreeInode` do.

### SdCard

`boot` is the step of `sd_init`: each `Attempt` sends a command that the card answers
or not, until `timeout` is used up; `Fail` is its error return, on which `SdCard::init`
panics. Then calls of `SdCard::read` and `write` take the sleep lock for each
sector (`Lock`), send CMD17 or CMD24 (`sd_send_cmd`), wait for or send the token, start
the DMA through a page of their own (`spi_send_data_standard_dma`,
`spi_receive_data_standard_dma`), test the channel and sleep (`dmac_wait_idle`, `Sleep`),
and end the command (`Answer`, `Status`). `DmaFinish` is the channel, `dmac_intr` its
handler. `Decode` is what the card makes of an address: bytes on a standard card,
sectors on a card of high capacity. Bytes that are polled under the lock are one
step. A failing command of a call is a panic, as in the code.

### Pins, Rtc, RtcTicks, Sysctl

`FunctionTable` is `function_config`: ten settings for 256 functions. `Pins` assigns the
five functions of the card in the order of `fpioa_pin_init`, from every state the
pads may have (`ResetPads`), and then sets modes and levels of GPIO pins.

`Rtc` sets the clock as `clock::init` does and lets days pass with the calendar as a
calendar says it; `mktime_Days`, `rtc_get_wday`, `rtc_get_yday` and `leapYears` are the
code's four formulas, and `getTimeVal_Days` is the sum of `getTimeVal`, with `tm_yday` as
`rtc_timer_get_tm` reduces it modulo 366. A read of the clock is, step by step: the three registers
(`ReadDate`, `ReadTime`, `ReadExtended`), the fields of `rtc_timer_date_time` in the order of their
stores (`StoreField`), the fields that the caller copies (`CopyField`), and the answer
(`CurrentTimeSpec`, `getTimeVal`). The struct, `tm`, belongs to all `Readers`; the
task can lose the hart between any two of these steps, and the chip moves on at most `MaxLag` times in a
read. `OverlappingReads` says whether a second task may start a read while one is under way.
When nobody is reading, `tm` is forgotten, which only merges states: a read stores every field before
it copies one. The years that `leapYears` does not have (1970, and from 2071 on) are left out of `getTimeVal`,
and so are the microseconds, which come from another counter.

`RtcTicks` is `rtc_tick_irq_register`, `rtc_alarm_irq_register`, their opposites and
`rtc_irq_callback`. StartOS compiles this service and enables no RTC interrupt, so
it is checked as an interface. A user's single-shot tick that expires switches the
hardware tick off even when an alarm is armed (`rtc.c:717`); `TicksServed` therefore
asks of the alarm only that the period is short enough.

`Sysctl` is `sysctl_clock_enable` with the buses, `sysctl_reset`, `sysctl_dma_select`, and
`sysctl_clock_get_freq` with everything below it; the registers that the boot loader
sets are `Configs`. Frequencies are in MHz and wrap at `Word`, 2^32 in that unit. `Root`, `Divisor`, `Above`
and `Below` are the clock tree of the chip, written down for comparison: the true frequency of a
clock is the fraction `Above / Below` of its root, divided by `Divisor`. A PLL that is bypassed passes its
input on unchanged; the driver can read the bypass bits (`sysctl_clock_get_clock_select`) but computes
without them, so `Bypassed` clocks are left out of the property.

## 3. What the runs show

The runs take from a second to three minutes with two workers.

| Run | Bounds | Result |
|---|---|---|
| `sched_safety` | 2 harts, 4 slots (init and two more processes at a time), 3 forks, one per slot, all calls, one killable pid | passes, 1.1 million states |
| `sched_liveness` | 2 harts, 4 slots, 2 forks, init forks and waits | passes |
| `sched_wait` | 1 hart, 5 slots, 3 forks, one from each slot, init forks and waits | passes |
| `sched_fork` | forks may overlap | violation: finding 1 |
| `pipe_safety` | 3 processes, 2-byte ring, counters modulo 4, writes of 3 bytes, one killable process | passes, 1.7 million states |
| `cache_safety` | 2 processes, 2 buffers, 2 files and the directory, failing copies | passes, 1.2 million states |
| `disk_safety` | 3 processes, 7 descriptors, ring indices modulo 7 | passes, 1.1 million states |
| `fat_safety` | 2 processes, 2 entries in one sector, 3 clusters, files of 2 clusters, names "a" and "Ab"; one process at a time after a leak | passes, 0.7 million states |
| `files_safety` | 2 processes, 3 descriptors, 2 file objects, 4 references | passes, 0.3 million states |
| `files_write` | 1 process, files of 2 bytes | violation: finding 2 |
| `memory_safety` | 2 tasks, 16 frames, 5 virtual pages, 2 areas; heap of 2 pages and 3 levels, 2 objects, 3 keys | passes, 0.4 million states |
| `devices_safety` | 48 pads, 380 days from two dates with one reader, 216 clock settings, 2 processes and 3 calls on 2 sectors | passes, 0.24 million states |

*Scheduler.* `SwitchDiscipline`: the panics of `prepareSched` are unreachable.
`RunningIsCurrent`: state and current task agree, `exit`'s unlocked store of
`ZOMBIE` included. `ZombieStays`: a zombie is never runnable again, and its slot
is freed only when it has left its kernel stack. `ParentAlive`: `exit` hands its
children to init in a loop that can be preempted anywhere, and still no child is
left with a dead parent. `ChildExitSeen` and `TickSeen`: no lost wakeup between
`exit` and `wait`, and between the timer of either hart and `sleepTime`.
`WakeupNotStale`: what hart 1 has tested still holds when it stores. Liveness:
`SleepReturns`, `RunnableRuns`, and `WaitReturns`: a task in `wait` beside a zombie
child comes back. When a process in the middle of a chain exits it hands its dead
child to init and wakes its own parent, not init; so for init the property needs the
scheduler's store to init's state (the mutant without it sleeps for ever). That init
calls `wait` again is not claimed: the init that is booted waits once per fork and
then spins, and orphans stay zombies.
Slot 0 is never allocated, so four slots are init, a child and a grandchild: the
least with which a process is orphaned, handed to init and reaped while its
parent is being reaped. A parent other than init has at most one child at a
time in that run; the theorems have no such bound.

*Pipe.* `PipeIsStream`: the ring implements `ByteStream`, so bytes are delivered
once and in order, by several readers and writers, across overflow. With two
bytes and counters modulo 4 the counters overflow while the ring is full, empty
and in between. `NoLostWakeup`, `NoUseAfterDelete`.

*Buffer cache.* `CacheIsStore`: files read through the cache return what was last
written, evictions and failed copies included. `BuffersKeepBlocks`: a block is in
one buffer, and a buffer keeps its block while somebody uses it. `NoLostWakeup`. Two buffers for three blocks force evictions
of a buffer whose lock is still held (`freeBuffer` gives up the reference
first). The run is about tasks that are not preempted inside `allocBuffer`.

*Disk.* `DiskIsStore`: every call transfers its own sector from or to its own
buffer once, whatever the order of completions. `DescriptorsOwned`: no descriptor
is in two chains or in none. `NoLostWakeup`, `CompletionSeen`. Seven descriptors serve two requests and leave
one over, so a third process gets one descriptor, gives it back and sleeps. The
ring indices wrap at 7, a multiple of the ring size, as 2^16 is of 8.

*FAT32.* `ClustersOwned`: no cluster is in two files, in a file and free, or lost,
although clusters are taken in one step and linked after a sleep, and an old copy
of the directory, in the cache or in the hands of an `UpdateInode`, has old sizes but the right chains.
`PlaceRemembered`: the place `bmap` keeps is right. `ReadsWritten`: with sizes that
go back to an old value a read still returns only what was written.
`OpenFilesAlive`: an open file keeps its inode and its entry; `unlinkat`, which
takes the first entry that *begins* with the name, never takes one that is in
use. `FilesAreStore`: blocks change only by writes to them. The sizes are not part
of that promise: `BufferCache_dir.cfg` shows that they are lost. That entries are neither lost nor brought back holds
because `Races = FALSE` keeps `Create` and `Unlink` from writing while an `UpdateInode` has the sector; `Fat32_update.cfg`
shows what happens otherwise. Three clusters are the least
with which one file grows while another is created, and clusters that one
file has given up are taken by the other.

*Files.* `HandlesHeld`: in every order of open, dup, dup3, fcntl, pipe, fork, close and
exit, with full tables and refused descriptors, a descriptor points to an object
that lives and counts it, and an end of a pipe is open exactly while a file has
it. `InodesHeld`: an inode counts at least its files, the processes in it and
the file system; references leak (see above), but none is given back twice. Three
descriptors with `NFILE = 1` are the least with which a registration can fail and
another succeed; two processes and two files let a file be shared in every way.

*Memory.* `FramesOwned`: every frame is in the free list, in one page table once, a
trapframe, or lost by the two paths above; `AreasOwned`: the slots of the areas and
the references of their inode have one owner each, a failing `exec` and a fault
that runs out of memory included. Sixteen frames are enough for two tasks and too
few for all they ask for, so that every allocation fails somewhere.

*Heap.* `BlocksOwned`: every byte of the pages the heap has taken belongs to one
block, free buddies are joined, an empty page goes back. `MapHolds`: the map answers
with what was put and not polled since, its iterator meets every node once, and
no node shares a block. Three levels give two splits and two merges in a row; two
of the three keys share a chain.

*Devices.* `CardWired`: from every initial setting the card's five functions end up on
one pad each, with the settings of the table. `CalendarAgrees`: four formulas agree
with the calendar over the end of 1999, the leap day and the last day of 2000, and the end of 2099; `getTimeVal`'s
count of days does not, and the property says by how much it is off on each day.
`TimeReadSane`: while no two reads overlap, a read across midnight is never in the future and never before the
day on which it began; the first day of a century is excepted, because the century
is read last. `TicksServed`: a registered user has its tick, and the period is never too long for an
armed alarm (whether the tick runs at all is another matter, see section 2). `ClocksRight`: enabling a clock
reaches its device, and the frequency computed for any clock is not above the true one and is its root's,
divided by everything on the way, unless a PLL on the way is bypassed. `BusHeld`: after any sequence of refused
commands the driver addresses the card it has, and the bus, the controller and the
channel belong to who has the lock. `SectorMoved`: a sector arrives whole.

`CHECK_DEADLOCK FALSE` is used for the files, the memory and the devices (a panic
stops the machine, and the bounded parts end), for FAT32 (`AllocCluster` never returns when the
disk is full), the pipe (a process that alone holds the write
end and reads waits for ever, as in the code) and the cache (`panic` stops the
machine; a failed copy leaves a buffer locked, and the next user of the block
waits for ever, as in the code).

### Fairness

`FairSpec` assumes of the hardware that both harts execute their code (weak
fairness of the scheduler and of `Resume`, strong fairness of the handler of
hart 1, which competes for spin locks that are released again and again). A
pending timer interrupt is taken when interrupts come on; a task that keeps
entering and leaving the kernel cannot put it off, hence strong fairness of
the timer interrupt of hart 0, wherever it strikes (`TimerIntrIdle`,
`TimerIntrEnter` or `TimerIntrTask`: one condition for the three). A task that is switched in again and again
makes progress between two ticks (the interval is long compared with a system
call): strong fairness of `KernelStep`. Nothing is assumed about what the programs
call, init's included. No liveness is
claimed for the disk: a process that transfers sector after sector can take the
descriptors again before one that was woken for them runs.

## 4. Findings

1. `allocTask` unlocks the slot it has found while it is still `UNUSED`
   (`TaskScheduler.cpp:498`). A fork that is preempted before it sets `RUNNABLE`
   shares the slot with the next fork (`sched_fork`, `ForkGivesNewProcess`).
2. `VfsManager::write` of an inode adds what was written to the offset twice
   (`vfs.cpp:184` and `:192`). The next write starts past the end of the file and is
   refused (`files_write`, `WriteAccepted`).

### Counterexamples kept beside the runs

These configurations are not listed as runs; each is checked with
`tlc -config <cfg> <module>` and ends in the counterexample it is named for. `Fat32_update.cfg`,
`Rtc_read.cfg` and `Rtc_timeval.cfg` state what the code's own comments say of it
(`fat32_file_system.hpp:58`, `time.cpp:54`, `time.h:58`).

| Configuration, module | Property | What TLC finds |
|---|---|---|
| `Pipe_killed.cfg`, `MCPipe` | `ReaderSleepsOnlyWhenEmpty` | a killed writer that has filled a pipe returns without waking the reader (`Pipe.cpp:61`) |
| `BufferCache_dir.cfg`, `MCBufferCache` | `EntryKept` | `UpdateInode` writes the directory entry past the cache (`fat32_file_system.cpp:454`); the next entry written through the cache puts the old one back. One process is enough |
| `BufferCache_preempt.cfg`, `MCBufferCache` | `ReadReturnsBlock` | `allocBuffer` releases its lock before it marks its buffer (`BufferLayer.cpp:47`): two tasks take one victim, and a read returns another file's block |
| `Fat32_inode.cfg`, `Fat32` | `OpenHasInode` | `GetInode` sleeps in `dup` before it counts a reference (`fat32_file_system.cpp:300`): `openat` returns a file with a deleted inode |
| `Fat32_update.cfg`, `Fat32` | `OwnEntryOnly` | `UpdateInode` reads a sector of the directory and, after a sleep, writes it back (`fat32_file_system.cpp:452`, `:454`) with only the file's own lock; what `Create` or `Unlink` did to another entry meanwhile is undone: a new file is gone with its clusters still marked, or a removed one is back on free clusters |
| `Files_pipe.cfg`, `MCFiles` | `HandlesHeld` | `sys_pipe` closes its files when `copyout` fails and leaves the descriptors (`SyscallFile.cpp:281`) |
| `Memory_exec.cfg`, `MCMemory` | `FreedTablesEmpty` | a page that was loaded in an area above `sz` is still mapped when `exec` frees the old page table: the panic of `freewalk` is reached |
| `Heap_preempt.cfg`, `MCMemory` | `BlocksOwned` | two tasks take the same block (`BuddyAllocator.cpp:66`) |
| `Rtc_read.cfg`, `MCRtc` | `ReadsCurrentTime` | `rtc_timer_get_tm` fills one global struct (`rtc.c:27`, `:316`) that its callers copy while they can be preempted: of two tasks that read the clock one answers with a time that has not come yet |
| `Rtc_timeval.cfg`, `MCRtc` | `TimeValIsEpoch` | `getTimeVal` (`Clock.cpp:31`) adds `tm_yday`, which counts from 1 and is 0 on 31 December of a leap year (`rtc.c:325`), and leaves out the minutes: its seconds are a day ahead of those since the epoch, or a year behind |
| `SdCard_dma.cfg`, `SdCard` | `SleepsWhileBusy` | the transfer ends between the test of `dmac_wait_idle` and its sleep, and nobody wakes the process (`dmac.cpp:344`) |

The passing runs and the theorems exclude exactly these windows
(`OverlappingForks`, `Preempt`, `Races`, `BadBuffer`, `Preemptible` and `OverlappingReads` are `FALSE`), and say
what holds otherwise.

Not checked, seen while modelling: `leapYears` is read out of range for 1970 and
after 2070; `getFileByfd` accepts `NOFILE`; sizes from 4089 to 4096 bytes index past
the free lists of the buddy allocator; a poll for a key that is not there removes
the last node of its chain; a standard SD card is addressed in an int, so to 2 GB.

## 5. What is proved

All proofs are checked by `tlapm` with Z3, Zenon and LS4.

**`TaskSchedulerProofs`**, for every number of slots, one or two harts, every set
of calls, and `~OverlappingForks`: `TypeCorrect`, `SwitchesSafely`,
`RunsWhoIsRunning`, `WakesSleepers`, `ZombiesStay`, `ParentsAlive`,
`ChildExitsSeen`, `TicksSeen`. The assumptions on the constants are
`SchedAssumption`. The inductive invariant `IndInv` has these parts:

* `HartInv`: hart 0 is in `scheduler()` or in the task of the slot it looks at, and
  interrupts are off only in the task that runs;
* `LockInv`: who holds which lock follows from where the harts are. Without it the
  mutual exclusion of `wakeup` and `sleep` cannot be used;
* `StateInv`: which states go with which places in the kernel. A zombie is exactly
  a task at the end of `exit`;
* `InitInv`: init is never killed and never exits, so there is always a task to
  hand children to;
* `ForkInv`: the slot a fork works on stays `UNUSED` and nobody else's, which is
  what finding 1 breaks;
* `WakeupNotStale` itself.

On top of it, `FamilyInv` (only live tasks are parents, and an `exit` that is
handing its children over has none left below its loop index) gives
`ParentAlive`; `ScanInv` (a `wait` has seen no zombie below its loop index, and
sleeps on its own task) gives `ChildExitSeen`; `DeadlineInv` (a task about to sleep has a deadline ahead, since
it holds the timer's lock) gives `TickSeen`.

**`PipeProofs`**, for every buffer size, every counter width greater
than that, and any set of processes: `PipeTypeCorrect` (with the bound `Avail <= PIPESIZE`),
`PipeNoLostWakeup`, `PipeNoUseAfterDelete`, `PipeImplementsStream`. The arithmetic of the counters is in
lemmas (`AvailRoom`, `ReadMoves`, `WriteMoves`): the two loop conditions agree across
overflow. `TypeInv` adds to the types that the ring is never over-full and that
`ref` counts the processes that have the file; `WakeInv` adds that a sleeper is
inside its call; `LifeInv` relates references, calls under way, the open flags
and the deletion. The refinement of `ByteStream` takes the queue out of the ring as a
sequence (`NextBytes`). As long as no more than `PIPESIZE` bytes are in the ring their slots are
distinct (`SlotsDistinct`), wherever the counters are in their range; so what a read copies
out is the head of the sequence (`ReadTakes`) and what a write copies in is appended to it
(`WriteAdds`), and `StreamSimulates` maps every step to a step of the stream or to none.

**`BufferCacheProofs`**, for any number of buffers, blocks and values, any finite set of
processes, and `~Preempt`: `BuffersKept`, `CacheNoLostWakeup`, `CacheImplementsStore`,
`ReadsReturnBlocks`. `BuffersKeepBlocks` is not inductive: that a buffer is not taken away
follows from its `refcnt`, so `RefsCounted` says that `refcnt` is at least the number of
processes that have counted a reference and not given it up (`Counted`; a failed copy leaves its
reference behind). `WindowInv` says that only one process at a time is inside
`allocBuffer` and that what its scan found still holds, which is the one place where `~Preempt` is
used; `HoldInv` ties the sleep lock to the process that is in the section it protects;
`ProcInv` says what a process knows about its buffer at each point. The refinement of
`BlockStore` needs two more parts: `CleanInv` (a valid buffer of a file agrees with the disk
unless a call is about to flush it) and `GotInv` (a call has its value from its use of the
buffer on). The
abstract value of a block is its valid buffer's or the disk's (`FileValue`); lemmas say
what each action does to it, and `StoreStep` maps every step to a step of the store or to
none.

**`VirtioProofs`**, for every ring size that divides the range of the indices
(`NUM` divides `WORD`: 8 divides 2^16), any set of calls and processes, and every order of
completions: `OwnersAgree`, `DiskNoLostWakeup`, `CompletionsSeen`, `DiskImplementsStore`.
`OwnInv` gives each descriptor to one owner, `HeadInv` says what a chain that is under way
looks like in the descriptor table, `RingsInv` says that the entries between two indices
of a ring are distinct and are the requests the device has, or has served; that a ring never
overflows is a counting argument (`RingPut`: at most as many distinct heads as slots).
`MemInv` is what the refinement needs: the status byte and the data of a served request.

**`Fat32Proofs`**, for any number of processes, names, directory slots and clusters, files of any
number of clusters, sectors of any number of entries, and `~Races` (no window without a lock is entered, which leaves out the
creates and unlinks between the two steps of an `UpdateInode`): `FatClustersOwned`,
`FatPlaceRemembered`, `FatReadsWritten`, `FatOpenFilesAlive`, `FatImplementsStore`. What a chain is,
is a recursive definition (`Path`), about which the provers know nothing. So the
inductive invariant `FatInv(Q)` speaks of sequences instead: `Q` gives each head (of an entry,
or of a call that has taken a cluster) a sequence of clusters, `ChainOf` says of two
neighbours that the FAT links them, and `FatChains` that no two places of the sequences have
the same cluster and that every cluster in use has a place. `FatOK` is that there is such a `Q`.
`PathIs` ties the recursive definition to the sequence, on the least step where they would
differ. Three lemmas say what a step of the FAT does to all sequences: a marked cluster is a
new one (`ChainsAlloc`), a link joins two (`LinkedChains`), freeing takes one away
(`ChainsFree`). The other parts: `HeadsApart` (a head has one owner), `DirCached` (an old
copy of the directory in the cache has the same entries and heads), `SectorCopies` (so has the copy of the sector that an
`UpdateInode` is about to write back: here `MayWriteDir` is used), `InodePlace` (the place an
inode remembers is in its sequence), `SizesFit` and `Written` (below the size of an entry or an inode every
cluster was written), `Busy` and `Growing` (what a call on a file knows of its inode),
`Changing` and `Waiting` (what a call on the directory knows of its slot), `Referenced`, and
`ChangesAlone`, the other place where `~Races` is used. For the refinement of `FileStore`,
`NewClusters` adds that a cluster no file has yet holds nothing; `ChainKeeps` says that a step
leaves every chain alone but those in `Touched`, and `StoreSteps` maps every step to a step of the
store or to none.

*SD card* (in `BoardProofs`), for any set of processes and sectors: `BusHeldAlways`, `SectorsMoved`.
The inductive invariant ties where the process with the lock is to the card's command, the
select line, the SPI controller and the channel, and says that while a
transfer runs nobody but the channel moves the words.

**`BoardProofs`**: `TicksAlwaysServed` for every set of periods, `CardAlwaysWired` for every
state of the pads at reset that the registers can hold. `TicksServed` needs that whoever is registered
has a period; `CardWired` speaks of the end of the setup, so `PinsInv` says for each call of
the setup which pads it has left as they should be, and that no GPIOHS pin is in use before the
select line's calls.

*Clock* (in `BoardProofs`), for any dates to start from between 1970 and 3199 (the century
register has five bits), any number of days up to then and any moments of a day:
`CalendarCorrect`, and `TimeReadCorrect` for any number of readers under two hypotheses: that no two reads overlap
(`~OverlappingReads`; `Rtc_read.cfg` shows why) and that a read takes less than a day
(`MaxLag <= Cardinality(Moments)`; the run uses 1 and 2). The days since 1970 that the calendar
counts have a closed form (`Leaps`, `DaysSince1970Is`), to which each of the driver's formulas is
compared; the table of leap years is a recursive function and is compared at the least year where it
would differ (`TableIs`). `RtcInv` says that the registers show the day that it is, so
`Midnight` needs only that the closed form moves on by one (`NextDayIs`). `Alone` says that at most
one task is inside a read, `StructInv` that the fields stored so far are what its registers say and
the fields copied are those; `ReaderInv` says of a read
under way that until midnight the registers read agree with the chip (`SameDay`), and
that afterwards the date read is the day before's (`DayBefore`); `LessThanADay` counts the moments
the chip has shown since midnight, so that a second midnight is more than `MaxLag` steps away.

*System controller* (in `BoardProofs`), for every setting of the PLLs, selectors and dividers that the
registers can hold: `ClocksAlwaysRight`. `SysctlInv` says which bits the boot has set and cleared
by each step; `DeviceBit` and `BusOf` compare the layouts of the clock and reset registers, the devices of
each bus and the bus that `sysctl_clock_get_freq` names. The solver does not decide
products of variables, so `PllBounds` goes from division to product in single steps, and
`NoWrap` is the one place where the width of a word counts. PLL2's product may wrap when another
PLL feeds it; that only lowers the result, and the bound is one from above.

**`FilesProofs`**, for any number of processes, descriptors, file objects and inodes:
`HandlesAlwaysHeld` under `~BadBuffer`, `InodesAlwaysHeld` under `~BadBuffer` and `Shallow`. Both
hypotheses are needed: `Files_pipe.cfg` shows what `BadBuffer` does, and a create in a
directory below the one the path starts from drops a reference too many. The inductive
invariant says that an object's `ref` is at least the number of descriptors on it (so one with a
descriptor is not free), that a pipe's end is open exactly while there is an object of that end,
that no two objects are the same end, and that a dead process has no descriptor. `exit` closes the descriptors in a loop, which the model
writes as a recursive function: that it keeps the invariant is shown on the least descriptor
where it would not (`CloseAllSound`), since induction is out of reach. `InodesInv` then counts:
an inode has at least the references of the objects open on it and of the processes in it.

**`MemoryProofs`**, for any finite set of tasks, any set of frames and page size, any number of pages,
slots and areas of a task, and any programs: `FramesAlwaysOwned`, `AreasAlwaysOwned`.
`FramesOwned` counts; the inductive invariant `MemoryInv` says instead who has what.
`Owns(m, U)` says that the free list and the page table of a view `m` have the frames of
`U`, each in one place. One lemma for each of `alloc`, `walk`, `mappages`,
`userAlloc`, `userUnmap`, `CopyPages`, `FreeTaskPagetable` and `taskPagetable` says that it keeps what a view owns,
the failing paths included; `UserAllocOwns` also says that an allocation that fails in an
empty table leaves it empty, without which a failing `exec` could panic in `freewalk`. `FrameInv`
says for each task that the free list, the lost frames, its page table and its trapframe
make up, without overlap, what no other task holds: it is stated from one task's side because a
call moves only frames of the task that makes it. `AreaInv` does the same for the slots of
`vma_table_` (`Fits`), and adds that the inode's references are as many as slots that
read from it; `LifeInv` says that an unused task has no frames and any other a trapframe, which
`fork` and `freeTask` need. The loops of `userAlloc`, `userVmCopy` and `allocVma` are
recursive functions; that they keep the invariants is shown on the least step where they
would not (`MapRangeOwns`, `CopyPagesOwns`, `LowestPicks`). What the proofs do not say is that no
panic is reached: `Memory_exec.cfg` shows that one is.

*Kernel heap* (in `MemoryProofs`), for every depth of the buddy system, any number of pages, objects and
tasks, any sizes that fit in a page, any keys, values and hash, and `~Preemptible`:
`HeapBlocksOwned` and `MapAlwaysHolds`. `BlocksOwned` speaks of single bytes. The proof
speaks of blocks instead: `Tiles(B, P)` says that the blocks of `B` are aligned, have no byte in
common, and have every byte outside the pages `P`. Splitting a block, joining
two buddies, taking a page and giving one back each replace blocks by others with the
same bytes (`Regroups`); the loops of `alloc` and `free` are followed level by level, and
that each level keeps `Tiles` is shown on the least one where it would not be kept. No two free buddies are left because
`free` looks for the buddy on every level that it reaches. The inductive invariant `HeapInv` has these parts:

* `HeapIn`: the heap tiles its pages, at most one task is between `Look` and `Take` (the
  one place where `~Preemptible` is used), and what its look found is still there;
* `ChainsOK`: a chain of the map has only keys of its own hash, each once;
* `Owned`: the blocks in use are those of the objects, of the map's nodes and of the nodes that
  `poll` leaks, each of one of them, and an object fits in its block;
* `KeptIn`: a node with a key has the value put last, and a key without a node has none.

`MapHolds` follows with the order in which the iterator meets the nodes, bucket by bucket and along each chain.

**Assumptions on constants.** They are the named `ASSUME`s of the modules, which TLC
evaluates in every run: that the model value `None` (a null pointer) is not one of the
things it stands in for, that sets of processes are finite (they are table slots), that sizes
are positive and that a ring size divides its index range. For `Memory` they are also that
there is a frame, that the program pages have room for the two of the first program, and that the
part of a segment that is in the file lies below `LowPages`. For `Rtc` they are that the dates
`clock::init` may set are counted as the calendar counts them, and that the days that pass end
by 3199. For `Buddy` they are that sizes with their header fit in a page and that `Nobody` is not
a look, for `HashMap` that it is not a value. For `Sysctl` they are that the fields of a setting have the
widths of the registers and that 64 times the oscillator's frequency is below 2^32 Hz.

**Only model-checked**, and why:

* the liveness properties, since fairness and `ENABLED` are beyond the prover;
* `FileIo`: the one statement about it is the finding that `FileIo_write.cfg` shows.

## 6. Not modelled

* *Console.* `console_intr` fills the line buffer on whichever hart takes the interrupt,
  without the lock `read` takes, and without a test for a full buffer. No statement
  about the order of what was typed holds there, so there is a hazard and no module.
* *Device file system.* A fixed table; its root appears in `Files`.
* *FAT32.* `Mkdir`, `ReadDir`, directories that grow, two creates at a time, cluster sizes
  other than a buffer's, the endless search of `AllocCluster` beyond the state it hangs in.
* *Old FAT driver and disks.* Superseded; reached only through calls that the new VFS
  has not taken over.
* *Printing, strings, list and bitmap of `sstl`, the PLIC.* Library code and single
  register writes.
* *Register layouts.* The headers of the drivers describe hardware; the models have
  the fields that the code reads or writes.

## 7. Plan

The parts in section 2 are done. What would add most, in this order:

1. `Memory` with calls that overlap in the table of areas; the races of `Create`.
