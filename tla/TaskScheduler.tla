---------------------------- MODULE TaskScheduler ----------------------------
(***************************************************************************)
(* The process table and the scheduler of os/TaskScheduler.cpp, with the   *)
(* traps (os/trap.cpp) and the timer interrupt (os/Timer.cpp) that drive   *)
(* them.                                                                   *)
(*                                                                         *)
(* Hart 0 runs scheduler() and, switched in by it, one task at a time.     *)
(* Hart 1 never runs a task (boot/main.cpp spins after trapinithart) but   *)
(* it takes timer interrupts, whose handler walks the task table.  A spin  *)
(* lock disables the interrupts of its hart, so a task is preempted only   *)
(* where hart 0 holds no lock, and one action below is a stretch of code   *)
(* between two such points, or less where hart 1 can tell the difference.  *)
(***************************************************************************)
EXTENDS Naturals, FiniteSetsExt

CONSTANTS
    NCPU,             \* harts that are up: hart 1 joins late, or never
    NTASK,            \* slots of taskTable; slot 0 is never allocated
    None,             \* the null pointer: no task, no channel
    Ticks,            \* the channel &timer::ticks
    SleepTicks,       \* the arguments tasks pass to sleepTime
    Killable,         \* the pids that tasks pass to kill
    Calls,            \* the system calls the workload makes, see AllCalls
    InitCalls,        \* those of them that init's program makes
    OverlappingForks, \* whether two tasks may be inside fork at once
    MaxForks,         \* bound on the calls of fork, ...
    MaxForksEach      \* ... and on those made from one slot

Tasks == 0 .. NTASK - 1

\* The slot initFirstTask gets: the first one allocTask looks at.
initTask == 1

AllCalls == {"yield", "fork", "exit", "wait", "wait4", "sleep", "kill"}

ASSUME SchedAssumption ==
    /\ NCPU \in {1, 2}
    /\ NTASK \in Nat /\ NTASK > 1
    /\ None \notin Nat /\ Ticks \notin Nat /\ None # Ticks
    /\ SleepTicks \subseteq Nat
    /\ Killable \subseteq Tasks \ {initTask}
    /\ Calls \subseteq AllCalls /\ InitCalls \subseteq Calls
    /\ OverlappingForks \in BOOLEAN
    /\ MaxForks \in Nat /\ MaxForksEach \in Nat

VARIABLES
    state,      \* Task::state
    parent,     \* Task::parent
    chan,       \* Task::chan
    killed,     \* Task::killed
    pc,         \* where the task is in the kernel ("user": outside it)
    idx,        \* its loop index, the child it forks, or the pid it was given
    have,       \* wait()'s havechild
    left,       \* ticks until the deadline of its sleepTime
    lock,       \* owner of Task::lock: "none", "h0" or "h1"
    timerLock,  \* owner of timer::spinLock
    cur,        \* cpus[0].task
    sched,      \* what hart 0 is doing, see SchedStates
    next,       \* scheduler()'s loop index
    h1,         \* hart 1: its position in handleIntr and wakeup's index
    forks       \* calls of fork so far, by slot

vars == <<state, parent, chan, killed, pc, idx, have, left, lock, timerLock,
          cur, sched, next, h1, forks>>

taskVars == <<state, parent, chan, killed, pc, idx, have, left>>
hartVars == <<lock, timerLock, cur, sched, next, h1>>

ProcStates == {"UNUSED", "SLEEPING", "RUNNABLE", "RUNNING", "ZOMBIE"}

\* "loop": in scheduler(), no lock held; "switchin": a task was switched in
\* and still holds the lock scheduler() took; "running": the task runs;
\* "intr": the task was interrupted and handleIntr wants the timer lock;
\* "release": the task switched out and scheduler() holds its lock.
SchedStates == {"loop", "switchin", "running", "intr", "release"}

ForkPcs == {"fork_alloc", "fork_copy", "fork_files"}
ExitPcs == {"exit_reparent", "exit_wake"}
\* Where the task holds its own lock, and where it holds the timer's.
OwnLockPcs   == {"wait_scan", "wait4_check"}
TimerLockPcs == {"st_check", "st_sleep"}
\* Where interrupts are off: a lock is held, or SpinLock::lock spins for it.
IntrOffPcs == OwnLockPcs \cup TimerLockPcs \cup {"st_spin"}
\* Where a task that sleeps will resume.
SleepPcs == {"wait_resume", "wait4_resume", "st_resume"}
Pcs == {"none", "user", "sys_ret", "kill_set", "wait4_enter", "st_lock", "dead"}
           \cup ForkPcs \cup ExitPcs \cup IntrOffPcs \cup SleepPcs

Owners == {"none", "h0", "h1"}

TypeOK ==
    /\ state  \in [Tasks -> ProcStates]
    /\ parent \in [Tasks -> Tasks \cup {None}]
    /\ chan   \in [Tasks -> Tasks \cup {None, Ticks}]
    /\ killed \in [Tasks -> BOOLEAN]
    /\ pc     \in [Tasks -> Pcs]
    /\ idx    \in [Tasks -> 0 .. NTASK]
    /\ have   \in [Tasks -> BOOLEAN]
    /\ left   \in [Tasks -> Nat]
    /\ lock   \in [Tasks -> Owners]
    /\ timerLock \in Owners
    /\ cur    \in Tasks \cup {None}
    /\ sched  \in SchedStates
    /\ next   \in Tasks
    /\ h1     \in [pc : {"idle", "wake", "set"}, i : 0 .. NTASK]
    /\ forks  \in [Tasks -> Nat]

-----------------------------------------------------------------------------
(* initTaskTable and initFirstTask: every slot is unused but init's.       *)
Init ==
    /\ state  = [t \in Tasks |-> IF t = initTask THEN "RUNNABLE" ELSE "UNUSED"]
    /\ parent = [t \in Tasks |-> None]
    /\ chan   = [t \in Tasks |-> None]
    /\ killed = [t \in Tasks |-> FALSE]
    /\ pc     = [t \in Tasks |-> IF t = initTask THEN "user" ELSE "none"]
    /\ idx    = [t \in Tasks |-> 0]
    /\ have   = [t \in Tasks |-> FALSE]
    /\ left   = [t \in Tasks |-> 0]
    /\ lock   = [t \in Tasks |-> "none"]
    /\ timerLock = "none"
    /\ cur = None
    /\ sched = "loop"
    /\ next = 0
    /\ h1 = [pc |-> "idle", i |-> 0]
    /\ forks = [t \in Tasks |-> 0]

-----------------------------------------------------------------------------
(* The scheduler, hart 0 outside any task.                                 *)

\* Mutants: the index never goes back to the start; it does one slot early.
NextSlot_NoWrap(i) == i + 1
NextSlot_Short(i) == IF i = NTASK - 2 THEN 0 ELSE i + 1

NextSlot(i) == IF i = NTASK - 1 THEN 0 ELSE i + 1

\* Mutant: the scheduler does not care about zombies.
SchedulerSkip_NoInit ==
    /\ sched = "loop"
    /\ lock[next] = "none"
    /\ state[next] # "RUNNABLE"
    /\ next' = NextSlot(next)
    /\ UNCHANGED <<taskVars, lock, timerLock, cur, sched, h1, forks>>

\* A slot that is not RUNNABLE.  A ZOMBIE makes init RUNNABLE whatever init
\* waits for, without init's lock: init polls for orphans this way.
SchedulerSkip ==
    /\ sched = "loop"
    /\ lock[next] = "none"
    /\ state[next] # "RUNNABLE"
    /\ state' = IF state[next] = "ZOMBIE"
                THEN [state EXCEPT ![initTask] = "RUNNABLE"]
                ELSE state
    /\ next' = NextSlot(next)
    /\ UNCHANGED <<parent, chan, killed, pc, idx, have, left, lock, timerLock,
                   cur, sched, h1, forks>>

\* A RUNNABLE slot: pswitch to it with its lock held.
SchedulerRun ==
    /\ sched = "loop"
    /\ lock[next] = "none"
    /\ state[next] = "RUNNABLE"
    /\ lock' = [lock EXCEPT ![next] = "h0"]
    /\ state' = [state EXCEPT ![next] = "RUNNING"]
    /\ cur' = next
    /\ sched' = "switchin"
    /\ UNCHANGED <<parent, chan, killed, pc, idx, have, left, timerLock, next,
                   h1, forks>>

\* Back from pswitch.
SchedulerRelease ==
    /\ sched = "release"
    /\ cur' = None
    /\ lock' = [lock EXCEPT ![next] = "none"]
    /\ next' = NextSlot(next)
    /\ sched' = "loop"
    /\ UNCHANGED <<taskVars, timerLock, h1, forks>>

\* The task after pswitch: forkret, the end of yield, or the end of sleep.
\* wait and wait4 sleep on their own lock and keep it.
Resume(t) ==
    /\ sched = "switchin" /\ cur = t
    /\ sched' = "running"
    /\ chan' = [chan EXCEPT ![t] = IF pc[t] \in SleepPcs THEN None ELSE @]
    /\ \/ /\ pc[t] = "wait_resume"
          /\ pc' = [pc EXCEPT ![t] = "wait_scan"]
          /\ idx' = [idx EXCEPT ![t] = 0]
          /\ UNCHANGED <<have, lock>>
       \/ /\ pc[t] = "wait4_resume"
          /\ pc' = [pc EXCEPT ![t] = "wait4_check"]
          /\ UNCHANGED <<idx, have, lock>>
       \/ /\ pc[t] \notin {"wait_resume", "wait4_resume"}
          /\ pc' = [pc EXCEPT ![t] = IF @ = "st_resume" THEN "st_lock" ELSE @]
          /\ lock' = [lock EXCEPT ![t] = "none"]
          /\ UNCHANGED <<idx, have>>
    /\ UNCHANGED <<state, parent, killed, left, timerLock, cur, next, h1, forks>>

\* The task t runs on hart 0.
Running(t) == sched = "running" /\ cur = t

\* prepareSched: t, holding its lock, switches to the scheduler.
SwitchOut(t) ==
    /\ lock' = [lock EXCEPT ![t] = "h0"]
    /\ sched' = "release"

-----------------------------------------------------------------------------
(* Traps and the timer.                                                    *)

\* A system call of t is over; usertrap still has to look at killed.
Return(t) ==
    /\ pc' = [pc EXCEPT ![t] = "sys_ret"]
    /\ idx' = [idx EXCEPT ![t] = 0]

\* exit(-1), called by usertrap for a killed task, or exit(status): t closes
\* its files and starts to hand its children over.  usertrap's call has the
\* interrupts off; the model lets both be interrupted.
CallExit(t) ==
    /\ pc' = [pc EXCEPT ![t] = "exit_reparent"]
    /\ idx' = [idx EXCEPT ![t] = 0]

\* ticks++ of handleIntr, seen by every deadline.
TickLeft == [t \in Tasks |-> IF left[t] = 0 THEN 0 ELSE left[t] - 1]

\* Mutant: the tick is counted and nobody woken.
WakeTicks_None == state

WakeTicks == [t \in Tasks |->
    IF state[t] = "SLEEPING" /\ chan[t] = Ticks THEN "RUNNABLE" ELSE state[t]]

\* Mutant: kerneltrap does not look at the state.
KernelYields_Always(t) == TRUE

\* kerneltrap yields only a RUNNING task: exit() has made itself a ZOMBIE
\* and must not be put back in the run queue.
KernelYields(t) == state[t] = "RUNNING"

\* Timer interrupt on hart 0 while t runs and hart 0 holds no lock.
TimerIntrEnter(t) ==
    /\ Running(t)
    /\ pc[t] \notin IntrOffPcs
    /\ sched' = "intr"
    /\ UNCHANGED <<taskVars, lock, timerLock, cur, next, h1, forks>>

\* handleIntr owns the timer lock, so hart 1 is outside its own handler and
\* no task lock is taken: the handler and the yield are one step.
TimerIntrTask(t) ==
    /\ sched = "intr" /\ cur = t
    /\ timerLock = "none"
    /\ left' = TickLeft
    /\ IF pc[t] = "user" /\ killed[t]
       THEN /\ state' = WakeTicks
            /\ CallExit(t)
            /\ sched' = "running"
            /\ UNCHANGED lock
       ELSE IF pc[t] = "user" \/ KernelYields(t)
       THEN /\ state' = [WakeTicks EXCEPT ![t] = "RUNNABLE"]
            /\ SwitchOut(t)
            /\ UNCHANGED <<pc, idx>>
       ELSE /\ state' = WakeTicks
            /\ sched' = "running"
            /\ UNCHANGED <<pc, idx, lock>>
    /\ UNCHANGED <<parent, chan, killed, have, timerLock, cur, next, h1, forks>>

\* Timer interrupt on hart 0 inside scheduler(): myTask() is null, no yield.
TimerIntrIdle ==
    /\ sched = "loop"
    /\ timerLock = "none"
    /\ left' = TickLeft
    /\ state' = WakeTicks
    /\ UNCHANGED <<parent, chan, killed, pc, idx, have, hartVars, forks>>

\* Timer interrupt on hart 1: take the lock, count the tick, ...
Hart1Tick ==
    /\ NCPU = 2 /\ h1.pc = "idle"
    /\ timerLock = "none"
    /\ timerLock' = "h1"
    /\ left' = TickLeft
    /\ h1' = [pc |-> "wake", i |-> 0]
    /\ UNCHANGED <<state, parent, chan, killed, pc, idx, have, lock, cur,
                   sched, next, forks>>

\* Mutant: the slot is tested without its lock.
Hart1Check_NoLock ==
    /\ h1.pc = "wake" /\ h1.i < NTASK
    /\ h1' = IF state[h1.i] = "SLEEPING" /\ chan[h1.i] = Ticks
             THEN [h1 EXCEPT !.pc = "set"] ELSE [h1 EXCEPT !.i = @ + 1]
    /\ UNCHANGED <<taskVars, lock, timerLock, cur, sched, next, forks>>

\* ... then wakeup(&ticks): lock a slot and test it, ...
Hart1Check ==
    /\ h1.pc = "wake" /\ h1.i < NTASK
    /\ lock[h1.i] = "none"
    /\ IF state[h1.i] = "SLEEPING" /\ chan[h1.i] = Ticks
       THEN /\ lock' = [lock EXCEPT ![h1.i] = "h1"]
            /\ h1' = [h1 EXCEPT !.pc = "set"]
       ELSE /\ h1' = [h1 EXCEPT !.i = @ + 1]
            /\ UNCHANGED lock
    /\ UNCHANGED <<taskVars, timerLock, cur, sched, next, forks>>

\* ... make it RUNNABLE and unlock it, ...
Hart1Set ==
    /\ h1.pc = "set"
    /\ state' = [state EXCEPT ![h1.i] = "RUNNABLE"]
    /\ lock' = [lock EXCEPT ![h1.i] = "none"]
    /\ h1' = [pc |-> "wake", i |-> h1.i + 1]
    /\ UNCHANGED <<parent, chan, killed, pc, idx, have, left, timerLock, cur,
                   sched, next, forks>>

\* ... and unlock the timer at the end of the table.
Hart1Done ==
    /\ h1.pc = "wake" /\ h1.i = NTASK
    /\ timerLock' = "none"
    /\ h1' = [pc |-> "idle", i |-> 0]
    /\ UNCHANGED <<taskVars, lock, cur, sched, next, forks>>

-----------------------------------------------------------------------------
(* System calls.  usertrap starts one for a task that is not killed.       *)

Call(t, name) ==
    /\ name \in Calls
    /\ t = initTask => name \in InitCalls
    /\ Running(t) /\ pc[t] = "user" /\ ~killed[t]
At(t, l) == Running(t) /\ pc[t] = l

SysRet(t) ==
    /\ At(t, "sys_ret")
    /\ IF killed[t] THEN CallExit(t)
                    ELSE pc' = [pc EXCEPT ![t] = "user"] /\ UNCHANGED idx
    /\ UNCHANGED <<state, parent, chan, killed, have, left, hartVars, forks>>

\* sys_sched_yield.
SysYield(t) ==
    /\ Call(t, "yield")
    /\ lock[t] = "none"
    /\ state' = [state EXCEPT ![t] = "RUNNABLE"]
    /\ SwitchOut(t)
    /\ Return(t)
    /\ UNCHANGED <<parent, chan, killed, have, left, timerLock, cur, next, h1,
                   forks>>

\* fork (and clone): look for a slot from slot 1 on.
SysFork(t) ==
    /\ Call(t, "fork")
    /\ forks[t] < MaxForksEach
    /\ MapThenSumSet(LAMBDA u : forks[u], Tasks) < MaxForks
    /\ OverlappingForks \/ \A u \in Tasks : pc[u] \notin ForkPcs
    /\ forks' = [forks EXCEPT ![t] = @ + 1]
    /\ pc' = [pc EXCEPT ![t] = "fork_alloc"]
    /\ idx' = [idx EXCEPT ![t] = 1]
    /\ UNCHANGED <<state, parent, chan, killed, have, left, hartVars>>

\* One slot of allocTask.  The slot found stays UNUSED when its lock is
\* released; no page for the trapframe ends the call with -1.
AllocTask(t) ==
    /\ At(t, "fork_alloc")
    /\ \/ /\ idx[t] = NTASK
          /\ Return(t)
       \/ /\ idx[t] < NTASK
          /\ lock[idx[t]] = "none"
          /\ state[idx[t]] # "UNUSED"
          /\ idx' = [idx EXCEPT ![t] = @ + 1]
          /\ UNCHANGED pc
       \/ /\ idx[t] < NTASK
          /\ lock[idx[t]] = "none"
          /\ state[idx[t]] = "UNUSED"
          /\ \/ /\ pc' = [pc EXCEPT ![t] = "fork_copy", ![idx[t]] = "user"]
                /\ UNCHANGED idx
             \/ Return(t)
    /\ UNCHANGED <<state, parent, chan, killed, have, left, hartVars, forks>>

\* The memory is copied and the child linked, ...
ForkLink(t) ==
    /\ At(t, "fork_copy")
    /\ parent' = [parent EXCEPT ![idx[t]] = t]
    /\ pc' = [pc EXCEPT ![t] = "fork_files"]
    /\ UNCHANGED <<state, chan, killed, idx, have, left, hartVars, forks>>

\* ... then the files and vmas are duplicated and the child may run.
ForkRun(t) ==
    /\ At(t, "fork_files")
    /\ state' = [state EXCEPT ![idx[t]] = "RUNNABLE"]
    /\ Return(t)
    /\ UNCHANGED <<parent, chan, killed, have, left, hartVars, forks>>

\* exit, asked for, or forced on a killed task that traps; init would panic.
SysExit(t) ==
    /\ \/ Call(t, "exit") /\ t # initTask
       \/ At(t, "user") /\ killed[t]
    /\ CallExit(t)
    /\ UNCHANGED <<state, parent, chan, killed, have, left, hartVars, forks>>

\* Mutant: exit leaves its children to nobody.
ExitReparent_Skip(t) ==
    /\ At(t, "exit_reparent")
    /\ idx[t] < NTASK
    /\ idx' = [idx EXCEPT ![t] = @ + 1]
    /\ UNCHANGED <<state, parent, chan, killed, pc, have, left, hartVars, forks>>

\* One slot of the loop that gives the children to init.
ExitReparent(t) ==
    /\ At(t, "exit_reparent")
    /\ idx[t] < NTASK
    /\ parent' = [parent EXCEPT ![idx[t]] = IF @ = t THEN initTask ELSE @]
    /\ idx' = [idx EXCEPT ![t] = @ + 1]
    /\ UNCHANGED <<state, chan, killed, pc, have, left, hartVars, forks>>

\* state = ZOMBIE, without the task's lock, once the vmas are freed.
ExitZombie(t) ==
    /\ At(t, "exit_reparent")
    /\ idx[t] = NTASK
    /\ state' = [state EXCEPT ![t] = "ZOMBIE"]
    /\ pc' = [pc EXCEPT ![t] = "exit_wake"]
    /\ idx' = [idx EXCEPT ![t] = 0]
    /\ UNCHANGED <<parent, chan, killed, have, left, hartVars, forks>>

\* Mutant: wakeup(task) for wakeup(task->parent).
ExitWake_Self(t) ==
    /\ At(t, "exit_wake")
    /\ idx[t] < NTASK
    /\ lock[idx[t]] = "none"
    /\ state' = IF state[idx[t]] = "SLEEPING" /\ chan[idx[t]] = t
                THEN [state EXCEPT ![idx[t]] = "RUNNABLE"]
                ELSE state
    /\ idx' = [idx EXCEPT ![t] = @ + 1]
    /\ UNCHANGED <<parent, chan, killed, pc, have, left, hartVars, forks>>

\* One slot of wakeup(task->parent).
ExitWake(t) ==
    /\ At(t, "exit_wake")
    /\ idx[t] < NTASK
    /\ lock[idx[t]] = "none"
    /\ state' = IF state[idx[t]] = "SLEEPING" /\ chan[idx[t]] = parent[t]
                THEN [state EXCEPT ![idx[t]] = "RUNNABLE"]
                ELSE state
    /\ idx' = [idx EXCEPT ![t] = @ + 1]
    /\ UNCHANGED <<parent, chan, killed, pc, have, left, hartVars, forks>>

\* The last prepareSched of t.
ExitSched(t) ==
    /\ At(t, "exit_wake")
    /\ idx[t] = NTASK
    /\ lock[t] = "none"
    /\ SwitchOut(t)
    /\ pc' = [pc EXCEPT ![t] = "dead"]
    /\ UNCHANGED <<state, parent, chan, killed, idx, have, left, timerLock, cur,
                   next, h1, forks>>

\* wait: lock the own slot and scan the table.
SysWait(t) ==
    /\ Call(t, "wait")
    /\ lock[t] = "none"
    /\ lock' = [lock EXCEPT ![t] = "h0"]
    /\ pc' = [pc EXCEPT ![t] = "wait_scan"]
    /\ idx' = [idx EXCEPT ![t] = 0]
    /\ UNCHANGED <<state, parent, chan, killed, have, left, timerLock, cur,
                   sched, next, h1, forks>>

\* Unlock the own slot and return.
ReturnUnlocked(t) ==
    /\ lock' = [lock EXCEPT ![t] = "none"]
    /\ Return(t)

\* sleep(task, &task->lock): the lock is kept up to the switch.
SleepOnSelf(t, resume) ==
    /\ chan' = [chan EXCEPT ![t] = t]
    /\ state' = [state EXCEPT ![t] = "SLEEPING"]
    /\ SwitchOut(t)
    /\ pc' = [pc EXCEPT ![t] = resume]
    /\ UNCHANGED idx

\* Reap the zombie c of t: freeTask, or the copyout of its status fails and
\* it stays.  init passes no address.
Reap(t, c) ==
    /\ lock' = [lock EXCEPT ![t] = "none"]
    /\ \/ /\ state' = [state EXCEPT ![c] = "UNUSED"]
          /\ parent' = [parent EXCEPT ![c] = None]
          /\ chan' = [chan EXCEPT ![c] = None]
          /\ killed' = [killed EXCEPT ![c] = FALSE]
          /\ pc' = [pc EXCEPT ![t] = "sys_ret", ![c] = "none"]
          /\ idx' = [idx EXCEPT ![t] = 0]
       \/ /\ t # initTask
          /\ Return(t)
          /\ UNCHANGED <<state, parent, chan, killed>>

\* One slot of wait's scan.
WaitScan(t) ==
    /\ At(t, "wait_scan")
    /\ idx[t] < NTASK
    /\ LET c == idx[t] IN
       \/ /\ parent[c] # t
          /\ idx' = [idx EXCEPT ![t] = @ + 1]
          /\ UNCHANGED <<state, parent, chan, killed, pc, have, lock>>
       \/ /\ parent[c] = t
          /\ lock[c] = "none"
          /\ state[c] = "ZOMBIE"
          /\ Reap(t, c)
          /\ have' = [have EXCEPT ![t] = FALSE]
       \/ /\ parent[c] = t
          /\ lock[c] = "none"
          /\ state[c] # "ZOMBIE"
          /\ have' = [have EXCEPT ![t] = TRUE]
          /\ idx' = [idx EXCEPT ![t] = @ + 1]
          /\ UNCHANGED <<state, parent, chan, killed, pc, lock>>
    /\ UNCHANGED <<left, timerLock, cur, sched, next, h1, forks>>

\* The end of the scan: no child, or sleep until one exits.
WaitEnd(t) ==
    /\ At(t, "wait_scan")
    /\ idx[t] = NTASK
    /\ IF have[t]
       THEN SleepOnSelf(t, "wait_resume")
       ELSE ReturnUnlocked(t) /\ UNCHANGED <<state, chan, sched>>
    /\ have' = [have EXCEPT ![t] = FALSE]
    /\ UNCHANGED <<parent, killed, left, timerLock, cur, next, h1, forks>>

\* wait4: c must be a child of t, which is tested once, under c's lock.
SysWait4(t, c) ==
    /\ Call(t, "wait4")
    /\ lock[c] = "none"
    /\ IF parent[c] = t
       THEN /\ pc' = [pc EXCEPT ![t] = "wait4_enter"]
            /\ idx' = [idx EXCEPT ![t] = c]
       ELSE Return(t)
    /\ UNCHANGED <<state, parent, chan, killed, have, left, hartVars, forks>>

Wait4Lock(t) ==
    /\ At(t, "wait4_enter")
    /\ lock[t] = "none"
    /\ lock' = [lock EXCEPT ![t] = "h0"]
    /\ pc' = [pc EXCEPT ![t] = "wait4_check"]
    /\ UNCHANGED <<state, parent, chan, killed, idx, have, left, timerLock, cur,
                   sched, next, h1, forks>>

Wait4Check(t) ==
    /\ At(t, "wait4_check")
    /\ lock[idx[t]] = "none"
    /\ IF state[idx[t]] = "ZOMBIE"
       THEN Reap(t, idx[t]) /\ UNCHANGED sched
       ELSE SleepOnSelf(t, "wait4_resume") /\ UNCHANGED <<parent, killed>>
    /\ UNCHANGED <<have, left, timerLock, cur, next, h1, forks>>

\* sleepTime(n): ticks is read before the lock is taken.
SysSleep(t, n) ==
    /\ Call(t, "sleep")
    /\ left' = [left EXCEPT ![t] = n]
    /\ pc' = [pc EXCEPT ![t] = "st_lock"]
    /\ UNCHANGED <<state, parent, chan, killed, idx, have, hartVars, forks>>

\* SpinLock::lock on the timer: interrupts off, then spin for it.
SleepPushOff(t) ==
    /\ At(t, "st_lock")
    /\ pc' = [pc EXCEPT ![t] = "st_spin"]
    /\ UNCHANGED <<state, parent, chan, killed, idx, have, left, hartVars, forks>>

SleepLockTimer(t) ==
    /\ At(t, "st_spin")
    /\ timerLock = "none"
    /\ timerLock' = "h0"
    /\ pc' = [pc EXCEPT ![t] = "st_check"]
    /\ UNCHANGED <<state, parent, chan, killed, idx, have, left, lock, cur,
                   sched, next, h1, forks>>

\* Mutant: sleep releases the timer lock before it takes the task's.
SleepCheck_Unlocks(t) ==
    /\ At(t, "st_check")
    /\ timerLock' = "none"
    /\ IF left[t] = 0
       THEN Return(t)
       ELSE pc' = [pc EXCEPT ![t] = "st_sleep"] /\ UNCHANGED idx
    /\ UNCHANGED <<state, parent, chan, killed, have, left, lock, cur,
                   sched, next, h1, forks>>

SleepCheck(t) ==
    /\ At(t, "st_check")
    /\ IF left[t] = 0
       THEN Return(t) /\ timerLock' = "none"
       ELSE pc' = [pc EXCEPT ![t] = "st_sleep"] /\ UNCHANGED <<idx, timerLock>>
    /\ UNCHANGED <<state, parent, chan, killed, have, left, lock, cur,
                   sched, next, h1, forks>>

\* Mutant: sleep never releases the lock it was given.
SleepOnTicks_KeepsLock(t) ==
    /\ At(t, "st_sleep")
    /\ lock[t] = "none"
    /\ chan' = [chan EXCEPT ![t] = Ticks]
    /\ state' = [state EXCEPT ![t] = "SLEEPING"]
    /\ SwitchOut(t)
    /\ pc' = [pc EXCEPT ![t] = "st_resume"]
    /\ UNCHANGED <<parent, killed, idx, have, left, timerLock, cur, next, h1, forks>>

\* sleep(&ticks, &timer::spinLock): the own lock is taken before the timer's
\* is released, and held up to the switch.
SleepOnTicks(t) ==
    /\ At(t, "st_sleep")
    /\ lock[t] = "none"
    /\ timerLock' = "none"
    /\ chan' = [chan EXCEPT ![t] = Ticks]
    /\ state' = [state EXCEPT ![t] = "SLEEPING"]
    /\ SwitchOut(t)
    /\ pc' = [pc EXCEPT ![t] = "st_resume"]
    /\ UNCHANGED <<parent, killed, idx, have, left, cur, next, h1, forks>>

\* kill: the state is tested and the flag set without the target's lock.
SysKill(t, c) ==
    /\ Call(t, "kill")
    /\ IF state[c] \in {"ZOMBIE", "UNUSED"}
       THEN Return(t)
       ELSE /\ pc' = [pc EXCEPT ![t] = "kill_set"]
            /\ idx' = [idx EXCEPT ![t] = c]
    /\ UNCHANGED <<state, parent, chan, killed, have, left, hartVars, forks>>

KillSet(t) ==
    /\ At(t, "kill_set")
    /\ killed' = [killed EXCEPT ![idx[t]] = TRUE]
    /\ Return(t)
    /\ UNCHANGED <<state, parent, chan, have, left, hartVars, forks>>

-----------------------------------------------------------------------------
\* The system calls a task in user mode may make.
UserCall(t) ==
    \/ SysYield(t) \/ SysFork(t) \/ SysExit(t) \/ SysWait(t)
    \/ \E c \in Tasks : SysWait4(t, c)
    \/ \E n \in SleepTicks : SysSleep(t, n)
    \/ \E c \in Killable : SysKill(t, c)

\* The steps that follow inside the kernel.
KernelStep(t) ==
    \/ SysRet(t)
    \/ AllocTask(t) \/ ForkLink(t) \/ ForkRun(t)
    \/ ExitReparent(t) \/ ExitZombie(t) \/ ExitWake(t) \/ ExitSched(t)
    \/ WaitScan(t) \/ WaitEnd(t) \/ Wait4Lock(t) \/ Wait4Check(t)
    \/ SleepPushOff(t) \/ SleepLockTimer(t) \/ SleepCheck(t) \/ SleepOnTicks(t)
    \/ KillSet(t)

Scheduler == SchedulerSkip \/ SchedulerRun \/ SchedulerRelease
Hart1Wake == Hart1Check \/ Hart1Set \/ Hart1Done

Next ==
    \/ Scheduler
    \/ \E t \in Tasks : Resume(t) \/ UserCall(t) \/ KernelStep(t)
                         \/ TimerIntrEnter(t) \/ TimerIntrTask(t)
    \/ TimerIntrIdle
    \/ Hart1Tick
    \/ Hart1Wake

Spec == Init /\ [][Next]_vars

(* Fairness.  Both harts execute their code.  A pending timer interrupt is *)
(* taken when interrupts come on, so it cannot be put off for ever by a    *)
(* task that keeps entering and leaving the kernel.  The timer interval is *)
(* long: a task that is switched in again and again takes its kernel steps *)
(* between two ticks, and a spin lock hart 1 holds now and then is got.    *)
(* Nothing is assumed of the programs: no task need ever make a call.      *)
Fairness ==
    /\ WF_vars(Scheduler \/ \E t \in Tasks : Resume(t))
    /\ \A t \in Tasks \ {0} : SF_vars(KernelStep(t))
    /\ SF_vars(TimerIntrIdle \/ \E t \in Tasks : TimerIntrEnter(t) \/ TimerIntrTask(t))
    /\ SF_vars(Hart1Wake)

FairSpec == Spec /\ Fairness

-----------------------------------------------------------------------------
(* Properties.                                                             *)

\* What prepareSched panics about: when a task has switched out, hart 0 holds
\* the lock of that task and no other lock, and the task is not RUNNING.
SwitchDiscipline ==
    sched = "release" =>
        /\ {t \in Tasks : lock[t] = "h0"} = {cur}
        /\ timerLock # "h0"
        /\ state[cur] # "RUNNING"

\* The scheduler, exit and the two harts' wakeups agree on who runs: a task
\* is RUNNING only while hart 0 executes it, and the task hart 0 executes is
\* RUNNING until exit has made it a ZOMBIE (c->task and Task::state).
RunningIsCurrent ==
    \A t \in Tasks :
        /\ state[t] = "RUNNING" => cur = t
        /\ cur = t /\ sched \in {"running", "intr"} =>
              state[t] = IF pc[t] = "exit_wake" THEN "ZOMBIE" ELSE "RUNNING"

\* exit stores ZOMBIE without a lock and can be interrupted before it
\* switches out: nothing puts a zombie back in the run queue, its slot can
\* only be freed, and only once the task has left its kernel stack.
ZombieStays ==
    [][\A t \in Tasks : state[t] = "ZOMBIE" =>
          \/ state'[t] = "ZOMBIE"
          \/ state'[t] = "UNUSED" /\ pc[t] = "dead" /\ cur # t]_vars

\* exit hands the children over without a lock and can be preempted in the
\* middle of it: a live task other than init always has a parent that can
\* still call wait, so no slot is lost.
ParentAlive ==
    \A t \in Tasks \ {initTask} : state[t] # "UNUSED" =>
        /\ parent[t] \in Tasks
        /\ state[parent[t]] \notin {"UNUSED", "ZOMBIE"}

\* No lost wakeup between exit and wait: a task other than init sleeps in
\* wait beside a zombie child, or in wait4 beside the zombie it waits for,
\* only while that child is still on its way to wake it.  (For init see
\* WaitReturns.)
ChildExitSeen ==
    \A p \in Tasks \ {initTask}, c \in Tasks :
        /\ state[p] = "SLEEPING"
        /\ pc[p] = "wait_resume" \/ (pc[p] = "wait4_resume" /\ idx[p] = c)
        /\ state[c] = "ZOMBIE" /\ parent[c] = p
        => cur = c /\ pc[c] = "exit_wake" /\ idx[c] <= p

\* No lost wakeup between sleepTime and the timer interrupt of either hart:
\* a task sleeps past its deadline only while hart 1 is on its way to it.
TickSeen ==
    \A t \in Tasks :
        state[t] = "SLEEPING" /\ chan[t] = Ticks /\ left[t] = 0
        => h1.pc # "idle" /\ h1.i <= t

\* wakeup's test still holds when hart 1 stores RUNNABLE: the task has not
\* been run meanwhile.  Only init may already be RUNNABLE, by the scheduler's
\* store without a lock.
WakeupNotStale ==
    h1.pc = "set" =>
        \/ state[h1.i] = "SLEEPING" /\ chan[h1.i] = Ticks
        \/ state[h1.i] = "RUNNABLE" /\ h1.i = initTask

\* fork: "create a new process": two calls of fork that are under way never
\* work on the same slot (include/os/TaskScheduler.hpp).
ForkGivesNewProcess ==
    \A t, u \in Tasks :
        t # u /\ {pc[t], pc[u]} \subseteq {"fork_copy", "fork_files"}
        => idx[t] # idx[u]

\* A task inside wait beside a zombie child comes back.  A zombie that init
\* inherits from a process deep in a chain wakes nobody: init is woken only by
\* the scheduler, which makes it RUNNABLE when it meets a zombie.
WaitReturns ==
    \A t \in Tasks \ {0} :
        (/\ pc[t] \in {"wait_scan", "wait_resume"}
         /\ \E c \in Tasks : state[c] = "ZOMBIE" /\ parent[c] = t)
        ~> pc[t] = "sys_ret"

\* A task that calls sleepTime comes back.
SleepReturns ==
    \A t \in Tasks \ {0} : pc[t] = "st_lock" ~> pc[t] = "sys_ret"

\* Round robin: a RUNNABLE task gets hart 0.
RunnableRuns ==
    \A t \in Tasks \ {0} : state[t] = "RUNNABLE" ~> state[t] = "RUNNING"
=============================================================================
