------------------------- MODULE TaskSchedulerProofs -------------------------
(***************************************************************************)
(* Proofs about TaskScheduler, for every size of the task table, with one  *)
(* or two harts, as long as no two tasks are inside fork at once.          *)
(***************************************************************************)
EXTENDS TaskScheduler, TLAPS

-----------------------------------------------------------------------------
(* The inductive invariant.                                                *)

\* Hart 0 is in scheduler() or in the task of the slot scheduler() looks at;
\* interrupts are off only in the task that runs.
HartInv ==
    /\ sched = "loop" <=> cur = None
    /\ cur # None => cur = next
    /\ \A t \in Tasks : pc[t] \in IntrOffPcs => Running(t)
    /\ h1.pc = "set" => h1.i < NTASK

\* Who holds which lock follows from where the two harts are.
LockInv ==
    /\ \A t \in Tasks : lock[t] = "h0" <=>
           cur = t /\ (sched \in {"switchin", "release"} \/ pc[t] \in OwnLockPcs)
    /\ \A t \in Tasks : lock[t] = "h1" <=> h1.pc = "set" /\ h1.i = t
    /\ timerLock = "h0" <=> \E t \in Tasks : pc[t] \in TimerLockPcs
    /\ timerLock = "h1" <=> h1.pc # "idle"

\* The state of a task and where it is in the kernel.
StateInv ==
    /\ \A t \in Tasks : state[t] = "RUNNING" => cur = t /\ sched # "release"
    /\ \A t \in Tasks : cur = t /\ sched = "switchin" => state[t] = "RUNNING"
    /\ \A t \in Tasks : cur = t /\ sched \in {"running", "intr"} =>
           state[t] = IF pc[t] = "exit_wake" THEN "ZOMBIE" ELSE "RUNNING"
    /\ \A t \in Tasks : state[t] = "ZOMBIE" <=> pc[t] \in {"exit_wake", "dead"}
    /\ \A t \in Tasks : pc[t] = "exit_wake" => cur = t /\ sched \in {"running", "intr"}
    /\ \A t \in Tasks : state[t] = "UNUSED" => pc[t] \in {"none", "user"}

\* init never exits: nobody kills it.
InitInv ==
    /\ state[initTask] \notin {"UNUSED", "ZOMBIE"}
    /\ pc[initTask] \notin {"exit_reparent", "exit_wake", "dead"}
    /\ ~killed[initTask]
    /\ \A t \in Tasks : pc[t] = "kill_set" => idx[t] \in Killable

\* The slot a fork works on stays UNUSED until the fork makes it RUNNABLE.
ForkInv ==
    /\ \A t, u \in Tasks : pc[t] \in ForkPcs /\ pc[u] \in ForkPcs => t = u
    /\ \A t \in Tasks : pc[t] \in {"fork_copy", "fork_files"} =>
           /\ idx[t] \in Tasks
           /\ state[idx[t]] = "UNUSED" /\ pc[idx[t]] = "user"

IndInv == /\ TypeOK /\ HartInv /\ LockInv /\ StateInv /\ InitInv /\ ForkInv
          /\ WakeupNotStale

-----------------------------------------------------------------------------
(* Type correctness.                                                       *)

\* initTaskTable and initFirstTask leave a well-typed table.
LEMMA TypeInit == Init => TypeOK
BY SchedAssumption
   DEF Init, TypeOK, Tasks, ProcStates, Pcs, Owners, SchedStates,
                       initTask

\* Every step of the two harts keeps the types.
LEMMA TypeStep == TypeOK /\ HartInv /\ [Next]_vars => TypeOK'
<1> SUFFICES ASSUME TypeOK, HartInv, [Next]_vars PROVE TypeOK'
  OBVIOUS
<1>a. /\ NTASK \in Nat /\ NTASK > 1 /\ initTask \in Tasks /\ 0 \in Tasks
      /\ Killable \subseteq Tasks /\ SleepTicks \subseteq Nat
  BY SchedAssumption DEF initTask, Tasks
<1>b. \A i \in Tasks : i \in 0 .. NTASK /\ NextSlot(i) \in Tasks
  BY <1>a DEF Tasks, NextSlot
<1>c. \A i \in 0 .. NTASK : i < NTASK => i \in Tasks /\ i + 1 \in 0 .. NTASK
  BY <1>a DEF Tasks
<1>d. 0 \in 0 .. NTASK /\ 1 \in 0 .. NTASK
  BY <1>a
<1>e. WakeTicks \in [Tasks -> ProcStates] /\ TickLeft \in [Tasks -> Nat]
  BY DEF TypeOK, WakeTicks, TickLeft, ProcStates
<1> USE DEF TypeOK, ProcStates, Pcs, Owners, SchedStates, SleepPcs, IntrOffPcs,
            OwnLockPcs, TimerLockPcs, ForkPcs, ExitPcs, taskVars, hartVars
<1>r. ASSUME NEW t \in Tasks, NEW c \in 0 .. NTASK, Reap(t, c),
             have' \in [Tasks -> BOOLEAN],
             UNCHANGED <<left, timerLock, cur, sched, next, h1, forks>>
      PROVE  TypeOK'
  <2>1. lock' \in [Tasks -> Owners]
    BY <1>r DEF Reap
  <2>2. state' \in [Tasks -> ProcStates] /\ pc' \in [Tasks -> Pcs]
    BY <1>r DEF Reap, Return
  <2>3. /\ parent' \in [Tasks -> Tasks \cup {None}]
        /\ chan' \in [Tasks -> Tasks \cup {None, Ticks}]
    BY <1>r DEF Reap
  <2>4. idx' \in [Tasks -> 0 .. NTASK]
    BY <1>r, <1>d DEF Reap, Return
  <2>5. killed' \in [Tasks -> BOOLEAN]
    BY <1>r DEF Reap
  <2> QED
    BY <1>r, <2>1, <2>2, <2>3, <2>4, <2>5
<1>1. CASE SchedulerSkip
  BY <1>1, <1>a, <1>b, <1>c, <1>d, <1>e DEF SchedulerSkip
<1>2. CASE SchedulerRun
  BY <1>2, <1>a, <1>b, <1>c, <1>d, <1>e DEF SchedulerRun
<1>3. CASE SchedulerRelease
  BY <1>3, <1>a, <1>b, <1>c, <1>d, <1>e DEF SchedulerRelease
<1>4. CASE TimerIntrIdle
  BY <1>4, <1>a, <1>b, <1>c, <1>d, <1>e DEF TimerIntrIdle
<1>5. CASE Hart1Tick
  BY <1>5, <1>a, <1>b, <1>c, <1>d, <1>e DEF Hart1Tick
<1>6. CASE Hart1Check
  BY <1>6, <1>a, <1>b, <1>c, <1>d, <1>e DEF Hart1Check
<1>7. CASE Hart1Set
  BY <1>7, <1>a, <1>c DEF Hart1Set, HartInv
<1>8. CASE Hart1Done
  BY <1>8, <1>a, <1>b, <1>c, <1>d, <1>e DEF Hart1Done
<1>9. ASSUME NEW t \in Tasks, Resume(t) PROVE TypeOK'
  BY <1>9, <1>a, <1>b, <1>c, <1>d, <1>e DEF Resume
<1>10. ASSUME NEW t \in Tasks, SysYield(t) PROVE TypeOK'
  BY <1>10, <1>a, <1>b, <1>c, <1>d, <1>e DEF SysYield, SwitchOut, Return
<1>11. ASSUME NEW t \in Tasks, SysFork(t) PROVE TypeOK'
  BY <1>11, <1>a, <1>b, <1>c, <1>d, <1>e DEF SysFork
<1>12. ASSUME NEW t \in Tasks, SysExit(t) PROVE TypeOK'
  BY <1>12, <1>a, <1>b, <1>c, <1>d, <1>e DEF SysExit, CallExit
<1>13. ASSUME NEW t \in Tasks, SysWait(t) PROVE TypeOK'
  BY <1>13, <1>a, <1>b, <1>c, <1>d, <1>e DEF SysWait
<1>14. ASSUME NEW t \in Tasks, SysRet(t) PROVE TypeOK'
  BY <1>14, <1>a, <1>b, <1>c, <1>d, <1>e DEF SysRet, CallExit
<1>15. ASSUME NEW t \in Tasks, AllocTask(t) PROVE TypeOK'
  BY <1>15, <1>a, <1>b, <1>c, <1>d, <1>e DEF AllocTask, Return
<1>16. ASSUME NEW t \in Tasks, ForkLink(t) PROVE TypeOK'
  BY <1>16, <1>a, <1>b, <1>c, <1>d, <1>e DEF ForkLink
<1>17. ASSUME NEW t \in Tasks, ForkRun(t) PROVE TypeOK'
  BY <1>17, <1>a, <1>b, <1>c, <1>d, <1>e DEF ForkRun, Return
<1>18. ASSUME NEW t \in Tasks, ExitReparent(t) PROVE TypeOK'
  BY <1>18, <1>a, <1>b, <1>c, <1>d, <1>e DEF ExitReparent
<1>19. ASSUME NEW t \in Tasks, ExitZombie(t) PROVE TypeOK'
  BY <1>19, <1>a, <1>b, <1>c, <1>d, <1>e DEF ExitZombie
<1>20. ASSUME NEW t \in Tasks, ExitWake(t) PROVE TypeOK'
  BY <1>20, <1>a, <1>b, <1>c, <1>d, <1>e DEF ExitWake
<1>21. ASSUME NEW t \in Tasks, ExitSched(t) PROVE TypeOK'
  BY <1>21, <1>a, <1>b, <1>c, <1>d, <1>e DEF ExitSched, SwitchOut
<1>22. ASSUME NEW t \in Tasks, WaitScan(t) PROVE TypeOK'
  <2>1. CASE parent[idx[t]] # t
    BY <1>22, <2>1, <1>c DEF WaitScan
  <2>2. CASE parent[idx[t]] = t /\ state[idx[t]] = "ZOMBIE"
    <3>1. /\ Reap(t, idx[t]) /\ have' \in [Tasks -> BOOLEAN]
          /\ UNCHANGED <<left, timerLock, cur, sched, next, h1, forks>>
      BY <1>22, <2>2 DEF WaitScan
    <3> QED
      BY <3>1, <1>r
  <2>3. CASE parent[idx[t]] = t /\ state[idx[t]] # "ZOMBIE"
    <3>1. have' = [have EXCEPT ![t] = TRUE] /\ idx' = [idx EXCEPT ![t] = idx[t] + 1]
      BY <1>22, <2>3 DEF WaitScan
    <3>2. UNCHANGED <<state, parent, chan, killed, pc, lock>>
      BY <1>22, <2>3 DEF WaitScan
    <3>3. have' \in [Tasks -> BOOLEAN]
      BY <3>1
    <3>4. idx' \in [Tasks -> 0 .. NTASK]
      BY <1>22, <3>1, <1>c DEF WaitScan
    <3> QED
      BY <1>22, <3>2, <3>3, <3>4 DEF WaitScan
  <2> QED
    BY <2>1, <2>2, <2>3
<1>23. ASSUME NEW t \in Tasks, WaitEnd(t) PROVE TypeOK'
  <2>1. CASE have[t]
    BY <1>23, <2>1 DEF WaitEnd, SleepOnSelf, SwitchOut
  <2>2. CASE ~have[t]
    BY <1>23, <2>2, <1>d DEF WaitEnd, ReturnUnlocked, Return
  <2> QED
    BY <2>1, <2>2
<1>24. ASSUME NEW t \in Tasks, Wait4Lock(t) PROVE TypeOK'
  BY <1>24, <1>a, <1>b, <1>c, <1>d, <1>e DEF Wait4Lock
<1>25. ASSUME NEW t \in Tasks, Wait4Check(t) PROVE TypeOK'
  <2>1. CASE state[idx[t]] = "ZOMBIE"
    <3>1. /\ Reap(t, idx[t]) /\ have' = have
          /\ UNCHANGED <<left, timerLock, cur, sched, next, h1, forks>>
      BY <1>25, <2>1 DEF Wait4Check
    <3> QED
      BY <3>1, <1>r
  <2>2. CASE state[idx[t]] # "ZOMBIE"
    BY <1>25, <2>2 DEF Wait4Check, SleepOnSelf, SwitchOut
  <2> QED
    BY <2>1, <2>2
<1>26. ASSUME NEW t \in Tasks, SleepPushOff(t) PROVE TypeOK'
  BY <1>26, <1>a, <1>b, <1>c, <1>d, <1>e DEF SleepPushOff
<1>27. ASSUME NEW t \in Tasks, SleepLockTimer(t) PROVE TypeOK'
  BY <1>27, <1>a, <1>b, <1>c, <1>d, <1>e DEF SleepLockTimer
<1>28. ASSUME NEW t \in Tasks, SleepCheck(t) PROVE TypeOK'
  BY <1>28, <1>a, <1>b, <1>c, <1>d, <1>e DEF SleepCheck, Return
<1>29. ASSUME NEW t \in Tasks, SleepOnTicks(t) PROVE TypeOK'
  BY <1>29, <1>a, <1>b, <1>c, <1>d, <1>e DEF SleepOnTicks, SwitchOut
<1>30. ASSUME NEW t \in Tasks, KillSet(t) PROVE TypeOK'
  BY <1>30, <1>a, <1>b, <1>c, <1>d, <1>e DEF KillSet, Return
<1>31. ASSUME NEW t \in Tasks, TimerIntrEnter(t) PROVE TypeOK'
  BY <1>31, <1>a, <1>b, <1>c, <1>d, <1>e DEF TimerIntrEnter
<1>32. ASSUME NEW t \in Tasks, TimerIntrTask(t) PROVE TypeOK'
  BY <1>32, <1>a, <1>b, <1>c, <1>d, <1>e DEF TimerIntrTask, CallExit, SwitchOut
<1>33. ASSUME NEW t \in Tasks, NEW c \in Tasks, SysWait4(t, c) PROVE TypeOK'
  BY <1>33, <1>a, <1>b, <1>c, <1>d, <1>e DEF SysWait4, Return
<1>34. ASSUME NEW t \in Tasks, NEW c \in Killable, SysKill(t, c) PROVE TypeOK'
  BY <1>34, <1>a, <1>b, <1>c, <1>d, <1>e DEF SysKill, Return
<1>35. ASSUME NEW t \in Tasks, NEW n \in SleepTicks, SysSleep(t, n)
      PROVE  TypeOK'
  BY <1>35, <1>a, <1>b, <1>c, <1>d, <1>e DEF SysSleep
<1>36. CASE UNCHANGED vars
  BY <1>36 DEF vars
<1> QED
  BY <1>1, <1>2, <1>3, <1>4, <1>5, <1>6, <1>7, <1>8, <1>9, <1>10, <1>11, <1>12,
     <1>13, <1>14, <1>15, <1>16, <1>17, <1>18, <1>19, <1>20, <1>21, <1>22,
     <1>23, <1>24, <1>25, <1>26, <1>27, <1>28, <1>29, <1>30, <1>31, <1>32,
     <1>33, <1>34, <1>35, <1>36
     DEF Next, Scheduler, UserCall, KernelStep, Hart1Wake
\* Every step keeps track of where the harts are and of who holds which lock.
LEMMA HartStep ==
    ASSUME ~OverlappingForks, IndInv, [Next]_vars
    PROVE  HartInv' /\ LockInv'
<1>a. /\ TypeOK /\ TypeOK' /\ HartInv /\ LockInv /\ StateInv /\ InitInv
      /\ ForkInv /\ WakeupNotStale
  BY TypeStep DEF IndInv
<1>b. /\ NTASK \in Nat /\ NTASK > 1 /\ initTask \in Tasks
      /\ Tasks \subseteq Nat /\ None \notin Nat
      /\ Killable \subseteq Tasks \ {initTask}
  BY SchedAssumption DEF initTask, Tasks
<1>c. \A i \in 0 .. NTASK : i < NTASK => i \in Tasks
  BY <1>b DEF Tasks
<1> USE DEF TypeOK, SleepPcs, IntrOffPcs, OwnLockPcs, TimerLockPcs, ForkPcs,
            taskVars, hartVars, Running
<1>1. CASE SchedulerSkip
  BY <1>1, <1>a, <1>b, <1>c DEF SchedulerSkip, HartInv, LockInv
<1>2. CASE SchedulerRun
  BY <1>2, <1>a, <1>b, <1>c DEF SchedulerRun, HartInv, LockInv
<1>3. CASE SchedulerRelease
  BY <1>3, <1>a, <1>b, <1>c DEF SchedulerRelease, HartInv, LockInv
<1>4. CASE TimerIntrIdle
  BY <1>4, <1>a, <1>b, <1>c DEF TimerIntrIdle, WakeTicks, HartInv, LockInv
<1>5. CASE Hart1Tick
  BY <1>5, <1>a, <1>b, <1>c DEF Hart1Tick, HartInv, LockInv
<1>6. CASE Hart1Check
  BY <1>6, <1>a, <1>b, <1>c DEF Hart1Check, HartInv, LockInv
<1>7. CASE Hart1Set
  BY <1>7, <1>a, <1>b, <1>c DEF Hart1Set, HartInv, LockInv
<1>8. CASE Hart1Done
  BY <1>8, <1>a, <1>b, <1>c DEF Hart1Done, HartInv, LockInv
<1>9. ASSUME NEW t \in Tasks, Resume(t) PROVE HartInv' /\ LockInv'
  BY <1>9, <1>a, <1>b, <1>c DEF Resume, HartInv, LockInv
<1>10. ASSUME NEW t \in Tasks, SysYield(t) PROVE HartInv' /\ LockInv'
  BY <1>10, <1>a, <1>b, <1>c
     DEF SysYield, SwitchOut, Return, Call, HartInv, LockInv
<1>11. ASSUME NEW t \in Tasks, SysFork(t) PROVE HartInv' /\ LockInv'
  BY <1>11, <1>a, <1>b, <1>c DEF SysFork, Call, HartInv, LockInv
<1>12. ASSUME NEW t \in Tasks, SysExit(t) PROVE HartInv' /\ LockInv'
  BY <1>12, <1>a, <1>b, <1>c DEF SysExit, CallExit, Call, At, HartInv, LockInv
<1>13. ASSUME NEW t \in Tasks, SysWait(t) PROVE HartInv' /\ LockInv'
  BY <1>13, <1>a, <1>b, <1>c DEF SysWait, Call, HartInv, LockInv
<1>14. ASSUME NEW t \in Tasks, SysRet(t) PROVE HartInv' /\ LockInv'
  BY <1>14, <1>a, <1>b, <1>c DEF SysRet, CallExit, At, HartInv, LockInv
<1>15. ASSUME NEW t \in Tasks, AllocTask(t) PROVE HartInv' /\ LockInv'
  BY <1>15, <1>a, <1>b, <1>c DEF AllocTask, Return, At, HartInv, LockInv
<1>16. ASSUME NEW t \in Tasks, ForkLink(t) PROVE HartInv' /\ LockInv'
  BY <1>16, <1>a, <1>b, <1>c DEF ForkLink, At, HartInv, LockInv
<1>17. ASSUME NEW t \in Tasks, ForkRun(t) PROVE HartInv' /\ LockInv'
  BY <1>17, <1>a, <1>b, <1>c DEF ForkRun, Return, At, HartInv, LockInv
<1>18. ASSUME NEW t \in Tasks, ExitReparent(t) PROVE HartInv' /\ LockInv'
  BY <1>18, <1>a, <1>b, <1>c DEF ExitReparent, At, HartInv, LockInv
<1>19. ASSUME NEW t \in Tasks, ExitZombie(t) PROVE HartInv' /\ LockInv'
  BY <1>19, <1>a, <1>b, <1>c DEF ExitZombie, At, HartInv, LockInv
<1>20. ASSUME NEW t \in Tasks, ExitWake(t) PROVE HartInv' /\ LockInv'
  BY <1>20, <1>a, <1>b, <1>c DEF ExitWake, At, HartInv, LockInv
<1>21. ASSUME NEW t \in Tasks, ExitSched(t) PROVE HartInv' /\ LockInv'
  BY <1>21, <1>a, <1>b, <1>c DEF ExitSched, SwitchOut, At, HartInv, LockInv
<1>22. ASSUME NEW t \in Tasks, WaitScan(t) PROVE HartInv' /\ LockInv'
  BY <1>22, <1>a, <1>b, <1>c DEF WaitScan, Reap, Return, At, HartInv, LockInv
<1>23. ASSUME NEW t \in Tasks, WaitEnd(t) PROVE HartInv' /\ LockInv'
  BY <1>23, <1>a, <1>b, <1>c
     DEF WaitEnd, SleepOnSelf, ReturnUnlocked, Return, SwitchOut, At, HartInv,
         LockInv
<1>24. ASSUME NEW t \in Tasks, Wait4Lock(t) PROVE HartInv' /\ LockInv'
  BY <1>24, <1>a, <1>b, <1>c DEF Wait4Lock, At, HartInv, LockInv
<1>25. ASSUME NEW t \in Tasks, Wait4Check(t) PROVE HartInv' /\ LockInv'
  BY <1>25, <1>a, <1>b, <1>c
     DEF Wait4Check, Reap, SleepOnSelf, Return, SwitchOut, At, HartInv, LockInv
<1>26. ASSUME NEW t \in Tasks, SleepPushOff(t) PROVE HartInv' /\ LockInv'
  BY <1>26, <1>a, <1>b, <1>c DEF SleepPushOff, At, HartInv, LockInv
<1>27. ASSUME NEW t \in Tasks, SleepLockTimer(t) PROVE HartInv' /\ LockInv'
  BY <1>27, <1>a, <1>b, <1>c DEF SleepLockTimer, At, HartInv, LockInv
<1>28. ASSUME NEW t \in Tasks, SleepCheck(t) PROVE HartInv' /\ LockInv'
  BY <1>28, <1>a, <1>b, <1>c DEF SleepCheck, Return, At, HartInv, LockInv
<1>29. ASSUME NEW t \in Tasks, SleepOnTicks(t) PROVE HartInv' /\ LockInv'
  BY <1>29, <1>a, <1>b, <1>c DEF SleepOnTicks, SwitchOut, At, HartInv, LockInv
<1>30. ASSUME NEW t \in Tasks, KillSet(t) PROVE HartInv' /\ LockInv'
  BY <1>30, <1>a, <1>b, <1>c DEF KillSet, Return, At, HartInv, LockInv
<1>31. ASSUME NEW t \in Tasks, TimerIntrEnter(t) PROVE HartInv' /\ LockInv'
  BY <1>31, <1>a, <1>b, <1>c DEF TimerIntrEnter, HartInv, LockInv
<1>32. ASSUME NEW t \in Tasks, TimerIntrTask(t) PROVE HartInv' /\ LockInv'
  BY <1>32, <1>a, <1>b, <1>c
     DEF TimerIntrTask, CallExit, SwitchOut, WakeTicks, KernelYields, HartInv,
         LockInv
<1>33. ASSUME NEW t \in Tasks, NEW c \in Tasks, SysWait4(t, c)
      PROVE  HartInv' /\ LockInv'
  BY <1>33, <1>a, <1>b, <1>c DEF SysWait4, Return, Call, HartInv, LockInv
<1>34. ASSUME NEW t \in Tasks, NEW n \in SleepTicks, SysSleep(t, n)
      PROVE  HartInv' /\ LockInv'
  BY <1>34, <1>a, <1>b, <1>c DEF SysSleep, Call, HartInv, LockInv
<1>35. ASSUME NEW t \in Tasks, NEW c \in Killable, SysKill(t, c)
      PROVE  HartInv' /\ LockInv'
  BY <1>35, <1>a, <1>b, <1>c DEF SysKill, Return, Call, HartInv, LockInv
<1>36. CASE UNCHANGED vars
  BY <1>36, <1>a DEF vars, HartInv, LockInv
<1> QED
  BY <1>1, <1>2, <1>3, <1>4, <1>5, <1>6, <1>7, <1>8, <1>9, <1>10, <1>11, <1>12,
     <1>13, <1>14, <1>15, <1>16, <1>17, <1>18, <1>19, <1>20, <1>21, <1>22,
     <1>23, <1>24, <1>25, <1>26, <1>27, <1>28, <1>29, <1>30, <1>31, <1>32,
     <1>33, <1>34, <1>35, <1>36
     DEF Next, Scheduler, UserCall, KernelStep, Hart1Wake

\* Every step keeps the states in line with where the tasks are in the
\* kernel.
LEMMA StateStep ==
    ASSUME ~OverlappingForks, IndInv, [Next]_vars
    PROVE  StateInv'
<1>a. /\ TypeOK /\ TypeOK' /\ HartInv /\ LockInv /\ StateInv /\ InitInv
      /\ ForkInv /\ WakeupNotStale
  BY TypeStep DEF IndInv
<1>b. /\ NTASK \in Nat /\ NTASK > 1 /\ initTask \in Tasks
      /\ Tasks \subseteq Nat /\ None \notin Nat
      /\ Killable \subseteq Tasks \ {initTask}
  BY SchedAssumption DEF initTask, Tasks
<1>c. \A i \in 0 .. NTASK : i < NTASK => i \in Tasks
  BY <1>b DEF Tasks
<1> USE DEF TypeOK, SleepPcs, IntrOffPcs, OwnLockPcs, TimerLockPcs, ForkPcs,
            taskVars, hartVars, Running
<1>1. CASE SchedulerSkip
  BY <1>1, <1>a, <1>b, <1>c
     DEF SchedulerSkip, HartInv, LockInv, StateInv, InitInv, ForkInv,
         WakeupNotStale
<1>2. CASE SchedulerRun
  BY <1>2, <1>a, <1>b, <1>c
     DEF SchedulerRun, HartInv, LockInv, StateInv, InitInv, ForkInv,
         WakeupNotStale
<1>3. CASE SchedulerRelease
  BY <1>3, <1>a, <1>b, <1>c
     DEF SchedulerRelease, HartInv, LockInv, StateInv, InitInv, ForkInv,
         WakeupNotStale
<1>4. CASE TimerIntrIdle
  BY <1>4, <1>a, <1>b, <1>c
     DEF TimerIntrIdle, WakeTicks, HartInv, LockInv, StateInv, InitInv, ForkInv,
         WakeupNotStale
<1>5. CASE Hart1Tick
  BY <1>5, <1>a, <1>b, <1>c
     DEF Hart1Tick, HartInv, LockInv, StateInv, InitInv, ForkInv, WakeupNotStale
<1>6. CASE Hart1Check
  BY <1>6, <1>a, <1>b, <1>c
     DEF Hart1Check, HartInv, LockInv, StateInv, InitInv, ForkInv,
         WakeupNotStale
<1>7. CASE Hart1Set
  BY <1>7, <1>a, <1>b, <1>c
     DEF Hart1Set, HartInv, LockInv, StateInv, InitInv, ForkInv, WakeupNotStale
<1>8. CASE Hart1Done
  BY <1>8, <1>a, <1>b, <1>c
     DEF Hart1Done, HartInv, LockInv, StateInv, InitInv, ForkInv, WakeupNotStale
<1>9. ASSUME NEW t \in Tasks, Resume(t) PROVE StateInv'
  BY <1>9, <1>a, <1>b, <1>c
     DEF Resume, HartInv, LockInv, StateInv, InitInv, ForkInv, WakeupNotStale
<1>10. ASSUME NEW t \in Tasks, SysYield(t) PROVE StateInv'
  BY <1>10, <1>a, <1>b, <1>c
     DEF SysYield, SwitchOut, Return, Call, HartInv, LockInv, StateInv, InitInv,
         ForkInv, WakeupNotStale
<1>11. ASSUME NEW t \in Tasks, SysFork(t) PROVE StateInv'
  BY <1>11, <1>a, <1>b, <1>c
     DEF SysFork, Call, HartInv, LockInv, StateInv, InitInv, ForkInv,
         WakeupNotStale
<1>12. ASSUME NEW t \in Tasks, SysExit(t) PROVE StateInv'
  BY <1>12, <1>a, <1>b, <1>c
     DEF SysExit, CallExit, Call, At, HartInv, LockInv, StateInv, InitInv,
         ForkInv, WakeupNotStale
<1>13. ASSUME NEW t \in Tasks, SysWait(t) PROVE StateInv'
  BY <1>13, <1>a, <1>b, <1>c
     DEF SysWait, Call, HartInv, LockInv, StateInv, InitInv, ForkInv,
         WakeupNotStale
<1>14. ASSUME NEW t \in Tasks, SysRet(t) PROVE StateInv'
  BY <1>14, <1>a, <1>b, <1>c
     DEF SysRet, CallExit, At, HartInv, LockInv, StateInv, InitInv, ForkInv,
         WakeupNotStale
<1>15. ASSUME NEW t \in Tasks, AllocTask(t) PROVE StateInv'
  BY <1>15, <1>a, <1>b, <1>c
     DEF AllocTask, Return, At, HartInv, LockInv, StateInv, InitInv, ForkInv,
         WakeupNotStale
<1>16. ASSUME NEW t \in Tasks, ForkLink(t) PROVE StateInv'
  BY <1>16, <1>a, <1>b, <1>c
     DEF ForkLink, At, HartInv, LockInv, StateInv, InitInv, ForkInv,
         WakeupNotStale
<1>17. ASSUME NEW t \in Tasks, ForkRun(t) PROVE StateInv'
  BY <1>17, <1>a, <1>b, <1>c
     DEF ForkRun, Return, At, HartInv, LockInv, StateInv, InitInv, ForkInv,
         WakeupNotStale
<1>18. ASSUME NEW t \in Tasks, ExitReparent(t) PROVE StateInv'
  BY <1>18, <1>a, <1>b, <1>c
     DEF ExitReparent, At, HartInv, LockInv, StateInv, InitInv, ForkInv,
         WakeupNotStale
<1>19. ASSUME NEW t \in Tasks, ExitZombie(t) PROVE StateInv'
  BY <1>19, <1>a, <1>b, <1>c
     DEF ExitZombie, At, HartInv, LockInv, StateInv, InitInv, ForkInv,
         WakeupNotStale
<1>20. ASSUME NEW t \in Tasks, ExitWake(t) PROVE StateInv'
  BY <1>20, <1>a, <1>b, <1>c
     DEF ExitWake, At, HartInv, LockInv, StateInv, InitInv, ForkInv,
         WakeupNotStale
<1>21. ASSUME NEW t \in Tasks, ExitSched(t) PROVE StateInv'
  BY <1>21, <1>a, <1>b, <1>c
     DEF ExitSched, SwitchOut, At, HartInv, LockInv, StateInv, InitInv, ForkInv,
         WakeupNotStale
<1>22. ASSUME NEW t \in Tasks, WaitScan(t) PROVE StateInv'
  BY <1>22, <1>a, <1>b, <1>c
     DEF WaitScan, Reap, Return, At, HartInv, LockInv, StateInv, InitInv,
         ForkInv, WakeupNotStale
<1>23. ASSUME NEW t \in Tasks, WaitEnd(t) PROVE StateInv'
  BY <1>23, <1>a, <1>b, <1>c
     DEF WaitEnd, SleepOnSelf, ReturnUnlocked, Return, SwitchOut, At, HartInv,
         LockInv, StateInv, InitInv, ForkInv, WakeupNotStale
<1>24. ASSUME NEW t \in Tasks, Wait4Lock(t) PROVE StateInv'
  BY <1>24, <1>a, <1>b, <1>c
     DEF Wait4Lock, At, HartInv, LockInv, StateInv, InitInv, ForkInv,
         WakeupNotStale
<1>25. ASSUME NEW t \in Tasks, Wait4Check(t) PROVE StateInv'
  BY <1>25, <1>a, <1>b, <1>c
     DEF Wait4Check, Reap, SleepOnSelf, Return, SwitchOut, At, HartInv, LockInv,
         StateInv, InitInv, ForkInv, WakeupNotStale
<1>26. ASSUME NEW t \in Tasks, SleepPushOff(t) PROVE StateInv'
  BY <1>26, <1>a, <1>b, <1>c
     DEF SleepPushOff, At, HartInv, LockInv, StateInv, InitInv, ForkInv,
         WakeupNotStale
<1>27. ASSUME NEW t \in Tasks, SleepLockTimer(t) PROVE StateInv'
  BY <1>27, <1>a, <1>b, <1>c
     DEF SleepLockTimer, At, HartInv, LockInv, StateInv, InitInv, ForkInv,
         WakeupNotStale
<1>28. ASSUME NEW t \in Tasks, SleepCheck(t) PROVE StateInv'
  BY <1>28, <1>a, <1>b, <1>c
     DEF SleepCheck, Return, At, HartInv, LockInv, StateInv, InitInv, ForkInv,
         WakeupNotStale
<1>29. ASSUME NEW t \in Tasks, SleepOnTicks(t) PROVE StateInv'
  BY <1>29, <1>a, <1>b, <1>c
     DEF SleepOnTicks, SwitchOut, At, HartInv, LockInv, StateInv, InitInv,
         ForkInv, WakeupNotStale
<1>30. ASSUME NEW t \in Tasks, KillSet(t) PROVE StateInv'
  BY <1>30, <1>a, <1>b, <1>c
     DEF KillSet, Return, At, HartInv, LockInv, StateInv, InitInv, ForkInv,
         WakeupNotStale
<1>31. ASSUME NEW t \in Tasks, TimerIntrEnter(t) PROVE StateInv'
  BY <1>31, <1>a, <1>b, <1>c
     DEF TimerIntrEnter, HartInv, LockInv, StateInv, InitInv, ForkInv,
         WakeupNotStale
<1>32. ASSUME NEW t \in Tasks, TimerIntrTask(t) PROVE StateInv'
  <2>1. sched = "intr" /\ cur = t /\ h1.pc = "idle"
    BY <1>32, <1>a DEF TimerIntrTask, LockInv
  <2>2. CASE pc[t] = "user" /\ killed[t]
    <3>1. /\ state' = WakeTicks /\ sched' = "running"
          /\ pc' = [pc EXCEPT ![t] = "exit_reparent"]
          /\ UNCHANGED <<killed, cur, h1>> /\ idx' = [idx EXCEPT ![t] = 0]
      BY <1>32, <2>2 DEF TimerIntrTask, CallExit
    <3> QED
      BY <2>1, <2>2, <3>1, <1>a, <1>b
         DEF WakeTicks, HartInv, LockInv, StateInv, InitInv, ForkInv,
             WakeupNotStale
  <2>3. CASE ~(pc[t] = "user" /\ killed[t]) /\ (pc[t] = "user" \/ KernelYields(t))
    <3>1. /\ state' = [WakeTicks EXCEPT ![t] = "RUNNABLE"] /\ sched' = "release"
          /\ UNCHANGED <<pc, idx, killed, cur, h1>>
      BY <1>32, <2>3 DEF TimerIntrTask, SwitchOut
    <3>2. state[t] = "RUNNING"
      BY <2>1, <2>3, <1>a DEF KernelYields, StateInv
    <3> QED
      BY <2>1, <3>1, <3>2, <1>a, <1>b
         DEF WakeTicks, HartInv, LockInv, StateInv, InitInv, ForkInv,
             WakeupNotStale
  <2>4. CASE ~(pc[t] = "user") /\ ~KernelYields(t)
    <3>1. /\ state' = WakeTicks /\ sched' = "running"
          /\ UNCHANGED <<pc, idx, killed, cur, h1>>
      BY <1>32, <2>4 DEF TimerIntrTask
    <3> QED
      BY <2>1, <3>1, <1>a, <1>b
         DEF WakeTicks, HartInv, LockInv, StateInv, InitInv, ForkInv,
             WakeupNotStale
  <2> QED
    BY <2>2, <2>3, <2>4
<1>33. ASSUME NEW t \in Tasks, NEW c \in Tasks, SysWait4(t, c) PROVE StateInv'
  BY <1>33, <1>a, <1>b, <1>c
     DEF SysWait4, Return, Call, HartInv, LockInv, StateInv, InitInv, ForkInv,
         WakeupNotStale
<1>34. ASSUME NEW t \in Tasks, NEW n \in SleepTicks, SysSleep(t, n)
      PROVE  StateInv'
  BY <1>34, <1>a, <1>b, <1>c
     DEF SysSleep, Call, HartInv, LockInv, StateInv, InitInv, ForkInv,
         WakeupNotStale
<1>35. ASSUME NEW t \in Tasks, NEW c \in Killable, SysKill(t, c) PROVE StateInv'
  BY <1>35, <1>a, <1>b, <1>c
     DEF SysKill, Return, Call, HartInv, LockInv, StateInv, InitInv, ForkInv,
         WakeupNotStale
<1>36. CASE UNCHANGED vars
  BY <1>36, <1>a
     DEF vars, HartInv, LockInv, StateInv, InitInv, ForkInv, WakeupNotStale
<1> QED
  BY <1>1, <1>2, <1>3, <1>4, <1>5, <1>6, <1>7, <1>8, <1>9, <1>10, <1>11, <1>12,
     <1>13, <1>14, <1>15, <1>16, <1>17, <1>18, <1>19, <1>20, <1>21, <1>22,
     <1>23, <1>24, <1>25, <1>26, <1>27, <1>28, <1>29, <1>30, <1>31, <1>32,
     <1>33, <1>34, <1>35, <1>36
     DEF Next, Scheduler, UserCall, KernelStep, Hart1Wake

\* Every step keeps init alive, and the slot of a fork to that fork.
LEMMA ForkStep ==
    ASSUME ~OverlappingForks, IndInv, [Next]_vars
    PROVE  InitInv' /\ ForkInv'
<1>a. /\ TypeOK /\ TypeOK' /\ HartInv /\ LockInv /\ StateInv /\ InitInv
      /\ ForkInv /\ WakeupNotStale
  BY TypeStep DEF IndInv
<1>b. /\ NTASK \in Nat /\ NTASK > 1 /\ initTask \in Tasks
      /\ Tasks \subseteq Nat /\ None \notin Nat
      /\ Killable \subseteq Tasks \ {initTask}
  BY SchedAssumption DEF initTask, Tasks
<1>c. \A i \in 0 .. NTASK : i < NTASK => i \in Tasks
  BY <1>b DEF Tasks
<1> USE DEF TypeOK, SleepPcs, IntrOffPcs, OwnLockPcs, TimerLockPcs, ForkPcs,
            taskVars, hartVars, Running
<1>1. CASE SchedulerSkip
  BY <1>1, <1>a, <1>b, <1>c
     DEF SchedulerSkip, HartInv, StateInv, InitInv, ForkInv, WakeupNotStale
<1>2. CASE SchedulerRun
  BY <1>2, <1>a, <1>b, <1>c
     DEF SchedulerRun, HartInv, StateInv, InitInv, ForkInv, WakeupNotStale
<1>3. CASE SchedulerRelease
  BY <1>3, <1>a, <1>b, <1>c
     DEF SchedulerRelease, HartInv, StateInv, InitInv, ForkInv, WakeupNotStale
<1>4. CASE TimerIntrIdle
  BY <1>4, <1>a, <1>b, <1>c
     DEF TimerIntrIdle, WakeTicks, HartInv, StateInv, InitInv, ForkInv,
         WakeupNotStale
<1>5. CASE Hart1Tick
  BY <1>5, <1>a, <1>b, <1>c
     DEF Hart1Tick, HartInv, StateInv, InitInv, ForkInv, WakeupNotStale
<1>6. CASE Hart1Check
  BY <1>6, <1>a, <1>b, <1>c
     DEF Hart1Check, HartInv, StateInv, InitInv, ForkInv, WakeupNotStale
<1>7. CASE Hart1Set
  BY <1>7, <1>a, <1>b, <1>c
     DEF Hart1Set, HartInv, StateInv, InitInv, ForkInv, WakeupNotStale
<1>8. CASE Hart1Done
  BY <1>8, <1>a, <1>b, <1>c
     DEF Hart1Done, HartInv, StateInv, InitInv, ForkInv, WakeupNotStale
<1>9. ASSUME NEW t \in Tasks, Resume(t) PROVE InitInv' /\ ForkInv'
  BY <1>9, <1>a, <1>b, <1>c
     DEF Resume, HartInv, StateInv, InitInv, ForkInv, WakeupNotStale
<1>10. ASSUME NEW t \in Tasks, SysYield(t) PROVE InitInv' /\ ForkInv'
  BY <1>10, <1>a, <1>b, <1>c
     DEF SysYield, SwitchOut, Return, Call, HartInv, StateInv, InitInv, ForkInv,
         WakeupNotStale
<1>11. ASSUME NEW t \in Tasks, SysFork(t) PROVE InitInv' /\ ForkInv'
  BY <1>11, <1>a, <1>b, <1>c
     DEF SysFork, Call, HartInv, StateInv, InitInv, ForkInv, WakeupNotStale
<1>12. ASSUME NEW t \in Tasks, SysExit(t) PROVE InitInv' /\ ForkInv'
  BY <1>12, <1>a, <1>b, <1>c
     DEF SysExit, CallExit, Call, At, HartInv, StateInv, InitInv, ForkInv,
         WakeupNotStale
<1>13. ASSUME NEW t \in Tasks, SysWait(t) PROVE InitInv' /\ ForkInv'
  BY <1>13, <1>a, <1>b, <1>c
     DEF SysWait, Call, HartInv, StateInv, InitInv, ForkInv, WakeupNotStale
<1>14. ASSUME NEW t \in Tasks, SysRet(t) PROVE InitInv' /\ ForkInv'
  BY <1>14, <1>a, <1>b, <1>c
     DEF SysRet, CallExit, At, HartInv, StateInv, InitInv, ForkInv,
         WakeupNotStale
<1>15. ASSUME NEW t \in Tasks, AllocTask(t) PROVE InitInv' /\ ForkInv'
  BY <1>15, <1>a, <1>b, <1>c
     DEF AllocTask, Return, At, HartInv, StateInv, InitInv, ForkInv,
         WakeupNotStale
<1>16. ASSUME NEW t \in Tasks, ForkLink(t) PROVE InitInv' /\ ForkInv'
  BY <1>16, <1>a, <1>b, <1>c
     DEF ForkLink, At, HartInv, StateInv, InitInv, ForkInv, WakeupNotStale
<1>17. ASSUME NEW t \in Tasks, ForkRun(t) PROVE InitInv' /\ ForkInv'
  BY <1>17, <1>a, <1>b, <1>c
     DEF ForkRun, Return, At, HartInv, StateInv, InitInv, ForkInv,
         WakeupNotStale
<1>18. ASSUME NEW t \in Tasks, ExitReparent(t) PROVE InitInv' /\ ForkInv'
  BY <1>18, <1>a, <1>b, <1>c
     DEF ExitReparent, At, HartInv, StateInv, InitInv, ForkInv, WakeupNotStale
<1>19. ASSUME NEW t \in Tasks, ExitZombie(t) PROVE InitInv' /\ ForkInv'
  BY <1>19, <1>a, <1>b, <1>c
     DEF ExitZombie, At, HartInv, StateInv, InitInv, ForkInv, WakeupNotStale
<1>20. ASSUME NEW t \in Tasks, ExitWake(t) PROVE InitInv' /\ ForkInv'
  BY <1>20, <1>a, <1>b, <1>c
     DEF ExitWake, At, HartInv, StateInv, InitInv, ForkInv, WakeupNotStale
<1>21. ASSUME NEW t \in Tasks, ExitSched(t) PROVE InitInv' /\ ForkInv'
  BY <1>21, <1>a, <1>b, <1>c
     DEF ExitSched, SwitchOut, At, HartInv, StateInv, InitInv, ForkInv,
         WakeupNotStale
<1>22. ASSUME NEW t \in Tasks, WaitScan(t) PROVE InitInv' /\ ForkInv'
  BY <1>22, <1>a, <1>b, <1>c
     DEF WaitScan, Reap, Return, At, HartInv, StateInv, InitInv, ForkInv,
         WakeupNotStale
<1>23. ASSUME NEW t \in Tasks, WaitEnd(t) PROVE InitInv' /\ ForkInv'
  BY <1>23, <1>a, <1>b, <1>c
     DEF WaitEnd, SleepOnSelf, ReturnUnlocked, Return, SwitchOut, At, HartInv,
         StateInv, InitInv, ForkInv, WakeupNotStale
<1>24. ASSUME NEW t \in Tasks, Wait4Lock(t) PROVE InitInv' /\ ForkInv'
  BY <1>24, <1>a, <1>b, <1>c
     DEF Wait4Lock, At, HartInv, StateInv, InitInv, ForkInv, WakeupNotStale
<1>25. ASSUME NEW t \in Tasks, Wait4Check(t) PROVE InitInv' /\ ForkInv'
  BY <1>25, <1>a, <1>b, <1>c
     DEF Wait4Check, Reap, SleepOnSelf, Return, SwitchOut, At, HartInv,
         StateInv, InitInv, ForkInv, WakeupNotStale
<1>26. ASSUME NEW t \in Tasks, SleepPushOff(t) PROVE InitInv' /\ ForkInv'
  BY <1>26, <1>a, <1>b, <1>c
     DEF SleepPushOff, At, HartInv, StateInv, InitInv, ForkInv, WakeupNotStale
<1>27. ASSUME NEW t \in Tasks, SleepLockTimer(t) PROVE InitInv' /\ ForkInv'
  BY <1>27, <1>a, <1>b, <1>c
     DEF SleepLockTimer, At, HartInv, StateInv, InitInv, ForkInv, WakeupNotStale
<1>28. ASSUME NEW t \in Tasks, SleepCheck(t) PROVE InitInv' /\ ForkInv'
  BY <1>28, <1>a, <1>b, <1>c
     DEF SleepCheck, Return, At, HartInv, StateInv, InitInv, ForkInv,
         WakeupNotStale
<1>29. ASSUME NEW t \in Tasks, SleepOnTicks(t) PROVE InitInv' /\ ForkInv'
  BY <1>29, <1>a, <1>b, <1>c
     DEF SleepOnTicks, SwitchOut, At, HartInv, StateInv, InitInv, ForkInv,
         WakeupNotStale
<1>30. ASSUME NEW t \in Tasks, KillSet(t) PROVE InitInv' /\ ForkInv'
  BY <1>30, <1>a, <1>b, <1>c
     DEF KillSet, Return, At, HartInv, StateInv, InitInv, ForkInv,
         WakeupNotStale
<1>31. ASSUME NEW t \in Tasks, TimerIntrEnter(t) PROVE InitInv' /\ ForkInv'
  BY <1>31, <1>a, <1>b, <1>c
     DEF TimerIntrEnter, HartInv, StateInv, InitInv, ForkInv, WakeupNotStale
<1>32. ASSUME NEW t \in Tasks, TimerIntrTask(t) PROVE InitInv' /\ ForkInv'
  <2>1. sched = "intr" /\ cur = t /\ h1.pc = "idle"
    BY <1>32, <1>a DEF TimerIntrTask, LockInv
  <2>2. CASE pc[t] = "user" /\ killed[t]
    <3>1. /\ state' = WakeTicks /\ sched' = "running"
          /\ pc' = [pc EXCEPT ![t] = "exit_reparent"]
          /\ UNCHANGED <<killed, cur, h1>> /\ idx' = [idx EXCEPT ![t] = 0]
      BY <1>32, <2>2 DEF TimerIntrTask, CallExit
    <3> QED
      BY <2>1, <2>2, <3>1, <1>a, <1>b
         DEF WakeTicks, HartInv, StateInv, InitInv, ForkInv, WakeupNotStale
  <2>3. CASE ~(pc[t] = "user" /\ killed[t]) /\ (pc[t] = "user" \/ KernelYields(t))
    <3>1. /\ state' = [WakeTicks EXCEPT ![t] = "RUNNABLE"] /\ sched' = "release"
          /\ UNCHANGED <<pc, idx, killed, cur, h1>>
      BY <1>32, <2>3 DEF TimerIntrTask, SwitchOut
    <3>2. state[t] = "RUNNING"
      BY <2>1, <2>3, <1>a DEF KernelYields, StateInv
    <3> QED
      BY <2>1, <3>1, <3>2, <1>a, <1>b
         DEF WakeTicks, HartInv, StateInv, InitInv, ForkInv, WakeupNotStale
  <2>4. CASE ~(pc[t] = "user") /\ ~KernelYields(t)
    <3>1. /\ state' = WakeTicks /\ sched' = "running"
          /\ UNCHANGED <<pc, idx, killed, cur, h1>>
      BY <1>32, <2>4 DEF TimerIntrTask
    <3> QED
      BY <2>1, <3>1, <1>a, <1>b
         DEF WakeTicks, HartInv, StateInv, InitInv, ForkInv, WakeupNotStale
  <2> QED
    BY <2>2, <2>3, <2>4
<1>33. ASSUME NEW t \in Tasks, NEW c \in Tasks, SysWait4(t, c)
      PROVE  InitInv' /\ ForkInv'
  BY <1>33, <1>a, <1>b, <1>c
     DEF SysWait4, Return, Call, HartInv, StateInv, InitInv, ForkInv,
         WakeupNotStale
<1>34. ASSUME NEW t \in Tasks, NEW n \in SleepTicks, SysSleep(t, n)
      PROVE  InitInv' /\ ForkInv'
  BY <1>34, <1>a, <1>b, <1>c
     DEF SysSleep, Call, HartInv, StateInv, InitInv, ForkInv, WakeupNotStale
<1>35. ASSUME NEW t \in Tasks, NEW c \in Killable, SysKill(t, c)
      PROVE  InitInv' /\ ForkInv'
  <2>1. /\ pc[t] = "user" /\ cur = t /\ sched = "running"
        /\ UNCHANGED <<state, killed>>
    BY <1>35 DEF SysKill, Call
  <2>2. \/ pc' = [pc EXCEPT ![t] = "sys_ret"] /\ idx' = [idx EXCEPT ![t] = 0]
        \/ pc' = [pc EXCEPT ![t] = "kill_set"] /\ idx' = [idx EXCEPT ![t] = c]
    BY <1>35 DEF SysKill, Return
  <2>3. state[t] = "RUNNING"
    BY <2>1, <1>a DEF StateInv
  <2>4. InitInv'
    BY <2>1, <2>2, <1>a, <1>b DEF InitInv
  <2>5. ForkInv'
    BY <2>1, <2>2, <2>3, <1>a DEF ForkInv
  <2> QED
    BY <2>4, <2>5
<1>36. CASE UNCHANGED vars
  BY <1>36, <1>a DEF vars, HartInv, StateInv, InitInv, ForkInv, WakeupNotStale
<1> QED
  BY <1>1, <1>2, <1>3, <1>4, <1>5, <1>6, <1>7, <1>8, <1>9, <1>10, <1>11, <1>12,
     <1>13, <1>14, <1>15, <1>16, <1>17, <1>18, <1>19, <1>20, <1>21, <1>22,
     <1>23, <1>24, <1>25, <1>26, <1>27, <1>28, <1>29, <1>30, <1>31, <1>32,
     <1>33, <1>34, <1>35, <1>36
     DEF Next, Scheduler, UserCall, KernelStep, Hart1Wake

\* Nothing hart 0 does between the two halves of hart 1's wakeup makes its
\* test stale.
LEMMA StaleStep ==
    ASSUME ~OverlappingForks, IndInv, [Next]_vars
    PROVE  WakeupNotStale'
<1>a. /\ TypeOK /\ TypeOK' /\ HartInv /\ LockInv /\ StateInv /\ InitInv
      /\ ForkInv /\ WakeupNotStale
  BY TypeStep DEF IndInv
<1>b. /\ NTASK \in Nat /\ NTASK > 1 /\ initTask \in Tasks
      /\ Tasks \subseteq Nat /\ None \notin Nat
      /\ Killable \subseteq Tasks \ {initTask}
  BY SchedAssumption DEF initTask, Tasks
<1>c. \A i \in 0 .. NTASK : i < NTASK => i \in Tasks
  BY <1>b DEF Tasks
<1> USE DEF TypeOK, SleepPcs, IntrOffPcs, OwnLockPcs, TimerLockPcs, ForkPcs,
            taskVars, hartVars, Running
<1>1. CASE SchedulerSkip
  BY <1>1, <1>a, <1>b, <1>c
     DEF SchedulerSkip, HartInv, LockInv, StateInv, WakeupNotStale
<1>2. CASE SchedulerRun
  BY <1>2, <1>a, <1>b, <1>c
     DEF SchedulerRun, HartInv, LockInv, StateInv, WakeupNotStale
<1>3. CASE SchedulerRelease
  BY <1>3, <1>a, <1>b, <1>c
     DEF SchedulerRelease, HartInv, LockInv, StateInv, WakeupNotStale
<1>4. CASE TimerIntrIdle
  BY <1>4, <1>a, <1>b, <1>c
     DEF TimerIntrIdle, WakeTicks, HartInv, LockInv, StateInv, WakeupNotStale
<1>5. CASE Hart1Tick
  BY <1>5, <1>a, <1>b, <1>c
     DEF Hart1Tick, HartInv, LockInv, StateInv, WakeupNotStale
<1>6. CASE Hart1Check
  BY <1>6, <1>a, <1>b, <1>c
     DEF Hart1Check, HartInv, LockInv, StateInv, WakeupNotStale
<1>7. CASE Hart1Set
  BY <1>7, <1>a, <1>b, <1>c
     DEF Hart1Set, HartInv, LockInv, StateInv, WakeupNotStale
<1>8. CASE Hart1Done
  BY <1>8, <1>a, <1>b, <1>c
     DEF Hart1Done, HartInv, LockInv, StateInv, WakeupNotStale
<1>9. ASSUME NEW t \in Tasks, Resume(t) PROVE WakeupNotStale'
  BY <1>9, <1>a, <1>b, <1>c
     DEF Resume, HartInv, LockInv, StateInv, WakeupNotStale
<1>10. ASSUME NEW t \in Tasks, SysYield(t) PROVE WakeupNotStale'
  BY <1>10, <1>a, <1>b, <1>c
     DEF SysYield, SwitchOut, Return, Call, HartInv, LockInv, StateInv,
         WakeupNotStale
<1>11. ASSUME NEW t \in Tasks, SysFork(t) PROVE WakeupNotStale'
  BY <1>11, <1>a, <1>b, <1>c
     DEF SysFork, Call, HartInv, LockInv, StateInv, WakeupNotStale
<1>12. ASSUME NEW t \in Tasks, SysExit(t) PROVE WakeupNotStale'
  BY <1>12, <1>a, <1>b, <1>c
     DEF SysExit, CallExit, Call, At, HartInv, LockInv, StateInv, WakeupNotStale
<1>13. ASSUME NEW t \in Tasks, SysWait(t) PROVE WakeupNotStale'
  BY <1>13, <1>a, <1>b, <1>c
     DEF SysWait, Call, HartInv, LockInv, StateInv, WakeupNotStale
<1>14. ASSUME NEW t \in Tasks, SysRet(t) PROVE WakeupNotStale'
  BY <1>14, <1>a, <1>b, <1>c
     DEF SysRet, CallExit, At, HartInv, LockInv, StateInv, WakeupNotStale
<1>15. ASSUME NEW t \in Tasks, AllocTask(t) PROVE WakeupNotStale'
  BY <1>15, <1>a, <1>b, <1>c
     DEF AllocTask, Return, At, HartInv, LockInv, StateInv, WakeupNotStale
<1>16. ASSUME NEW t \in Tasks, ForkLink(t) PROVE WakeupNotStale'
  BY <1>16, <1>a, <1>b, <1>c
     DEF ForkLink, At, HartInv, LockInv, StateInv, WakeupNotStale
<1>17. ASSUME NEW t \in Tasks, ForkRun(t) PROVE WakeupNotStale'
  BY <1>17, <1>a, <1>b, <1>c
     DEF ForkRun, Return, ForkInv, At, HartInv, LockInv, StateInv,
         WakeupNotStale
<1>18. ASSUME NEW t \in Tasks, ExitReparent(t) PROVE WakeupNotStale'
  BY <1>18, <1>a, <1>b, <1>c
     DEF ExitReparent, At, HartInv, LockInv, StateInv, WakeupNotStale
<1>19. ASSUME NEW t \in Tasks, ExitZombie(t) PROVE WakeupNotStale'
  BY <1>19, <1>a, <1>b, <1>c
     DEF ExitZombie, At, HartInv, LockInv, StateInv, WakeupNotStale
<1>20. ASSUME NEW t \in Tasks, ExitWake(t) PROVE WakeupNotStale'
  BY <1>20, <1>a, <1>b, <1>c
     DEF ExitWake, At, HartInv, LockInv, StateInv, WakeupNotStale
<1>21. ASSUME NEW t \in Tasks, ExitSched(t) PROVE WakeupNotStale'
  BY <1>21, <1>a, <1>b, <1>c
     DEF ExitSched, SwitchOut, At, HartInv, LockInv, StateInv, WakeupNotStale
<1>22. ASSUME NEW t \in Tasks, WaitScan(t) PROVE WakeupNotStale'
  BY <1>22, <1>a, <1>b, <1>c
     DEF WaitScan, Reap, Return, At, HartInv, LockInv, StateInv, WakeupNotStale
<1>23. ASSUME NEW t \in Tasks, WaitEnd(t) PROVE WakeupNotStale'
  BY <1>23, <1>a, <1>b, <1>c
     DEF WaitEnd, SleepOnSelf, ReturnUnlocked, Return, SwitchOut, At, HartInv,
         LockInv, StateInv, WakeupNotStale
<1>24. ASSUME NEW t \in Tasks, Wait4Lock(t) PROVE WakeupNotStale'
  BY <1>24, <1>a, <1>b, <1>c
     DEF Wait4Lock, At, HartInv, LockInv, StateInv, WakeupNotStale
<1>25. ASSUME NEW t \in Tasks, Wait4Check(t) PROVE WakeupNotStale'
  BY <1>25, <1>a, <1>b, <1>c
     DEF Wait4Check, Reap, SleepOnSelf, Return, SwitchOut, At, HartInv, LockInv,
         StateInv, WakeupNotStale
<1>26. ASSUME NEW t \in Tasks, SleepPushOff(t) PROVE WakeupNotStale'
  BY <1>26, <1>a, <1>b, <1>c
     DEF SleepPushOff, At, HartInv, LockInv, StateInv, WakeupNotStale
<1>27. ASSUME NEW t \in Tasks, SleepLockTimer(t) PROVE WakeupNotStale'
  BY <1>27, <1>a, <1>b, <1>c
     DEF SleepLockTimer, At, HartInv, LockInv, StateInv, WakeupNotStale
<1>28. ASSUME NEW t \in Tasks, SleepCheck(t) PROVE WakeupNotStale'
  BY <1>28, <1>a, <1>b, <1>c
     DEF SleepCheck, Return, At, HartInv, LockInv, StateInv, WakeupNotStale
<1>29. ASSUME NEW t \in Tasks, SleepOnTicks(t) PROVE WakeupNotStale'
  BY <1>29, <1>a, <1>b, <1>c
     DEF SleepOnTicks, SwitchOut, At, HartInv, LockInv, StateInv, WakeupNotStale
<1>30. ASSUME NEW t \in Tasks, KillSet(t) PROVE WakeupNotStale'
  BY <1>30, <1>a, <1>b, <1>c
     DEF KillSet, Return, At, HartInv, LockInv, StateInv, WakeupNotStale
<1>31. ASSUME NEW t \in Tasks, TimerIntrEnter(t) PROVE WakeupNotStale'
  BY <1>31, <1>a, <1>b, <1>c
     DEF TimerIntrEnter, HartInv, LockInv, StateInv, WakeupNotStale
<1>32. ASSUME NEW t \in Tasks, TimerIntrTask(t) PROVE WakeupNotStale'
  BY <1>32, <1>a, <1>b, <1>c
     DEF TimerIntrTask, CallExit, SwitchOut, WakeTicks, KernelYields, HartInv,
         LockInv, StateInv, WakeupNotStale
<1>33. ASSUME NEW t \in Tasks, NEW c \in Tasks, SysWait4(t, c)
      PROVE  WakeupNotStale'
  BY <1>33, <1>a, <1>b, <1>c
     DEF SysWait4, Return, Call, HartInv, LockInv, StateInv, WakeupNotStale
<1>34. ASSUME NEW t \in Tasks, NEW n \in SleepTicks, SysSleep(t, n)
      PROVE  WakeupNotStale'
  BY <1>34, <1>a, <1>b, <1>c
     DEF SysSleep, Call, HartInv, LockInv, StateInv, WakeupNotStale
<1>35. ASSUME NEW t \in Tasks, NEW c \in Killable, SysKill(t, c)
      PROVE  WakeupNotStale'
  BY <1>35, <1>a, <1>b, <1>c
     DEF SysKill, Return, Call, HartInv, LockInv, StateInv, WakeupNotStale
<1>36. CASE UNCHANGED vars
  BY <1>36, <1>a DEF vars, HartInv, LockInv, StateInv, WakeupNotStale
<1> QED
  BY <1>1, <1>2, <1>3, <1>4, <1>5, <1>6, <1>7, <1>8, <1>9, <1>10, <1>11, <1>12,
     <1>13, <1>14, <1>15, <1>16, <1>17, <1>18, <1>19, <1>20, <1>21, <1>22,
     <1>23, <1>24, <1>25, <1>26, <1>27, <1>28, <1>29, <1>30, <1>31, <1>32,
     <1>33, <1>34, <1>35, <1>36
     DEF Next, Scheduler, UserCall, KernelStep, Hart1Wake

\* A task other than init that is in use has a parent; the slot a fork has
\* linked has the forking task; only live tasks are parents, and one that is
\* handing its children over has none left below its loop index.
FamilyInv ==
    /\ \A c \in Tasks \ {initTask} : state[c] # "UNUSED" => parent[c] \in Tasks
    /\ \A t \in Tasks : pc[t] = "fork_files" => parent[idx[t]] = t
    /\ \A p, c \in Tasks : parent[c] = p =>
           /\ state[p] \notin {"UNUSED", "ZOMBIE"}
           /\ pc[p] = "exit_reparent" => idx[p] <= c

\* wait has seen no zombie below its loop index; wait and wait4 sleep on the
\* task itself.
ScanInv ==
    /\ \A p, c \in Tasks :
           pc[p] = "wait_scan" /\ c < idx[p] /\ parent[c] = p
           => state[c] # "ZOMBIE" /\ have[p]
    /\ \A p \in Tasks : pc[p] \in {"wait_resume", "wait4_resume"} => chan[p] = p

\* sleepTime holds the timer lock from the test of the deadline to the sleep.
DeadlineInv == \A t \in Tasks : pc[t] = "st_sleep" => left[t] > 0

\* Every step keeps the parent links: fork, the loop of exit, and the reaping
\* in wait and wait4.
LEMMA FamilyStep ==
    ASSUME ~OverlappingForks, IndInv, FamilyInv, [Next]_vars
    PROVE  FamilyInv'
<1>a. /\ TypeOK /\ TypeOK' /\ HartInv /\ LockInv /\ StateInv /\ InitInv
      /\ ForkInv /\ WakeupNotStale
  BY TypeStep DEF IndInv
<1>b. /\ NTASK \in Nat /\ NTASK > 1 /\ initTask \in Tasks
      /\ Tasks \subseteq Nat /\ None \notin Nat /\ Ticks \notin Nat
      /\ Killable \subseteq Tasks \ {initTask} /\ SleepTicks \subseteq Nat
  BY SchedAssumption DEF initTask, Tasks
<1>c. /\ \A i \in 0 .. NTASK : i < NTASK => i \in Tasks
      /\ \A i \in Tasks : i < NTASK
  BY <1>b DEF Tasks
<1> USE DEF TypeOK, SleepPcs, IntrOffPcs, OwnLockPcs, TimerLockPcs, ForkPcs,
            taskVars, hartVars, Running
<1>1. CASE SchedulerSkip
  BY <1>1, <1>a, <1>b, <1>c
     DEF SchedulerSkip, HartInv, StateInv, InitInv, ForkInv, FamilyInv
<1>2. CASE SchedulerRun
  BY <1>2, <1>a, <1>b, <1>c
     DEF SchedulerRun, HartInv, StateInv, InitInv, ForkInv, FamilyInv
<1>3. CASE SchedulerRelease
  BY <1>3, <1>a, <1>b, <1>c
     DEF SchedulerRelease, HartInv, StateInv, InitInv, ForkInv, FamilyInv
<1>4. CASE TimerIntrIdle
  BY <1>4, <1>a, <1>b, <1>c
     DEF TimerIntrIdle, WakeTicks, TickLeft, HartInv, StateInv, InitInv,
         ForkInv, FamilyInv
<1>5. CASE Hart1Tick
  BY <1>5, <1>a, <1>b, <1>c
     DEF Hart1Tick, TickLeft, HartInv, StateInv, InitInv, ForkInv, FamilyInv
<1>6. CASE Hart1Check
  BY <1>6, <1>a, <1>b, <1>c
     DEF Hart1Check, HartInv, StateInv, InitInv, ForkInv, FamilyInv
<1>7. CASE Hart1Set
  BY <1>7, <1>a, <1>b, <1>c
     DEF Hart1Set, WakeupNotStale, HartInv, StateInv, InitInv, ForkInv,
         FamilyInv
<1>8. CASE Hart1Done
  BY <1>8, <1>a, <1>b, <1>c
     DEF Hart1Done, HartInv, StateInv, InitInv, ForkInv, FamilyInv
<1>9. ASSUME NEW t \in Tasks, Resume(t) PROVE FamilyInv'
  BY <1>9, <1>a, <1>b, <1>c
     DEF Resume, HartInv, StateInv, InitInv, ForkInv, FamilyInv
<1>10. ASSUME NEW t \in Tasks, SysYield(t) PROVE FamilyInv'
  BY <1>10, <1>a, <1>b, <1>c
     DEF SysYield, SwitchOut, Return, Call, HartInv, StateInv, InitInv, ForkInv,
         FamilyInv
<1>11. ASSUME NEW t \in Tasks, SysFork(t) PROVE FamilyInv'
  BY <1>11, <1>a, <1>b, <1>c
     DEF SysFork, Call, HartInv, StateInv, InitInv, ForkInv, FamilyInv
<1>12. ASSUME NEW t \in Tasks, SysExit(t) PROVE FamilyInv'
  BY <1>12, <1>a, <1>b, <1>c
     DEF SysExit, CallExit, Call, At, HartInv, StateInv, InitInv, ForkInv,
         FamilyInv
<1>13. ASSUME NEW t \in Tasks, SysWait(t) PROVE FamilyInv'
  BY <1>13, <1>a, <1>b, <1>c
     DEF SysWait, Call, HartInv, StateInv, InitInv, ForkInv, FamilyInv
<1>14. ASSUME NEW t \in Tasks, SysRet(t) PROVE FamilyInv'
  BY <1>14, <1>a, <1>b, <1>c
     DEF SysRet, CallExit, At, HartInv, StateInv, InitInv, ForkInv, FamilyInv
<1>15. ASSUME NEW t \in Tasks, AllocTask(t) PROVE FamilyInv'
  BY <1>15, <1>a, <1>b, <1>c
     DEF AllocTask, Return, At, HartInv, StateInv, InitInv, ForkInv, FamilyInv
<1>16. ASSUME NEW t \in Tasks, ForkLink(t) PROVE FamilyInv'
  BY <1>16, <1>a, <1>b, <1>c
     DEF ForkLink, At, HartInv, StateInv, InitInv, ForkInv, FamilyInv
<1>17. ASSUME NEW t \in Tasks, ForkRun(t) PROVE FamilyInv'
  BY <1>17, <1>a, <1>b, <1>c
     DEF ForkRun, Return, At, HartInv, StateInv, InitInv, ForkInv, FamilyInv
<1>18. ASSUME NEW t \in Tasks, ExitReparent(t) PROVE FamilyInv'
  BY <1>18, <1>a, <1>b, <1>c
     DEF ExitReparent, At, HartInv, StateInv, InitInv, ForkInv, FamilyInv
<1>19. ASSUME NEW t \in Tasks, ExitZombie(t) PROVE FamilyInv'
  BY <1>19, <1>a, <1>b, <1>c
     DEF ExitZombie, At, HartInv, StateInv, InitInv, ForkInv, FamilyInv
<1>20. ASSUME NEW t \in Tasks, ExitWake(t) PROVE FamilyInv'
  BY <1>20, <1>a, <1>b, <1>c
     DEF ExitWake, At, HartInv, StateInv, InitInv, ForkInv, FamilyInv
<1>21. ASSUME NEW t \in Tasks, ExitSched(t) PROVE FamilyInv'
  BY <1>21, <1>a, <1>b, <1>c
     DEF ExitSched, SwitchOut, At, HartInv, StateInv, InitInv, ForkInv,
         FamilyInv
<1>22. ASSUME NEW t \in Tasks, WaitScan(t) PROVE FamilyInv'
  BY <1>22, <1>a, <1>b, <1>c
     DEF WaitScan, Reap, Return, At, HartInv, StateInv, InitInv, ForkInv,
         FamilyInv
<1>23. ASSUME NEW t \in Tasks, WaitEnd(t) PROVE FamilyInv'
  BY <1>23, <1>a, <1>b, <1>c
     DEF WaitEnd, SleepOnSelf, ReturnUnlocked, Return, SwitchOut, At, HartInv,
         StateInv, InitInv, ForkInv, FamilyInv
<1>24. ASSUME NEW t \in Tasks, Wait4Lock(t) PROVE FamilyInv'
  BY <1>24, <1>a, <1>b, <1>c
     DEF Wait4Lock, At, HartInv, StateInv, InitInv, ForkInv, FamilyInv
<1>25. ASSUME NEW t \in Tasks, Wait4Check(t) PROVE FamilyInv'
  BY <1>25, <1>a, <1>b, <1>c
     DEF Wait4Check, Reap, SleepOnSelf, Return, SwitchOut, At, HartInv,
         StateInv, InitInv, ForkInv, FamilyInv
<1>26. ASSUME NEW t \in Tasks, SleepPushOff(t) PROVE FamilyInv'
  BY <1>26, <1>a, <1>b, <1>c
     DEF SleepPushOff, At, HartInv, StateInv, InitInv, ForkInv, FamilyInv
<1>27. ASSUME NEW t \in Tasks, SleepLockTimer(t) PROVE FamilyInv'
  BY <1>27, <1>a, <1>b, <1>c
     DEF SleepLockTimer, At, HartInv, StateInv, InitInv, ForkInv, FamilyInv
<1>28. ASSUME NEW t \in Tasks, SleepCheck(t) PROVE FamilyInv'
  BY <1>28, <1>a, <1>b, <1>c
     DEF SleepCheck, Return, At, HartInv, StateInv, InitInv, ForkInv, FamilyInv
<1>29. ASSUME NEW t \in Tasks, SleepOnTicks(t) PROVE FamilyInv'
  BY <1>29, <1>a, <1>b, <1>c
     DEF SleepOnTicks, SwitchOut, At, HartInv, StateInv, InitInv, ForkInv,
         FamilyInv
<1>30. ASSUME NEW t \in Tasks, KillSet(t) PROVE FamilyInv'
  BY <1>30, <1>a, <1>b, <1>c
     DEF KillSet, Return, At, HartInv, StateInv, InitInv, ForkInv, FamilyInv
<1>31. ASSUME NEW t \in Tasks, TimerIntrEnter(t) PROVE FamilyInv'
  BY <1>31, <1>a, <1>b, <1>c
     DEF TimerIntrEnter, HartInv, StateInv, InitInv, ForkInv, FamilyInv
<1>32. ASSUME NEW t \in Tasks, TimerIntrTask(t) PROVE FamilyInv'
  <2>1. /\ sched = "intr" /\ cur = t /\ h1.pc = "idle" /\ left' = TickLeft
        /\ UNCHANGED <<parent, chan, killed, have, cur, h1>>
    BY <1>32, <1>a DEF TimerIntrTask, LockInv
  <2>2. CASE pc[t] = "user" /\ killed[t]
    <3>1. /\ state' = WakeTicks /\ sched' = "running"
          /\ pc' = [pc EXCEPT ![t] = "exit_reparent"] /\ idx' = [idx EXCEPT ![t] = 0]
      BY <1>32, <2>2 DEF TimerIntrTask, CallExit
    <3> QED
      BY <2>1, <2>2, <3>1, <1>a, <1>b
         DEF WakeTicks, TickLeft, HartInv, StateInv, InitInv, ForkInv, FamilyInv
  <2>3. CASE ~(pc[t] = "user" /\ killed[t]) /\ (pc[t] = "user" \/ KernelYields(t))
    <3>1. /\ state' = [WakeTicks EXCEPT ![t] = "RUNNABLE"] /\ sched' = "release"
          /\ UNCHANGED <<pc, idx>>
      BY <1>32, <2>3 DEF TimerIntrTask, SwitchOut
    <3>2. state[t] = "RUNNING"
      BY <2>1, <2>3, <1>a DEF KernelYields, StateInv
    <3> QED
      BY <2>1, <3>1, <3>2, <1>a, <1>b
         DEF WakeTicks, TickLeft, HartInv, StateInv, InitInv, ForkInv, FamilyInv
  <2>4. CASE pc[t] # "user" /\ ~KernelYields(t)
    <3>1. state' = WakeTicks /\ sched' = "running" /\ UNCHANGED <<pc, idx>>
      BY <1>32, <2>4 DEF TimerIntrTask
    <3> QED
      BY <2>1, <3>1, <1>a, <1>b
         DEF WakeTicks, TickLeft, HartInv, StateInv, InitInv, ForkInv, FamilyInv
  <2> QED
    BY <2>2, <2>3, <2>4
<1>33. ASSUME NEW t \in Tasks, NEW c \in Tasks, SysWait4(t, c) PROVE FamilyInv'
  BY <1>33, <1>a, <1>b, <1>c
     DEF SysWait4, Return, Call, HartInv, StateInv, InitInv, ForkInv, FamilyInv
<1>34. ASSUME NEW t \in Tasks, NEW n \in SleepTicks, SysSleep(t, n)
      PROVE  FamilyInv'
  BY <1>34, <1>a, <1>b, <1>c
     DEF SysSleep, Call, HartInv, StateInv, InitInv, ForkInv, FamilyInv
<1>35. ASSUME NEW t \in Tasks, NEW c \in Killable, SysKill(t, c)
      PROVE  FamilyInv'
  BY <1>35, <1>a, <1>b, <1>c
     DEF SysKill, Return, Call, HartInv, StateInv, InitInv, ForkInv, FamilyInv
<1>36. CASE UNCHANGED vars
  BY <1>36, <1>a DEF vars, HartInv, StateInv, InitInv, ForkInv, FamilyInv
<1> QED
  BY <1>1, <1>2, <1>3, <1>4, <1>5, <1>6, <1>7, <1>8, <1>9, <1>10, <1>11, <1>12,
     <1>13, <1>14, <1>15, <1>16, <1>17, <1>18, <1>19, <1>20, <1>21, <1>22,
     <1>23, <1>24, <1>25, <1>26, <1>27, <1>28, <1>29, <1>30, <1>31, <1>32,
     <1>33, <1>34, <1>35, <1>36
     DEF Next, Scheduler, UserCall, KernelStep, Hart1Wake

\* Nothing turns into a zombie behind a scan of wait.
LEMMA ScanStep ==
    ASSUME ~OverlappingForks, IndInv, FamilyInv, ScanInv, [Next]_vars
    PROVE  ScanInv'
<1>a. /\ TypeOK /\ TypeOK' /\ HartInv /\ LockInv /\ StateInv /\ InitInv
      /\ ForkInv /\ WakeupNotStale
  BY TypeStep DEF IndInv
<1>b. /\ NTASK \in Nat /\ NTASK > 1 /\ initTask \in Tasks
      /\ Tasks \subseteq Nat /\ None \notin Nat /\ Ticks \notin Nat
      /\ Killable \subseteq Tasks \ {initTask} /\ SleepTicks \subseteq Nat
  BY SchedAssumption DEF initTask, Tasks
<1>c. /\ \A i \in 0 .. NTASK : i < NTASK => i \in Tasks
      /\ \A i \in Tasks : i < NTASK
  BY <1>b DEF Tasks
<1> USE DEF TypeOK, SleepPcs, IntrOffPcs, OwnLockPcs, TimerLockPcs, ForkPcs,
            taskVars, hartVars, Running
<1>1. CASE SchedulerSkip
  BY <1>1, <1>a, <1>b, <1>c
     DEF SchedulerSkip, HartInv, StateInv, InitInv, ForkInv, WakeupNotStale,
         FamilyInv, ScanInv
<1>2. CASE SchedulerRun
  BY <1>2, <1>a, <1>b, <1>c
     DEF SchedulerRun, HartInv, StateInv, InitInv, ForkInv, WakeupNotStale,
         FamilyInv, ScanInv
<1>3. CASE SchedulerRelease
  BY <1>3, <1>a, <1>b, <1>c
     DEF SchedulerRelease, HartInv, StateInv, InitInv, ForkInv, WakeupNotStale,
         FamilyInv, ScanInv
<1>4. CASE TimerIntrIdle
  BY <1>4, <1>a, <1>b, <1>c
     DEF TimerIntrIdle, WakeTicks, TickLeft, HartInv, StateInv, InitInv,
         ForkInv, WakeupNotStale, FamilyInv, ScanInv
<1>5. CASE Hart1Tick
  BY <1>5, <1>a, <1>b, <1>c
     DEF Hart1Tick, TickLeft, HartInv, StateInv, InitInv, ForkInv,
         WakeupNotStale, FamilyInv, ScanInv
<1>6. CASE Hart1Check
  BY <1>6, <1>a, <1>b, <1>c
     DEF Hart1Check, HartInv, StateInv, InitInv, ForkInv, WakeupNotStale,
         FamilyInv, ScanInv
<1>7. CASE Hart1Set
  BY <1>7, <1>a, <1>b, <1>c
     DEF Hart1Set, HartInv, StateInv, InitInv, ForkInv, WakeupNotStale,
         FamilyInv, ScanInv
<1>8. CASE Hart1Done
  BY <1>8, <1>a, <1>b, <1>c
     DEF Hart1Done, HartInv, StateInv, InitInv, ForkInv, WakeupNotStale,
         FamilyInv, ScanInv
<1>9. ASSUME NEW t \in Tasks, Resume(t) PROVE ScanInv'
  BY <1>9, <1>a, <1>b, <1>c
     DEF Resume, HartInv, StateInv, InitInv, ForkInv, WakeupNotStale, FamilyInv,
         ScanInv
<1>10. ASSUME NEW t \in Tasks, SysYield(t) PROVE ScanInv'
  BY <1>10, <1>a, <1>b, <1>c
     DEF SysYield, SwitchOut, Return, Call, HartInv, StateInv, InitInv, ForkInv,
         WakeupNotStale, FamilyInv, ScanInv
<1>11. ASSUME NEW t \in Tasks, SysFork(t) PROVE ScanInv'
  BY <1>11, <1>a, <1>b, <1>c
     DEF SysFork, Call, HartInv, StateInv, InitInv, ForkInv, WakeupNotStale,
         FamilyInv, ScanInv
<1>12. ASSUME NEW t \in Tasks, SysExit(t) PROVE ScanInv'
  BY <1>12, <1>a, <1>b, <1>c
     DEF SysExit, CallExit, Call, At, HartInv, StateInv, InitInv, ForkInv,
         WakeupNotStale, FamilyInv, ScanInv
<1>13. ASSUME NEW t \in Tasks, SysWait(t) PROVE ScanInv'
  BY <1>13, <1>a, <1>b, <1>c
     DEF SysWait, Call, HartInv, StateInv, InitInv, ForkInv, WakeupNotStale,
         FamilyInv, ScanInv
<1>14. ASSUME NEW t \in Tasks, SysRet(t) PROVE ScanInv'
  BY <1>14, <1>a, <1>b, <1>c
     DEF SysRet, CallExit, At, HartInv, StateInv, InitInv, ForkInv,
         WakeupNotStale, FamilyInv, ScanInv
<1>15. ASSUME NEW t \in Tasks, AllocTask(t) PROVE ScanInv'
  BY <1>15, <1>a, <1>b, <1>c
     DEF AllocTask, Return, At, HartInv, StateInv, InitInv, ForkInv,
         WakeupNotStale, FamilyInv, ScanInv
<1>16. ASSUME NEW t \in Tasks, ForkLink(t) PROVE ScanInv'
  BY <1>16, <1>a, <1>b, <1>c
     DEF ForkLink, At, HartInv, StateInv, InitInv, ForkInv, WakeupNotStale,
         FamilyInv, ScanInv
<1>17. ASSUME NEW t \in Tasks, ForkRun(t) PROVE ScanInv'
  BY <1>17, <1>a, <1>b, <1>c
     DEF ForkRun, Return, At, HartInv, StateInv, InitInv, ForkInv,
         WakeupNotStale, FamilyInv, ScanInv
<1>18. ASSUME NEW t \in Tasks, ExitReparent(t) PROVE ScanInv'
  BY <1>18, <1>a, <1>b, <1>c
     DEF ExitReparent, At, HartInv, StateInv, InitInv, ForkInv, WakeupNotStale,
         FamilyInv, ScanInv
<1>19. ASSUME NEW t \in Tasks, ExitZombie(t) PROVE ScanInv'
  BY <1>19, <1>a, <1>b, <1>c
     DEF ExitZombie, At, HartInv, StateInv, InitInv, ForkInv, WakeupNotStale,
         FamilyInv, ScanInv
<1>20. ASSUME NEW t \in Tasks, ExitWake(t) PROVE ScanInv'
  BY <1>20, <1>a, <1>b, <1>c
     DEF ExitWake, At, HartInv, StateInv, InitInv, ForkInv, WakeupNotStale,
         FamilyInv, ScanInv
<1>21. ASSUME NEW t \in Tasks, ExitSched(t) PROVE ScanInv'
  BY <1>21, <1>a, <1>b, <1>c
     DEF ExitSched, SwitchOut, At, HartInv, StateInv, InitInv, ForkInv,
         WakeupNotStale, FamilyInv, ScanInv
<1>22. ASSUME NEW t \in Tasks, WaitScan(t) PROVE ScanInv'
  <2>0. /\ pc[t] = "wait_scan" /\ cur = t /\ idx[t] \in Tasks
        /\ \A u \in Tasks : pc[u] = "wait_scan" => u = t
    BY <1>22, <1>a, <1>c DEF WaitScan, At, HartInv
  <2>1. CASE parent[idx[t]] # t
    <3>1. /\ idx' = [idx EXCEPT ![t] = idx[t] + 1]
          /\ UNCHANGED <<state, parent, chan, pc, have>>
      BY <1>22, <2>1 DEF WaitScan
    <3>2. idx'[t] = idx[t] + 1
      BY <3>1, <2>0, <1>a
    <3>3. \A c \in Tasks : c < idx'[t] => c < idx[t] \/ c = idx[t]
      <4>1. idx[t] \in Nat
        BY <2>0, <1>b
      <4> QED
        BY <3>2, <4>1, <1>b
    <3> QED
      BY <2>0, <2>1, <3>1, <3>3, <1>a DEF ScanInv
  <2>2. CASE parent[idx[t]] = t /\ state[idx[t]] = "ZOMBIE"
    <3>1. Reap(t, idx[t])
      BY <1>22, <2>2 DEF WaitScan
    <3>2. pc[idx[t]] \in {"exit_wake", "dead"} /\ idx[t] # t
      BY <2>0, <2>2, <1>a DEF StateInv
    <3>3. /\ \A u \in Tasks : pc'[u] # "wait_scan"
          /\ \A u \in Tasks : pc'[u] \in {"wait_resume", "wait4_resume"}
                             => pc[u] = pc'[u] /\ chan'[u] = chan[u]
      BY <2>0, <3>1, <3>2, <1>a DEF Reap, Return
    <3> QED
      BY <3>3 DEF ScanInv
  <2>3. CASE parent[idx[t]] = t /\ state[idx[t]] # "ZOMBIE"
    <3>1. /\ idx' = [idx EXCEPT ![t] = idx[t] + 1] /\ have' = [have EXCEPT ![t] = TRUE]
          /\ UNCHANGED <<state, parent, chan, pc>>
      BY <1>22, <2>3 DEF WaitScan
    <3> QED
      BY <2>0, <2>3, <3>1, <1>a, <1>b DEF ScanInv
  <2> QED
    BY <2>1, <2>2, <2>3
<1>23. ASSUME NEW t \in Tasks, WaitEnd(t) PROVE ScanInv'
  BY <1>23, <1>a, <1>b, <1>c
     DEF WaitEnd, SleepOnSelf, ReturnUnlocked, Return, SwitchOut, At, HartInv,
         StateInv, InitInv, ForkInv, WakeupNotStale, FamilyInv, ScanInv
<1>24. ASSUME NEW t \in Tasks, Wait4Lock(t) PROVE ScanInv'
  BY <1>24, <1>a, <1>b, <1>c
     DEF Wait4Lock, At, HartInv, StateInv, InitInv, ForkInv, WakeupNotStale,
         FamilyInv, ScanInv
<1>25. ASSUME NEW t \in Tasks, Wait4Check(t) PROVE ScanInv'
  BY <1>25, <1>a, <1>b, <1>c
     DEF Wait4Check, Reap, SleepOnSelf, Return, SwitchOut, At, HartInv,
         StateInv, InitInv, ForkInv, WakeupNotStale, FamilyInv, ScanInv
<1>26. ASSUME NEW t \in Tasks, SleepPushOff(t) PROVE ScanInv'
  BY <1>26, <1>a, <1>b, <1>c
     DEF SleepPushOff, At, HartInv, StateInv, InitInv, ForkInv, WakeupNotStale,
         FamilyInv, ScanInv
<1>27. ASSUME NEW t \in Tasks, SleepLockTimer(t) PROVE ScanInv'
  BY <1>27, <1>a, <1>b, <1>c
     DEF SleepLockTimer, At, HartInv, StateInv, InitInv, ForkInv,
         WakeupNotStale, FamilyInv, ScanInv
<1>28. ASSUME NEW t \in Tasks, SleepCheck(t) PROVE ScanInv'
  BY <1>28, <1>a, <1>b, <1>c
     DEF SleepCheck, Return, At, HartInv, StateInv, InitInv, ForkInv,
         WakeupNotStale, FamilyInv, ScanInv
<1>29. ASSUME NEW t \in Tasks, SleepOnTicks(t) PROVE ScanInv'
  BY <1>29, <1>a, <1>b, <1>c
     DEF SleepOnTicks, SwitchOut, At, HartInv, StateInv, InitInv, ForkInv,
         WakeupNotStale, FamilyInv, ScanInv
<1>30. ASSUME NEW t \in Tasks, KillSet(t) PROVE ScanInv'
  BY <1>30, <1>a, <1>b, <1>c
     DEF KillSet, Return, At, HartInv, StateInv, InitInv, ForkInv,
         WakeupNotStale, FamilyInv, ScanInv
<1>31. ASSUME NEW t \in Tasks, TimerIntrEnter(t) PROVE ScanInv'
  BY <1>31, <1>a, <1>b, <1>c
     DEF TimerIntrEnter, HartInv, StateInv, InitInv, ForkInv, WakeupNotStale,
         FamilyInv, ScanInv
<1>32. ASSUME NEW t \in Tasks, TimerIntrTask(t) PROVE ScanInv'
  BY <1>32, <1>a, <1>b, <1>c
     DEF TimerIntrTask, CallExit, SwitchOut, WakeTicks, KernelYields, TickLeft,
         HartInv, StateInv, InitInv, ForkInv, WakeupNotStale, FamilyInv, ScanInv
<1>33. ASSUME NEW t \in Tasks, NEW c \in Tasks, SysWait4(t, c) PROVE ScanInv'
  BY <1>33, <1>a, <1>b, <1>c
     DEF SysWait4, Return, Call, HartInv, StateInv, InitInv, ForkInv,
         WakeupNotStale, FamilyInv, ScanInv
<1>34. ASSUME NEW t \in Tasks, NEW n \in SleepTicks, SysSleep(t, n)
      PROVE  ScanInv'
  BY <1>34, <1>a, <1>b, <1>c
     DEF SysSleep, Call, HartInv, StateInv, InitInv, ForkInv, WakeupNotStale,
         FamilyInv, ScanInv
<1>35. ASSUME NEW t \in Tasks, NEW c \in Killable, SysKill(t, c) PROVE ScanInv'
  BY <1>35, <1>a, <1>b, <1>c
     DEF SysKill, Return, Call, HartInv, StateInv, InitInv, ForkInv,
         WakeupNotStale, FamilyInv, ScanInv
<1>36. CASE UNCHANGED vars
  BY <1>36, <1>a
     DEF vars, HartInv, StateInv, InitInv, ForkInv, WakeupNotStale, FamilyInv,
         ScanInv
<1> QED
  BY <1>1, <1>2, <1>3, <1>4, <1>5, <1>6, <1>7, <1>8, <1>9, <1>10, <1>11, <1>12,
     <1>13, <1>14, <1>15, <1>16, <1>17, <1>18, <1>19, <1>20, <1>21, <1>22,
     <1>23, <1>24, <1>25, <1>26, <1>27, <1>28, <1>29, <1>30, <1>31, <1>32,
     <1>33, <1>34, <1>35, <1>36
     DEF Next, Scheduler, UserCall, KernelStep, Hart1Wake

\* An exiting child is on its way to its parent as long as the parent sleeps.
LEMMA ChildStep ==
    ASSUME ~OverlappingForks, IndInv, FamilyInv, ScanInv, ChildExitSeen, [Next]_vars
    PROVE  ChildExitSeen'
<1>a. /\ TypeOK /\ TypeOK' /\ HartInv /\ LockInv /\ StateInv /\ InitInv
      /\ ForkInv /\ WakeupNotStale
  BY TypeStep DEF IndInv
<1>b. /\ NTASK \in Nat /\ NTASK > 1 /\ initTask \in Tasks
      /\ Tasks \subseteq Nat /\ None \notin Nat /\ Ticks \notin Nat
      /\ Killable \subseteq Tasks \ {initTask} /\ SleepTicks \subseteq Nat
  BY SchedAssumption DEF initTask, Tasks
<1>c. /\ \A i \in 0 .. NTASK : i < NTASK => i \in Tasks
      /\ \A i \in Tasks : i < NTASK
  BY <1>b DEF Tasks
<1> USE DEF TypeOK, SleepPcs, IntrOffPcs, OwnLockPcs, TimerLockPcs, ForkPcs,
            taskVars, hartVars, Running
<1>1. CASE SchedulerSkip
  BY <1>1, <1>a, <1>b, <1>c
     DEF SchedulerSkip, HartInv, StateInv, InitInv, ForkInv, WakeupNotStale,
         FamilyInv, ScanInv, ChildExitSeen
<1>2. CASE SchedulerRun
  BY <1>2, <1>a, <1>b, <1>c
     DEF SchedulerRun, HartInv, StateInv, InitInv, ForkInv, WakeupNotStale,
         FamilyInv, ScanInv, ChildExitSeen
<1>3. CASE SchedulerRelease
  BY <1>3, <1>a, <1>b, <1>c
     DEF SchedulerRelease, HartInv, StateInv, InitInv, ForkInv, WakeupNotStale,
         FamilyInv, ScanInv, ChildExitSeen
<1>4. CASE TimerIntrIdle
  BY <1>4, <1>a, <1>b, <1>c
     DEF TimerIntrIdle, WakeTicks, TickLeft, HartInv, StateInv, InitInv,
         ForkInv, WakeupNotStale, FamilyInv, ScanInv, ChildExitSeen
<1>5. CASE Hart1Tick
  BY <1>5, <1>a, <1>b, <1>c
     DEF Hart1Tick, TickLeft, HartInv, StateInv, InitInv, ForkInv,
         WakeupNotStale, FamilyInv, ScanInv, ChildExitSeen
<1>6. CASE Hart1Check
  BY <1>6, <1>a, <1>b, <1>c
     DEF Hart1Check, HartInv, StateInv, InitInv, ForkInv, WakeupNotStale,
         FamilyInv, ScanInv, ChildExitSeen
<1>7. CASE Hart1Set
  BY <1>7, <1>a, <1>b, <1>c
     DEF Hart1Set, HartInv, StateInv, InitInv, ForkInv, WakeupNotStale,
         FamilyInv, ScanInv, ChildExitSeen
<1>8. CASE Hart1Done
  BY <1>8, <1>a, <1>b, <1>c
     DEF Hart1Done, HartInv, StateInv, InitInv, ForkInv, WakeupNotStale,
         FamilyInv, ScanInv, ChildExitSeen
<1>9. ASSUME NEW t \in Tasks, Resume(t) PROVE ChildExitSeen'
  BY <1>9, <1>a, <1>b, <1>c
     DEF Resume, HartInv, StateInv, InitInv, ForkInv, WakeupNotStale, FamilyInv,
         ScanInv, ChildExitSeen
<1>10. ASSUME NEW t \in Tasks, SysYield(t) PROVE ChildExitSeen'
  BY <1>10, <1>a, <1>b, <1>c
     DEF SysYield, SwitchOut, Return, Call, HartInv, StateInv, InitInv, ForkInv,
         WakeupNotStale, FamilyInv, ScanInv, ChildExitSeen
<1>11. ASSUME NEW t \in Tasks, SysFork(t) PROVE ChildExitSeen'
  BY <1>11, <1>a, <1>b, <1>c
     DEF SysFork, Call, HartInv, StateInv, InitInv, ForkInv, WakeupNotStale,
         FamilyInv, ScanInv, ChildExitSeen
<1>12. ASSUME NEW t \in Tasks, SysExit(t) PROVE ChildExitSeen'
  BY <1>12, <1>a, <1>b, <1>c
     DEF SysExit, CallExit, Call, At, HartInv, StateInv, InitInv, ForkInv,
         WakeupNotStale, FamilyInv, ScanInv, ChildExitSeen
<1>13. ASSUME NEW t \in Tasks, SysWait(t) PROVE ChildExitSeen'
  BY <1>13, <1>a, <1>b, <1>c
     DEF SysWait, Call, HartInv, StateInv, InitInv, ForkInv, WakeupNotStale,
         FamilyInv, ScanInv, ChildExitSeen
<1>14. ASSUME NEW t \in Tasks, SysRet(t) PROVE ChildExitSeen'
  BY <1>14, <1>a, <1>b, <1>c
     DEF SysRet, CallExit, At, HartInv, StateInv, InitInv, ForkInv,
         WakeupNotStale, FamilyInv, ScanInv, ChildExitSeen
<1>15. ASSUME NEW t \in Tasks, AllocTask(t) PROVE ChildExitSeen'
  BY <1>15, <1>a, <1>b, <1>c
     DEF AllocTask, Return, At, HartInv, StateInv, InitInv, ForkInv,
         WakeupNotStale, FamilyInv, ScanInv, ChildExitSeen
<1>16. ASSUME NEW t \in Tasks, ForkLink(t) PROVE ChildExitSeen'
  BY <1>16, <1>a, <1>b, <1>c
     DEF ForkLink, At, HartInv, StateInv, InitInv, ForkInv, WakeupNotStale,
         FamilyInv, ScanInv, ChildExitSeen
<1>17. ASSUME NEW t \in Tasks, ForkRun(t) PROVE ChildExitSeen'
  BY <1>17, <1>a, <1>b, <1>c
     DEF ForkRun, Return, At, HartInv, StateInv, InitInv, ForkInv,
         WakeupNotStale, FamilyInv, ScanInv, ChildExitSeen
<1>18. ASSUME NEW t \in Tasks, ExitReparent(t) PROVE ChildExitSeen'
  BY <1>18, <1>a, <1>b, <1>c
     DEF ExitReparent, At, HartInv, StateInv, InitInv, ForkInv, WakeupNotStale,
         FamilyInv, ScanInv, ChildExitSeen
<1>19. ASSUME NEW t \in Tasks, ExitZombie(t) PROVE ChildExitSeen'
  <2>1. /\ cur = t /\ state[t] = "RUNNING"
        /\ state' = [state EXCEPT ![t] = "ZOMBIE"]
        /\ pc' = [pc EXCEPT ![t] = "exit_wake"]
        /\ idx' = [idx EXCEPT ![t] = 0] /\ UNCHANGED <<cur, parent>>
    BY <1>19, <1>a DEF ExitZombie, At, hartVars, StateInv
  <2> SUFFICES ASSUME NEW p \in Tasks \ {initTask}, NEW c \in Tasks,
                      state'[p] = "SLEEPING",
                      \/ pc'[p] = "wait_resume"
                      \/ pc'[p] = "wait4_resume" /\ idx'[p] = c,
                      state'[c] = "ZOMBIE", parent'[c] = p
               PROVE  cur' = c /\ pc'[c] = "exit_wake" /\ idx'[c] <= p
    BY DEF ChildExitSeen
  <2>2. CASE c = t
    BY <2>1, <2>2, <1>a, <1>b
  <2>3. CASE c # t
    BY <2>1, <2>3, <1>a DEF ChildExitSeen, StateInv
  <2> QED
    BY <2>2, <2>3
<1>20. ASSUME NEW t \in Tasks, ExitWake(t) PROVE ChildExitSeen'
  BY <1>20, <1>a, <1>b, <1>c
     DEF ExitWake, At, HartInv, StateInv, InitInv, ForkInv, WakeupNotStale,
         FamilyInv, ScanInv, ChildExitSeen
<1>21. ASSUME NEW t \in Tasks, ExitSched(t) PROVE ChildExitSeen'
  BY <1>21, <1>a, <1>b, <1>c
     DEF ExitSched, SwitchOut, At, HartInv, StateInv, InitInv, ForkInv,
         WakeupNotStale, FamilyInv, ScanInv, ChildExitSeen
<1>22. ASSUME NEW t \in Tasks, WaitScan(t) PROVE ChildExitSeen'
  BY <1>22, <1>a, <1>b, <1>c
     DEF WaitScan, Reap, Return, At, HartInv, StateInv, InitInv, ForkInv,
         WakeupNotStale, FamilyInv, ScanInv, ChildExitSeen
<1>23. ASSUME NEW t \in Tasks, WaitEnd(t) PROVE ChildExitSeen'
  BY <1>23, <1>a, <1>b, <1>c
     DEF WaitEnd, SleepOnSelf, ReturnUnlocked, Return, SwitchOut, At, HartInv,
         StateInv, InitInv, ForkInv, WakeupNotStale, FamilyInv, ScanInv,
         ChildExitSeen
<1>24. ASSUME NEW t \in Tasks, Wait4Lock(t) PROVE ChildExitSeen'
  BY <1>24, <1>a, <1>b, <1>c
     DEF Wait4Lock, At, HartInv, StateInv, InitInv, ForkInv, WakeupNotStale,
         FamilyInv, ScanInv, ChildExitSeen
<1>25. ASSUME NEW t \in Tasks, Wait4Check(t) PROVE ChildExitSeen'
  BY <1>25, <1>a, <1>b, <1>c
     DEF Wait4Check, Reap, SleepOnSelf, Return, SwitchOut, At, HartInv,
         StateInv, InitInv, ForkInv, WakeupNotStale, FamilyInv, ScanInv,
         ChildExitSeen
<1>26. ASSUME NEW t \in Tasks, SleepPushOff(t) PROVE ChildExitSeen'
  BY <1>26, <1>a, <1>b, <1>c
     DEF SleepPushOff, At, HartInv, StateInv, InitInv, ForkInv, WakeupNotStale,
         FamilyInv, ScanInv, ChildExitSeen
<1>27. ASSUME NEW t \in Tasks, SleepLockTimer(t) PROVE ChildExitSeen'
  BY <1>27, <1>a, <1>b, <1>c
     DEF SleepLockTimer, At, HartInv, StateInv, InitInv, ForkInv,
         WakeupNotStale, FamilyInv, ScanInv, ChildExitSeen
<1>28. ASSUME NEW t \in Tasks, SleepCheck(t) PROVE ChildExitSeen'
  BY <1>28, <1>a, <1>b, <1>c
     DEF SleepCheck, Return, At, HartInv, StateInv, InitInv, ForkInv,
         WakeupNotStale, FamilyInv, ScanInv, ChildExitSeen
<1>29. ASSUME NEW t \in Tasks, SleepOnTicks(t) PROVE ChildExitSeen'
  BY <1>29, <1>a, <1>b, <1>c
     DEF SleepOnTicks, SwitchOut, At, HartInv, StateInv, InitInv, ForkInv,
         WakeupNotStale, FamilyInv, ScanInv, ChildExitSeen
<1>30. ASSUME NEW t \in Tasks, KillSet(t) PROVE ChildExitSeen'
  BY <1>30, <1>a, <1>b, <1>c
     DEF KillSet, Return, At, HartInv, StateInv, InitInv, ForkInv,
         WakeupNotStale, FamilyInv, ScanInv, ChildExitSeen
<1>31. ASSUME NEW t \in Tasks, TimerIntrEnter(t) PROVE ChildExitSeen'
  BY <1>31, <1>a, <1>b, <1>c
     DEF TimerIntrEnter, HartInv, StateInv, InitInv, ForkInv, WakeupNotStale,
         FamilyInv, ScanInv, ChildExitSeen
<1>32. ASSUME NEW t \in Tasks, TimerIntrTask(t) PROVE ChildExitSeen'
  <2>1. /\ sched = "intr" /\ cur = t /\ h1.pc = "idle" /\ left' = TickLeft
        /\ UNCHANGED <<parent, chan, killed, have, cur, h1>>
    BY <1>32, <1>a DEF TimerIntrTask, LockInv
  <2>2. CASE pc[t] = "user" /\ killed[t]
    <3>1. /\ state' = WakeTicks /\ sched' = "running"
          /\ pc' = [pc EXCEPT ![t] = "exit_reparent"] /\ idx' = [idx EXCEPT ![t] = 0]
      BY <1>32, <2>2 DEF TimerIntrTask, CallExit
    <3> QED
      BY <2>1, <2>2, <3>1, <1>a, <1>b
         DEF WakeTicks, TickLeft, HartInv, StateInv, InitInv, ForkInv,
             WakeupNotStale, FamilyInv, ScanInv, ChildExitSeen
  <2>3. CASE ~(pc[t] = "user" /\ killed[t]) /\ (pc[t] = "user" \/ KernelYields(t))
    <3>1. /\ state' = [WakeTicks EXCEPT ![t] = "RUNNABLE"] /\ sched' = "release"
          /\ UNCHANGED <<pc, idx>>
      BY <1>32, <2>3 DEF TimerIntrTask, SwitchOut
    <3>2. state[t] = "RUNNING"
      BY <2>1, <2>3, <1>a DEF KernelYields, StateInv
    <3> QED
      BY <2>1, <3>1, <3>2, <1>a, <1>b
         DEF WakeTicks, TickLeft, HartInv, StateInv, InitInv, ForkInv,
             WakeupNotStale, FamilyInv, ScanInv, ChildExitSeen
  <2>4. CASE pc[t] # "user" /\ ~KernelYields(t)
    <3>1. state' = WakeTicks /\ sched' = "running" /\ UNCHANGED <<pc, idx>>
      BY <1>32, <2>4 DEF TimerIntrTask
    <3> QED
      BY <2>1, <3>1, <1>a, <1>b
         DEF WakeTicks, TickLeft, HartInv, StateInv, InitInv, ForkInv,
             WakeupNotStale, FamilyInv, ScanInv, ChildExitSeen
  <2> QED
    BY <2>2, <2>3, <2>4
<1>33. ASSUME NEW t \in Tasks, NEW c \in Tasks, SysWait4(t, c)
      PROVE  ChildExitSeen'
  BY <1>33, <1>a, <1>b, <1>c
     DEF SysWait4, Return, Call, HartInv, StateInv, InitInv, ForkInv,
         WakeupNotStale, FamilyInv, ScanInv, ChildExitSeen
<1>34. ASSUME NEW t \in Tasks, NEW n \in SleepTicks, SysSleep(t, n)
      PROVE  ChildExitSeen'
  BY <1>34, <1>a, <1>b, <1>c
     DEF SysSleep, Call, HartInv, StateInv, InitInv, ForkInv, WakeupNotStale,
         FamilyInv, ScanInv, ChildExitSeen
<1>35. ASSUME NEW t \in Tasks, NEW c \in Killable, SysKill(t, c)
      PROVE  ChildExitSeen'
  BY <1>35, <1>a, <1>b, <1>c
     DEF SysKill, Return, Call, HartInv, StateInv, InitInv, ForkInv,
         WakeupNotStale, FamilyInv, ScanInv, ChildExitSeen
<1>36. CASE UNCHANGED vars
  BY <1>36, <1>a
     DEF vars, HartInv, StateInv, InitInv, ForkInv, WakeupNotStale, FamilyInv,
         ScanInv, ChildExitSeen
<1> QED
  BY <1>1, <1>2, <1>3, <1>4, <1>5, <1>6, <1>7, <1>8, <1>9, <1>10, <1>11, <1>12,
     <1>13, <1>14, <1>15, <1>16, <1>17, <1>18, <1>19, <1>20, <1>21, <1>22,
     <1>23, <1>24, <1>25, <1>26, <1>27, <1>28, <1>29, <1>30, <1>31, <1>32,
     <1>33, <1>34, <1>35, <1>36
     DEF Next, Scheduler, UserCall, KernelStep, Hart1Wake

\* Every step keeps the deadlines: the tick of either hart, the test, and the
\* sleep.
LEMMA TickStep ==
    ASSUME ~OverlappingForks, IndInv, DeadlineInv, TickSeen, [Next]_vars
    PROVE  DeadlineInv' /\ TickSeen'
<1>a. /\ TypeOK /\ TypeOK' /\ HartInv /\ LockInv /\ StateInv /\ InitInv
      /\ ForkInv /\ WakeupNotStale
  BY TypeStep DEF IndInv
<1>b. /\ NTASK \in Nat /\ NTASK > 1 /\ initTask \in Tasks
      /\ Tasks \subseteq Nat /\ None \notin Nat /\ Ticks \notin Nat
      /\ Killable \subseteq Tasks \ {initTask} /\ SleepTicks \subseteq Nat
  BY SchedAssumption DEF initTask, Tasks
<1>c. /\ \A i \in 0 .. NTASK : i < NTASK => i \in Tasks
      /\ \A i \in Tasks : i < NTASK
  BY <1>b DEF Tasks
<1> USE DEF TypeOK, SleepPcs, IntrOffPcs, OwnLockPcs, TimerLockPcs, ForkPcs,
            taskVars, hartVars, Running
<1>1. CASE SchedulerSkip
  BY <1>1, <1>a, <1>b, <1>c
     DEF SchedulerSkip, HartInv, LockInv, StateInv, WakeupNotStale, ForkInv,
         InitInv, DeadlineInv, TickSeen
<1>2. CASE SchedulerRun
  BY <1>2, <1>a, <1>b, <1>c
     DEF SchedulerRun, HartInv, LockInv, StateInv, WakeupNotStale, ForkInv,
         InitInv, DeadlineInv, TickSeen
<1>3. CASE SchedulerRelease
  BY <1>3, <1>a, <1>b, <1>c
     DEF SchedulerRelease, HartInv, LockInv, StateInv, WakeupNotStale, ForkInv,
         InitInv, DeadlineInv, TickSeen
<1>4. CASE TimerIntrIdle
  BY <1>4, <1>a, <1>b, <1>c
     DEF TimerIntrIdle, WakeTicks, TickLeft, HartInv, LockInv, StateInv,
         WakeupNotStale, ForkInv, InitInv, DeadlineInv, TickSeen
<1>5. CASE Hart1Tick
  BY <1>5, <1>a, <1>b, <1>c
     DEF Hart1Tick, TickLeft, HartInv, LockInv, StateInv, WakeupNotStale,
         ForkInv, InitInv, DeadlineInv, TickSeen
<1>6. CASE Hart1Check
  <2>1. CASE state[h1.i] = "SLEEPING" /\ chan[h1.i] = Ticks
    <3>1. h1' = [h1 EXCEPT !.pc = "set"] /\ UNCHANGED <<state, chan, left, pc>>
      BY <1>6, <2>1 DEF Hart1Check
    <3> QED
      BY <3>1, <1>a DEF DeadlineInv, TickSeen
  <2>2. CASE ~(state[h1.i] = "SLEEPING" /\ chan[h1.i] = Ticks)
    <3>1. /\ h1.pc = "wake" /\ h1' = [h1 EXCEPT !.i = h1.i + 1]
          /\ UNCHANGED <<state, chan, left, pc>>
      BY <1>6, <2>2 DEF Hart1Check
    <3>2. h1'.pc = "wake" /\ h1'.i = h1.i + 1 /\ h1.i \in Nat
      BY <3>1, <1>a, <1>b
    <3> QED
      BY <2>2, <3>1, <3>2, <1>a, <1>b DEF DeadlineInv, TickSeen
  <2> QED
    BY <2>1, <2>2
<1>7. CASE Hart1Set
  BY <1>7, <1>a, <1>b, <1>c
     DEF Hart1Set, HartInv, LockInv, StateInv, WakeupNotStale, ForkInv, InitInv,
         DeadlineInv, TickSeen
<1>8. CASE Hart1Done
  BY <1>8, <1>a, <1>b, <1>c
     DEF Hart1Done, HartInv, LockInv, StateInv, WakeupNotStale, ForkInv,
         InitInv, DeadlineInv, TickSeen
<1>9. ASSUME NEW t \in Tasks, Resume(t) PROVE DeadlineInv' /\ TickSeen'
  BY <1>9, <1>a, <1>b, <1>c
     DEF Resume, HartInv, LockInv, StateInv, WakeupNotStale, ForkInv, InitInv,
         DeadlineInv, TickSeen
<1>10. ASSUME NEW t \in Tasks, SysYield(t) PROVE DeadlineInv' /\ TickSeen'
  BY <1>10, <1>a, <1>b, <1>c
     DEF SysYield, SwitchOut, Return, Call, HartInv, LockInv, StateInv,
         WakeupNotStale, ForkInv, InitInv, DeadlineInv, TickSeen
<1>11. ASSUME NEW t \in Tasks, SysFork(t) PROVE DeadlineInv' /\ TickSeen'
  BY <1>11, <1>a, <1>b, <1>c
     DEF SysFork, Call, HartInv, LockInv, StateInv, WakeupNotStale, ForkInv,
         InitInv, DeadlineInv, TickSeen
<1>12. ASSUME NEW t \in Tasks, SysExit(t) PROVE DeadlineInv' /\ TickSeen'
  BY <1>12, <1>a, <1>b, <1>c
     DEF SysExit, CallExit, Call, At, HartInv, LockInv, StateInv,
         WakeupNotStale, ForkInv, InitInv, DeadlineInv, TickSeen
<1>13. ASSUME NEW t \in Tasks, SysWait(t) PROVE DeadlineInv' /\ TickSeen'
  BY <1>13, <1>a, <1>b, <1>c
     DEF SysWait, Call, HartInv, LockInv, StateInv, WakeupNotStale, ForkInv,
         InitInv, DeadlineInv, TickSeen
<1>14. ASSUME NEW t \in Tasks, SysRet(t) PROVE DeadlineInv' /\ TickSeen'
  BY <1>14, <1>a, <1>b, <1>c
     DEF SysRet, CallExit, At, HartInv, LockInv, StateInv, WakeupNotStale,
         ForkInv, InitInv, DeadlineInv, TickSeen
<1>15. ASSUME NEW t \in Tasks, AllocTask(t) PROVE DeadlineInv' /\ TickSeen'
  BY <1>15, <1>a, <1>b, <1>c
     DEF AllocTask, Return, At, HartInv, LockInv, StateInv, WakeupNotStale,
         ForkInv, InitInv, DeadlineInv, TickSeen
<1>16. ASSUME NEW t \in Tasks, ForkLink(t) PROVE DeadlineInv' /\ TickSeen'
  BY <1>16, <1>a, <1>b, <1>c
     DEF ForkLink, At, HartInv, LockInv, StateInv, WakeupNotStale, ForkInv,
         InitInv, DeadlineInv, TickSeen
<1>17. ASSUME NEW t \in Tasks, ForkRun(t) PROVE DeadlineInv' /\ TickSeen'
  BY <1>17, <1>a, <1>b, <1>c
     DEF ForkRun, Return, At, HartInv, LockInv, StateInv, WakeupNotStale,
         ForkInv, InitInv, DeadlineInv, TickSeen
<1>18. ASSUME NEW t \in Tasks, ExitReparent(t) PROVE DeadlineInv' /\ TickSeen'
  BY <1>18, <1>a, <1>b, <1>c
     DEF ExitReparent, At, HartInv, LockInv, StateInv, WakeupNotStale, ForkInv,
         InitInv, DeadlineInv, TickSeen
<1>19. ASSUME NEW t \in Tasks, ExitZombie(t) PROVE DeadlineInv' /\ TickSeen'
  BY <1>19, <1>a, <1>b, <1>c
     DEF ExitZombie, At, HartInv, LockInv, StateInv, WakeupNotStale, ForkInv,
         InitInv, DeadlineInv, TickSeen
<1>20. ASSUME NEW t \in Tasks, ExitWake(t) PROVE DeadlineInv' /\ TickSeen'
  BY <1>20, <1>a, <1>b, <1>c
     DEF ExitWake, At, HartInv, LockInv, StateInv, WakeupNotStale, ForkInv,
         InitInv, DeadlineInv, TickSeen
<1>21. ASSUME NEW t \in Tasks, ExitSched(t) PROVE DeadlineInv' /\ TickSeen'
  BY <1>21, <1>a, <1>b, <1>c
     DEF ExitSched, SwitchOut, At, HartInv, LockInv, StateInv, WakeupNotStale,
         ForkInv, InitInv, DeadlineInv, TickSeen
<1>22. ASSUME NEW t \in Tasks, WaitScan(t) PROVE DeadlineInv' /\ TickSeen'
  BY <1>22, <1>a, <1>b, <1>c
     DEF WaitScan, Reap, Return, At, HartInv, LockInv, StateInv, WakeupNotStale,
         ForkInv, InitInv, DeadlineInv, TickSeen
<1>23. ASSUME NEW t \in Tasks, WaitEnd(t) PROVE DeadlineInv' /\ TickSeen'
  BY <1>23, <1>a, <1>b, <1>c
     DEF WaitEnd, SleepOnSelf, ReturnUnlocked, Return, SwitchOut, At, HartInv,
         LockInv, StateInv, WakeupNotStale, ForkInv, InitInv, DeadlineInv,
         TickSeen
<1>24. ASSUME NEW t \in Tasks, Wait4Lock(t) PROVE DeadlineInv' /\ TickSeen'
  BY <1>24, <1>a, <1>b, <1>c
     DEF Wait4Lock, At, HartInv, LockInv, StateInv, WakeupNotStale, ForkInv,
         InitInv, DeadlineInv, TickSeen
<1>25. ASSUME NEW t \in Tasks, Wait4Check(t) PROVE DeadlineInv' /\ TickSeen'
  BY <1>25, <1>a, <1>b, <1>c
     DEF Wait4Check, Reap, SleepOnSelf, Return, SwitchOut, At, HartInv, LockInv,
         StateInv, WakeupNotStale, ForkInv, InitInv, DeadlineInv, TickSeen
<1>26. ASSUME NEW t \in Tasks, SleepPushOff(t) PROVE DeadlineInv' /\ TickSeen'
  BY <1>26, <1>a, <1>b, <1>c
     DEF SleepPushOff, At, HartInv, LockInv, StateInv, WakeupNotStale, ForkInv,
         InitInv, DeadlineInv, TickSeen
<1>27. ASSUME NEW t \in Tasks, SleepLockTimer(t) PROVE DeadlineInv' /\ TickSeen'
  BY <1>27, <1>a, <1>b, <1>c
     DEF SleepLockTimer, At, HartInv, LockInv, StateInv, WakeupNotStale,
         ForkInv, InitInv, DeadlineInv, TickSeen
<1>28. ASSUME NEW t \in Tasks, SleepCheck(t) PROVE DeadlineInv' /\ TickSeen'
  BY <1>28, <1>a, <1>b, <1>c
     DEF SleepCheck, Return, At, HartInv, LockInv, StateInv, WakeupNotStale,
         ForkInv, InitInv, DeadlineInv, TickSeen
<1>29. ASSUME NEW t \in Tasks, SleepOnTicks(t) PROVE DeadlineInv' /\ TickSeen'
  BY <1>29, <1>a, <1>b, <1>c
     DEF SleepOnTicks, SwitchOut, At, HartInv, LockInv, StateInv,
         WakeupNotStale, ForkInv, InitInv, DeadlineInv, TickSeen
<1>30. ASSUME NEW t \in Tasks, KillSet(t) PROVE DeadlineInv' /\ TickSeen'
  BY <1>30, <1>a, <1>b, <1>c
     DEF KillSet, Return, At, HartInv, LockInv, StateInv, WakeupNotStale,
         ForkInv, InitInv, DeadlineInv, TickSeen
<1>31. ASSUME NEW t \in Tasks, TimerIntrEnter(t) PROVE DeadlineInv' /\ TickSeen'
  BY <1>31, <1>a, <1>b, <1>c
     DEF TimerIntrEnter, HartInv, LockInv, StateInv, WakeupNotStale, ForkInv,
         InitInv, DeadlineInv, TickSeen
<1>32. ASSUME NEW t \in Tasks, TimerIntrTask(t) PROVE DeadlineInv' /\ TickSeen'
  <2>1. /\ sched = "intr" /\ cur = t /\ h1.pc = "idle" /\ left' = TickLeft
        /\ UNCHANGED <<parent, chan, killed, have, cur, h1>>
    BY <1>32, <1>a DEF TimerIntrTask, LockInv
  <2>2. CASE pc[t] = "user" /\ killed[t]
    <3>1. /\ state' = WakeTicks /\ sched' = "running"
          /\ pc' = [pc EXCEPT ![t] = "exit_reparent"] /\ idx' = [idx EXCEPT ![t] = 0]
      BY <1>32, <2>2 DEF TimerIntrTask, CallExit
    <3> QED
      BY <2>1, <2>2, <3>1, <1>a, <1>b
         DEF WakeTicks, TickLeft, HartInv, StateInv, WakeupNotStale, ForkInv,
             InitInv, DeadlineInv, TickSeen
  <2>3. CASE ~(pc[t] = "user" /\ killed[t]) /\ (pc[t] = "user" \/ KernelYields(t))
    <3>1. /\ state' = [WakeTicks EXCEPT ![t] = "RUNNABLE"] /\ sched' = "release"
          /\ UNCHANGED <<pc, idx>>
      BY <1>32, <2>3 DEF TimerIntrTask, SwitchOut
    <3>2. state[t] = "RUNNING"
      BY <2>1, <2>3, <1>a DEF KernelYields, StateInv
    <3> QED
      BY <2>1, <3>1, <3>2, <1>a, <1>b
         DEF WakeTicks, TickLeft, HartInv, StateInv, WakeupNotStale, ForkInv,
             InitInv, DeadlineInv, TickSeen
  <2>4. CASE pc[t] # "user" /\ ~KernelYields(t)
    <3>1. state' = WakeTicks /\ sched' = "running" /\ UNCHANGED <<pc, idx>>
      BY <1>32, <2>4 DEF TimerIntrTask
    <3> QED
      BY <2>1, <3>1, <1>a, <1>b
         DEF WakeTicks, TickLeft, HartInv, StateInv, WakeupNotStale, ForkInv,
             InitInv, DeadlineInv, TickSeen
  <2> QED
    BY <2>2, <2>3, <2>4
<1>33. ASSUME NEW t \in Tasks, NEW c \in Tasks, SysWait4(t, c)
      PROVE  DeadlineInv' /\ TickSeen'
  BY <1>33, <1>a, <1>b, <1>c
     DEF SysWait4, Return, Call, HartInv, LockInv, StateInv, WakeupNotStale,
         ForkInv, InitInv, DeadlineInv, TickSeen
<1>34. ASSUME NEW t \in Tasks, NEW n \in SleepTicks, SysSleep(t, n)
      PROVE  DeadlineInv' /\ TickSeen'
  BY <1>34, <1>a, <1>b, <1>c
     DEF SysSleep, Call, HartInv, LockInv, StateInv, WakeupNotStale, ForkInv,
         InitInv, DeadlineInv, TickSeen
<1>35. ASSUME NEW t \in Tasks, NEW c \in Killable, SysKill(t, c)
      PROVE  DeadlineInv' /\ TickSeen'
  BY <1>35, <1>a, <1>b, <1>c
     DEF SysKill, Return, Call, HartInv, LockInv, StateInv, WakeupNotStale,
         ForkInv, InitInv, DeadlineInv, TickSeen
<1>36. CASE UNCHANGED vars
  BY <1>36, <1>a
     DEF vars, HartInv, LockInv, StateInv, WakeupNotStale, ForkInv, InitInv,
         DeadlineInv, TickSeen
<1> QED
  BY <1>1, <1>2, <1>3, <1>4, <1>5, <1>6, <1>7, <1>8, <1>9, <1>10, <1>11, <1>12,
     <1>13, <1>14, <1>15, <1>16, <1>17, <1>18, <1>19, <1>20, <1>21, <1>22,
     <1>23, <1>24, <1>25, <1>26, <1>27, <1>28, <1>29, <1>30, <1>31, <1>32,
     <1>33, <1>34, <1>35, <1>36
     DEF Next, Scheduler, UserCall, KernelStep, Hart1Wake

-----------------------------------------------------------------------------
(* The theorems.                                                           *)

\* The invariant holds at boot.
LEMMA IndInit == ASSUME ~OverlappingForks PROVE Init => IndInv
<1> SUFFICES ASSUME Init PROVE IndInv
  OBVIOUS
<1>1. initTask \in Tasks /\ None \notin Nat /\ Tasks \subseteq Nat
  BY SchedAssumption DEF initTask, Tasks
<1>2. TypeOK
  BY TypeInit
<1>3. HartInv /\ LockInv /\ StateInv /\ InitInv /\ ForkInv /\ WakeupNotStale
  BY <1>1, <1>2
     DEF Init, HartInv, LockInv, StateInv, InitInv, ForkInv, WakeupNotStale,
         IntrOffPcs, OwnLockPcs, TimerLockPcs, ForkPcs
<1> QED
  BY <1>2, <1>3 DEF IndInv

\* The invariant is inductive.
LEMMA IndStep == ASSUME ~OverlappingForks PROVE IndInv /\ [Next]_vars => IndInv'
<1> SUFFICES ASSUME IndInv, [Next]_vars PROVE IndInv'
  OBVIOUS
<1>1. TypeOK'
  BY TypeStep DEF IndInv
<1> QED
  BY <1>1, HartStep, StateStep, ForkStep, StaleStep DEF IndInv

\* The task table and the variables of the two harts are well typed: no loop
\* index leaves the table, whatever its size.
THEOREM TypeCorrect == ASSUME ~OverlappingForks PROVE Spec => []TypeOK
<1>1. IndInv => TypeOK
  BY DEF IndInv
<1> QED
  BY <1>1, IndInit, IndStep, PTL DEF Spec

\* prepareSched never panics: a task switches out with its own lock only.
THEOREM SwitchesSafely == ASSUME ~OverlappingForks
      PROVE  Spec => []SwitchDiscipline
<1>1. IndInv => SwitchDiscipline
  <2> SUFFICES ASSUME IndInv, sched = "release"
               PROVE  /\ {t \in Tasks : lock[t] = "h0"} = {cur}
                      /\ timerLock # "h0"
                      /\ state[cur] # "RUNNING"
    BY DEF SwitchDiscipline
  <2>1. cur \in Tasks
    BY DEF IndInv, TypeOK, HartInv
  <2>2. \A t \in Tasks : lock[t] = "h0" <=> cur = t
    BY DEF IndInv, LockInv, HartInv, Running, IntrOffPcs
  <2>3. timerLock # "h0"
    BY DEF IndInv, LockInv, HartInv, Running, IntrOffPcs
  <2>4. state[cur] # "RUNNING"
    BY <2>1 DEF IndInv, StateInv
  <2> QED
    BY <2>1, <2>2, <2>3, <2>4
<1> QED
  BY <1>1, IndInit, IndStep, PTL DEF Spec

\* c->task and Task::state agree on who runs.
THEOREM RunsWhoIsRunning == ASSUME ~OverlappingForks
      PROVE  Spec => []RunningIsCurrent
<1>1. IndInv => RunningIsCurrent
  BY DEF IndInv, StateInv, RunningIsCurrent
<1> QED
  BY <1>1, IndInit, IndStep, PTL DEF Spec

\* Hart 1's wakeup stores RUNNABLE in a task that still sleeps.
THEOREM WakesSleepers == ASSUME ~OverlappingForks PROVE Spec => []WakeupNotStale
<1>1. IndInv => WakeupNotStale
  BY DEF IndInv
<1> QED
  BY <1>1, IndInit, IndStep, PTL DEF Spec

\* A zombie is never run again, and freed only when it has left its stack.
THEOREM ZombiesStay == ASSUME ~OverlappingForks PROVE Spec => ZombieStays
<1> DEFINE Stays == \A t \in Tasks : state[t] = "ZOMBIE" =>
                        \/ state'[t] = "ZOMBIE"
                        \/ state'[t] = "UNUSED" /\ pc[t] = "dead" /\ cur # t
<1>1. IndInv /\ [Next]_vars => [Stays]_vars
  <2> SUFFICES ASSUME IndInv, Next PROVE Stays
    OBVIOUS
  <2>a. TypeOK /\ HartInv /\ LockInv /\ StateInv /\ InitInv /\ ForkInv /\ WakeupNotStale
    BY DEF IndInv
  <2>b. initTask \in Tasks /\ None \notin Nat /\ Tasks \subseteq Nat
    BY SchedAssumption DEF initTask, Tasks
  <2> USE DEF TypeOK, HartInv, StateInv, taskVars, hartVars, Running
  <2>1. CASE SchedulerRelease \/ Hart1Tick \/ Hart1Check \/ Hart1Done
    BY <2>1 DEF SchedulerRelease, Hart1Tick, Hart1Check, Hart1Done
  <2>2. CASE SchedulerSkip
    BY <2>2, <2>a, <2>b DEF SchedulerSkip, InitInv
  <2>3. CASE SchedulerRun
    BY <2>3, <2>a, <2>b DEF SchedulerRun
  <2>4. CASE Hart1Set
    BY <2>4, <2>a, <2>b DEF Hart1Set, WakeupNotStale
  <2>5. CASE TimerIntrIdle
    BY <2>5, <2>a, <2>b DEF TimerIntrIdle, WakeTicks
  <2>6. ASSUME NEW t \in Tasks,
             \/ Resume(t) \/ SysRet(t) \/ SysFork(t) \/ SysExit(t) \/ SysWait(t)
             \/ AllocTask(t) \/ ForkLink(t) \/ ExitReparent(t) \/ ExitSched(t)
             \/ Wait4Lock(t)
             \/ SleepPushOff(t) \/ SleepLockTimer(t) \/ SleepCheck(t) \/ KillSet(t)
             \/ TimerIntrEnter(t)
             \/ (\E c \in Tasks : SysWait4(t, c)) \/ (\E c \in Killable : SysKill(t, c))
             \/ \E k \in SleepTicks : SysSleep(t, k)
       PROVE  Stays
    BY <2>6
       DEF Resume, SysRet, SysFork, SysExit, SysWait, AllocTask, ForkLink,
           ExitReparent, ExitSched, Wait4Lock, SleepPushOff, SleepLockTimer,
           SleepCheck, KillSet, TimerIntrEnter, SysWait4, SysKill, SysSleep
  <2>7. ASSUME NEW t \in Tasks, SysYield(t) PROVE Stays
    BY <2>7, <2>a, <2>b DEF SysYield, Call
  <2>8. ASSUME NEW t \in Tasks, ForkRun(t) PROVE Stays
    BY <2>8, <2>a, <2>b DEF ForkRun, At, ForkInv
  <2>9. ASSUME NEW t \in Tasks, ExitZombie(t) PROVE Stays
    BY <2>9, <2>a, <2>b DEF ExitZombie, At
  <2>10. ASSUME NEW t \in Tasks, ExitWake(t) PROVE Stays
    BY <2>10, <2>a, <2>b DEF ExitWake, At
  <2>11. ASSUME NEW t \in Tasks, WaitEnd(t) PROVE Stays
    BY <2>11, <2>a, <2>b DEF WaitEnd, At, SleepOnSelf
  <2>12. ASSUME NEW t \in Tasks, SleepOnTicks(t) PROVE Stays
    BY <2>12, <2>a, <2>b DEF SleepOnTicks, At
  <2>13. ASSUME NEW t \in Tasks, TimerIntrTask(t) PROVE Stays
    <3>1. sched = "intr" /\ cur = t
      BY <2>13 DEF TimerIntrTask
    <3>2. state' = WakeTicks \/ state' = [WakeTicks EXCEPT ![t] = "RUNNABLE"]
      BY <2>13 DEF TimerIntrTask
    <3>3. state[t] = "ZOMBIE" => state' = WakeTicks
      <4>1. state[t] = "ZOMBIE" => pc[t] # "user" /\ ~KernelYields(t)
        BY <2>a DEF KernelYields
      <4> QED
        BY <2>13, <4>1 DEF TimerIntrTask
    <3> SUFFICES ASSUME NEW u \in Tasks, state[u] = "ZOMBIE"
                 PROVE  state'[u] = "ZOMBIE"
      OBVIOUS
    <3>4. WakeTicks[u] = "ZOMBIE"
      BY DEF WakeTicks
    <3>5. CASE u = t
      BY <3>3, <3>4, <3>5
    <3>6. CASE u # t
      <4>1. state'[u] = WakeTicks[u]
        BY <3>2, <3>6 DEF WakeTicks
      <4> QED
        BY <4>1, <3>4
    <3> QED
      BY <3>5, <3>6
  <2>14. ASSUME NEW t \in Tasks, WaitScan(t) PROVE Stays
    BY <2>14, <2>a, <2>b DEF WaitScan, At, Reap
  <2>15. ASSUME NEW t \in Tasks, Wait4Check(t) PROVE Stays
    BY <2>15, <2>a, <2>b DEF Wait4Check, At, Reap, SleepOnSelf
  <2> QED
    BY <2>1, <2>2, <2>3, <2>4, <2>5, <2>6, <2>7, <2>8, <2>9, <2>10, <2>11,
       <2>12, <2>13, <2>14, <2>15
       DEF Next, Scheduler, UserCall, KernelStep, Hart1Wake
<1> QED
  BY <1>1, IndInit, IndStep, PTL DEF Spec, ZombieStays

\* A live task has a live parent, through the preemptible loop of exit.
THEOREM ParentsAlive == ASSUME ~OverlappingForks PROVE Spec => []ParentAlive
<1>1. Init => FamilyInv
  BY SchedAssumption DEF Init, FamilyInv, Tasks
<1>2. IndInv /\ FamilyInv /\ [Next]_vars => FamilyInv'
  BY FamilyStep
<1>3. FamilyInv => ParentAlive
  BY DEF FamilyInv, ParentAlive
<1> QED
  BY <1>1, <1>2, <1>3, IndInit, IndStep, PTL DEF Spec

\* exit and wait never miss each other.
THEOREM ChildExitsSeen == ASSUME ~OverlappingForks PROVE Spec => []ChildExitSeen
<1>1. Init => FamilyInv /\ ScanInv /\ ChildExitSeen
  BY SchedAssumption DEF Init, FamilyInv, ScanInv, ChildExitSeen, Tasks
<1>2. IndInv /\ FamilyInv /\ [Next]_vars => FamilyInv'
  BY FamilyStep
<1>3. IndInv /\ FamilyInv /\ ScanInv /\ [Next]_vars => ScanInv'
  BY ScanStep
<1>4. IndInv /\ FamilyInv /\ ScanInv /\ ChildExitSeen /\ [Next]_vars => ChildExitSeen'
  BY ChildStep
<1> QED
  BY <1>1, <1>2, <1>3, <1>4, IndInit, IndStep, PTL DEF Spec

\* sleepTime never sleeps through its deadline: no tick is lost between the
\* test of the deadline and the switch, on one hart or two.
THEOREM TicksSeen == ASSUME ~OverlappingForks PROVE Spec => []TickSeen
<1>1. Init => DeadlineInv /\ TickSeen
  BY DEF Init, DeadlineInv, TickSeen
<1>2. IndInv /\ DeadlineInv /\ TickSeen /\ [Next]_vars => DeadlineInv' /\ TickSeen'
  BY TickStep
<1> QED
  BY <1>1, <1>2, IndInit, IndStep, PTL DEF Spec

=============================================================================
