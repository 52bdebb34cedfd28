------------------------------ MODULE UserTask ------------------------------
(***************************************************************************)
(* The user-task scheduler of EYN-OS: the task table, the three-level run  *)
(* queue, launch, blocking, wake-up, signals, exit and reaping             *)
(* (src/src/cpu/user_elf.c), with the kernel paths that drive it: the      *)
(* system calls (src/src/cpu/isr.c), the timer interrupt                   *)
(* (src/src/cpu/irq.c, sched.c) and the continuation that runs after a     *)
(* task has ended (src/src/utilities/util.c).                              *)
(*                                                                         *)
(* There is one CPU.  `mode' says what it executes: the shell loop, ring   *)
(* 3, one of the kernel paths that can be interrupted, or a blocked system *)
(* call that waits in hlt.  IRQ0 may arrive in every mode.                 *)
(***************************************************************************)
EXTENDS Naturals, FiniteSets

CONSTANTS
    USER_TASK_MAX,   \* slots of g_user_tasks
    MaxPid,          \* bound: pids handed out before spawning stops
    BoostInterval,   \* g_mlfq_boost_interval_ticks
    Quantum,         \* g_mlfq_quantum_ticks, by level
    IrqPreempt,      \* CONFIG_SCHED_MLFQ_IRQ_PREEMPT
    TickUs,          \* microseconds per tick
    UintMod,         \* 2^32, scaled down
    SleepArgs,       \* microseconds a program may ask SLEEP_US for
    LoadOutcomes,    \* how user_elf_run_argv may end
    Calls,           \* system calls the programs use
    Signals,         \* signals they send
    CtrlC            \* whether Ctrl-C is ever typed

Levels == 0..2
SCHED_MLFQ_LEVEL_LOW == 0
SCHED_MLFQ_LEVEL_HIGH == 2
Slots == 1..USER_TASK_MAX
NoSlot == 0
Pids == 1..MaxPid
AllCalls == {"spawn", "waitpid", "nohang", "sleep", "gui", "kill",
             "signal", "execve"}

ASSUME SizesAssumption ==
    /\ USER_TASK_MAX \in Nat \ {0} /\ MaxPid \in Nat \ {0}
    /\ BoostInterval \in Nat \ {0}
    /\ TickUs \in Nat \ {0} /\ UintMod \in Nat \ {0}
ASSUME QuantumAssumption == Quantum \in [Levels -> Nat \ {0}]
ASSUME InputsAssumption ==
    /\ IrqPreempt \in BOOLEAN /\ CtrlC \in BOOLEAN
    /\ SleepArgs \subseteq 0..(UintMod - 1)
    /\ LoadOutcomes \subseteq {"ok", "early", "late"}
    /\ Calls \subseteq AllCalls
    /\ Signals \subseteq {"INT", "KILL", "CHLD"}

States == {"UNUSED", "RUNNABLE", "RUNNING", "BLOCKED", "ZOMBIE"}
Reasons == {"NONE", "SLEEP", "WAITPID", "GUI"}
Modes == {"shell", "user", "ret", "sleep", "gsleep", "gui", "wait",
          "sched", "load", "map", "abort", "preempt"}
\* Where user_task_continue_or_schedule returns to when nothing was entered.
Returns == {"none", "shell", "poll", "gpoll", "ret", "wait", "abort"}

VARIABLES
    pid, parent, state, reason, target, wake,     \* user_task_slot_t
    level, slice, frame, handler,                 \*   (one entry per slot)
    runq,             \* list and place of each slot in g_user_task_runq
    since_boost,      \* ticks since g_user_task_last_boost_tick, capped
    torn,             \* Ctrl-C has come in the middle of a list operation
    next_pid,         \* g_user_task_next_pid
    running_pid,      \* g_user_task_running_pid
    pending_pid,      \* g_user_task_pending_pid
    active_slot,      \* g_user_task_active_slot
    active,           \* g_user_task_active
    schedule_request, \* g_user_task_schedule_request
    user_interrupt,   \* g_user_interrupt
    mode,             \* what the CPU executes
    ret,              \* caller of the scheduler path
    loading,          \* `slot' of user_task_launch_slot; NoSlot in execve
    prog,             \* slot whose program the CPU runs in ring 3
    image,            \* slot whose program is mapped
    warg              \* arguments of the waitpid in progress

boostVars == <<since_boost, torn>>
queueVars == <<runq, since_boost, torn>>
waitVars == <<reason, target, wake>>
mlfqVars == <<level, slice>>
idVars == <<pid, parent, next_pid>>
cpuVars == <<mode, ret, loading, prog, image, warg>>
curVars == <<running_pid, pending_pid, active_slot, active>>
vars == <<pid, parent, state, reason, target, wake, level, slice, frame,
          handler, runq, since_boost, torn, next_pid, running_pid, pending_pid,
          active_slot, active, schedule_request, user_interrupt, mode, ret,
          loading, prog, image, warg>>

-----------------------------------------------------------------------------
(* The task table.                                                         *)

Used(s) == state[s] # "UNUSED"

FindSlot(p) ==
    IF \E s \in Slots : Used(s) /\ pid[s] = p
    THEN CHOOSE s \in Slots : Used(s) /\ pid[s] = p
    ELSE NoSlot

Current == FindSlot(running_pid)

FreeSlot(s) == ~Used(s) /\ \A t \in Slots : t < s => Used(t)

-----------------------------------------------------------------------------
(* The run queue.  runq[s] is the list slot s is linked into and its place *)
(* in that list, counted from the head; place 0 means "not in_runq".       *)
(* While torn holds only the in_runq flags are those of the code: the      *)
(* links, hence the places, may be anything (RunQueue has them).           *)

Unlinked == [lev |-> 0, pos |-> 0]

Queued(q, s) == q[s].pos > 0

EnqueueAll(q, W, lv) ==
    LET new == {s \in W : ~Queued(q, s)} IN
    [s \in Slots |->
        IF s \in new
        THEN [lev |-> lv[s],
              pos |-> Cardinality({t \in Slots : Queued(q, t) /\ q[t].lev = lv[s]})
                      + Cardinality({t \in new : lv[t] = lv[s] /\ t <= s})]
        ELSE q[s]]

RunqRemoveGap(q, s) == [q EXCEPT ![s] = Unlinked]
RunqRemoveDropsRest(q, s) ==
    [t \in Slots |-> IF q[t].lev = q[s].lev /\ q[t].pos >= q[s].pos
                      THEN Unlinked ELSE q[t]]
RunqRemove(q, s) ==
    [t \in Slots |->
        IF t = s THEN Unlinked
        ELSE IF Queued(q, s) /\ q[t].lev = q[s].lev /\ q[t].pos > q[s].pos
             THEN [lev |-> q[t].lev, pos |-> q[t].pos - 1]
             ELSE q[t]]

\* The entry user_task_runq_pop_highest takes.
IsHighest(q, s) ==
    /\ q[s].pos = 1
    /\ \A t \in Slots : Queued(q, t) => q[t].lev <= q[s].lev

RunqRebuild(lv) ==
    EnqueueAll([s \in Slots |-> Unlinked],
               {s \in Slots : state[s] = "RUNNABLE"}, lv)

BoostDue == since_boost >= BoostInterval
StillTorn == torn /\ ~BoostDue
Boosts(s) == BoostDue /\ state[s] \in {"RUNNABLE", "RUNNING"}

BoostedLevel ==
    [s \in Slots |-> IF Boosts(s) THEN SCHED_MLFQ_LEVEL_HIGH ELSE level[s]]
BoostedSlice ==
    [s \in Slots |-> IF Boosts(s) THEN Quantum[SCHED_MLFQ_LEVEL_HIGH]
                     ELSE slice[s]]
BoostedRunq == IF BoostDue THEN RunqRebuild(BoostedLevel) ELSE runq

\* The rebuild starts from empty lists, whatever state they were in.
BoostTimeNoRepair ==
    /\ since_boost' = IF BoostDue THEN 0 ELSE since_boost
    /\ UNCHANGED torn
BoostTime ==
    /\ since_boost' = IF BoostDue THEN 0 ELSE since_boost
    /\ torn' = StillTorn

BoostIfDue ==
    /\ level' = BoostedLevel
    /\ slice' = BoostedSlice
    /\ runq' = BoostedRunq
    /\ BoostTime

-----------------------------------------------------------------------------
(* The context switch at the end of user_task_try_resume_from_syscall and  *)
(* of user_task_try_preempt_from_irq, on a boosted table.                  *)

\* user_task_mlfq_account_preempt.
AccountedLevel(s) ==
    IF BoostedSlice[s] <= 1 /\ BoostedLevel[s] > SCHED_MLFQ_LEVEL_LOW
    THEN BoostedLevel[s] - 1 ELSE BoostedLevel[s]
AccountedSlice(s) ==
    IF BoostedSlice[s] <= 1 THEN Quantum[AccountedLevel(s)]
    ELSE BoostedSlice[s] - 1

LevelsAccounted ==
    [s \in Slots |-> IF s = Current THEN AccountedLevel(s) ELSE BoostedLevel[s]]
SlicesAccounted ==
    [s \in Slots |-> IF s = Current THEN AccountedSlice(s) ELSE BoostedSlice[s]]

\* frame[s] says that the slot has a saved frame of the current generation;
\* the loader changes the mapped range only together with the generation.
SwitchTargets ==
    {s \in Slots : pid[s] # running_pid /\ state[s] = "RUNNABLE" /\ frame[s]}

CanSwitch == Current # NoSlot /\ SwitchTargets # {}

SwitchTo(t) ==
    /\ t \in SwitchTargets
    /\ \A u \in SwitchTargets : \/ BoostedLevel[u] < BoostedLevel[t]
                                \/ BoostedLevel[u] = BoostedLevel[t] /\ t <= u
    /\ state' = [state EXCEPT ![Current] = "RUNNABLE", ![t] = "RUNNING"]
    /\ frame' = [frame EXCEPT ![Current] = TRUE]
    /\ level' = LevelsAccounted
    /\ slice' = [SlicesAccounted EXCEPT
                    ![t] = IF @ = 0 THEN Quantum[BoostedLevel[t]] ELSE @]
    /\ runq' = RunqRemove(EnqueueAll(BoostedRunq, {Current}, LevelsAccounted), t)
    /\ BoostTime
    /\ running_pid' = pid[t]
    /\ active_slot' = t
    /\ prog' = t
    /\ schedule_request' = FALSE

-----------------------------------------------------------------------------
(* Blocking and waking.                                                    *)

\* Tasks a wake-up for pid p releases, given the states st.  (A definition
\* that no other one uses is a variant with a plausible bug, kept to show
\* that the properties notice it.)
WaitersForUnchecked(p, st) ==
    {s \in Slots : reason[s] = "WAITPID" /\ target[s] = p}
WaitersForParent(p, st) ==
    {s \in Slots : /\ st[s] = "BLOCKED" /\ reason[s] = "WAITPID"
                   /\ target[s] = p /\ parent[FindSlot(p)] = pid[s]}
WaitersFor(p, st) ==
    {s \in Slots : /\ st[s] = "BLOCKED" /\ reason[s] = "WAITPID"
                   /\ target[s] = p}

WokenState(s) == IF pid[s] = running_pid THEN "RUNNING" ELSE "RUNNABLE"

WakeAll(W, st) == [s \in Slots |-> IF s \in W THEN WokenState(s) ELSE st[s]]

\* The woken tasks that go to the run queue; the current one just goes on.
Requeued(W) == {s \in W : WokenState(s) = "RUNNABLE"}

ClearWait(W) ==
    /\ reason' = [s \in Slots |-> IF s \in W THEN "NONE" ELSE reason[s]]
    /\ target' = [s \in Slots |-> IF s \in W THEN 0 ELSE target[s]]
    /\ wake' = [s \in Slots |-> IF s \in W THEN 0 ELSE wake[s]]

\* user_task_block_current_*: nothing happens without a current task.
BlockCurrent(why, what, ticks) ==
    IF Current = NoSlot
    THEN UNCHANGED <<state, reason, target, wake, runq, schedule_request>>
    ELSE /\ state' = [state EXCEPT ![Current] = "BLOCKED"]
         /\ reason' = [reason EXCEPT ![Current] = why]
         /\ target' = [target EXCEPT ![Current] = what]
         /\ wake' = [wake EXCEPT ![Current] = ticks]
         /\ runq' = RunqRemove(runq, Current)
         /\ schedule_request' = TRUE

UnblockedState ==
    [s \in Slots |-> IF s = Current /\ state[s] = "BLOCKED"
                     THEN "RUNNING" ELSE state[s]]

UnblockCurrent ==
    /\ state' = UnblockedState
    /\ ClearWait({Current})

\* user_task_notify_exit: the current task, if there is one, becomes a
\* zombie and its waiters become runnable; then no task is current.
NotifyExit ==
    LET st == [s \in Slots |-> IF s = Current THEN "ZOMBIE" ELSE state[s]]
        W == IF running_pid = 0 THEN {} ELSE WaitersFor(running_pid, st)
    IN  /\ state' = WakeAll(W, st)
        /\ ClearWait(W)
        /\ runq' = EnqueueAll(IF Current = NoSlot THEN runq
                              ELSE RunqRemove(runq, Current), Requeued(W), level)
        /\ running_pid' = 0
        /\ pending_pid' = 0
        /\ active_slot' = NoSlot
        /\ active' = FALSE
        /\ schedule_request' = TRUE

\* user_task_terminate_slot on a task other than the current one.
TerminateFrom(s, q) ==
    LET st == [state EXCEPT ![s] = "ZOMBIE"]
        W == WaitersFor(pid[s], st)
        woken == WakeAll(W, st)
        P == {t \in Slots : /\ parent[s] # 0 /\ pid[t] = parent[s]
                            /\ woken[t] = "BLOCKED"}
    IN  /\ state' = WakeAll(P, woken)
        /\ ClearWait(W)
        /\ runq' = EnqueueAll(EnqueueAll(q, Requeued(W), level),
                              Requeued(P), level)
        /\ schedule_request' = TRUE

TerminateOtherQueued(s) == TerminateFrom(s, runq)
TerminateOther(s) == TerminateFrom(s, RunqRemove(runq, s))

-----------------------------------------------------------------------------
NoWait == [pid |-> 0, nohang |-> FALSE]

Init ==
    /\ pid = [s \in Slots |-> 0]
    /\ parent = [s \in Slots |-> 0]
    /\ state = [s \in Slots |-> "UNUSED"]
    /\ reason = [s \in Slots |-> "NONE"]
    /\ target = [s \in Slots |-> 0]
    /\ wake = [s \in Slots |-> 0]
    /\ level = [s \in Slots |-> SCHED_MLFQ_LEVEL_HIGH]
    /\ slice = [s \in Slots |-> Quantum[SCHED_MLFQ_LEVEL_HIGH]]
    /\ frame = [s \in Slots |-> FALSE]
    /\ handler = [s \in Slots |-> FALSE]
    /\ runq = [s \in Slots |-> Unlinked]
    /\ since_boost = 0
    /\ torn = FALSE
    /\ next_pid = 1
    /\ running_pid = 0
    /\ pending_pid = 0
    /\ active_slot = NoSlot
    /\ active = FALSE
    /\ schedule_request = FALSE
    /\ user_interrupt = FALSE
    /\ mode = "shell"
    /\ ret = "none"
    /\ loading = NoSlot
    /\ prog = NoSlot
    /\ image = NoSlot
    /\ warg = NoWait

-----------------------------------------------------------------------------
(* System calls.  syscall_dispatch_core saves the caller's frame first and *)
(* passes through user_task_try_resume_from_syscall last (mode "ret").     *)

Syscall(call) ==
    /\ mode = "user"
    /\ call \in Calls
    /\ frame' = [s \in Slots |-> frame[s] \/ (active /\ s = Current)]

\* user_task_try_resume_from_syscall.
SyscallReturn ==
    /\ mode = "ret"
    /\ IF schedule_request /\ active /\ CanSwitch
       THEN \E t \in Slots : SwitchTo(t)
       ELSE /\ IF schedule_request /\ active THEN BoostIfDue
               ELSE UNCHANGED <<level, slice, runq, boostVars>>
            /\ UNCHANGED <<state, frame, running_pid, active_slot, prog,
                           schedule_request>>
    /\ mode' = "user"
    /\ UNCHANGED <<idVars, waitVars, handler, pending_pid, active,
                   user_interrupt, ret, loading, image, warg>>

NextPid == next_pid + 1

\* A new slot, queued; scheduled at once when no user task is active.
SpawnSlot(s, back) ==
    /\ FreeSlot(s)
    /\ next_pid <= MaxPid
    /\ next_pid' = NextPid
    /\ pid' = [pid EXCEPT ![s] = next_pid]
    /\ parent' = [parent EXCEPT ![s] = running_pid]
    /\ state' = [state EXCEPT ![s] = "RUNNABLE"]
    /\ reason' = [reason EXCEPT ![s] = "NONE"]
    /\ target' = [target EXCEPT ![s] = 0]
    /\ wake' = [wake EXCEPT ![s] = 0]
    /\ level' = [level EXCEPT ![s] = SCHED_MLFQ_LEVEL_HIGH]
    /\ slice' = [slice EXCEPT ![s] = Quantum[SCHED_MLFQ_LEVEL_HIGH]]
    /\ handler' = [handler EXCEPT ![s] = FALSE]
    /\ runq' = EnqueueAll(runq, {s}, level')
    /\ schedule_request' = (schedule_request \/ active)
    /\ IF active THEN mode' = back /\ UNCHANGED ret
       ELSE mode' = "sched" /\ ret' = back
    /\ UNCHANGED <<boostVars, curVars, user_interrupt, loading, prog,
                   image, warg>>

\* The memset of the new slot clears its saved frame; the caller's is saved.
ShellSpawn(s) ==
    /\ mode = "shell"
    /\ SpawnSlot(s, "shell")
    /\ frame' = [frame EXCEPT ![s] = FALSE]

UserSpawn(s) ==
    /\ mode = "user" /\ "spawn" \in Calls
    /\ SpawnSlot(s, "ret")
    /\ frame' = [t \in Slots |-> t # s /\ (frame[t] \/ (active /\ t = Current))]

\* needed_ticks of SLEEP_US, in 32-bit arithmetic.
NeededTicks(usec) == ((usec + TickUs - 1) % UintMod) \div TickUs

Sleep(usec) ==
    /\ Syscall("sleep") /\ active
    /\ BlockCurrent("SLEEP", 0, NeededTicks(usec))
    /\ mode' = "sleep"
    /\ UNCHANGED <<pid, parent, level, slice, handler, boostVars, next_pid,
                   curVars, user_interrupt, ret, loading, prog, image, warg>>

\* Without an active task the call sleeps in sched_sleep_us, which polls.
InactiveSleep ==
    /\ Syscall("sleep") /\ ~active
    /\ mode' = "gsleep"
    /\ UNCHANGED <<pid, parent, state, waitVars, mlfqVars, handler, queueVars,
                   next_pid, curVars, schedule_request, user_interrupt, ret,
                   loading, prog, image, warg>>

InactiveSleepReturn ==
    /\ mode = "gsleep"
    /\ mode' = "ret"
    /\ UNCHANGED <<idVars, state, waitVars, mlfqVars, frame, handler,
                   queueVars, curVars, schedule_request, user_interrupt, ret,
                   loading, prog, image, warg>>

GuiWait ==
    /\ Syscall("gui")
    /\ BlockCurrent("GUI", 0, 0)
    /\ mode' = "gui"
    /\ UNCHANGED <<pid, parent, level, slice, handler, boostVars, next_pid,
                   curVars, user_interrupt, ret, loading, prog, image, warg>>

\* An event is popped, or Ctrl-C ends the wait.
GuiReturn ==
    /\ mode = "gui"
    /\ UnblockCurrent
    /\ mode' = "ret"
    /\ UNCHANGED <<idVars, mlfqVars, frame, handler, queueVars, curVars,
                   schedule_request, user_interrupt, ret, loading, prog,
                   image, warg>>

Waitpid(p, nohang) ==
    /\ Syscall(IF nohang THEN "nohang" ELSE "waitpid")
    /\ IF FindSlot(p) # NoSlot /\ state[FindSlot(p)] # "ZOMBIE" /\ ~nohang
       THEN BlockCurrent("WAITPID", p, 0)
       ELSE UNCHANGED <<state, waitVars, runq, schedule_request>>
    /\ IF FindSlot(p) = NoSlot
       THEN mode' = "ret" /\ UNCHANGED warg
       ELSE mode' = "wait" /\ warg' = [pid |-> p, nohang |-> nohang]
    /\ UNCHANGED <<idVars, mlfqVars, handler, boostVars, curVars,
                   user_interrupt, ret, loading, prog, image>>

\* The awaited task is a zombie: reap it and return its pid.
WaitReap ==
    LET z == FindSlot(warg.pid)
    IN  /\ mode = "wait"
        /\ z # NoSlot /\ state[z] = "ZOMBIE"
        /\ state' = [UnblockedState EXCEPT ![z] = "UNUSED"]
        /\ ClearWait({Current, z})
        /\ runq' = RunqRemove(runq, z)
        /\ pid' = [pid EXCEPT ![z] = 0]
        /\ level' = [level EXCEPT ![z] = SCHED_MLFQ_LEVEL_HIGH]
        /\ slice' = [slice EXCEPT ![z] = Quantum[SCHED_MLFQ_LEVEL_HIGH]]
        /\ frame' = [frame EXCEPT ![z] = FALSE]
        /\ schedule_request' = TRUE
        /\ mode' = "ret"
        /\ warg' = NoWait
        /\ UNCHANGED <<parent, next_pid, handler, boostVars, curVars,
                       user_interrupt, ret, loading, prog, image>>

\* Otherwise the loop runs whatever is runnable before it waits in hlt.
WaitSchedule ==
    /\ mode = "wait"
    /\ FindSlot(warg.pid) # NoSlot
    /\ state[FindSlot(warg.pid)] # "ZOMBIE"
    /\ mode' = "sched"
    /\ ret' = "wait"
    /\ UNCHANGED <<idVars, state, waitVars, mlfqVars, frame, handler,
                   queueVars, curVars, schedule_request, user_interrupt,
                   loading, prog, image, warg>>

\* user_task_queue_signal.  "INT" stands for the catchable terminating
\* signals, "KILL" for SIGKILL, "CHLD" for those without a default action.
Kill(p, sig) ==
    LET s == FindSlot(p)
        dies == ~(sig = "INT" /\ handler[s]) /\ sig # "CHLD"
    IN  /\ Syscall("kill")
        /\ s # NoSlot
        /\ CASE dies /\ state[s] = "ZOMBIE" ->
                  UNCHANGED <<state, waitVars, runq, curVars,
                              schedule_request, user_interrupt>>
             [] dies /\ state[s] # "ZOMBIE" /\ p = running_pid ->
                  NotifyExit /\ UNCHANGED user_interrupt
             [] dies /\ state[s] # "ZOMBIE" /\ p # running_pid ->
                  TerminateOther(s) /\ UNCHANGED <<curVars, user_interrupt>>
             [] ~dies ->
                  /\ user_interrupt' = (user_interrupt \/ p = running_pid)
                  /\ schedule_request' =
                        (schedule_request \/ state[s] = "RUNNABLE")
                  /\ UNCHANGED <<state, waitVars, runq, curVars>>
        /\ mode' = "ret"
        /\ UNCHANGED <<idVars, mlfqVars, handler, boostVars, ret, loading,
                       prog, image, warg>>

\* user_task_set_handler_current, for a catchable terminating signal.
Signal(install) ==
    /\ Syscall("signal")
    /\ Current # NoSlot
    /\ handler' = [handler EXCEPT ![Current] = install]
    /\ mode' = "ret"
    /\ UNCHANGED <<idVars, state, waitVars, mlfqVars, queueVars, curVars,
                   schedule_request, user_interrupt, ret, loading, prog,
                   image, warg>>

\* execve calls the loader directly: no slot is launched.
Execve ==
    /\ Syscall("execve")
    /\ mode' = "load"
    /\ ret' = "ret"
    /\ loading' = NoSlot
    /\ UNCHANGED <<idVars, state, waitVars, mlfqVars, handler, queueVars,
                   curVars, schedule_request, user_interrupt, prog, image,
                   warg>>

\* SYSCALL_EXIT and exit_group; the stub then calls user_task_abort_continue.
Exit ==
    /\ mode = "user"
    /\ NotifyExit
    /\ frame' = [s \in Slots |-> frame[s] \/ (active /\ s = Current)]
    /\ user_interrupt' = FALSE
    /\ mode' = "abort"
    /\ UNCHANGED <<idVars, mlfqVars, handler, boostVars, ret, loading, prog,
                   image, warg>>

\* A general protection fault in ring 3 (isr_dispatch).
Fault ==
    /\ mode = "user"
    /\ NotifyExit
    /\ user_interrupt' = FALSE
    /\ mode' = "abort"
    /\ UNCHANGED <<idVars, mlfqVars, frame, handler, boostVars, ret,
                   loading, prog, image, warg>>

-----------------------------------------------------------------------------
(* The scheduler path.                                                     *)

\* user_task_abort_continue: unmap, clear the flag, schedule before the UI.
AbortContinue ==
    /\ mode = "abort"
    /\ image' = NoSlot
    /\ active' = FALSE
    /\ prog' = NoSlot
    /\ mode' = "sched"
    /\ ret' = "abort"
    /\ UNCHANGED <<idVars, state, waitVars, mlfqVars, frame, handler,
                   queueVars, running_pid, pending_pid, active_slot,
                   schedule_request, user_interrupt, loading, warg>>

\* user_task_poll_scheduler, from the shell loop or from sched_sleep_us.
PollScheduler ==
    /\ mode \in {"shell", "gsleep"}
    /\ schedule_request /\ ~active
    /\ mode' = "sched"
    /\ ret' = IF mode = "shell" THEN "poll" ELSE "gpoll"
    /\ UNCHANGED <<idVars, state, waitVars, mlfqVars, frame, handler,
                   queueVars, curVars, schedule_request, user_interrupt,
                   loading, prog, image, warg>>

ModeAfter(r) ==
    CASE r \in {"shell", "poll", "abort"} -> "shell"
      [] r = "gpoll" -> "gsleep"
      [] r = "wait" -> "wait"
      [] OTHER -> "ret"

\* What user_task_runq_pop_highest can come to.  Torn lists may have lost any
\* entry, so it may take any other or none; an entry whose task is not runnable
\* is passed over.
Popped(s) == state[s] = "RUNNABLE" /\ (StillTorn \/ IsHighest(BoostedRunq, s))
NothingPopped == StillTorn \/ (\A s \in Slots : ~Queued(BoostedRunq, s))

\* user_task_continue_or_schedule found a task: user_task_launch_slot up to
\* its call of user_elf_run_argv.
Launch(s) ==
    /\ mode = "sched"
    /\ Popped(s)
    /\ level' = BoostedLevel
    /\ slice' = BoostedSlice
    /\ BoostTime
    /\ runq' = RunqRemove(BoostedRunq, s)
    /\ state' = [state EXCEPT ![s] = "RUNNING"]
    /\ ClearWait({s})
    /\ frame' = [frame EXCEPT ![s] = FALSE]
    /\ active_slot' = s
    /\ pending_pid' = pid[s]
    /\ loading' = s
    /\ mode' = "load"
    /\ UNCHANGED <<idVars, handler, running_pid, active, schedule_request,
                   user_interrupt, ret, prog, image, warg>>

\* It found none, and its caller goes on.
NothingRunnable ==
    /\ mode = "sched"
    /\ NothingPopped
    /\ BoostIfDue
    /\ schedule_request' = (schedule_request /\ ret \notin {"poll", "gpoll"})
    /\ IF ret = "wait" /\ warg.nohang
       THEN UnblockCurrent /\ mode' = "ret" /\ warg' = NoWait
       ELSE UNCHANGED <<state, waitVars, warg>> /\ mode' = ModeAfter(ret)
    /\ ret' = "none"
    /\ UNCHANGED <<idVars, frame, handler, curVars, user_interrupt, loading,
                   prog, image>>

LoadFailsPending ==
    /\ IF loading = NoSlot THEN UNCHANGED <<state, active_slot>>
       ELSE /\ state' = [state EXCEPT ![loading] = "ZOMBIE"]
            /\ active_slot' = NoSlot
    /\ UNCHANGED <<pending_pid, running_pid>>
    /\ loading' = NoSlot
    /\ mode' = ModeAfter(ret)
    /\ ret' = "none"

\* user_elf_run_argv returned an error: launch_slot's epilogue, or execve's.
LoadFails ==
    /\ IF loading = NoSlot
       THEN UNCHANGED <<state, active_slot, pending_pid, running_pid>>
       ELSE /\ state' = [state EXCEPT ![loading] = "ZOMBIE"]
            /\ active_slot' = NoSlot
            /\ pending_pid' = IF pending_pid = pid[loading] THEN 0
                              ELSE pending_pid
            /\ running_pid' = IF running_pid = pid[loading] THEN 0
                              ELSE running_pid
    /\ loading' = NoSlot
    /\ mode' = ModeAfter(ret)
    /\ ret' = "none"

LoadEarlyFailureUnmapped ==
    /\ mode = "load" /\ "early" \in LoadOutcomes
    /\ LoadFails
    /\ image' = NoSlot
    /\ UNCHANGED <<idVars, waitVars, mlfqVars, frame, handler, queueVars,
                   active, schedule_request, user_interrupt, prog, warg>>

\* Before the previous program is unmapped.
LoadEarlyFailure ==
    /\ mode = "load" /\ "early" \in LoadOutcomes
    /\ LoadFails
    /\ UNCHANGED <<idVars, waitVars, mlfqVars, frame, handler, queueVars,
                   active, schedule_request, user_interrupt, prog, image,
                   warg>>

\* The previous program is unmapped and the new one is being mapped.
LoadMap ==
    /\ mode = "load"
    /\ image' = NoSlot
    /\ user_interrupt' = FALSE
    /\ active' = TRUE
    /\ mode' = "map"
    /\ UNCHANGED <<idVars, state, waitVars, mlfqVars, frame, handler,
                   queueVars, running_pid, pending_pid, active_slot,
                   schedule_request, ret, loading, prog, warg>>

LoadLateFailure ==
    /\ mode = "map" /\ "late" \in LoadOutcomes
    /\ LoadFails
    /\ UNCHANGED <<idVars, waitVars, mlfqVars, frame, handler, queueVars,
                   active, schedule_request, user_interrupt, prog, image,
                   warg>>

FramesKept == [s \in Slots |-> frame[s] \/ s = active_slot]
FramesAtEntry == [s \in Slots |-> s = active_slot]

\* Commit the pending pid, start a new generation of frames, enter ring 3 at
\* the entry point.  The caller's kernel context is abandoned.
EnterRing3 ==
    /\ mode = "map" /\ "ok" \in LoadOutcomes
    /\ running_pid' = pending_pid
    /\ pending_pid' = 0
    /\ frame' = FramesAtEntry
    /\ prog' = IF loading = NoSlot THEN prog ELSE loading
    /\ image' = prog'
    /\ loading' = NoSlot
    /\ mode' = "user"
    /\ ret' = "none"
    /\ warg' = NoWait
    /\ UNCHANGED <<idVars, state, waitVars, mlfqVars, handler, queueVars,
                   active_slot, active, schedule_request, user_interrupt>>

-----------------------------------------------------------------------------
(* The timer interrupt.                                                    *)

\* A sleeper whose deadline is reached after `adv' more ticks.
Expired(s, adv) ==
    state[s] = "BLOCKED" /\ reason[s] = "SLEEP" /\ wake[s] <= adv

\* user_task_scheduler_tick.
SchedulerTick(adv) ==
    LET W == {s \in Slots : Expired(s, adv)}
        off == Requeued(W)
    IN  /\ state' = WakeAll(W, state)
        /\ reason' = [s \in Slots |-> IF s \in W THEN "NONE" ELSE reason[s]]
        /\ wake' = [s \in Slots |-> IF wake[s] <= adv THEN 0
                                    ELSE wake[s] - adv]
        /\ runq' = EnqueueAll(runq, off, level)
        /\ schedule_request' = (schedule_request \/ off # {})

\* The sleeping call's own loop, after any interrupt; it calls
\* user_task_scheduler_tick itself (OffCpuWaits: there is no other sleeper).
SleepReturn ==
    /\ mode = "sleep"
    /\ Current # NoSlot /\ state[Current] = "BLOCKED" => Expired(Current, 0)
    /\ UnblockCurrent
    /\ mode' = "ret"
    /\ UNCHANGED <<idVars, mlfqVars, frame, handler, queueVars, curVars,
                   schedule_request, user_interrupt, ret, loading, prog,
                   image, warg>>

\* IRQ0 while no Ctrl-C is pending: sched_tick.  In a build with preemption a
\* tick taken out of ring 3 goes on into user_task_try_preempt_from_irq.
TimerTick ==
    /\ mode # "preempt"
    /\ ~(active /\ user_interrupt)
    /\ SchedulerTick(1)
    /\ since_boost' = IF BoostDue THEN since_boost ELSE since_boost + 1
    /\ mode' = IF IrqPreempt /\ active /\ mode = "user" THEN "preempt"
               ELSE mode
    /\ UNCHANGED <<idVars, target, mlfqVars, frame, handler, torn, curVars,
                   user_interrupt, ret, loading, prog, image, warg>>

\* user_task_try_preempt_from_irq: the tick is charged to the current task.
TryPreempt ==
    LET request == \/ schedule_request
                   \/ Current # NoSlot /\ BoostedSlice[Current] = 1
    IN  /\ mode = "preempt"
        /\ IF request /\ CanSwitch
           THEN \E t \in Slots : SwitchTo(t)
           ELSE /\ level' = LevelsAccounted
                /\ slice' = SlicesAccounted
                /\ runq' = BoostedRunq
                /\ BoostTime
                /\ schedule_request' = request
                /\ UNCHANGED <<state, frame, running_pid, active_slot, prog>>
        /\ mode' = "user"
        /\ UNCHANGED <<idVars, waitVars, handler, pending_pid, active,
                       user_interrupt, ret, loading, image, warg>>

\* IRQ0 with Ctrl-C typed or already pending, out of kernel mode: SIGINT to
\* the current task, and nothing else until the flag is cleared.
InterruptKernel ==
    /\ active /\ mode \notin {"user", "preempt"}
    /\ CtrlC \/ user_interrupt
    /\ user_interrupt' = TRUE
    /\ IF Current # NoSlot /\ ~handler[Current] THEN NotifyExit
       ELSE UNCHANGED <<state, waitVars, runq, curVars, schedule_request>>
    /\ UNCHANGED <<idVars, mlfqVars, frame, handler, boostVars, cpuVars>>

\* The same out of a list operation, when it wakes somebody: user_task_runq_
\* enqueue links the woken task under the hands of the interrupted rebuild,
\* enqueue, remove or pop, and an entry may be lost or listed twice
\* (RunQueue).  A boost that was under way has raised some of the levels.
InterruptLists ==
    /\ active /\ mode \in {"ret", "sched"}
    /\ CtrlC \/ user_interrupt
    /\ Current # NoSlot /\ ~handler[Current]
    /\ NotifyExit
    /\ \E s \in Slots : state[s] = "BLOCKED" /\ state'[s] = "RUNNABLE"
    /\ torn' = TRUE
    /\ user_interrupt' = TRUE
    /\ \/ UNCHANGED <<level, slice, since_boost>>
       \/ /\ BoostDue /\ since_boost' = 0
          /\ \E B \in SUBSET Slots :
                /\ level' = [s \in Slots |-> IF s \in B THEN BoostedLevel[s]
                                             ELSE level[s]]
                /\ slice' = [s \in Slots |-> IF s \in B THEN BoostedSlice[s]
                                             ELSE slice[s]]
    /\ UNCHANGED <<idVars, frame, handler, cpuVars>>

\* The same out of ring 3: the task ends, whatever handlers it has.
InterruptUser ==
    /\ active /\ mode = "user"
    /\ CtrlC \/ user_interrupt
    /\ NotifyExit
    /\ user_interrupt' = FALSE
    /\ mode' = "abort"
    /\ UNCHANGED <<idVars, mlfqVars, frame, handler, boostVars, ret,
                   loading, prog, image, warg>>

-----------------------------------------------------------------------------
Kernel ==
    \/ SyscallReturn \/ InactiveSleepReturn \/ SleepReturn \/ GuiReturn
    \/ WaitReap \/ WaitSchedule
    \/ AbortContinue \/ PollScheduler \/ NothingRunnable
    \/ \E s \in Slots : Launch(s)
    \/ LoadEarlyFailure \/ LoadMap \/ LoadLateFailure \/ EnterRing3

Program ==
    \/ \E s \in Slots : UserSpawn(s)
    \/ \E u \in SleepArgs : Sleep(u)
    \/ InactiveSleep
    \/ GuiWait
    \/ \E p \in Pids, nohang \in BOOLEAN : Waitpid(p, nohang)
    \/ \E p \in Pids, sig \in Signals : Kill(p, sig)
    \/ \E install \in BOOLEAN : Signal(install)
    \/ Execve
    \/ Exit
    \/ Fault

Irq0 ==
    \/ TimerTick \/ TryPreempt
    \/ InterruptKernel \/ InterruptLists \/ InterruptUser

Next ==
    \/ \E s \in Slots : ShellSpawn(s)
    \/ Kernel
    \/ Program
    \/ Irq0

Spec == Init /\ [][Next]_vars

\* The kernel's own code runs, timer interrupts keep coming, and every program
\* that keeps coming back to ring 3 ends at some point.
Fairness ==
    /\ WF_vars(Kernel)
    /\ WF_vars(TimerTick)
    /\ WF_vars(TryPreempt)
    /\ WF_vars(user_interrupt /\ (InterruptKernel \/ InterruptUser))
    /\ SF_vars(Exit)

FairSpec == Spec /\ Fairness

-----------------------------------------------------------------------------
(* Properties.                                                             *)

\* Every variable keeps the shape of the C variable it stands for.
TypeOK ==
    /\ pid \in [Slots -> 0..MaxPid] /\ parent \in [Slots -> 0..MaxPid]
    /\ state \in [Slots -> States] /\ reason \in [Slots -> Reasons]
    /\ target \in [Slots -> 0..MaxPid] /\ wake \in [Slots -> Nat]
    /\ level \in [Slots -> Levels] /\ slice \in [Slots -> Nat]
    /\ frame \in [Slots -> BOOLEAN] /\ handler \in [Slots -> BOOLEAN]
    /\ runq \in [Slots -> [lev : Levels, pos : Nat]]
    /\ since_boost \in 0..BoostInterval /\ torn \in BOOLEAN
    /\ next_pid \in 1..(MaxPid + 1)
    /\ running_pid \in 0..MaxPid /\ pending_pid \in 0..MaxPid
    /\ active_slot \in Slots \cup {NoSlot}
    /\ active \in BOOLEAN /\ schedule_request \in BOOLEAN
    /\ user_interrupt \in BOOLEAN
    /\ mode \in Modes /\ ret \in Returns
    /\ loading \in Slots \cup {NoSlot} /\ prog \in Slots \cup {NoSlot}
    /\ image \in Slots \cup {NoSlot}
    /\ warg \in [pid : 0..MaxPid, nohang : BOOLEAN]

\* in_runq marks exactly the runnable tasks, and unless Ctrl-C has come in the
\* middle of a list operation since the last boost, each is linked into the list
\* of its own level: user_task_runq_pop_highest forgets no runnable task.
RunqSound ==
    \A s \in Slots : /\ Queued(runq, s) <=> state[s] = "RUNNABLE"
                     /\ ~torn /\ Queued(runq, s) => runq[s].lev = level[s]

\* Unless torn, the lists are chains without gap or sharing: the places of the
\* members of one list are 1..n.
RunqChained ==
    ~torn => \A l \in Levels :
        LET members == {s \in Slots : Queued(runq, s) /\ runq[s].lev = l}
        IN  {runq[s].pos : s \in members} = 1..Cardinality(members)

\* A pid names one task: user_task_find_slot_by_pid has at most one answer.
PidsDistinct ==
    /\ \A s \in Slots : Used(s) => pid[s] \in 1..(next_pid - 1)
    /\ \A s, t \in Slots : Used(s) /\ Used(t) /\ pid[s] = pid[t] => s = t

\* The task table and the run queue agree: whatever order tasks are spawned,
\* ended, blocked and boosted in, and wherever Ctrl-C strikes, the runnable
\* tasks and no others are marked as queued and a pid finds one slot; and until
\* Ctrl-C strikes inside a list operation, and again from the next boost on,
\* each of them is in the list of its level.
TableSound == TypeOK /\ RunqSound /\ PidsDistinct

\* g_user_task_running_pid always names a task that is not dead or queued,
\* and never outlives g_user_task_active.
RunningPidLive ==
    running_pid # 0 =>
        /\ active
        /\ Current # NoSlot
        /\ state[Current] \in {"RUNNING", "BLOCKED"}

\* The pid that exits, signals and waits are charged to is that of the program
\* the CPU executes.
CurrentIsProg ==
    running_pid # 0 /\ mode \in {"user", "ret", "sleep", "gui", "wait", "preempt"}
        => Current = prog

\* While there is a current task, no runnable task has a saved frame of the
\* current generation: the context-switch branches of
\* user_task_try_resume_from_syscall and user_task_try_preempt_from_irq never
\* find a target, so a task leaves the CPU only by losing its context.
NoForeignResume ==
    running_pid # 0 => \A s \in Slots : state[s] = "RUNNABLE" => ~frame[s]

\* A task that is blocked and not current waits in waitpid: a sleeper or a
\* GUI waiter never leaves the CPU, hence the timer interrupt never links a
\* task into the run queue under a system call that is changing the queue.
OffCpuWaits ==
    \A s \in Slots : state[s] = "BLOCKED" /\ pid[s] # running_pid
                        => reason[s] = "WAITPID"

\* The task waitpid is looking for cannot disappear under it.
WaitTargetExists ==
    mode = "wait" \/ ret = "wait" => FindSlot(warg.pid) # NoSlot

\* Whatever the order of calls, loads and signals: what g_user_task_running_pid
\* names can go on running, nothing else can take the CPU from it, a task that
\* waits off the CPU is in waitpid, and what a waitpid waits for stays in the
\* table until it is reaped.
CurrentSound ==
    RunningPidLive /\ NoForeignResume /\ OffCpuWaits /\ WaitTargetExists

\* A zombie stays one until it is reaped: no wake-up revives it.
ZombieStays ==
    [][\A s \in Slots : state[s] = "ZOMBIE"
            => state'[s] \in {"ZOMBIE", "UNUSED"}]_vars

\* The CPU runs ring 3 with the program of that task mapped.
Ring3Mapped == mode \in {"user", "ret", "preempt"} => image = prog

\* The slice of a task is what is left of the quantum of its level.
SliceSound == \A s \in Slots : slice[s] \in 1..Quantum[level[s]]

\* A task waiting for a pid off the CPU waits for a task that can still exit:
\* every path that ends a task wakes the tasks that wait for it.
NoLostWaiter ==
    \A s \in Slots : state[s] = "BLOCKED" /\ pid[s] # running_pid
        => /\ FindSlot(target[s]) # NoSlot
           /\ state[FindSlot(target[s])] # "ZOMBIE"

\* One task at most is RUNNING.
OneRunning ==
    \A s, t \in Slots : state[s] = "RUNNING" /\ state[t] = "RUNNING" => s = t

\* With timer preemption: the lists stay chained when tasks are charged,
\* boosted and killed between two system calls, one task is RUNNING, and every
\* slice fits its level.
QueuesSound == RunqChained /\ SliceSound /\ OneRunning

\* Every runnable task is launched.
RunnableLaunched ==
    \A s \in Slots : state[s] = "RUNNABLE" ~> state[s] # "RUNNABLE"

\* A sleeping call returns.
SleepEnds == mode = "sleep" ~> mode # "sleep"

\* No task is spawned any more from some time on.
SpawningStops == <>[][UNCHANGED next_pid]_vars

\* Once tasks are no longer spawned, and as long as Ctrl-C never strikes inside
\* a list operation, nothing is left waiting: every runnable task is launched
\* and every sleeping call returns.
TasksProgress == SpawningStops /\ []~torn => RunnableLaunched /\ SleepEnds

(* What the code does not keep; the README says how it is lost.            *)

\* user_task_continue_or_schedule returns 0 only when no task is runnable.
NoneForgotten ==
    [][NothingRunnable => \A s \in Slots : state[s] # "RUNNABLE"]_vars

\* The shell has the CPU only while no user task is marked active, so that
\* user_task_spawn_argv and user_task_poll_scheduler do launch tasks.
ShellInactive == mode = "shell" => ~active

\* A task that a signal has terminated does not execute another instruction.
DeadTasksLeaveCpu == mode = "user" => state[prog] # "ZOMBIE"

\* A task that leaves a blocking waitpid can go on from there: it has a frame
\* to be resumed with.
WokenResumable ==
    [][\A s \in Slots : state[s] = "BLOCKED" /\ state'[s] = "RUNNABLE"
            => frame'[s]]_vars

=============================================================================
