--------------------------- MODULE UserTaskProofs ---------------------------
(***************************************************************************)
(* Proofs about UserTask: for any number of slots, pids and quanta, under  *)
(* every system call, every load outcome and Ctrl-C at any moment, inside  *)
(* a list operation of the run queue as well.                              *)
(***************************************************************************)
EXTENDS UserTask, FiniteSetTheorems, FunctionTheorems, TLAPS

(* The inductive invariant. *)

\* A slot has a pid exactly while it is used, and pids are not shared.
PidInv ==
    /\ \A s \in Slots : pid[s] # 0 <=> Used(s)
    /\ \A s \in Slots : pid[s] < next_pid
    /\ \A s, t \in Slots : pid[s] = pid[t] /\ pid[s] # 0 => s = t

\* The in_runq flags mark the runnable slots; each is in the list of its level
\* as long as nothing has struck inside a list operation.
QueueInv ==
    \A s \in Slots : /\ Queued(runq, s) <=> state[s] = "RUNNABLE"
                     /\ ~torn /\ Queued(runq, s) => runq[s].lev = level[s]

\* The current task, if there is one, is on the CPU.
RunningInv ==
    running_pid # 0 =>
        /\ active
        /\ mode # "abort"
        /\ \E s \in Slots : /\ pid[s] = running_pid
                            /\ state[s] \in {"RUNNING", "BLOCKED"}

\* A launch in progress owns its slot, and the pending pid is that slot's.
LaunchInv ==
    /\ loading # NoSlot => /\ mode \in {"load", "map"}
                           /\ state[loading] = "RUNNING"
                           /\ pid[loading] # running_pid
    /\ pending_pid # 0 => /\ loading # NoSlot
                          /\ pid[loading] = pending_pid
                          /\ active_slot = loading
                          /\ mode = "map" => active

\* Why a task is blocked, and where its system call stands.
BlockInv ==
    \A s \in Slots : state[s] = "BLOCKED" =>
        \/ reason[s] = "WAITPID"
        \/ pid[s] = running_pid /\ reason[s] = "SLEEP" /\ mode = "sleep"
        \/ pid[s] = running_pid /\ reason[s] = "GUI" /\ mode = "gui"

\* Frames of the current generation belong to tasks that are not waiting.
FrameInv ==
    running_pid # 0 =>
        \A s \in Slots : frame[s] /\ state[s] \in {"RUNNABLE", "BLOCKED"}
                            => pid[s] = running_pid

\* The pid waitpid looks for stays in the table.
WaitInv ==
    /\ ret = "wait" => mode \in {"sched", "load", "map"}
    /\ mode = "wait" \/ ret = "wait" =>
          \E s \in Slots : pid[s] # 0 /\ pid[s] = warg.pid

IInv == /\ TypeOK /\ PidInv /\ QueueInv /\ RunningInv /\ LaunchInv
        /\ BlockInv /\ FrameInv /\ WaitInv

-----------------------------------------------------------------------------
(* Lookups. *)

\* user_task_find_slot_by_pid returns the one slot that has the pid.
LEMMA FindSlotFact ==
    ASSUME TypeOK, PidInv, NEW p \in Nat
    PROVE  /\ FindSlot(p) \in Slots \cup {NoSlot}
           /\ \A s \in Slots : s = FindSlot(p) <=> p # 0 /\ pid[s] = p
<1>1. CASE \E s \in Slots : Used(s) /\ pid[s] = p
  <2>1. PICK c \in Slots : c = FindSlot(p) /\ Used(c) /\ pid[c] = p
    BY <1>1 DEF FindSlot
  <2> QED BY <2>1 DEF PidInv
<1>2. CASE ~\E s \in Slots : Used(s) /\ pid[s] = p
  <2>1. FindSlot(p) = NoSlot
    BY <1>2 DEF FindSlot
  <2>2. \A s \in Slots : s # NoSlot
    BY SizesAssumption DEF Slots, NoSlot
  <2> QED BY <1>2, <2>1, <2>2 DEF PidInv
<1> QED BY <1>1, <1>2

\* The current slot is the one whose pid is g_user_task_running_pid.
LEMMA CurrentFact ==
    ASSUME TypeOK, PidInv
    PROVE  /\ Current \in Slots \cup {NoSlot}
           /\ \A s \in Slots : s = Current
                                 <=> running_pid # 0 /\ pid[s] = running_pid
           /\ NoSlot \notin Slots
           /\ running_pid = 0 => Current = NoSlot
<1>1. running_pid \in Nat
  BY SizesAssumption DEF TypeOK
<1>2. NoSlot \notin Slots
  BY SizesAssumption DEF Slots, NoSlot
<1> QED BY <1>1, <1>2, FindSlotFact DEF Current

-----------------------------------------------------------------------------
(* The run queue. *)

Runqs == [Slots -> [lev : Levels, pos : Nat]]

\* Linking a set of slots keeps what is linked and adds the rest, each in the
\* list of its level.
LEMMA EnqueueAllFact ==
    ASSUME NEW q \in Runqs, NEW W \in SUBSET Slots,
           NEW lv \in [Slots -> Levels]
    PROVE  /\ EnqueueAll(q, W, lv) \in Runqs
           /\ \A s \in Slots :
                 /\ Queued(EnqueueAll(q, W, lv), s) <=> Queued(q, s) \/ s \in W
                 /\ Queued(q, s) => EnqueueAll(q, W, lv)[s] = q[s]
                 /\ s \in W /\ ~Queued(q, s) => EnqueueAll(q, W, lv)[s].lev = lv[s]
<1> DEFINE new == {s \in W : ~Queued(q, s)}
           before(s) == {t \in Slots : Queued(q, t) /\ q[t].lev = lv[s]}
           upto(s) == {t \in new : lv[t] = lv[s] /\ t <= s}
<1>1. IsFiniteSet(Slots)
  BY FS_Interval, SizesAssumption DEF Slots
<1>2. ASSUME NEW s \in new
      PROVE  /\ Cardinality(before(s)) \in Nat
             /\ Cardinality(upto(s)) \in Nat \ {0}
  <2>1. IsFiniteSet(before(s)) /\ IsFiniteSet(upto(s))
    BY <1>1, FS_Subset
  <2>2. s \in upto(s)
    BY SizesAssumption DEF Slots
  <2>3. upto(s) # {}
    BY <2>2
  <2> QED BY <2>1, <2>3, FS_CardinalityType, FS_EmptySet
<1>3. \A s \in Slots : EnqueueAll(q, W, lv)[s] =
         IF s \in new
         THEN [lev |-> lv[s], pos |-> Cardinality(before(s)) + Cardinality(upto(s))]
         ELSE q[s]
  BY DEF EnqueueAll
<1>4. EnqueueAll(q, W, lv) = [s \in Slots |-> EnqueueAll(q, W, lv)[s]]
  BY DEF EnqueueAll
<1>5. ASSUME NEW s \in Slots
      PROVE  /\ EnqueueAll(q, W, lv)[s] \in [lev : Levels, pos : Nat]
             /\ s \in new => /\ EnqueueAll(q, W, lv)[s].pos > 0
                             /\ EnqueueAll(q, W, lv)[s].lev = lv[s]
             /\ s \notin new => EnqueueAll(q, W, lv)[s] = q[s]
  <2>1. CASE s \in new
    <3> HIDE DEF new, before, upto
    <3>1. /\ EnqueueAll(q, W, lv)[s].lev = lv[s]
          /\ EnqueueAll(q, W, lv)[s].pos = Cardinality(before(s)) + Cardinality(upto(s))
          /\ EnqueueAll(q, W, lv)[s] =
               [lev |-> lv[s], pos |-> Cardinality(before(s)) + Cardinality(upto(s))]
      BY <2>1, <1>3
    <3> QED BY <2>1, <3>1, <1>2
  <2>2. CASE s \notin new
    BY <2>2, <1>3 DEF Runqs
  <2> QED BY <2>1, <2>2
<1>6. EnqueueAll(q, W, lv) \in Runqs
  BY <1>4, <1>5 DEF Runqs
<1> QED BY <1>5, <1>6 DEF Queued

\* Unlinking a slot leaves every other slot in its list.
LEMMA RunqRemoveFact ==
    ASSUME NEW q \in Runqs, NEW s \in Slots
    PROVE  /\ RunqRemove(q, s) \in Runqs
           /\ \A t \in Slots :
                 /\ Queued(RunqRemove(q, s), t) <=> Queued(q, t) /\ t # s
                 /\ t # s => RunqRemove(q, s)[t].lev = q[t].lev
BY DEF RunqRemove, Runqs, Queued, Unlinked, Levels

\* A boost, due or not, leaves the queue sound for the boosted levels.
LEMMA BoostFact ==
    ASSUME TypeOK, QueueInv
    PROVE  /\ BoostedLevel \in [Slots -> Levels]
           /\ BoostedSlice \in [Slots -> Nat]
           /\ BoostedRunq \in Runqs
           /\ \A s \in Slots :
                 /\ Queued(BoostedRunq, s) <=> state[s] = "RUNNABLE"
                 /\ ~StillTorn /\ Queued(BoostedRunq, s) => BoostedRunq[s].lev = BoostedLevel[s]
<1>1. BoostedLevel \in [Slots -> Levels]
  BY DEF TypeOK, BoostedLevel, Levels, SCHED_MLFQ_LEVEL_HIGH
<1>2. BoostedSlice \in [Slots -> Nat]
  BY QuantumAssumption DEF TypeOK, BoostedSlice, Levels, SCHED_MLFQ_LEVEL_HIGH
<1>3. CASE ~BoostDue
  <2>1. BoostedRunq = runq /\ \A s \in Slots : BoostedLevel[s] = level[s]
    BY <1>3 DEF BoostedRunq, BoostedLevel, Boosts
  <2> QED BY <1>1, <1>2, <1>3, <2>1 DEF TypeOK, QueueInv, Runqs, StillTorn
<1>4. CASE BoostDue
  <2> DEFINE empty == [s \in Slots |-> Unlinked]
             W == {s \in Slots : state[s] = "RUNNABLE"}
  <2>1. empty \in Runqs /\ \A s \in Slots : ~Queued(empty, s)
    BY DEF Runqs, Unlinked, Queued, Levels
  <2>2. BoostedRunq = EnqueueAll(empty, W, BoostedLevel)
    BY <1>4 DEF BoostedRunq, RunqRebuild
  <2>3. W \in SUBSET Slots /\ \A s \in Slots : s \in W <=> state[s] = "RUNNABLE"
    OBVIOUS
  <2> HIDE DEF empty, W
  <2> QED BY <1>1, <1>2, <2>1, <2>2, <2>3, EnqueueAllFact
<1> QED BY <1>3, <1>4

-----------------------------------------------------------------------------
(* The operations that wake tasks. *)

\* What the end of the current task does to the table: it becomes a zombie,
\* blocked tasks may become runnable and are then queued, the rest is kept.
LEMMA NotifyExitFact ==
    ASSUME TypeOK, PidInv, QueueInv, NotifyExit
    PROVE  /\ state' \in [Slots -> States] /\ reason' \in [Slots -> Reasons]
           /\ target' \in [Slots -> 0..MaxPid] /\ wake' \in [Slots -> Nat]
           /\ runq' \in Runqs
           /\ \A s \in Slots :
                 /\ Queued(runq', s) <=> state'[s] = "RUNNABLE"
                 /\ ~torn /\ Queued(runq', s) => runq'[s].lev = level[s]
                 /\ s = Current => state'[s] = "ZOMBIE"
                 /\ s # Current => \/ state'[s] = state[s]
                                   \/ state[s] = "BLOCKED" /\ state'[s] = "RUNNABLE"
                 /\ state'[s] = "BLOCKED" => reason'[s] = reason[s]
<1> DEFINE st == [s \in Slots |-> IF s = Current THEN "ZOMBIE" ELSE state[s]]
           W == IF running_pid = 0 THEN {} ELSE WaitersFor(running_pid, st)
           q == IF Current = NoSlot THEN runq ELSE RunqRemove(runq, Current)
<1>1. /\ state' = WakeAll(W, st)
      /\ ClearWait(W)
      /\ runq' = EnqueueAll(q, Requeued(W), level)
  BY DEF NotifyExit
<1>2. /\ Current \in Slots \cup {NoSlot}
      /\ NoSlot \notin Slots
      /\ \A s \in Slots : s = Current
                            <=> running_pid # 0 /\ pid[s] = running_pid
  BY CurrentFact
<1>3. /\ W \in SUBSET Slots
      /\ \A s \in W : s # Current /\ state[s] = "BLOCKED"
  BY <1>2 DEF WaitersFor
<1>4. \A s \in Slots : s \in W => WokenState(s) = "RUNNABLE"
  <2>1. \A s \in Slots : s \in W => running_pid # 0 /\ s # Current
    BY <1>3
  <2> QED BY <1>2, <2>1 DEF WokenState
<1>5. /\ q \in Runqs
      /\ \A s \in Slots : /\ Queued(q, s) <=> st[s] = "RUNNABLE"
                          /\ ~torn /\ Queued(q, s) => q[s].lev = level[s]
  <2>1. runq \in Runqs
    BY DEF TypeOK, Runqs
  <2>2. CASE Current = NoSlot
    BY <1>2, <2>1, <2>2 DEF QueueInv
  <2>3. CASE Current # NoSlot
    <3>1. Current \in Slots
      BY <1>2, <2>3
    <3> QED BY <2>1, <2>3, <3>1, RunqRemoveFact DEF QueueInv
  <2> QED BY <2>2, <2>3
<1>6. level \in [Slots -> Levels] /\ state \in [Slots -> States]
  BY DEF TypeOK
<1>7. \A s \in Slots : st[s] = IF s = Current THEN "ZOMBIE" ELSE state[s]
  OBVIOUS
<1>8. /\ reason' \in [Slots -> Reasons]
      /\ target' \in [Slots -> 0..MaxPid]
      /\ wake' \in [Slots -> Nat]
      /\ \A s \in Slots : s \notin W => reason'[s] = reason[s]
  BY <1>1, SizesAssumption DEF ClearWait, TypeOK, Reasons
<1>9. \A s \in Slots : state'[s] = IF s \in W THEN "RUNNABLE" ELSE st[s]
  BY <1>1, <1>4 DEF WakeAll
<1>10. state' \in [Slots -> States]
  <2>1. state' = [s \in Slots |-> IF s \in W THEN WokenState(s) ELSE st[s]]
    BY <1>1 DEF WakeAll
  <2> HIDE DEF W, st
  <2> QED BY <2>1, <1>4, <1>6, <1>7 DEF States
<1>11. Requeued(W) = W
  <2> HIDE DEF W
  <2> QED BY <1>3, <1>4 DEF Requeued
<1>12. /\ runq' \in Runqs
       /\ \A s \in Slots : /\ Queued(runq', s) <=> Queued(q, s) \/ s \in W
                           /\ Queued(q, s) => runq'[s] = q[s]
                           /\ s \in W /\ ~Queued(q, s) => runq'[s].lev = level[s]
  <2>1. runq' = EnqueueAll(q, W, level)
    BY <1>1, <1>11
  <2>2. q \in Runqs
    BY <1>5
  <2> HIDE DEF W, q
  <2> QED BY <1>3, <1>6, <2>1, <2>2, EnqueueAllFact
<1> HIDE DEF W, q, st
<1> QED BY <1>3, <1>5, <1>7, <1>8, <1>9, <1>10, <1>12

\* What terminating another task does: it becomes a zombie, and blocked tasks
\* (its waiters, its parent) become runnable and are then queued.
LEMMA TerminateFact ==
    ASSUME TypeOK, PidInv, QueueInv, NEW z \in Slots,
           pid[z] # running_pid, TerminateOther(z)
    PROVE  /\ state' \in [Slots -> States] /\ reason' \in [Slots -> Reasons]
           /\ target' \in [Slots -> 0..MaxPid] /\ wake' \in [Slots -> Nat]
           /\ runq' \in Runqs
           /\ \A s \in Slots :
                 /\ Queued(runq', s) <=> state'[s] = "RUNNABLE"
                 /\ ~torn /\ Queued(runq', s) => runq'[s].lev = level[s]
                 /\ s = z => state'[s] = "ZOMBIE"
                 /\ s # z => \/ state'[s] = state[s]
                             \/ state[s] = "BLOCKED" /\ state'[s] = WokenState(s)
                 /\ state'[s] = "BLOCKED" => reason'[s] = reason[s]
<1> DEFINE st == [state EXCEPT ![z] = "ZOMBIE"]
           W == WaitersFor(pid[z], st)
           woken == WakeAll(W, st)
           P == {t \in Slots : /\ parent[z] # 0 /\ pid[t] = parent[z]
                               /\ woken[t] = "BLOCKED"}
           q == RunqRemove(runq, z)
           WQ == Requeued(W)
           PQ == Requeued(P)
           q1 == EnqueueAll(q, WQ, level)
<1>1. /\ state' = WakeAll(P, woken)
      /\ ClearWait(W)
      /\ runq' = EnqueueAll(q1, PQ, level)
  BY DEF TerminateOther, TerminateFrom
<1>2. \A s \in Slots : WokenState(s) \in {"RUNNING", "RUNNABLE"}
  BY DEF WokenState
<1>3. \A s \in Slots : st[s] = IF s = z THEN "ZOMBIE" ELSE state[s]
  BY DEF TypeOK
<1>4. /\ W \in SUBSET Slots
      /\ \A s \in W : s # z /\ state[s] = "BLOCKED" /\ st[s] = "BLOCKED"
  BY <1>3 DEF WaitersFor
<1>5. \A s \in Slots : woken[s] = IF s \in W THEN WokenState(s) ELSE st[s]
  BY DEF WakeAll
<1>6. /\ P \in SUBSET Slots
      /\ \A s \in P : s # z /\ state[s] = "BLOCKED" /\ s \notin W
  <2>1. P \in SUBSET Slots /\ \A s \in P : woken[s] = "BLOCKED"
    OBVIOUS
  <2> HIDE DEF P, W, woken, st
  <2> QED BY <2>1, <1>2, <1>3, <1>5
<1>7. \A s \in Slots : state'[s] = IF s \in W \/ s \in P THEN WokenState(s)
                                   ELSE st[s]
  <2>1. \A s \in Slots : state'[s] = IF s \in P THEN WokenState(s) ELSE woken[s]
    BY <1>1 DEF WakeAll
  <2> HIDE DEF P, W, woken, st
  <2> QED BY <2>1, <1>5
<1>8. state' \in [Slots -> States]
  <2>1. state' = [s \in Slots |-> state'[s]]
    BY <1>1 DEF WakeAll
  <2>2. \A s \in Slots : state[s] \in States
    BY DEF TypeOK
  <2> HIDE DEF P, W, st
  <2>3. \A s \in Slots : state'[s] \in States
    BY <1>2, <1>3, <1>7, <2>2 DEF States
  <2> QED BY <2>1, <2>3
<1>9. /\ reason' \in [Slots -> Reasons]
      /\ target' \in [Slots -> 0..MaxPid]
      /\ wake' \in [Slots -> Nat]
      /\ \A s \in Slots : s \notin W => reason'[s] = reason[s]
  BY <1>1, SizesAssumption DEF ClearWait, TypeOK, Reasons
<1>10. /\ q \in Runqs
       /\ \A s \in Slots : /\ Queued(q, s) <=> Queued(runq, s) /\ s # z
                           /\ s # z => q[s].lev = runq[s].lev
  BY RunqRemoveFact DEF TypeOK, Runqs
<1>11. /\ WQ \in SUBSET Slots /\ PQ \in SUBSET Slots
       /\ \A s \in Slots :
             /\ s \in WQ <=> s \in W /\ WokenState(s) = "RUNNABLE"
             /\ s \in PQ <=> s \in P /\ WokenState(s) = "RUNNABLE"
  <2> HIDE DEF W, P
  <2> QED BY <1>4, <1>6 DEF Requeued
<1>12. level \in [Slots -> Levels]
  BY DEF TypeOK
<1>13. /\ q1 \in Runqs
       /\ \A s \in Slots :
             /\ Queued(q1, s) <=> Queued(q, s) \/ s \in WQ
             /\ Queued(q, s) => q1[s] = q[s]
             /\ s \in WQ /\ ~Queued(q, s) => q1[s].lev = level[s]
  <2>1. q \in Runqs /\ WQ \in SUBSET Slots
    BY <1>10, <1>11
  <2> HIDE DEF W, WQ, q
  <2>2. q1 = EnqueueAll(q, WQ, level)
    OBVIOUS
  <2> HIDE DEF q1
  <2> QED BY <1>12, <2>1, <2>2, EnqueueAllFact
<1>14. /\ runq' \in Runqs
       /\ \A s \in Slots :
             /\ Queued(runq', s) <=> Queued(q1, s) \/ s \in PQ
             /\ Queued(q1, s) => runq'[s] = q1[s]
             /\ s \in PQ /\ ~Queued(q1, s) => runq'[s].lev = level[s]
  <2>1. q1 \in Runqs /\ PQ \in SUBSET Slots
    BY <1>11, <1>13
  <2>2. runq' = EnqueueAll(q1, PQ, level)
    BY <1>1
  <2> HIDE DEF P, PQ, q1
  <2> QED BY <1>12, <2>1, <2>2, EnqueueAllFact
<1>15. \A s \in Slots : /\ Queued(runq, s) <=> state[s] = "RUNNABLE"
                        /\ ~torn /\ Queued(runq, s) => runq[s].lev = level[s]
  BY DEF QueueInv
<1> HIDE DEF W, P, WQ, PQ, q, q1, st, woken
<1>16. ASSUME NEW s \in Slots
       PROVE  /\ Queued(runq', s) <=> state'[s] = "RUNNABLE"
              /\ ~torn /\ Queued(runq', s) => runq'[s].lev = level[s]
  BY <1>3, <1>4, <1>6, <1>7, <1>10, <1>11, <1>13, <1>14, <1>15
<1>17. ASSUME NEW s \in Slots
       PROVE  /\ s = z => state'[s] = "ZOMBIE"
              /\ s # z => \/ state'[s] = state[s]
                          \/ state[s] = "BLOCKED" /\ state'[s] = WokenState(s)
              /\ state'[s] = "BLOCKED" => reason'[s] = reason[s]
  BY <1>2, <1>3, <1>4, <1>6, <1>7, <1>9
<1> QED BY <1>8, <1>9, <1>14, <1>16, <1>17

\* A tick wakes the expired sleepers, and only them.
LEMMA SchedulerTickFact ==
    ASSUME TypeOK, PidInv, QueueInv, NEW adv \in Nat, SchedulerTick(adv)
    PROVE  /\ state' \in [Slots -> States] /\ reason' \in [Slots -> Reasons]
           /\ wake' \in [Slots -> Nat] /\ schedule_request' \in BOOLEAN
           /\ runq' \in Runqs
           /\ \A s \in Slots :
                 /\ Queued(runq', s) <=> state'[s] = "RUNNABLE"
                 /\ ~torn /\ Queued(runq', s) => runq'[s].lev = level[s]
                 /\ \/ state'[s] = state[s] /\ reason'[s] = reason[s]
                    \/ /\ state[s] = "BLOCKED" /\ reason[s] = "SLEEP"
                       /\ state'[s] = WokenState(s)
<1> DEFINE W == {s \in Slots : Expired(s, adv)}
           WQ == Requeued(W)
<1>1. /\ state' = WakeAll(W, state)
      /\ reason' = [s \in Slots |-> IF s \in W THEN "NONE" ELSE reason[s]]
      /\ wake' = [s \in Slots |-> IF wake[s] <= adv THEN 0 ELSE wake[s] - adv]
      /\ runq' = EnqueueAll(runq, WQ, level)
      /\ schedule_request' = (schedule_request \/ WQ # {})
  BY DEF SchedulerTick
<1>2. /\ W \in SUBSET Slots
      /\ \A s \in W : state[s] = "BLOCKED" /\ reason[s] = "SLEEP"
  BY DEF Expired
<1> HIDE DEF W
<1>3. \A s \in Slots : WokenState(s) \in {"RUNNING", "RUNNABLE"}
  BY DEF WokenState
<1>4. \A s \in Slots : state'[s] = IF s \in W THEN WokenState(s) ELSE state[s]
  BY <1>1 DEF WakeAll
<1>5. state' \in [Slots -> States]
  <2>1. state' = [s \in Slots |-> state'[s]]
    BY <1>1 DEF WakeAll
  <2>2. \A s \in Slots : state'[s] \in States
    BY <1>3, <1>4 DEF TypeOK, States
  <2> QED BY <2>1, <2>2
<1>6. reason' \in [Slots -> Reasons] /\ wake' \in [Slots -> Nat]
  BY <1>1 DEF TypeOK, Reasons
<1>7. schedule_request' \in BOOLEAN
  BY <1>1
<1>8. /\ WQ \in SUBSET Slots
      /\ \A s \in Slots :
            s \in WQ <=> s \in W /\ WokenState(s) = "RUNNABLE"
  BY <1>2 DEF Requeued
<1>9. /\ runq' \in Runqs
      /\ \A s \in Slots :
            /\ Queued(runq', s) <=> Queued(runq, s) \/ s \in WQ
            /\ Queued(runq, s) => runq'[s] = runq[s]
            /\ s \in WQ /\ ~Queued(runq, s) => runq'[s].lev = level[s]
  <2>1. runq \in Runqs /\ level \in [Slots -> Levels]
    BY DEF TypeOK, Runqs
  <2>2. runq' = EnqueueAll(runq, WQ, level) /\ WQ \in SUBSET Slots
    BY <1>1, <1>8
  <2> HIDE DEF WQ
  <2> QED BY <2>1, <2>2, EnqueueAllFact
<1>10. ASSUME NEW s \in Slots
       PROVE  /\ Queued(runq', s) <=> state'[s] = "RUNNABLE"
              /\ ~torn /\ Queued(runq', s) => runq'[s].lev = level[s]
  BY <1>2, <1>4, <1>8, <1>9 DEF QueueInv
<1>11. ASSUME NEW s \in Slots
       PROVE  \/ state'[s] = state[s] /\ reason'[s] = reason[s]
              \/ /\ state[s] = "BLOCKED" /\ reason[s] = "SLEEP"
                 /\ state'[s] = WokenState(s)
  BY <1>1, <1>2, <1>4
<1> QED BY <1>5, <1>6, <1>7, <1>9, <1>10, <1>11

-----------------------------------------------------------------------------
(* Every action preserves IInv.  Those that leave the table alone first. *)

\* The scheduler is entered from the shell or a polling sleep.
LEMMA PollSchedulerStep ==
    ASSUME IInv, PollScheduler
    PROVE  IInv'
<1> USE DEF IInv, idVars, waitVars, mlfqVars, boostVars, queueVars, curVars, cpuVars, PollScheduler
<1>1. TypeOK'
  BY DEF TypeOK, Modes, Returns
<1>2. PidInv' /\ QueueInv'
  BY DEF PidInv, QueueInv, Used, Queued
<1>3. RunningInv' /\ LaunchInv'
  BY DEF RunningInv, LaunchInv
<1>4. BlockInv' /\ FrameInv'
  BY DEF BlockInv, FrameInv, RunningInv
<1>5. WaitInv'
  BY DEF WaitInv
<1> QED BY <1>1, <1>2, <1>3, <1>4, <1>5

\* The scheduler is entered from waitpid.
LEMMA WaitScheduleStep ==
    ASSUME IInv, WaitSchedule
    PROVE  IInv'
<1> USE DEF IInv, idVars, waitVars, mlfqVars, boostVars, queueVars, curVars, cpuVars, WaitSchedule
<1>1. TypeOK'
  BY DEF TypeOK, Modes, Returns
<1>2. PidInv' /\ QueueInv'
  BY DEF PidInv, QueueInv, Used, Queued
<1>3. RunningInv' /\ LaunchInv'
  BY DEF RunningInv, LaunchInv
<1>4. BlockInv' /\ FrameInv'
  BY DEF BlockInv, FrameInv, RunningInv
<1>5. WaitInv'
  BY DEF WaitInv
<1> QED BY <1>1, <1>2, <1>3, <1>4, <1>5

\* A polling sleep ends.
LEMMA InactiveSleepReturnStep ==
    ASSUME IInv, InactiveSleepReturn
    PROVE  IInv'
<1> USE DEF IInv, idVars, waitVars, mlfqVars, boostVars, queueVars, curVars, cpuVars, InactiveSleepReturn
<1>1. TypeOK'
  BY DEF TypeOK, Modes, Returns
<1>2. PidInv' /\ QueueInv'
  BY DEF PidInv, QueueInv, Used, Queued
<1>3. RunningInv' /\ LaunchInv'
  BY DEF RunningInv, LaunchInv
<1>4. BlockInv' /\ FrameInv'
  BY DEF BlockInv, FrameInv, RunningInv
<1>5. WaitInv'
  BY DEF WaitInv
<1> QED BY <1>1, <1>2, <1>3, <1>4, <1>5

\* The loader unmaps the old program and marks a task active.
LEMMA LoadMapStep ==
    ASSUME IInv, LoadMap
    PROVE  IInv'
<1> USE DEF IInv, idVars, waitVars, mlfqVars, boostVars, queueVars, curVars, cpuVars, LoadMap
<1>1. TypeOK'
  <2>1. NoSlot \in Slots \cup {NoSlot} /\ "map" \in Modes
    BY DEF Modes
  <2> QED BY <2>1 DEF TypeOK
<1>2. PidInv' /\ QueueInv'
  BY DEF PidInv, QueueInv, Used, Queued
<1>3. RunningInv' /\ LaunchInv'
  BY DEF RunningInv, LaunchInv
<1>4. BlockInv' /\ FrameInv'
  BY DEF BlockInv, FrameInv, RunningInv
<1>5. WaitInv'
  BY DEF WaitInv
<1> QED BY <1>1, <1>2, <1>3, <1>4, <1>5

\* The continuation of an ended task: there is no current task then.
LEMMA AbortContinueStep ==
    ASSUME IInv, AbortContinue
    PROVE  IInv'
<1> USE DEF IInv, idVars, waitVars, mlfqVars, boostVars, queueVars, curVars, cpuVars, AbortContinue
<1>1. TypeOK'
  BY DEF TypeOK, Modes, Returns, NoSlot
<1>2. PidInv' /\ QueueInv'
  BY DEF PidInv, QueueInv, Used, Queued
<1>3. RunningInv' /\ LaunchInv'
  BY DEF RunningInv, LaunchInv
<1>4. BlockInv' /\ FrameInv'
  BY DEF BlockInv, FrameInv, RunningInv
<1>5. WaitInv'
  BY DEF WaitInv
<1> QED BY <1>1, <1>2, <1>3, <1>4, <1>5

\* A polling sleep starts.
LEMMA InactiveSleepStep ==
    ASSUME IInv, InactiveSleep
    PROVE  IInv'
<1> USE DEF IInv, idVars, waitVars, mlfqVars, boostVars, queueVars, curVars, cpuVars, InactiveSleep, Syscall
<1>0. /\ Current \in Slots \cup {NoSlot}
      /\ \A s \in Slots : s = Current <=> running_pid # 0 /\ pid[s] = running_pid
      /\ NoSlot \notin Slots
  BY CurrentFact
<1>1. TypeOK'
  BY <1>0 DEF TypeOK, Modes, Returns
<1>2. PidInv' /\ QueueInv'
  BY <1>0 DEF PidInv, QueueInv, Used, Queued
<1>3. RunningInv' /\ LaunchInv'
  BY <1>0 DEF RunningInv, LaunchInv
<1>4. BlockInv' /\ FrameInv'
  BY <1>0 DEF BlockInv, FrameInv, RunningInv
<1>5. WaitInv'
  BY <1>0 DEF WaitInv
<1> QED BY <1>1, <1>2, <1>3, <1>4, <1>5

\* execve calls the loader without a slot.
LEMMA ExecveStep ==
    ASSUME IInv, Execve
    PROVE  IInv'
<1> USE DEF IInv, idVars, waitVars, mlfqVars, boostVars, queueVars, curVars, cpuVars, Execve, Syscall
<1>0. /\ Current \in Slots \cup {NoSlot}
      /\ \A s \in Slots : s = Current <=> running_pid # 0 /\ pid[s] = running_pid
      /\ NoSlot \notin Slots
  BY CurrentFact
<1>1. TypeOK'
  BY <1>0 DEF TypeOK, Modes, Returns
<1>2. PidInv' /\ QueueInv'
  BY <1>0 DEF PidInv, QueueInv, Used, Queued
<1>3. RunningInv' /\ LaunchInv'
  BY <1>0 DEF RunningInv, LaunchInv
<1>4. BlockInv' /\ FrameInv'
  BY <1>0 DEF BlockInv, FrameInv, RunningInv
<1>5. WaitInv'
  BY <1>0 DEF WaitInv
<1> QED BY <1>1, <1>2, <1>3, <1>4, <1>5

\* A handler is installed or removed.
LEMMA SignalStep ==
    ASSUME IInv, NEW install \in BOOLEAN, Signal(install)
    PROVE  IInv'
<1> USE DEF IInv, idVars, waitVars, mlfqVars, boostVars, queueVars, curVars, cpuVars, Signal, Syscall
<1>0. /\ Current \in Slots \cup {NoSlot}
      /\ \A s \in Slots : s = Current <=> running_pid # 0 /\ pid[s] = running_pid
      /\ NoSlot \notin Slots
  BY CurrentFact
<1>1. TypeOK'
  BY <1>0 DEF TypeOK, Modes, Returns
<1>2. PidInv' /\ QueueInv'
  BY <1>0 DEF PidInv, QueueInv, Used, Queued
<1>3. RunningInv' /\ LaunchInv'
  BY <1>0 DEF RunningInv, LaunchInv
<1>4. BlockInv' /\ FrameInv'
  BY <1>0 DEF BlockInv, FrameInv, RunningInv
<1>5. WaitInv'
  BY <1>0 DEF WaitInv
<1> QED BY <1>1, <1>2, <1>3, <1>4, <1>5

-----------------------------------------------------------------------------
(* The ways a task ends. *)

\* The part of the invariant that the end of the current task re-establishes,
\* wherever the CPU goes from there.
LEMMA NotifyExitInv ==
    ASSUME IInv, NotifyExit, UNCHANGED <<pid, parent, next_pid>>,
           torn' \/ UNCHANGED <<level, torn>>
    PROVE  /\ PidInv' /\ QueueInv' /\ RunningInv' /\ BlockInv' /\ FrameInv'
           /\ running_pid' = 0 /\ pending_pid' = 0 /\ active_slot' = NoSlot
           /\ active' = FALSE /\ schedule_request' = TRUE
           /\ \A s \in Slots : state[s] = "RUNNING" /\ pid[s] # running_pid
                                   => state'[s] = "RUNNING"
<1>1. /\ running_pid' = 0 /\ pending_pid' = 0 /\ active_slot' = NoSlot
      /\ active' = FALSE /\ schedule_request' = TRUE
  BY DEF NotifyExit
<1>2. \A s \in Slots :
         /\ Queued(runq', s) <=> state'[s] = "RUNNABLE"
         /\ ~torn /\ Queued(runq', s) => runq'[s].lev = level[s]
         /\ s = Current => state'[s] = "ZOMBIE"
         /\ s # Current => \/ state'[s] = state[s]
                           \/ state[s] = "BLOCKED" /\ state'[s] = "RUNNABLE"
         /\ state'[s] = "BLOCKED" => reason'[s] = reason[s]
  BY NotifyExitFact DEF IInv
<1>3. /\ NoSlot \notin Slots
      /\ \A s \in Slots : s = Current <=> running_pid # 0 /\ pid[s] = running_pid
  BY CurrentFact DEF IInv
<1>4. PidInv'
  BY <1>2, <1>3 DEF IInv, PidInv, Used
<1>5. QueueInv'
  BY <1>2 DEF QueueInv
<1>6. RunningInv' /\ FrameInv'
  BY <1>1 DEF RunningInv, FrameInv
<1>7. BlockInv'
  BY <1>2, <1>3 DEF IInv, BlockInv, PidInv, Used
<1>8. \A s \in Slots : state[s] = "RUNNING" /\ pid[s] # running_pid
                           => state'[s] = "RUNNING"
  BY <1>2, <1>3
<1> QED BY <1>1, <1>4, <1>5, <1>6, <1>7, <1>8

\* The types after the end of the current task.
LEMMA NotifyExitTypes ==
    ASSUME IInv, NotifyExit
    PROVE  /\ state' \in [Slots -> States] /\ reason' \in [Slots -> Reasons]
           /\ target' \in [Slots -> 0..MaxPid] /\ wake' \in [Slots -> Nat]
           /\ runq' \in [Slots -> [lev : Levels, pos : Nat]]
           /\ running_pid' \in 0..MaxPid /\ pending_pid' \in 0..MaxPid
           /\ active_slot' \in Slots \cup {NoSlot}
           /\ active' \in BOOLEAN /\ schedule_request' \in BOOLEAN
<1>1. /\ running_pid' = 0 /\ pending_pid' = 0 /\ active_slot' = NoSlot
      /\ active' = FALSE /\ schedule_request' = TRUE
  BY DEF NotifyExit
<1>2. 0 \in 0..MaxPid
  BY SizesAssumption
<1> QED BY <1>1, <1>2, NotifyExitFact DEF IInv, Runqs

\* exit.
LEMMA ExitStep ==
    ASSUME IInv, Exit
    PROVE  IInv'
<1> USE DEF IInv, idVars, waitVars, mlfqVars, boostVars, queueVars, curVars, cpuVars
<1>1. /\ NotifyExit /\ mode = "user" /\ mode' = "abort"
      /\ user_interrupt' = FALSE
      /\ frame' \in [Slots -> BOOLEAN]
      /\ UNCHANGED <<idVars, mlfqVars, handler, boostVars, ret, loading,
                     prog, image, warg>>
  BY DEF Exit, TypeOK
<1>2. /\ PidInv' /\ QueueInv' /\ RunningInv' /\ BlockInv' /\ FrameInv'
      /\ pending_pid' = 0
  BY <1>1, NotifyExitInv
<1>3. TypeOK'
  BY <1>1, NotifyExitTypes DEF TypeOK, Modes
<1>4. LaunchInv' /\ WaitInv'
  BY <1>1, <1>2 DEF LaunchInv, WaitInv
<1> QED BY <1>2, <1>3, <1>4

\* A fault in ring 3.
LEMMA FaultStep ==
    ASSUME IInv, Fault
    PROVE  IInv'
<1> USE DEF IInv, idVars, waitVars, mlfqVars, boostVars, queueVars, curVars, cpuVars
<1>1. /\ NotifyExit /\ mode = "user" /\ mode' = "abort"
      /\ user_interrupt' = FALSE
      /\ frame' \in [Slots -> BOOLEAN]
      /\ UNCHANGED <<idVars, mlfqVars, handler, boostVars, ret, loading,
                     prog, image, warg>>
  BY DEF Fault, TypeOK
<1>2. /\ PidInv' /\ QueueInv' /\ RunningInv' /\ BlockInv' /\ FrameInv'
      /\ pending_pid' = 0
  BY <1>1, NotifyExitInv
<1>3. TypeOK'
  BY <1>1, NotifyExitTypes DEF TypeOK, Modes
<1>4. LaunchInv' /\ WaitInv'
  BY <1>1, <1>2 DEF LaunchInv, WaitInv
<1> QED BY <1>2, <1>3, <1>4

\* Ctrl-C out of ring 3.
LEMMA InterruptUserStep ==
    ASSUME IInv, InterruptUser
    PROVE  IInv'
<1> USE DEF IInv, idVars, waitVars, mlfqVars, boostVars, queueVars, curVars, cpuVars
<1>1. /\ NotifyExit /\ mode = "user" /\ mode' = "abort"
      /\ user_interrupt' = FALSE
      /\ frame' \in [Slots -> BOOLEAN]
      /\ UNCHANGED <<idVars, mlfqVars, handler, boostVars, ret, loading,
                     prog, image, warg>>
  BY DEF InterruptUser, TypeOK
<1>2. /\ PidInv' /\ QueueInv' /\ RunningInv' /\ BlockInv' /\ FrameInv'
      /\ pending_pid' = 0
  BY <1>1, NotifyExitInv
<1>3. TypeOK'
  BY <1>1, NotifyExitTypes DEF TypeOK, Modes
<1>4. LaunchInv' /\ WaitInv'
  BY <1>1, <1>2 DEF LaunchInv, WaitInv
<1> QED BY <1>2, <1>3, <1>4

\* Ctrl-C out of kernel mode: a launch in progress keeps its slot.
LEMMA InterruptKernelStep ==
    ASSUME IInv, InterruptKernel
    PROVE  IInv'
<1> USE DEF IInv, idVars, waitVars, mlfqVars, boostVars, queueVars, curVars, cpuVars
<1>1. /\ user_interrupt' = TRUE
      /\ UNCHANGED <<idVars, mlfqVars, frame, handler, boostVars, cpuVars>>
  BY DEF InterruptKernel
<1>2. CASE NotifyExit
  <2>1. /\ PidInv' /\ QueueInv' /\ RunningInv' /\ BlockInv' /\ FrameInv'
        /\ running_pid' = 0 /\ pending_pid' = 0
        /\ \A s \in Slots : state[s] = "RUNNING" /\ pid[s] # running_pid
                                => state'[s] = "RUNNING"
    BY <1>1, <1>2, NotifyExitInv
  <2>2. TypeOK'
    BY <1>1, <1>2, NotifyExitTypes DEF TypeOK
  <2>3. LaunchInv'
    BY <1>1, <2>1 DEF LaunchInv, PidInv, Used, TypeOK
  <2>4. WaitInv'
    BY <1>1 DEF WaitInv
  <2> QED BY <2>1, <2>2, <2>3, <2>4
<1>3. CASE UNCHANGED <<state, waitVars, runq, curVars, schedule_request>>
  <2>1. TypeOK'
    BY <1>1, <1>3 DEF TypeOK
  <2>2. PidInv' /\ QueueInv' /\ RunningInv' /\ LaunchInv'
    BY <1>1, <1>3 DEF PidInv, QueueInv, RunningInv, LaunchInv, Used, Queued
  <2>3. BlockInv' /\ FrameInv' /\ WaitInv'
    BY <1>1, <1>3 DEF BlockInv, FrameInv, WaitInv
  <2> QED BY <2>1, <2>2, <2>3
<1> QED BY <1>2, <1>3 DEF InterruptKernel

\* Ctrl-C in the middle of a list operation: the flags stay right.
LEMMA InterruptListsStep ==
    ASSUME IInv, InterruptLists
    PROVE  IInv'
<1> USE DEF IInv, idVars, waitVars, mlfqVars, boostVars, queueVars, curVars, cpuVars
<1>1. /\ NotifyExit /\ torn' = TRUE /\ user_interrupt' = TRUE
      /\ UNCHANGED <<idVars, frame, handler, cpuVars>>
  BY DEF InterruptLists
<1>2. /\ level' \in [Slots -> Levels] /\ slice' \in [Slots -> Nat]
      /\ since_boost' \in 0..BoostInterval
  <2>1. CASE UNCHANGED <<level, slice, since_boost>>
    BY <2>1 DEF TypeOK
  <2>2. CASE /\ BoostDue /\ since_boost' = 0
             /\ \E B \in SUBSET Slots :
                   /\ level' = [s \in Slots |-> IF s \in B THEN BoostedLevel[s]
                                                ELSE level[s]]
                   /\ slice' = [s \in Slots |-> IF s \in B THEN BoostedSlice[s]
                                                ELSE slice[s]]
    BY <2>2, BoostFact, SizesAssumption DEF TypeOK
  <2> QED BY <2>1, <2>2 DEF InterruptLists
<1>3. /\ PidInv' /\ QueueInv' /\ RunningInv' /\ BlockInv' /\ FrameInv'
      /\ running_pid' = 0 /\ pending_pid' = 0
      /\ \A s \in Slots : state[s] = "RUNNING" /\ pid[s] # running_pid
                              => state'[s] = "RUNNING"
  BY <1>1, NotifyExitInv
<1>4. TypeOK'
  BY <1>1, <1>2, NotifyExitTypes DEF TypeOK
<1>5. LaunchInv'
  BY <1>1, <1>3 DEF LaunchInv, PidInv, Used, TypeOK
<1>6. WaitInv'
  BY <1>1 DEF WaitInv
<1> QED BY <1>3, <1>4, <1>5, <1>6

\* kill: whoever it hits, the task on the CPU stays there or is gone.
LEMMA KillStep ==
    ASSUME IInv, NEW p \in Pids, NEW sig \in Signals, Kill(p, sig)
    PROVE  IInv'
<1> USE DEF IInv, idVars, waitVars, mlfqVars, boostVars, queueVars, curVars, cpuVars
<1> DEFINE s == FindSlot(p)
<1>1. /\ mode = "user" /\ mode' = "ret"
      /\ frame' = [t \in Slots |-> frame[t] \/ (active /\ t = Current)]
      /\ UNCHANGED <<idVars, mlfqVars, handler, boostVars, ret, loading,
                     prog, image, warg>>
  BY DEF Kill, Syscall
<1>2. s \in Slots /\ pid[s] = p
  <2>1. p \in Nat /\ s # NoSlot
    BY SizesAssumption DEF Pids, Kill
  <2> QED BY <2>1, FindSlotFact
<1>3. /\ NoSlot \notin Slots
      /\ \A t \in Slots : t = Current <=> running_pid # 0 /\ pid[t] = running_pid
  BY CurrentFact
<1>4. \/ /\ user_interrupt' \in BOOLEAN /\ schedule_request' \in BOOLEAN
         /\ UNCHANGED <<state, waitVars, runq, curVars>>
      \/ NotifyExit /\ UNCHANGED user_interrupt
      \/ /\ p # running_pid /\ TerminateOther(s)
         /\ UNCHANGED <<curVars, user_interrupt>>
  BY DEF Kill, TypeOK
<1> HIDE DEF s
<1>5. loading = NoSlot /\ pending_pid = 0 /\ ret # "wait"
  BY <1>1 DEF LaunchInv, WaitInv
<1>6. frame' \in [Slots -> BOOLEAN]
  BY <1>1 DEF TypeOK
<1>7. CASE /\ user_interrupt' \in BOOLEAN /\ schedule_request' \in BOOLEAN
           /\ UNCHANGED <<state, waitVars, runq, curVars>>
  <2>1. TypeOK'
    BY <1>1, <1>6, <1>7 DEF TypeOK, Modes
  <2>2. PidInv' /\ QueueInv' /\ RunningInv' /\ LaunchInv' /\ WaitInv'
    BY <1>1, <1>5, <1>7
       DEF PidInv, QueueInv, RunningInv, LaunchInv, WaitInv, Used, Queued
  <2>3. BlockInv' /\ FrameInv'
    BY <1>1, <1>3, <1>7 DEF BlockInv, FrameInv
  <2> QED BY <2>1, <2>2, <2>3
<1>8. CASE NotifyExit /\ UNCHANGED user_interrupt
  <2>1. /\ PidInv' /\ QueueInv' /\ RunningInv' /\ BlockInv' /\ FrameInv'
        /\ pending_pid' = 0
    BY <1>1, <1>8, NotifyExitInv
  <2>2. TypeOK'
    BY <1>1, <1>6, <1>8, NotifyExitTypes DEF TypeOK, Modes
  <2>3. LaunchInv' /\ WaitInv'
    BY <1>1, <1>5, <2>1 DEF LaunchInv, WaitInv
  <2> QED BY <2>1, <2>2, <2>3
<1>9. CASE /\ p # running_pid /\ TerminateOther(s)
           /\ UNCHANGED <<curVars, user_interrupt>>
  <2>1. /\ state' \in [Slots -> States] /\ reason' \in [Slots -> Reasons]
        /\ target' \in [Slots -> 0..MaxPid] /\ wake' \in [Slots -> Nat]
        /\ runq' \in Runqs
        /\ \A t \in Slots :
              /\ Queued(runq', t) <=> state'[t] = "RUNNABLE"
              /\ ~torn /\ Queued(runq', t) => runq'[t].lev = level[t]
              /\ t = s => state'[t] = "ZOMBIE"
              /\ t # s => \/ state'[t] = state[t]
                          \/ state[t] = "BLOCKED" /\ state'[t] = WokenState(t)
              /\ state'[t] = "BLOCKED" => reason'[t] = reason[t]
    BY <1>2, <1>9, TerminateFact
  <2>2. schedule_request' = TRUE
    BY <1>9 DEF TerminateOther, TerminateFrom
  <2>3. \A t \in Slots : WokenState(t) = IF pid[t] = running_pid
                                         THEN "RUNNING" ELSE "RUNNABLE"
    BY DEF WokenState
  <2>4. TypeOK'
    BY <1>1, <1>6, <1>9, <2>1, <2>2 DEF TypeOK, Modes, Runqs
  <2>5. Used(s)
    BY <1>2, SizesAssumption DEF PidInv, Pids
  <2>6. PidInv'
    BY <1>1, <1>2, <2>1, <2>3, <2>5 DEF PidInv, Used
  <2>7. QueueInv'
    BY <1>1, <2>1 DEF QueueInv
  <2>8. RunningInv'
    BY <1>1, <1>2, <1>9, <2>1, <2>3 DEF RunningInv
  <2>9. LaunchInv' /\ WaitInv'
    BY <1>1, <1>5, <1>9 DEF LaunchInv, WaitInv
  <2>10. BlockInv'
    BY <1>1, <1>9, <2>1, <2>3 DEF BlockInv
  <2>11. FrameInv'
    BY <1>1, <1>3, <1>9, <2>1, <2>3 DEF FrameInv
  <2> QED BY <2>4, <2>6, <2>7, <2>8, <2>9, <2>10, <2>11
<1> QED BY <1>4, <1>7, <1>8, <1>9

-----------------------------------------------------------------------------
(* Blocking and unblocking the current task. *)

\* Blocking touches the current slot only, and takes it out of the queue.
LEMMA BlockCurrentFact ==
    ASSUME IInv, NEW why \in Reasons, NEW what \in 0..MaxPid,
           NEW ticks \in Nat, BlockCurrent(why, what, ticks)
    PROVE  /\ state' \in [Slots -> States] /\ reason' \in [Slots -> Reasons]
           /\ target' \in [Slots -> 0..MaxPid] /\ wake' \in [Slots -> Nat]
           /\ runq' \in Runqs /\ schedule_request' \in BOOLEAN
           /\ \A s \in Slots :
                 /\ state'[s] = IF s = Current THEN "BLOCKED" ELSE state[s]
                 /\ reason'[s] = IF s = Current THEN why ELSE reason[s]
                 /\ Queued(runq', s) <=> state'[s] = "RUNNABLE"
                 /\ ~torn /\ Queued(runq', s) => runq'[s].lev = level[s]
<1> USE DEF IInv
<1>1. Current \in Slots \cup {NoSlot} /\ NoSlot \notin Slots
  BY CurrentFact
<1>2. CASE Current = NoSlot
  <2>1. UNCHANGED <<state, reason, target, wake, runq, schedule_request>>
    BY <1>2 DEF BlockCurrent
  <2> QED BY <1>1, <1>2, <2>1 DEF TypeOK, QueueInv, Queued, Runqs
<1>3. CASE Current # NoSlot
  <2> DEFINE c == Current
  <2>1. c \in Slots
    BY <1>1, <1>3
  <2>2. /\ state' = [state EXCEPT ![c] = "BLOCKED"]
        /\ reason' = [reason EXCEPT ![c] = why]
        /\ target' = [target EXCEPT ![c] = what]
        /\ wake' = [wake EXCEPT ![c] = ticks]
        /\ runq' = RunqRemove(runq, c)
        /\ schedule_request' = TRUE
    BY <1>3 DEF BlockCurrent
  <2>3. runq \in Runqs
    BY DEF TypeOK, Runqs
  <2> HIDE DEF c
  <2>4. /\ runq' \in Runqs
        /\ \A t \in Slots : /\ Queued(runq', t) <=> Queued(runq, t) /\ t # c
                            /\ t # c => runq'[t].lev = runq[t].lev
    BY <2>1, <2>2, <2>3, RunqRemoveFact
  <2>5. /\ state' \in [Slots -> States] /\ reason' \in [Slots -> Reasons]
        /\ target' \in [Slots -> 0..MaxPid] /\ wake' \in [Slots -> Nat]
    BY <2>1, <2>2 DEF TypeOK, States
  <2>6. \A s \in Slots :
           /\ state'[s] = IF s = c THEN "BLOCKED" ELSE state[s]
           /\ reason'[s] = IF s = c THEN why ELSE reason[s]
    BY <2>1, <2>2 DEF TypeOK
  <2>7. \A s \in Slots :
           /\ Queued(runq', s) <=> state'[s] = "RUNNABLE"
           /\ ~torn /\ Queued(runq', s) => runq'[s].lev = level[s]
    BY <2>4, <2>6 DEF QueueInv
  <2> QED BY <2>2, <2>4, <2>5, <2>6, <2>7 DEF c
<1> QED BY <1>2, <1>3

\* Unblocking touches the current slot only, and leaves it running.
LEMMA UnblockCurrentFact ==
    ASSUME IInv, UnblockCurrent
    PROVE  /\ state' \in [Slots -> States] /\ reason' \in [Slots -> Reasons]
           /\ target' \in [Slots -> 0..MaxPid] /\ wake' \in [Slots -> Nat]
           /\ \A s \in Slots :
                 /\ state'[s] = IF s = Current /\ state[s] = "BLOCKED"
                                THEN "RUNNING" ELSE state[s]
                 /\ s # Current => reason'[s] = reason[s]
<1> USE DEF IInv
<1>1. state' = [s \in Slots |-> IF s = Current /\ state[s] = "BLOCKED"
                                THEN "RUNNING" ELSE state[s]]
  BY DEF UnblockCurrent, UnblockedState
<1>2. state' \in [Slots -> States]
  BY <1>1 DEF TypeOK, States
<1>3. /\ reason' \in [Slots -> Reasons] /\ target' \in [Slots -> 0..MaxPid]
      /\ wake' \in [Slots -> Nat]
      /\ \A s \in Slots : s # Current => reason'[s] = reason[s]
  BY SizesAssumption DEF UnblockCurrent, ClearWait, TypeOK, Reasons
<1> QED BY <1>1, <1>2, <1>3

\* SLEEP_US blocks the caller.
LEMMA SleepStep ==
    ASSUME IInv, NEW u \in SleepArgs, Sleep(u)
    PROVE  IInv'
<1> USE DEF IInv, idVars, waitVars, mlfqVars, boostVars, queueVars, curVars, cpuVars
<1>1. /\ mode = "user" /\ mode' = "sleep"
      /\ frame' = [t \in Slots |-> frame[t] \/ (active /\ t = Current)]
      /\ BlockCurrent("SLEEP", 0, NeededTicks(u))
      /\ UNCHANGED <<pid, parent, level, slice, handler, boostVars, next_pid,
                     curVars, user_interrupt, ret, loading, prog, image, warg>>
  BY DEF Sleep, Syscall
<1>2. 0 \in 0..MaxPid /\ NeededTicks(u) \in Nat /\ "SLEEP" \in Reasons
  BY SizesAssumption, InputsAssumption DEF Reasons, NeededTicks
<1>3. /\ state' \in [Slots -> States] /\ reason' \in [Slots -> Reasons]
      /\ target' \in [Slots -> 0..MaxPid] /\ wake' \in [Slots -> Nat]
      /\ runq' \in Runqs /\ schedule_request' \in BOOLEAN
      /\ \A s \in Slots :
            /\ state'[s] = IF s = Current THEN "BLOCKED" ELSE state[s]
            /\ reason'[s] = IF s = Current THEN "SLEEP" ELSE reason[s]
            /\ Queued(runq', s) <=> state'[s] = "RUNNABLE"
            /\ ~torn /\ Queued(runq', s) => runq'[s].lev = level[s]
  BY <1>1, <1>2, BlockCurrentFact
<1>4. \A t \in Slots : t = Current <=> running_pid # 0 /\ pid[t] = running_pid
  BY CurrentFact
<1>5. frame' \in [Slots -> BOOLEAN]
  BY <1>1 DEF TypeOK
<1>6. TypeOK'
  BY <1>1, <1>3, <1>5 DEF TypeOK, Runqs, Modes
<1>7. PidInv' /\ QueueInv'
  BY <1>1, <1>3, <1>4 DEF PidInv, QueueInv, Used
<1>8. RunningInv' /\ LaunchInv' /\ WaitInv'
  BY <1>1, <1>3, <1>4 DEF RunningInv, LaunchInv, WaitInv
<1>9. BlockInv'
  BY <1>1, <1>3, <1>4 DEF BlockInv
<1>10. FrameInv'
  BY <1>1, <1>3, <1>4 DEF FrameInv
<1> QED BY <1>6, <1>7, <1>8, <1>9, <1>10

\* GUI_WAIT_EVENT blocks the caller.
LEMMA GuiWaitStep ==
    ASSUME IInv, GuiWait
    PROVE  IInv'
<1> USE DEF IInv, idVars, waitVars, mlfqVars, boostVars, queueVars, curVars, cpuVars
<1>1. /\ mode = "user" /\ mode' = "gui"
      /\ frame' = [t \in Slots |-> frame[t] \/ (active /\ t = Current)]
      /\ BlockCurrent("GUI", 0, 0)
      /\ UNCHANGED <<pid, parent, level, slice, handler, boostVars, next_pid,
                     curVars, user_interrupt, ret, loading, prog, image, warg>>
  BY DEF GuiWait, Syscall
<1>2. 0 \in 0..MaxPid /\ 0 \in Nat /\ "GUI" \in Reasons
  BY SizesAssumption, InputsAssumption DEF Reasons
<1>3. /\ state' \in [Slots -> States] /\ reason' \in [Slots -> Reasons]
      /\ target' \in [Slots -> 0..MaxPid] /\ wake' \in [Slots -> Nat]
      /\ runq' \in Runqs /\ schedule_request' \in BOOLEAN
      /\ \A s \in Slots :
            /\ state'[s] = IF s = Current THEN "BLOCKED" ELSE state[s]
            /\ reason'[s] = IF s = Current THEN "GUI" ELSE reason[s]
            /\ Queued(runq', s) <=> state'[s] = "RUNNABLE"
            /\ ~torn /\ Queued(runq', s) => runq'[s].lev = level[s]
  BY <1>1, <1>2, BlockCurrentFact
<1>4. \A t \in Slots : t = Current <=> running_pid # 0 /\ pid[t] = running_pid
  BY CurrentFact
<1>5. frame' \in [Slots -> BOOLEAN]
  BY <1>1 DEF TypeOK
<1>6. TypeOK'
  BY <1>1, <1>3, <1>5 DEF TypeOK, Runqs, Modes
<1>7. PidInv' /\ QueueInv'
  BY <1>1, <1>3, <1>4 DEF PidInv, QueueInv, Used
<1>8. RunningInv' /\ LaunchInv' /\ WaitInv'
  BY <1>1, <1>3, <1>4 DEF RunningInv, LaunchInv, WaitInv
<1>9. BlockInv'
  BY <1>1, <1>3, <1>4 DEF BlockInv
<1>10. FrameInv'
  BY <1>1, <1>3, <1>4 DEF FrameInv
<1> QED BY <1>6, <1>7, <1>8, <1>9, <1>10

\* The sleeping call returns.
LEMMA SleepReturnStep ==
    ASSUME IInv, SleepReturn
    PROVE  IInv'
<1> USE DEF IInv, idVars, waitVars, mlfqVars, boostVars, queueVars, curVars, cpuVars
<1>1. /\ UnblockCurrent /\ mode = "sleep" /\ mode' = "ret"
      /\ UNCHANGED <<idVars, mlfqVars, frame, handler, queueVars, curVars,
                     schedule_request, user_interrupt, ret, loading, prog,
                     image, warg>>
  BY DEF SleepReturn
<1>2. /\ state' \in [Slots -> States] /\ reason' \in [Slots -> Reasons]
      /\ target' \in [Slots -> 0..MaxPid] /\ wake' \in [Slots -> Nat]
      /\ \A s \in Slots :
            /\ state'[s] = IF s = Current /\ state[s] = "BLOCKED"
                           THEN "RUNNING" ELSE state[s]
            /\ s # Current => reason'[s] = reason[s]
  BY <1>1, UnblockCurrentFact
<1>3. \A t \in Slots : t = Current <=> running_pid # 0 /\ pid[t] = running_pid
  BY CurrentFact
<1>4. TypeOK'
  BY <1>1, <1>2 DEF TypeOK, Modes
<1>5. PidInv' /\ QueueInv'
  BY <1>1, <1>2, <1>3 DEF PidInv, QueueInv, Used, Queued
<1>6. RunningInv' /\ LaunchInv' /\ WaitInv'
  BY <1>1, <1>2, <1>3 DEF RunningInv, LaunchInv, WaitInv
<1>7. BlockInv'
  BY <1>1, <1>2, <1>3 DEF BlockInv, PidInv, Used
<1>8. FrameInv'
  BY <1>1, <1>2, <1>3 DEF FrameInv
<1> QED BY <1>4, <1>5, <1>6, <1>7, <1>8

\* The GUI wait returns.
LEMMA GuiReturnStep ==
    ASSUME IInv, GuiReturn
    PROVE  IInv'
<1> USE DEF IInv, idVars, waitVars, mlfqVars, boostVars, queueVars, curVars, cpuVars
<1>1. /\ UnblockCurrent /\ mode = "gui" /\ mode' = "ret"
      /\ UNCHANGED <<idVars, mlfqVars, frame, handler, queueVars, curVars,
                     schedule_request, user_interrupt, ret, loading, prog,
                     image, warg>>
  BY DEF GuiReturn
<1>2. /\ state' \in [Slots -> States] /\ reason' \in [Slots -> Reasons]
      /\ target' \in [Slots -> 0..MaxPid] /\ wake' \in [Slots -> Nat]
      /\ \A s \in Slots :
            /\ state'[s] = IF s = Current /\ state[s] = "BLOCKED"
                           THEN "RUNNING" ELSE state[s]
            /\ s # Current => reason'[s] = reason[s]
  BY <1>1, UnblockCurrentFact
<1>3. \A t \in Slots : t = Current <=> running_pid # 0 /\ pid[t] = running_pid
  BY CurrentFact
<1>4. TypeOK'
  BY <1>1, <1>2 DEF TypeOK, Modes
<1>5. PidInv' /\ QueueInv'
  BY <1>1, <1>2, <1>3 DEF PidInv, QueueInv, Used, Queued
<1>6. RunningInv' /\ LaunchInv' /\ WaitInv'
  BY <1>1, <1>2, <1>3 DEF RunningInv, LaunchInv, WaitInv
<1>7. BlockInv'
  BY <1>1, <1>2, <1>3 DEF BlockInv, PidInv, Used
<1>8. FrameInv'
  BY <1>1, <1>2, <1>3 DEF FrameInv
<1> QED BY <1>4, <1>5, <1>6, <1>7, <1>8

-----------------------------------------------------------------------------
(* waitpid and spawn. *)

\* waitpid blocks the caller when it has something to wait for.
LEMMA WaitpidStep ==
    ASSUME IInv, NEW p \in Pids, NEW nohang \in BOOLEAN, Waitpid(p, nohang)
    PROVE  IInv'
<1> USE DEF IInv, idVars, waitVars, mlfqVars, boostVars, queueVars, curVars, cpuVars
<1>1. /\ mode = "user"
      /\ frame' = [t \in Slots |-> frame[t] \/ (active /\ t = Current)]
      /\ UNCHANGED <<idVars, mlfqVars, handler, boostVars, curVars,
                     user_interrupt, ret, loading, prog, image>>
  BY DEF Waitpid, Syscall
<1>2. \/ mode' = "ret" /\ UNCHANGED warg
      \/ /\ mode' = "wait" /\ FindSlot(p) # NoSlot
         /\ warg' = [pid |-> p, nohang |-> nohang]
  BY DEF Waitpid
<1>3. /\ p \in 0..MaxPid /\ p \in Nat /\ p # 0
      /\ 0 \in Nat /\ "WAITPID" \in Reasons
  BY SizesAssumption DEF Reasons, Pids
<1>4. /\ state' \in [Slots -> States] /\ reason' \in [Slots -> Reasons]
      /\ target' \in [Slots -> 0..MaxPid] /\ wake' \in [Slots -> Nat]
      /\ runq' \in Runqs /\ schedule_request' \in BOOLEAN
      /\ \A s \in Slots :
            /\ Queued(runq', s) <=> state'[s] = "RUNNABLE"
            /\ ~torn /\ Queued(runq', s) => runq'[s].lev = level[s]
            /\ \/ state'[s] = state[s] /\ reason'[s] = reason[s]
               \/ /\ s = Current /\ state'[s] = "BLOCKED"
                  /\ reason'[s] = "WAITPID"
  <2>1. CASE BlockCurrent("WAITPID", p, 0)
    BY <1>3, <2>1, BlockCurrentFact
  <2>2. CASE UNCHANGED <<state, waitVars, runq, schedule_request>>
    BY <2>2 DEF TypeOK, QueueInv, Queued, Runqs
  <2> QED BY <2>1, <2>2 DEF Waitpid
<1>5. \A t \in Slots : t = Current <=> running_pid # 0 /\ pid[t] = running_pid
  BY CurrentFact
<1>6. frame' \in [Slots -> BOOLEAN]
  BY <1>1 DEF TypeOK
<1>7. warg' \in [pid : 0..MaxPid, nohang : BOOLEAN] /\ mode' \in Modes
  BY <1>2, <1>3 DEF TypeOK, Modes
<1>8. TypeOK'
  BY <1>1, <1>4, <1>6, <1>7 DEF TypeOK, Runqs
<1>9. PidInv' /\ QueueInv'
  BY <1>1, <1>4, <1>5 DEF PidInv, QueueInv, Used
<1>10. RunningInv' /\ LaunchInv'
  BY <1>1, <1>2, <1>4, <1>5 DEF RunningInv, LaunchInv
<1>11. BlockInv'
  BY <1>1, <1>4, <1>5 DEF BlockInv
<1>12. FrameInv'
  BY <1>1, <1>4, <1>5 DEF FrameInv
<1>13. FindSlot(p) # NoSlot => \E s \in Slots : pid[s] # 0 /\ pid[s] = p
  BY <1>3, FindSlotFact
<1>14. WaitInv'
  BY <1>1, <1>2, <1>13 DEF WaitInv
<1> QED BY <1>8, <1>9, <1>10, <1>11, <1>12, <1>14

\* waitpid reaps: the slot it frees is neither queued nor current.
LEMMA WaitReapStep ==
    ASSUME IInv, WaitReap
    PROVE  IInv'
<1> USE DEF IInv, idVars, waitVars, mlfqVars, boostVars, queueVars, curVars, cpuVars
<1> DEFINE z == FindSlot(warg.pid)
<1>1. /\ mode = "wait" /\ z # NoSlot /\ state[z] = "ZOMBIE"
      /\ state' = [UnblockedState EXCEPT ![z] = "UNUSED"]
      /\ ClearWait({Current, z})
      /\ runq' = RunqRemove(runq, z)
      /\ pid' = [pid EXCEPT ![z] = 0]
      /\ level' = [level EXCEPT ![z] = SCHED_MLFQ_LEVEL_HIGH]
      /\ slice' = [slice EXCEPT ![z] = Quantum[SCHED_MLFQ_LEVEL_HIGH]]
      /\ frame' = [frame EXCEPT ![z] = FALSE]
      /\ schedule_request' = TRUE /\ mode' = "ret" /\ warg' = NoWait
      /\ UNCHANGED <<parent, next_pid, handler, boostVars, curVars,
                     user_interrupt, ret, loading, prog, image>>
  BY DEF WaitReap
<1>2. z \in Slots
  <2>1. warg.pid \in Nat
    BY SizesAssumption DEF TypeOK
  <2> QED BY <1>1, <2>1, FindSlotFact
<1> HIDE DEF z
<1>3. \A t \in Slots : t = Current <=> running_pid # 0 /\ pid[t] = running_pid
  BY CurrentFact
<1>4. /\ runq \in Runqs /\ runq' \in Runqs
      /\ \A t \in Slots : /\ Queued(runq', t) <=> Queued(runq, t) /\ t # z
                          /\ t # z => runq'[t].lev = runq[t].lev
  <2>1. runq \in Runqs
    BY DEF TypeOK, Runqs
  <2> QED BY <1>1, <1>2, <2>1, RunqRemoveFact
<1>5. \A s \in Slots : state'[s] = IF s = z THEN "UNUSED"
                                   ELSE IF s = Current /\ state[s] = "BLOCKED"
                                        THEN "RUNNING" ELSE state[s]
  BY <1>1, <1>2 DEF UnblockedState
<1>6. state' \in [Slots -> States]
  <2>1. UnblockedState \in [Slots -> States]
    BY DEF UnblockedState, TypeOK, States
  <2> QED BY <1>1, <2>1 DEF States
<1>7. /\ reason' \in [Slots -> Reasons] /\ target' \in [Slots -> 0..MaxPid]
      /\ wake' \in [Slots -> Nat]
      /\ \A s \in Slots : s # Current /\ s # z => reason'[s] = reason[s]
  BY <1>1, SizesAssumption DEF ClearWait, TypeOK, Reasons
<1>8. /\ pid' \in [Slots -> 0..MaxPid] /\ level' \in [Slots -> Levels]
      /\ slice' \in [Slots -> Nat] /\ frame' \in [Slots -> BOOLEAN]
  <2>1. /\ 0 \in 0..MaxPid /\ SCHED_MLFQ_LEVEL_HIGH \in Levels
        /\ Quantum[SCHED_MLFQ_LEVEL_HIGH] \in Nat
    BY SizesAssumption, QuantumAssumption DEF Levels, SCHED_MLFQ_LEVEL_HIGH
  <2>2. /\ pid \in [Slots -> 0..MaxPid] /\ level \in [Slots -> Levels]
        /\ slice \in [Slots -> Nat] /\ frame \in [Slots -> BOOLEAN]
    BY DEF TypeOK
  <2>3. frame' \in [Slots -> BOOLEAN]
    BY <1>1, <2>2
  <2> QED BY <1>1, <2>1, <2>2, <2>3
<1>9. \A s \in Slots : /\ pid'[s] = IF s = z THEN 0 ELSE pid[s]
                       /\ s # z => level'[s] = level[s]
                       /\ frame'[s] => frame[s]
  BY <1>1, <1>2 DEF TypeOK
<1>10. warg' \in [pid : 0..MaxPid, nohang : BOOLEAN]
  BY <1>1, SizesAssumption DEF NoWait
<1>11. TypeOK'
  BY <1>1, <1>4, <1>6, <1>7, <1>8, <1>10 DEF TypeOK, Modes, Runqs
<1>12. PidInv'
  <2>1. \A s \in Slots : pid'[s] # 0 <=> Used(s)'
    BY <1>5, <1>9 DEF PidInv, Used
  <2>2. next_pid \in Nat \ {0}
    BY SizesAssumption DEF TypeOK
  <2> QED BY <1>1, <1>9, <2>1, <2>2 DEF PidInv
<1>13. QueueInv'
  <2>1. \A s \in Slots : Queued(runq', s) => s # z /\ Queued(runq, s)
    BY <1>4
  <2>2. \A s \in Slots : state'[s] = "RUNNABLE" <=> state[s] = "RUNNABLE"
    BY <1>1, <1>5
  <2> QED BY <1>1, <1>4, <1>9, <2>1, <2>2 DEF QueueInv
<1>14. RunningInv'
  <2> SUFFICES ASSUME running_pid' # 0 PROVE RunningInv'
    BY DEF RunningInv
  <2>1. PICK c \in Slots : pid[c] = running_pid
                           /\ state[c] \in {"RUNNING", "BLOCKED"}
    BY <1>1 DEF RunningInv
  <2>2. c # z /\ pid'[c] = running_pid' /\ state'[c] = "RUNNING"
    BY <1>1, <1>3, <1>5, <1>9, <2>1
  <2> QED BY <1>1, <2>1, <2>2 DEF RunningInv
<1>15. LaunchInv' /\ WaitInv'
  BY <1>1 DEF LaunchInv, WaitInv
<1>16. BlockInv'
  BY <1>1, <1>3, <1>5, <1>7, <1>9 DEF BlockInv
<1>17. FrameInv'
  BY <1>1, <1>3, <1>5, <1>9 DEF FrameInv
<1> QED BY <1>11, <1>12, <1>13, <1>14, <1>15, <1>16, <1>17

\* What every spawn does, whoever calls it.
LEMMA SpawnSlotInv ==
    ASSUME IInv, NEW n \in Slots, NEW back \in {"shell", "ret"},
           mode \in {"shell", "user"}, SpawnSlot(n, back),
           frame' \in [Slots -> BOOLEAN],
           \A s \in Slots : frame'[s] =>
               s # n /\ (frame[s] \/ (running_pid # 0 /\ pid[s] = running_pid))
    PROVE  IInv'
<1> USE DEF IInv, idVars, waitVars, mlfqVars, boostVars, queueVars, curVars, cpuVars
<1>1. /\ ~Used(n) /\ next_pid <= MaxPid /\ next_pid' = next_pid + 1
      /\ pid' = [pid EXCEPT ![n] = next_pid]
      /\ parent' = [parent EXCEPT ![n] = running_pid]
      /\ state' = [state EXCEPT ![n] = "RUNNABLE"]
      /\ reason' = [reason EXCEPT ![n] = "NONE"]
      /\ target' = [target EXCEPT ![n] = 0]
      /\ wake' = [wake EXCEPT ![n] = 0]
      /\ level' = [level EXCEPT ![n] = SCHED_MLFQ_LEVEL_HIGH]
      /\ slice' = [slice EXCEPT ![n] = Quantum[SCHED_MLFQ_LEVEL_HIGH]]
      /\ handler' = [handler EXCEPT ![n] = FALSE]
      /\ schedule_request' = (schedule_request \/ active)
      /\ UNCHANGED <<boostVars, curVars, user_interrupt, loading, prog,
                     image, warg>>
  BY DEF SpawnSlot, FreeSlot, NextPid
<1>2. mode' \in {"shell", "ret", "sched"} /\ ret' \in {"shell", "ret", ret}
  BY DEF SpawnSlot
<1>3. next_pid \in Nat \ {0} /\ next_pid \in 0..MaxPid
  BY <1>1, SizesAssumption DEF TypeOK
<1>4. level' \in [Slots -> Levels]
  BY <1>1 DEF TypeOK, Levels, SCHED_MLFQ_LEVEL_HIGH
<1>5. /\ runq \in Runqs /\ runq' \in Runqs
      /\ \A s \in Slots :
            /\ Queued(runq', s) <=> Queued(runq, s) \/ s = n
            /\ Queued(runq, s) => runq'[s] = runq[s]
            /\ s = n /\ ~Queued(runq, s) => runq'[s].lev = level'[s]
  <2> DEFINE W == {n}
             lv == level'
  <2>1. /\ runq \in Runqs /\ W \in SUBSET Slots
        /\ lv \in [Slots -> Levels]
        /\ \A s \in Slots : s \in W <=> s = n
    BY <1>4 DEF TypeOK, Runqs
  <2>2. runq' = EnqueueAll(runq, W, lv)
    BY DEF SpawnSlot
  <2> HIDE DEF W, lv
  <2>3. /\ runq' \in Runqs
        /\ \A s \in Slots :
              /\ Queued(runq', s) <=> Queued(runq, s) \/ s \in W
              /\ Queued(runq, s) => runq'[s] = runq[s]
              /\ s \in W /\ ~Queued(runq, s) => runq'[s].lev = lv[s]
    BY <2>1, <2>2, EnqueueAllFact
  <2> QED BY <2>1, <2>3 DEF lv
<1>6. \A s \in Slots :
         /\ state'[s] = IF s = n THEN "RUNNABLE" ELSE state[s]
         /\ pid'[s] = IF s = n THEN next_pid ELSE pid[s]
         /\ s # n => reason'[s] = reason[s] /\ level'[s] = level[s]
  BY <1>1 DEF TypeOK
<1>7. /\ pid' \in [Slots -> 0..MaxPid] /\ parent' \in [Slots -> 0..MaxPid]
      /\ state' \in [Slots -> States] /\ reason' \in [Slots -> Reasons]
      /\ target' \in [Slots -> 0..MaxPid] /\ wake' \in [Slots -> Nat]
      /\ slice' \in [Slots -> Nat] /\ handler' \in [Slots -> BOOLEAN]
  BY <1>1, <1>3, SizesAssumption, QuantumAssumption
     DEF TypeOK, States, Reasons, Levels, SCHED_MLFQ_LEVEL_HIGH
<1>8. next_pid' \in 1..(MaxPid + 1) /\ schedule_request' \in BOOLEAN
  BY <1>1, <1>3, SizesAssumption DEF TypeOK
<1>9. mode' \in Modes /\ ret' \in Returns
  BY <1>2 DEF TypeOK, Modes, Returns
<1>10. TypeOK'
  BY <1>1, <1>4, <1>5, <1>7, <1>8, <1>9 DEF TypeOK, Runqs
<1>11. PidInv'
  <2>1. \A s \in Slots : pid[s] \in Nat /\ pid[s] < next_pid
    BY SizesAssumption DEF TypeOK, PidInv
  <2> QED BY <1>1, <1>3, <1>6, <2>1 DEF PidInv, Used
<1>12. QueueInv'
  BY <1>1, <1>5, <1>6 DEF QueueInv, Used
<1>13. RunningInv'
  BY <1>1, <1>2, <1>6 DEF RunningInv, Used
<1>14. LaunchInv' /\ WaitInv'
  BY <1>1, <1>2 DEF LaunchInv, WaitInv
<1>15. BlockInv'
  BY <1>1, <1>6 DEF BlockInv
<1>16. FrameInv'
  BY <1>1, <1>6 DEF FrameInv
<1> QED BY <1>10, <1>11, <1>12, <1>13, <1>14, <1>15, <1>16

\* A spawn from the shell.
LEMMA ShellSpawnStep ==
    ASSUME IInv, NEW n \in Slots, ShellSpawn(n)
    PROVE  IInv'
<1>1. /\ mode = "shell" /\ SpawnSlot(n, "shell")
      /\ frame' = [frame EXCEPT ![n] = FALSE]
  BY DEF ShellSpawn
<1>2. /\ frame' \in [Slots -> BOOLEAN]
      /\ \A s \in Slots : frame'[s] => s # n /\ frame[s]
  BY <1>1 DEF IInv, TypeOK
<1>3. /\ mode \in {"shell", "user"} /\ "shell" \in {"shell", "ret"}
      /\ \A s \in Slots : frame'[s] =>
            s # n /\ (frame[s] \/ (running_pid # 0 /\ pid[s] = running_pid))
  BY <1>1, <1>2
<1> QED BY <1>1, <1>2, <1>3, SpawnSlotInv

\* The spawn system call.
LEMMA UserSpawnStep ==
    ASSUME IInv, NEW n \in Slots, UserSpawn(n)
    PROVE  IInv'
<1>1. /\ mode = "user" /\ SpawnSlot(n, "ret")
      /\ frame' = [t \in Slots |-> t # n /\ (frame[t] \/ (active /\ t = Current))]
  BY DEF UserSpawn
<1>2. \A s \in Slots : s = Current <=> running_pid # 0 /\ pid[s] = running_pid
  BY CurrentFact DEF IInv
<1>3. /\ frame' \in [Slots -> BOOLEAN]
      /\ \A s \in Slots : frame'[s] =>
            s # n /\ (frame[s] \/ (running_pid # 0 /\ pid[s] = running_pid))
  BY <1>1, <1>2 DEF IInv, TypeOK
<1>4. mode \in {"shell", "user"} /\ "ret" \in {"shell", "ret"}
  BY <1>1
<1> QED BY <1>1, <1>3, <1>4, SpawnSlotInv

-----------------------------------------------------------------------------
(* The scheduler path and the loader. *)

\* There is nobody to switch to: every frame of the current generation that a
\* runnable task could have would be the current task's.
LEMMA NoSwitch ==
    ASSUME IInv
    PROVE  ~CanSwitch
<1> SUFFICES ASSUME Current # NoSlot, NEW t \in SwitchTargets PROVE FALSE
  BY DEF CanSwitch
<1>1. running_pid # 0
  BY CurrentFact DEF IInv
<1> QED BY <1>1 DEF SwitchTargets, IInv, FrameInv

\* The way out of a system call.
LEMMA SyscallReturnStep ==
    ASSUME IInv, SyscallReturn
    PROVE  IInv'
<1> USE DEF IInv, idVars, waitVars, mlfqVars, boostVars, queueVars, curVars, cpuVars
<1>1. /\ mode = "ret" /\ mode' = "user"
      /\ UNCHANGED <<pid, parent, state, waitVars, frame, handler, next_pid,
                     curVars, schedule_request, user_interrupt, ret, loading,
                     prog, image, warg>>
      /\ BoostIfDue \/ UNCHANGED <<level, slice, runq, boostVars>>
  <2>1. ~CanSwitch
    BY NoSwitch
  <2> QED BY <2>1 DEF SyscallReturn
<1>2. /\ BoostedLevel \in [Slots -> Levels] /\ BoostedSlice \in [Slots -> Nat]
      /\ BoostedRunq \in Runqs
      /\ \A s \in Slots :
            /\ Queued(BoostedRunq, s) <=> state[s] = "RUNNABLE"
            /\ ~StillTorn /\ Queued(BoostedRunq, s) => BoostedRunq[s].lev = BoostedLevel[s]
  BY BoostFact
<1>3. /\ level' \in [Slots -> Levels] /\ slice' \in [Slots -> Nat]
      /\ runq' \in Runqs /\ since_boost' \in 0..BoostInterval /\ torn' \in BOOLEAN
      /\ \A s \in Slots : /\ Queued(runq', s) <=> state[s] = "RUNNABLE"
                          /\ ~torn' /\ Queued(runq', s) => runq'[s].lev = level'[s]
  <2>1. CASE BoostIfDue
    BY <1>2, <2>1, SizesAssumption DEF BoostIfDue, BoostTime, StillTorn, TypeOK
  <2>2. CASE UNCHANGED <<level, slice, runq, boostVars>>
    BY <2>2 DEF TypeOK, QueueInv, Queued, Runqs
  <2> QED BY <1>1, <2>1, <2>2
<1>4. TypeOK'
  BY <1>1, <1>3 DEF TypeOK, Modes, Runqs
<1>5. PidInv' /\ QueueInv'
  BY <1>1, <1>3 DEF PidInv, QueueInv, Used
<1>6. RunningInv' /\ LaunchInv' /\ WaitInv'
  BY <1>1 DEF RunningInv, LaunchInv, WaitInv
<1>7. BlockInv' /\ FrameInv'
  BY <1>1 DEF BlockInv, FrameInv
<1> QED BY <1>4, <1>5, <1>6, <1>7

\* The preemption path accounts a tick to the current task, which is in no
\* list.
LEMMA TryPreemptStep ==
    ASSUME IInv, TryPreempt
    PROVE  IInv'
<1> USE DEF IInv, idVars, waitVars, mlfqVars, boostVars, queueVars, curVars, cpuVars
<1>1. /\ mode = "preempt" /\ mode' = "user" /\ runq' = BoostedRunq
      /\ BoostTime
      /\ level' = [s \in Slots |-> IF s = Current THEN AccountedLevel(s)
                                   ELSE BoostedLevel[s]]
      /\ slice' = [s \in Slots |-> IF s = Current THEN AccountedSlice(s)
                                   ELSE BoostedSlice[s]]
      /\ schedule_request' \in BOOLEAN
      /\ UNCHANGED <<idVars, state, waitVars, frame, handler, curVars,
                     user_interrupt, ret, loading, prog, image, warg>>
  <2>1. ~CanSwitch
    BY NoSwitch
  <2> QED BY <2>1 DEF TryPreempt, TypeOK, LevelsAccounted, SlicesAccounted
<1>2. /\ BoostedLevel \in [Slots -> Levels] /\ BoostedSlice \in [Slots -> Nat]
      /\ BoostedRunq \in Runqs
      /\ \A s \in Slots :
            /\ Queued(BoostedRunq, s) <=> state[s] = "RUNNABLE"
            /\ ~StillTorn /\ Queued(BoostedRunq, s) => BoostedRunq[s].lev = BoostedLevel[s]
  BY BoostFact
<1>3. \A s \in Slots : AccountedLevel(s) \in Levels
  BY <1>2 DEF AccountedLevel, Levels, SCHED_MLFQ_LEVEL_LOW
<1>4. \A s \in Slots : AccountedSlice(s) \in Nat
  BY <1>2, <1>3, QuantumAssumption DEF AccountedSlice
<1>5. level' \in [Slots -> Levels] /\ slice' \in [Slots -> Nat]
  BY <1>1, <1>2, <1>3, <1>4
<1>6. since_boost' \in 0..BoostInterval /\ torn' \in BOOLEAN /\ torn' = StillTorn
  BY <1>1, SizesAssumption DEF TypeOK, BoostTime, StillTorn
<1>7. TypeOK'
  BY <1>1, <1>2, <1>5, <1>6 DEF TypeOK, Modes, Runqs
<1>8. \A s \in Slots : state[s] = "RUNNABLE" => s # Current
  BY CurrentFact DEF RunningInv, PidInv
<1>9. PidInv' /\ QueueInv'
  BY <1>1, <1>2, <1>6, <1>8 DEF PidInv, QueueInv, Used
<1>10. RunningInv' /\ LaunchInv' /\ WaitInv'
  BY <1>1 DEF RunningInv, LaunchInv, WaitInv
<1>11. BlockInv' /\ FrameInv'
  BY <1>1 DEF BlockInv, FrameInv
<1> QED BY <1>7, <1>9, <1>10, <1>11

\* Where the caller of the scheduler goes on.
LEMMA ModeAfterFact ==
    ASSUME NEW r \in Returns
    PROVE  /\ ModeAfter(r) \in {"shell", "gsleep", "wait", "ret"}
           /\ ModeAfter(r) = "wait" => r = "wait"
BY DEF Returns, ModeAfter

\* The scheduler found nothing to run.
LEMMA NothingRunnableStep ==
    ASSUME IInv, NothingRunnable
    PROVE  IInv'
<1> USE DEF IInv, idVars, waitVars, mlfqVars, boostVars, queueVars, curVars, cpuVars
<1>1. /\ mode = "sched" /\ BoostIfDue /\ ret' = "none"
      /\ schedule_request' \in BOOLEAN
      /\ UNCHANGED <<idVars, frame, handler, curVars, user_interrupt, loading,
                     prog, image>>
      /\ \/ UnblockCurrent /\ mode' = "ret" /\ warg' = NoWait
         \/ UNCHANGED <<state, waitVars, warg>> /\ mode' = ModeAfter(ret)
  BY DEF NothingRunnable, TypeOK
<1>2. /\ BoostedLevel \in [Slots -> Levels] /\ BoostedSlice \in [Slots -> Nat]
      /\ BoostedRunq \in Runqs
      /\ \A s \in Slots :
            /\ Queued(BoostedRunq, s) <=> state[s] = "RUNNABLE"
            /\ ~StillTorn /\ Queued(BoostedRunq, s) => BoostedRunq[s].lev = BoostedLevel[s]
  BY BoostFact
<1>3. /\ level' \in [Slots -> Levels] /\ slice' \in [Slots -> Nat]
      /\ runq' \in Runqs /\ since_boost' \in 0..BoostInterval /\ torn' \in BOOLEAN
      /\ \A s \in Slots : /\ Queued(runq', s) <=> state[s] = "RUNNABLE"
                          /\ ~torn' /\ Queued(runq', s) => runq'[s].lev = level'[s]
  BY <1>1, <1>2, SizesAssumption DEF BoostIfDue, BoostTime, StillTorn, TypeOK
<1>4. \A s \in Slots : s = Current <=> running_pid # 0 /\ pid[s] = running_pid
  BY CurrentFact
<1>5. /\ state' \in [Slots -> States] /\ reason' \in [Slots -> Reasons]
      /\ target' \in [Slots -> 0..MaxPid] /\ wake' \in [Slots -> Nat]
      /\ \A s \in Slots :
            /\ \/ state'[s] = state[s]
               \/ /\ s = Current /\ state[s] = "BLOCKED"
                  /\ state'[s] = "RUNNING"
            /\ state'[s] = "BLOCKED" => reason'[s] = reason[s]
  <2>1. CASE UnblockCurrent
    BY <2>1, UnblockCurrentFact
  <2>2. CASE UNCHANGED <<state, waitVars, warg>>
    BY <2>2 DEF TypeOK
  <2> QED BY <1>1, <2>1, <2>2
<1>6. /\ mode' \in {"shell", "gsleep", "wait", "ret"}
      /\ mode' = "wait" => ret = "wait" /\ warg' = warg
      /\ warg' \in [pid : 0..MaxPid, nohang : BOOLEAN]
  <2>1. ret \in Returns /\ warg \in [pid : 0..MaxPid, nohang : BOOLEAN]
    BY DEF TypeOK
  <2>2. NoWait \in [pid : 0..MaxPid, nohang : BOOLEAN]
    BY SizesAssumption DEF NoWait
  <2> QED BY <1>1, <2>1, <2>2, ModeAfterFact
<1>7. TypeOK'
  BY <1>1, <1>3, <1>5, <1>6 DEF TypeOK, Modes, Returns, Runqs
<1>8. PidInv' /\ QueueInv'
  BY <1>1, <1>3, <1>5 DEF PidInv, QueueInv, Used
<1>9. RunningInv' /\ LaunchInv'
  BY <1>1, <1>5, <1>6 DEF RunningInv, LaunchInv
<1>10. BlockInv' /\ FrameInv'
  BY <1>1, <1>4, <1>5 DEF BlockInv, FrameInv
<1>11. WaitInv'
  BY <1>1, <1>6 DEF WaitInv
<1> QED BY <1>7, <1>8, <1>9, <1>10, <1>11

\* A launch takes a runnable task, hence not the current one.
LEMMA LaunchStep ==
    ASSUME IInv, NEW n \in Slots, Launch(n)
    PROVE  IInv'
<1> USE DEF IInv, idVars, waitVars, mlfqVars, boostVars, queueVars, curVars, cpuVars
<1>1. /\ mode = "sched" /\ mode' = "load" /\ state[n] = "RUNNABLE"
      /\ level' = BoostedLevel /\ slice' = BoostedSlice
      /\ BoostTime
      /\ runq' = RunqRemove(BoostedRunq, n)
      /\ state' = [state EXCEPT ![n] = "RUNNING"]
      /\ ClearWait({n})
      /\ frame' = [frame EXCEPT ![n] = FALSE]
      /\ active_slot' = n /\ pending_pid' = pid[n] /\ loading' = n
      /\ UNCHANGED <<idVars, handler, running_pid, active, schedule_request,
                     user_interrupt, ret, prog, image, warg>>
  BY DEF Launch, Popped
<1>2. /\ BoostedLevel \in [Slots -> Levels] /\ BoostedSlice \in [Slots -> Nat]
      /\ BoostedRunq \in Runqs
      /\ \A s \in Slots :
            /\ Queued(BoostedRunq, s) <=> state[s] = "RUNNABLE"
            /\ ~StillTorn /\ Queued(BoostedRunq, s) => BoostedRunq[s].lev = BoostedLevel[s]
  BY BoostFact
<1>3. state[n] = "RUNNABLE"
  BY <1>1
<1>4. /\ runq' \in Runqs
      /\ \A t \in Slots :
            /\ Queued(runq', t) <=> Queued(BoostedRunq, t) /\ t # n
            /\ t # n => runq'[t].lev = BoostedRunq[t].lev
  BY <1>1, <1>2, RunqRemoveFact
<1>5. /\ state' \in [Slots -> States]
      /\ \A s \in Slots : state'[s] = IF s = n THEN "RUNNING" ELSE state[s]
  BY <1>1 DEF TypeOK, States
<1>6. /\ frame' \in [Slots -> BOOLEAN]
      /\ \A s \in Slots : frame'[s] => frame[s]
  BY <1>1 DEF TypeOK
<1>7. /\ reason' \in [Slots -> Reasons] /\ target' \in [Slots -> 0..MaxPid]
      /\ wake' \in [Slots -> Nat]
      /\ \A s \in Slots : s # n => reason'[s] = reason[s]
  BY <1>1, SizesAssumption DEF ClearWait, TypeOK, Reasons
<1>8. since_boost' \in 0..BoostInterval /\ torn' \in BOOLEAN /\ torn' = StillTorn
  BY <1>1, SizesAssumption DEF TypeOK, BoostTime, StillTorn
<1>9. TypeOK'
  BY <1>1, <1>2, <1>4, <1>5, <1>6, <1>7, <1>8 DEF TypeOK, Modes, Runqs
<1>10. PidInv'
  BY <1>1, <1>3, <1>5 DEF PidInv, Used
<1>11. QueueInv'
  BY <1>1, <1>2, <1>4, <1>5, <1>8 DEF QueueInv
<1>12. RunningInv'
  BY <1>1, <1>3, <1>5 DEF RunningInv
<1>13. pid[n] # running_pid
  BY <1>3 DEF RunningInv, PidInv, Used
<1>14. LaunchInv'
  <2>1. state'[loading'] = "RUNNING" /\ pid'[loading'] # running_pid'
    BY <1>1, <1>5, <1>13
  <2>2. n # NoSlot
    BY CurrentFact
  <2> QED BY <1>1, <2>1, <2>2 DEF LaunchInv
<1>15. BlockInv' /\ FrameInv'
  BY <1>1, <1>5, <1>6, <1>7 DEF BlockInv, FrameInv
<1>16. WaitInv'
  BY <1>1 DEF WaitInv
<1> QED BY <1>9, <1>10, <1>11, <1>12, <1>14, <1>15, <1>16

\* A failed load ends the launch and no other task.
LEMMA LoadFailsStep ==
    ASSUME IInv, LoadEarlyFailure \/ LoadLateFailure
    PROVE  IInv'
<1> USE DEF IInv, idVars, waitVars, mlfqVars, boostVars, queueVars, curVars, cpuVars
<1>1. /\ mode \in {"load", "map"} /\ LoadFails
      /\ UNCHANGED <<idVars, waitVars, mlfqVars, frame, handler, queueVars,
                     active, schedule_request, user_interrupt, prog, image,
                     warg>>
  BY DEF LoadEarlyFailure, LoadLateFailure
<1>2. loading' = NoSlot /\ mode' = ModeAfter(ret) /\ ret' = "none"
  BY <1>1 DEF LoadFails
<1>3. /\ mode' \in {"shell", "gsleep", "wait", "ret"}
      /\ mode' = "wait" => ret = "wait"
  <2>1. ret \in Returns
    BY DEF TypeOK
  <2> QED BY <1>2, <2>1, ModeAfterFact
<1>4. /\ running_pid' = running_pid /\ pending_pid' = 0
      /\ active_slot' \in {NoSlot, active_slot}
      /\ state' \in [Slots -> States]
      /\ \A s \in Slots : \/ state'[s] = state[s]
                          \/ /\ s = loading /\ state[s] = "RUNNING"
                             /\ state'[s] = "ZOMBIE"
  BY <1>1 DEF LoadFails, LaunchInv, TypeOK, States
<1>5. 0 \in 0..MaxPid
  BY SizesAssumption
<1>6. TypeOK'
  BY <1>1, <1>2, <1>3, <1>4, <1>5 DEF TypeOK, Modes, Returns
<1>7. PidInv'
  BY <1>1, <1>4 DEF PidInv, Used
<1>8. QueueInv'
  BY <1>1, <1>4 DEF QueueInv, Queued
<1>9. RunningInv'
  <2>1. NoSlot \notin Slots
    BY CurrentFact
  <2>2. \A s \in Slots : pid[s] = running_pid => state'[s] = state[s]
    BY <1>4, <2>1 DEF LaunchInv
  <2> QED BY <1>1, <1>3, <1>4, <2>2 DEF RunningInv
<1>10. LaunchInv'
  BY <1>2, <1>4 DEF LaunchInv
<1>11. BlockInv' /\ FrameInv'
  BY <1>1, <1>4 DEF BlockInv, FrameInv
<1>12. WaitInv'
  BY <1>1, <1>2, <1>3 DEF WaitInv
<1> QED BY <1>6, <1>7, <1>8, <1>9, <1>10, <1>11, <1>12

\* Entry to ring 3 makes the launched task current: only its frame remains.
LEMMA EnterRing3Step ==
    ASSUME IInv, EnterRing3
    PROVE  IInv'
<1> USE DEF IInv, idVars, waitVars, mlfqVars, boostVars, queueVars, curVars, cpuVars
<1>1. /\ mode = "map" /\ mode' = "user" /\ ret' = "none" /\ warg' = NoWait
      /\ running_pid' = pending_pid /\ pending_pid' = 0
      /\ frame' = [s \in Slots |-> s = active_slot]
      /\ prog' = IF loading = NoSlot THEN prog ELSE loading
      /\ image' = prog' /\ loading' = NoSlot
      /\ UNCHANGED <<idVars, state, waitVars, mlfqVars, handler, queueVars,
                     active_slot, active, schedule_request, user_interrupt>>
  BY DEF EnterRing3, FramesAtEntry
<1>2. 0 \in 0..MaxPid /\ NoWait \in [pid : 0..MaxPid, nohang : BOOLEAN]
  BY SizesAssumption DEF NoWait
<1>3. frame' \in [Slots -> BOOLEAN]
  BY <1>1
<1>4. TypeOK'
  BY <1>1, <1>2, <1>3 DEF TypeOK, Modes, Returns
<1>5. PidInv' /\ QueueInv'
  BY <1>1 DEF PidInv, QueueInv, Used, Queued
<1>6. RunningInv' /\ LaunchInv' /\ WaitInv'
  BY <1>1 DEF RunningInv, LaunchInv, WaitInv, TypeOK
<1>7. BlockInv' /\ FrameInv'
  BY <1>1 DEF BlockInv, FrameInv, LaunchInv
<1> QED BY <1>4, <1>5, <1>6, <1>7

\* The timer tick wakes at most the current task.
LEMMA TimerTickStep ==
    ASSUME IInv, TimerTick
    PROVE  IInv'
<1> USE DEF IInv, idVars, waitVars, mlfqVars, boostVars, queueVars, curVars, cpuVars
<1>1. /\ SchedulerTick(1) /\ mode # "preempt"
      /\ since_boost' = IF BoostDue THEN since_boost ELSE since_boost + 1
      /\ \/ mode' = mode
         \/ mode = "user" /\ mode' = "preempt"
      /\ UNCHANGED <<idVars, target, mlfqVars, frame, handler, torn, curVars,
                     user_interrupt, ret, loading, prog, image, warg>>
  BY DEF TimerTick
<1>2. /\ state' \in [Slots -> States] /\ reason' \in [Slots -> Reasons]
      /\ wake' \in [Slots -> Nat] /\ schedule_request' \in BOOLEAN
      /\ runq' \in Runqs
      /\ \A s \in Slots :
            /\ Queued(runq', s) <=> state'[s] = "RUNNABLE"
            /\ ~torn /\ Queued(runq', s) => runq'[s].lev = level[s]
            /\ \/ state'[s] = state[s] /\ reason'[s] = reason[s]
               \/ /\ state[s] = "BLOCKED" /\ reason[s] = "SLEEP"
                  /\ state'[s] = WokenState(s)
  BY <1>1, SchedulerTickFact
<1>3. \A s \in Slots : \/ state'[s] = state[s] /\ reason'[s] = reason[s]
                       \/ state[s] = "BLOCKED" /\ state'[s] = "RUNNING"
  BY <1>2 DEF BlockInv, WokenState
<1>4. since_boost' \in 0..BoostInterval /\ torn' \in BOOLEAN
  BY <1>1, SizesAssumption DEF TypeOK, BoostDue
<1>5. TypeOK'
  BY <1>1, <1>2, <1>4 DEF TypeOK, Modes, Runqs
<1>6. PidInv'
  BY <1>1, <1>3 DEF PidInv, Used
<1>7. QueueInv'
  BY <1>1, <1>2 DEF QueueInv
<1>8. RunningInv' /\ LaunchInv' /\ WaitInv'
  <2>1. RunningInv'
    BY <1>1, <1>3 DEF RunningInv
  <2>2. LaunchInv'
    BY <1>1, <1>3 DEF LaunchInv, TypeOK
  <2>3. WaitInv'
    BY <1>1 DEF WaitInv
  <2> QED BY <2>1, <2>2, <2>3
<1>9. BlockInv' /\ FrameInv'
  BY <1>1, <1>3 DEF BlockInv, FrameInv
<1> QED BY <1>5, <1>6, <1>7, <1>8, <1>9

-----------------------------------------------------------------------------
(* The theorems. *)

\* The invariant holds initially and every step preserves it.
THEOREM Inductive ==
    /\ Init => IInv
    /\ IInv /\ [Next]_vars => IInv'
<1>1. Init => IInv
  <2> SUFFICES ASSUME Init PROVE IInv
    OBVIOUS
  <2>1. TypeOK
    <3>1. /\ 0 \in 0..MaxPid /\ 1 \in 1..(MaxPid + 1)
          /\ 0 \in 0..BoostInterval
          /\ SCHED_MLFQ_LEVEL_HIGH \in Levels
          /\ Quantum[SCHED_MLFQ_LEVEL_HIGH] \in Nat
      BY SizesAssumption, QuantumAssumption DEF Levels, SCHED_MLFQ_LEVEL_HIGH
    <3>2. /\ Unlinked \in [lev : Levels, pos : Nat]
          /\ NoWait \in [pid : 0..MaxPid, nohang : BOOLEAN]
      BY <3>1 DEF Unlinked, NoWait, Levels
    <3>3. frame \in [Slots -> BOOLEAN] /\ handler \in [Slots -> BOOLEAN]
      BY DEF Init
    <3> QED BY <3>1, <3>2, <3>3
            DEF Init, TypeOK, States, Reasons, Modes, Returns
  <2>2. PidInv /\ QueueInv
    BY DEF Init, PidInv, QueueInv, Used, Queued, Unlinked
  <2>3. RunningInv /\ LaunchInv /\ BlockInv /\ FrameInv /\ WaitInv
    BY DEF Init, RunningInv, LaunchInv, BlockInv, FrameInv, WaitInv
  <2> QED BY <2>1, <2>2, <2>3 DEF IInv
<1>2. ASSUME IInv, [Next]_vars PROVE IInv'
  <2>1. ASSUME NEW s \in Slots, ShellSpawn(s) PROVE IInv'
    BY <1>2, <2>1, ShellSpawnStep
  <2>2. CASE Kernel
    <3>1. CASE SyscallReturn \/ InactiveSleepReturn \/ SleepReturn \/ GuiReturn
      BY <1>2, <3>1, SyscallReturnStep, InactiveSleepReturnStep,
         SleepReturnStep, GuiReturnStep
    <3>2. CASE WaitReap \/ WaitSchedule
      BY <1>2, <3>2, WaitReapStep, WaitScheduleStep
    <3>3. CASE AbortContinue \/ PollScheduler \/ NothingRunnable
      BY <1>2, <3>3, AbortContinueStep, PollSchedulerStep, NothingRunnableStep
    <3>4. ASSUME NEW s \in Slots, Launch(s) PROVE IInv'
      BY <1>2, <3>4, LaunchStep
    <3>5. CASE LoadEarlyFailure \/ LoadMap \/ LoadLateFailure \/ EnterRing3
      BY <1>2, <3>5, LoadFailsStep, LoadMapStep, EnterRing3Step
    <3> QED BY <2>2, <3>1, <3>2, <3>3, <3>4, <3>5 DEF Kernel
  <2>3. CASE Program
    <3>1. ASSUME NEW s \in Slots, UserSpawn(s) PROVE IInv'
      BY <1>2, <3>1, UserSpawnStep
    <3>2. ASSUME NEW u \in SleepArgs, Sleep(u) PROVE IInv'
      BY <1>2, <3>2, SleepStep
    <3>3. CASE InactiveSleep \/ GuiWait
      BY <1>2, <3>3, InactiveSleepStep, GuiWaitStep
    <3>4. ASSUME NEW p \in Pids, NEW nohang \in BOOLEAN, Waitpid(p, nohang)
          PROVE  IInv'
      BY <1>2, <3>4, WaitpidStep
    <3>5. ASSUME NEW p \in Pids, NEW sig \in Signals, Kill(p, sig) PROVE IInv'
      BY <1>2, <3>5, KillStep
    <3>6. ASSUME NEW install \in BOOLEAN, Signal(install) PROVE IInv'
      BY <1>2, <3>6, SignalStep
    <3>7. CASE Execve \/ Exit \/ Fault
      BY <1>2, <3>7, ExecveStep, ExitStep, FaultStep
    <3> QED BY <2>3, <3>1, <3>2, <3>3, <3>4, <3>5, <3>6, <3>7 DEF Program
  <2>4. CASE Irq0
    BY <1>2, <2>4, TimerTickStep, TryPreemptStep, InterruptKernelStep,
       InterruptListsStep, InterruptUserStep DEF Irq0
  <2>5. CASE UNCHANGED vars
    <3>1. TypeOK'
      BY <1>2, <2>5 DEF IInv, TypeOK, vars
    <3>2. PidInv' /\ QueueInv'
      BY <1>2, <2>5 DEF IInv, PidInv, QueueInv, Used, Queued, vars
    <3>3. RunningInv' /\ LaunchInv' /\ BlockInv' /\ FrameInv' /\ WaitInv'
      BY <1>2, <2>5 DEF IInv, RunningInv, LaunchInv, BlockInv, FrameInv,
                        WaitInv, vars
    <3> QED BY <3>1, <3>2, <3>3 DEF IInv
  <2> QED BY <1>2, <2>1, <2>2, <2>3, <2>4, <2>5 DEF Next
<1> QED BY <1>1, <1>2

\* IInv holds in every reachable state.
THEOREM Invariance == Spec => []IInv
BY Inductive, PTL DEF Spec

\* Every variable of user_elf.c and of the CPU keeps its shape.
THEOREM TypeCorrect == Spec => []TypeOK
<1>1. IInv => TypeOK
  BY DEF IInv
<1> QED BY <1>1, Invariance, PTL

\* in_runq marks exactly the RUNNABLE slots, wherever Ctrl-C strikes; each is in
\* the list of its level until it strikes inside a list operation, and again from
\* the next boost on.
THEOREM RunQueueSound == Spec => []RunqSound
<1>1. IInv => RunqSound
  BY DEF IInv, QueueInv, RunqSound
<1> QED BY <1>1, Invariance, PTL

\* user_task_find_slot_by_pid has at most one answer.
THEOREM PidsNeverShared == Spec => []PidsDistinct
<1>1. IInv => PidsDistinct
  <2> SUFFICES ASSUME IInv PROVE PidsDistinct
    OBVIOUS
  <2>1. next_pid \in Nat /\ \A s \in Slots : pid[s] \in Nat
    BY SizesAssumption DEF IInv, TypeOK
  <2>2. \A s \in Slots : Used(s) => pid[s] \in 1..(next_pid - 1)
    BY <2>1 DEF IInv, PidInv
  <2>3. \A s, t \in Slots : Used(s) /\ Used(t) /\ pid[s] = pid[t] => s = t
    BY DEF IInv, PidInv
  <2> QED BY <2>2, <2>3 DEF PidsDistinct
<1> QED BY <1>1, Invariance, PTL

\* g_user_task_running_pid never dangles.
THEOREM RunningPidNeverDangles == Spec => []RunningPidLive
<1>1. IInv => RunningPidLive
  <2> SUFFICES ASSUME IInv, running_pid # 0
               PROVE  /\ active /\ Current # NoSlot
                      /\ state[Current] \in {"RUNNING", "BLOCKED"}
    BY DEF RunningPidLive
  <2>1. PICK s \in Slots : /\ pid[s] = running_pid
                           /\ state[s] \in {"RUNNING", "BLOCKED"}
    BY DEF IInv, RunningInv
  <2>2. s = Current /\ s # NoSlot
    BY <2>1, CurrentFact DEF IInv
  <2> QED BY <2>1, <2>2 DEF IInv, RunningInv
<1> QED BY <1>1, Invariance, PTL

\* The context-switch branches never find another task to switch to.
THEOREM NeverSwitches == Spec => []NoForeignResume
<1>1. IInv => NoForeignResume
  BY DEF IInv, RunningInv, FrameInv, PidInv, NoForeignResume
<1> QED BY <1>1, Invariance, PTL

\* Sleepers and GUI waiters never leave the CPU.
THEOREM SleepersStay == Spec => []OffCpuWaits
<1>1. IInv => OffCpuWaits
  BY DEF IInv, BlockInv, OffCpuWaits
<1> QED BY <1>1, Invariance, PTL

\* The slot waitpid looks for is in the table while it looks.
THEOREM WaitTargetStays == Spec => []WaitTargetExists
<1>1. IInv => WaitTargetExists
  <2> SUFFICES ASSUME IInv, mode = "wait" \/ ret = "wait"
               PROVE  FindSlot(warg.pid) # NoSlot
    BY DEF WaitTargetExists
  <2>1. PICK s \in Slots : pid[s] # 0 /\ pid[s] = warg.pid
    BY DEF IInv, WaitInv
  <2>2. warg.pid \in Nat /\ NoSlot \notin Slots
    BY SizesAssumption, CurrentFact DEF IInv, TypeOK
  <2>3. s = FindSlot(warg.pid)
    BY <2>1, <2>2, FindSlotFact DEF IInv
  <2> QED BY <2>2, <2>3
<1> QED BY <1>1, Invariance, PTL

-----------------------------------------------------------------------------
(* Zombies. *)

\* What a step may do to the state of a zombie.
ZombieStep == \A s \in Slots : state[s] = "ZOMBIE"
                                   => state'[s] \in {"ZOMBIE", "UNUSED"}

\* No operation that wakes tasks wakes a dead one.
LEMMA WakersKeepZombies ==
    ASSUME IInv, \/ NotifyExit
                 \/ SchedulerTick(1)
                 \/ UnblockCurrent
                 \/ \E why \in Reasons, what \in 0..MaxPid, ticks \in Nat :
                        BlockCurrent(why, what, ticks)
                 \/ \E z \in Slots : pid[z] # running_pid /\ TerminateOther(z)
    PROVE  ZombieStep
<1> USE DEF IInv, ZombieStep
<1>1. \A s \in Slots : s = Current => state[s] # "ZOMBIE"
  BY CurrentFact DEF RunningInv, PidInv
<1>2. CASE NotifyExit
  BY <1>1, <1>2, NotifyExitFact
<1>3. CASE SchedulerTick(1)
  <2>1. 1 \in Nat
    OBVIOUS
  <2> QED BY <1>3, <2>1, SchedulerTickFact
<1>4. CASE UnblockCurrent
  BY <1>4, UnblockCurrentFact
<1>5. ASSUME NEW why \in Reasons, NEW what \in 0..MaxPid, NEW ticks \in Nat,
             BlockCurrent(why, what, ticks)
      PROVE  ZombieStep
  BY <1>1, <1>5, BlockCurrentFact
<1>6. ASSUME NEW z \in Slots, pid[z] # running_pid, TerminateOther(z)
      PROVE  ZombieStep
  BY <1>6, TerminateFact
<1> QED BY <1>2, <1>3, <1>4, <1>5, <1>6

\* Every step keeps zombies dead.
LEMMA StepsKeepZombies ==
    ASSUME IInv, [Next]_vars
    PROVE  ZombieStep
<1> USE DEF ZombieStep
<1>1. CASE UNCHANGED state
  BY <1>1
<1>2. CASE \/ Exit \/ Fault \/ InterruptUser \/ InterruptKernel \/ InterruptLists
           \/ TimerTick \/ SleepReturn \/ GuiReturn \/ NothingRunnable
  <2>1. NotifyExit \/ SchedulerTick(1) \/ UnblockCurrent \/ UNCHANGED state
    BY <1>2 DEF Exit, Fault, InterruptUser, InterruptKernel, InterruptLists,
                TimerTick, SleepReturn, GuiReturn, NothingRunnable
  <2> HIDE DEF ZombieStep
  <2> QED BY <1>1, <2>1, WakersKeepZombies
<1>3. ASSUME NEW u \in SleepArgs, Sleep(u) PROVE ZombieStep
  <2>1. /\ 0 \in 0..MaxPid /\ NeededTicks(u) \in Nat /\ "SLEEP" \in Reasons
        /\ BlockCurrent("SLEEP", 0, NeededTicks(u))
    BY <1>3, SizesAssumption, InputsAssumption DEF Sleep, Reasons, NeededTicks
  <2> HIDE DEF ZombieStep
  <2> QED BY <2>1, WakersKeepZombies
<1>4. CASE GuiWait
  <2>1. /\ 0 \in 0..MaxPid /\ 0 \in Nat /\ "GUI" \in Reasons
        /\ BlockCurrent("GUI", 0, 0)
    BY <1>4, SizesAssumption DEF GuiWait, Reasons
  <2> HIDE DEF ZombieStep
  <2> QED BY <2>1, WakersKeepZombies
<1>5. ASSUME NEW p \in Pids, NEW nohang \in BOOLEAN, Waitpid(p, nohang)
      PROVE  ZombieStep
  <2>1. /\ p \in 0..MaxPid /\ 0 \in Nat /\ "WAITPID" \in Reasons
        /\ BlockCurrent("WAITPID", p, 0) \/ UNCHANGED state
    BY <1>5, SizesAssumption DEF Waitpid, Reasons, Pids, waitVars
  <2> HIDE DEF ZombieStep
  <2> QED BY <1>1, <2>1, WakersKeepZombies
<1>6. ASSUME NEW p \in Pids, NEW sig \in Signals, Kill(p, sig)
      PROVE  ZombieStep
  <2>1. p \in Nat /\ FindSlot(p) # NoSlot
    BY <1>6, SizesAssumption DEF Pids, Kill
  <2>2. FindSlot(p) \in Slots /\ pid[FindSlot(p)] = p
    BY <2>1, FindSlotFact DEF IInv
  <2>3. \/ NotifyExit
        \/ p # running_pid /\ TerminateOther(FindSlot(p))
        \/ UNCHANGED state
    BY <1>6 DEF Kill
  <2> HIDE DEF ZombieStep
  <2> QED BY <1>1, <2>2, <2>3, WakersKeepZombies
<1>7. ASSUME NEW n \in Slots, ShellSpawn(n) \/ UserSpawn(n) PROVE ZombieStep
  BY <1>7 DEF ShellSpawn, UserSpawn, SpawnSlot, FreeSlot, Used, IInv, TypeOK
<1>8. CASE WaitReap
  BY <1>8 DEF WaitReap, UnblockedState
<1>9. ASSUME NEW n \in Slots, Launch(n) PROVE ZombieStep
  <2>1. state[n] = "RUNNABLE"
    BY <1>9 DEF Launch, Popped
  <2> QED BY <1>9, <2>1 DEF Launch, IInv, TypeOK
<1>10. CASE LoadEarlyFailure \/ LoadLateFailure
  BY <1>10 DEF LoadEarlyFailure, LoadLateFailure, LoadFails, IInv, TypeOK
<1>11. CASE \/ SyscallReturn \/ InactiveSleepReturn \/ WaitSchedule
            \/ AbortContinue \/ PollScheduler \/ LoadMap \/ EnterRing3
            \/ InactiveSleep \/ Execve \/ TryPreempt \/ UNCHANGED vars
  <2>1. ~CanSwitch
    BY NoSwitch
  <2> QED BY <1>11, <2>1 DEF SyscallReturn, InactiveSleepReturn, WaitSchedule,
         AbortContinue, PollScheduler, LoadMap, EnterRing3, InactiveSleep,
         Execve, TryPreempt, vars
<1>12. ASSUME NEW install \in BOOLEAN, Signal(install) PROVE ZombieStep
  BY <1>12 DEF Signal
<1> HIDE DEF ZombieStep
<1>13. CASE Kernel
  BY <1>2, <1>8, <1>9, <1>10, <1>11, <1>13 DEF Kernel
<1>14. CASE Program
  BY <1>2, <1>3, <1>4, <1>5, <1>6, <1>7, <1>11, <1>12, <1>14 DEF Program
<1>15. CASE Irq0
  BY <1>2, <1>11, <1>15 DEF Irq0
<1> QED BY <1>7, <1>11, <1>13, <1>14, <1>15 DEF Next

\* A zombie stays in the table until waitpid reaps it.
THEOREM ZombiesStay == Spec => ZombieStays
<1>1. IInv /\ [Next]_vars => [ZombieStep]_vars
  BY StepsKeepZombies
<1>2. [ZombieStep]_vars =>
        [\A s \in Slots : state[s] = "ZOMBIE"
             => state'[s] \in {"ZOMBIE", "UNUSED"}]_vars
  BY DEF ZombieStep
<1> QED BY <1>1, <1>2, Invariance, PTL DEF Spec, ZombieStays

\* Whatever the order in which tasks are spawned, ended, blocked and boosted,
\* the table and the marks of the run queue agree, wherever Ctrl-C strikes, and
\* the lists agree with them as RunQueueSound says (user_task_runq_*,
\* user_task_notify_exit).
THEOREM TableStaysSound == Spec => []TableSound
<1> QED
  BY TypeCorrect, RunQueueSound, PidsNeverShared, PTL DEF TableSound

\* What g_user_task_running_pid names can go on, nothing else takes the CPU,
\* and waitpid's waiters and targets are where the code looks for them.
THEOREM CurrentStaysSound == Spec => []CurrentSound
<1> QED
  BY RunningPidNeverDangles, NeverSwitches, SleepersStay, WaitTargetStays, PTL
     DEF CurrentSound

(***************************************************************************)
(* Results that go on from IInv, with one more conjunct for each: the lists *)
(* of the run queue, the slices, waiters, what the CPU executes.            *)
(***************************************************************************)
-----------------------------------------------------------------------------
(* The lists of a run queue are chains. *)

Members(q, l) == {s \in Slots : Queued(q, s) /\ q[s].lev = l}
ChainedIn(q, l) == {q[s].pos : s \in Members(q, l)} = 1..Cardinality(Members(q, l))
Chained(q) == \A l \in Levels : ChainedIn(q, l)

\* A set of slots is finite, and its size is a number.
LEMMA SlotsFinite ==
    ASSUME NEW S \in SUBSET Slots
    PROVE  IsFiniteSet(S) /\ Cardinality(S) \in Nat
<1>1. IsFiniteSet(Slots)
  BY FS_Interval, SizesAssumption DEF Slots
<1> QED BY <1>1, FS_Subset, FS_CardinalityType

\* A function on a set of slots that gives different slots different numbers
\* of 1..n, n the number of slots, gives every number of 1..n.
LEMMA Numbering ==
    ASSUME NEW S \in SUBSET Slots, NEW f \in [S -> 1..Cardinality(S)],
           \A s, t \in S : f[s] = f[t] => s = t
    PROVE  {f[s] : s \in S} = 1..Cardinality(S)
<1> DEFINE n == Cardinality(S)
<1>1. IsFiniteSet(S) /\ n \in Nat
  BY SlotsFinite
<1>2. IsFiniteSet(1..n) /\ Cardinality(1..n) = n
  <2> HIDE DEF n
  <2> QED BY <1>1, FS_Interval
<1>3. f \in Injection(S, 1..n)
  BY Fun_IsInj
<1>4. f \in Surjection(S, 1..n)
  <2>1. Cardinality(S) = Cardinality(1..n)
    BY <1>2
  <2> HIDE DEF n
  <2> QED BY <1>1, <1>2, <1>3, <2>1, FS_Injection
<1>5. \A i \in 1..n : \E s \in S : f[s] = i
  <2> HIDE DEF n
  <2> QED BY <1>4, Fun_SurjectionProperties
<1> QED BY <1>5

\* In a chain no two slots have the same place.
LEMMA PlacesDistinct ==
    ASSUME NEW q \in Runqs, NEW l \in Levels, ChainedIn(q, l)
    PROVE  /\ \A s \in Members(q, l) : q[s].pos \in 1..Cardinality(Members(q, l))
           /\ \A i \in 1..Cardinality(Members(q, l)) : \E s \in Members(q, l) : q[s].pos = i
           /\ \A s, t \in Members(q, l) : q[s].pos = q[t].pos => s = t
<1> DEFINE S == Members(q, l)
           n == Cardinality(S)
           f == [s \in S |-> q[s].pos]
<1>1. S \in SUBSET Slots
  BY DEF Members
<1>2. /\ \A s \in S : q[s].pos \in 1..n
      /\ \A i \in 1..n : \E s \in S : q[s].pos = i
  BY DEF ChainedIn
<1>3. IsFiniteSet(S) /\ n \in Nat
  BY <1>1, SlotsFinite
<1>4. Cardinality(S) = Cardinality(1..n)
  <2> HIDE DEF S
  <2> QED BY <1>3, FS_Interval
<1>5. f \in Surjection(S, 1..n)
  <2>1. f \in [S -> 1..n] /\ \A i \in 1..n : \E s \in S : f[s] = i
    <3> HIDE DEF S, n
    <3> QED BY <1>2
  <2> HIDE DEF S, n, f
  <2> QED BY <2>1, Fun_IsSurj
<1>6. f \in Injection(S, 1..n)
  <2> HIDE DEF S, n, f
  <2> QED BY <1>3, <1>4, <1>5, FS_SurjSameCardinalityImpliesInj
<1>7. \A s, t \in S : f[s] = f[t] => s = t
  <2> HIDE DEF S, n, f
  <2> QED BY <1>6, Fun_InjectionProperties
<1> QED BY <1>2, <1>7

\* Unlinking a slot closes the gap it leaves (user_task_runq_remove).
LEMMA RemoveChained ==
    ASSUME NEW q \in Runqs, NEW x \in Slots, Chained(q)
    PROVE  Chained(RunqRemove(q, x))
<1> SUFFICES ASSUME NEW l \in Levels PROVE ChainedIn(RunqRemove(q, x), l)
  BY DEF Chained
<1> DEFINE r == RunqRemove(q, x)
           S == Members(q, l)
           n == Cardinality(S)
           T == Members(r, l)
<1>1. /\ \A s \in S : q[s].pos \in 1..n
      /\ \A i \in 1..n : \E s \in S : q[s].pos = i
      /\ \A s, t \in S : q[s].pos = q[t].pos => s = t
  BY PlacesDistinct DEF Chained
<1>2. S \in SUBSET Slots /\ IsFiniteSet(S) /\ n \in Nat
  BY SlotsFinite DEF Members
<1>3. T = S \ {x}
  BY DEF Members, RunqRemove, Queued, Runqs, Unlinked
<1>4. Cardinality(T) = IF x \in S THEN n - 1 ELSE n
  <2> HIDE DEF S, T
  <2> QED BY <1>2, <1>3, FS_RemoveElement
<1>5. CASE x \in S
  <2>1. \A s \in T : /\ s \in S /\ s # x
                     /\ r[s].pos = IF q[s].pos > q[x].pos THEN q[s].pos - 1 ELSE q[s].pos
    BY <1>3, <1>5 DEF RunqRemove, Queued, Members, Runqs
  <2>2. \A s \in S : s # x => s \in T
    BY <1>3
  <2>3. q[x].pos \in 1..n
    BY <1>1, <1>5
  <2> HIDE DEF S, n, r, T
  <2>4. \A s \in T : r[s].pos \in 1..(n - 1)
    <3> SUFFICES ASSUME NEW s \in T PROVE r[s].pos \in 1..(n - 1)
      OBVIOUS
    <3>1. q[s].pos \in 1..n /\ q[s].pos # q[x].pos
      BY <1>1, <1>5, <2>1
    <3> QED BY <1>2, <2>1, <2>3, <3>1
  <2>5. \A i \in 1..(n - 1) : \E s \in T : r[s].pos = i
    <3> SUFFICES ASSUME NEW i \in 1..(n - 1) PROVE \E s \in T : r[s].pos = i
      OBVIOUS
    <3> DEFINE j == IF i < q[x].pos THEN i ELSE i + 1
    <3>1. j \in 1..n /\ j # q[x].pos
      BY <1>2, <2>3
    <3>2. PICK s \in S : q[s].pos = j
      BY <1>1, <3>1
    <3>3. s \in T /\ r[s].pos = i
      BY <1>2, <2>1, <2>2, <2>3, <3>1, <3>2
    <3> QED BY <3>3
  <2>6. {r[s].pos : s \in T} = 1..(n - 1)
    BY <2>4, <2>5
  <2> QED BY <1>4, <1>5, <2>6 DEF ChainedIn, T, r
<1>6. CASE x \notin S
  <2>1. \A s \in S : r[s].pos = q[s].pos
    <3> SUFFICES ASSUME NEW s \in S PROVE r[s].pos = q[s].pos
      OBVIOUS
    <3>1. s # x /\ s \in Slots /\ q[s].lev = l
      BY <1>6 DEF Members
    <3>2. ~(Queued(q, x) /\ q[s].lev = q[x].lev)
      BY <1>6, <3>1 DEF Members
    <3> QED BY <3>1, <3>2 DEF RunqRemove
  <2>2. T = S /\ Cardinality(T) = n
    BY <1>3, <1>4, <1>6
  <2> HIDE DEF S, n, r, T
  <2>3. {r[s].pos : s \in T} = 1..n
    BY <1>1, <2>1, <2>2
  <2> QED BY <2>2, <2>3 DEF ChainedIn, T, r
<1> QED BY <1>5, <1>6

\* Linking a set of slots puts them behind the ones that are linked, in the
\* order of their numbers (user_task_runq_enqueue).
LEMMA EnqueueChained ==
    ASSUME NEW q \in Runqs, NEW W \in SUBSET Slots,
           NEW lv \in [Slots -> Levels], Chained(q)
    PROVE  Chained(EnqueueAll(q, W, lv))
<1> SUFFICES ASSUME NEW l \in Levels PROVE ChainedIn(EnqueueAll(q, W, lv), l)
  BY DEF Chained
<1> DEFINE r == EnqueueAll(q, W, lv)
           S == Members(q, l)
           n == Cardinality(S)
           N == {s \in W : ~Queued(q, s) /\ lv[s] = l}
           m == Cardinality(N)
           upto(s) == {t \in N : t <= s}
           rank == [s \in N |-> Cardinality(upto(s))]
           T == Members(r, l)
<1>1. /\ \A s \in S : q[s].pos \in 1..n
      /\ \A i \in 1..n : \E s \in S : q[s].pos = i
  BY PlacesDistinct DEF Chained
<1>2. /\ S \in SUBSET Slots /\ IsFiniteSet(S) /\ n \in Nat
      /\ N \in SUBSET Slots /\ IsFiniteSet(N) /\ m \in Nat
      /\ S \cap N = {}
  <2>1. S \in SUBSET Slots /\ N \in SUBSET Slots /\ S \cap N = {}
    BY DEF Members
  <2> HIDE DEF S, N
  <2> QED BY <2>1, SlotsFinite
<1>3. ASSUME NEW s \in N
      PROVE  /\ upto(s) \in SUBSET N /\ IsFiniteSet(upto(s))
             /\ s \in upto(s)
             /\ Cardinality(upto(s)) \in 1..m
  <2>1. upto(s) \in SUBSET N /\ s \in upto(s)
    BY SizesAssumption DEF Slots
  <2> HIDE DEF N
  <2>2. IsFiniteSet(upto(s)) /\ Cardinality(upto(s)) <= m
    BY <1>2, <2>1, FS_Subset
  <2>3. Cardinality(upto(s)) \in Nat /\ upto(s) # {}
    BY <2>1, <2>2, FS_CardinalityType
  <2>4. Cardinality(upto(s)) # 0
    BY <2>2, <2>3, FS_EmptySet
  <2> HIDE DEF m, upto
  <2> QED BY <1>2, <2>1, <2>2, <2>3, <2>4
<1>4. ASSUME NEW s \in N, NEW t \in N, s < t
      PROVE  rank[s] # rank[t]
  <2>1. /\ upto(s) \in SUBSET upto(t) /\ t \notin upto(s) /\ t \in upto(t)
        /\ IsFiniteSet(upto(t))
    <3>1. \A u \in N : u \in Nat
      BY <1>2, SizesAssumption DEF Slots
    <3>2. t \in upto(t) /\ IsFiniteSet(upto(t))
      BY <1>3
    <3> HIDE DEF N
    <3>3. upto(s) \in SUBSET upto(t) /\ t \notin upto(s)
      BY <1>4, <3>1
    <3> QED BY <3>2, <3>3
  <2>2. Cardinality(upto(s)) # Cardinality(upto(t))
    <3> HIDE DEF upto
    <3> QED BY <2>1, FS_Subset
  <2> QED BY <2>2
<1>5. {rank[s] : s \in N} = 1..m
  <2>1. rank \in [N -> 1..m]
    BY <1>3
  <2>2. \A s, t \in N : rank[s] = rank[t] => s = t
    <3> SUFFICES ASSUME NEW s \in N, NEW t \in N, s # t PROVE rank[s] # rank[t]
      OBVIOUS
    <3>1. s < t \/ t < s
      BY SizesAssumption DEF Slots
    <3> HIDE DEF N, rank
    <3> QED BY <1>4, <3>1
  <2> HIDE DEF N, rank
  <2> QED BY <1>2, <2>1, <2>2, Numbering
<1>6. T = S \cup N
  BY EnqueueAllFact DEF Members
<1>7. Cardinality(T) = n + m
  <2> HIDE DEF S, N, T
  <2>1. Cardinality(S \cap N) = 0
    BY <1>2, FS_EmptySet
  <2>2. Cardinality(S \cup N) = Cardinality(S) + Cardinality(N) - Cardinality(S \cap N)
    BY <1>2, FS_Union
  <2> QED BY <1>2, <1>6, <2>1, <2>2
<1>8. \A s \in S : r[s].pos = q[s].pos
  BY EnqueueAllFact DEF Members
<1>9. \A s \in N : r[s].pos = n + rank[s]
  <2> SUFFICES ASSUME NEW s \in N PROVE r[s].pos = n + rank[s]
    OBVIOUS
  <2>1. r[s].pos = Cardinality({t \in Slots : Queued(q, t) /\ q[t].lev = lv[s]})
                   + Cardinality({t \in {u \in W : ~Queued(q, u)} : lv[t] = lv[s] /\ t <= s})
    BY DEF EnqueueAll
  <2>2. {t \in Slots : Queued(q, t) /\ q[t].lev = lv[s]} = S
    BY DEF Members
  <2>3. {t \in {u \in W : ~Queued(q, u)} : lv[t] = lv[s] /\ t <= s} = upto(s)
    OBVIOUS
  <2> QED BY <2>1, <2>2, <2>3
<1> HIDE DEF S, N, T, n, m, rank, r, upto
<1>10. \A s \in N : rank[s] \in 1..m
  BY <1>5
<1>11. \A i \in 1..m : \E s \in N : rank[s] = i
  BY <1>5
<1>12. \A s \in T : r[s].pos \in 1..(n + m)
  BY <1>1, <1>2, <1>6, <1>8, <1>9, <1>10
<1>13. \A i \in 1..(n + m) : \E s \in T : r[s].pos = i
  <2> SUFFICES ASSUME NEW i \in 1..(n + m) PROVE \E s \in T : r[s].pos = i
    OBVIOUS
  <2>1. CASE i \in 1..n
    BY <1>1, <1>6, <1>8, <2>1
  <2>2. CASE i - n \in 1..m
    <3>1. PICK s \in N : rank[s] = i - n
      BY <1>11, <2>2
    <3>2. r[s].pos = i
      BY <1>2, <1>9, <3>1
    <3> QED BY <1>6, <3>2
  <2> QED BY <1>2, <2>1, <2>2
<1>14. {r[s].pos : s \in T} = 1..(n + m)
  BY <1>12, <1>13
<1> QED BY <1>7, <1>14 DEF ChainedIn, T, r

\* A boost links the runnable tasks anew, all of them into chains.
LEMMA BoostChained ==
    ASSUME TypeOK, QueueInv, Chained(runq)
    PROVE  Chained(BoostedRunq)
<1>1. CASE ~BoostDue
  BY <1>1 DEF BoostedRunq
<1>2. CASE BoostDue
  <2> DEFINE empty == [s \in Slots |-> Unlinked]
             W == {s \in Slots : state[s] = "RUNNABLE"}
  <2>1. empty \in Runqs /\ \A s \in Slots : ~Queued(empty, s)
    BY DEF Runqs, Unlinked, Queued, Levels
  <2>2. Chained(empty)
    <3> SUFFICES ASSUME NEW l \in Levels PROVE ChainedIn(empty, l)
      BY DEF Chained
    <3>1. Members(empty, l) = {}
      BY <2>1 DEF Members
    <3>2. Cardinality(Members(empty, l)) = 0
      BY <3>1, FS_EmptySet
    <3>3. 1..0 = {}
      OBVIOUS
    <3> QED BY <3>1, <3>2, <3>3 DEF ChainedIn
  <2>3. BoostedRunq = EnqueueAll(empty, W, BoostedLevel)
    BY <1>2 DEF BoostedRunq, RunqRebuild
  <2>4. W \in SUBSET Slots /\ BoostedLevel \in [Slots -> Levels]
    BY BoostFact
  <2> HIDE DEF empty, W
  <2> QED BY <2>1, <2>2, <2>3, <2>4, EnqueueChained
<1> QED BY <1>1, <1>2

\* Linking and unlinking in one: what NotifyExit, user_task_terminate_slot and
\* the wake-ups do to the queue.
LEMMA NotifyExitChained ==
    ASSUME IInv, Chained(runq), NotifyExit
    PROVE  Chained(runq')
<1> DEFINE q == IF Current = NoSlot THEN runq ELSE RunqRemove(runq, Current)
           st == [s \in Slots |-> IF s = Current THEN "ZOMBIE" ELSE state[s]]
           W == Requeued(IF running_pid = 0 THEN {} ELSE WaitersFor(running_pid, st))
<1>1. runq' = EnqueueAll(q, W, level)
  BY DEF NotifyExit
<1>2. W \in SUBSET Slots
  BY DEF Requeued, WaitersFor
<1>3. runq \in Runqs /\ level \in [Slots -> Levels] /\ Current \in Slots \cup {NoSlot}
  BY CurrentFact DEF IInv, TypeOK, Runqs
<1>4. q \in Runqs /\ Chained(q)
  BY <1>3, RunqRemoveFact, RemoveChained
<1> HIDE DEF W, q
<1> QED BY <1>1, <1>2, <1>3, <1>4, EnqueueChained

\* Ending another task takes it off its list and queues the waiters it wakes.
LEMMA TerminateChained ==
    ASSUME IInv, Chained(runq), NEW z \in Slots, TerminateOther(z)
    PROVE  Chained(runq')
<1> DEFINE q == RunqRemove(runq, z)
           st == [state EXCEPT ![z] = "ZOMBIE"]
           W == WaitersFor(pid[z], st)
           woken == WakeAll(W, st)
           P == {t \in Slots : /\ parent[z] # 0 /\ pid[t] = parent[z]
                               /\ woken[t] = "BLOCKED"}
           WQ == Requeued(W)
           PQ == Requeued(P)
           q1 == EnqueueAll(q, WQ, level)
<1>1. runq' = EnqueueAll(q1, PQ, level)
  BY DEF TerminateOther, TerminateFrom
<1>2. WQ \in SUBSET Slots /\ PQ \in SUBSET Slots
  BY DEF Requeued, WaitersFor
<1>3. runq \in Runqs /\ level \in [Slots -> Levels]
  BY DEF IInv, TypeOK, Runqs
<1>4. q \in Runqs /\ Chained(q)
  BY <1>3, RunqRemoveFact, RemoveChained
<1> HIDE DEF WQ, PQ, q
<1>5. q1 \in Runqs /\ Chained(q1)
  BY <1>2, <1>3, <1>4, EnqueueChained, EnqueueAllFact
<1> HIDE DEF q1
<1> QED BY <1>1, <1>2, <1>3, <1>5, EnqueueChained

\* The task that blocks leaves its list, if it is on one.
LEMMA BlockCurrentChained ==
    ASSUME IInv, Chained(runq), NEW why, NEW what, NEW ticks,
           BlockCurrent(why, what, ticks)
    PROVE  Chained(runq')
<1>1. runq \in Runqs /\ Current \in Slots \cup {NoSlot}
  BY CurrentFact DEF IInv, TypeOK, Runqs
<1> QED BY <1>1, RemoveChained DEF BlockCurrent

\* A slot that is filled joins the end of the first list.
LEMMA SpawnChained ==
    ASSUME IInv, Chained(runq), NEW s \in Slots, NEW back, SpawnSlot(s, back)
    PROVE  Chained(runq')
<1>1. /\ runq' = EnqueueAll(runq, {s}, level')
      /\ level' = [level EXCEPT ![s] = SCHED_MLFQ_LEVEL_HIGH]
  BY DEF SpawnSlot
<1>2. runq \in Runqs /\ level' \in [Slots -> Levels] /\ {s} \in SUBSET Slots
  BY <1>1 DEF IInv, TypeOK, Runqs, Levels, SCHED_MLFQ_LEVEL_HIGH
<1> QED BY <1>1, <1>2, EnqueueChained

\* The sleepers and waiters a tick wakes join the end of their lists.
LEMMA TickChained ==
    ASSUME IInv, Chained(runq), TimerTick
    PROVE  Chained(runq')
<1> DEFINE W == Requeued({s \in Slots : Expired(s, 1)})
<1>1. runq' = EnqueueAll(runq, W, level)
  BY DEF TimerTick, SchedulerTick
<1>2. W \in SUBSET Slots
  BY DEF Requeued
<1>3. runq \in Runqs /\ level \in [Slots -> Levels]
  BY DEF IInv, TypeOK, Runqs
<1> HIDE DEF W
<1> QED BY <1>1, <1>2, <1>3, EnqueueChained

\* Every step leaves the lists chained.
LEMMA ChainedStep ==
    ASSUME IInv, Chained(runq), [Next]_vars
    PROVE  Chained(runq')
<1> USE DEF idVars, waitVars, mlfqVars, boostVars, queueVars, curVars, cpuVars
<1>0. runq \in Runqs /\ Chained(BoostedRunq) /\ BoostedRunq \in Runqs
  BY BoostChained, BoostFact DEF IInv, TypeOK, Runqs
<1>1. CASE UNCHANGED vars
  BY <1>1 DEF vars
<1>2. ASSUME NEW s \in Slots, ShellSpawn(s) PROVE Chained(runq')
  BY <1>2, SpawnChained DEF ShellSpawn
<1>3. CASE Kernel
  <2>1. CASE SyscallReturn
    BY <1>0, <2>1, NoSwitch DEF SyscallReturn, BoostIfDue
  <2>2. CASE \/ InactiveSleepReturn \/ SleepReturn \/ GuiReturn \/ WaitSchedule
             \/ AbortContinue \/ PollScheduler
             \/ LoadEarlyFailure \/ LoadMap \/ LoadLateFailure \/ EnterRing3
    BY <2>2 DEF InactiveSleepReturn, SleepReturn, GuiReturn, WaitSchedule,
                AbortContinue, PollScheduler, LoadEarlyFailure, LoadMap,
                LoadLateFailure, EnterRing3
  <2>3. CASE WaitReap
    <3>1. FindSlot(warg.pid) \in Slots /\ runq' = RunqRemove(runq, FindSlot(warg.pid))
      <4>1. warg.pid \in Nat
        BY SizesAssumption DEF IInv, TypeOK
      <4> QED BY <2>3, <4>1, FindSlotFact DEF WaitReap, IInv
    <3> QED BY <1>0, <3>1, RemoveChained
  <2>4. CASE NothingRunnable
    BY <1>0, <2>4 DEF NothingRunnable, BoostIfDue
  <2>5. ASSUME NEW s \in Slots, Launch(s) PROVE Chained(runq')
    BY <1>0, <2>5, RemoveChained DEF Launch
  <2> QED BY <1>3, <2>1, <2>2, <2>3, <2>4, <2>5 DEF Kernel
<1>4. CASE Program
  <2>1. ASSUME NEW s \in Slots, UserSpawn(s) PROVE Chained(runq')
    BY <2>1, SpawnChained DEF UserSpawn
  <2>2. ASSUME NEW u \in SleepArgs, Sleep(u) PROVE Chained(runq')
    BY <2>2, BlockCurrentChained DEF Sleep
  <2>3. CASE InactiveSleep \/ Execve \/ \E install \in BOOLEAN : Signal(install)
    BY <2>3 DEF InactiveSleep, Execve, Signal
  <2>4. CASE GuiWait
    BY <2>4, BlockCurrentChained DEF GuiWait
  <2>5. ASSUME NEW p \in Pids, NEW nohang \in BOOLEAN, Waitpid(p, nohang)
        PROVE  Chained(runq')
    BY <2>5, BlockCurrentChained DEF Waitpid
  <2>6. ASSUME NEW p \in Pids, NEW sig \in Signals, Kill(p, sig)
        PROVE  Chained(runq')
    <3>1. FindSlot(p) \in Slots
      BY <2>6, FindSlotFact, SizesAssumption DEF Kill, IInv, Pids
    <3>2. NotifyExit \/ TerminateOther(FindSlot(p)) \/ runq' = runq
      BY <2>6 DEF Kill
    <3> QED BY <3>1, <3>2, NotifyExitChained, TerminateChained
  <2>7. CASE Exit \/ Fault
    BY <2>7, NotifyExitChained DEF Exit, Fault
  <2> QED BY <1>4, <2>1, <2>2, <2>3, <2>4, <2>5, <2>6, <2>7 DEF Program
<1>5. CASE Irq0
  <2>1. CASE TimerTick
    BY <2>1, TickChained
  <2>2. CASE TryPreempt
    BY <1>0, <2>2, NoSwitch DEF TryPreempt
  <2>3. CASE InterruptKernel \/ InterruptLists \/ InterruptUser
    BY <2>3, NotifyExitChained DEF InterruptKernel, InterruptLists, InterruptUser
  <2> QED BY <1>5, <2>1, <2>2, <2>3 DEF Irq0
<1> QED BY <1>1, <1>2, <1>3, <1>4, <1>5 DEF Next

-----------------------------------------------------------------------------
(* The lists and the slices. *)

\* The lists of the run queue stay chains, whatever is spawned, killed, woken
\* and boosted, until Ctrl-C strikes inside one of their operations, and are
\* chains again from the next boost on.
THEOREM ListsStayChained == Spec => []RunqChained
<1>1. Init => Chained(runq)
  <2> SUFFICES ASSUME Init, NEW l \in Levels PROVE ChainedIn(runq, l)
    BY DEF Chained
  <2>1. Members(runq, l) = {}
    BY DEF Init, Members, Queued, Unlinked
  <2>2. Cardinality(Members(runq, l)) = 0 /\ 1..0 = {}
    BY <2>1, FS_EmptySet
  <2> QED BY <2>1, <2>2 DEF ChainedIn
<1>2. IInv /\ Chained(runq) /\ [Next]_vars => Chained(runq)'
  BY ChainedStep DEF Chained, ChainedIn, Members, Queued
<1>3. Chained(runq) => RunqChained
  BY DEF Chained, ChainedIn, Members, RunqChained
<1> QED BY <1>1, <1>2, <1>3, Invariance, PTL DEF Spec

\* A boost gives the quantum of the level it raises a task to.
LEMMA BoostedSliceFits ==
    ASSUME TypeOK, SliceSound, NEW s \in Slots
    PROVE  /\ BoostedLevel[s] \in Levels
           /\ BoostedSlice[s] \in 1..Quantum[BoostedLevel[s]]
<1>1. /\ level[s] \in Levels /\ slice[s] \in 1..Quantum[level[s]]
      /\ SCHED_MLFQ_LEVEL_HIGH \in Levels
  BY DEF TypeOK, SliceSound, Levels, SCHED_MLFQ_LEVEL_HIGH
<1>2. \A l \in Levels : Quantum[l] \in 1..Quantum[l]
  BY QuantumAssumption
<1> QED BY <1>1, <1>2 DEF BoostedLevel, BoostedSlice

\* So does the accounting of a tick: the slice is used up or one less.
LEMMA AccountedSliceFits ==
    ASSUME TypeOK, SliceSound, NEW s \in Slots
    PROVE  AccountedSlice(s) \in 1..Quantum[AccountedLevel(s)]
<1>1. /\ BoostedLevel[s] \in Levels
      /\ BoostedSlice[s] \in 1..Quantum[BoostedLevel[s]]
  BY BoostedSliceFits
<1>2. AccountedLevel(s) \in Levels
  BY <1>1 DEF AccountedLevel, Levels, SCHED_MLFQ_LEVEL_LOW
<1>3. \A l \in Levels : Quantum[l] \in Nat \ {0}
  BY QuantumAssumption
<1>4. CASE BoostedSlice[s] <= 1
  BY <1>2, <1>3, <1>4 DEF AccountedSlice
<1>5. CASE ~(BoostedSlice[s] <= 1)
  <2>1. AccountedLevel(s) = BoostedLevel[s] /\ AccountedSlice(s) = BoostedSlice[s] - 1
    BY <1>5 DEF AccountedLevel, AccountedSlice
  <2> QED BY <1>1, <1>3, <1>5, <2>1
<1> QED BY <1>4, <1>5

\* Every step keeps every slice within the quantum of its level.
LEMMA SliceStep ==
    ASSUME IInv, SliceSound, [Next]_vars
    PROVE  SliceSound'
<1> USE DEF idVars, waitVars, mlfqVars, boostVars, queueVars, curVars, cpuVars
<1>1. TypeOK
  BY DEF IInv
<1>2. \A s \in Slots : /\ BoostedSlice[s] \in 1..Quantum[BoostedLevel[s]]
                       /\ AccountedSlice(s) \in 1..Quantum[AccountedLevel(s)]
  BY <1>1, BoostedSliceFits, AccountedSliceFits
<1>3. /\ level \in [Slots -> Levels] /\ slice \in [Slots -> Nat]
      /\ SCHED_MLFQ_LEVEL_HIGH \in Levels
      /\ \A l \in Levels : Quantum[l] \in 1..Quantum[l]
  BY <1>1, QuantumAssumption DEF TypeOK, Levels, SCHED_MLFQ_LEVEL_HIGH
<1>4. CASE UNCHANGED <<level, slice>>
  BY <1>4 DEF SliceSound
<1>5. CASE level' = BoostedLevel /\ slice' = BoostedSlice
  BY <1>2, <1>5 DEF SliceSound
<1>6. ASSUME NEW s \in Slots, NEW back, SpawnSlot(s, back) PROVE SliceSound'
  <2>1. /\ level' = [level EXCEPT ![s] = SCHED_MLFQ_LEVEL_HIGH]
        /\ slice' = [slice EXCEPT ![s] = Quantum[SCHED_MLFQ_LEVEL_HIGH]]
    BY <1>6 DEF SpawnSlot
  <2> QED BY <1>3, <2>1 DEF SliceSound
<1>7. CASE WaitReap
  <2> DEFINE z == FindSlot(warg.pid)
  <2>1. /\ level' = [level EXCEPT ![z] = SCHED_MLFQ_LEVEL_HIGH]
        /\ slice' = [slice EXCEPT ![z] = Quantum[SCHED_MLFQ_LEVEL_HIGH]]
    BY <1>7 DEF WaitReap
  <2> HIDE DEF z
  <2> QED BY <1>3, <2>1 DEF SliceSound
<1>8. CASE TryPreempt
  <2>1. level' = LevelsAccounted /\ slice' = SlicesAccounted
    BY <1>8, NoSwitch DEF TryPreempt
  <2> QED BY <1>2, <2>1 DEF SliceSound, LevelsAccounted, SlicesAccounted
<1>9. CASE UNCHANGED vars
  BY <1>4, <1>9 DEF vars
<1>10. ASSUME NEW s \in Slots, ShellSpawn(s) PROVE SliceSound'
  BY <1>6, <1>10 DEF ShellSpawn
<1>11. CASE Kernel
  <2>1. CASE SyscallReturn
    BY <1>4, <1>5, <2>1, NoSwitch DEF SyscallReturn, BoostIfDue
  <2>2. CASE \/ InactiveSleepReturn \/ SleepReturn \/ GuiReturn \/ WaitSchedule
             \/ AbortContinue \/ PollScheduler
             \/ LoadEarlyFailure \/ LoadMap \/ LoadLateFailure \/ EnterRing3
    BY <1>4, <2>2 DEF InactiveSleepReturn, SleepReturn, GuiReturn, WaitSchedule,
                AbortContinue, PollScheduler, LoadEarlyFailure, LoadMap,
                LoadLateFailure, EnterRing3
  <2>3. CASE NothingRunnable
    BY <1>5, <2>3 DEF NothingRunnable, BoostIfDue
  <2>4. ASSUME NEW s \in Slots, Launch(s) PROVE SliceSound'
    BY <1>5, <2>4 DEF Launch
  <2> QED BY <1>7, <1>11, <2>1, <2>2, <2>3, <2>4 DEF Kernel
<1>12. CASE Program
  <2>1. ASSUME NEW s \in Slots, UserSpawn(s) PROVE SliceSound'
    BY <1>6, <2>1 DEF UserSpawn
  <2>2. ~(\E s \in Slots : UserSpawn(s)) => UNCHANGED <<level, slice>>
    BY <1>12 DEF Program, Sleep, InactiveSleep, GuiWait, Waitpid, Kill, Signal,
                 Execve, Exit, Fault
  <2> QED BY <1>4, <2>1, <2>2
<1>13. CASE InterruptLists
  <2>1. \A s \in Slots : \/ level'[s] = level[s] /\ slice'[s] = slice[s]
                         \/ level'[s] = BoostedLevel[s] /\ slice'[s] = BoostedSlice[s]
    BY <1>3, <1>13 DEF InterruptLists
  <2> QED BY <1>2, <2>1 DEF SliceSound
<1>14. CASE Irq0
  BY <1>4, <1>8, <1>13, <1>14 DEF Irq0, TimerTick, InterruptKernel, InterruptUser
<1> QED BY <1>9, <1>10, <1>11, <1>12, <1>14 DEF Next

\* The slice of a task is always what is left of the quantum of its level: a
\* boost, a demotion and a reused slot each set both.
THEOREM SlicesFit == Spec => []SliceSound
<1>1. Init => SliceSound
  BY QuantumAssumption DEF Init, SliceSound, Levels, SCHED_MLFQ_LEVEL_HIGH
<1>2. IInv /\ SliceSound /\ [Next]_vars => SliceSound'
  BY SliceStep
<1> QED BY <1>1, <1>2, Invariance, PTL DEF Spec

-----------------------------------------------------------------------------
(* Whose program the CPU executes. *)

\* The current task, if there is one, is the one whose program was entered.
ProgInv == running_pid # 0 => prog \in Slots /\ pid[prog] = running_pid

\* Every switch of programs sets the running pid to the pid of the new one.
LEMMA ProgStep ==
    ASSUME IInv, ProgInv, [Next]_vars
    PROVE  ProgInv'
<1> USE DEF idVars, waitVars, mlfqVars, boostVars, queueVars, curVars, cpuVars
<1>1. CASE UNCHANGED <<pid, running_pid, prog>> \/ running_pid' = 0
  BY <1>1 DEF ProgInv
<1>2. ASSUME NEW s \in Slots, NEW back, SpawnSlot(s, back) PROVE ProgInv'
  <2>1. /\ ~Used(s) /\ UNCHANGED <<running_pid, prog>>
        /\ pid' = [pid EXCEPT ![s] = next_pid]
    BY <1>2 DEF SpawnSlot, FreeSlot
  <2>2. pid[s] = 0
    BY <2>1 DEF IInv, PidInv
  <2>3. pid \in [Slots -> 0..MaxPid]
    BY DEF IInv, TypeOK
  <2> QED BY <2>1, <2>2, <2>3 DEF ProgInv
<1>3. CASE WaitReap
  <2> DEFINE z == FindSlot(warg.pid)
  <2>1. /\ z \in Slots /\ state[z] = "ZOMBIE"
        /\ pid' = [pid EXCEPT ![z] = 0] /\ UNCHANGED <<running_pid, prog>>
    <3>1. warg.pid \in Nat
      BY SizesAssumption DEF IInv, TypeOK
    <3> QED BY <1>3, <3>1, FindSlotFact DEF WaitReap, IInv
  <2>2. pid[z] # running_pid
    BY <2>1 DEF IInv, RunningInv, PidInv, Used
  <2>3. pid \in [Slots -> 0..MaxPid]
    BY DEF IInv, TypeOK
  <2> HIDE DEF z
  <2> QED BY <2>1, <2>2, <2>3 DEF ProgInv
<1>4. CASE EnterRing3
  <2>1. /\ running_pid' = pending_pid /\ pid' = pid
        /\ prog' = IF loading = NoSlot THEN prog ELSE loading
    BY <1>4 DEF EnterRing3
  <2> QED BY <2>1 DEF ProgInv, IInv, LaunchInv, TypeOK
<1>5. CASE LoadEarlyFailure \/ LoadLateFailure
  BY <1>1, <1>5 DEF LoadEarlyFailure, LoadLateFailure, LoadFails
<1>6. CASE AbortContinue
  BY <1>1, <1>6 DEF AbortContinue, IInv, RunningInv
<1>7. CASE SyscallReturn \/ TryPreempt
  BY <1>1, <1>7, NoSwitch DEF SyscallReturn, TryPreempt
<1>8. CASE UNCHANGED vars
  BY <1>1, <1>8 DEF vars
<1>9. ASSUME NEW s \in Slots, ShellSpawn(s) PROVE ProgInv'
  BY <1>2, <1>9 DEF ShellSpawn
<1>10. CASE Kernel
  <2>1. CASE \/ InactiveSleepReturn \/ SleepReturn \/ GuiReturn \/ WaitSchedule
             \/ PollScheduler \/ LoadMap \/ NothingRunnable \/ \E s \in Slots : Launch(s)
    BY <1>1, <2>1 DEF InactiveSleepReturn, SleepReturn, GuiReturn, WaitSchedule,
                      PollScheduler, LoadMap, NothingRunnable, Launch
  <2> QED BY <1>3, <1>4, <1>5, <1>6, <1>7, <1>10, <2>1 DEF Kernel
<1>11. CASE Program
  <2>1. ASSUME NEW s \in Slots, UserSpawn(s) PROVE ProgInv'
    BY <1>2, <2>1 DEF UserSpawn
  <2>2. CASE InactiveSleep \/ GuiWait \/ Execve \/ Exit \/ Fault
    BY <1>1, <2>2 DEF InactiveSleep, GuiWait, Execve, Exit, Fault, NotifyExit
  <2>3. CASE \/ \E u \in SleepArgs : Sleep(u)
             \/ \E p \in Pids, nohang \in BOOLEAN : Waitpid(p, nohang)
             \/ \E install \in BOOLEAN : Signal(install)
    BY <1>1, <2>3 DEF Sleep, Waitpid, Signal
  <2>4. ASSUME NEW p \in Pids, NEW sig \in Signals, Kill(p, sig) PROVE ProgInv'
    BY <1>1, <2>4 DEF Kill, NotifyExit
  <2> QED BY <1>11, <2>1, <2>2, <2>3, <2>4 DEF Program
<1>12. CASE Irq0
  BY <1>1, <1>7, <1>12 DEF Irq0, TimerTick, InterruptKernel, InterruptLists, InterruptUser,
                          NotifyExit
<1> QED BY <1>8, <1>9, <1>10, <1>11, <1>12 DEF Next

\* What is charged to g_user_task_running_pid is done by the program the CPU
\* executes: no spawn, load, failed load or end of a task leaves another pid.
THEOREM ChargedToTheProgram == Spec => []CurrentIsProg
<1>1. Init => ProgInv
  BY DEF Init, ProgInv
<1>2. IInv /\ ProgInv /\ [Next]_vars => ProgInv'
  BY ProgStep
<1>3. IInv /\ ProgInv => CurrentIsProg
  BY CurrentFact DEF IInv, ProgInv, CurrentIsProg
<1> QED BY <1>1, <1>2, <1>3, Invariance, PTL DEF Spec

-----------------------------------------------------------------------------
(* The mapped program, where no load fails after the old one is unmapped. *)

ImageInv == mode # "map" => image = prog

\* The image and the program are set together, except by the loader.
LEMMA ImageStep ==
    ASSUME IInv, ImageInv, "late" \notin LoadOutcomes, [Next]_vars
    PROVE  ImageInv'
<1> USE DEF idVars, waitVars, mlfqVars, boostVars, queueVars, curVars, cpuVars, ImageInv
<1>1. CASE UNCHANGED vars
  BY <1>1 DEF vars
<1>2. ASSUME NEW s \in Slots, ShellSpawn(s) PROVE ImageInv'
  BY <1>2 DEF ShellSpawn, SpawnSlot
<1>3. CASE Kernel
  BY <1>3, NoSwitch DEF Kernel, SyscallReturn, InactiveSleepReturn, SleepReturn,
       GuiReturn, WaitReap, WaitSchedule, AbortContinue, PollScheduler,
       NothingRunnable, Launch, LoadEarlyFailure, LoadMap, LoadLateFailure,
       EnterRing3
<1>4. CASE Program
  BY <1>4 DEF Program, UserSpawn, SpawnSlot, Syscall, Sleep, InactiveSleep, GuiWait,
       Waitpid, Kill, Signal, Execve, Exit, Fault
<1>5. CASE Irq0
  BY <1>5, NoSwitch DEF Irq0, TimerTick, TryPreempt, InterruptKernel, InterruptLists,
                        InterruptUser
<1> QED BY <1>1, <1>2, <1>3, <1>4, <1>5 DEF Next

\* Ring 3 runs with its own program mapped, as long as every load that fails
\* fails before the old program is unmapped.
THEOREM MappedProgramRuns ==
    ASSUME "late" \notin LoadOutcomes
    PROVE  Spec => []Ring3Mapped
<1>1. Init => ImageInv
  BY DEF Init, ImageInv
<1>2. IInv /\ ImageInv /\ [Next]_vars => ImageInv'
  BY ImageStep
<1>3. ImageInv => Ring3Mapped
  BY DEF ImageInv, Ring3Mapped
<1> QED BY <1>1, <1>2, <1>3, Invariance, PTL DEF Spec

-----------------------------------------------------------------------------
(* Waiters, where no load fails. *)

\* Whoever is blocked in waitpid, on the CPU or off it, waits for a task that
\* has not ended.
WaiterInv ==
    \A s \in Slots : state[s] = "BLOCKED" /\ reason[s] = "WAITPID"
        => \E t \in Slots : /\ pid[t] # 0 /\ pid[t] = target[s]
                            /\ state[t] # "ZOMBIE"

\* A step that blocks nobody in waitpid and ends nobody keeps WaiterInv.
LEMMA WaitersKept ==
    ASSUME WaiterInv,
           \A s \in Slots : state'[s] = "BLOCKED" /\ reason'[s] = "WAITPID" =>
              /\ state[s] = "BLOCKED" /\ reason[s] = "WAITPID"
              /\ target'[s] = target[s],
           \A t \in Slots : pid[t] # 0 /\ state[t] # "ZOMBIE" =>
              pid'[t] = pid[t] /\ state'[t] # "ZOMBIE"
    PROVE  WaiterInv'
BY DEF WaiterInv

\* The end of the current task releases all who wait for it.
LEMMA NotifyExitWaiters ==
    ASSUME IInv, WaiterInv, NotifyExit, pid' = pid
    PROVE  WaiterInv'
<1> DEFINE st == [s \in Slots |-> IF s = Current THEN "ZOMBIE" ELSE state[s]]
           W == IF running_pid = 0 THEN {} ELSE WaitersFor(running_pid, st)
<1>1. /\ state' = WakeAll(W, st) /\ ClearWait(W)
  BY DEF NotifyExit
<1>2. /\ NoSlot \notin Slots
      /\ \A s \in Slots : s = Current <=> running_pid # 0 /\ pid[s] = running_pid
  BY CurrentFact DEF IInv
<1>3. \A s \in Slots : s \in W <=> /\ running_pid # 0 /\ s # Current
                                   /\ state[s] = "BLOCKED" /\ reason[s] = "WAITPID"
                                   /\ target[s] = running_pid
  BY DEF WaitersFor
<1>4. \A s \in Slots : s \notin W => /\ state'[s] = IF s = Current THEN "ZOMBIE" ELSE state[s]
                                     /\ reason'[s] = reason[s] /\ target'[s] = target[s]
  BY <1>1 DEF WakeAll, ClearWait
<1>5. \A s \in Slots : s \in W => state'[s] \in {"RUNNING", "RUNNABLE"}
  BY <1>1 DEF WakeAll, WokenState
<1> HIDE DEF W, st
<1> QED BY <1>2, <1>3, <1>4, <1>5 DEF WaiterInv

\* So does the termination of another task.
LEMMA TerminateWaiters ==
    ASSUME IInv, WaiterInv, NEW z \in Slots, TerminateOther(z), pid' = pid,
           pid[z] # 0
    PROVE  WaiterInv'
<1> DEFINE st == [state EXCEPT ![z] = "ZOMBIE"]
           W == WaitersFor(pid[z], st)
           woken == WakeAll(W, st)
           P == {t \in Slots : /\ parent[z] # 0 /\ pid[t] = parent[z]
                               /\ woken[t] = "BLOCKED"}
<1>1. state' = WakeAll(P, woken) /\ ClearWait(W)
  BY DEF TerminateOther, TerminateFrom
<1>2. \A s \in Slots : st[s] = IF s = z THEN "ZOMBIE" ELSE state[s]
  BY DEF IInv, TypeOK
<1>3. \A s \in Slots : s \in W <=> /\ st[s] = "BLOCKED" /\ reason[s] = "WAITPID"
                                   /\ target[s] = pid[z]
  BY DEF WaitersFor
<1>4. \A s \in Slots : /\ reason'[s] = IF s \in W THEN "NONE" ELSE reason[s]
                       /\ s \notin W => target'[s] = target[s]
  BY <1>1 DEF ClearWait
<1>5. \A s \in Slots : \/ state'[s] \in {"RUNNING", "RUNNABLE"}
                       \/ s \notin W /\ state'[s] = st[s]
  BY <1>1 DEF WakeAll, WokenState
<1> HIDE DEF W, st, woken, P
<1>6. \A s, t \in Slots : pid[s] = pid[t] /\ pid[s] # 0 => s = t
  BY DEF IInv, PidInv
<1> QED BY <1>2, <1>3, <1>4, <1>5, <1>6 DEF WaiterInv

\* waitpid blocks only for a task that has not ended.
LEMMA WaitpidWaiters ==
    ASSUME IInv, WaiterInv, NEW p \in Pids, NEW nohang \in BOOLEAN, Waitpid(p, nohang)
    PROVE  WaiterInv'
<1>1. /\ NoSlot \notin Slots /\ Current \in Slots \cup {NoSlot}
  BY CurrentFact DEF IInv
<1>2. pid' = pid
  BY DEF Waitpid, idVars
<1>3. CASE UNCHANGED <<state, waitVars>>
  BY <1>2, <1>3, WaitersKept DEF waitVars
<1>4. CASE FindSlot(p) # NoSlot /\ state[FindSlot(p)] # "ZOMBIE" /\ Current # NoSlot
           /\ BlockCurrent("WAITPID", p, 0)
  <2>1. PICK t \in Slots : pid[t] # 0 /\ pid[t] = p /\ state[t] # "ZOMBIE"
    BY <1>4, FindSlotFact, SizesAssumption DEF IInv, Pids
  <2>2. /\ state' = [state EXCEPT ![Current] = "BLOCKED"]
        /\ reason' = [reason EXCEPT ![Current] = "WAITPID"]
        /\ target' = [target EXCEPT ![Current] = p]
    BY <1>4 DEF BlockCurrent
  <2>3. /\ state \in [Slots -> States] /\ reason \in [Slots -> Reasons]
        /\ target \in [Slots -> 0..MaxPid]
    BY DEF IInv, TypeOK
  <2> HIDE DEF WaiterInv
  <2>4. ASSUME NEW s \in Slots, state'[s] = "BLOCKED", reason'[s] = "WAITPID"
        PROVE  \E u \in Slots : /\ pid'[u] # 0 /\ pid'[u] = target'[s]
                                /\ state'[u] # "ZOMBIE"
    <3>1. CASE s = Current
      BY <1>2, <2>1, <2>2, <2>3, <3>1
    <3>2. CASE s # Current
      <4>1. state[s] = "BLOCKED" /\ reason[s] = "WAITPID" /\ target'[s] = target[s]
        BY <2>2, <2>3, <2>4, <3>2
      <4>2. PICK u \in Slots : /\ pid[u] # 0 /\ pid[u] = target[s]
                               /\ state[u] # "ZOMBIE"
        BY <4>1 DEF WaiterInv
      <4>3. state'[u] # "ZOMBIE"
        BY <2>2, <2>3, <4>2
      <4> QED BY <1>2, <4>1, <4>2, <4>3
    <3> QED BY <3>1, <3>2
  <2> QED BY <2>4 DEF WaiterInv
<1> QED BY <1>1, <1>3, <1>4 DEF Waitpid, BlockCurrent, waitVars

\* Every step keeps WaiterInv where no load fails.
LEMMA WaiterStep ==
    ASSUME IInv, WaiterInv, LoadOutcomes \subseteq {"ok"}, [Next]_vars
    PROVE  WaiterInv'
<1> USE DEF idVars, waitVars, mlfqVars, boostVars, queueVars, curVars, cpuVars
<1>0. /\ NoSlot \notin Slots /\ Current \in Slots \cup {NoSlot}
      /\ \A s \in Slots : pid[s] # 0 <=> state[s] # "UNUSED"
      /\ pid \in [Slots -> 0..MaxPid] /\ state \in [Slots -> States]
      /\ reason \in [Slots -> Reasons] /\ target \in [Slots -> 0..MaxPid]
  BY CurrentFact DEF IInv, PidInv, TypeOK, Used
<1>1. CASE UNCHANGED <<pid, state, reason, target>>
  BY <1>1, WaitersKept
<1>2. ASSUME NEW s \in Slots, NEW back, SpawnSlot(s, back) PROVE WaiterInv'
  <2>1. /\ state[s] = "UNUSED" /\ pid' = [pid EXCEPT ![s] = next_pid]
        /\ state' = [state EXCEPT ![s] = "RUNNABLE"]
        /\ reason' = [reason EXCEPT ![s] = "NONE"]
        /\ target' = [target EXCEPT ![s] = 0]
    BY <1>2 DEF SpawnSlot, FreeSlot, Used
  <2> QED BY <1>0, <2>1, WaitersKept
<1>3. ASSUME NEW why \in {"SLEEP", "GUI"}, NEW n, BlockCurrent(why, 0, n), pid' = pid
      PROVE  WaiterInv'
  BY <1>0, <1>3, WaitersKept DEF BlockCurrent
<1>4. ASSUME UnblockCurrent, pid' = pid PROVE WaiterInv'
  BY <1>0, <1>4, WaitersKept DEF UnblockCurrent, UnblockedState, ClearWait
<1>5. CASE WaitReap
  <2> DEFINE z == FindSlot(warg.pid)
  <2>1. /\ z \in Slots /\ state[z] = "ZOMBIE"
        /\ pid' = [pid EXCEPT ![z] = 0]
        /\ state' = [UnblockedState EXCEPT ![z] = "UNUSED"]
        /\ ClearWait({Current, z})
    <3>1. warg.pid \in Nat
      BY SizesAssumption DEF IInv, TypeOK
    <3> QED BY <1>5, <3>1, FindSlotFact DEF WaitReap, IInv
  <2> HIDE DEF z
  <2>2. \A s \in Slots :
          /\ state'[s] = "BLOCKED" => state[s] = "BLOCKED" /\ s # Current /\ s # z
          /\ s # z /\ state[s] # "ZOMBIE" => state'[s] # "ZOMBIE" /\ pid'[s] = pid[s]
          /\ s # Current /\ s # z => reason'[s] = reason[s] /\ target'[s] = target[s]
    BY <1>0, <2>1 DEF UnblockedState, ClearWait
  <2> QED BY <2>1, <2>2, WaitersKept
<1>6. ASSUME NEW s \in Slots, Launch(s) PROVE WaiterInv'
  <2>1. /\ state' = [state EXCEPT ![s] = "RUNNING"] /\ ClearWait({s}) /\ pid' = pid
    BY <1>6 DEF Launch
  <2> QED BY <1>0, <2>1, WaitersKept DEF ClearWait
<1>7. CASE TimerTick
  <2>1. /\ pid' = pid /\ target' = target
        /\ state' = WakeAll({s \in Slots : Expired(s, 1)}, state)
        /\ reason' = [s \in Slots |-> IF s \in {t \in Slots : Expired(t, 1)}
                                      THEN "NONE" ELSE reason[s]]
    BY <1>7 DEF TimerTick, SchedulerTick
  <2>2. \A s \in Slots : \/ state'[s] = state[s] /\ reason'[s] = reason[s]
                         \/ state'[s] \in {"RUNNING", "RUNNABLE"}
    BY <2>1 DEF WakeAll, WokenState
  <2> QED BY <2>1, <2>2, WaitersKept
<1>8. CASE SyscallReturn \/ TryPreempt
  BY <1>1, <1>8, NoSwitch DEF SyscallReturn, TryPreempt
<1>9. CASE UNCHANGED vars
  BY <1>1, <1>9 DEF vars
<1>10. ASSUME NEW s \in Slots, ShellSpawn(s) PROVE WaiterInv'
  BY <1>2, <1>10 DEF ShellSpawn
<1>11. CASE Kernel
  <2>1. CASE SleepReturn \/ GuiReturn \/ NothingRunnable
    BY <1>1, <1>4, <2>1 DEF SleepReturn, GuiReturn, NothingRunnable
  <2>2. CASE \/ InactiveSleepReturn \/ WaitSchedule \/ AbortContinue
             \/ PollScheduler \/ LoadMap \/ EnterRing3
    BY <1>1, <2>2 DEF InactiveSleepReturn, WaitSchedule, AbortContinue,
                      PollScheduler, LoadMap, EnterRing3
  <2>3. ~LoadEarlyFailure /\ ~LoadLateFailure
    BY DEF LoadEarlyFailure, LoadLateFailure
  <2> QED BY <1>5, <1>6, <1>8, <1>11, <2>1, <2>2, <2>3 DEF Kernel
<1>12. CASE Program
  <2>1. ASSUME NEW s \in Slots, UserSpawn(s) PROVE WaiterInv'
    BY <1>2, <2>1 DEF UserSpawn
  <2>2. ASSUME NEW u \in SleepArgs, Sleep(u) PROVE WaiterInv'
    BY <1>3, <2>2 DEF Sleep
  <2>3. CASE InactiveSleep \/ Execve \/ \E install \in BOOLEAN : Signal(install)
    BY <1>1, <2>3 DEF InactiveSleep, Execve, Signal
  <2>4. CASE GuiWait
    BY <1>3, <2>4 DEF GuiWait
  <2>5. ASSUME NEW p \in Pids, NEW sig \in Signals, Kill(p, sig) PROVE WaiterInv'
    <3>1. FindSlot(p) \in Slots /\ pid[FindSlot(p)] # 0
      BY <2>5, FindSlotFact, SizesAssumption DEF Kill, IInv, Pids
    <3>2. /\ pid' = pid
          /\ \/ NotifyExit \/ TerminateOther(FindSlot(p))
             \/ UNCHANGED <<state, reason, target>>
      BY <2>5 DEF Kill
    <3> QED BY <1>1, <3>1, <3>2, NotifyExitWaiters, TerminateWaiters
  <2>6. CASE Exit \/ Fault
    BY <2>6, NotifyExitWaiters DEF Exit, Fault
  <2> QED BY <1>12, <2>1, <2>2, <2>3, <2>4, <2>5, <2>6, WaitpidWaiters DEF Program
<1>13. CASE Irq0
  BY <1>1, <1>7, <1>8, <1>13, NotifyExitWaiters
     DEF Irq0, InterruptKernel, InterruptLists, InterruptUser
<1> QED BY <1>9, <1>10, <1>11, <1>12, <1>13 DEF Next

\* Where no load fails, a task that waits for a pid off the CPU waits for one
\* that can still exit: exit, kill, a fault and Ctrl-C wake every waiter.  (A
\* failed load ends a task without waking anyone.)
THEOREM WaitersAreWoken ==
    ASSUME LoadOutcomes \subseteq {"ok"}
    PROVE  Spec => []NoLostWaiter
<1>1. Init => WaiterInv
  BY DEF Init, WaiterInv
<1>2. IInv /\ WaiterInv /\ [Next]_vars => WaiterInv'
  BY WaiterStep
<1>3. IInv /\ WaiterInv => NoLostWaiter
  <2> SUFFICES ASSUME IInv, WaiterInv, NEW s \in Slots,
                      state[s] = "BLOCKED", pid[s] # running_pid
               PROVE  /\ FindSlot(target[s]) # NoSlot
                      /\ state[FindSlot(target[s])] # "ZOMBIE"
    BY DEF NoLostWaiter
  <2>1. reason[s] = "WAITPID"
    BY DEF IInv, BlockInv
  <2>2. PICK t \in Slots : pid[t] # 0 /\ pid[t] = target[s] /\ state[t] # "ZOMBIE"
    BY <2>1 DEF WaiterInv
  <2>3. target[s] \in Nat
    BY SizesAssumption DEF IInv, TypeOK
  <2>4. t = FindSlot(target[s])
    BY <2>2, <2>3, FindSlotFact DEF IInv
  <2> QED BY <2>2, <2>4, CurrentFact DEF IInv
<1> QED BY <1>1, <1>2, <1>3, Invariance, PTL DEF Spec

-----------------------------------------------------------------------------
(* One RUNNING task, where nothing interrupts a wait or a load.            *)

\* Programs that use neither waitpid with WNOHANG nor execve, on a console
\* where Ctrl-C is not typed, and that send SIGKILL only.
Quiet == ~CtrlC /\ Signals \subseteq {"KILL"} /\ Calls \cap {"nohang", "execve"} = {}

\* The tasks that are RUNNING: the one being loaded, or the current one, which
\* is BLOCKED while the scheduler and the loader run under it.
OnCpuInv ==
    /\ ~user_interrupt /\ ~warg.nohang
    /\ mode \in {"load", "map"} => loading # NoSlot /\ pending_pid = pid[loading]
    /\ \A s \in Slots : state[s] = "RUNNING" =>
          s = loading \/ (running_pid # 0 /\ pid[s] = running_pid)
    /\ \A s \in Slots : running_pid # 0 /\ pid[s] = running_pid =>
          /\ mode \in {"sched", "load", "map"} => state[s] = "BLOCKED"
          /\ mode = "wait" => \/ state[s] = "BLOCKED"
                              \/ \E t \in Slots : pid[t] = warg.pid /\ state[t] = "ZOMBIE"

\* Exit, kill and fault in ring 3, where nothing is being loaded.
LEMMA OnCpuExit ==
    ASSUME IInv, OnCpuInv, NotifyExit, mode = "user", mode' \in {"abort", "ret"},
           UNCHANGED <<pid, warg, loading>>, ~user_interrupt'
    PROVE  OnCpuInv'
<1>1. loading = NoSlot /\ running_pid' = 0
  BY DEF IInv, LaunchInv, NotifyExit
<1>2. /\ NoSlot \notin Slots
      /\ \A s \in Slots : s = Current <=> running_pid # 0 /\ pid[s] = running_pid
  BY CurrentFact DEF IInv
<1>3. \A s \in Slots : state'[s] # "RUNNING"
  BY <1>1, <1>2, NotifyExitFact DEF IInv, OnCpuInv
<1> QED BY <1>1, <1>3 DEF OnCpuInv

\* Each step leaves at most the task of the CPU RUNNING: the caller of a launch
\* is blocked first, and a launch ends before its caller runs again.
LEMMA OnCpuStep ==
    ASSUME IInv, OnCpuInv, Quiet, [Next]_vars
    PROVE  OnCpuInv'
<1> USE DEF idVars, waitVars, mlfqVars, boostVars, queueVars, curVars, cpuVars
<1>0. /\ NoSlot \notin Slots /\ Current \in Slots \cup {NoSlot}
      /\ \A s \in Slots : s = Current <=> running_pid # 0 /\ pid[s] = running_pid
      /\ \A s \in Slots : pid[s] # 0 <=> state[s] # "UNUSED"
      /\ pid \in [Slots -> 0..MaxPid] /\ state \in [Slots -> States]
      /\ loading # NoSlot => mode \in {"load", "map"}
      /\ running_pid # 0 => active
      /\ ~user_interrupt /\ ~warg.nohang
  BY CurrentFact DEF IInv, PidInv, TypeOK, Used, LaunchInv, RunningInv, OnCpuInv
<1>1. CASE UNCHANGED <<pid, state, running_pid, pending_pid, loading, mode, warg, user_interrupt>>
  BY <1>1 DEF OnCpuInv
<1>2. ASSUME NEW s \in Slots, NEW back \in {"shell", "ret"}, mode \in {"shell", "user"},
             SpawnSlot(s, back)
      PROVE  OnCpuInv'
  <2>1. /\ state[s] = "UNUSED" /\ pid[s] = 0 /\ pid' = [pid EXCEPT ![s] = next_pid]
        /\ state' = [state EXCEPT ![s] = "RUNNABLE"]
        /\ UNCHANGED <<running_pid, loading, warg, user_interrupt>>
        /\ \/ mode' = back
           \/ ~active /\ mode' = "sched"
    BY <1>0, <1>2 DEF SpawnSlot, FreeSlot, Used
  <2>2. loading = NoSlot /\ (mode' = "sched" => running_pid = 0)
    BY <1>0, <1>2, <2>1
  <2>3. ASSUME NEW t \in Slots, state'[t] = "RUNNING"
        PROVE  running_pid # 0 /\ pid'[t] = running_pid
    BY <1>0, <2>1, <2>2, <2>3 DEF OnCpuInv
  <2> QED BY <1>0, <1>2, <2>1, <2>2, <2>3 DEF OnCpuInv
<1>3. ASSUME mode = "user", NEW m \in {"sleep", "gui", "wait"}, mode' = m,
             NEW why, NEW what, NEW n, BlockCurrent(why, what, n),
             UNCHANGED <<pid, running_pid, loading, user_interrupt>>, ~warg'.nohang
      PROVE  OnCpuInv'
  <2>1. CASE Current = NoSlot
    BY <1>0, <1>3, <2>1 DEF OnCpuInv, BlockCurrent
  <2>2. CASE Current # NoSlot
    <3>1. state' = [state EXCEPT ![Current] = "BLOCKED"]
      BY <1>3, <2>2 DEF BlockCurrent
    <3> QED BY <1>0, <1>3, <2>2, <3>1 DEF OnCpuInv
  <2> QED BY <2>1, <2>2
<1>4. ASSUME UnblockCurrent, mode \notin {"load", "map"}, mode' = "ret",
             UNCHANGED <<pid, running_pid, loading, warg, user_interrupt>>
      PROVE  OnCpuInv'
  BY <1>0, <1>4 DEF OnCpuInv, UnblockCurrent, UnblockedState
<1>5. CASE WaitReap
  <2> DEFINE z == FindSlot(warg.pid)
  <2>1. /\ z \in Slots /\ state[z] = "ZOMBIE" /\ mode = "wait" /\ mode' = "ret"
        /\ pid' = [pid EXCEPT ![z] = 0]
        /\ state' = [UnblockedState EXCEPT ![z] = "UNUSED"]
        /\ warg' = NoWait /\ UNCHANGED <<running_pid, loading, user_interrupt>>
    <3>1. warg.pid \in Nat
      BY SizesAssumption DEF IInv, TypeOK
    <3> QED BY <1>5, <3>1, FindSlotFact DEF WaitReap, IInv
  <2> HIDE DEF z
  <2>2. \A s \in Slots : state'[s] = "RUNNING" =>
           s # z /\ (state[s] = "RUNNING" \/ s = Current)
    BY <1>0, <2>1 DEF UnblockedState
  <2>3. ~warg'.nohang
    BY <2>1 DEF NoWait
  <2> QED BY <1>0, <2>1, <2>2, <2>3 DEF OnCpuInv
<1>6. CASE WaitSchedule
  <2>1. /\ mode = "wait" /\ mode' = "sched"
        /\ FindSlot(warg.pid) # NoSlot /\ state[FindSlot(warg.pid)] # "ZOMBIE"
        /\ UNCHANGED <<pid, state, running_pid, loading, warg, user_interrupt>>
    BY <1>6 DEF WaitSchedule
  <2>2. \A t \in Slots : pid[t] = warg.pid => state[t] # "ZOMBIE"
    <3>1. warg.pid \in Nat
      BY SizesAssumption DEF IInv, TypeOK
    <3>2. warg.pid # 0
      BY <2>1, <3>1, FindSlotFact DEF IInv
    <3> QED BY <2>1, <3>1, <3>2, FindSlotFact DEF IInv
  <2> QED BY <2>1, <2>2 DEF OnCpuInv
<1>7. ASSUME NEW n \in Slots, Launch(n) PROVE OnCpuInv'
  <2>1. /\ mode = "sched" /\ mode' = "load" /\ loading' = n /\ pending_pid' = pid[n]
        /\ state' = [state EXCEPT ![n] = "RUNNING"]
        /\ UNCHANGED <<pid, running_pid, warg, user_interrupt>>
    BY <1>7 DEF Launch
  <2>2. state[n] = "RUNNABLE"
    BY <1>7 DEF Launch, Popped
  <2>3. n # Current
    BY <1>0, <2>1, <2>2 DEF OnCpuInv
  <2> QED BY <1>0, <2>1, <2>2, <2>3 DEF OnCpuInv
<1>8. CASE LoadEarlyFailure \/ LoadLateFailure
  <2>1. /\ mode \in {"load", "map"} /\ LoadFails /\ UNCHANGED <<pid, warg, user_interrupt>>
    BY <1>8 DEF LoadEarlyFailure, LoadLateFailure
  <2>2. /\ loading # NoSlot /\ state' = [state EXCEPT ![loading] = "ZOMBIE"]
        /\ loading' = NoSlot /\ mode' \in {"shell", "gsleep", "wait", "ret"}
        /\ running_pid' = running_pid /\ pid[loading] # running_pid
        /\ loading \in Slots
    <3>1. ret \in Returns /\ loading \in Slots \cup {NoSlot}
      BY DEF IInv, TypeOK
    <3>2. loading # NoSlot
      BY <2>1 DEF OnCpuInv
    <3>3. pid[loading] # running_pid
      BY <3>2 DEF IInv, LaunchInv
    <3> QED BY <2>1, <3>1, <3>2, <3>3, ModeAfterFact DEF LoadFails
  <2> QED BY <1>0, <2>1, <2>2 DEF OnCpuInv
<1>9. CASE EnterRing3
  <2>1. /\ mode = "map" /\ mode' = "user" /\ running_pid' = pending_pid
        /\ loading' = NoSlot /\ warg' = NoWait
        /\ UNCHANGED <<pid, state, user_interrupt>>
    BY <1>9 DEF EnterRing3
  <2>2. /\ loading \in Slots /\ pending_pid = pid[loading]
        /\ state[loading] = "RUNNING"
    BY <2>1 DEF OnCpuInv, IInv, LaunchInv, TypeOK
  <2>3. \A s \in Slots : state[s] = "RUNNING" => s = loading
    BY <2>1 DEF OnCpuInv
  <2>4. ~warg'.nohang /\ pid[loading] # 0
    BY <1>0, <2>1, <2>2 DEF NoWait
  <2> QED BY <1>0, <2>1, <2>2, <2>3, <2>4 DEF OnCpuInv
<1>10. CASE NothingRunnable
  <2>1. /\ mode = "sched" /\ mode' \in {"shell", "gsleep", "wait", "ret"}
        /\ UNCHANGED <<pid, state, running_pid, loading, warg, user_interrupt>>
    <3>1. ret \in Returns
      BY DEF IInv, TypeOK
    <3> QED BY <1>0, <1>10, <3>1, ModeAfterFact DEF NothingRunnable
  <2> QED BY <1>0, <2>1 DEF OnCpuInv
<1>11. CASE TimerTick
  <2>1. /\ \/ mode' = mode
           \/ mode = "user" /\ mode' = "preempt"
        /\ UNCHANGED <<pid, running_pid, pending_pid, loading, warg, user_interrupt>>
    BY <1>11 DEF TimerTick
  <2>2. \A s \in Slots :
           \/ state'[s] = state[s]
           \/ state[s] = "BLOCKED" /\ reason[s] = "SLEEP" /\ state'[s] = WokenState(s)
    <3>1. SchedulerTick(1)
      BY <1>11 DEF TimerTick
    <3> QED BY <3>1, SchedulerTickFact DEF IInv
  <2>3. \A s \in Slots :
           \/ state'[s] = state[s]
           \/ state[s] = "BLOCKED" /\ mode = "sleep" /\ pid[s] = running_pid /\ running_pid # 0
    BY <1>0, <2>2 DEF IInv, BlockInv
  <2> QED BY <1>0, <2>1, <2>3 DEF OnCpuInv
<1>12. CASE SyscallReturn \/ TryPreempt
  <2>1. /\ mode \in {"ret", "preempt"} /\ mode' = "user"
        /\ UNCHANGED <<pid, state, running_pid, loading, warg, user_interrupt>>
    BY <1>12, NoSwitch DEF SyscallReturn, TryPreempt
  <2> QED BY <1>0, <2>1 DEF OnCpuInv
<1>13. CASE UNCHANGED vars
  BY <1>1, <1>13 DEF vars
<1>14. ASSUME NEW s \in Slots, ShellSpawn(s) PROVE OnCpuInv'
  BY <1>2, <1>14 DEF ShellSpawn
<1>15. CASE Kernel
  <2>1. CASE SleepReturn \/ GuiReturn
    BY <1>4, <2>1 DEF SleepReturn, GuiReturn
  <2>2. CASE InactiveSleepReturn \/ AbortContinue \/ PollScheduler
    <3>1. /\ mode \notin {"load", "map"} /\ mode' \in {"ret", "sched"}
          /\ mode' = "sched" => running_pid = 0
          /\ UNCHANGED <<pid, state, running_pid, loading, warg, user_interrupt>>
      BY <1>0, <2>2 DEF InactiveSleepReturn, AbortContinue, PollScheduler, IInv, RunningInv
    <3> QED BY <1>0, <3>1 DEF OnCpuInv
  <2>3. CASE LoadMap
    BY <2>3 DEF LoadMap, OnCpuInv
  <2> QED BY <1>5, <1>6, <1>7, <1>8, <1>9, <1>10, <1>12, <1>15, <2>1, <2>2, <2>3 DEF Kernel
<1>16. CASE Program
  <2>1. ASSUME NEW s \in Slots, UserSpawn(s) PROVE OnCpuInv'
    BY <1>2, <2>1 DEF UserSpawn
  <2>2. ASSUME NEW u \in SleepArgs, Sleep(u) PROVE OnCpuInv'
    BY <1>0, <1>3, <2>2 DEF Sleep, Syscall
  <2>3. CASE InactiveSleep \/ \E install \in BOOLEAN : Signal(install)
    <3>1. /\ mode = "user" /\ mode' \in {"gsleep", "ret"}
          /\ UNCHANGED <<pid, state, running_pid, loading, warg, user_interrupt>>
      BY <2>3 DEF InactiveSleep, Signal, Syscall
    <3> QED BY <1>0, <3>1 DEF OnCpuInv
  <2>4. CASE GuiWait
    BY <1>0, <1>3, <2>4 DEF GuiWait, Syscall
  <2>5. ASSUME NEW p \in Pids, NEW nohang \in BOOLEAN, Waitpid(p, nohang)
        PROVE  OnCpuInv'
    <3>1. /\ ~nohang /\ mode = "user"
          /\ UNCHANGED <<pid, running_pid, loading, user_interrupt>>
      BY <2>5 DEF Waitpid, Syscall, Quiet
    <3>2. CASE FindSlot(p) = NoSlot
      <4>1. mode' = "ret" /\ UNCHANGED <<state, warg>>
        BY <2>5, <3>2 DEF Waitpid
      <4> QED BY <1>0, <3>1, <4>1 DEF OnCpuInv
    <3>3. CASE FindSlot(p) # NoSlot
      <4>1. mode' = "wait" /\ warg' = [pid |-> p, nohang |-> FALSE]
        BY <2>5, <3>1, <3>3 DEF Waitpid
      <4>2. CASE state[FindSlot(p)] # "ZOMBIE"
        <5>1. BlockCurrent("WAITPID", p, 0)
          BY <2>5, <3>1, <3>3, <4>2 DEF Waitpid
        <5> QED BY <1>3, <3>1, <4>1, <5>1
      <4>3. CASE state[FindSlot(p)] = "ZOMBIE"
        <5>1. state' = state
          BY <2>5, <4>3 DEF Waitpid
        <5>2. PICK t \in Slots : pid[t] = p /\ state[t] = "ZOMBIE"
          BY <3>3, <4>3, FindSlotFact, SizesAssumption DEF IInv, Pids
        <5> QED BY <1>0, <3>1, <4>1, <5>1, <5>2 DEF OnCpuInv
      <4> QED BY <4>2, <4>3
    <3> QED BY <3>2, <3>3
  <2>6. ASSUME NEW p \in Pids, NEW sig \in Signals, Kill(p, sig) PROVE OnCpuInv'
    <3>1. FindSlot(p) \in Slots /\ pid[FindSlot(p)] = p
      BY <2>6, FindSlotFact, SizesAssumption DEF Kill, IInv, Pids
    <3>2. /\ mode = "user" /\ mode' = "ret"
          /\ UNCHANGED <<pid, loading, warg, user_interrupt>>
          /\ \/ NotifyExit
             \/ p # running_pid /\ TerminateOther(FindSlot(p)) /\ UNCHANGED running_pid
             \/ UNCHANGED <<state, running_pid>>
      BY <2>6 DEF Kill, Syscall, Quiet
    <3>3. CASE NotifyExit
      BY <1>0, <3>2, <3>3, OnCpuExit
    <3>4. CASE p # running_pid /\ TerminateOther(FindSlot(p)) /\ UNCHANGED running_pid
      <4>1. \A s \in Slots : state'[s] = "RUNNING" =>
               state[s] = "RUNNING" \/ WokenState(s) = "RUNNING"
        BY <3>1, <3>4, TerminateFact DEF IInv
      <4>2. \A s \in Slots : state'[s] = "RUNNING" =>
               state[s] = "RUNNING" \/ pid[s] = running_pid
        BY <4>1 DEF WokenState
      <4>3. \A s \in Slots : state'[s] = "RUNNING" => pid[s] # 0
        BY <1>0, <3>1, <3>4, TerminateFact DEF IInv
      <4> QED BY <1>0, <3>2, <3>4, <4>2, <4>3 DEF OnCpuInv
    <3>5. CASE UNCHANGED <<state, running_pid>>
      BY <1>0, <3>2, <3>5 DEF OnCpuInv
    <3> QED BY <3>2, <3>3, <3>4, <3>5
  <2>7. CASE Exit \/ Fault
    BY <2>7, OnCpuExit DEF Exit, Fault
  <2>8. ~Execve
    BY DEF Execve, Syscall, Quiet
  <2> QED BY <1>16, <2>1, <2>2, <2>3, <2>4, <2>5, <2>6, <2>7, <2>8 DEF Program
<1>17. CASE Irq0
  <2>1. ~InterruptKernel /\ ~InterruptLists /\ ~InterruptUser
    BY <1>0 DEF InterruptKernel, InterruptLists, InterruptUser, Quiet
  <2> QED BY <1>11, <1>12, <1>17, <2>1 DEF Irq0
<1> QED BY <1>13, <1>14, <1>15, <1>16, <1>17 DEF Next

\* One task at most is RUNNING, and the lists and slices are sound with it,
\* for programs that wait, spawn and kill without WNOHANG, execve, handlers or
\* Ctrl-C.  (With them a second slot can be RUNNING: the scheduler launches a
\* task under a caller that is not blocked.)
THEOREM QueuesStaySound ==
    ASSUME Quiet
    PROVE  Spec => []QueuesSound
<1>1. Init => OnCpuInv
  BY DEF Init, OnCpuInv, NoWait
<1>2. IInv /\ OnCpuInv /\ [Next]_vars => OnCpuInv'
  BY OnCpuStep
<1>3. IInv /\ OnCpuInv => OneRunning
  <2> SUFFICES ASSUME IInv, OnCpuInv, NEW s \in Slots, NEW t \in Slots,
                      state[s] = "RUNNING", state[t] = "RUNNING"
               PROVE  s = t
    BY DEF OneRunning
  <2>1. \A u \in Slots : state[u] = "RUNNING" =>
           u = loading \/ (running_pid # 0 /\ pid[u] = running_pid)
    BY DEF OnCpuInv
  <2>2. loading \in Slots => \A u \in Slots : running_pid # 0 /\ pid[u] = running_pid
                                               => state[u] = "BLOCKED"
    BY CurrentFact DEF OnCpuInv, IInv, LaunchInv
  <2> QED BY <2>1, <2>2 DEF IInv, PidInv
<1>4. RunqChained /\ SliceSound /\ OneRunning => QueuesSound
  BY DEF QueuesSound
<1> QED BY <1>1, <1>2, <1>3, <1>4, Invariance, ListsStayChained, SlicesFit, PTL DEF Spec
=============================================================================
