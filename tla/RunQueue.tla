------------------------------ MODULE RunQueue ------------------------------
(***************************************************************************)
(* The links of the run queue of src/src/cpu/user_elf.c, statement by      *)
(* statement.  System calls enter through a trap gate, so the timer        *)
(* interrupt may come between any two statements of the rebuild and of the *)
(* functions that enqueue, remove and pop; when it delivers a Ctrl-C,      *)
(* user_task_notify_exit wakes the waiters of the task it ends and         *)
(* enqueues them on the same lists.  UserTask has these operations as      *)
(* single steps: this module shows what they do when they are left alone,  *)
(* and what is left of the lists when they are not.                        *)
(***************************************************************************)
EXTENDS Naturals, FiniteSets, Sequences, SequencesExt

CONSTANTS
    QueueSlots,   \* USER_TASK_MAX
    QueueLevels,  \* SCHED_MLFQ_LEVELS
    MaxTornOps    \* bound: operations begun on torn lists before a boost

ASSUME QueueAssumption == QueueSlots \in Nat \ {0} /\ QueueLevels \in Nat \ {0}
                           /\ MaxTornOps \in Nat

Tasks == 1..QueueSlots
RunLists == 1..QueueLevels
Nil == 0   \* -1 in head, tail and runq_next

VARIABLES
    rq,        \* g_user_task_runq, and runq_next and in_runq of every slot
    task,      \* state and mlfq_level of every slot
    at,        \* the statement to execute next; "idle" between operations
    reg,       \* locals: the slot, the list and two registers
    struck,    \* Ctrl-C has come during this operation
    lists_torn,\* Ctrl-C has come inside an operation since the last rebuild
    torn_ops,  \* operations begun since then
    order      \* history: what each list should hold

tornvars == <<lists_torn, torn_ops>>
queuevars == <<rq, task, at, reg, struck, tornvars, order>>

Off == [state |-> "off", level |-> QueueLevels]
NoOrder == [l \in RunLists |-> <<>>]
Keep(o) == order' = IF lists_torn' THEN NoOrder ELSE o

NoRegs == [s |-> Nil, l |-> 1, a |-> Nil, b |-> Nil, boost |-> FALSE]
EmptyQueue ==
    [head |-> [l \in RunLists |-> Nil], tail |-> [l \in RunLists |-> Nil],
     next |-> [s \in Tasks |-> Nil], flag |-> [s \in Tasks |-> FALSE]]

QueueInit ==
    /\ rq = EmptyQueue
    /\ task = [s \in Tasks |-> Off]
    /\ at = "idle" /\ reg = NoRegs
    /\ struck = FALSE /\ lists_torn = FALSE /\ torn_ops = 0
    /\ order = [l \in RunLists |-> <<>>]

Runnable(s) == task[s].state = "runnable"

\* user_task_runq_enqueue, run to its end.
Enqueued(q, s, l) ==
    IF q.flag[s] THEN q
    ELSE [head |-> IF q.tail[l] = Nil THEN [q.head EXCEPT ![l] = s] ELSE q.head,
          tail |-> [q.tail EXCEPT ![l] = s],
          next |-> [t \in Tasks |-> IF t = s THEN Nil
                                    ELSE IF t = q.tail[l] THEN s ELSE q.next[t]],
          flag |-> [q.flag EXCEPT ![s] = TRUE]]

BySlot(S) == SetToSortSeq(S, <)

\* Ctrl-C: the waiters W of the ended task, by slot number.
Strike(W) ==
    /\ ~struck /\ struck' = TRUE
    /\ W # {} /\ \A w \in W : task[w].state = "blocked"
    /\ task' = [s \in Tasks |-> IF s \in W THEN [task[s] EXCEPT !.state = "runnable"]
                                ELSE task[s]]
    /\ rq' = FoldLeft(LAMBDA q, w : Enqueued(q, w, task[w].level), rq, BySlot(W))
    /\ lists_torn' = (lists_torn \/ at # "idle")
    /\ Keep([l \in RunLists |-> order[l] \o BySlot({w \in W : task[w].level = l})])
    /\ UNCHANGED <<at, reg, torn_ops>>

-----------------------------------------------------------------------------
Begin(label, r) ==
    /\ at = "idle" /\ at' = label
    /\ reg' = r
    /\ struck' = FALSE

BeginOther(label, r) ==
    /\ lists_torn => torn_ops < MaxTornOps
    /\ torn_ops' = torn_ops + (IF lists_torn THEN 1 ELSE 0)
    /\ Begin(label, r)

\* user_task_spawn_argv fills a slot and enqueues it.
Spawn(s) ==
    /\ task[s].state = "off"
    /\ BeginOther("enqueue", [NoRegs EXCEPT !.s = s])
    /\ task' = [task EXCEPT ![s] = [state |-> "runnable", level |-> QueueLevels]]
    /\ UNCHANGED <<rq, lists_torn, order>>

\* user_task_terminate_slot removes the slot before it becomes a zombie.
Terminate(s) ==
    /\ Runnable(s)
    /\ BeginOther("remove", [NoRegs EXCEPT !.s = s])
    /\ UNCHANGED <<rq, task, lists_torn, order>>

\* user_task_continue_or_schedule, and user_task_mlfq_boost_if_due before it.
Schedule ==
    /\ BeginOther("pop", [NoRegs EXCEPT !.l = QueueLevels])
    /\ UNCHANGED <<rq, task, lists_torn, order>>

Boost ==
    /\ Begin("raise", [NoRegs EXCEPT !.s = 1, !.boost = TRUE])
    /\ lists_torn' = FALSE /\ torn_ops' = 0
    /\ UNCHANGED <<rq, task, order>>

\* A task that was launched waits for another one; preemption has put it on
\* any level.
Block(s) ==
    /\ at = "idle" /\ task[s].state = "off"
    /\ \E l \in RunLists : task' = [task EXCEPT ![s] = [state |-> "blocked", level |-> l]]
    /\ UNCHANGED <<rq, at, reg, struck, tornvars, order>>

-----------------------------------------------------------------------------
(* user_task_runq_enqueue(slot s).                                         *)

Goto(label) == at' = label
Level == task[reg.s].level
\* The loop of the rebuild goes on with the next slot.
Resume ==
    IF ~reg.boost \/ reg.s = QueueSlots THEN at' = "idle" /\ reg' = NoRegs
    ELSE at' = "enqueue" /\ reg' = [NoRegs EXCEPT !.s = reg.s + 1, !.boost = TRUE]

EnqueueSkips ==
    /\ at = "enqueue" /\ (~Runnable(reg.s) \/ rq.flag[reg.s])
    /\ Resume
    /\ UNCHANGED <<rq, task, struck, tornvars, order>>
EnqueueReads ==
    /\ at = "enqueue" /\ Runnable(reg.s) /\ ~rq.flag[reg.s]
    /\ rq' = [rq EXCEPT !.next[reg.s] = Nil]
    /\ reg' = [reg EXCEPT !.l = Level, !.a = rq.tail[Level]]
    /\ Goto("link")
    /\ UNCHANGED <<task, struck, tornvars, order>>
\* The build may read the tail once or again.
EnqueueLinks ==
    /\ at = "link"
    /\ IF reg.a = Nil THEN rq' = [rq EXCEPT !.head[reg.l] = reg.s]
       ELSE \E t \in {reg.a, rq.tail[reg.l]} : rq' = [rq EXCEPT !.next[t] = reg.s]
    /\ Goto("tail")
    /\ UNCHANGED <<task, reg, struck, tornvars, order>>
EnqueueEnds ==
    /\ at = "tail"
    /\ rq' = [rq EXCEPT !.tail[reg.l] = reg.s, !.flag[reg.s] = TRUE]
    /\ Resume
    /\ UNCHANGED <<task, struck, tornvars>>
    /\ Keep([order EXCEPT ![reg.l] = Append(@, reg.s)])

-----------------------------------------------------------------------------
(* user_task_runq_remove(slot s): a is prev, b is cur.                     *)

RemoveReads ==
    /\ at = "remove" /\ rq.flag[reg.s]
    /\ reg' = [reg EXCEPT !.l = 1, !.a = Nil, !.b = rq.head[1]]
    /\ Goto("walk")
    /\ UNCHANGED <<rq, task, struck, tornvars, order>>
RemoveWalks ==
    /\ at = "walk" /\ reg.b # reg.s
    /\ IF reg.b # Nil
       THEN reg' = [reg EXCEPT !.a = reg.b, !.b = rq.next[reg.b]] /\ Goto("walk")
       ELSE IF reg.l = QueueLevels THEN UNCHANGED reg /\ Goto("clear")
       ELSE reg' = [reg EXCEPT !.l = @ + 1, !.a = Nil, !.b = rq.head[reg.l + 1]] /\ Goto("walk")
    /\ UNCHANGED <<rq, task, struck, tornvars, order>>
\* `next' was read before the comparison.
RemoveFinds ==
    /\ at = "walk" /\ reg.b = reg.s
    /\ reg' = [reg EXCEPT !.b = rq.next[reg.s]]
    /\ Goto("unlink")
    /\ UNCHANGED <<rq, task, struck, tornvars, order>>
RemoveUnlinks ==
    /\ at = "unlink"
    /\ rq' = IF reg.a = Nil THEN [rq EXCEPT !.head[reg.l] = reg.b]
             ELSE [rq EXCEPT !.next[reg.a] = reg.b]
    /\ Goto("retail")
    /\ UNCHANGED <<task, reg, struck, tornvars, order>>
RemoveRetails ==
    /\ at = "retail"
    /\ rq' = IF rq.tail[reg.l] = reg.s THEN [rq EXCEPT !.tail[reg.l] = reg.a] ELSE rq
    /\ Goto("clear")
    /\ UNCHANGED <<task, reg, struck, tornvars, order>>
RemoveEnds ==
    /\ at = "clear"
    /\ rq' = [rq EXCEPT !.flag[reg.s] = FALSE, !.next[reg.s] = Nil]
    /\ task' = [task EXCEPT ![reg.s] = Off]
    /\ at' = "idle" /\ reg' = NoRegs
    /\ UNCHANGED <<struck, tornvars>>
    /\ Keep([l \in RunLists |-> SelectSeq(order[l], LAMBDA t : t # reg.s)])

-----------------------------------------------------------------------------
(* user_task_runq_pop_highest: s is the slot popped, a its successor.      *)

PopLooks ==
    /\ at = "pop"
    /\ IF rq.head[reg.l] # Nil
       THEN reg' = [reg EXCEPT !.s = rq.head[reg.l]] /\ Goto("successor")
       ELSE IF reg.l = 1 THEN reg' = NoRegs /\ Goto("idle")
       ELSE reg' = [reg EXCEPT !.l = @ - 1] /\ Goto("pop")
    /\ UNCHANGED <<rq, task, struck, tornvars, order>>
PopReads ==
    /\ at = "successor"
    /\ reg' = [reg EXCEPT !.a = rq.next[reg.s]]
    /\ Goto("advance")
    /\ UNCHANGED <<rq, task, struck, tornvars, order>>
PopAdvances ==
    /\ at = "advance"
    /\ rq' = [rq EXCEPT !.head[reg.l] = reg.a]
    /\ Goto(IF reg.a = Nil THEN "untail" ELSE "detach")
    /\ UNCHANGED <<task, reg, struck, tornvars, order>>
PopUntails ==
    /\ at = "untail"
    /\ rq' = [rq EXCEPT !.tail[reg.l] = Nil]
    /\ Goto("detach")
    /\ UNCHANGED <<task, reg, struck, tornvars, order>>
\* The caller launches a runnable task and passes over any other.
PopEnds ==
    /\ at = "detach"
    /\ rq' = [rq EXCEPT !.flag[reg.s] = FALSE, !.next[reg.s] = Nil]
    /\ IF Runnable(reg.s)
       THEN /\ task' = [task EXCEPT ![reg.s] = Off]
            /\ Goto("idle") /\ reg' = NoRegs
       ELSE /\ Goto("pop") /\ reg' = [NoRegs EXCEPT !.l = QueueLevels]
            /\ UNCHANGED task
    /\ UNCHANGED <<struck, tornvars>>
    /\ Keep([order EXCEPT ![reg.l] = SelectSeq(@, LAMBDA t : t # reg.s)])

-----------------------------------------------------------------------------
(* user_task_mlfq_boost_if_due and user_task_runq_rebuild.                 *)

Loop(last, label, again) ==
    IF last THEN Goto(label) /\ reg' = [reg EXCEPT !.s = 1, !.l = 1]
    ELSE Goto(at) /\ reg' = again

RebuildRaises ==
    /\ at = "raise"
    /\ task' = IF Runnable(reg.s) THEN [task EXCEPT ![reg.s].level = QueueLevels] ELSE task
    /\ Loop(reg.s = QueueSlots, "heads", [reg EXCEPT !.s = @ + 1])
    /\ UNCHANGED <<rq, struck, tornvars, order>>
RebuildEmptiesHead ==
    /\ at = "heads"
    /\ rq' = [rq EXCEPT !.head[reg.l] = Nil]
    /\ Loop(reg.l = QueueLevels, "flags", [reg EXCEPT !.l = @ + 1])
    /\ UNCHANGED <<task, struck, tornvars>>
    /\ Keep([order EXCEPT ![reg.l] = <<>>])
RebuildEmpties ==
    /\ at = "heads"
    /\ rq' = [rq EXCEPT !.head[reg.l] = Nil, !.tail[reg.l] = Nil]
    /\ Loop(reg.l = QueueLevels, "flags", [reg EXCEPT !.l = @ + 1])
    /\ UNCHANGED <<task, struck, tornvars>>
    /\ Keep([order EXCEPT ![reg.l] = <<>>])
RebuildClears ==
    /\ at = "flags"
    /\ rq' = [rq EXCEPT !.next[reg.s] = Nil, !.flag[reg.s] = FALSE]
    /\ Loop(reg.s = QueueSlots, "enqueue", [reg EXCEPT !.s = @ + 1])
    /\ UNCHANGED <<task, struck, tornvars, order>>

QueueNext ==
    \/ \E s \in Tasks : Spawn(s) \/ Terminate(s) \/ Block(s)
    \/ Schedule \/ Boost
    \/ \E W \in SUBSET Tasks : Strike(W)
    \/ EnqueueSkips \/ EnqueueReads \/ EnqueueLinks \/ EnqueueEnds
    \/ RemoveReads \/ RemoveWalks \/ RemoveFinds \/ RemoveUnlinks
    \/ RemoveRetails \/ RemoveEnds
    \/ PopLooks \/ PopReads \/ PopAdvances \/ PopUntails \/ PopEnds
    \/ RebuildRaises \/ RebuildEmpties \/ RebuildClears

QueueSpec == QueueInit /\ [][QueueNext]_queuevars
-----------------------------------------------------------------------------
(* Properties.                                                             *)

\* Whatever Ctrl-C has interrupted: between two operations in_runq marks
\* exactly the runnable tasks.
FlagsKept == at = "idle" => \A s \in Tasks : rq.flag[s] <=> Runnable(s)

\* List l is the chain c of slots, from g_user_task_runq[l].head to its tail.
IsChain(l, c) ==
    /\ rq.head[l] = (IF c = <<>> THEN Nil ELSE c[1])
    /\ rq.tail[l] = (IF c = <<>> THEN Nil ELSE c[Len(c)])
    /\ \A i \in 1..Len(c) : rq.next[c[i]] = (IF i = Len(c) THEN Nil ELSE c[i + 1])

\* Unless Ctrl-C came inside an operation since the last rebuild began: the
\* lists are chains of the tasks in the order they were queued in, and every
\* runnable task is in the one of its level.
ListsKept ==
    at = "idle" /\ ~lists_torn =>
        /\ \A l \in RunLists : IsChain(l, order[l])
        /\ \A s \in Tasks : Runnable(s) => Contains(order[task[s].level], s)

\* The list operations do what UserTask has them do in one step, in every
\* sequence of them, with Ctrl-C between any two; and whatever an interrupted
\* one has left behind, the flags stay right and a rebuild that is not
\* interrupted makes the lists whole again.
QueueKept == FlagsKept /\ ListsKept

(* What the code does not keep; the README says how it is lost.            *)

Reachable(s, l) ==
    \E n \in 1..QueueSlots : \E c \in [1..n -> Tasks] :
        /\ c[1] = rq.head[l] /\ c[n] = s
        /\ \A i \in 1..(n - 1) : rq.next[c[i]] = c[i + 1]

\* Every runnable task is in a list, whatever Ctrl-C interrupts.
NoneLost ==
    at = "idle" => \A s \in Tasks : Runnable(s) => \E l \in RunLists : Reachable(s, l)

\* user_task_runq_remove comes to the end of each list it walks.
WalkEnds ==
    at = "walk" =>
        \E n \in 0..QueueSlots : \E c \in [0..n -> Tasks \cup {Nil}] :
            /\ c[0] = reg.b /\ c[n] \in {Nil, reg.s}
            /\ \A i \in 1..n : c[i - 1] # Nil /\ c[i] = rq.next[c[i - 1]]
=============================================================================
