------------------------------- MODULE UserFd -------------------------------
(***************************************************************************)
(* The descriptor table of ring 3, the pipes, FIFOs and PTYs behind it,    *)
(* the remapped standard streams and the capabilities for descriptors      *)
(* (src/src/cpu/isr.c, src/src/misc/capabilities.c), through the launches  *)
(* and ends of tasks (user_elf.c, util.c) and the shell pipelines          *)
(* (src/src/utilities/shell/pipeline.c) that share them.                   *)
(*                                                                         *)
(* All tables are global and one task runs at a time.  Which task is       *)
(* launched next is UserTask's subject: here it is any ready one.          *)
(***************************************************************************)
EXTENDS ByteRing, FiniteSets

CONSTANTS
    USER_FD_MAX, USER_PIPE_MAX, USER_PTY_MAX,
    BUFFER_BYTES,    \* USER_PIPE_BUFFER_BYTES and USER_PTY_BUFFER_BYTES
    SPOOL_BYTES,     \* USER_PIPE_SPOOL_CAP_BYTES
    Paths, NoPath,   \* FIFO paths
    Tasks,           \* tasks that may exist at a time
    Strings,         \* what a program may write in one call
    ReadLens,        \* how much it may read in one call
    LinksExposed,    \* whether a stage also uses the pipeline's own links
    LinkBudget,      \* bound: unread bytes a stage leaves in one link
    MaxSpawns,       \* bound: tasks spawned by programs
    MaxEpoch,        \* bound: revocations after which nothing is minted
    MaxStages,       \* commands in a pipeline; 0 for no pipelines
    StageKinds,      \* what a command of a pipeline may be
    LoadOutcomes,    \* how the load of a task may end
    SpoolOutcomes,   \* whether the spool's malloc may succeed or fail
    RemapStreams,    \* standard streams the programs remap
    Calls            \* the sets of system calls a behaviour's programs use

Fds == 3..(USER_FD_MAX - 1)
FdNumbers == 0..(USER_FD_MAX - 1)
Pipes == 1..USER_PIPE_MAX
Ptys == 1..USER_PTY_MAX
Streams == 0..2

ASSUME UserFdAssumption ==
    /\ USER_FD_MAX \in Nat /\ USER_FD_MAX > 3
    /\ USER_PIPE_MAX \in Nat /\ USER_PTY_MAX \in Nat
    /\ BUFFER_BYTES \in Nat \ {0} /\ SPOOL_BYTES \in Nat \ {0}
    /\ NoPath \notin Paths
    /\ Strings \subseteq Seq(Bytes) /\ ReadLens \subseteq Nat
    /\ MaxSpawns \in Nat /\ MaxEpoch \in Nat \ {0}
    /\ MaxStages \in Nat /\ LinkBudget \in Nat
    /\ LoadOutcomes \subseteq {"ok", "early", "late"}
    /\ StageKinds \subseteq {"task", "builtin"}
    /\ SpoolOutcomes \subseteq BOOLEAN
    /\ RemapStreams \subseteq {0, 1, 2}

VARIABLES
    tab,      \* the kernel tables: descriptors, pipes, PTYs, capabilities
    stdio,    \* g_user_stdio_*_fd, by stream
    inherit,  \* g_user_fd_inherit_mode
    marker,   \* paths that hold a FIFO marker file
    task,     \* per task: state, stdio state captured at spawn, whom it awaits
    cur,      \* the task in ring 3
    mode,     \* what the CPU executes
    ret,      \* who called the scheduler
    rt,       \* g_pipeline_rt
    spawns,   \* tasks spawned by programs, for MaxSpawns
    calls     \* the system calls the programs make, chosen once from Calls

vars == <<tab, stdio, inherit, marker, task, cur, mode, ret, rt, spawns>>
taskVars == <<task, cur, mode, ret, spawns>>

-----------------------------------------------------------------------------
(* The tables and what is done to them, as operators on a record of them.  *)

ClosedFd == [kind |-> "none", obj |-> 0, end |-> "none", nonblock |-> FALSE]
FileFd == [ClosedFd EXCEPT !.kind = "file"]
PipeFd(p, e, nb) == [kind |-> "pipe", obj |-> p, end |-> e, nonblock |-> nb]
PtyFd(t, e) == [kind |-> "pty", obj |-> t, end |-> e, nonblock |-> FALSE]

\* A pipe.  `sent' is a history variable: the bytes accepted from writers and
\* not yet returned to a reader, oldest first.
FreePipe == [used |-> FALSE, fifo |-> NoPath, refs |-> [r |-> 0, w |-> 0],
             spooling |-> FALSE, buf |-> EmptyRing(BUFFER_BYTES),
             spool |-> EmptyRing(SPOOL_BYTES), sent |-> <<>>]
\* A PTY has a ring for each end that writes.
FreePty == [used |-> FALSE, refs |-> [m |-> 0, s |-> 0],
            ring |-> [e \in {"m", "s"} |-> EmptyRing(BUFFER_BYTES)]]

EmptyTables == [fd |-> [f \in Fds |-> ClosedFd],
                pipe |-> [p \in Pipes |-> FreePipe],
                pty |-> [t \in Ptys |-> FreePty],
                reg |-> [f \in Fds |-> 0],
                caps |-> {}]

IsOpen(T, f) == f \in Fds /\ T.fd[f].kind # "none"
FreeFds(T) == {f \in Fds : ~IsOpen(T, f)}
FreePipes(T) == {p \in Pipes : ~T.pipe[p].used}
FreePtys(T) == {t \in Ptys : ~T.pty[t].used}

PipeDestroyedEarly(q) == IF q.refs.r > 0 /\ q.refs.w > 0 THEN q ELSE FreePipe

\* user_pipe_maybe_destroy, user_pty_maybe_destroy.
PipeMaybeDestroyed(q) ==
    IF q.refs.r > 0 \/ q.refs.w > 0 THEN q
    ELSE IF q.fifo # NoPath
         THEN [q EXCEPT !.buf = Rewound(@), !.spool = Rewound(@), !.sent = <<>>]
         ELSE FreePipe
PtyMaybeDestroyed(q) == IF q.refs.m = 0 /\ q.refs.s = 0 THEN FreePty ELSE q

Pred(n) == IF n > 0 THEN n - 1 ELSE 0

\* The pipes and the PTYs after the end that descriptor d holds is dropped.
EndDropped(q, e) == [q EXCEPT !.refs[e] = Pred(@)]
PipesDropped(T, d) ==
    IF d.kind = "pipe" /\ T.pipe[d.obj].used
    THEN [T.pipe EXCEPT ![d.obj] =
             PipeMaybeDestroyed(EndDropped(@, d.end))]
    ELSE T.pipe
PtysDropped(T, d) ==
    IF d.kind = "pty" /\ T.pty[d.obj].used
    THEN [T.pty EXCEPT ![d.obj] =
             PtyMaybeDestroyed(EndDropped(@, d.end))]
    ELSE T.pty

\* cap_revoke_object: a new epoch, if the object is registered.  reg[f] is the
\* epoch of descriptor f, 0 while it is not registered.
Revoked(T, f) == [T.reg EXCEPT ![f] = IF @ \in 1..MaxEpoch THEN @ + 1 ELSE @]

\* user_fd_release.
Release(T, f) ==
    IF ~IsOpen(T, f) THEN T
    ELSE [fd |-> [T.fd EXCEPT ![f] = ClosedFd],
          pipe |-> PipesDropped(T, T.fd[f]),
          pty |-> PtysDropped(T, T.fd[f]),
          reg |-> Revoked(T, f),
          caps |-> {IF c.fd = f THEN [c EXCEPT !.live = FALSE] ELSE c
                      : c \in T.caps}]

\* syscall_reset_user_fds: release every descriptor, then clear all pipes and
\* PTYs, FIFOs included.
ResetAll(T) ==
    [fd |-> [f \in Fds |-> ClosedFd],
     pipe |-> [p \in Pipes |-> FreePipe],
     pty |-> [t \in Ptys |-> FreePty],
     reg |-> [f \in Fds |->
                IF IsOpen(T, f) THEN Revoked(T, f)[f] ELSE T.reg[f]],
     caps |-> {[c EXCEPT !.live = @ /\ ~IsOpen(T, c.fd)] : c \in T.caps}]

\* One more descriptor for the end that d holds.
Referenced(T, d) ==
    CASE d.kind = "pipe" -> [T EXCEPT !.pipe[d.obj].refs[d.end] = @ + 1]
      [] d.kind = "pty" -> [T EXCEPT !.pty[d.obj].refs[d.end] = @ + 1]
      [] OTHER -> T

ObjectUsed(T, d) ==
    /\ d.kind = "pipe" => T.pipe[d.obj].used
    /\ d.kind = "pty" => T.pty[d.obj].used

\* user_fd_duplicate_into, for an open old and another number new > 2.
Duplicate(T, old, new) ==
    LET R == Release(T, new)
    IN  IF ObjectUsed(R, T.fd[old])
        THEN [Referenced(R, T.fd[old]) EXCEPT !.fd[new] = T.fd[old]]
        ELSE R

\* syscall_kernel_pipe_create and syscall_kernel_pty_create, when there are a
\* free object and two free descriptors a < b.
PipeCreated(T, p, a, b) ==
    [T EXCEPT !.pipe[p] = [FreePipe EXCEPT !.used = TRUE,
                                           !.refs = [r |-> 1, w |-> 1]],
              !.fd[a] = PipeFd(p, "r", FALSE),
              !.fd[b] = PipeFd(p, "w", FALSE)]
PtyCreated(T, t, a, b) ==
    [T EXCEPT !.pty[t] = [FreePty EXCEPT !.used = TRUE,
                                         !.refs = [m |-> 1, s |-> 1]],
              !.fd[a] = PtyFd(t, "m"), !.fd[b] = PtyFd(t, "s")]

CanCreatePipe(T) == FreePipes(T) # {} /\ Cardinality(FreeFds(T)) >= 2
CanCreatePty(T) == FreePtys(T) # {} /\ Cardinality(FreeFds(T)) >= 2
FirstFd(T) == Least(FreeFds(T))
SecondFd(T) == Least(FreeFds(T) \ {FirstFd(T)})
NewPipe(T) == PipeCreated(T, Least(FreePipes(T)), FirstFd(T), SecondFd(T))
NewPty(T) == PtyCreated(T, Least(FreePtys(T)), FirstFd(T), SecondFd(T))

\* user_pipe_find_fifo_by_path, user_pipe_get_or_create_fifo (given that the
\* path is a FIFO or already has a pipe and that a pipe is free).
FifosAt(T, path) == {p \in Pipes : T.pipe[p].used /\ T.pipe[p].fifo = path}
FifoAllocated(T, path) ==
    [T EXCEPT !.pipe[Least(FreePipes(T))] =
        [FreePipe EXCEPT !.used = TRUE, !.fifo = path]]
FifoEnsured(T, path) ==
    IF FifosAt(T, path) # {} THEN T ELSE FifoAllocated(T, path)
CanEnsureFifo(T, path) == FifosAt(T, path) # {} \/ FreePipes(T) # {}

-----------------------------------------------------------------------------
(* Moving bytes.                                                           *)

Peer(e) == IF e = "m" THEN "s" ELSE "m"

AcceptedSpoolFirst(q, s) ==
    LET two == IF q.spooling THEN CopyIn(q.spool, s)
               ELSE [ring |-> q.spool, left |-> s]
        one == CopyIn(q.buf, two.left)
    IN  [pipe |-> [q EXCEPT !.buf = one.ring, !.spool = two.ring,
                            !.sent = @ \o SubSeq(s, 1, Len(s) - Len(one.left))],
         left |-> one.left]

\* user_pipe_write: the ring first, then the spool.  Neither call looks at
\* which end of a pipe the descriptor holds.
Accepted(q, s) ==
    LET one == CopyIn(q.buf, s)
        two == IF q.spooling THEN CopyIn(q.spool, one.left)
               ELSE [ring |-> q.spool, left |-> one.left]
    IN  [pipe |-> [q EXCEPT !.buf = one.ring, !.spool = two.ring,
                            !.sent = @ \o SubSeq(s, 1, Len(s) - Len(two.left))],
         left |-> two.left]
\* user_pipe_read: the ring first, then the spool.
Taken(q, maxlen) ==
    LET one == CopyOut(q.buf, maxlen)
        two == CopyOut(q.spool, maxlen - Len(one.got))
        n == Len(one.got) + Len(two.got)
    IN  [q EXCEPT !.buf = one.ring, !.spool = two.ring,
                  !.sent = SubSeq(@, n + 1, Len(@))]

Holds(q) == q.buf.used + q.spool.used

-----------------------------------------------------------------------------
(* Tasks, standard streams, the pipeline runtime.                          *)

NoTask == 0
ASSUME TasksAssumption == Tasks \subseteq Nat \ {NoTask}
Console == [i \in Streams |-> i]
TaskStates == {"none", "ready", "running", "waiting"}
NoTaskRecord == [st |-> "none", inherit |-> FALSE, stdio |-> Console,
                 awaits |-> NoTask]

\* `task' is the stage that the shell's waitpid waits for.  NoFd stands for
\* the values of the runtime that are not above 2: 0 and -1.
NoFd == 0
IdleRuntime == [active |-> FALSE, left |-> 0, input |-> NoFd,
                close_in |-> NoFd, close_out |-> NoFd, task |-> NoTask]

Modes == {"shell", "user", "readwait", "writewait", "abort", "sched"}
Returns == {"none", "shell", "stage", "abort", "wait"}

Init ==
    /\ tab = EmptyTables
    /\ stdio = Console
    /\ inherit = FALSE
    /\ marker = {}
    /\ task = [t \in Tasks |-> NoTaskRecord]
    /\ cur = NoTask
    /\ mode = "shell"
    /\ ret = "none"
    /\ rt = IdleRuntime
    /\ spawns = 0
    /\ calls \in Calls

Ready == {t \in Tasks : task[t].st = "ready"}
FreeTasks == {t \in Tasks : task[t].st = "none"}
NewTask(inh, io) == [st |-> "ready", inherit |-> inh, stdio |-> io,
                     awaits |-> NoTask]

-----------------------------------------------------------------------------
(* System calls.                                                           *)

Call(c) == mode = "user" /\ c \in calls
Remapped == IF "remap" \in calls THEN RemapStreams ELSE {}

\* A well-behaved stage of a pipeline reads and writes its standard streams
\* and leaves the descriptors of the links alone.
MayUse(f) == LinksExposed \/ f \notin {rt.input, rt.close_in, rt.close_out}
MayRemap == LinksExposed \/ ~rt.active

\* SYSCALL_OPEN of a file.
OpenFile ==
    /\ Call("open")
    /\ FreeFds(tab) # {}
    /\ tab' = [tab EXCEPT !.fd[FirstFd(tab)] = FileFd]
    /\ UNCHANGED <<stdio, inherit, marker, taskVars, rt>>

\* SYSCALL_OPEN of a FIFO; its pipe is created even if no descriptor is free.
OpenFifo(path, e, nb) ==
    LET T == FifoEnsured(tab, path)
        d == PipeFd(Least(FifosAt(T, path)), e, nb)
    IN  /\ Call("fifo")
        /\ nb => "nonblock" \in calls
        /\ FifosAt(tab, path) # {} \/ path \in marker
        /\ CanEnsureFifo(tab, path)
        /\ tab' = IF FreeFds(T) = {} THEN T
                  ELSE [Referenced(T, d) EXCEPT !.fd[FirstFd(T)] = d]
        /\ UNCHANGED <<stdio, inherit, marker, taskVars, rt>>

\* SYSCALL_MKFIFO: the marker file, then the pipe, which may fail.
Mkfifo(path) ==
    /\ Call("fifo")
    /\ path \in marker \/ FifosAt(tab, path) = {}
    /\ marker' = marker \cup {path}
    /\ tab' = IF CanEnsureFifo(tab, path) THEN FifoEnsured(tab, path) ELSE tab
    /\ UNCHANGED <<stdio, inherit, taskVars, rt>>

\* The marker file is deleted like any other file.
Unlink(path) ==
    /\ Call("fifo")
    /\ marker' = marker \ {path}
    /\ UNCHANGED <<tab, stdio, inherit, taskVars, rt>>

Close(f) ==
    /\ Call("close")
    /\ IsOpen(tab, f) /\ MayUse(f)
    /\ tab' = Release(tab, f)
    /\ UNCHANGED <<stdio, inherit, marker, taskVars, rt>>

\* The descriptor that dup and dup2 duplicate: 0..2 name the remapped one.
Source(req) == IF req \in Streams THEN stdio[req] ELSE req

Dup(req) ==
    /\ Call("dup")
    /\ IsOpen(tab, Source(req)) /\ MayUse(Source(req))
    /\ FreeFds(tab) # {}
    /\ tab' = Duplicate(tab, Source(req), FirstFd(tab))
    /\ UNCHANGED <<stdio, inherit, marker, taskVars, rt>>

\* SYSCALL_DUP2: onto a standard stream only the number is remembered.
Dup2(req, new) ==
    /\ Call("dup2")
    /\ IsOpen(tab, Source(req)) /\ MayUse(Source(req)) /\ MayUse(new)
    /\ new \in Streams => MayRemap /\ new \in Remapped
    /\ IF new \in Streams
       THEN tab' = tab /\ stdio' = [stdio EXCEPT ![new] = Source(req)]
       ELSE /\ tab' = IF new = Source(req) THEN tab
                      ELSE Duplicate(tab, Source(req), new)
            /\ UNCHANGED stdio
    /\ UNCHANGED <<inherit, marker, taskVars, rt>>

\* SYSCALL_PIPE; if the numbers cannot be copied out both ends are released.
PipeCall(copied) ==
    /\ Call("pipe")
    /\ CanCreatePipe(tab)
    /\ tab' = IF copied THEN NewPipe(tab)
              ELSE Release(Release(NewPipe(tab), FirstFd(tab)), SecondFd(tab))
    /\ UNCHANGED <<stdio, inherit, marker, taskVars, rt>>

PtyOpen(copied) ==
    /\ Call("pty")
    /\ CanCreatePty(tab)
    /\ tab' = IF copied THEN NewPty(tab)
              ELSE Release(Release(NewPty(tab), FirstFd(tab)), SecondFd(tab))
    /\ UNCHANGED <<stdio, inherit, marker, taskVars, rt>>

SetInherit(enabled) ==
    /\ Call("inherit")
    /\ MayRemap
    /\ inherit' = enabled
    /\ UNCHANGED <<tab, stdio, marker, taskVars, rt>>

\* What SYSCALL_FD_SET_STDIO and SPAWN_EX accept for a stream; output and error
\* go together.
ValidStream(i, f) == f = i \/ (i \in Remapped /\ IsOpen(tab, f))
StdioOf(in, out) == [i \in Streams |-> IF i = 0 THEN in ELSE out]

SetStdio(in, out) ==
    /\ Call("stdio")
    /\ MayRemap
    /\ ValidStream(0, in) /\ ValidStream(1, out)
    /\ stdio' = StdioOf(in, out)
    /\ UNCHANGED <<tab, inherit, marker, taskVars, rt>>

SetNonblock(f, enabled) ==
    /\ Call("nonblock")
    /\ IsOpen(tab, f) /\ MayUse(f)
    /\ tab' = [tab EXCEPT !.fd[f].nonblock = enabled]
    /\ UNCHANGED <<stdio, inherit, marker, taskVars, rt>>

\* Reading from descriptor d.  An empty source whose writers are gone, or a
\* non-blocking one, returns at once; otherwise the call waits in hlt, where
\* no other task can run.
ReadFrom(d, len) ==
    \/ /\ d.kind = "pipe" /\ tab.pipe[d.obj].used
       /\ LET q == tab.pipe[d.obj] IN
          IF Holds(q) > 0
          THEN tab' = [tab EXCEPT !.pipe[d.obj] = Taken(q, len)] /\ mode' = mode
          ELSE /\ tab' = tab
               /\ mode' = IF q.refs.w = 0 \/ d.nonblock THEN mode ELSE "readwait"
    \/ /\ d.kind = "pty" /\ tab.pty[d.obj].used
       /\ LET q == tab.pty[d.obj] IN
          IF q.ring[Peer(d.end)].used > 0
          THEN /\ tab' = [tab EXCEPT !.pty[d.obj].ring[Peer(d.end)] =
                                        CopyOut(@, len).ring]
               /\ mode' = mode
          ELSE /\ tab' = tab
               /\ mode' = IF q.refs[Peer(d.end)] = 0 \/ d.nonblock
                          THEN mode ELSE "readwait"

\* Writing to descriptor d: what does not fit waits for room in hlt.
WriteTo(d, s) ==
    \/ /\ d.kind = "pipe" /\ tab.pipe[d.obj].used
       /\ tab.pipe[d.obj].refs.r > 0
       /\ rt.active => Len(tab.pipe[d.obj].sent) + Len(s) <= LinkBudget
       /\ LET a == Accepted(tab.pipe[d.obj], s) IN
          /\ tab' = [tab EXCEPT !.pipe[d.obj] = a.pipe]
          /\ mode' = IF a.left = <<>> \/ d.nonblock THEN mode ELSE "writewait"
    \/ /\ d.kind = "pty" /\ tab.pty[d.obj].used
       /\ tab.pty[d.obj].refs[Peer(d.end)] > 0
       /\ LET a == CopyIn(tab.pty[d.obj].ring[d.end], s) IN
          /\ tab' = [tab EXCEPT !.pty[d.obj].ring[d.end] = a.ring]
          /\ mode' = IF a.left = <<>> \/ d.nonblock THEN mode ELSE "writewait"

\* A standard stream whose descriptor is closed falls back to the console.
ReadTarget(req) == IF req = 0 THEN stdio[0] ELSE req
WriteTarget(req) == IF req \in {1, 2} THEN stdio[req] ELSE req

Read(req, len) ==
    LET f == ReadTarget(req) IN
    /\ Call("read")
    /\ IsOpen(tab, f)
    /\ req > 0 => MayUse(f)
    /\ ReadFrom(tab.fd[f], len)
    /\ UNCHANGED <<stdio, inherit, marker, task, cur, ret, rt, spawns>>

Write(req, s) ==
    LET f == WriteTarget(req) IN
    /\ Call("write")
    /\ IsOpen(tab, f)
    /\ req > 2 => MayUse(f)
    /\ WriteTo(tab.fd[f], s)
    /\ UNCHANGED <<stdio, inherit, marker, task, cur, ret, rt, spawns>>

\* The records once t has ended: whoever waits for it is made ready.
Ended(t) ==
    [u \in Tasks |->
        IF u = t THEN NoTaskRecord
        ELSE IF t \in Tasks /\ task[u].awaits = t
             THEN [task[u] EXCEPT !.st = "ready", !.awaits = NoTask]
             ELSE task[u]]

\* Ctrl-C while a call waits: it returns what it has, or an error.  Without a
\* handler the task is ended, and its program runs on as nobody.
Interrupt(handled) ==
    /\ mode \in {"readwait", "writewait"}
    /\ mode' = "user"
    /\ IF handled THEN UNCHANGED <<task, cur>>
       ELSE task' = Ended(cur) /\ cur' = NoTask
    /\ UNCHANGED <<tab, stdio, inherit, marker, ret, rt, spawns>>

\* SYSCALL_CAP_MINT_FD.
MintFd(f) ==
    /\ Call("cap")
    /\ IsOpen(tab, f) /\ MayUse(f) /\ tab.reg[f] <= MaxEpoch
    /\ LET epoch == IF tab.reg[f] = 0 THEN 1 ELSE tab.reg[f] IN
       tab' = [tab EXCEPT
                 !.reg[f] = epoch,
                 !.caps = @ \cup {[fd |-> f, epoch |-> epoch, live |-> TRUE]}]
    /\ UNCHANGED <<stdio, inherit, marker, taskVars, rt>>

\* user_fd_from_cap.
Accepts(T, c) == IsOpen(T, c.fd) /\ T.reg[c.fd] = c.epoch

CapRead(c, len) ==
    /\ Call("cap")
    /\ Accepts(tab, c)
    /\ ReadFrom(tab.fd[c.fd], len)
    /\ UNCHANGED <<stdio, inherit, marker, task, cur, ret, rt, spawns>>

CapWrite(c, s) ==
    /\ Call("cap")
    /\ Accepts(tab, c)
    /\ WriteTo(tab.fd[c.fd], s)
    /\ UNCHANGED <<stdio, inherit, marker, task, cur, ret, rt, spawns>>

CapClose(c) ==
    /\ Call("cap")
    /\ Accepts(tab, c)
    /\ tab' = Release(tab, c.fd)
    /\ UNCHANGED <<stdio, inherit, marker, taskVars, rt>>

-----------------------------------------------------------------------------
(* Launching and ending tasks.                                             *)

\* A program spawns t, which is queued.
Spawned(t, inh, io) ==
    /\ t \in FreeTasks /\ t = Least(FreeTasks) /\ spawns < MaxSpawns
    /\ task' = [task EXCEPT ![t] = NewTask(inh, io)]
    /\ spawns' = spawns + 1
    /\ UNCHANGED <<tab, stdio, inherit, marker, cur, mode, ret, rt>>

\* SYSCALL_SPAWN captures the globals, SPAWN_EX is told what to use.
Spawn(t) ==
    /\ Call("spawn")
    /\ Spawned(t, inherit, stdio)

SpawnEx(t, inh, in, out) ==
    /\ Call("spawnex")
    /\ MayRemap
    /\ ValidStream(0, in) /\ ValidStream(1, out)
    /\ Spawned(t, inh, StdioOf(in, out))

\* waitpid for a task that has not run yet enters the scheduler.
Wait(t) ==
    /\ Call("wait")
    /\ cur # NoTask /\ t \in Ready
    /\ task' = [task EXCEPT ![cur].st = "waiting", ![cur].awaits = t]
    /\ mode' = "sched"
    /\ ret' = "wait"
    /\ UNCHANGED <<tab, stdio, inherit, marker, cur, rt, spawns>>

\* The records once the load of t has failed: only the caller that waits for t
\* sees it, anyone else waits for ever.
Failed(t) ==
    [u \in Tasks |->
        IF u = t THEN NoTaskRecord
        ELSE IF task[u].awaits = t
             THEN [task[u] EXCEPT !.st = IF u = cur THEN "running" ELSE @,
                                  !.awaits = NoTask]
             ELSE task[u]]

\* Where the CPU goes on when the load of t has failed.
ModeAfterFailure(t) ==
    IF ret = "wait" THEN IF task[cur].awaits = t THEN "user" ELSE "sched"
    ELSE IF ret = "stage" /\ rt.task # t THEN "sched" ELSE "shell"

\* user_task_cleanup_mappings: tables outlive a program only in a pipeline.
CleanupNothing(T) == T
CleanupAlways(T) == ResetAll(T)
CleanupMappings(T) == IF rt.active THEN T ELSE ResetAll(T)

\* user_elf_run_argv once the old program goes: a task that does not inherit
\* gets empty tables and the console.
TablesAtLaunch(t) ==
    IF task[t].inherit THEN CleanupMappings(tab)
    ELSE ResetAll(CleanupMappings(tab))
StdioAtLaunch(t) == IF task[t].inherit THEN task[t].stdio ELSE Console

\* user_task_launch_slot of a ready task that gets to ring 3.
Launch(t) ==
    /\ mode = "sched" /\ t \in Ready /\ "ok" \in LoadOutcomes
    /\ inherit' = task[t].inherit
    /\ tab' = TablesAtLaunch(t)
    /\ stdio' = StdioAtLaunch(t)
    /\ task' = [task EXCEPT ![t].st = "running"]
    /\ cur' = t
    /\ mode' = "user"
    /\ ret' = "none"
    /\ UNCHANGED <<marker, rt, spawns>>

\* Its load fails, before or after the old program is unmapped.
LaunchFails(t) ==
    /\ mode = "sched" /\ t \in Ready
    /\ inherit' = task[t].inherit
    /\ \/ /\ "early" \in LoadOutcomes
          /\ stdio' = task[t].stdio /\ tab' = tab
       \/ /\ "late" \in LoadOutcomes
          /\ stdio' = StdioAtLaunch(t) /\ tab' = TablesAtLaunch(t)
    /\ task' = Failed(t)
    /\ mode' = ModeAfterFailure(t)
    /\ ret' = IF mode' = "sched" THEN ret ELSE "none"
    /\ UNCHANGED <<cur, marker, rt, spawns>>

NothingReady ==
    /\ mode = "sched" /\ ret # "wait"
    /\ Ready = {}
    /\ mode' = "shell"
    /\ ret' = "none"
    /\ UNCHANGED <<tab, stdio, inherit, marker, task, cur, rt, spawns>>

\* SYSCALL_EXIT: without inheritance everything is closed at once.
Exit ==
    /\ mode = "user"
    /\ task' = Ended(cur)
    /\ tab' = IF inherit THEN tab ELSE ResetAll(tab)
    /\ stdio' = IF inherit THEN stdio ELSE Console
    /\ mode' = "abort"
    /\ UNCHANGED <<inherit, marker, cur, ret, rt, spawns>>

\* A fault, or Ctrl-C in ring 3.
Fault ==
    /\ mode = "user"
    /\ task' = Ended(cur)
    /\ mode' = "abort"
    /\ UNCHANGED <<tab, stdio, inherit, marker, cur, ret, rt, spawns>>

\* user_task_abort_continue.
AbortContinue ==
    /\ mode = "abort"
    /\ tab' = CleanupMappings(tab)
    /\ cur' = NoTask
    /\ mode' = "sched"
    /\ ret' = "abort"
    /\ UNCHANGED <<stdio, inherit, marker, task, rt, spawns>>

-----------------------------------------------------------------------------
(* The shell and its pipelines.                                            *)

\* A command that is a program: spawned with the shell's own settings.
ShellRun(t) ==
    /\ mode = "shell" /\ ~rt.active
    /\ t \in FreeTasks /\ t = Least(FreeTasks)
    /\ task' = [task EXCEPT ![t] = NewTask(inherit, stdio)]
    /\ mode' = "sched"
    /\ ret' = "shell"
    /\ UNCHANGED <<tab, stdio, inherit, marker, cur, rt, spawns>>

\* user_task_poll_scheduler finds tasks that were left behind.
PollScheduler ==
    /\ mode = "shell" /\ ~rt.active
    /\ Ready # {}
    /\ mode' = "sched"
    /\ ret' = "shell"
    /\ UNCHANGED <<tab, stdio, inherit, marker, task, cur, rt, spawns>>

\* execute_pipeline of n commands.
ExecutePipeline(n) ==
    /\ mode = "shell" /\ ~rt.active
    /\ inherit' = TRUE
    /\ rt' = [IdleRuntime EXCEPT !.active = TRUE, !.left = n]
    /\ UNCHANGED <<tab, stdio, marker, taskVars>>

\* What the runtime has deferred is closed first, the write end before the
\* read end.
Deferred(T) == Release(Release(T, rt.close_out), rt.close_in)

\* pipeline_runtime_finish.
Finish ==
    /\ tab' = ResetAll(Release(Deferred(tab), rt.input))
    /\ stdio' = Console
    /\ inherit' = FALSE
    /\ rt' = IdleRuntime

\* A stage with a successor writes to a new pipe, spooled if malloc succeeds.
Spooled(T, p, ok) == [T EXCEPT !.pipe[p].spooling = ok]
LinkFrom(T, in, t, ok) ==
    /\ CanCreatePipe(T)
    /\ tab' = Spooled(NewPipe(T), Least(FreePipes(T)), ok)
    /\ stdio' = [i \in Streams |-> IF i = 0 THEN in ELSE SecondFd(T)]
    /\ rt' = [rt EXCEPT !.left = @ - 1, !.close_in = in,
                        !.close_out = SecondFd(T), !.input = FirstFd(T),
                        !.task = t]
LastFromLate(T, in, t) ==
    /\ tab' = T
    /\ stdio' = [i \in Streams |-> IF i = 0 THEN in ELSE 1]
    /\ rt' = [rt EXCEPT !.close_in = in, !.close_out = NoFd, !.task = t]
\* The last one writes to the console.
LastFrom(T, in, t) ==
    /\ tab' = T
    /\ stdio' = [i \in Streams |-> IF i = 0 THEN in ELSE 1]
    /\ rt' = [rt EXCEPT !.left = 0, !.close_in = in,
                        !.close_out = NoFd, !.input = NoFd, !.task = t]

\* pipeline_resume_pending up to the point where the stage is executed.  The
\* runtime has advanced by then: a task's end does not return here.
Resuming == mode = "shell" /\ rt.active /\ rt.left > 0
NextStage(t) ==
    /\ Resuming
    /\ IF rt.left > 1
       THEN \E ok \in SpoolOutcomes : LinkFrom(Deferred(tab), rt.input, t, ok)
       ELSE LastFrom(Deferred(tab), rt.input, t)

\* The stage is a program: it is spawned and waited for.
ResumeTask(t) ==
    /\ "task" \in StageKinds /\ t \in FreeTasks /\ t = Least(FreeTasks)
    /\ NextStage(t)
    /\ task' = [task EXCEPT ![t] = NewTask(inherit, stdio')]
    /\ mode' = "sched"
    /\ ret' = "stage"
    /\ UNCHANGED <<inherit, marker, cur, spawns>>

\* The stage is a command of the shell, or no slot is free.
ResumeBuiltin ==
    /\ "builtin" \in StageKinds \/ FreeTasks = {}
    /\ NextStage(NoTask)
    /\ UNCHANGED <<inherit, marker, taskVars>>

\* The pipe for the next link cannot be created: the pipeline is given up.
ResumeFails ==
    /\ Resuming /\ rt.left > 1
    /\ ~CanCreatePipe(Deferred(tab))
    /\ Finish
    /\ UNCHANGED <<marker, taskVars>>

PipelineFinish ==
    /\ mode = "shell" /\ rt.active /\ rt.left = 0
    /\ Finish
    /\ UNCHANGED <<marker, taskVars>>

-----------------------------------------------------------------------------

Caps == [fd : Fds, epoch : 1..MaxEpoch, live : BOOLEAN]

DescriptorCall ==
    \/ OpenFile
    \/ \E p \in Paths : Mkfifo(p) \/ Unlink(p)
    \/ \E p \in Paths, e \in {"r", "w"}, nb \in BOOLEAN : OpenFifo(p, e, nb)
    \/ \E f \in Fds : Close(f) \/ MintFd(f)
    \/ \E f \in FdNumbers : Dup(f)
    \/ \E old \in FdNumbers, new \in FdNumbers : Dup2(old, new)
    \/ \E b \in BOOLEAN : PipeCall(b) \/ PtyOpen(b) \/ SetInherit(b)
    \/ \E in \in FdNumbers, out \in FdNumbers : SetStdio(in, out)
    \/ \E f \in Fds, b \in BOOLEAN : SetNonblock(f, b)

DataCall ==
    \/ \E f \in FdNumbers, n \in ReadLens : Read(f, n)
    \/ \E f \in FdNumbers, s \in Strings : Write(f, s)
    \/ \E c \in tab.caps : CapClose(c)
    \/ \E c \in tab.caps, n \in ReadLens : CapRead(c, n)
    \/ \E c \in tab.caps, s \in Strings : CapWrite(c, s)

TaskCall ==
    \/ \E t \in Tasks : Spawn(t) \/ Wait(t)
    \/ \E t \in Tasks, inh \in BOOLEAN, in \in FdNumbers, out \in FdNumbers :
          SpawnEx(t, inh, in, out)
    \/ Exit
    \/ Fault

\* Code of the kernel that runs without waiting.
Kernel ==
    \/ \E t \in Tasks : Launch(t) \/ LaunchFails(t) \/ ResumeTask(t)
    \/ NothingReady \/ AbortContinue
    \/ ResumeBuiltin \/ ResumeFails \/ PipelineFinish

User ==
    \/ \E t \in Tasks : ShellRun(t)
    \/ PollScheduler
    \/ \E n \in 2..MaxStages : ExecutePipeline(n)
    \/ \E b \in BOOLEAN : Interrupt(b)

Next ==
    /\ UNCHANGED calls
    /\ DescriptorCall \/ DataCall \/ TaskCall \/ Kernel \/ User

Spec == Init /\ [][Next]_<<vars, calls>>

\* Kernel code runs to its end; a program that gets to ring 3 again and again
\* exits at some point.
FairSpec == Spec /\ WF_vars(Kernel) /\ SF_vars(Exit)

-----------------------------------------------------------------------------
(* Properties.                                                             *)

FdRecords ==
    [kind : {"none", "file", "pipe", "pty"},
     obj : {0} \cup Pipes \cup Ptys, end : {"none", "r", "w", "m", "s"},
     nonblock : BOOLEAN]
PipeRecords ==
    [used : BOOLEAN, fifo : Paths \cup {NoPath}, refs : [{"r", "w"} -> Nat],
     spooling : BOOLEAN, buf : Rings(BUFFER_BYTES), spool : Rings(SPOOL_BYTES),
     sent : Seq(Bytes)]
PtyRecords ==
    [used : BOOLEAN, refs : [{"m", "s"} -> Nat],
     ring : [{"m", "s"} -> Rings(BUFFER_BYTES)]]
TaskRecords == [st : TaskStates, inherit : BOOLEAN,
                stdio : [Streams -> FdNumbers], awaits : Tasks \cup {NoTask}]

\* The types of the variables: tables of fixed size, numbers in range, ring
\* positions inside their buffers.
TypeOK ==
    /\ tab.fd \in [Fds -> FdRecords]
    /\ tab.pipe \in [Pipes -> PipeRecords]
    /\ tab.pty \in [Ptys -> PtyRecords]
    /\ tab.reg \in [Fds -> 0..(MaxEpoch + 1)]
    /\ tab.caps \subseteq Caps
    /\ stdio \in [Streams -> FdNumbers]
    /\ inherit \in BOOLEAN
    /\ marker \subseteq Paths
    /\ task \in [Tasks -> TaskRecords]
    /\ cur \in Tasks \cup {NoTask} /\ spawns \in 0..MaxSpawns
    /\ mode \in Modes /\ ret \in Returns
    /\ rt \in [active : BOOLEAN, left : 0..MaxStages, input : FdNumbers,
               close_in : FdNumbers, close_out : FdNumbers,
               task : Tasks \cup {NoTask}]

Holders(k, o, e) == {f \in Fds : /\ tab.fd[f].kind = k /\ tab.fd[f].obj = o
                                 /\ tab.fd[f].end = e}

\* The reference counts of both ends of every pipe and PTY are the numbers of
\* descriptors that hold them, after any mix of open, pipe, dup, dup2, close,
\* capability close, reset and launch.
RefsMatch ==
    /\ \A p \in Pipes, e \in {"r", "w"} :
          tab.pipe[p].refs[e] = Cardinality(Holders("pipe", p, e))
    /\ \A t \in Ptys, e \in {"m", "s"} :
          tab.pty[t].refs[e] = Cardinality(Holders("pty", t, e))

\* An anonymous pipe or a PTY is in use exactly while a descriptor refers to
\* it; no descriptor refers to a freed one, and no path has two FIFOs.
ObjectsLive ==
    /\ \A p \in Pipes :
          /\ Holders("pipe", p, "r") \cup Holders("pipe", p, "w") # {}
                => tab.pipe[p].used
          /\ tab.pipe[p].used /\ tab.pipe[p].fifo = NoPath
                => Holders("pipe", p, "r") \cup Holders("pipe", p, "w") # {}
    /\ \A t \in Ptys :
          tab.pty[t].used <=>
             Holders("pty", t, "m") \cup Holders("pty", t, "s") # {}
    /\ \A path \in Paths : Cardinality(FifosAt(tab, path)) <= 1

\* A capability is accepted only while the descriptor it was minted for has not
\* been closed since, whatever has reused the number.
CapsFresh == \A c \in tab.caps : Accepts(tab, c) => c.live

\* After any mix of open, mkfifo, pipe, PTY, dup, dup2, close and capability
\* calls, task ends and failed launches the tables agree: an object lives as
\* long as descriptors refer to it and a closed descriptor's capability is dead.
ObjectsSound == TypeOK /\ RefsMatch /\ ObjectsLive /\ CapsFresh

\* What a pipe will return is what was written and not yet read, in the order
\* of the writes, through the ring, its wrap-around and the spool.
InOrder ==
    \A p \in Pipes : Content(tab.pipe[p].buf) \o Content(tab.pipe[p].spool)
                        = tab.pipe[p].sent

HoldsEnd(f, e) == IsOpen(tab, f) /\ tab.fd[f].kind = "pipe" /\ tab.fd[f].end = e

\* While a pipeline runs, the numbers its runtime keeps across the launches and
\* ends of tasks still name the ends of its links.
RuntimeFds ==
    rt.active =>
        /\ rt.input # NoFd => HoldsEnd(rt.input, "r")
        /\ rt.close_in # NoFd => HoldsEnd(rt.close_in, "r")
        /\ rt.close_out # NoFd => HoldsEnd(rt.close_out, "w")

\* A stage of a pipeline reads from a link whose writers are all gone: it gets
\* what was written and then the end of the file, and never waits for more.
EofReady ==
    rt.active /\ mode = "user" /\ IsOpen(tab, stdio[0]) =>
        /\ HoldsEnd(stdio[0], "r")
        /\ tab.pipe[tab.fd[stdio[0]].obj].refs.w = 0

\* Across the launches and ends of stages a link keeps its two ends, and the
\* stage that reads it is not kept waiting by a write end left open.
LinksSound == RuntimeFds /\ EofReady

\* When the shell reads a command, nothing of an earlier program or pipeline is
\* left in the tables.
ShellClean ==
    mode = "shell" /\ ~rt.active =>
        FreeFds(tab) = Fds /\ FreePipes(tab) = Pipes /\ FreePtys(tab) = Ptys

\* Every pipeline comes to its end and hands the tables back.
PipelineFinishes == rt.active ~> ~rt.active

(* What the code does not keep; the README says how it is lost.            *)

\* A standard stream that dup2 has remapped stays open while its program runs
\* and does not remap it: the call duplicates the endpoint.
StreamKept ==
    [][ \A i \in Streams :
          /\ mode = "user" /\ mode' = "user" /\ stdio' = stdio
          /\ IsOpen(tab, stdio[i])
          => IsOpen(tab', stdio[i]) ]_vars

=============================================================================
