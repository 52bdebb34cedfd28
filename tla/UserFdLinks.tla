---------------------------- MODULE UserFdLinks ----------------------------
(***************************************************************************)
(* What is proved about UserFd across programs and pipelines: the shell    *)
(* finds the tables empty, and the links of a pipeline keep their ends.    *)
(***************************************************************************)
EXTENDS UserFdProofs, WellFoundedInduction

-----------------------------------------------------------------------------
(***************************************************************************)
(* Between programs.                                                       *)
(***************************************************************************)
Clean(T) == FreeFds(T) = Fds /\ FreePipes(T) = Pipes /\ FreePtys(T) = Ptys

\* Outside a pipeline the tables are empty when the shell runs, and when the
\* scheduler runs with no program underneath that waits for its choice.
Handed == ~rt.active /\ (mode = "shell" \/ (mode = "sched" /\ ret # "wait")) => Clean(tab)

\* A reset leaves nothing in the tables.
LEMMA ResetClean == \A T : Clean(ResetAll(T))
BY DEF Clean, ResetAll, FreeFds, FreePipes, FreePtys, IsOpen, ClosedFd, FreePipe, FreePty

\* A system call on descriptors goes on in ring 3; in a pipeline that is left
\* alone it does not touch the standard streams or the inherit mode.
LEMMA DescriptorCallFact ==
    ASSUME DescriptorCall
    PROVE  /\ mode = "user" /\ UNCHANGED <<task, cur, mode, ret, rt>>
           /\ rt.active /\ ~LinksExposed => UNCHANGED <<stdio, inherit>>
<1>1. ASSUME OpenFile \/ \E p \in Paths : Mkfifo(p) \/ Unlink(p)
      PROVE  mode = "user" /\ UNCHANGED <<task, cur, mode, ret, rt, stdio, inherit>>
  BY <1>1 DEF Call, taskVars, OpenFile, Mkfifo, Unlink
<1>2. ASSUME NEW p, NEW e, NEW nb, OpenFifo(p, e, nb)
      PROVE  mode = "user" /\ UNCHANGED <<task, cur, mode, ret, rt, stdio, inherit>>
  BY <1>2 DEF Call, taskVars, OpenFifo
<1>3. ASSUME NEW f, Close(f) \/ MintFd(f) \/ Dup(f) \/ \E b \in BOOLEAN : SetNonblock(f, b)
      PROVE  mode = "user" /\ UNCHANGED <<task, cur, mode, ret, rt, stdio, inherit>>
  BY <1>3 DEF Call, taskVars, Close, MintFd, Dup, SetNonblock
<1>4. ASSUME NEW old, NEW new, Dup2(old, new)
      PROVE  /\ mode = "user" /\ UNCHANGED <<task, cur, mode, ret, rt>>
             /\ rt.active /\ ~LinksExposed => UNCHANGED <<stdio, inherit>>
  BY <1>4 DEF Call, taskVars, Dup2, MayRemap
<1>5. ASSUME NEW b, PipeCall(b) \/ PtyOpen(b)
      PROVE  mode = "user" /\ UNCHANGED <<task, cur, mode, ret, rt, stdio, inherit>>
  BY <1>5 DEF Call, taskVars, PipeCall, PtyOpen
<1>6. ASSUME NEW b, SetInherit(b) \/ \E in \in FdNumbers, out \in FdNumbers : SetStdio(in, out)
      PROVE  /\ mode = "user" /\ UNCHANGED <<task, cur, mode, ret, rt>>
             /\ rt.active /\ ~LinksExposed => UNCHANGED <<stdio, inherit>>
  BY <1>6 DEF Call, taskVars, SetInherit, SetStdio, MayRemap
<1> QED BY <1>1, <1>2, <1>3, <1>4, <1>5, <1>6 DEF DescriptorCall

\* A system call that reads or writes goes on, or waits in the kernel.
LEMMA DataCallFact ==
    ASSUME DataCall
    PROVE  /\ mode = "user" /\ mode' \in {"user", "readwait", "writewait"}
           /\ UNCHANGED <<stdio, inherit, task, cur, ret, rt>>
<1>1. ASSUME NEW d, \/ \E n \in ReadLens : ReadFrom(d, n)
                    \/ \E s \in Strings : WriteTo(d, s)
      PROVE  mode' = mode \/ mode' \in {"readwait", "writewait"}
  <2>1. ASSUME NEW n, ReadFrom(d, n) PROVE mode' = mode \/ mode' = "readwait"
    BY <2>1 DEF ReadFrom
  <2>2. ASSUME NEW s, WriteTo(d, s) PROVE mode' = mode \/ mode' = "writewait"
    BY <2>2 DEF WriteTo
  <2> QED BY <1>1, <2>1, <2>2
<1>2. ASSUME NEW f, NEW n \in ReadLens, Read(f, n)
      PROVE  /\ mode = "user" /\ mode' \in {"user", "readwait", "writewait"}
             /\ UNCHANGED <<stdio, inherit, task, cur, ret, rt>>
  BY <1>1, <1>2 DEF Read, Call
<1>3. ASSUME NEW f, NEW s \in Strings, Write(f, s)
      PROVE  /\ mode = "user" /\ mode' \in {"user", "readwait", "writewait"}
             /\ UNCHANGED <<stdio, inherit, task, cur, ret, rt>>
  BY <1>1, <1>3 DEF Write, Call
<1>4. ASSUME NEW c, CapClose(c)
      PROVE  mode = "user" /\ mode' = "user" /\ UNCHANGED <<stdio, inherit, task, cur, ret, rt>>
  BY <1>4 DEF CapClose, Call, taskVars
<1>5. ASSUME NEW c, NEW n \in ReadLens, CapRead(c, n)
      PROVE  /\ mode = "user" /\ mode' \in {"user", "readwait", "writewait"}
             /\ UNCHANGED <<stdio, inherit, task, cur, ret, rt>>
  BY <1>1, <1>5 DEF CapRead, Call
<1>6. ASSUME NEW c, NEW s \in Strings, CapWrite(c, s)
      PROVE  /\ mode = "user" /\ mode' \in {"user", "readwait", "writewait"}
             /\ UNCHANGED <<stdio, inherit, task, cur, ret, rt>>
  BY <1>1, <1>6 DEF CapWrite, Call
<1> QED BY <1>2, <1>3, <1>4, <1>5, <1>6 DEF DataCall

\* Every step keeps that the tables are handed over empty.
LEMMA HandedKept ==
    ASSUME IInv, Handed, Next
    PROVE  Handed'
<1>1. CASE mode = "user" /\ (mode' = "user" \/ mode' = "abort" \/ mode' = "readwait"
                              \/ mode' = "writewait" \/ (mode' = "sched" /\ ret' = "wait"))
  BY <1>1 DEF Handed
<1>2. CASE DescriptorCall
  BY <1>1, <1>2, DescriptorCallFact
<1>3. CASE DataCall
  BY <1>1, <1>3, DataCallFact
<1>4. CASE TaskCall
  <2>1. mode = "user" /\ (mode' \in {"user", "abort"} \/ (mode' = "sched" /\ ret' = "wait"))
    BY <1>4 DEF TaskCall, Call, Spawn, SpawnEx, Spawned, Wait, Exit, Fault
  <2> QED BY <1>1, <2>1
<1>5. CASE Kernel
  <2>1. ASSUME NEW t \in Tasks, Launch(t) PROVE Handed'
    BY <2>1 DEF Launch, Handed
  <2>2. ASSUME NEW t \in Tasks, LaunchFails(t) PROVE Handed'
    <3>1. ASSUME ret # "wait" PROVE Handed'
      <4>1. mode = "sched" /\ rt' = rt /\ (tab' = tab \/ tab' = TablesAtLaunch(t))
        BY <2>2 DEF LaunchFails
      <4>2. rt.active \/ Clean(TablesAtLaunch(t))
        BY ResetClean DEF TablesAtLaunch, CleanupMappings
      <4> QED BY <3>1, <4>1, <4>2 DEF Handed
    <3>2. ASSUME ret = "wait" PROVE Handed'
      BY <2>2, <3>2 DEF LaunchFails, ModeAfterFailure, Handed
    <3> QED BY <3>1, <3>2
  <2>3. ASSUME NEW t, NextStage(t) PROVE Handed'
    <3>1. "active" \in DOMAIN rt
      BY DEF IInv, OthersOK
    <3>2. rt'.active
      BY <2>3, <3>1 DEF NextStage, Resuming, LinkFrom, LastFrom
    <3> QED BY <3>2 DEF Handed
  <2>4. CASE NothingReady
    BY <2>4 DEF NothingReady, Handed
  <2>5. CASE AbortContinue
    BY <2>5, ResetClean DEF AbortContinue, CleanupMappings, Handed
  <2>6. CASE ResumeFails \/ PipelineFinish
    BY <2>6, ResetClean DEF ResumeFails, PipelineFinish, Finish, Handed
  <2> QED BY <1>5, <2>1, <2>2, <2>3, <2>4, <2>5, <2>6 DEF Kernel, ResumeTask, ResumeBuiltin
<1>6. CASE User
  <2>1. ASSUME NEW t \in Tasks, ShellRun(t) PROVE Handed'
    BY <2>1 DEF ShellRun, Handed
  <2>4. CASE PollScheduler
    BY <2>4 DEF PollScheduler, Handed
  <2>2. ASSUME NEW n, ExecutePipeline(n) PROVE Handed'
    BY <2>2 DEF ExecutePipeline, IdleRuntime, Handed
  <2>3. ASSUME NEW b, Interrupt(b) PROVE Handed'
    BY <2>3 DEF Interrupt, Handed
  <2> QED BY <1>6, <2>1, <2>2, <2>3, <2>4 DEF User
<1> QED BY <1>2, <1>3, <1>4, <1>5, <1>6 DEF Next

\* When the shell reads a command, nothing of an earlier program or pipeline is
\* in the tables, however it ended: exit, fault, Ctrl-C, a load that failed, a
\* pipeline given up (user_task_cleanup_mappings, pipeline_runtime_finish).
THEOREM ShellFindsTablesEmpty == Spec => []ShellClean
<1>1. Init => IInv /\ Handed
  BY InitSound DEF Init, Handed, Clean, EmptyTables, FreeFds, FreePipes, FreePtys, IsOpen, ClosedFd,
         FreePipe, FreePty
<1>2. IInv /\ Handed /\ [Next]_<<vars, calls>> => IInv' /\ Handed'
  <2>1. Handed /\ UNCHANGED <<vars, calls>> => Handed'
    BY DEF vars, Handed, Clean, FreeFds, FreePipes, FreePtys, IsOpen
  <2> QED BY <2>1, HandedKept, StepSound
<1>3. Handed => ShellClean
  BY DEF Handed, ShellClean, Clean
<1> QED BY <1>1, <1>2, <1>3, PTL DEF Spec

-----------------------------------------------------------------------------
(***************************************************************************)
(* The links of a pipeline.  The runtime keeps up to three descriptors: the *)
(* read end of the next stage's link, that of the running stage's, and the *)
(* write end of the running stage's.                                       *)
(***************************************************************************)
ReadLinks(r) == {r.input, r.close_in} \ {NoFd}
Links(r) == ReadLinks(r) \cup ({r.close_out} \ {NoFd})
LinkPipes(T, r) == {T.fd[f].obj : f \in ReadLinks(r)}

Holding(T, f, e) == T.fd[f].kind = "pipe" /\ T.fd[f].end = e

\* The read ends are of anonymous pipes.  Nobody holds a write end of the link
\* that is read, and only the runtime that of the next one.
EndsOK(T, r) ==
    /\ Links(r) \subseteq Fds
    /\ \A f \in ReadLinks(r) : Holding(T, f, "r") /\ T.pipe[T.fd[f].obj].fifo = NoPath
    /\ r.close_out # NoFd => Holding(T, r.close_out, "w")
    /\ r.input # NoFd => r.input # r.close_in
    /\ \A f \in Fds : Holding(T, f, "w") =>
         /\ r.close_in # NoFd => T.fd[f].obj # T.fd[r.close_in].obj
         /\ r.input # NoFd /\ T.fd[f].obj = T.fd[r.input].obj => f = r.close_out

\* A capability that is accepted is for an open descriptor, and for no link.
CapsClear(T, r) ==
    \A c \in T.caps : c.epoch = T.reg[c.fd] => IsOpen(T, c.fd) /\ c.fd \notin Links(r)

Linked(T, r) == EndsOK(T, r) /\ CapsClear(T, r)

\* The links are open, and their pipes are in use.
LEMMA LinkedFact ==
    ASSUME NEW T, TablesOK(T), NEW r, EndsOK(T, r)
    PROVE  /\ \A f \in Links(r) : f \in Fds /\ IsOpen(T, f)
           /\ LinkPipes(T, r) \subseteq {p \in Pipes : T.pipe[p].used /\ T.pipe[p].fifo = NoPath}
<1>1. \A f \in Links(r) : f \in Fds /\ IsOpen(T, f)
  BY DEF EndsOK, Links, ReadLinks, IsOpen, Holding
<1>2. ASSUME NEW f \in ReadLinks(r)
      PROVE  T.fd[f].obj \in Pipes /\ T.pipe[T.fd[f].obj].used /\ T.pipe[T.fd[f].obj].fifo = NoPath
  <2> DEFINE F == T.fd
             p == F[f].obj
  <2>1. f \in Fds /\ F[f].kind = "pipe" /\ F[f].end = "r" /\ T.pipe[p].fifo = NoPath
    BY DEF EndsOK, Links, Holding
  <2>2. FdOK(F[f]) /\ PipesOK(F, T.pipe)
    BY <2>1 DEF TablesOK, FdsOK
  <2>3. p \in Pipes
    BY <2>1, <2>2 DEF FdOK
  <2>4. f \in HoldersOf(F, "pipe", p, "r")
    BY <2>1 DEF HoldersOf
  <2>5. PipeHeld(T.pipe[p], Count(F, "pipe", p, "r"), Count(F, "pipe", p, "w"))
    BY <2>2, <2>3 DEF PipesOK
  <2> HIDE DEF F, p
  <2>6. Count(F, "pipe", p, "r") > 0
    BY <2>4, HeldFact
  <2>7. T.pipe[p].used
    BY <2>5, <2>6 DEF PipeHeld
  <2> QED BY <2>1, <2>3, <2>7 DEF F, p
<1> QED BY <1>1, <1>2 DEF LinkPipes

\* A change of the tables that leaves the links alone and opens no write end of
\* a link.
LEMMA EndsKept ==
    ASSUME NEW T, NEW r, EndsOK(T, r), NEW Z,
           \A g \in Fds : \/ Z.fd[g] = T.fd[g]
                          \/ /\ g \notin Links(r)
                             /\ Holding(Z, g, "w") => Z.fd[g].obj \notin LinkPipes(T, r),
           \A p \in LinkPipes(T, r) : Z.pipe[p].fifo = NoPath
    PROVE  EndsOK(Z, r) /\ LinkPipes(Z, r) = LinkPipes(T, r)
<1>1. \A f \in Links(r) : f \in Fds /\ Z.fd[f] = T.fd[f]
  BY DEF EndsOK
<1>2. LinkPipes(Z, r) = LinkPipes(T, r)
  BY <1>1 DEF LinkPipes, Links
<1>3. \A f \in ReadLinks(r) : Holding(Z, f, "r") /\ Z.pipe[Z.fd[f].obj].fifo = NoPath
  BY <1>1 DEF LinkPipes, Links, EndsOK, Holding
<1>4. r.close_out # NoFd => Holding(Z, r.close_out, "w")
  BY <1>1 DEF Links, EndsOK, Holding
<1>5. ASSUME NEW f \in Fds, Holding(Z, f, "w")
      PROVE  /\ r.close_in # NoFd => Z.fd[f].obj # Z.fd[r.close_in].obj
             /\ r.input # NoFd /\ Z.fd[f].obj = Z.fd[r.input].obj => f = r.close_out
  <2>1. /\ r.close_in # NoFd => /\ Z.fd[r.close_in] = T.fd[r.close_in]
                                /\ Z.fd[r.close_in].obj \in LinkPipes(T, r)
        /\ r.input # NoFd => /\ Z.fd[r.input] = T.fd[r.input]
                             /\ Z.fd[r.input].obj \in LinkPipes(T, r)
    BY <1>1 DEF Links, ReadLinks, LinkPipes
  <2>2. CASE Z.fd[f] = T.fd[f]
    BY <1>5, <2>1, <2>2 DEF EndsOK, Holding
  <2>3. CASE Z.fd[f].obj \notin LinkPipes(T, r)
    BY <2>1, <2>3
  <2> QED BY <1>5, <2>2, <2>3
<1> QED BY <1>2, <1>3, <1>4, <1>5 DEF EndsOK

\* The capabilities after such a change that opens or keeps every descriptor.
LEMMA CapsKept ==
    ASSUME NEW T, NEW r, CapsClear(T, r), NEW Z, Z.reg = T.reg, Z.caps = T.caps,
           \A g \in Fds : Z.fd[g].kind = T.fd[g].kind \/ Z.fd[g].kind # "none"
    PROVE  CapsClear(Z, r)
BY DEF CapsClear, IsOpen

\* A revocation leaves no capability for the descriptor that is accepted.
LEMMA RevokedFact ==
    ASSUME NEW T, CapsOK(T.reg, T.caps), NEW c \in T.caps
    PROVE  c.fd \in Fds /\ c.epoch # Revoked(T, c.fd)[c.fd]
<1> DEFINE f == c.fd
           x == T.reg[f]
<1>1. f \in Fds /\ c.epoch \in 1 .. MaxEpoch /\ c.epoch <= x /\ x \in 0 .. MaxEpoch + 1
      /\ T.reg \in [Fds -> 0 .. MaxEpoch + 1] /\ MaxEpoch \in Nat
  BY UserFdAssumption DEF CapsOK, Caps
<1>2. Revoked(T, f)[f] = IF x \in 1 .. MaxEpoch THEN x + 1 ELSE x
  BY <1>1 DEF Revoked
<1> HIDE DEF f, x
<1>3. c.epoch # Revoked(T, f)[f]
  BY <1>1, <1>2
<1> QED BY <1>1, <1>3 DEF f

\* Closing a descriptor that is no link.
LEMMA ReleaseLinked ==
    ASSUME NEW T, TablesOK(T), NEW f
    PROVE  /\ \A r : EndsOK(T, r) /\ f \notin Links(r) => EndsOK(Release(T, f), r)
           /\ \A r : CapsClear(T, r) => CapsClear(Release(T, f), r)
           /\ \A p \in Pipes : T.pipe[p].fifo = NoPath => Release(T, f).pipe[p].fifo = NoPath
<1> DEFINE Z == Release(T, f)
<1>1. CASE ~IsOpen(T, f)
  BY <1>1 DEF Release
<1>2. CASE IsOpen(T, f)
  <2>1. /\ f \in Fds /\ Z.fd = [T.fd EXCEPT ![f] = ClosedFd] /\ Z.pipe = PipesDropped(T, T.fd[f])
        /\ Z.reg = Revoked(T, f)
        /\ Z.caps = {IF c.fd = f THEN [c EXCEPT !.live = FALSE] ELSE c : c \in T.caps}
    BY <1>2 DEF Release, IsOpen
  <2>2. DOMAIN T.fd = Fds /\ DOMAIN T.pipe = Pipes /\ CapsOK(T.reg, T.caps) /\ ClosedFd.kind = "none"
    BY NewFds DEF TablesOK, FdsOK, PipesOK
  <2> HIDE DEF Z
  <2>3. ASSUME NEW p \in Pipes, T.pipe[p].fifo = NoPath PROVE Z.pipe[p].fifo = NoPath
    <3>1. \/ Z.pipe[p] = T.pipe[p]
          \/ Z.pipe[p] = PipeMaybeDestroyed(EndDropped(T.pipe[p], T.fd[f].end))
      BY <2>1, <2>2 DEF PipesDropped
    <3>2. EndDropped(T.pipe[p], T.fd[f].end).fifo = NoPath
      <4>1. T.pipe[p] \in PipeRecords
        BY <2>2 DEF TablesOK, PipesOK
      <4> QED BY <2>3, <4>1, PipeFields DEF EndDropped
    <3> QED BY <2>3, <3>1, <3>2, FreeFact DEF PipeMaybeDestroyed
  <2>4. ASSUME NEW r, EndsOK(T, r), f \notin Links(r) PROVE EndsOK(Z, r)
    <3>1. \A g \in Fds : \/ Z.fd[g] = T.fd[g]
                         \/ /\ g \notin Links(r)
                            /\ Holding(Z, g, "w") => Z.fd[g].obj \notin LinkPipes(T, r)
      BY <2>1, <2>2, <2>4 DEF Holding
    <3>2. \A p \in LinkPipes(T, r) : Z.pipe[p].fifo = NoPath
      BY <2>3, <2>4, LinkedFact
    <3> QED BY <2>4, <3>1, <3>2, EndsKept
  <2>5. ASSUME NEW r, CapsClear(T, r) PROVE CapsClear(Z, r)
    <3> SUFFICES ASSUME NEW c \in T.caps, NEW d, d.fd = c.fd, d.epoch = c.epoch,
                        d.epoch = Z.reg[d.fd]
                 PROVE  IsOpen(Z, d.fd) /\ d.fd \notin Links(r)
      <4>1. \A d \in Z.caps : \E c \in T.caps : d.fd = c.fd /\ d.epoch = c.epoch
        <5>1. \A c \in T.caps : [c EXCEPT !.live = FALSE].fd = c.fd
                                /\ [c EXCEPT !.live = FALSE].epoch = c.epoch
          OBVIOUS
        <5> SUFFICES ASSUME NEW d \in Z.caps PROVE \E c \in T.caps : d.fd = c.fd /\ d.epoch = c.epoch
          OBVIOUS
        <5>2. PICK c \in T.caps : d = IF c.fd = f THEN [c EXCEPT !.live = FALSE] ELSE c
          BY <2>1
        <5> QED BY <5>1, <5>2
      <4> QED BY <4>1 DEF CapsClear
    <3>1. CASE c.fd = f
      <4>1. c.epoch # Revoked(T, c.fd)[c.fd]
        BY <2>2, RevokedFact
      <4> QED BY <2>1, <3>1, <4>1
    <3>2. CASE c.fd # f
      <4>1. c.fd \in Fds /\ T.reg \in [Fds -> 0 .. MaxEpoch + 1]
        BY <2>2 DEF CapsOK, Caps
      <4>2. Z.reg[c.fd] = T.reg[c.fd] /\ Z.fd[c.fd] = T.fd[c.fd]
        BY <2>1, <2>2, <3>2, <4>1 DEF Revoked
      <4> QED BY <2>5, <4>2 DEF CapsClear, IsOpen
    <3> QED BY <3>1, <3>2
  <2> QED BY <2>3, <2>4, <2>5 DEF Z
<1> QED BY <1>1, <1>2

\* Clearing all tables leaves no links and no capability that is accepted.
LEMMA ResetLinked ==
    ASSUME NEW T, TablesOK(T), NEW q, CapsClear(T, q)
    PROVE  Linked(ResetAll(T), IdleRuntime)
<1> DEFINE Z == ResetAll(T)
<1>1. Links(IdleRuntime) = {} /\ ReadLinks(IdleRuntime) = {}
      /\ IdleRuntime.close_out = NoFd /\ IdleRuntime.input = NoFd /\ IdleRuntime.close_in = NoFd
  BY DEF Links, ReadLinks, IdleRuntime
<1>2. EndsOK(Z, IdleRuntime)
  BY <1>1 DEF EndsOK
<1>3. ASSUME NEW d \in Z.caps PROVE d.epoch # Z.reg[d.fd]
  <2>1. PICK c \in T.caps : d = [c EXCEPT !.live = @ /\ ~IsOpen(T, c.fd)]
    BY DEF ResetAll
  <2>2. d.fd = c.fd /\ d.epoch = c.epoch /\ CapsOK(T.reg, T.caps)
    BY <2>1 DEF TablesOK
  <2>3. c.fd \in Fds /\ Z.reg[c.fd] = IF IsOpen(T, c.fd) THEN Revoked(T, c.fd)[c.fd] ELSE T.reg[c.fd]
    BY <2>2 DEF ResetAll, CapsOK, Caps
  <2> QED BY <2>2, <2>3, RevokedFact DEF CapsClear
<1> QED BY <1>2, <1>3 DEF Linked, CapsClear

\* A change of one descriptor that is no link.
LEMMA FdLinked ==
    ASSUME NEW T, TablesOK(T), NEW r, Linked(T, r), NEW f \in Fds, f \notin Links(r),
           NEW d, d.kind # "none",
           d.kind = "pipe" /\ d.end = "w" => d.obj \notin LinkPipes(T, r),
           NEW Z, Z.fd = [T.fd EXCEPT ![f] = d], Z.reg = T.reg, Z.caps = T.caps,
           \A p \in LinkPipes(T, r) : Z.pipe[p].fifo = NoPath
    PROVE  Linked(Z, r)
<1>1. DOMAIN T.fd = Fds
  BY DEF TablesOK, FdsOK
<1>2. EndsOK(Z, r)
  <2>1. \A g \in Fds : \/ Z.fd[g] = T.fd[g]
                       \/ /\ g \notin Links(r)
                          /\ Holding(Z, g, "w") => Z.fd[g].obj \notin LinkPipes(T, r)
    BY <1>1 DEF Holding
  <2> QED BY <2>1, EndsKept DEF Linked
<1>3. CapsClear(Z, r)
  BY <1>1, CapsKept DEF Linked
<1> QED BY <1>2, <1>3 DEF Linked

\* A write end that is no link's is of no link.
LEMMA ForeignEnd ==
    ASSUME NEW T, NEW r, EndsOK(T, r), NEW f \in Fds, f \notin Links(r), Holding(T, f, "w")
    PROVE  T.fd[f].obj \notin LinkPipes(T, r)
<1> SUFFICES ASSUME NEW g \in ReadLinks(r), T.fd[f].obj = T.fd[g].obj PROVE FALSE
  BY DEF LinkPipes
<1>1. CASE g = r.close_in
  BY <1>1 DEF EndsOK, ReadLinks
<1>2. CASE g = r.input
  <2>1. f = r.close_out /\ r.input # NoFd
    BY <1>2 DEF EndsOK, ReadLinks
  <2>2. NoFd \notin Fds
    BY FdsFact DEF NoFd
  <2> QED BY <2>1, <2>2 DEF Links
<1> QED BY <1>1, <1>2 DEF ReadLinks

\* One more holder changes the paths of no pipe, and no capability.
LEMMA ReferencedFact ==
    ASSUME NEW T, TablesOK(T), NEW d, FdOK(d)
    PROVE  /\ Referenced(T, d).fd = T.fd /\ DOMAIN Referenced(T, d) = TableNames
           /\ Referenced(T, d).reg = T.reg /\ Referenced(T, d).caps = T.caps
           /\ \A p \in Pipes : Referenced(T, d).pipe[p].fifo = T.pipe[p].fifo
<1>1. DOMAIN T = TableNames /\ DOMAIN T.pipe = Pipes /\ \A p \in Pipes : T.pipe[p] \in PipeRecords
  BY DEF TablesOK, PipesOK
<1>2. CASE d.kind = "pipe"
  <2>1. d.obj \in Pipes /\ d.end \in {"r", "w"}
    BY <1>2 DEF FdOK
  <2>2. Referenced(T, d) = [T EXCEPT !.pipe[d.obj].refs[d.end] = @ + 1]
    BY <1>2 DEF Referenced
  <2>3. \A p \in Pipes : T.pipe[p].refs \in [{"r", "w"} -> Nat]
    BY <1>1, PipeFields
  <2> QED BY <1>1, <2>1, <2>2, <2>3 DEF TableNames
<1>3. CASE d.kind = "pty"
  BY <1>1, <1>3 DEF Referenced, TableNames
<1>4. CASE d.kind # "pipe" /\ d.kind # "pty"
  BY <1>1, <1>4 DEF Referenced
<1> QED BY <1>2, <1>3, <1>4

\* Duplicating a descriptor that is no link onto a number that is no link.
LEMMA DuplicateLinked ==
    ASSUME NEW T, TablesOK(T), NEW r, Linked(T, r), NEW old \in Fds, IsOpen(T, old),
           old \notin Links(r), NEW new \in Fds, new \notin Links(r), new # old
    PROVE  Linked(Duplicate(T, old, new), r)
<1> DEFINE R == Release(T, new)
           d == T.fd[old]
<1>1. TablesOK(R) /\ Linked(R, r) /\ R.fd[old] = d /\ R.fd[new].kind = "none"
  BY ReleaseKept, ReleaseLinked DEF Linked
<1>2. FdOK(d) /\ d.kind # "none"
  BY DEF TablesOK, FdsOK, IsOpen
<1> HIDE DEF R
<1>3. d.kind = "pipe" /\ d.end = "w" => d.obj \notin LinkPipes(R, r)
  <2>1. d.kind = "pipe" /\ d.end = "w" => Holding(R, old, "w")
    BY <1>1 DEF Holding
  <2> QED BY <1>1, <2>1, ForeignEnd DEF Linked
<1>4. ASSUME NEW Z, Z = [Referenced(R, d) EXCEPT !.fd[new] = d]
      PROVE  Linked(Z, r)
  <2> DEFINE Q == Referenced(R, d)
  <2>1. /\ Q.fd = R.fd /\ DOMAIN Q = TableNames /\ Q.reg = R.reg /\ Q.caps = R.caps
        /\ \A p \in Pipes : Q.pipe[p].fifo = R.pipe[p].fifo
    BY <1>1, <1>2, ReferencedFact
  <2>2. Z = [Q EXCEPT !.fd[new] = d]
    BY <1>4
  <2> HIDE DEF Q, d
  <2>3. Z.fd = [R.fd EXCEPT ![new] = d] /\ Z.reg = R.reg /\ Z.caps = R.caps /\ Z.pipe = Q.pipe
    BY <2>1, <2>2 DEF TableNames
  <2>4. \A p \in LinkPipes(R, r) : Z.pipe[p].fifo = NoPath
    BY <1>1, <2>1, <2>3, LinkedFact DEF Linked
  <2> QED BY <1>1, <1>2, <1>3, <2>3, <2>4, FdLinked
<1> QED BY <1>1, <1>4 DEF Duplicate, R

\* A new pipe or PTY.
LEMMA TwoLinked ==
    ASSUME NEW T, TablesOK(T), NEW r, Linked(T, r),
           NEW a \in Fds, NEW b \in Fds, a # b, T.fd[a].kind = "none", T.fd[b].kind = "none",
           NEW d, NEW h, d.kind # "none", h.kind # "none",
           d.kind = "pipe" /\ d.end = "w" => d.obj \notin LinkPipes(T, r),
           h.kind = "pipe" /\ h.end = "w" => h.obj \notin LinkPipes(T, r),
           NEW Z, Z.fd = [T.fd EXCEPT ![a] = d, ![b] = h], Z.reg = T.reg, Z.caps = T.caps,
           \A p \in LinkPipes(T, r) : Z.pipe[p].fifo = NoPath
    PROVE  Linked(Z, r) /\ a \notin Links(r) /\ b \notin Links(r)
<1>1. DOMAIN T.fd = Fds /\ a \notin Links(r) /\ b \notin Links(r)
  BY LinkedFact DEF TablesOK, FdsOK, Linked, IsOpen
<1>2. EndsOK(Z, r)
  <2>1. \A g \in Fds : \/ Z.fd[g] = T.fd[g]
                       \/ /\ g \notin Links(r)
                          /\ Holding(Z, g, "w") => Z.fd[g].obj \notin LinkPipes(T, r)
    BY <1>1 DEF Holding
  <2> QED BY <2>1, EndsKept DEF Linked
<1>3. CapsClear(Z, r)
  BY <1>1, CapsKept DEF Linked
<1> QED BY <1>1, <1>2, <1>3 DEF Linked

\* A change that keeps the descriptors, the capabilities and the paths.
LEMMA DataLinked ==
    ASSUME NEW T, TablesOK(T), NEW r, Linked(T, r), NEW Z, Z.fd = T.fd, Z.reg = T.reg, Z.caps = T.caps,
           \A p \in Pipes : T.pipe[p].used => Z.pipe[p].fifo = T.pipe[p].fifo
    PROVE  Linked(Z, r)
<1>1. EndsOK(Z, r)
  <2>1. \A p \in LinkPipes(T, r) : Z.pipe[p].fifo = NoPath
    BY LinkedFact DEF Linked
  <2> QED BY <2>1, EndsKept DEF Linked
<1>2. CapsClear(Z, r)
  BY CapsKept DEF Linked
<1> QED BY <1>1, <1>2 DEF Linked

\* A FIFO that is found or gets a free pipe is of its path.
LEMMA FifoLinked ==
    ASSUME NEW T, TablesOK(T), NEW path \in Paths, CanEnsureFifo(T, path), NEW r, Linked(T, r),
           NEW Z, Z = FifoEnsured(T, path)
    PROVE  /\ Linked(Z, r) /\ Z.reg = T.reg /\ Z.caps = T.caps
           /\ Z.pipe[Least(FifosAt(Z, path))].fifo = path
<1>1. DOMAIN T = TableNames /\ DOMAIN T.pipe = Pipes /\ Pipes \subseteq Nat
  BY FdsFact DEF TablesOK, PipesOK
<1>2. CASE FifosAt(T, path) # {}
  <2>1. Z = T
    BY <1>2 DEF FifoEnsured
  <2>2. Least(FifosAt(T, path)) \in FifosAt(T, path)
    BY <1>1, <1>2, LeastIn DEF FifosAt
  <2> QED BY <2>1, <2>2 DEF FifosAt
<1>3. CASE FifosAt(T, path) = {}
  <2> DEFINE o == Least(FreePipes(T))
             q == [FreePipe EXCEPT !.used = TRUE, !.fifo = path]
  <2>1. o \in Pipes /\ ~T.pipe[o].used /\ Z = [T EXCEPT !.pipe[o] = q] /\ q.used /\ q.fifo = path
    <3>1. FreePipes(T) # {} /\ Z = FifoAllocated(T, path)
      BY <1>3 DEF CanEnsureFifo, FifoEnsured
    <3>2. o \in Pipes /\ ~T.pipe[o].used
      BY <3>1, FreeObjectTaken
    <3>3. q.used /\ q.fifo = path
      BY DEF FreePipe
    <3> QED BY <3>1, <3>2, <3>3 DEF FifoAllocated
  <2> HIDE DEF o, q
  <2>2. Z.fd = T.fd /\ Z.reg = T.reg /\ Z.caps = T.caps /\ Z.pipe = [T.pipe EXCEPT ![o] = q]
    BY <1>1, <2>1 DEF TableNames
  <2>3. Linked(Z, r)
    <3>1. \A p \in Pipes : T.pipe[p].used => Z.pipe[p].fifo = T.pipe[p].fifo
      BY <1>1, <2>1, <2>2
    <3> QED BY ONLY TablesOK(T), Linked(T, r), <2>2, <3>1, DataLinked
  <2>4. o \in FifosAt(Z, path)
    BY <1>1, <2>1, <2>2 DEF FifosAt
  <2>5. Least(FifosAt(Z, path)) \in FifosAt(Z, path)
    <3>1. FifosAt(Z, path) \in SUBSET Nat
      BY <1>1 DEF FifosAt
    <3> QED BY <2>4, <3>1, LeastIn
  <2> QED BY <2>2, <2>3, <2>5 DEF FifosAt
<1> QED BY <1>2, <1>3

\* Creating a pipe or a PTY keeps the links, and its ends are none.
LEMMA NewLinked ==
    ASSUME NEW T, TablesOK(T), NEW r, Linked(T, r)
    PROVE  /\ CanCreatePipe(T) => Linked(NewPipe(T), r)
           /\ CanCreatePty(T) => Linked(NewPty(T), r)
           /\ CanCreatePipe(T) \/ CanCreatePty(T) =>
                FirstFd(T) \notin Links(r) /\ SecondFd(T) \notin Links(r)
<1> DEFINE a == FirstFd(T)
           b == SecondFd(T)
<1>1. DOMAIN T = TableNames /\ DOMAIN T.pipe = Pipes /\ DOMAIN T.fd = Fds
  BY DEF TablesOK, PipesOK, FdsOK
<1>2. ASSUME Cardinality(FreeFds(T)) >= 2
      PROVE  /\ a \in Fds /\ b \in Fds /\ a # b /\ T.fd[a].kind = "none" /\ T.fd[b].kind = "none"
             /\ a \notin Links(r) /\ b \notin Links(r)
  BY <1>2, FreeFdTaken, LinkedFact DEF Linked, IsOpen
<1>3. ASSUME CanCreatePipe(T) PROVE Linked(NewPipe(T), r)
  <2> DEFINE p == Least(FreePipes(T))
             d == PipeFd(p, "r", FALSE)
             h == PipeFd(p, "w", FALSE)
             Z == NewPipe(T)
  <2>1. p \in Pipes /\ ~T.pipe[p].used
    BY <1>3, FreeObjectTaken DEF CanCreatePipe
  <2>2. /\ d.kind = "pipe" /\ d.end = "r" /\ h.kind = "pipe" /\ h.obj = p
        /\ Z = [T EXCEPT !.pipe[p] = [FreePipe EXCEPT !.used = TRUE, !.refs = [r |-> 1, w |-> 1]],
                         !.fd[a] = d, !.fd[b] = h]
    BY DEF NewPipe, PipeCreated, PipeFd
  <2> HIDE DEF a, b, p, d, h, Z
  <2>3. Z.fd = [T.fd EXCEPT ![a] = d, ![b] = h] /\ Z.reg = T.reg /\ Z.caps = T.caps
        /\ \A o \in Pipes : o # p => Z.pipe[o] = T.pipe[o]
    BY <1>1, <2>1, <2>2 DEF TableNames
  <2>4. p \notin LinkPipes(T, r) /\ \A o \in LinkPipes(T, r) : Z.pipe[o].fifo = NoPath
    BY <2>1, <2>3, LinkedFact DEF Linked
  <2>5. Linked(Z, r)
    <3>1. d.kind # "none" /\ d.end # "w" /\ h.kind # "none" /\ h.obj \notin LinkPipes(T, r)
      BY <2>2, <2>4
    <3>2. /\ a \in Fds /\ b \in Fds /\ a # b /\ T.fd[a].kind = "none" /\ T.fd[b].kind = "none"
      BY <1>2, <1>3 DEF CanCreatePipe
    <3>4. /\ d.kind = "pipe" /\ d.end = "w" => d.obj \notin LinkPipes(T, r)
          /\ h.kind = "pipe" /\ h.end = "w" => h.obj \notin LinkPipes(T, r)
      BY <3>1
    <3>5. d.kind # "none" /\ h.kind # "none" /\ \A o \in LinkPipes(T, r) : Z.pipe[o].fifo = NoPath
      BY <2>4, <3>1
    <3> QED BY ONLY TablesOK(T), Linked(T, r), <2>3, <3>2, <3>4, <3>5, TwoLinked
  <2> QED BY <2>5 DEF Z
<1>4. ASSUME CanCreatePty(T) PROVE Linked(NewPty(T), r)
  <2> DEFINE p == Least(FreePtys(T))
             d == PtyFd(p, "m")
             h == PtyFd(p, "s")
             Z == NewPty(T)
  <2>1. /\ d.kind = "pty" /\ h.kind = "pty"
        /\ Z = [T EXCEPT !.pty[p] = [FreePty EXCEPT !.used = TRUE, !.refs = [m |-> 1, s |-> 1]],
                         !.fd[a] = d, !.fd[b] = h]
    BY DEF NewPty, PtyCreated, PtyFd
  <2> HIDE DEF a, b, p, d, h, Z
  <2>2. Z.fd = [T.fd EXCEPT ![a] = d, ![b] = h] /\ Z.reg = T.reg /\ Z.caps = T.caps /\ Z.pipe = T.pipe
    BY <1>1, <2>1 DEF TableNames
  <2>3. \A o \in LinkPipes(T, r) : Z.pipe[o].fifo = NoPath
    BY <2>2, LinkedFact DEF Linked
  <2>4. Linked(Z, r)
    <3>1. d.kind # "none" /\ d.kind # "pipe" /\ h.kind # "none" /\ h.kind # "pipe"
      BY <2>1
    <3>2. /\ a \in Fds /\ b \in Fds /\ a # b /\ T.fd[a].kind = "none" /\ T.fd[b].kind = "none"
      BY <1>2, <1>4 DEF CanCreatePty
    <3>4. /\ d.kind = "pipe" /\ d.end = "w" => d.obj \notin LinkPipes(T, r)
          /\ h.kind = "pipe" /\ h.end = "w" => h.obj \notin LinkPipes(T, r)
      BY <3>1
    <3>5. d.kind # "none" /\ h.kind # "none"
      BY <3>1
    <3> QED BY ONLY TablesOK(T), Linked(T, r), <2>2, <2>3, <3>2, <3>4, <3>5, TwoLinked
  <2> QED BY <2>4 DEF Z
<1> QED BY <1>2, <1>3, <1>4 DEF CanCreatePipe, CanCreatePty

\* Programs that leave the links alone.
LEMMA MayUseFact ==
    ASSUME ~LinksExposed, NEW f, MayUse(f)
    PROVE  f \notin Links(rt)
BY DEF MayUse, Links, ReadLinks

\* The system calls that open, duplicate and close descriptors keep the links.
LEMMA DescriptorsLinked ==
    ASSUME IInv, Linked(tab, rt), ~LinksExposed, DescriptorCall
    PROVE  Linked(tab', rt)
<1>1. TablesOK(tab) /\ OthersOK /\ DOMAIN tab = TableNames /\ DOMAIN tab.fd = Fds
      /\ DOMAIN tab.pipe = Pipes
  BY DEF IInv, TablesOK, FdsOK, PipesOK
<1>2. \A f \in Fds : tab.fd[f].kind = "none" => f \notin Links(rt)
  BY <1>1, LinkedFact DEF Linked, IsOpen
<1>3. CASE OpenFile
  <2> DEFINE f == FirstFd(tab)
  <2>1. f \in Fds /\ tab.fd[f].kind = "none" /\ tab' = [tab EXCEPT !.fd[f] = FileFd]
        /\ FileFd.kind = "file"
    BY <1>3, FreeFdTaken, NewFds DEF OpenFile
  <2> HIDE DEF f
  <2>2. /\ tab'.fd = [tab.fd EXCEPT ![f] = FileFd] /\ tab'.reg = tab.reg /\ tab'.caps = tab.caps
        /\ tab'.pipe = tab.pipe
    BY <1>1, <2>1 DEF TableNames
  <2>3. \A p \in LinkPipes(tab, rt) : tab'.pipe[p].fifo = NoPath
    BY <1>1, <2>2, LinkedFact DEF Linked
  <2>4. /\ TablesOK(tab) /\ f \in Fds /\ f \notin Links(rt) /\ FileFd.kind # "none"
        /\ FileFd.kind # "pipe"
    BY <1>1, <1>2, <2>1
  <2> QED BY ONLY Linked(tab, rt), <2>2, <2>3, <2>4, FdLinked
<1>4. ASSUME NEW path \in Paths, NEW e \in {"r", "w"}, NEW nb \in BOOLEAN, OpenFifo(path, e, nb)
      PROVE  Linked(tab', rt)
  <2> DEFINE T == FifoEnsured(tab, path)
             p == Least(FifosAt(T, path))
             d == PipeFd(p, e, nb)
             f == FirstFd(T)
             Q == Referenced(T, d)
             Z == [Q EXCEPT !.fd[f] = d]
  <2>1. CanEnsureFifo(tab, path) /\ tab' = IF FreeFds(T) = {} THEN T ELSE Z
    BY <1>4 DEF OpenFifo
  <2>2. TablesOK(T) /\ Linked(T, rt) /\ p \in Pipes /\ T.pipe[p].fifo = path /\ path # NoPath
    BY <1>1, <2>1, FifoEnsuredKept, FifoLinked, UserFdAssumption
  <2> HIDE DEF T, p
  <2>3. FdOK(d) /\ d.kind = "pipe" /\ d.obj = p
    BY <2>2, NewFds
  <2>4. p \notin LinkPipes(T, rt)
    BY <2>2, LinkedFact DEF Linked
  <2>5. ASSUME FreeFds(T) # {} PROVE Linked(Z, rt)
    <3>1. f \in Fds /\ T.fd[f].kind = "none" /\ f \notin Links(rt)
      BY <2>2, <2>5, FreeFdTaken, LinkedFact DEF Linked, IsOpen
    <3> HIDE DEF d, f
    <3>2. /\ Q.fd = T.fd /\ DOMAIN Q = TableNames /\ Q.reg = T.reg /\ Q.caps = T.caps
          /\ \A o \in Pipes : Q.pipe[o].fifo = T.pipe[o].fifo
      BY <2>2, <2>3, ReferencedFact
    <3> HIDE DEF Q
    <3>3. Z.fd = [T.fd EXCEPT ![f] = d] /\ Z.reg = T.reg /\ Z.caps = T.caps /\ Z.pipe = Q.pipe
      BY <3>2 DEF TableNames
    <3> HIDE DEF Z
    <3>4. \A o \in LinkPipes(T, rt) : Z.pipe[o].fifo = NoPath
      BY <2>2, <3>2, <3>3, LinkedFact DEF Linked
    <3> QED BY <2>2, <2>3, <2>4, <3>1, <3>3, <3>4, FdLinked
  <2> HIDE DEF Z
  <2> QED BY <2>1, <2>2, <2>5
<1>5. ASSUME NEW path \in Paths, Mkfifo(path) PROVE Linked(tab', rt)
  BY <1>1, <1>5, FifoLinked DEF Mkfifo
<1>6. ASSUME NEW path \in Paths, Unlink(path) PROVE Linked(tab', rt)
  BY <1>6 DEF Unlink
<1>7. ASSUME NEW f \in Fds, Close(f) PROVE Linked(tab', rt)
  BY <1>1, <1>7, MayUseFact, ReleaseLinked DEF Close, Linked
<1>8. ASSUME NEW f \in Fds, MintFd(f) PROVE Linked(tab', rt)
  <2> DEFINE n == IF tab.reg[f] = 0 THEN 1 ELSE tab.reg[f]
             k == [fd |-> f, epoch |-> n, live |-> TRUE]
  <2>1. /\ tab' = [tab EXCEPT !.reg[f] = n, !.caps = @ \cup {k}]
        /\ IsOpen(tab, f) /\ f \notin Links(rt)
    BY <1>8, MayUseFact DEF MintFd
  <2>2. CapsOK(tab.reg, tab.caps)
    BY <1>1 DEF TablesOK
  <2>3. \A c \in tab.caps : c.fd = f => tab.reg[f] # 0
    BY <2>2 DEF CapsOK, Caps
  <2> HIDE DEF k
  <2>4. /\ tab'.fd = tab.fd /\ tab'.pipe = tab.pipe /\ tab'.reg = [tab.reg EXCEPT ![f] = n]
        /\ tab'.caps = tab.caps \cup {k}
    BY <1>1, <2>1 DEF TableNames
  <2>5. \A c \in tab.caps : tab'.reg[c.fd] = tab.reg[c.fd]
    BY <2>2, <2>3, <2>4 DEF CapsOK, Caps
  <2>6. EndsOK(tab', rt)
    BY <2>4 DEF Linked, EndsOK, Holding
  <2>7. CapsClear(tab', rt)
    BY <2>1, <2>4, <2>5 DEF Linked, CapsClear, IsOpen, k
  <2> QED BY <2>6, <2>7 DEF Linked
<1>9. ASSUME NEW req \in FdNumbers, Dup(req) PROVE Linked(tab', rt)
  <2> DEFINE old == Source(req)
             new == FirstFd(tab)
  <2>1. /\ old \in Fds /\ IsOpen(tab, old) /\ old \notin Links(rt)
        /\ new \in Fds /\ tab.fd[new].kind = "none" /\ tab' = Duplicate(tab, old, new)
    BY <1>9, FreeFdTaken, MayUseFact DEF Dup, IsOpen
  <2>2. new # old
    BY <2>1 DEF IsOpen
  <2> HIDE DEF old, new
  <2> QED BY <1>1, <1>2, <2>1, <2>2, DuplicateLinked
<1>10. ASSUME NEW req \in FdNumbers, NEW new \in FdNumbers, Dup2(req, new) PROVE Linked(tab', rt)
  <2> DEFINE old == Source(req)
  <2>1. /\ old \in Fds /\ IsOpen(tab, old) /\ old \notin Links(rt) /\ new \notin Links(rt)
    BY <1>10, MayUseFact DEF Dup2, IsOpen
  <2>2. tab' = tab \/ (new \in Fds /\ new # old /\ tab' = Duplicate(tab, old, new))
    BY <1>10, FdsFact DEF Dup2
  <2> HIDE DEF old
  <2> QED BY <1>1, <2>1, <2>2, DuplicateLinked
<1>11. ASSUME NEW b \in BOOLEAN, PipeCall(b) PROVE Linked(tab', rt)
  <2> DEFINE Z == NewPipe(tab)
  <2>1. /\ CanCreatePipe(tab)
        /\ tab' = IF b THEN Z ELSE Release(Release(Z, FirstFd(tab)), SecondFd(tab))
    BY <1>11 DEF PipeCall
  <2>2. TablesOK(Z) /\ Linked(Z, rt) /\ FirstFd(tab) \notin Links(rt) /\ SecondFd(tab) \notin Links(rt)
    BY <1>1, <2>1, NewPipeKept, NewLinked
  <2> HIDE DEF Z
  <2>3. TablesOK(Release(Z, FirstFd(tab))) /\ Linked(Release(Z, FirstFd(tab)), rt)
    BY <2>2, ReleaseKept, ReleaseLinked DEF Linked
  <2>4. Linked(Release(Release(Z, FirstFd(tab)), SecondFd(tab)), rt)
    BY <2>2, <2>3, ReleaseLinked DEF Linked
  <2> QED BY <2>1, <2>2, <2>4
<1>12. ASSUME NEW b \in BOOLEAN, PtyOpen(b) PROVE Linked(tab', rt)
  <2> DEFINE Z == NewPty(tab)
  <2>1. /\ CanCreatePty(tab)
        /\ tab' = IF b THEN Z ELSE Release(Release(Z, FirstFd(tab)), SecondFd(tab))
    BY <1>12 DEF PtyOpen
  <2>2. TablesOK(Z) /\ Linked(Z, rt) /\ FirstFd(tab) \notin Links(rt) /\ SecondFd(tab) \notin Links(rt)
    BY <1>1, <2>1, NewPtyKept, NewLinked
  <2> HIDE DEF Z
  <2>3. TablesOK(Release(Z, FirstFd(tab))) /\ Linked(Release(Z, FirstFd(tab)), rt)
    BY <2>2, ReleaseKept, ReleaseLinked DEF Linked
  <2>4. Linked(Release(Release(Z, FirstFd(tab)), SecondFd(tab)), rt)
    BY <2>2, <2>3, ReleaseLinked DEF Linked
  <2> QED BY <2>1, <2>2, <2>4
<1>13. ASSUME NEW b, SetInherit(b) PROVE Linked(tab', rt)
  BY <1>13 DEF SetInherit
<1>14. ASSUME NEW in, NEW out, SetStdio(in, out) PROVE Linked(tab', rt)
  BY <1>14 DEF SetStdio
<1>15. ASSUME NEW f \in Fds, NEW b \in BOOLEAN, SetNonblock(f, b) PROVE Linked(tab', rt)
  <2> DEFINE d == [tab.fd[f] EXCEPT !.nonblock = b]
  <2>1. IsOpen(tab, f) /\ f \notin Links(rt) /\ tab' = [tab EXCEPT !.fd[f].nonblock = b]
    BY <1>15, MayUseFact DEF SetNonblock
  <2>2. /\ tab'.fd = [tab.fd EXCEPT ![f] = d] /\ tab'.reg = tab.reg /\ tab'.caps = tab.caps
        /\ tab'.pipe = tab.pipe
    BY <1>1, <2>1 DEF TableNames
  <2>3. d.kind = tab.fd[f].kind /\ d.end = tab.fd[f].end /\ d.obj = tab.fd[f].obj
    BY <1>1 DEF TablesOK, FdsOK, FdOK, FdRecords
  <2>4. d.kind # "none" /\ (d.kind = "pipe" /\ d.end = "w" => d.obj \notin LinkPipes(tab, rt))
    BY <2>1, <2>3, ForeignEnd DEF Linked, Holding, IsOpen
  <2>5. \A p \in LinkPipes(tab, rt) : tab'.pipe[p].fifo = NoPath
    BY <1>1, <2>2, LinkedFact DEF Linked
  <2> HIDE DEF d
  <2>6. TablesOK(tab) /\ f \notin Links(rt) /\ d.kind # "none"
    BY <1>1, <2>1, <2>4
  <2>7. d.kind = "pipe" /\ d.end = "w" => d.obj \notin LinkPipes(tab, rt)
    BY <2>4
  <2> QED BY ONLY Linked(tab, rt), f \in Fds, <2>2, <2>5, <2>6, <2>7, FdLinked
<1> QED BY <1>3, <1>4, <1>5, <1>6, <1>7, <1>8, <1>9, <1>10, <1>11, <1>12, <1>13, <1>14, <1>15
        DEF DescriptorCall

\* What a read or a write does to the tables.
LEMMA DataChanges ==
    ASSUME TablesOK(tab), NEW f \in Fds,
           \/ \E n \in Nat : ReadFrom(tab.fd[f], n)
           \/ \E s \in Seq(Bytes) : WriteTo(tab.fd[f], s)
    PROVE  /\ tab'.fd = tab.fd /\ tab'.reg = tab.reg /\ tab'.caps = tab.caps
           /\ \A p \in Pipes : tab.pipe[p].used => tab'.pipe[p].fifo = tab.pipe[p].fifo
<1> DEFINE o == tab.fd[f].obj
<1>1. /\ DOMAIN tab = TableNames /\ DOMAIN tab.pipe = Pipes
      /\ tab.fd[f].kind = "pipe" => o \in Pipes
      /\ \A p \in Pipes : PipeOK(tab.pipe[p])
  BY DEF TablesOK, PipesOK, FdsOK, FdOK
<1> DEFINE Piped == \E y : tab' = [tab EXCEPT !.pipe[o] = y] /\ o \in Pipes
                                 /\ y.fifo = tab.pipe[o].fifo
           Other == tab' = tab \/ \E y : tab' = [tab EXCEPT !.pty[o] = y]
<1>2. Piped \/ Other
  <2> DEFINE q == tab.pipe[o]
  <2>1. ASSUME NEW n \in Nat, ReadFrom(tab.fd[f], n) PROVE Piped \/ Other
    <3>1. CASE tab.fd[f].kind = "pipe"
      <4> DEFINE y == Taken(q, n)
      <4>1. tab' = tab \/ tab' = [tab EXCEPT !.pipe[o] = y]
        BY <2>1, <3>1 DEF ReadFrom
      <4>2. PipeOK(q) /\ o \in Pipes
        BY ONLY <1>1, <3>1
      <4> HIDE DEF q, o
      <4>3. y.fifo = q.fifo
        BY <2>1, <4>2, TakenFact DEF Refilled
      <4> HIDE DEF y
      <4> QED BY <4>1, <4>2, <4>3 DEF q
    <3>2. CASE tab.fd[f].kind # "pipe"
      BY <2>1, <3>2 DEF ReadFrom
    <3> QED BY <3>1, <3>2
  <2>2. ASSUME NEW s \in Seq(Bytes), WriteTo(tab.fd[f], s) PROVE Piped \/ Other
    <3>1. CASE tab.fd[f].kind = "pipe"
      <4> DEFINE y == Accepted(q, s).pipe
      <4>1. tab' = [tab EXCEPT !.pipe[o] = y]
        BY <2>2, <3>1 DEF WriteTo
      <4>2. PipeOK(q) /\ o \in Pipes
        BY ONLY <1>1, <3>1
      <4> HIDE DEF q, o
      <4>3. y.fifo = q.fifo
        BY <2>2, <4>2, AcceptedFact DEF Refilled
      <4> HIDE DEF y
      <4> QED BY <4>1, <4>2, <4>3 DEF q
    <3>2. CASE tab.fd[f].kind # "pipe"
      BY <2>2, <3>2 DEF WriteTo
    <3> QED BY <3>1, <3>2
  <2> HIDE DEF Piped, Other
  <2> QED BY <2>1, <2>2
<1> HIDE DEF o
<1>3. ASSUME NEW y, tab' = [tab EXCEPT !.pipe[o] = y], o \in Pipes, y.fifo = tab.pipe[o].fifo
      PROVE  /\ tab'.fd = tab.fd /\ tab'.reg = tab.reg /\ tab'.caps = tab.caps
             /\ \A p \in Pipes : tab'.pipe[p].fifo = tab.pipe[p].fifo
  BY <1>1, <1>3 DEF TableNames
<1>4. ASSUME NEW y, tab' = [tab EXCEPT !.pty[o] = y]
      PROVE  /\ tab'.fd = tab.fd /\ tab'.reg = tab.reg /\ tab'.caps = tab.caps
             /\ tab'.pipe = tab.pipe
  BY <1>1, <1>4 DEF TableNames
<1> QED BY <1>2, <1>3, <1>4

\* The system calls that read and write keep the links.
LEMMA DataCallsLinked ==
    ASSUME IInv, Linked(tab, rt), ~LinksExposed, DataCall
    PROVE  Linked(tab', rt)
<1>1. TablesOK(tab) /\ Strings \subseteq Seq(Bytes) /\ ReadLens \subseteq Nat
  BY UserFdAssumption DEF IInv
<1>2. ASSUME NEW f \in Fds,
             \/ \E n \in Nat : ReadFrom(tab.fd[f], n)
             \/ \E s \in Seq(Bytes) : WriteTo(tab.fd[f], s)
      PROVE  Linked(tab', rt)
  <2>1. /\ tab'.fd = tab.fd /\ tab'.reg = tab.reg /\ tab'.caps = tab.caps
        /\ \A p \in Pipes : tab.pipe[p].used => tab'.pipe[p].fifo = tab.pipe[p].fifo
    BY <1>1, <1>2, DataChanges
  <2> QED BY ONLY Linked(tab, rt), <1>1, <2>1, DataLinked
<1>3. ASSUME NEW f \in FdNumbers, NEW n \in ReadLens, Read(f, n) PROVE Linked(tab', rt)
  <2>1. ReadTarget(f) \in Fds /\ ReadFrom(tab.fd[ReadTarget(f)], n) /\ n \in Nat
    BY <1>1, <1>3 DEF Read, IsOpen
  <2> QED BY <1>2, <2>1
<1>4. ASSUME NEW f \in FdNumbers, NEW s \in Strings, Write(f, s) PROVE Linked(tab', rt)
  <2>1. WriteTarget(f) \in Fds /\ WriteTo(tab.fd[WriteTarget(f)], s) /\ s \in Seq(Bytes)
    BY <1>1, <1>4 DEF Write, IsOpen
  <2> QED BY <1>2, <2>1
<1>5. ASSUME NEW c \in tab.caps, CapClose(c) PROVE Linked(tab', rt)
  <2>1. c.fd \notin Links(rt) /\ tab' = Release(tab, c.fd)
    BY <1>5 DEF CapClose, Accepts, Linked, CapsClear
  <2> QED BY <1>1, <2>1, ReleaseLinked DEF Linked
<1>6. ASSUME NEW c \in tab.caps, NEW n \in ReadLens, CapRead(c, n) PROVE Linked(tab', rt)
  <2>1. c.fd \in Fds /\ ReadFrom(tab.fd[c.fd], n) /\ n \in Nat
    BY <1>1, <1>6 DEF CapRead, Accepts, IsOpen
  <2> QED BY <1>2, <2>1
<1>7. ASSUME NEW c \in tab.caps, NEW s \in Strings, CapWrite(c, s) PROVE Linked(tab', rt)
  <2>1. c.fd \in Fds /\ WriteTo(tab.fd[c.fd], s) /\ s \in Seq(Bytes)
    BY <1>1, <1>7 DEF CapWrite, Accepts, IsOpen
  <2> QED BY <1>2, <2>1
<1> QED BY <1>3, <1>4, <1>5, <1>6, <1>7 DEF DataCall

\* Once the runtime has closed what it deferred, nobody holds a write end of the
\* link that the next stage reads.
LEMMA DeferredLinked ==
    ASSUME NEW T, TablesOK(T), Linked(T, rt), NEW D, D = Deferred(T)
    PROVE  /\ TablesOK(D)
           /\ rt.input # NoFd =>
                /\ rt.input \in Fds /\ Holding(D, rt.input, "r")
                /\ D.pipe[D.fd[rt.input].obj].fifo = NoPath
                /\ D.fd[rt.input].obj \in Pipes /\ D.pipe[D.fd[rt.input].obj].used
                /\ \A f \in Fds : Holding(D, f, "w") => D.fd[f].obj # D.fd[rt.input].obj
           /\ \A c \in D.caps : c.epoch = D.reg[c.fd] => IsOpen(D, c.fd) /\ c.fd # rt.input
<1> DEFINE R == Release(T, rt.close_out)
           r == [input |-> rt.input, close_in |-> NoFd, close_out |-> NoFd]
<1>1. TablesOK(R)
  BY ReleaseKept
<1>0. /\ TablesOK(D) /\ D = Release(R, rt.close_in)
      /\ \A g \in Fds : g # rt.close_out => R.fd[g] = T.fd[g]
      /\ \A g \in Fds : g # rt.close_in => D.fd[g] = R.fd[g]
      /\ rt.close_out \in Fds => R.fd[rt.close_out].kind = "none"
      /\ rt.close_in \in Fds => D.fd[rt.close_in].kind = "none"
  <2>1. D = Release(R, rt.close_in)
    BY DEF Deferred
  <2>2. /\ \A g \in Fds : g # rt.close_out => R.fd[g] = T.fd[g]
        /\ rt.close_out \in Fds => R.fd[rt.close_out].kind = "none"
    BY ReleaseKept
  <2> HIDE DEF R
  <2> QED BY <1>1, <2>1, <2>2, ReleaseKept
<1>2. NoFd \notin Fds /\ r.input = rt.input /\ r.close_in = NoFd /\ r.close_out = NoFd
  BY FdsFact DEF NoFd
<1>3. /\ CapsClear(D, rt)
      /\ \A p \in Pipes : T.pipe[p].fifo = NoPath => D.pipe[p].fifo = NoPath
  <2> HIDE DEF R
  <2>1. CapsClear(R, rt) /\ \A p \in Pipes : T.pipe[p].fifo = NoPath => R.pipe[p].fifo = NoPath
    BY ReleaseLinked DEF R, Linked
  <2> QED BY <1>0, <1>1, <2>1, ReleaseLinked
<1>4. ASSUME rt.input # NoFd
      PROVE  /\ rt.input \in Fds /\ Holding(D, rt.input, "r")
             /\ D.pipe[D.fd[rt.input].obj].fifo = NoPath /\ EndsOK(D, r)
             /\ \A f \in Fds : Holding(D, f, "w") => D.fd[f].obj # D.fd[rt.input].obj
  <2>1. /\ rt.input \in Fds /\ Holding(T, rt.input, "r") /\ rt.input # rt.close_in
        /\ rt.input # rt.close_out /\ rt.input \in Links(rt) /\ T.fd[rt.input].obj \in Pipes
        /\ T.pipe[T.fd[rt.input].obj].fifo = NoPath
    BY <1>4, LinkedFact DEF Linked, EndsOK, Links, ReadLinks, LinkPipes, Holding
  <2>2. D.fd[rt.input] = T.fd[rt.input]
    BY <1>0, <1>1, <2>1
  <2>3. ASSUME NEW f \in Fds, Holding(D, f, "w") PROVE D.fd[f].obj # D.fd[rt.input].obj
    <3>1. f # rt.close_in /\ D.fd[f] = R.fd[f]
      BY <1>0, <1>1, <2>3 DEF Holding
    <3>2. f # rt.close_out /\ D.fd[f] = T.fd[f]
      BY <1>0, <1>1, <2>3, <3>1 DEF Holding
    <3> QED BY <1>4, <2>2, <2>3, <3>2 DEF Linked, EndsOK, Holding
  <2>4. EndsOK(D, r)
    <3>1. Links(r) = {rt.input} /\ ReadLinks(r) = {rt.input}
      BY <1>2, <1>4 DEF Links, ReadLinks
    <3> HIDE DEF r
    <3> QED BY <1>2, <1>3, <1>4, <2>1, <2>2, <2>3, <3>1 DEF EndsOK, Holding
  <2> QED BY <1>3, <2>1, <2>2, <2>3, <2>4 DEF Holding
<1>5. ASSUME rt.input # NoFd
      PROVE  D.fd[rt.input].obj \in Pipes /\ D.pipe[D.fd[rt.input].obj].used
  <2>1. D.fd[rt.input].obj \in LinkPipes(D, r)
    BY <1>2, <1>5 DEF LinkPipes, ReadLinks
  <2>2. EndsOK(D, r)
    BY <1>4, <1>5
  <2> HIDE DEF r, R
  <2> QED BY <1>0, <1>1, <2>1, <2>2, LinkedFact
<1>6. \A c \in D.caps : c.epoch = D.reg[c.fd] => IsOpen(D, c.fd) /\ c.fd # rt.input
  BY <1>2, <1>3 DEF CapsClear, Links, ReadLinks, IsOpen
<1> QED BY <1>0, <1>1, <1>4, <1>5, <1>6

\* The next stage gets the link that its predecessor wrote, and the write end of
\* a new one.
LEMMA StageLinked ==
    ASSUME IInv, Linked(tab, rt), NEW t, NextStage(t)
    PROVE  Linked(tab', rt') /\ stdio'[0] = rt'.close_in /\ rt'.active
<1> DEFINE D == Deferred(tab)
           in == rt.input
           a == FirstFd(D)
           b == SecondFd(D)
           p == Least(FreePipes(D))
<1>1. /\ TablesOK(tab) /\ rt.active
      /\ DOMAIN rt = {"active", "left", "input", "close_in", "close_out", "task"}
  BY DEF IInv, OthersOK, NextStage, Resuming
<1>2. /\ TablesOK(D)
      /\ in # NoFd => /\ in \in Fds /\ Holding(D, in, "r") /\ D.pipe[D.fd[in].obj].fifo = NoPath
                      /\ D.fd[in].obj \in Pipes /\ D.pipe[D.fd[in].obj].used
                      /\ \A f \in Fds : Holding(D, f, "w") => D.fd[f].obj # D.fd[in].obj
      /\ \A c \in D.caps : c.epoch = D.reg[c.fd] => IsOpen(D, c.fd) /\ c.fd # in
  BY <1>1, DeferredLinked
<1>3. 0 \in Streams /\ NoFd \notin Fds
  BY FdsFact DEF Streams, NoFd
<1>4. ASSUME rt.left > 1
      PROVE  Linked(tab', rt') /\ stdio'[0] = rt'.close_in /\ rt'.active
  <2>1. PICK ok \in SpoolOutcomes : LinkFrom(D, in, t, ok)
    BY <1>4 DEF NextStage
  <2> HIDE DEF D
  <2>2. /\ p \in Pipes /\ ~D.pipe[p].used /\ a \in Fds /\ b \in Fds /\ a # b
        /\ D.fd[a].kind = "none" /\ D.fd[b].kind = "none"
    BY <2>1, FreeObjectTaken, FreeFdTaken DEF LinkFrom, CanCreatePipe
  <2>3. /\ stdio'[0] = in /\ rt'.active
        /\ rt'.close_in = in /\ rt'.close_out = b /\ rt'.input = a
    BY <1>1, <1>3, <2>1 DEF LinkFrom
  <2>4. /\ tab'.fd = [D.fd EXCEPT ![a] = PipeFd(p, "r", FALSE), ![b] = PipeFd(p, "w", FALSE)]
        /\ tab'.reg = D.reg /\ tab'.caps = D.caps
        /\ tab'.pipe[p].fifo = NoPath
        /\ \A o \in Pipes : o # p => tab'.pipe[o] = D.pipe[o]
    <3> DEFINE q == [FreePipe EXCEPT !.used = TRUE, !.refs = [r |-> 1, w |-> 1]]
               d == PipeFd(p, "r", FALSE)
               h == PipeFd(p, "w", FALSE)
               N == NewPipe(D)
    <3>1. tab' = [N EXCEPT !.pipe[p].spooling = ok]
      BY <2>1 DEF LinkFrom, Spooled
    <3>2. N = [D EXCEPT !.pipe[p] = q, !.fd[a] = d, !.fd[b] = h]
      BY DEF NewPipe, PipeCreated
    <3>3. q.fifo = NoPath
      BY DEF FreePipe
    <3>4. DOMAIN D = TableNames /\ DOMAIN D.pipe = Pipes
      BY <1>2 DEF TablesOK, PipesOK
    <3> HIDE DEF q, d, h, N, a, b, p
    <3>5. /\ N.fd = [D.fd EXCEPT ![a] = d, ![b] = h] /\ N.reg = D.reg /\ N.caps = D.caps
          /\ N.pipe = [D.pipe EXCEPT ![p] = q] /\ DOMAIN N = TableNames
      BY <3>2, <3>4 DEF TableNames
    <3>6. /\ tab'.fd = N.fd /\ tab'.reg = N.reg /\ tab'.caps = N.caps
          /\ tab'.pipe = [N.pipe EXCEPT ![p] = [q EXCEPT !.spooling = ok]]
      BY <2>2, <3>1, <3>4, <3>5 DEF TableNames
    <3> QED BY <2>2, <3>3, <3>4, <3>5, <3>6 DEF d, h
  <2>5. \A f \in Fds : Holding(D, f, "w") => D.fd[f].obj # p
    <3> DEFINE F == D.fd
               P == D.pipe
    <3>1. PipesOK(F, P) /\ ~P[p].used
      BY <1>2, <2>2 DEF TablesOK
    <3> HIDE DEF F, P, p
    <3>2. Count(F, "pipe", p, "w") = 0
      BY <2>2, <3>1, FreeUnheld
    <3>3. HoldersOf(F, "pipe", p, "w") = {}
      BY <3>2, HeldFact
    <3> QED BY <3>3 DEF F, HoldersOf, Holding
  <2>6. DOMAIN D.fd = Fds /\ PipeFd(p, "r", FALSE).kind = "pipe" /\ PipeFd(p, "r", FALSE).end = "r"
        /\ PipeFd(p, "w", FALSE).kind = "pipe" /\ PipeFd(p, "w", FALSE).end = "w"
        /\ PipeFd(p, "w", FALSE).obj = p /\ PipeFd(p, "r", FALSE).obj = p
    BY <1>2 DEF TablesOK, FdsOK, PipeFd
  <2> HIDE DEF a, b, p, in
  <2>7. /\ tab'.fd[a].kind = "pipe" /\ tab'.fd[a].end = "r" /\ tab'.fd[a].obj = p
        /\ tab'.fd[b].kind = "pipe" /\ tab'.fd[b].end = "w" /\ tab'.fd[b].obj = p
        /\ \A g \in Fds : g # a /\ g # b => tab'.fd[g] = D.fd[g]
    BY <2>2, <2>4, <2>6
  <2>8. in # NoFd => /\ tab'.fd[in] = D.fd[in] /\ in # a /\ in # b /\ D.fd[in].obj # p
                     /\ tab'.pipe[D.fd[in].obj] = D.pipe[D.fd[in].obj]
    BY <1>2, <2>2, <2>4, <2>7 DEF Holding
  <2>9. EndsOK(tab', rt')
    <3>1. Links(rt') \subseteq Fds /\ ReadLinks(rt') = {a, in} \ {NoFd}
      BY <1>2, <2>2, <2>3 DEF Links, ReadLinks
    <3>2. \A f \in ReadLinks(rt') : Holding(tab', f, "r") /\ tab'.pipe[tab'.fd[f].obj].fifo = NoPath
      <4>1. Holding(tab', a, "r") /\ tab'.pipe[tab'.fd[a].obj].fifo = NoPath
        BY <2>4, <2>7 DEF Holding
      <4>2. in # NoFd => Holding(tab', in, "r") /\ tab'.pipe[tab'.fd[in].obj].fifo = NoPath
        BY <1>2, <2>8 DEF Holding
      <4> QED BY <3>1, <4>1, <4>2
    <3>3. Holding(tab', b, "w") /\ a # in
      BY <1>3, <2>2, <2>7, <2>8 DEF Holding
    <3>4. ASSUME NEW f \in Fds, Holding(tab', f, "w")
          PROVE  /\ in # NoFd => tab'.fd[f].obj # tab'.fd[in].obj
                 /\ tab'.fd[f].obj = tab'.fd[a].obj => f = b
      <4>1. CASE f = b
        BY <2>7, <2>8, <4>1
      <4>2. CASE f # b
        <5>1. tab'.fd[f] = D.fd[f] /\ Holding(D, f, "w")
          BY <2>7, <3>4, <4>2 DEF Holding
        <5> QED BY <1>2, <2>5, <2>7, <2>8, <5>1
      <4> QED BY <4>1, <4>2
    <3> QED BY <2>3, <3>1, <3>2, <3>3, <3>4 DEF EndsOK
  <2>10. CapsClear(tab', rt')
    <3>1. \A c \in tab'.caps : c.epoch = tab'.reg[c.fd] =>
             c.fd \in Fds /\ D.fd[c.fd].kind # "none" /\ c.fd # in
      BY <1>2, <2>4 DEF IsOpen
    <3>2. \A f \in Fds : D.fd[f].kind # "none" => f # a /\ f # b /\ tab'.fd[f].kind # "none"
      BY <2>2, <2>7
    <3> QED BY <2>3, <3>1, <3>2 DEF CapsClear, IsOpen, Links, ReadLinks
  <2> QED BY <2>3, <2>9, <2>10 DEF Linked
<1>5. ASSUME ~ (rt.left > 1)
      PROVE  Linked(tab', rt') /\ stdio'[0] = rt'.close_in /\ rt'.active
  <2>1. /\ tab' = D /\ stdio'[0] = in /\ rt'.active
        /\ rt'.close_in = in /\ rt'.close_out = NoFd /\ rt'.input = NoFd
    BY <1>1, <1>3, <1>5 DEF NextStage, LastFrom
  <2> HIDE DEF D, in
  <2>2. Links(rt') = {in} \ {NoFd} /\ ReadLinks(rt') = {in} \ {NoFd}
    BY <2>1 DEF Links, ReadLinks
  <2>3. EndsOK(tab', rt')
    BY <1>2, <2>1, <2>2 DEF EndsOK
  <2>4. CapsClear(tab', rt')
    BY <1>2, <2>1, <2>2 DEF CapsClear
  <2> QED BY <2>1, <2>3, <2>4 DEF Linked
<1> QED BY <1>4, <1>5

-----------------------------------------------------------------------------
(***************************************************************************)
(* The tasks.  Those that wait can be ranked: each waits for one of a lower *)
(* rank, so that someone is always ready or running.                       *)
(***************************************************************************)
InRing3(m) == m \in {"user", "readwait", "writewait"}

WaitsOK(K) ==
    \A u \in Tasks :
        /\ K[u].st = "waiting" => K[u].awaits \in Tasks /\ K[K[u].awaits].st # "none"
        /\ K[u].st # "waiting" => K[u].awaits = NoTask
Ranked(K) ==
    \E rank \in [Tasks -> Nat] :
        \A u \in Tasks : K[u].st = "waiting" => rank[K[u].awaits] < rank[u]
RunsOK(K, c, m) ==
    /\ \A u \in Tasks : K[u].st = "running" => u = c /\ InRing3(m)
    /\ InRing3(m) /\ c # NoTask => K[c].st = "running"
    /\ m = "shell" => \A u \in Tasks : K[u].st = "none"
TasksOrdered == WaitsOK(task) /\ Ranked(task) /\ RunsOK(task, cur, mode)

\* While a stage of a pipeline runs, it and the tasks it has spawned read the
\* link that the runtime will close after it.
Staged ==
    IF rt.active
    THEN /\ inherit
         /\ mode # "shell" =>
              /\ stdio[0] = rt.close_in
              /\ \A u \in Tasks : task[u].st # "none" =>
                   task[u].inherit /\ task[u].stdio[0] = rt.close_in
    ELSE rt = IdleRuntime

LinkInv == Linked(tab, rt) /\ TasksOrdered /\ Staged

\* If nobody is ready or running, there is no task.
LEMMA NobodyWaits ==
    ASSUME NEW K, WaitsOK(K), Ranked(K), \A u \in Tasks : K[u].st \in {"none", "waiting"}
    PROVE  \A u \in Tasks : K[u].st = "none"
<1> SUFFICES ASSUME NEW v \in Tasks, K[v].st = "waiting" PROVE FALSE
  OBVIOUS
<1>1. PICK rank \in [Tasks -> Nat] : \A u \in Tasks : K[u].st = "waiting" => rank[K[u].awaits] < rank[u]
  BY DEF Ranked
<1> DEFINE S == {rank[u] : u \in {w \in Tasks : K[w].st = "waiting"}}
<1>2. S \in SUBSET Nat /\ S # {}
  BY <1>1
<1>3. PICK x \in S : \A y \in S : x <= y
  <2> HIDE DEF S
  <2> QED BY <1>2, LeastExists
<1>4. PICK u \in Tasks : K[u].st = "waiting" /\ x = rank[u]
  OBVIOUS
<1>5. K[u].awaits \in Tasks /\ K[K[u].awaits].st = "waiting"
  BY <1>4 DEF WaitsOK
<1>6. rank[K[u].awaits] \in S /\ rank[K[u].awaits] < x /\ rank[K[u].awaits] \in Nat /\ x \in Nat
  BY <1>1, <1>4, <1>5
<1>7. x <= rank[K[u].awaits]
  BY <1>3, <1>6
<1> HIDE DEF S
<1> QED BY <1>6, <1>7

\* The records once c has ended: the order is kept, and nothing else of them.
LEMMA EndedOrdered ==
    ASSUME task \in [Tasks -> TaskRecords], WaitsOK(task), Ranked(task),
           NEW c \in Tasks \cup {NoTask}, NEW K, K = Ended(c)
    PROVE  /\ WaitsOK(K) /\ Ranked(K)
           /\ \A u \in Tasks :
                /\ K[u].st = "running" => task[u].st = "running" /\ u # c
                /\ K[u].st # "none" => /\ task[u].st # "none" /\ K[u].inherit = task[u].inherit
                                       /\ K[u].stdio = task[u].stdio
<1>1. NoTask \notin Tasks
  BY TasksAssumption DEF NoTask
<1>2. ASSUME NEW u \in Tasks
      PROVE  \/ u = c /\ K[u].st = "none" /\ K[u].awaits = NoTask
             \/ /\ u # c /\ task[u].awaits = c /\ c \in Tasks /\ K[u].st = "ready"
                /\ K[u].awaits = NoTask
                /\ K[u].inherit = task[u].inherit /\ K[u].stdio = task[u].stdio
             \/ u # c /\ (c \notin Tasks \/ task[u].awaits # c) /\ K[u] = task[u]
  <2>1. task[u] \in TaskRecords
    OBVIOUS
  <2> QED BY <2>1 DEF Ended, NoTaskRecord, TaskRecords
<1>3. WaitsOK(K)
  <2> SUFFICES ASSUME NEW u \in Tasks
               PROVE  /\ K[u].st = "waiting" => K[u].awaits \in Tasks /\ K[K[u].awaits].st # "none"
                      /\ K[u].st # "waiting" => K[u].awaits = NoTask
    BY DEF WaitsOK
  <2>1. CASE u # c /\ (c \notin Tasks \/ task[u].awaits # c) /\ K[u] = task[u]
    <3>1. ASSUME K[u].st = "waiting" PROVE K[u].awaits \in Tasks /\ K[K[u].awaits].st # "none"
      <4> DEFINE v == task[u].awaits
      <4>1. v \in Tasks /\ v # c /\ task[v].st # "none" /\ K[u].awaits = v
        BY <2>1, <3>1 DEF WaitsOK
      <4> HIDE DEF v
      <4> QED BY <1>2, <4>1
    <3> QED BY <2>1, <3>1 DEF WaitsOK
  <2> QED BY <1>2, <2>1
<1>4. Ranked(K)
  <2>1. PICK rank \in [Tasks -> Nat] :
          \A u \in Tasks : task[u].st = "waiting" => rank[task[u].awaits] < rank[u]
    BY DEF Ranked
  <2> QED BY <1>2, <2>1 DEF Ranked
<1>5. \A u \in Tasks : task[u].awaits = c /\ c \in Tasks => task[u].st = "waiting"
  BY <1>1 DEF WaitsOK
<1> QED BY <1>2, <1>3, <1>4, <1>5

\* A task whose record is replaced by that of one that does not wait.
LEMMA TaskReplaced ==
    ASSUME NEW K, DOMAIN K = Tasks, WaitsOK(K), Ranked(K), NEW t \in Tasks, K[t].st # "waiting",
           NEW k, k.st # "waiting", k.st # "none", k.awaits = NoTask, NEW Z, Z = [K EXCEPT ![t] = k]
    PROVE  WaitsOK(Z) /\ Ranked(Z)
<1>1. Z[t] = k /\ \A u \in Tasks : u # t => Z[u] = K[u]
  OBVIOUS
<1>2. WaitsOK(Z)
  <2> SUFFICES ASSUME NEW u \in Tasks
               PROVE  /\ Z[u].st = "waiting" => Z[u].awaits \in Tasks /\ Z[Z[u].awaits].st # "none"
                      /\ Z[u].st # "waiting" => Z[u].awaits = NoTask
    BY DEF WaitsOK
  <2>1. CASE u = t
    BY <1>1, <2>1
  <2>2. CASE u # t
    <3>1. Z[u] = K[u]
      BY <1>1, <2>2
    <3>2. ASSUME K[u].st = "waiting" PROVE K[u].awaits \in Tasks /\ Z[K[u].awaits].st # "none"
      <4>1. K[u].awaits \in Tasks /\ K[K[u].awaits].st # "none"
        BY <3>2 DEF WaitsOK
      <4> QED BY <1>1, <4>1
    <3> QED BY <3>1, <3>2 DEF WaitsOK
  <2> QED BY <2>1, <2>2
<1>3. Ranked(Z)
  <2>1. PICK rank \in [Tasks -> Nat] :
          \A u \in Tasks : K[u].st = "waiting" => rank[K[u].awaits] < rank[u]
    BY DEF Ranked
  <2> QED BY <1>1, <2>1 DEF Ranked
<1> QED BY <1>2, <1>3

\* The running task c begins to wait for t, which is ready.
LEMMA WaitOrdered ==
    ASSUME NEW K, DOMAIN K = Tasks, WaitsOK(K), Ranked(K), NEW c \in Tasks, NEW t \in Tasks,
           K[c].st = "running", K[t].st = "ready",
           NEW k, k.st = "waiting", k.awaits = t, NEW Z, Z = [K EXCEPT ![c] = k]
    PROVE  WaitsOK(Z) /\ Ranked(Z)
<1>1. Z[c] = k /\ t # c /\ \A u \in Tasks : u # c => Z[u] = K[u]
  OBVIOUS
<1>2. WaitsOK(Z)
  <2> SUFFICES ASSUME NEW u \in Tasks
               PROVE  /\ Z[u].st = "waiting" => Z[u].awaits \in Tasks /\ Z[Z[u].awaits].st # "none"
                      /\ Z[u].st # "waiting" => Z[u].awaits = NoTask
    BY DEF WaitsOK
  <2>1. CASE u = c
    BY <1>1, <2>1
  <2>2. CASE u # c
    <3>1. Z[u] = K[u]
      BY <1>1, <2>2
    <3>2. ASSUME K[u].st = "waiting" PROVE K[u].awaits \in Tasks /\ Z[K[u].awaits].st # "none"
      <4>1. K[u].awaits \in Tasks /\ K[K[u].awaits].st # "none"
        BY <3>2 DEF WaitsOK
      <4> QED BY <1>1, <4>1
    <3> QED BY <3>1, <3>2 DEF WaitsOK
  <2> QED BY <2>1, <2>2
<1>3. Ranked(Z)
  <2>1. PICK rank \in [Tasks -> Nat] :
          \A u \in Tasks : K[u].st = "waiting" => rank[K[u].awaits] < rank[u]
    BY DEF Ranked
  <2> DEFINE new == [u \in Tasks |-> IF u = t THEN 0 ELSE IF u = c THEN 1 ELSE rank[u] + 2]
  <2>2. new \in [Tasks -> Nat] /\ new[t] = 0 /\ new[c] = 1
        /\ \A u \in Tasks : u # t /\ u # c => new[u] = rank[u] + 2
    <3>1. \A n \in Nat : n + 2 \in Nat
      OBVIOUS
    <3>2. \A u \in Tasks : (IF u = t THEN 0 ELSE IF u = c THEN 1 ELSE rank[u] + 2) \in Nat
      <4> SUFFICES ASSUME NEW u \in Tasks PROVE rank[u] + 2 \in Nat
        OBVIOUS
      <4>1. rank[u] \in Nat
        OBVIOUS
      <4> QED BY <3>1, <4>1
    <3> QED BY <1>1, <3>2
  <2> HIDE DEF new
  <2>3. ASSUME NEW u \in Tasks, Z[u].st = "waiting" PROVE new[Z[u].awaits] < new[u]
    <3>1. CASE u = c
      BY <1>1, <2>2, <3>1
    <3>2. CASE u # c
      <4> DEFINE v == K[u].awaits
      <4>1. Z[u] = K[u] /\ u # t /\ v \in Tasks /\ rank[v] < rank[u] /\ rank[v] \in Nat /\ rank[u] \in Nat
        BY <1>1, <2>1, <2>3, <3>2 DEF WaitsOK
      <4>2. new[u] = rank[u] + 2 /\ new[v] \in {0, 1, rank[v] + 2}
        BY <2>2, <3>2, <4>1
      <4> HIDE DEF v
      <4>3. new[v] < new[u]
        BY <4>1, <4>2
      <4> QED BY <4>1, <4>3 DEF v
    <3> QED BY <3>1, <3>2
  <2> QED BY <2>2, <2>3 DEF Ranked
<1> QED BY <1>2, <1>3

\* Launches and ends of tasks in a pipeline leave its links alone, and elsewhere
\* there are none.
LEMMA CleanupLinked ==
    ASSUME IInv, Linked(tab, rt), rt.active \/ rt = IdleRuntime
    PROVE  /\ TablesOK(CleanupMappings(tab)) /\ Linked(CleanupMappings(tab), rt)
           /\ ~rt.active => /\ Linked(ResetAll(tab), rt)
                            /\ Linked(ResetAll(CleanupMappings(tab)), rt)
           /\ rt.active => CleanupMappings(tab) = tab
<1>1. TablesOK(tab)
  BY DEF IInv
<1>2. CASE rt.active
  BY <1>1, <1>2 DEF CleanupMappings
<1>3. CASE ~rt.active
  <2>1. rt = IdleRuntime /\ CleanupMappings(tab) = ResetAll(tab)
    BY <1>3 DEF CleanupMappings
  <2>2. TablesOK(ResetAll(tab)) /\ Linked(ResetAll(tab), rt)
    BY <1>1, <2>1, ResetKept, ResetLinked DEF Linked
  <2>3. Linked(ResetAll(ResetAll(tab)), rt)
    BY <2>1, <2>2, ResetLinked DEF Linked
  <2> QED BY <1>3, <2>1, <2>2, <2>3
<1> QED BY <1>2, <1>3

\* System calls on descriptors and data.
LEMMA CallsKeepLinks ==
    ASSUME IInv, LinkInv, ~LinksExposed, DescriptorCall \/ DataCall
    PROVE  LinkInv'
<1>1. Linked(tab', rt)
  BY DescriptorsLinked, DataCallsLinked DEF LinkInv
<1>2. /\ mode = "user" /\ mode' \in {"user", "readwait", "writewait"}
      /\ UNCHANGED <<task, cur, rt>>
      /\ rt.active => UNCHANGED <<stdio, inherit>>
  BY DescriptorCallFact, DataCallFact
<1>3. TasksOrdered'
  BY <1>2 DEF LinkInv, TasksOrdered, RunsOK, InRing3
<1>4. Staged'
  BY <1>2 DEF LinkInv, Staged
<1> QED BY <1>1, <1>2, <1>3, <1>4 DEF LinkInv

\* Tasks that are created, that wait and that end.
LEMMA TasksKeepLinks ==
    ASSUME IInv, LinkInv, ~LinksExposed, TaskCall
    PROVE  LinkInv'
<1>1. /\ Linked(tab, rt) /\ WaitsOK(task) /\ Ranked(task) /\ RunsOK(task, cur, mode) /\ Staged
      /\ task \in [Tasks -> TaskRecords] /\ cur \in Tasks \cup {NoTask}
      /\ rt.active \/ rt = IdleRuntime
  BY DEF LinkInv, TasksOrdered, Staged, IInv, OthersOK
<1>2. ASSUME NEW t \in Tasks, NEW inh, NEW io, Spawned(t, inh, io), mode = "user",
             rt.active => inh = inherit /\ io = stdio
      PROVE  LinkInv'
  <2> DEFINE k == NewTask(inh, io)
  <2>1. /\ task[t].st = "none" /\ task' = [task EXCEPT ![t] = k]
        /\ UNCHANGED <<tab, stdio, inherit, cur, mode, rt>>
    BY <1>2 DEF Spawned, FreeTasks
  <2>2. k.st = "ready" /\ k.awaits = NoTask /\ k.inherit = inh /\ k.stdio = io
    BY DEF NewTask
  <2> HIDE DEF k
  <2>3. WaitsOK(task') /\ Ranked(task')
    <3>1. DOMAIN task = Tasks /\ WaitsOK(task) /\ Ranked(task)
      BY <1>1
    <3>2. task[t].st # "waiting" /\ k.st # "waiting" /\ k.st # "none" /\ k.awaits = NoTask
      BY <2>1, <2>2
    <3>3. task' = [task EXCEPT ![t] = k]
      BY <2>1, <2>2
    <3> QED BY ONLY t \in Tasks, <3>1, <3>2, <3>3, TaskReplaced
  <2>4. task'[t] = k /\ \A u \in Tasks : u # t => task'[u] = task[u]
    BY <1>1, <2>1
  <2>5. RunsOK(task', cur', mode')
    BY <1>1, <1>2, <2>1, <2>2, <2>4 DEF RunsOK
  <2>6. Staged'
    BY <1>1, <1>2, <2>1, <2>2, <2>4 DEF Staged
  <2> QED BY <1>1, <2>1, <2>3, <2>5, <2>6 DEF LinkInv, TasksOrdered
<1>3. ASSUME NEW t \in Tasks, Spawn(t) PROVE LinkInv'
  BY <1>2, <1>3 DEF Spawn, Call
<1>4. ASSUME NEW t \in Tasks, NEW inh, NEW in, NEW out, SpawnEx(t, inh, in, out) PROVE LinkInv'
  BY <1>2, <1>4 DEF SpawnEx, Call, MayRemap
<1>5. ASSUME NEW t \in Tasks, Wait(t) PROVE LinkInv'
  <2> DEFINE k == [task[cur] EXCEPT !.st = "waiting", !.awaits = t]
  <2>1. /\ cur \in Tasks /\ mode = "user" /\ mode' = "sched" /\ task[t].st = "ready"
        /\ UNCHANGED <<tab, stdio, inherit, cur, rt>>
        /\ task' = [task EXCEPT ![cur].st = "waiting", ![cur].awaits = t]
    BY <1>1, <1>5 DEF Wait, Call, Ready
  <2>2. task[cur].st = "running"
    BY <1>1, <1>5, <2>1 DEF Wait, RunsOK, InRing3
  <2>3. task' = [task EXCEPT ![cur] = k]
    BY <1>1, <2>1
  <2>4. /\ k.st = "waiting" /\ k.awaits = t /\ k.inherit = task[cur].inherit
        /\ k.stdio = task[cur].stdio
    BY <1>1, <2>1 DEF TaskRecords
  <2> HIDE DEF k
  <2>5. WaitsOK(task') /\ Ranked(task')
    <3>1. DOMAIN task = Tasks /\ WaitsOK(task) /\ Ranked(task) /\ cur \in Tasks
      BY <1>1, <2>1
    <3>2. task[cur].st = "running" /\ task[t].st = "ready" /\ k.st = "waiting" /\ k.awaits = t
      BY <2>1, <2>2, <2>4
    <3> QED BY ONLY t \in Tasks, <2>3, <3>1, <3>2, WaitOrdered
  <2>6. task'[cur] = k /\ \A u \in Tasks : u # cur => task'[u] = task[u]
    BY <1>1, <2>1, <2>3
  <2>7. RunsOK(task', cur', mode')
    BY <1>1, <2>1, <2>4, <2>6 DEF RunsOK, InRing3
  <2>8. Staged'
    BY <1>1, <2>1, <2>2, <2>4, <2>6 DEF Staged
  <2> QED BY <1>1, <2>1, <2>5, <2>7, <2>8 DEF LinkInv, TasksOrdered
<1>6. ASSUME mode = "user", task' = Ended(cur), mode' = "abort", UNCHANGED <<inherit, cur, rt>>,
             Linked(tab', rt), rt.active => stdio' = stdio
      PROVE  LinkInv'
  <2>1. /\ WaitsOK(task') /\ Ranked(task')
        /\ \A u \in Tasks :
             /\ task'[u].st = "running" => task[u].st = "running" /\ u # cur
             /\ task'[u].st # "none" => /\ task[u].st # "none" /\ task'[u].inherit = task[u].inherit
                                        /\ task'[u].stdio = task[u].stdio
    BY <1>1, <1>6, EndedOrdered
  <2>2. RunsOK(task', cur', mode')
    BY <1>1, <1>6, <2>1 DEF RunsOK, InRing3
  <2>3. Staged'
    BY <1>1, <1>6, <2>1 DEF Staged
  <2> QED BY <1>6, <2>1, <2>2, <2>3 DEF LinkInv, TasksOrdered
<1>7. CASE Exit
  <2>1. Linked(tab', rt) /\ (rt.active => stdio' = stdio)
    BY <1>1, <1>7, CleanupLinked DEF Exit, Staged
  <2> QED BY <1>6, <1>7, <2>1 DEF Exit
<1>8. CASE Fault
  BY <1>1, <1>6, <1>8 DEF Fault
<1> QED BY <1>3, <1>4, <1>5, <1>7, <1>8 DEF TaskCall

\* The end of a pipeline.
LEMMA FinishLinked ==
    ASSUME IInv, LinkInv, Finish, mode = "shell", UNCHANGED taskVars
    PROVE  LinkInv'
<1>1. TablesOK(Release(Deferred(tab), rt.input)) /\ CapsClear(Release(Deferred(tab), rt.input), rt)
  <2>1. TablesOK(tab) /\ CapsClear(tab, rt)
    BY DEF IInv, LinkInv, Linked
  <2> DEFINE R == Release(tab, rt.close_out)
             D == Release(R, rt.close_in)
  <2>2. TablesOK(R) /\ CapsClear(R, rt)
    BY <2>1, ReleaseKept, ReleaseLinked
  <2> HIDE DEF R
  <2>3. TablesOK(D) /\ CapsClear(D, rt)
    BY <2>2, ReleaseKept, ReleaseLinked
  <2> HIDE DEF D
  <2>4. TablesOK(Release(D, rt.input)) /\ CapsClear(Release(D, rt.input), rt)
    BY <2>3, ReleaseKept, ReleaseLinked
  <2> QED BY <2>4 DEF D, R, Deferred
<1>2. rt' = IdleRuntime /\ Linked(tab', rt')
  BY <1>1, ResetLinked DEF Finish
<1>3. TasksOrdered'
  BY DEF LinkInv, TasksOrdered, taskVars
<1> QED BY <1>2, <1>3 DEF LinkInv, Staged, IdleRuntime

\* Launches, pipelines and their ends, where every load succeeds.
LEMMA KernelKeepsLinks ==
    ASSUME IInv, LinkInv, LoadOutcomes = {"ok"}, Kernel
    PROVE  LinkInv'
<1>1. /\ Linked(tab, rt) /\ WaitsOK(task) /\ Ranked(task) /\ RunsOK(task, cur, mode) /\ Staged
      /\ task \in [Tasks -> TaskRecords] /\ cur \in Tasks \cup {NoTask}
      /\ rt.active \/ rt = IdleRuntime
      /\ NoTask \notin Tasks
  BY TasksAssumption DEF LinkInv, TasksOrdered, Staged, IInv, OthersOK, NoTask
<1>2. ASSUME NEW t \in Tasks, Launch(t) PROVE LinkInv'
  <2> DEFINE k == [task[t] EXCEPT !.st = "running"]
  <2>1. /\ mode = "sched" /\ task[t].st = "ready" /\ tab' = TablesAtLaunch(t)
        /\ inherit' = task[t].inherit /\ stdio' = StdioAtLaunch(t)
        /\ task' = [task EXCEPT ![t].st = "running"] /\ cur' = t /\ mode' = "user" /\ rt' = rt
    BY <1>2 DEF Launch, Ready
  <2>2. task' = [task EXCEPT ![t] = k]
    BY <1>1, <2>1
  <2>3. /\ k.st = "running" /\ k.awaits = task[t].awaits /\ k.inherit = task[t].inherit
        /\ k.stdio = task[t].stdio /\ task[t].awaits = NoTask
    BY <1>1, <2>1 DEF TaskRecords, WaitsOK
  <2> HIDE DEF k
  <2>4. WaitsOK(task') /\ Ranked(task')
    <3>1. DOMAIN task = Tasks /\ WaitsOK(task) /\ Ranked(task)
      BY <1>1
    <3>2. task[t].st # "waiting" /\ k.st # "waiting" /\ k.st # "none" /\ k.awaits = NoTask
      BY <2>1, <2>2, <2>3
    <3>3. task' = [task EXCEPT ![t] = k]
      BY <2>1, <2>2, <2>3
    <3> QED BY ONLY t \in Tasks, <3>1, <3>2, <3>3, TaskReplaced
  <2>5. task'[t] = k /\ \A u \in Tasks : u # t => task'[u] = task[u]
    BY <1>1, <2>2
  <2>6. RunsOK(task', cur', mode')
    BY <1>1, <2>1, <2>3, <2>5 DEF RunsOK, InRing3
  <2>7. Staged' /\ (rt.active => task[t].inherit)
    BY <1>1, <2>1, <2>3, <2>5 DEF Staged, StdioAtLaunch
  <2>8. Linked(tab', rt')
    BY <1>1, <2>1, <2>7, CleanupLinked DEF TablesAtLaunch
  <2> QED BY <2>4, <2>6, <2>7, <2>8 DEF LinkInv, TasksOrdered
<1>3. ASSUME NEW t \in Tasks, LaunchFails(t) PROVE LinkInv'
  BY <1>3 DEF LaunchFails
<1>4. ASSUME NEW t \in Tasks, ResumeTask(t) PROVE LinkInv'
  <2> DEFINE k == NewTask(inherit, stdio')
  <2>1. /\ task[t].st = "none" /\ task' = [task EXCEPT ![t] = k] /\ NextStage(t)
        /\ UNCHANGED <<inherit, cur>> /\ mode = "shell" /\ mode' = "sched"
    BY <1>4 DEF ResumeTask, FreeTasks, NextStage, Resuming
  <2>2. k.st = "ready" /\ k.awaits = NoTask /\ k.inherit = inherit /\ k.stdio = stdio'
    BY DEF NewTask
  <2>3. Linked(tab', rt') /\ stdio'[0] = rt'.close_in /\ rt'.active /\ inherit
    BY <1>1, <2>1, StageLinked DEF Staged, NextStage, Resuming
  <2> HIDE DEF k
  <2>4. WaitsOK(task') /\ Ranked(task')
    <3>1. DOMAIN task = Tasks /\ WaitsOK(task) /\ Ranked(task)
      BY <1>1
    <3>2. task[t].st # "waiting" /\ k.st # "waiting" /\ k.st # "none" /\ k.awaits = NoTask
      BY <2>1, <2>2
    <3>3. task' = [task EXCEPT ![t] = k]
      BY <2>1, <2>2
    <3> QED BY ONLY t \in Tasks, <3>1, <3>2, <3>3, TaskReplaced
  <2>5. task'[t] = k /\ \A u \in Tasks : u # t => task'[u] = task[u] /\ task[u].st = "none"
    BY <1>1, <2>1 DEF RunsOK
  <2>6. RunsOK(task', cur', mode')
    BY <1>1, <2>1, <2>2, <2>5 DEF RunsOK, InRing3
  <2>7. Staged'
    BY <2>1, <2>2, <2>3, <2>5 DEF Staged
  <2> QED BY <2>3, <2>4, <2>6, <2>7 DEF LinkInv, TasksOrdered
<1>5. CASE NothingReady
  <2>1. /\ mode = "sched" /\ mode' = "shell" /\ Ready = {}
        /\ UNCHANGED <<tab, stdio, inherit, task, cur, rt>>
    BY <1>5 DEF NothingReady
  <2>2. \A u \in Tasks : task[u].st \in {"none", "waiting"}
    <3>1. \A u \in Tasks : task[u].st \in TaskStates
      BY <1>1 DEF TaskRecords
    <3> QED BY <1>1, <2>1, <3>1 DEF TaskStates, Ready, RunsOK, InRing3
  <2>3. \A u \in Tasks : task[u].st = "none"
    BY <1>1, <2>2, NobodyWaits
  <2>4. RunsOK(task', cur', mode')
    BY <2>1, <2>3 DEF RunsOK, InRing3
  <2>5. Staged'
    BY <1>1, <2>1 DEF Staged
  <2> QED BY <1>1, <2>1, <2>4, <2>5 DEF LinkInv, TasksOrdered
<1>6. CASE AbortContinue
  <2>1. /\ mode = "abort" /\ mode' = "sched" /\ tab' = CleanupMappings(tab)
        /\ UNCHANGED <<stdio, inherit, task, rt>>
    BY <1>6 DEF AbortContinue
  <2>2. RunsOK(task', cur', mode')
    BY <1>1, <2>1 DEF RunsOK, InRing3
  <2>3. Staged'
    BY <1>1, <2>1 DEF Staged
  <2> QED BY <1>1, <2>1, <2>2, <2>3, CleanupLinked DEF LinkInv, TasksOrdered
<1>7. CASE ResumeBuiltin
  <2>1. NextStage(NoTask) /\ UNCHANGED <<inherit, task, cur, mode>> /\ mode = "shell"
    BY <1>7 DEF ResumeBuiltin, taskVars, NextStage, Resuming
  <2>2. Linked(tab', rt') /\ rt'.active /\ inherit
    BY <1>1, <2>1, StageLinked DEF Staged, NextStage, Resuming
  <2> QED BY <1>1, <2>1, <2>2 DEF LinkInv, TasksOrdered, Staged
<1>8. CASE ResumeFails
  BY <1>8, FinishLinked DEF ResumeFails, Resuming
<1>9. CASE PipelineFinish
  BY <1>9, FinishLinked DEF PipelineFinish
<1> QED BY <1>2, <1>3, <1>4, <1>5, <1>6, <1>7, <1>8, <1>9 DEF Kernel

\* Commands of the user, and Ctrl-C.
LEMMA UserKeepsLinks ==
    ASSUME IInv, LinkInv, User
    PROVE  LinkInv'
<1>1. /\ Linked(tab, rt) /\ WaitsOK(task) /\ Ranked(task) /\ RunsOK(task, cur, mode) /\ Staged
      /\ task \in [Tasks -> TaskRecords] /\ cur \in Tasks \cup {NoTask}
      /\ NoTask \notin Tasks
  BY TasksAssumption DEF LinkInv, TasksOrdered, IInv, OthersOK, NoTask
<1>2. ASSUME NEW t \in Tasks, ShellRun(t) PROVE LinkInv'
  <2> DEFINE k == NewTask(inherit, stdio)
  <2>1. /\ task[t].st = "none" /\ task' = [task EXCEPT ![t] = k] /\ ~rt.active
        /\ UNCHANGED <<tab, cur, rt>> /\ mode = "shell" /\ mode' = "sched"
    BY <1>2 DEF ShellRun, FreeTasks
  <2>2. k.st = "ready" /\ k.awaits = NoTask
    BY DEF NewTask
  <2> HIDE DEF k
  <2>3. WaitsOK(task') /\ Ranked(task')
    <3>1. DOMAIN task = Tasks /\ WaitsOK(task) /\ Ranked(task)
      BY <1>1
    <3>2. task[t].st # "waiting" /\ k.st # "waiting" /\ k.st # "none" /\ k.awaits = NoTask
      BY <2>1, <2>2
    <3>3. task' = [task EXCEPT ![t] = k]
      BY <2>1, <2>2
    <3> QED BY ONLY t \in Tasks, <3>1, <3>2, <3>3, TaskReplaced
  <2>4. task'[t] = k /\ \A u \in Tasks : u # t => task'[u] = task[u]
    BY <1>1, <2>1
  <2>5. RunsOK(task', cur', mode')
    BY <1>1, <2>1, <2>2, <2>4 DEF RunsOK, InRing3
  <2>6. Staged'
    BY <1>1, <2>1 DEF Staged
  <2> QED BY <1>1, <2>1, <2>3, <2>5, <2>6 DEF LinkInv, TasksOrdered
<1>3. CASE PollScheduler
  <2>1. /\ mode = "shell" /\ mode' = "sched" /\ ~rt.active /\ UNCHANGED <<tab, task, cur, rt>>
    BY <1>3 DEF PollScheduler
  <2>2. RunsOK(task', cur', mode')
    BY <1>1, <2>1 DEF RunsOK, InRing3
  <2> QED BY <1>1, <2>1, <2>2 DEF LinkInv, TasksOrdered, Staged
<1>4. ASSUME NEW n, ExecutePipeline(n) PROVE LinkInv'
  <2>1. /\ mode = "shell" /\ rt = IdleRuntime /\ inherit' = TRUE
        /\ rt' = [IdleRuntime EXCEPT !.active = TRUE, !.left = n]
        /\ UNCHANGED <<tab, task, cur, mode>>
    BY <1>1, <1>4 DEF ExecutePipeline, Staged, taskVars
  <2>2. rt'.active /\ rt'.input = rt.input /\ rt'.close_in = rt.close_in /\ rt'.close_out = rt.close_out
    BY <2>1 DEF IdleRuntime
  <2>3. Linked(tab', rt')
    BY <1>1, <2>1, <2>2 DEF Linked, EndsOK, CapsClear, Links, ReadLinks
  <2> QED BY <1>1, <2>1, <2>2, <2>3 DEF LinkInv, TasksOrdered, Staged
<1>5. ASSUME NEW b, Interrupt(b) PROVE LinkInv'
  <2>1. /\ mode \in {"readwait", "writewait"} /\ mode' = "user" /\ UNCHANGED <<tab, stdio, inherit, rt>>
        /\ UNCHANGED <<task, cur>> \/ (task' = Ended(cur) /\ cur' = NoTask)
    BY <1>5 DEF Interrupt
  <2>2. CASE UNCHANGED <<task, cur>>
    <3>1. RunsOK(task', cur', mode')
      BY <1>1, <2>1, <2>2 DEF RunsOK, InRing3
    <3>2. Staged'
      BY <1>1, <2>1, <2>2 DEF Staged
    <3> QED BY <1>1, <2>1, <2>2, <3>1, <3>2 DEF LinkInv, TasksOrdered
  <2>3. CASE task' = Ended(cur) /\ cur' = NoTask
    <3>1. /\ WaitsOK(task') /\ Ranked(task')
          /\ \A u \in Tasks :
               /\ task'[u].st = "running" => task[u].st = "running" /\ u # cur
               /\ task'[u].st # "none" => /\ task[u].st # "none" /\ task'[u].inherit = task[u].inherit
                                          /\ task'[u].stdio = task[u].stdio
      BY <1>1, <2>3, EndedOrdered
    <3>2. RunsOK(task', cur', mode')
      BY <1>1, <2>1, <2>3, <3>1 DEF RunsOK, InRing3
    <3>3. Staged'
      BY <1>1, <2>1, <3>1 DEF Staged
    <3> QED BY <1>1, <2>1, <3>1, <3>2, <3>3 DEF LinkInv, TasksOrdered
  <2> QED BY <2>1, <2>2, <2>3
<1> QED BY <1>2, <1>3, <1>4, <1>5 DEF User

\* What the invariant says of the links.
LEMMA LinksMeaning ==
    ASSUME IInv, LinkInv
    PROVE  LinksSound
<1>1. Linked(tab, rt) /\ Staged /\ ObjectsSound
  BY TablesMeaning DEF LinkInv
<1>2. RuntimeFds
  BY <1>1 DEF RuntimeFds, Linked, EndsOK, Links, ReadLinks, Holding, HoldsEnd, IsOpen
<1>3. ASSUME rt.active, mode = "user", IsOpen(tab, stdio[0])
      PROVE  HoldsEnd(stdio[0], "r") /\ tab.pipe[tab.fd[stdio[0]].obj].refs["w"] = 0
  <2> DEFINE f == stdio[0]
             p == tab.fd[f].obj
  <2>1. f = rt.close_in /\ f \in Fds
    BY <1>1, <1>3 DEF Staged, IsOpen
  <2>2. f # NoFd
    BY <2>1, FdsFact DEF NoFd
  <2>3. HoldsEnd(f, "r") /\ p \in Pipes
    BY <1>1, <1>2, <1>3, <2>1, <2>2, LinkedFact
       DEF RuntimeFds, IInv, Linked, LinkPipes, ReadLinks
  <2>4. Holders("pipe", p, "w") = {}
    BY <1>1, <2>1, <2>2 DEF Linked, EndsOK, Holding, Holders
  <2>5. tab.pipe[p].refs["w"] = 0
    BY <1>1, <2>3, <2>4, FS_EmptySet DEF ObjectsSound, RefsMatch
  <2> QED BY <2>3, <2>5
<1>4. EofReady
  BY <1>3 DEF EofReady
<1> QED BY <1>2, <1>4 DEF LinksSound

\* Where loads succeed and stages leave the runtime's own descriptors alone, a
\* pipeline keeps the ends of its links across every launch and end of a task,
\* and the stage that reads a link finds its writers gone, so that it gets what
\* was written and then the end of the file: whatever else the stages open,
\* duplicate, close, mint, spawn and wait for (pipeline_resume_pending,
\* user_task_cleanup_mappings, user_fd_release).
THEOREM LinksKeepTheirEnds ==
    ASSUME ~LinksExposed, LoadOutcomes = {"ok"}
    PROVE  Spec => []LinksSound
<1>1. Init => IInv /\ LinkInv
  <2> SUFFICES ASSUME Init PROVE LinkInv
    BY InitSound
  <2>1. rt = IdleRuntime /\ tab.caps = {} /\ Links(IdleRuntime) = {} /\ ReadLinks(IdleRuntime) = {}
        /\ IdleRuntime.close_out = NoFd /\ IdleRuntime.input = NoFd /\ IdleRuntime.close_in = NoFd
        /\ ~rt.active
    BY DEF Init, EmptyTables, Links, ReadLinks, IdleRuntime
  <2>2. Linked(tab, rt)
    BY <2>1 DEF Linked, EndsOK, CapsClear
  <2>3. \A u \in Tasks : task[u].st = "none" /\ task[u].awaits = NoTask
    BY DEF Init, NoTaskRecord
  <2>4. WaitsOK(task) /\ RunsOK(task, cur, mode)
    BY <2>3 DEF WaitsOK, RunsOK, InRing3, Init
  <2>5. Ranked(task)
    <3>1. [u \in Tasks |-> 0] \in [Tasks -> Nat]
      OBVIOUS
    <3> QED BY <2>3, <3>1 DEF Ranked
  <2> QED BY <2>1, <2>2, <2>4, <2>5 DEF LinkInv, TasksOrdered, Staged
<1>2. IInv /\ LinkInv /\ [Next]_<<vars, calls>> => IInv' /\ LinkInv'
  <2> SUFFICES ASSUME IInv, LinkInv, [Next]_<<vars, calls>> PROVE LinkInv'
    BY StepSound
  <2>1. CASE UNCHANGED <<vars, calls>>
    BY <2>1 DEF vars, LinkInv, TasksOrdered, Staged
  <2>2. CASE Next
    BY <2>2, CallsKeepLinks, TasksKeepLinks, KernelKeepsLinks, UserKeepsLinks DEF Next
  <2> QED BY <2>1, <2>2
<1>3. IInv /\ LinkInv => LinksSound
  BY LinksMeaning
<1> QED BY <1>1, <1>2, <1>3, PTL DEF Spec
=============================================================================
