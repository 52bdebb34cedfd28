------------------------------- MODULE Shell -------------------------------
(***************************************************************************)
(* What becomes of a command line (shell.c): aliases, read once from the   *)
(* drive that is current then (alias.c); pipelines; the commands the shell *)
(* carries out itself; programs and scripts, looked for where the system   *)
(* is installed.  Every line is carried out in a context of its own on a   *)
(* bounded stack (context.c); a script's lines are carried out inside it.  *)
(* A program that ends while the shell waits takes the shell's stack with  *)
(* it: contexts and the redirection are reset and the desktop starts over. *)
(* A line is a sequence of words.                                          *)
(***************************************************************************)
EXTENDS Integers, Sequences, FiniteSets

CONSTANTS
    Lines,                \* lines that may be typed or stand in a script; a
                          \* line with | is a pipeline of two stages or more
    Configs,              \* the alias file of each drive: [drive -> Seq of entries]
    FileSets,             \* the files: [drive -> [path -> "elf", "script"]]
    Slashed,              \* words that are paths
    ALIAS_MAX_COUNT, ALIAS_DEPTH, SHELL_ARGS_MAX, LineWords,
    COMMAND_CONTEXT_STACK_MAX,
    MaxFrames, MaxLinesRun   \* bounds on nesting and on lines

VARIABLES
    config, tree,         \* alias files and files of the drives
    drive,                \* the current drive
    aliases,              \* the table, NotLoaded before the first line
    ctx,                  \* contexts on the stack
    frames,               \* the lines being carried out, the innermost last
    pipe,                 \* g_pipeline_rt: a pipeline is armed, and its stages to come
    redirect,             \* output goes to the capture buffer
    outcome,              \* what became of the last line
    lines                 \* lines so far

shellvars == <<config, tree, drive, aliases, ctx, frames, pipe, redirect, outcome, lines>>

Meta == {"|", ">", "<", "&"}
Install == 0                          \* the drive and directory of the programs
NotLoaded == <<"not loaded">>
NoAlias == [key |-> <<>>, tmpl |-> <<>>]
HasMeta(words) == \E i \in 1..Len(words) : words[i] \in Meta

(***************************************************************************)
(* Aliases.  An entry of the file is a key of one or more words and a      *)
(* template; lines that are neither are not in the configurations.         *)
(***************************************************************************)
Known(table, key) == \E i \in 1..Len(table) : table[i].key = key
Accepts(table, e) ==
    ~HasMeta(e.tmpl) /\ ~Known(table, e.key) /\ Len(table) < ALIAS_MAX_COUNT
Loaded(entries) ==
    LET t[i \in 0..Len(entries)] ==
            IF i = 0 THEN <<>>
            ELSE IF Accepts(t[i - 1], entries[i]) THEN Append(t[i - 1], entries[i]) ELSE t[i - 1]
    IN t[Len(entries)]

Begins(line, key) == Len(key) <= Len(line) /\ SubSeq(line, 1, Len(key)) = key
Matching(table, line) == {i \in 1..Len(table) : Begins(line, table[i].key)}
\* the longest key the line begins with
Chosen(table, line) ==
    IF Matching(table, line) = {} THEN NoAlias
    ELSE table[CHOOSE i \in Matching(table, line) :
                 \A j \in Matching(table, line) : Len(table[j].key) <= Len(table[i].key)]

\* A word of the template: [args] stands for all arguments, [argN] for the N-th.
Placeholder == [w \in {"[arg1]", "[arg2]"} |-> IF w = "[arg1]" THEN 1 ELSE 2]
Filled(w, args) ==
    IF w = "[args]" THEN args
    ELSE IF w \in DOMAIN Placeholder
         THEN IF Placeholder[w] > Len(args) THEN <<"missing">> ELSE <<args[Placeholder[w]]>>
         ELSE <<w>>
Missing(tmpl, args) == \E i \in 1..Len(tmpl) : tmpl[i] \in DOMAIN Placeholder /\ Placeholder[tmpl[i]] > Len(args)

NoExpansion(line) == [rc |-> 0, line |-> line]
Failed(line) == [rc |-> -1, line |-> line]
ExpandLine(table, line) ==
    LET e    == Chosen(table, line)
        args == SubSeq(line, Len(e.key) + 1, Len(line))
        out  == LET f[i \in 0..Len(e.tmpl)] == IF i = 0 THEN <<>> ELSE f[i - 1] \o Filled(e.tmpl[i], args)
                IN f[Len(e.tmpl)]
    IN IF e = NoAlias THEN NoExpansion(line)
       ELSE IF Missing(e.tmpl, args) \/ out = <<>> \/ Len(out) > LineWords \/ HasMeta(out) THEN Failed(line)
       ELSE [rc |-> 1, line |-> out]

\* Up to ALIAS_DEPTH times; a line still beginning with an alias is run as it is.
Expanded(table, line) ==
    LET x[d \in 0..ALIAS_DEPTH] ==
            IF d = 0 THEN [rc |-> 1, line |-> line]
            ELSE IF x[d - 1].rc # 1 THEN x[d - 1]
            ELSE IF Len(x[d - 1].line) > SHELL_ARGS_MAX THEN [rc |-> -2, line |-> line]
            ELSE ExpandLine(table, x[d - 1].line)
    IN x[ALIAS_DEPTH]

(***************************************************************************)
(* Carrying out a line (handle_shell_command).                             *)
(***************************************************************************)
Builtins == {"clear", "list", "schedstat"}
NoFile == <<-1, "none">>
Tried(word) ==
    LET d == IF word \in Slashed THEN drive ELSE Install
    IN <<<<d, word>>, <<d, word \o ".uelf">>>>
Found(word) ==
    LET t == Tried(word) IN
    IF t[1][2] \in DOMAIN tree[t[1][1]] THEN t[1]
    ELSE IF t[2][2] \in DOMAIN tree[t[2][1]] THEN t[2] ELSE NoFile

Result(what, line, final, file) == [what |-> what, line |-> line, final |-> final, file |-> file]
Dispatched(table, line) ==
    LET x == Expanded(table, line) IN
    IF line = <<>> THEN Result("nothing", line, line, NoFile)
    ELSE IF x.rc < 0 THEN Result("error", line, line, NoFile)
    ELSE IF HasMeta(x.line) THEN Result("pipeline", line, x.line, NoFile)
    ELSE IF x.line[1] \in Builtins THEN Result("builtin", line, x.line, NoFile)
    ELSE LET f == Found(x.line[1])
         IN IF f = NoFile THEN Result("unknown", line, x.line, f)
            ELSE Result(tree[f[1]][f[2]], line, x.line, f)

\* The stages of a pipeline, and arming it, which only one at a time may be.
Stages(line) ==
    LET f[i \in 0..Len(line)] ==
            IF i = 0 THEN <<<<>>>>
            ELSE IF line[i] = "|" THEN Append(f[i - 1], <<>>)
            ELSE [f[i - 1] EXCEPT ![Len(f[i - 1])] = Append(@, line[i])]
    IN f[Len(line)]
Armed(p, r) ==
    IF r.what = "pipeline" /\ ~p.active THEN [active |-> TRUE, todo |-> Stages(r.final)] ELSE p

CanPush == ctx < COMMAND_CONTEXT_STACK_MAX
Table == IF aliases = NotLoaded THEN Loaded(config[drive]) ELSE aliases
Carry(line, p) ==
    /\ LET r == Dispatched(Table, line) IN
         /\ outcome' = r
         /\ aliases' = IF line = <<>> THEN aliases ELSE Table
         \* a script, and a program that is waited for, keep the line going
         /\ frames' = Append(frames, [pushed |-> CanPush, open |-> r.what \in {"elf", "script"},
                                      script |-> r.what = "script"])
         /\ pipe' = Armed(p, r)
    /\ ctx' = IF CanPush THEN ctx + 1 ELSE ctx
    /\ lines' = lines + 1

\* A line typed at a prompt, once no pipeline is pending: a terminal captures
\* its output; the text shell does not, and arms a pipeline itself, without
\* aliases or a context.
Typed ==
    /\ frames = <<>> /\ ~pipe.active /\ lines < MaxLinesRun
    /\ \E l \in Lines :
         \/ redirect' \in (IF HasMeta(l) THEN {TRUE} ELSE BOOLEAN) /\ Carry(l, pipe)
         \/ /\ HasMeta(l) /\ outcome' = Result("pipeline", l, l, NoFile)
            /\ pipe' = Armed(pipe, outcome') /\ lines' = lines + 1
            /\ UNCHANGED <<aliases, ctx, frames, redirect>>
    /\ UNCHANGED <<config, tree, drive>>

ScriptLine ==
    /\ frames # <<>> /\ frames[Len(frames)].script
    /\ Len(frames) < MaxFrames /\ lines < MaxLinesRun
    /\ \E l \in Lines : Carry(l, pipe)
    /\ UNCHANGED <<config, tree, drive, redirect>>

\* pipeline_resume_pending, once no line is being carried out: a stage that is a
\* program of the system's is started without aliases or a context, any other
\* is a line; after the last one the runtime is reset.
StageFile(l) == LET f == Found(l[1]) IN IF f[1] = Install THEN f ELSE NoFile
IsProgram(f) == f # NoFile /\ tree[f[1]][f[2]] = "elf"
RunStage ==
    /\ frames = <<>> /\ pipe.active /\ pipe.todo # <<>> /\ lines < MaxLinesRun
    /\ LET l == Head(pipe.todo)
           p == [pipe EXCEPT !.todo = Tail(@)]
       IN  IF l # <<>> /\ l[1] \notin Slashed /\ IsProgram(StageFile(l))
           THEN /\ outcome' = Result("elf", l, l, StageFile(l)) /\ pipe' = p
                /\ frames' = <<[pushed |-> FALSE, open |-> TRUE, script |-> FALSE]>>
                /\ lines' = lines + 1 /\ UNCHANGED <<aliases, ctx>>
           ELSE Carry(l, p)
    /\ UNCHANGED <<config, tree, drive, redirect>>
PipelineFinishes ==
    /\ frames = <<>> /\ pipe.active /\ pipe.todo = <<>>
    /\ pipe' = [pipe EXCEPT !.active = FALSE] /\ redirect' = FALSE
    /\ UNCHANGED <<config, tree, drive, aliases, ctx, frames, outcome, lines>>

\* As if a line took a context off the stack that it had not put there.
AlwaysPops(frame) == IF ctx > 0 THEN ctx - 1 ELSE ctx

PopOf(frame) == IF frame.pushed /\ ctx > 0 THEN ctx - 1 ELSE ctx
Returns ==
    /\ frames # <<>>
    /\ ctx' = PopOf(frames[Len(frames)])
    /\ frames' = SubSeq(frames, 1, Len(frames) - 1)
    /\ redirect' = (redirect /\ (Len(frames) > 1 \/ pipe.active))
    /\ UNCHANGED <<config, tree, drive, aliases, pipe, outcome, lines>>

\* A program ran from inside the line and ended: user_task_abort_continue, which
\* gives the lines up, but not the stages to come.
Aborts ==
    /\ frames # <<>> /\ \E i \in 1..Len(frames) : frames[i].open
    /\ frames' = <<>> /\ ctx' = 0 /\ redirect' = FALSE
    /\ UNCHANGED <<config, tree, drive, aliases, pipe, outcome, lines>>

\* A program changes the drive, or the alias file.
ChangeDrive ==
    /\ \E d \in DOMAIN tree : d # drive /\ drive' = d
    /\ UNCHANGED <<config, tree, aliases, ctx, frames, pipe, redirect, outcome, lines>>

ShellInit ==
    /\ config \in Configs /\ tree \in FileSets
    /\ drive = Install /\ aliases = NotLoaded
    /\ ctx = 0 /\ frames = <<>> /\ redirect = FALSE
    /\ pipe = [active |-> FALSE, todo |-> <<>>]
    /\ outcome = Result("nothing", <<>>, <<>>, NoFile) /\ lines = 0
ShellNext == Typed \/ ScriptLine \/ RunStage \/ PipelineFinishes \/ Returns \/ Aborts \/ ChangeDrive

(***************************************************************************)
(* Properties.                                                             *)
(***************************************************************************)
Pushed == {i \in 1..Len(frames) : frames[i].pushed}

\* However lines nest, fail, leave stages behind or are cut off by a program's
\* end, the context stack holds exactly the contexts of the lines still being
\* carried out, and no output is captured behind them; the alias table has one
\* entry per key and no more than it has room for; no alias brings in a pipeline
\* or a redirection, which only a line typed with one can start; and a bare name
\* never runs a file of a drive other than the one the system is installed on.
ShellSound ==
    /\ ctx = Cardinality(Pushed)
    /\ frames = <<>> /\ ~pipe.active => ~redirect
    /\ aliases # NotLoaded =>
         /\ Len(aliases) <= ALIAS_MAX_COUNT
         /\ \A i, j \in 1..Len(aliases) : i # j => aliases[i].key # aliases[j].key
    /\ outcome.what = "pipeline" => HasMeta(outcome.line)
    /\ outcome.what \in {"elf", "script"} /\ outcome.final[1] \notin Slashed => outcome.file[1] = Install
=============================================================================
