------------------------------- MODULE Script -------------------------------
(***************************************************************************)
(* The interpreter of shell scripts (src/src/utilities/shell/              *)
(* shell_script.c), one line a step.  Lines are records of a kind and what *)
(* it needs; the words of a condition are values.                          *)
(***************************************************************************)
EXTENDS Integers, Sequences, FiniteSets, SequencesExt

CONSTANTS
    Scripts,      \* programs: sequences of lines
    FileSystems,  \* path -> "file" or "dir"
    MAX_DEPTH, MAX_VARS,
    MaxLines      \* bound: lines interpreted

ASSUME ScriptAssumption ==
    MAX_DEPTH \in Nat \ {0} /\ MAX_VARS \in Nat /\ MaxLines \in Nat

VARIABLES
    script, files,
    ln,        \* the line interpreted next; 0: interpret has returned
    stack,     \* the entries of block_stack_t, those above depth included
    depth,
    env,       \* script_env_t
    capture,   \* shell_redirect_active, and what has been redirected
    ran,       \* ghost: lines that did something
    broken,    \* ghost: it did so before its last line: exit, a keyword out of
               \* place or the launch of a program
    truth      \* ghost: how each condition was last found
scriptvars == <<script, files, ln, stack, depth, env, capture, ran, broken,
                truth>>

Unset == ""
NewEntry == [type |-> "if", executing |-> FALSE, taken |-> FALSE, start |-> 0]

\* env_get, and env_set when there is room.
Value(v) == IF v \in DOMAIN env THEN env[v] ELSE Unset
WithVar(v, x) ==
    IF v \in DOMAIN env \/ Cardinality(DOMAIN env) < MAX_VARS
    THEN [u \in DOMAIN env \cup {v} |-> IF u = v THEN x ELSE env[u]] ELSE env

\* eval_condition.  An empty left operand leaves the operator where the first
\* word is looked for: no operator is found, and the text counts as a word.
Holds(c) ==
    CASE c.op \in {"==", "!="} /\ Value(c.var) = Unset -> TRUE
      [] c.op = "==" -> Value(c.var) = c.val
      [] c.op = "!=" -> Value(c.var) # c.val
      [] c.op = "-e" -> c.val \in DOMAIN files
      [] c.op = "-f" -> c.val \in DOMAIN files /\ files[c.val] = "file"
      [] OTHER -> Value(c.var) \notin {Unset, "0"}

\* Suppressed with i <= depth.
ReadsAbove(s, d) == \E i \in 1..MAX_DEPTH : i <= d + 1 /\ ~s[i].executing

\* block_is_suppressed.
Suppressed(s, d) == \E i \in 1..d : ~s[i].executing

Line == script[ln]
Following == IF ln < Len(script) THEN ln + 1 ELSE 0
Goes(to) == ln' = to

\* The block a keyword must be in.
Inside(type) == depth > 0 /\ stack[depth].type = type

\* if and while.  The depth counts the new block when the blocks around it
\* are looked at, and its entry is as an earlier block left it.
Opens(type) ==
    LET d == depth + 1
        skipped == Suppressed(stack, d)
        yes == ~skipped /\ Holds(Line.cond)
        b == [stack[d] EXCEPT !.type = type]
    IN  /\ depth < MAX_DEPTH
        /\ depth' = d
        /\ stack' = [stack EXCEPT ![d] =
             IF type = "if"
             THEN [b EXCEPT !.executing = yes, !.taken = skipped \/ yes]
             ELSE [b EXCEPT !.executing = yes, !.start = ln]]
        /\ Goes(Following)

If == Line.kind = "if" /\ Opens("if")
While == Line.kind = "while" /\ Opens("while")

\* elif and else: an outer block that is not executing leaves the branch off.
Branch(yes) ==
    LET top == stack[depth]
        on == ~Suppressed(stack, depth - 1) /\ ~top.taken /\ yes
    IN  /\ Inside("if")
        /\ stack' = [stack EXCEPT ![depth].executing = on,
                                  ![depth].taken = @ \/ (on /\ Line.kind = "elif")]
        /\ UNCHANGED depth /\ Goes(Following)

Elif == Line.kind = "elif" /\ Branch(Holds(Line.cond))
Else == Line.kind = "else" /\ Branch(TRUE)

Endif ==
    /\ Line.kind = "endif" /\ Inside("if")
    /\ depth' = depth - 1 /\ UNCHANGED stack /\ Goes(Following)

\* The loop's line pushes its block again.
Endwhile ==
    /\ Line.kind = "endwhile" /\ Inside("while")
    /\ depth' = depth - 1 /\ UNCHANGED stack
    /\ Goes(IF stack[depth].executing THEN stack[depth].start ELSE Following)

\* A keyword out of place, or a block too deep, ends the script.
Misplaced ==
    /\ \/ Line.kind \in {"if", "while"} /\ depth >= MAX_DEPTH
       \/ Line.kind \in {"elif", "else", "endif"} /\ ~Inside("if")
       \/ Line.kind = "endwhile" /\ ~Inside("while")
    /\ UNCHANGED <<depth, stack>> /\ Goes(0)

Control ==
    /\ If \/ While \/ Elif \/ Else \/ Endif \/ Endwhile \/ Misplaced
    /\ UNCHANGED <<env, capture, ran>>
    /\ truth' = IF "cond" \in DOMAIN Line
                THEN [truth EXCEPT ![ln] = Holds(Line.cond)] ELSE truth

Printing == {"echo", "command"}
Keywords == {"if", "while", "elif", "else", "endif", "endwhile"}

Skip ==
    /\ Line.kind \notin Keywords /\ Suppressed(stack, depth)
    /\ Goes(Following) /\ UNCHANGED <<depth, stack, env, capture, ran, truth>>

\* expand_variables runs a substituted command with the redirect started
\* anew, and then stops it: what was captured before is gone, and what comes
\* after is not captured.
Substituted == [on |-> FALSE, lines |-> <<>>]

\* A command that is a program is launched at once, for no program runs when a
\* terminal starts a script: the kernel's stack is given up with the script on
\* it, and user_task_abort_continue stops the redirect.  Only a program that
\* does not load comes back.
\* set, echo, exit, or a command for handle_shell_command.
Execute ==
    LET out == IF capture.on THEN [capture EXCEPT !.lines = Append(@, ln)]
               ELSE capture
    IN  /\ Line.kind \notin Keywords /\ ~Suppressed(stack, depth)
        /\ ran' = Append(ran, ln)
        /\ UNCHANGED <<depth, stack, truth>>
        /\ \/ Line.kind = "set" /\ env' = WithVar(Line.var, Line.val)
                /\ UNCHANGED capture /\ Goes(Following)
           \/ Line.kind \in {"capture", "capture_program"}
                /\ env' = WithVar(Line.var, Line.val)
                /\ capture' = Substituted /\ Goes(Following)
           \/ Line.kind \in Printing /\ capture' = out
                /\ UNCHANGED env /\ Goes(Following)
           \/ Line.kind = "program" /\ UNCHANGED <<env, capture>> /\ Goes(Following)
           \/ Line.kind \in {"program", "capture_program"}
                /\ capture' = Substituted /\ UNCHANGED env /\ Goes(0)
           \/ Line.kind = "exit" /\ UNCHANGED <<env, capture>> /\ Goes(0)

\* shell_script_run, from a terminal whose redirect has been started.
ScriptInit ==
    /\ script \in Scripts /\ files \in FileSystems
    /\ ln = IF script = <<>> THEN 0 ELSE 1
    /\ stack = [i \in 1..MAX_DEPTH |-> NewEntry] /\ depth = 0
    /\ env = [v \in {} |-> Unset]
    /\ capture = [on |-> TRUE, lines |-> <<>>]
    /\ ran = <<>> /\ broken = FALSE /\ truth = [i \in DOMAIN script |-> FALSE]

ScriptNext ==
    /\ ln # 0 /\ Len(ran) < MaxLines
    /\ Control \/ Skip \/ Execute
    /\ broken' = (ln' = 0 /\ ln < Len(script))
    /\ UNCHANGED <<script, files>>

-----------------------------------------------------------------------------
(* What the blocks of a script mean.                                       *)
Openers == {"if", "while"}
Closers == {"endif", "endwhile"}

\* Line i is directly in the block that line b begins; d is the nesting.
Nesting(from, to) ==
    Cardinality({j \in from..to : script[j].kind \in Openers})
      - Cardinality({j \in from..to : script[j].kind \in Closers})

Encloses(b, i) ==
    /\ b < i /\ script[b].kind \in Openers
    /\ \A j \in b..(i - 1) : Nesting(b, j) > 0

\* Branch line of block b that line i belongs to.
BranchOf(b, i) ==
    LET S == {j \in b..(i - 1) : j = b \/ (script[j].kind \in {"elif", "else"}
                                             /\ Nesting(b, j) = 1)}
    IN  CHOOSE j \in S : \A k \in S : k <= j

\* Branch j of block b is the one to run when its condition was found to hold
\* and those of the branches before it not to.
Selected(b, j) ==
    /\ script[j].kind # "else" => truth[j]
    /\ \A k \in b..(j - 1) :
        (k = b \/ (script[k].kind = "elif" /\ Nesting(b, k) = 1)) => ~truth[k]

InSelectedBranch(i) == \A b \in DOMAIN script : Encloses(b, i) => Selected(b, BranchOf(b, i))

\* The lines interpreted so far, and those of them outside every block.
Interpreted == 1..(IF ln # 0 THEN ln - 1 ELSE Len(script))
Outside(i) == script[i].kind \notin Keywords /\ ~\E b \in DOMAIN script : Encloses(b, i)

\* The blocks on the stack are those around the line, of their kinds, however
\* they were left, repeated or skipped; a line outside every block has run once
\* and in its turn, whatever blocks stood before it, until exit, a keyword out
\* of place or a program ends the script; and as long as the output goes to
\* the terminal that started the script, it has all of it.  Which lines of a
\* block run is the subject of RunsSelected.
ScriptSound ==
    /\ ln # 0 =>
        /\ depth = Nesting(1, ln - 1)
        /\ \A b \in DOMAIN script :
            Encloses(b, ln) => stack[Nesting(1, b)].type = script[b].kind
    /\ ln # 0 \/ ~broken =>
        SelectSeq(ran, Outside)
          = SetToSortSeq({i \in Interpreted : Outside(i)}, <)
    /\ capture.on =>
        capture.lines = SelectSeq(ran, LAMBDA i : script[i].kind \in Printing)

\* The lines of a branch whose condition holds are run: "commands when true"
\* in docs/ui/shell-scripts.md.
RunsSelected ==
    ln = 0 /\ ~broken =>
        \A i \in DOMAIN script :
            script[i].kind \in Printing /\ InSelectedBranch(i)
            => \E n \in DOMAIN ran : ran[n] = i
====
