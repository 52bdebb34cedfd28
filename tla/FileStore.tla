------------------------------ MODULE FileStore ------------------------------
(***************************************************************************)
(* What a program may expect of the file system when it replaces files     *)
(* with the stream calls and removes them with unlink: a map from paths to *)
(* contents and a table of writers.  A writer appends to a buffer of its   *)
(* own; the file shows the buffer's contents when the writer is closed.    *)
(* EynFs implements this with blocks, a bitmap and a write-back cache.     *)
(***************************************************************************)
EXTENDS Integers, Sequences

CONSTANTS Paths, Handles

VARIABLES files,    \* [Paths -> contents], Absent where there is no file
          writer    \* [Handles -> the writer's buffer], Closed when free

Absent == <<-1>>
Closed == [path |-> <<>>, buf |-> <<>>]
Grows(s, t) == Len(s) < Len(t) /\ SubSeq(t, 1, Len(s)) = s

Init == /\ files = [p \in Paths |-> Absent]
        /\ writer = [h \in Handles |-> Closed]

\* A file appears empty or disappears; no other file changes.
Create(p) == files[p] = Absent /\ files' = [files EXCEPT ![p] = <<>>]
Remove(p) == files[p] # Absent /\ files' = [files EXCEPT ![p] = Absent]

Open(h) == /\ writer[h] = Closed /\ writer'[h] # Closed
           /\ writer' = [writer EXCEPT ![h] = [path |-> writer'[h].path, buf |-> <<>>]]
           /\ files[writer'[h].path] = <<>>

Append1(h) == /\ writer[h] # Closed
              /\ Grows(writer[h].buf, writer'[h].buf)
              /\ writer' = [writer EXCEPT ![h].buf = writer'[h].buf]

Close(h) == /\ writer[h] # Closed
            /\ writer' = [writer EXCEPT ![h] = Closed]
            /\ files' = [files EXCEPT ![writer[h].path] = writer[h].buf]

\* The writers of a task that ends are dropped; their files stay as they are.
Drop == writer' = [h \in Handles |-> Closed]

Next == \/ UNCHANGED writer /\ \E p \in Paths : Create(p) \/ Remove(p)
        \/ UNCHANGED files /\ (Drop \/ \E h \in Handles : Open(h) \/ Append1(h))
        \/ \E h \in Handles : Close(h)

Spec == Init /\ [][Next]_<<files, writer>>
=============================================================================
