------------------------------ MODULE MCUserFd ------------------------------
(* Strings and sizes for TLC.  The bytes of a string are all different from  *)
(* their neighbours, so that a swap of two bytes shows.                      *)
EXTENDS UserFd

MCStrings == {<<1>>, <<0, 1, 0>>}
\* Where only the amount matters: more than a ring of one byte takes.
MCZeros == {<<0, 0>>}
\* Programs that fill the tables, and programs that start one another.
MCCalls == {
    {"open", "fifo", "close", "dup", "dup2", "pipe", "pty", "cap"},
    {"pipe", "read", "write", "nonblock", "inherit", "stdio", "remap",
     "spawn", "spawnex", "wait"}}
=============================================================================
