-------------------------------- MODULE MCVmm --------------------------------
(* Instances of Vmm for TLC.                                                 *)
EXTENDS Vmm, Sequences, TLC

\* The image lies in the identity map.  The mmap region shares a page table with
\* the initial stack, the stack below has one of its own; neither exists yet.
MCTables == <<"stack", "deep", "stack">>
MCTableOf == [p \in Pages |-> IF p \in Image THEN "low" ELSE MCTables[p - ImagePages]]
MCBoot == {"low"}
FrameSymmetry == Permutations(Frames \ TailFrames)
==============================================================================
