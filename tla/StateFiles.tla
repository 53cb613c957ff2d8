---------------------------- MODULE StateFiles ----------------------------
(* The state files of a command, that of modules RemoteCache and HelmExec: *)
(* the numbers 1..N, in the order they are listed.                         *)
EXTENDS Naturals

CONSTANT N   \* number of state files

ASSUME StateFilesAssumption == N \in Nat \ {0}

Files == 1..N
=============================================================================
