---------------------------- MODULE MCArtifacts ----------------------------
(* Artifacts for TLC: run directories are alike, and so are commands.       *)
EXTENDS Artifacts, TLC

Alike == Permutations(Dirs) \cup Permutations(Cmds)
=============================================================================
