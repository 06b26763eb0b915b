---------------------------- MODULE MCArtifacts ----------------------------
(***************************************************************************)
(* Two work items whose callers name the same path in a directory.         *)
(***************************************************************************)
EXTENDS Artifacts, TLC

CONSTANTS w1, w2, p, dir

MCWork == {w1, w2}
MCPaths == {p}
Symmetry == Permutations(MCWork)
MCPathOf == [w \in MCWork |-> p]
MCDirs == {dir}
MCDirOf == [x \in MCPaths \cup MCDirs |-> IF x = p THEN dir ELSE Root]
MCWay == [x \in MCPaths \cup MCDirs |-> {dir}]
=============================================================================
