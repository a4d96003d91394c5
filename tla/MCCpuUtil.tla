------------------------------ MODULE MCCpuUtil ------------------------------
(* Instances of CpuUtil for TLC. *)
EXTENDS CpuUtil, TLC

CONSTANTS h1, h2, a, b

\* Two colocated tasks.
Colocated == {<<h1, a>>, <<h1, b>>}

\* Two colocated tasks, and another host's container without the task label.
WithUnlabelled == Colocated \cup {<<h2, NoTask>>}

\* Nothing tells the two tasks of one host apart.
Alike == Permutations({a, b})

\* A single task.
OneTask == {<<h1, a>>}
=============================================================================
