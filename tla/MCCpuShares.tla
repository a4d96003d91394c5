----------------------------- MODULE MCCpuShares -----------------------------
(* Instances of CpuShares for TLC. *)
EXTENDS CpuShares

\* Averages 1, 3/2 and twice 2, which the sums order otherwise.
FewValues == {<<1>>, <<2>>, <<1, 2>>, <<3, 1>>}
=============================================================================
