------------------------------ MODULE MCJobRunner ------------------------------
(***************************************************************************)
(* Instances of JobRunner, with ProviderLifecycle, for TLC: any two        *)
(* callers, of RunJob or of Initialize, and any two accounts are alike,    *)
(* which the safety run makes use of.                                      *)
(***************************************************************************)
EXTENDS JobRunner, TLC

CONSTANTS c1, c2, s1, s2, a, b

MCCaller == {c1, c2}
MCSetter == {s1, s2}
MCAccount == {a, b}
MCSymmetry == Permutations(MCCaller) \cup Permutations(MCSetter) \cup Permutations(MCAccount)
=============================================================================
