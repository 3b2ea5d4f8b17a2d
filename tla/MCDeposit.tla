------------------------------ MODULE MCDeposit ------------------------------
(* Small instances of ChainDeposit. *)
EXTENDS ChainDeposit, TLC

\* replaying goroutines differ in nothing but their name
ReplaySymmetry == Permutations(Replays)
=============================================================================
