----------------------------- MODULE MCLauncher -----------------------------
(* TLC instances of Launcher.                                              *)
EXTENDS Launcher, TLC

MCSymmetry == Permutations(Clis)

=============================================================================
