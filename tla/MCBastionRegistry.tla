-------------------------- MODULE MCBastionRegistry --------------------------
(* BastionRegistry for TLC: who opens what, and two registers that are alike. *)
EXTENDS BastionRegistry, TLC

CONSTANTS u1, u2, p1, p2, r1, r2

TwoPasswords == {<<u1, p1>>, <<u2, p2>>}
KeyFileOnly == {<<u2, p1>>}
InTurn == Permutations({r1, r2})
=============================================================================
