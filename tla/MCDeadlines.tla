----------------------------- MODULE MCDeadlines -----------------------------
(* Every combination of small, zero and negative settings.                 *)
EXTENDS Deadlines

SmallSettings == {-1, 0, 2, 3}
=============================================================================
