---------------------------- MODULE MCCollection ----------------------------
(***************************************************************************)
(* Collection for TLC: two processes of one executable, and an agent that  *)
(* hashes one at a time or both at once.                                   *)
(***************************************************************************)
EXTENDS Collection, TLC

CONSTANTS p, q, x, u, v, c1, c2

MCProcesses == {p, q}
MCUserOf == (p :> u) @@ (q :> v)

\* Both processes run the executable x, for different users.
OnePath == {x, Deleted}
SameExe == (p :> x) @@ (q :> x)
OneName == (x :> "x") @@ (Deleted :> "deleted")
=============================================================================
