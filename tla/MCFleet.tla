------------------------------ MODULE MCFleet -------------------------------
(***************************************************************************)
(* Fleet for TLC: the requests of two administrators about one agent.      *)
(***************************************************************************)
EXTENDS Fleet, TLC

CONSTANTS a1, o1, o2, n1

MCAgents == {a1}
MCOps == {o1, o2}
MCNames == {n1}
\* The payload of o2 is mistyped: it decodes to nothing.
MCDecoded == (o1 :> o1) @@ (o2 :> NoOp) @@ (NoOp :> NoOp)
=============================================================================
