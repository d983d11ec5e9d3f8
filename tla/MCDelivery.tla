----------------------------- MODULE MCDelivery -----------------------------
(***************************************************************************)
(* Delivery for TLC: two running executables p and q, one installed        *)
(* package i; three attributes, two of which differ in the signature only, *)
(* so that a row has two things to say.                                    *)
(***************************************************************************)
EXTENDS Delivery, TLC

CONSTANTS p, q, i, a1, a1s, a2, here, there, r1, r2

MCItems == {p, q, i}
MCAttrs == {a1, a1s, a2}
MCColumns == {here, there}
MCColumnsOf == (a1 :> here) @@ (a1s :> here) @@ (a2 :> there)
MCSourceOf == (p :> "running") @@ (q :> "running") @@ (i :> "installed")

\* Every identity resolves to a catalog row of its own.
OwnCatalog == (p :> "cp") @@ (q :> "cq") @@ (i :> "ci")

\* p and q are two names of one file: same sha256, one catalog row.
SameHash == (p :> "cpq") @@ (q :> "cpq") @@ (i :> "ci")

Inv(P, Q, I) == (p :> P) @@ (q :> Q) @@ (i :> I)

\* Both sources answer; p stops while q starts, or p's path changes, and the
\* verdict on i.
Alive == {Inv(a1, NoAttr, a1), Inv(NoAttr, a1, a1), Inv(a2, NoAttr, a1s)}

\* q appears or vanishes while p's path changes.
Changing == {Inv(a1, NoAttr, a1), Inv(a2, a1, a1)}

\* p alone, or both executables run.
Copies == {Inv(a1, NoAttr, a1), Inv(a1, a1, a1)}

\* The collection of processes fails (RunningProcesses returns nil).
Failing == Alive \cup {Inv(NoAttr, NoAttr, a1)}

\* A host with a row that is long gone, and a new one.
Reinstalled == {[w \in RowIds |-> IF w = RowOf(q) THEN there ELSE NoAttr]}
MCLeftovers == Reinstalled \cup {[w \in RowIds |-> NoAttr]}

MCReqIds == {r1, r2}
Symmetry == Permutations(MCReqIds)
=============================================================================
