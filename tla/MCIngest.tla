------------------------------ MODULE MCIngest ------------------------------
(***************************************************************************)
(* IngestTx and Reports for TLC: two hosts that run the same two           *)
(* executables and list them in opposite order.                            *)
(***************************************************************************)
EXTENDS Reports, TLC

CONSTANTS x, y, i, plain, moved, signed, A, B, h1, h2, h3

MCItems == {x, y, i}
MCAttrs == {plain, moved, signed}
MCSourceOf == (x :> "running") @@ (y :> "running") @@ (i :> "installed")
MCCatalogOf == (x :> "cx") @@ (y :> "cy") @@ (i :> "ci")
MCSignedIn == (plain :> FALSE) @@ (moved :> FALSE) @@ (signed :> TRUE)
MCPlaceIn == (plain :> "/usr") @@ (moved :> "/opt") @@ (signed :> "/usr")
MCColumns == {"/usr", "/opt"} \X BOOLEAN
MCColumnsOf == [t \in MCAttrs |-> <<MCPlaceIn[t], MCSignedIn[t]>>]

\* x and y are builds of one program; i is the package they come from.
MCNameOf == [j \in MCItems |-> "vim"]
MCVersionOf == (x :> "") @@ (y :> "") @@ (i :> "9")

Up(item, attr) == [op |-> "upsert", item |-> item, attr |-> attr]
Down(item, attr) == [op |-> "remove", item |-> item, attr |-> attr]
Inv(X, Y, I) == (x :> X) @@ (y :> Y) @@ (i :> I)

\* A restarts when x has stopped and a package is there; B's x moves and its
\* package goes.
MCPayloads ==
  (A :> <<[full |-> TRUE, deltas |-> <<Up(x, plain), Up(y, signed)>>,
           inv |-> Inv(plain, signed, NoAttr)],
          [full |-> TRUE, deltas |-> <<Up(y, signed), Up(i, plain)>>,
           inv |-> Inv(NoAttr, signed, plain)]>>) @@
  (B :> <<[full |-> TRUE, deltas |-> <<Up(y, signed), Up(x, plain), Up(i, plain)>>,
           inv |-> Inv(plain, signed, plain)],
          [full |-> FALSE, deltas |-> <<Up(x, moved), Down(i, plain)>>,
           inv |-> Inv(moved, signed, NoAttr)]>>)
MCHandlers == {h1, h2, h3}

\* These payloads satisfy the conditions of the theorems.
ASSUME ConditionsHold ==
  /\ DiffOrder /\ PayloadsChained /\ SnapshotsCover /\ VerdictsAgree
  /\ KeysName /\ RunningApart /\ DistinctRows
=============================================================================
