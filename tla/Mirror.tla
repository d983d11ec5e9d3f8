------------------------------- MODULE Mirror -------------------------------
(***************************************************************************)
(* What delivery promises, without spool, requests or retries: the host's  *)
(* rows show the inventories the agent collected, each of them, one after  *)
(* the other, in the order they were collected. They may be behind, never  *)
(* ahead, and they skip and repeat none.                                   *)
(***************************************************************************)
EXTENDS Naturals, Sequences, Inventory

CONSTANT Leftovers  \* the tables the host may start with

VARIABLES
  collected,  \* the inventories the agent collected so far
  published,  \* how many of them the server has shown
  rows        \* what it shows

vars == <<collected, published, rows>>

Init ==
  /\ collected = <<>>
  /\ published = 0
  /\ rows \in Leftovers

Collect ==
  /\ \E inv \in Inventory : collected' = Append(collected, inv)
  /\ UNCHANGED <<published, rows>>

Publish ==
  /\ published < Len(collected)
  /\ published' = published + 1
  /\ rows' \in {t \in Table :
                  \A s \in Sources : Shows(t, collected[published'], s)}
  /\ UNCHANGED collected

Next == Collect \/ Publish

Spec == Init /\ [][Next]_vars
=============================================================================
