---------------------------- MODULE AtomicIngest ----------------------------
(***************************************************************************)
(* What ingest promises, without handlers, statements, locks or retries:   *)
(* each batch of a host takes effect once, whole, and after the batches    *)
(* before it, on the rows of that host alone. It is the step Delivery      *)
(* takes for granted (its action Ingest), for several hosts.               *)
(***************************************************************************)
EXTENDS Naturals, Sequences, Inventory

CONSTANTS
  Hosts,   \* the hosts
  Batches  \* [Hosts -> Seq(Batch)]: what each host's agent delivers

VARIABLES
  ledger,  \* the batches that took effect: host and number
  rows     \* each host's table

vars == <<ledger, rows>>

Init ==
  /\ ledger = {}
  /\ rows = [a \in Hosts |-> [w \in RowIds |-> NoAttr]]

Ingest(a, n) ==
  /\ <<a, n>> \notin ledger
  /\ \A m \in 1..(n - 1) : <<a, m>> \in ledger
  /\ ledger' = ledger \cup {<<a, n>>}
  /\ \E t \in Applied(rows[a], Batches[a][n]) : rows' = [rows EXCEPT ![a] = t]

Next == \E a \in Hosts : \E n \in DOMAIN Batches[a] : Ingest(a, n)

Spec == Init /\ [][Next]_vars
=============================================================================
