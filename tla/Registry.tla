------------------------------ MODULE Registry ------------------------------
(***************************************************************************)
(* What enrollment promises, without certificates on disk, look-ups or     *)
(* retries: a machine keeps the host row it was given first, each of its   *)
(* enrollments adds one certificate to that row and puts facts of this     *)
(* machine there, and nothing of another machine changes.                  *)
(***************************************************************************)
CONSTANTS
  Machines,  \* machines that may enroll
  FactsOf,   \* [Machines -> sets]: the facts a machine may report
  Certs      \* the certificates

VARIABLES
  row,   \* each machine's host rows, with their ids: one, or none yet
  certs  \* the certificates each machine was given

vars == <<row, certs>>

Init ==
  /\ row = [m \in Machines |-> {}]
  /\ certs = [m \in Machines |-> {}]

Given == UNION {certs[m] : m \in Machines}

Register(m, n) ==
  /\ n \notin Given
  /\ certs' = [certs EXCEPT ![m] = @ \cup {n}]
  /\ \E r \in row'[m] :
       /\ row' = [row EXCEPT ![m] = {r}]
       /\ r.facts \in FactsOf[m]
       /\ \A q \in row[m] : q.id = r.id
       /\ \A o \in Machines \ {m} : \A q \in row[o] : q.id # r.id

Next == \E m \in Machines, n \in Certs : Register(m, n)

Spec == Init /\ [][Next]_vars
=============================================================================
