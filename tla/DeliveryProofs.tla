--------------------------- MODULE DeliveryProofs ---------------------------
(***************************************************************************)
(* Proofs about Delivery, for every number of batches, attempts and        *)
(* requests, every spool size and every combination of faults: the         *)
(* inductive invariant IInv, and from it type correctness, at-most-once    *)
(* ingestion, durability and the order of ingestion; and, where identities *)
(* do not share rows, that the server mirrors the agent.                   *)
(***************************************************************************)
EXTENDS Delivery, InventoryProofs, SequenceTheorems

-----------------------------------------------------------------------------
(* Sequences. *)

\* What Append adds.
LEMMA RangeOfAppend ==
  ASSUME NEW S, NEW q \in Seq(S), NEW e
  PROVE  Range(Append(q, e)) = Range(q) \cup {e}
<1>1. /\ DOMAIN q = 1..Len(q) /\ DOMAIN Append(q, e) = 1..(Len(q) + 1)
      /\ \A k \in 1..Len(q) : Append(q, e)[k] = q[k]
      /\ Append(q, e)[Len(q) + 1] = e
      /\ Len(q) \in Nat
  OBVIOUS
<1>2. \A x : x \in Range(Append(q, e)) => x \in Range(q) \cup {e}
  BY <1>1 DEF Range
<1>3. \A x : x \in Range(q) => x \in Range(Append(q, e))
  BY <1>1 DEF Range
<1>4. e \in Range(Append(q, e))
  <2>1. Len(q) + 1 \in DOMAIN Append(q, e)
    BY <1>1
  <2>2. QED BY <1>1, <2>1 DEF Range
<1>5. QED BY <1>2, <1>3, <1>4

\* A queue is its head and its tail.
LEMMA RangeOfTail ==
  ASSUME NEW S, NEW q \in Seq(S), q # <<>>
  PROVE  /\ Head(q) \in Range(q)
         /\ Range(q) = Range(Tail(q)) \cup {Head(q)}
<1>1. /\ DOMAIN q = 1..Len(q) /\ Len(q) \in Nat \ {0}
      /\ Head(q) = q[1]
      /\ DOMAIN Tail(q) = 1..(Len(q) - 1)
      /\ \A k \in 1..(Len(q) - 1) : Tail(q)[k] = q[k + 1]
  OBVIOUS
<1>2. Head(q) \in Range(q)
  <2>1. 1 \in DOMAIN q
    BY <1>1
  <2>2. QED BY <1>1, <2>1 DEF Range
<1>3. ASSUME NEW x \in Range(Tail(q)) PROVE x \in Range(q)
  <2>1. PICK k \in 1..(Len(q) - 1) : x = q[k + 1]
    BY <1>1 DEF Range
  <2>2. k + 1 \in DOMAIN q
    BY <1>1
  <2>3. QED BY <2>1, <2>2 DEF Range
<1>4. ASSUME NEW x \in Range(q), x # Head(q) PROVE x \in Range(Tail(q))
  <2>1. PICK k \in 1..Len(q) : x = q[k]
    BY <1>1 DEF Range
  <2>2. k - 1 \in 1..(Len(q) - 1)
    BY <1>1, <1>4, <2>1
  <2>3. Tail(q)[k - 1] = x /\ k - 1 \in DOMAIN Tail(q)
    BY <1>1, <2>1, <2>2
  <2>4. QED BY <2>3 DEF Range
<1>5. QED BY <1>2, <1>3, <1>4

-----------------------------------------------------------------------------
(* Initially. *)

LEMMA InitIInv == Init => IInv
<1> SUFFICES ASSUME Init PROVE IInv
  OBVIOUS
<1> USE DeliveryAssumption DEF Init
<1>1. TypeOK
  BY DEF TypeOK, AgentStates, Inventory, EmptyInventory, AttrOrNone, Request,
         Free, Stages, Codes
<1>2. Control /\ Answered /\ SpoolInOrder /\ Chained
  BY DEF Control, Answered, SpoolInOrder, Chained, Free, BatchIds
<1>3. Range(spool) = {} /\ Range(ledger) = {} /\ InFlight = {}
  BY DEF Range, InFlight, Free
<1>4. Known /\ Frontier /\ Durable
  BY <1>3 DEF Known, Frontier, Durable, BatchIds
<1>5. AtMostOnce /\ InOrder
  BY DEF AtMostOnce, IsInjective, InOrder
<1>6. QED BY <1>1, <1>2, <1>4, <1>5 DEF IInv

-----------------------------------------------------------------------------
(* Steps that start no request and touch neither spool nor ledger. *)

\* Every request in flight after the step was in flight before it.
NoNewRequest ==
  \A r \in ReqIds : reqs'[r].stage # "free" =>
    reqs[r].stage # "free" /\ reqs'[r].batch = reqs[r].batch

\* Such a step keeps what IInv says of the spool, the ledger and the batches.
LEMMA StoreUnchanged ==
  ASSUME IInv, NoNewRequest, UNCHANGED <<spool, ledger, hist, lost>>
  PROVE  (Known /\ SpoolInOrder /\ Frontier /\ Durable /\ AtMostOnce /\ InOrder)'
<1> USE DEF IInv
<1>1. BatchIds' = BatchIds
  BY DEF BatchIds
<1>2. \A r \in InFlight' : r \in InFlight /\ reqs'[r].batch = reqs[r].batch
  BY DEF InFlight, NoNewRequest
<1>3. Known' /\ Frontier'
  BY <1>1, <1>2 DEF Known, Frontier
<1>4. SpoolInOrder' /\ Durable' /\ AtMostOnce' /\ InOrder'
  BY <1>1 DEF SpoolInOrder, Durable, AtMostOnce, InOrder, IsInjective
<1>5. QED BY <1>3, <1>4

\* And if the agent is as alive as before with the same inventory, the chain.
LEMMA ChainUnchanged ==
  ASSUME Chained, UNCHANGED <<hist, last>>, agent' = "down" <=> agent = "down"
  PROVE  Chained'
  BY DEF Chained, BatchIds

\* What Reply and Advance do to the requests.
LEMMA ReplyEffect ==
  ASSUME TypeOK, NEW r \in ReqIds, NEW code \in Codes, reqs[r].stage # "free",
         Reply(r, code)
  PROVE  /\ reqs' \in [ReqIds -> Request]
         /\ NoNewRequest
         /\ \A x \in ReqIds : x # r => reqs'[x] = reqs[x]
         /\ r # awaiting => reqs'[r].stage = "free"
         /\ r = awaiting => /\ reqs'[r].stage = "replied"
                            /\ reqs'[r].batch = reqs[r].batch
                            /\ reqs'[r].code = code
<1> DEFINE new == IF r = awaiting
                    THEN [reqs[r] EXCEPT !.stage = "replied", !.code = code]
                    ELSE Free
<1>1. reqs' = [reqs EXCEPT ![r] = new]
  BY DEF Reply
<1>2. reqs[r] \in Request /\ reqs \in [ReqIds -> Request]
  BY DEF TypeOK
<1>3. /\ new \in Request
      /\ r # awaiting => new.stage = "free"
      /\ r = awaiting => /\ new.stage = "replied" /\ new.code = code
                         /\ new.batch = reqs[r].batch
  <2>1. CASE r # awaiting
    BY <2>1 DEF Request, Stages, Codes, Free
  <2>2. CASE r = awaiting
    <3>1. new = [reqs[r] EXCEPT !.stage = "replied", !.code = code]
      BY <2>2
    <3>2. "replied" \in Stages /\ reqs[r] \in Request
      BY <1>2 DEF Stages
    <3> HIDE DEF new
    <3>3. QED BY <2>2, <3>1, <3>2 DEF Request
  <2>3. QED BY <2>1, <2>2
<1> HIDE DEF new
<1>4. reqs'[r] = new /\ \A x \in ReqIds : x # r => reqs'[x] = reqs[x]
  BY <1>1, <1>2
<1>5. reqs' \in [ReqIds -> Request]
  BY <1>1, <1>2, <1>3
<1>6. QED BY <1>3, <1>4, <1>5 DEF NoNewRequest

LEMMA AdvanceEffect ==
  ASSUME TypeOK, NEW r \in ReqIds, NEW stage \in {"admitted", "checked"},
         reqs[r].stage # "free", Advance(r, stage)
  PROVE  /\ reqs' \in [ReqIds -> Request]
         /\ NoNewRequest
         /\ \A x \in ReqIds : x # r => reqs'[x] = reqs[x]
         /\ reqs'[r].stage = stage /\ reqs'[r].batch = reqs[r].batch
<1> DEFINE new == [reqs[r] EXCEPT !.stage = stage]
<1>1. reqs' = [reqs EXCEPT ![r] = new]
  BY DEF Advance
<1>2. reqs[r] \in Request /\ reqs \in [ReqIds -> Request]
  BY DEF TypeOK
<1>3. new \in Request /\ new.stage = stage /\ new.batch = reqs[r].batch
  BY <1>2 DEF Request, Stages
<1> HIDE DEF new
<1>4. reqs'[r] = new /\ \A x \in ReqIds : x # r => reqs'[x] = reqs[x]
  BY <1>1, <1>2
<1>5. reqs' \in [ReqIds -> Request]
  BY <1>1, <1>2, <1>3
<1>6. QED BY <1>3, <1>4, <1>5 DEF NoNewRequest

\* A handler that answers, without a 200 for what is not ingested, keeps IInv.
LEMMA ReplyStep ==
  ASSUME IInv, NEW r \in ReqIds, NEW code \in Codes,
         reqs[r].stage # "free",
         code = 200 => reqs[r].batch \in Range(ledger),
         Reply(r, code), serverIdle
  PROVE  IInv'
<1> USE DEF IInv
<1>1. UNCHANGED <<agent, last, spool, attempt, awaiting, status, ledger, rows,
                  hist, lost>>
  BY DEF serverIdle, agentVars, serverVars
<1>2. /\ reqs' \in [ReqIds -> Request]
      /\ NoNewRequest
      /\ \A x \in ReqIds : x # r => reqs'[x] = reqs[x]
      /\ r # awaiting => reqs'[r].stage = "free"
      /\ r = awaiting => /\ reqs'[r].stage = "replied"
                         /\ reqs'[r].batch = reqs[r].batch
                         /\ reqs'[r].code = code
  BY ReplyEffect
<1>3. TypeOK'
  BY <1>1, <1>2 DEF TypeOK
<1>4. awaiting \in ReqIds => reqs'[awaiting].batch = reqs[awaiting].batch
                             /\ (reqs[awaiting].stage # "free" => reqs'[awaiting].stage # "free")
  BY <1>2
<1>5. Control'
  BY <1>1, <1>4 DEF Control, TypeOK
<1>6. Answered'
  BY <1>1, <1>2 DEF Answered
<1>7. Chained'
  BY <1>1, ChainUnchanged
<1>8. QED BY <1>1, <1>2, <1>3, <1>5, <1>6, <1>7, StoreUnchanged

LEMMA AdvanceStep ==
  ASSUME IInv, NEW r \in ReqIds, NEW stage \in {"admitted", "checked"},
         reqs[r].stage # "free", Advance(r, stage), serverIdle
  PROVE  IInv'
<1> USE DEF IInv
<1>1. UNCHANGED <<agent, last, spool, attempt, awaiting, status, ledger, rows,
                  hist, lost>>
  BY DEF serverIdle, agentVars, serverVars
<1>2. /\ reqs' \in [ReqIds -> Request]
      /\ NoNewRequest
      /\ \A x \in ReqIds : x # r => reqs'[x] = reqs[x]
      /\ reqs'[r].stage = stage /\ reqs'[r].batch = reqs[r].batch
  BY AdvanceEffect
<1>3. TypeOK'
  BY <1>1, <1>2 DEF TypeOK
<1>4. awaiting \in ReqIds => reqs'[awaiting].batch = reqs[awaiting].batch
                             /\ (reqs[awaiting].stage # "free" => reqs'[awaiting].stage # "free")
  BY <1>2
<1>5. Control'
  BY <1>1, <1>4 DEF Control, TypeOK
<1>6. Answered'
  BY <1>1, <1>2 DEF Answered
<1>7. Chained'
  BY <1>1, ChainUnchanged
<1>8. QED BY <1>1, <1>2, <1>3, <1>5, <1>6, <1>7, StoreUnchanged

-----------------------------------------------------------------------------
(* The agent's steps. *)

\* An attempt that ends while the batch stays in the spool.
LEMMA AttemptEnds ==
  ASSUME IInv, agent = "posting",
         UNCHANGED <<last, spool, serverVars, hist, lost>>,
         awaiting' = NoReq,
         agent' \in {"idle", "backoff"}, attempt' \in 0..MaxAttempts,
         agent' = "backoff" => attempt' < MaxAttempts,
         \/ \E r \in ReqIds : r = awaiting /\ reqs' = [reqs EXCEPT ![r] = Free]
         \/ reqs' = reqs /\ reqs[awaiting].stage # "replied"
  PROVE  IInv'
<1> USE DeliveryAssumption DEF IInv
<1>1. UNCHANGED <<last, spool, status, ledger, rows, hist, lost>>
  BY DEF serverVars
<1>2. /\ reqs' \in [ReqIds -> Request]
      /\ NoNewRequest
      /\ \A x \in ReqIds : reqs'[x].stage # "replied"
  <2>1. CASE \E r \in ReqIds : r = awaiting /\ reqs' = [reqs EXCEPT ![r] = Free]
    <3>1. /\ Free \in Request /\ Free.stage = "free"
          /\ reqs \in [ReqIds -> Request]
      BY DEF TypeOK, Request, Free, Stages, Codes
    <3>2. /\ reqs' \in [ReqIds -> Request]
          /\ \A x \in ReqIds : reqs'[x] = IF x = awaiting THEN Free ELSE reqs[x]
      BY <2>1, <3>1
    <3>3. QED BY <3>1, <3>2 DEF NoNewRequest, Answered
  <2>2. CASE reqs' = reqs /\ reqs[awaiting].stage # "replied"
    BY <2>2 DEF TypeOK, NoNewRequest, Answered
  <2>3. QED BY <2>1, <2>2
<1>3. TypeOK'
  BY <1>1, <1>2 DEF TypeOK, AgentStates
<1>4. Control'
  BY <1>1 DEF Control
<1>5. Answered'
  BY <1>2 DEF Answered
<1>6. Chained'
  BY <1>1, ChainUnchanged
<1>7. QED BY <1>1, <1>2, <1>3, <1>4, <1>5, <1>6, StoreUnchanged

LEMMA GiveUpEffect ==
  ASSUME GiveUp
  PROVE  /\ agent' \in {"idle", "backoff"} /\ attempt' \in 0..MaxAttempts
         /\ agent' = "backoff" => attempt' < MaxAttempts
  BY DeliveryAssumption DEF GiveUp

LEMMA AttemptFailsEffect ==
  ASSUME TypeOK, AttemptFails
  PROVE  /\ awaiting' = NoReq
         /\ agent' \in {"idle", "backoff"} /\ attempt' \in 0..MaxAttempts
         /\ agent' = "backoff" => attempt' < MaxAttempts
  BY DeliveryAssumption DEF AttemptFails, GiveUp, TypeOK

\* While the agent posts it awaits a request, for the head of its spool.
LEMMA Posting ==
  ASSUME IInv, agent = "posting"
  PROVE  /\ awaiting \in ReqIds /\ spool # <<>>
         /\ reqs[awaiting].stage # "free" /\ reqs[awaiting].batch = Head(spool)
  BY DEF IInv, TypeOK, Control

LEMMA ReceiveRefusedStep == IInv /\ ReceiveRefused => IInv'
  BY Posting, GiveUpEffect, AttemptEnds DEF ReceiveRefused

LEMMA ReceiveErrorStep == IInv /\ ReceiveError => IInv'
  BY Posting, AttemptFailsEffect, AttemptEnds DEF ReceiveError, IInv

LEMMA TimeoutStep == IInv /\ Timeout => IInv'
<1> SUFFICES ASSUME IInv, Timeout PROVE IInv'
  OBVIOUS
<1>1. \/ reqs' = [reqs EXCEPT ![awaiting] = Free]
      \/ reqs' = reqs /\ reqs[awaiting].stage # "replied"
  BY DEF Timeout
<1>2. QED
  BY <1>1, Posting, AttemptFailsEffect, AttemptEnds DEF Timeout, IInv

\* A new request is for the head of the spool: nothing behind it was sent.
LEMMA SendStep ==
  ASSUME IInv, agent \in {"idle", "drain", "backoff"}, spool # <<>>,
         Send(Head(spool)), agent' = "posting", attempt' \in 0..MaxAttempts,
         UNCHANGED <<last, spool, serverVars, hist, lost>>
  PROVE  IInv'
<1> USE DEF IInv
<1>1. UNCHANGED <<last, spool, status, ledger, rows, hist, lost>>
  BY DEF serverVars
<1>2. PICK r \in ReqIds :
        /\ reqs[r].stage = "free" /\ awaiting' = r
        /\ reqs' = [reqs EXCEPT ![r] = [stage |-> "sent", batch |-> Head(spool), code |-> 0]]
  BY DEF Send
<1>3. spool \in Seq(Nat) /\ Head(spool) \in Range(spool) /\ Head(spool) \in Nat
  BY RangeOfTail DEF TypeOK
<1>4. /\ reqs' \in [ReqIds -> Request]
      /\ reqs'[r] = [stage |-> "sent", batch |-> Head(spool), code |-> 0]
      /\ \A x \in ReqIds : x # r => reqs'[x] = reqs[x]
  BY <1>2, <1>3 DEF TypeOK, Request, Stages, Codes
<1>5. TypeOK'
  BY <1>1, <1>2, <1>4 DEF TypeOK, AgentStates
<1>6. Control'
  BY <1>1, <1>2, <1>4, DeliveryAssumption DEF Control
<1>7. /\ BatchIds' = BatchIds
      /\ \A x \in InFlight' :
           \/ reqs'[x].batch = Head(spool)
           \/ x \in InFlight /\ reqs'[x].batch = reqs[x].batch
  BY <1>1, <1>4 DEF BatchIds, InFlight
<1>8. Known'
  BY <1>1, <1>3, <1>7 DEF Known
<1>9. Answered'
  BY <1>1, <1>2, <1>4, DeliveryAssumption DEF Answered, Control
<1>10. \A n \in Range(spool) : Head(spool) <= n
  <2>1. ASSUME NEW k \in DOMAIN spool PROVE spool[1] <= spool[k]
    BY <1>3 DEF SpoolInOrder
  <2>2. QED BY <2>1, <1>3 DEF Range
<1>11. Frontier'
  BY <1>1, <1>7, <1>10 DEF Frontier
<1>12. SpoolInOrder' /\ Durable' /\ AtMostOnce' /\ InOrder'
  BY <1>1, <1>7 DEF SpoolInOrder, Durable, AtMostOnce, InOrder, IsInjective
<1>13. Chained'
  BY <1>1, ChainUnchanged
<1>14. QED BY <1>5, <1>6, <1>8, <1>9, <1>11, <1>12, <1>13

LEMMA PostHeadStep == IInv /\ PostHead => IInv'
  BY SendStep, DeliveryAssumption DEF PostHead

LEMMA RetryStep == IInv /\ Retry => IInv'
<1> SUFFICES ASSUME IInv, Retry PROVE IInv'
  OBVIOUS
<1>1. spool # <<>> /\ attempt' \in 0..MaxAttempts
  BY DeliveryAssumption DEF Retry, IInv, Control, TypeOK
<1>2. QED BY <1>1, SendStep DEF Retry

LEMMA PeekFailsStep == IInv /\ PeekFails => IInv'
<1> SUFFICES ASSUME IInv, PeekFails PROVE IInv'
  OBVIOUS
<1> USE DEF IInv
<1>1. /\ UNCHANGED <<last, spool, attempt, awaiting, reqs, status, ledger, rows,
                     hist, lost>>
      /\ agent = "drain" /\ agent' = "idle"
  BY DEF PeekFails, serverVars
<1>2. TypeOK' /\ Control' /\ Answered' /\ NoNewRequest
  BY <1>1 DEF TypeOK, AgentStates, Control, Answered, NoNewRequest
<1>3. Chained'
  BY <1>1, ChainUnchanged
<1>4. QED BY <1>1, <1>2, <1>3, StoreUnchanged

LEMMA CrashStep == IInv /\ Crash => IInv'
<1> SUFFICES ASSUME IInv, Crash PROVE IInv'
  OBVIOUS
<1> USE DEF IInv
<1>1. /\ UNCHANGED <<spool, status, ledger, rows, hist, lost>>
      /\ agent' = "down" /\ last' = EmptyInventory /\ attempt' = 0
      /\ awaiting' = NoReq
      /\ reqs' = [r \in ReqIds |-> IF reqs[r].stage = "replied" THEN Free ELSE reqs[r]]
  BY DEF Crash, serverVars
<1>2. reqs \in [ReqIds -> Request] /\ Free \in Request /\ Free.stage = "free"
  BY DEF TypeOK, Request, Free, Stages, Codes
<1>3. /\ reqs' \in [ReqIds -> Request]
      /\ \A r \in ReqIds :
           reqs'[r] = IF reqs[r].stage = "replied" THEN Free ELSE reqs[r]
  BY <1>1, <1>2
<1>4. NoNewRequest /\ \A r \in ReqIds : reqs'[r].stage # "replied"
  BY <1>2, <1>3 DEF NoNewRequest
<1>5. EmptyInventory \in Inventory
  BY DEF EmptyInventory, Inventory, AttrOrNone
<1>6. TypeOK'
  BY <1>1, <1>3, <1>5, DeliveryAssumption DEF TypeOK, AgentStates
<1>7. Control' /\ Answered'
  BY <1>1, <1>4 DEF Control, Answered
<1>8. Chained'
  BY <1>1 DEF Chained, BatchIds
<1>9. QED BY <1>1, <1>4, <1>6, <1>7, <1>8, StoreUnchanged

LEMMA AbortStep ==
  ASSUME IInv, NEW r \in ReqIds, Abort(r)
  PROVE  IInv'
<1> USE DEF IInv
<1>1. /\ UNCHANGED <<last, spool, serverVars, hist, lost>>
      /\ reqs' = [reqs EXCEPT ![r] = Free]
      /\ reqs[r].stage # "free" /\ reqs[r].stage # "replied"
  BY DEF Abort, InFlight
<1>2. CASE r = awaiting
  <2>1. agent = "posting"
    BY <1>2, DeliveryAssumption DEF Control
  <2>2. AttemptFails
    BY <1>2 DEF Abort
  <2>3. QED BY <1>1, <1>2, <2>1, <2>2, AttemptFailsEffect, AttemptEnds
<1>3. CASE r # awaiting
  <2>1. UNCHANGED <<agent, last, spool, attempt, awaiting, status, ledger, rows,
                    hist, lost>>
    BY <1>1, <1>3 DEF Abort, serverVars
  <2>2. reqs \in [ReqIds -> Request] /\ Free \in Request /\ Free.stage = "free"
    BY DEF TypeOK, Request, Free, Stages, Codes
  <2>3. /\ reqs' \in [ReqIds -> Request]
        /\ \A x \in ReqIds : reqs'[x] = IF x = r THEN Free ELSE reqs[x]
    BY <1>1, <2>2
  <2>4. TypeOK' /\ NoNewRequest
    BY <2>1, <2>2, <2>3 DEF TypeOK, NoNewRequest
  <2>5. Control'
    BY <1>3, <2>1, <2>3 DEF Control, TypeOK
  <2>6. Answered'
    BY <2>1, <2>2, <2>3 DEF Answered
  <2>7. Chained'
    BY <2>1, ChainUnchanged
  <2>8. QED BY <2>1, <2>4, <2>5, <2>6, <2>7, StoreUnchanged
<1>4. QED BY <1>2, <1>3

LEMMA DecommissionStep == IInv /\ Decommission => IInv'
<1> SUFFICES ASSUME IInv, Decommission PROVE IInv'
  OBVIOUS
<1> USE DEF IInv
<1>1. /\ UNCHANGED <<agent, last, spool, attempt, awaiting, reqs, ledger, rows,
                     hist, lost>>
      /\ status' = "decommissioned"
  BY DEF Decommission, agentVars
<1>2. TypeOK' /\ Control' /\ Answered' /\ NoNewRequest
  BY <1>1 DEF TypeOK, Control, Answered, NoNewRequest
<1>3. Chained'
  BY <1>1, ChainUnchanged
<1>4. QED BY <1>1, <1>2, <1>3, StoreUnchanged

\* The head leaves the spool only after a 200, that is, when it is ingested.
LEMMA ReceiveAcceptedStep == IInv /\ ReceiveAccepted => IInv'
<1> SUFFICES ASSUME IInv, ReceiveAccepted PROVE IInv'
  OBVIOUS
<1> USE DEF IInv
<1>1. /\ UNCHANGED <<last, status, ledger, rows, hist, lost>>
      /\ agent = "posting" /\ awaiting' = NoReq /\ attempt' = 0
      /\ agent' = IF spool' = <<>> THEN "idle" ELSE "drain"
      /\ reqs' = [reqs EXCEPT ![awaiting] = Free]
      /\ reqs[awaiting].stage = "replied" /\ reqs[awaiting].code = 200
      /\ spool' = Tail(spool) \/ spool' = spool
  BY DEF ReceiveAccepted, serverVars
<1>2. /\ awaiting \in ReqIds /\ spool # <<>> /\ spool \in Seq(Nat)
      /\ reqs[awaiting].batch = Head(spool)
  BY <1>1, Posting DEF TypeOK
<1>3. Head(spool) \in Range(ledger)
  BY <1>1, <1>2 DEF Answered
<1>4. /\ spool' \in Seq(Nat)
      /\ Range(spool') \subseteq Range(spool)
      /\ Range(spool) \subseteq Range(spool') \cup {Head(spool)}
  <2>1. Tail(spool) \in Seq(Nat)
    BY <1>2
  <2>2. Range(spool) = Range(Tail(spool)) \cup {Head(spool)}
    BY <1>2, RangeOfTail
  <2>3. CASE spool' = Tail(spool)
    BY <2>1, <2>2, <2>3
  <2>4. CASE spool' = spool
    BY <1>2, <2>4
  <2>5. QED BY <1>1, <2>3, <2>4
<1>5. reqs \in [ReqIds -> Request] /\ Free \in Request /\ Free.stage = "free"
  BY DEF TypeOK, Request, Free, Stages, Codes
<1>6. /\ reqs' \in [ReqIds -> Request]
      /\ \A x \in ReqIds : reqs'[x] = IF x = awaiting THEN Free ELSE reqs[x]
  BY <1>1, <1>5
<1>7. TypeOK'
  BY <1>1, <1>4, <1>6, DeliveryAssumption DEF TypeOK, AgentStates
<1>8. Control'
  BY <1>1 DEF Control
<1>9. Answered'
  BY <1>1, <1>5, <1>6 DEF Answered
<1>10. /\ BatchIds' = BatchIds
       /\ \A x \in InFlight' : x \in InFlight /\ reqs'[x] = reqs[x]
  BY <1>1, <1>5, <1>6 DEF BatchIds, InFlight
<1>11. Known' /\ Frontier'
  BY <1>1, <1>4, <1>10 DEF Known, Frontier
<1>12. SpoolInOrder'
  <2>1. CASE spool' = spool
    BY <2>1 DEF SpoolInOrder
  <2>2. CASE spool' = Tail(spool)
    <3>1. /\ DOMAIN spool = 1..Len(spool) /\ Len(spool) \in Nat \ {0}
          /\ DOMAIN spool' = 1..(Len(spool) - 1)
          /\ \A k \in 1..(Len(spool) - 1) : spool'[k] = spool[k + 1]
      BY <1>2, <2>2
    <3>2. QED BY <3>1 DEF SpoolInOrder
  <2>3. QED BY <1>1, <2>1, <2>2
<1>13. Durable'
  BY <1>1, <1>3, <1>4, <1>10 DEF Durable
<1>14. AtMostOnce' /\ InOrder'
  BY <1>1 DEF AtMostOnce, InOrder, IsInjective
<1>15. Chained'
  BY <1>1, ChainUnchanged
<1>16. QED
  BY <1>7, <1>8, <1>9, <1>11, <1>12, <1>13, <1>14, <1>15

-----------------------------------------------------------------------------
(* Collecting: the batch built now is newer than all there is. *)

LEMMA CollectStep ==
  ASSUME IInv, NEW cur \in Inventory, NEW full \in BOOLEAN,
         CollectAndSpool(cur, full),
         agent \in {"down", "idle"}, agent' = "idle",
         full <=> agent = "down",
         UNCHANGED <<attempt, awaiting, reqs, serverVars>>
  PROVE  IInv'
<1> DEFINE b == Diff(last, cur, full)
           n == Len(hist) + 1
<1> USE DEF IInv
<1>1. /\ UNCHANGED <<attempt, awaiting, reqs, status, ledger, rows>>
      /\ last' = cur /\ last \in Inventory
  BY DEF serverVars, CollectAndSpool, TypeOK
<1>2. b \in Batch
  BY <1>1, DiffIsBatch
<1>3. Control' /\ NoNewRequest
  BY <1>1, DeliveryAssumption DEF Control, NoNewRequest
<1>4. Answered'
  BY <1>1 DEF Answered
<1>5. CASE IsEmptyDelta(b) /\ ~full
  <2>1. UNCHANGED <<spool, hist, lost>>
    BY <1>5 DEF CollectAndSpool
  <2>2. cur = last
    BY <1>1, <1>5, EmptyDeltaChangesNothing
  <2>3. TypeOK'
    BY <1>1, <2>1 DEF TypeOK, AgentStates
  <2>4. Chained'
    BY <1>1, <1>5, <2>1, <2>2 DEF Chained, BatchIds
  <2>5. QED BY <1>1, <1>3, <1>4, <2>1, <2>3, <2>4, StoreUnchanged
<1>6. CASE ~(IsEmptyDelta(b) /\ ~full)
  <2>1. /\ hist' = Append(hist, [inv |-> cur, batch |-> b])
        /\ Push(n)
    BY <1>6 DEF CollectAndSpool
  <2>2. hist \in Seq([inv : Inventory, batch : Batch]) /\ Len(hist) \in Nat
        /\ [inv |-> cur, batch |-> b] \in [inv : Inventory, batch : Batch]
    BY <1>2 DEF TypeOK
  <2> HIDE DEF b
  <2>3. /\ hist' \in Seq([inv : Inventory, batch : Batch])
        /\ Len(hist') = n /\ n \in Nat /\ n \notin BatchIds
        /\ BatchIds' = BatchIds \cup {n}
        /\ \A m \in BatchIds : hist'[m] = hist[m] /\ m < n /\ m \in Nat
        /\ hist'[n].inv = cur /\ hist'[n].batch = b
    BY <2>1, <2>2 DEF BatchIds
  <2>4. /\ \/ WithinCap = <<>>
           \/ WithinCap = spool
        /\ WithinCap \in Seq(Nat)
        /\ Range(WithinCap) \subseteq Range(spool)
    BY DEF WithinCap, TypeOK, Range
  <2>5. /\ spool' \in Seq(Nat)
        /\ Range(spool') \subseteq Range(spool) \cup {n}
        /\ Range(spool) \cup {n} \subseteq Range(spool') \cup lost'
        /\ lost \subseteq lost' /\ lost' \subseteq lost \cup Range(spool) \cup {n}
    <3>1. CASE UNCHANGED spool /\ lost' = lost \cup {n}
      BY <3>1 DEF TypeOK
    <3>2. CASE /\ spool' = Append(WithinCap, n)
               /\ lost' = lost \cup (Range(spool) \ Range(WithinCap))
      <4>1. Range(spool') = Range(WithinCap) \cup {n}
        BY <2>4, <3>2, RangeOfAppend
      <4>2. spool' \in Seq(Nat)
        BY <2>3, <2>4, <3>2
      <4>3. QED BY <2>4, <3>2, <4>1, <4>2
    <3>3. QED BY <2>1, <3>1, <3>2 DEF Push
  <2>6. TypeOK'
    BY <1>1, <2>3, <2>5 DEF TypeOK, AgentStates, Known
  <2>7. Known'
    BY <1>1, <2>3, <2>5 DEF Known, InFlight
  <2>8. Frontier'
    <3>1. ASSUME NEW m \in BatchIds PROVE m <= n
      BY <2>3
    <3>2. ASSUME NEW k \in Range(spool')
          PROVE  /\ \A m \in Range(ledger) : m <= k
                 /\ \A r \in InFlight : reqs[r].batch <= k
      BY <2>5, <3>1 DEF Frontier, Known
    <3>3. QED BY <1>1, <3>2 DEF Frontier, InFlight
  <2>9. SpoolInOrder'
    <3>1. CASE UNCHANGED spool
      BY <3>1 DEF SpoolInOrder
    <3>2. CASE spool' = Append(WithinCap, n)
      <4>1. \A j, k \in DOMAIN WithinCap : j < k => WithinCap[j] < WithinCap[k]
        BY <2>4 DEF SpoolInOrder
      <4>2. \A j \in DOMAIN WithinCap : WithinCap[j] < n
        BY <2>3, <2>4 DEF Known, Range
      <4>3. /\ DOMAIN WithinCap = 1..Len(WithinCap) /\ Len(WithinCap) \in Nat
            /\ DOMAIN spool' = 1..(Len(WithinCap) + 1)
            /\ \A j \in 1..Len(WithinCap) : spool'[j] = WithinCap[j]
            /\ spool'[Len(WithinCap) + 1] = n
        BY <2>4, <3>2
      <4>4. QED BY <4>1, <4>2, <4>3 DEF SpoolInOrder
    <3>3. QED BY <2>1, <3>1, <3>2 DEF Push
  <2>10. Durable'
    BY <1>1, <2>3, <2>5 DEF Durable
  <2>11. AtMostOnce' /\ InOrder'
    BY <1>1, <2>5 DEF AtMostOnce, InOrder, IsInjective
  <2>12. Chained'
    <3>1. b = Diff(IF full THEN EmptyInventory ELSE hist[n - 1].inv, cur, full)
          /\ (n = 1 => full)
      BY <2>2 DEF b, Chained
    <3>2. b.full = full
      BY DEF b, Diff
    <3>3. ASSUME NEW m \in BatchIds'
          PROVE  LET d == hist'[m].batch
                 IN /\ m = 1 => d.full
                    /\ d = Diff(IF d.full THEN EmptyInventory ELSE hist'[m - 1].inv,
                                hist'[m].inv, d.full)
      <4>1. CASE m = n
        <5>1. ~full => hist'[n - 1] = hist[n - 1]
          BY <2>2, <2>3, <3>1 DEF BatchIds
        <5>2. QED BY <2>3, <3>1, <3>2, <4>1, <5>1
      <4>2. CASE m \in BatchIds
        <5>1. m # 1 => hist'[m - 1] = hist[m - 1]
          BY <2>2, <2>3, <4>2 DEF BatchIds
        <5>2. QED BY <2>3, <4>2, <5>1 DEF Chained
      <4>3. QED BY <2>3, <4>1, <4>2
    <3>4. hist' # <<>> /\ last' = hist'[Len(hist')].inv
      BY <1>1, <2>1, <2>2, <2>3
    <3>5. QED BY <3>3, <3>4 DEF Chained
  <2>13. QED
    BY <1>3, <1>4, <2>6, <2>7, <2>8, <2>9, <2>10, <2>11, <2>12
<1>7. QED BY <1>5, <1>6

LEMMA StartStep == IInv /\ Start => IInv'
<1> SUFFICES ASSUME IInv, Start PROVE IInv'
  OBVIOUS
<1>1. PICK cur \in Collections : CollectAndSpool(cur, TRUE)
  BY DEF Start
<1>2. cur \in Inventory
  BY DeliveryAssumption
<1>3. QED BY <1>1, <1>2, CollectStep DEF Start

LEMMA TickStep ==
  ASSUME IInv, NEW source \in Sources, Tick(source)
  PROVE  IInv'
<1>1. PICK c \in Collections :
        CollectAndSpool([i \in Items |-> IF SourceOf[i] = source THEN c[i] ELSE last[i]],
                        FALSE)
  BY DEF Tick
<1> DEFINE cur == [i \in Items |-> IF SourceOf[i] = source THEN c[i] ELSE last[i]]
<1>2. cur \in Inventory
  BY DeliveryAssumption DEF Inventory, IInv, TypeOK
<1>3. agent = "idle" /\ agent' = "idle" /\ UNCHANGED <<attempt, awaiting, reqs, serverVars>>
  BY DEF Tick
<1> HIDE DEF cur
<1>4. CollectAndSpool(cur, FALSE)
  BY <1>1 DEF cur
<1>5. QED BY <1>2, <1>3, <1>4, CollectStep

-----------------------------------------------------------------------------
(* Ingesting: a batch that is not lost is at or before the head of the spool *)
(* and behind nothing that is in the ledger.                                 *)

LEMMA IngestStep ==
  ASSUME IInv, NEW r \in ReqIds, Ingest(r)
  PROVE  IInv'
<1> DEFINE n == reqs[r].batch
<1> USE DEF IInv
<1>1. /\ UNCHANGED <<agent, last, spool, attempt, awaiting, status, hist, lost>>
      /\ reqs[r].stage = "checked" /\ n \notin Range(ledger)
      /\ ledger' = Append(ledger, n)
      /\ rows' \in Table
  BY DEF Ingest, Recordable, Applied, agentVars
<1>2. PICK code \in Codes : Reply(r, code)
  BY DEF Ingest, Codes
<1>3. /\ reqs' \in [ReqIds -> Request]
      /\ NoNewRequest
      /\ \A x \in ReqIds : x # r => reqs'[x] = reqs[x]
      /\ r # awaiting => reqs'[r].stage = "free"
      /\ r = awaiting => /\ reqs'[r].stage = "replied"
                         /\ reqs'[r].batch = n
                         /\ reqs'[r].code = code
  BY <1>1, <1>2, ReplyEffect
<1>4. /\ n \in BatchIds /\ n \in Nat /\ ledger \in Seq(Nat)
      /\ \A k \in Range(spool) : n <= k
  BY <1>1 DEF Known, Frontier, InFlight, TypeOK, Request
<1>5. /\ ledger' \in Seq(Nat)
      /\ Range(ledger') = Range(ledger) \cup {n}
      /\ DOMAIN ledger = 1..Len(ledger) /\ Len(ledger) \in Nat
      /\ DOMAIN ledger' = 1..(Len(ledger) + 1)
      /\ \A k \in 1..Len(ledger) : ledger'[k] = ledger[k]
      /\ ledger'[Len(ledger) + 1] = n
  BY <1>1, <1>4, RangeOfAppend
<1> HIDE DEF n
<1>6. \A k \in 1..Len(ledger) : ledger[k] # n /\ ledger[k] \in Range(ledger)
  BY <1>1, <1>5 DEF Range
<1>7. TypeOK'
  BY <1>1, <1>3, <1>5 DEF TypeOK
<1>8. awaiting \in ReqIds => reqs'[awaiting].batch = reqs[awaiting].batch
                             /\ (reqs[awaiting].stage # "free" => reqs'[awaiting].stage # "free")
  BY <1>3 DEF n
<1>9. Control'
  BY <1>1, <1>8 DEF Control, TypeOK
<1>10. Answered'
  BY <1>1, <1>3, <1>5 DEF Answered
<1>11. /\ BatchIds' = BatchIds
       /\ \A x \in InFlight' : x \in InFlight /\ reqs'[x].batch = reqs[x].batch
  BY <1>1, <1>3 DEF BatchIds, InFlight, NoNewRequest
<1>12. Known' /\ Frontier'
  BY <1>1, <1>4, <1>5, <1>11 DEF Known, Frontier
<1>13. SpoolInOrder' /\ Durable'
  BY <1>1, <1>5, <1>11 DEF SpoolInOrder, Durable
<1>14. AtMostOnce'
  BY <1>5, <1>6 DEF AtMostOnce, IsInjective
<1>15. InOrder'
  <2>1. CASE n \in lost
    BY <1>1, <1>5, <2>1 DEF InOrder
  <2>2. CASE n \notin lost
    <3>1. n \in Range(spool)
      BY <1>1, <1>4, <2>2 DEF Durable
    <3>2. \A k \in 1..Len(ledger) : ledger[k] <= n
      BY <1>6, <3>1 DEF Frontier
    <3>3. \A k \in 1..Len(ledger) : ledger[k] \in Nat
      BY <1>4
    <3>4. QED BY <1>1, <1>4, <1>5, <3>2, <3>3 DEF InOrder
  <2>3. QED BY <2>1, <2>2
<1>16. Chained'
  BY <1>1, ChainUnchanged
<1>17. QED
  BY <1>7, <1>9, <1>10, <1>12, <1>13, <1>14, <1>15, <1>16

-----------------------------------------------------------------------------
(* The invariant. *)

LEMMA NextIInv == IInv /\ [Next]_vars => IInv'
<1> SUFFICES ASSUME IInv, [Next]_vars PROVE IInv'
  OBVIOUS
<1>1. CASE Agent
  <2>1. CASE Start BY <2>1, StartStep
  <2>2. CASE Crash BY <2>2, CrashStep
  <2>3. CASE \E s \in Sources : Tick(s) BY <2>3, TickStep
  <2>4. CASE PostHead BY <2>4, PostHeadStep
  <2>5. CASE PeekFails BY <2>5, PeekFailsStep
  <2>6. CASE Retry BY <2>6, RetryStep
  <2>7. CASE Timeout BY <2>7, TimeoutStep
  <2>8. CASE ReceiveAccepted BY <2>8, ReceiveAcceptedStep
  <2>9. CASE ReceiveRefused BY <2>9, ReceiveRefusedStep
  <2>10. CASE ReceiveError BY <2>10, ReceiveErrorStep
  <2>11. QED
    BY <1>1, <2>1, <2>2, <2>3, <2>4, <2>5, <2>6, <2>7, <2>8, <2>9, <2>10
       DEF Agent
<1>2. CASE Decommission
  BY <1>2, DecommissionStep
<1>3. ASSUME NEW r \in ReqIds,
             \/ Admit(r) \/ RejectBody(r) \/ RejectAgent(r)
             \/ CheckSeen(r) \/ CheckFails(r)
             \/ Ingest(r) \/ IngestFails(r) \/ Abort(r)
      PROVE IInv'
  <2> USE DEF Codes
  <2>1. CASE Admit(r) BY <2>1, AdvanceStep DEF Admit
  <2>2. CASE RejectBody(r) BY <2>2, ReplyStep DEF RejectBody
  <2>3. CASE RejectAgent(r) BY <2>3, ReplyStep DEF RejectAgent
  <2>4. CASE CheckSeen(r) BY <2>4, ReplyStep, AdvanceStep DEF CheckSeen
  <2>5. CASE CheckFails(r) BY <2>5, ReplyStep DEF CheckFails
  <2>6. CASE Ingest(r) BY <2>6, IngestStep
  <2>7. CASE IngestFails(r) BY <2>7, ReplyStep DEF IngestFails
  <2>8. CASE Abort(r) BY <2>8, AbortStep
  <2>9. QED
    BY <1>3, <2>1, <2>2, <2>3, <2>4, <2>5, <2>6, <2>7, <2>8
<1>4. CASE UNCHANGED vars
  <2>1. UNCHANGED <<agent, last, spool, attempt, awaiting, reqs, status, ledger,
                    rows, hist, lost>>
    BY <1>4 DEF vars, agentVars, serverVars
  <2>2. TypeOK' /\ Control' /\ Answered' /\ NoNewRequest
    BY <2>1 DEF IInv, TypeOK, Control, Answered, NoNewRequest
  <2>3. Chained'
    BY <2>1, ChainUnchanged DEF IInv
  <2>4. QED BY <2>1, <2>2, <2>3, StoreUnchanged DEF IInv
<1>5. QED BY <1>1, <1>2, <1>3, <1>4 DEF Next, Server

\* The inductive invariant of delivery.
THEOREM Invariance == Spec => []IInv
  BY InitIInv, NextIInv, PTL DEF Spec

\* Every variable stays within its type; a retry never exceeds MaxAttempts.
THEOREM TypeCorrect == Spec => []TypeOK
<1>1. IInv => TypeOK BY DEF IInv
<1>2. QED BY <1>1, Invariance, PTL

\* No batch takes effect twice, however often and concurrently it is posted.
THEOREM IngestedAtMostOnce == Spec => []AtMostOnce
<1>1. IInv => AtMostOnce BY DEF IInv
<1>2. QED BY <1>1, Invariance, PTL

\* No batch vanishes other than by the cap or a failed push: the spool gives
\* up a batch only when the server has it.
THEOREM NothingForgotten == Spec => []Durable
<1>1. IInv => Durable BY DEF IInv
<1>2. QED BY <1>1, Invariance, PTL

\* Only a batch that was dropped from the spool is ever ingested late.
THEOREM IngestedInOrder == Spec => []InOrder
<1>1. IInv => InOrder BY DEF IInv
<1>2. QED BY <1>1, Invariance, PTL

-----------------------------------------------------------------------------
(* Mirroring. *)

\* All other steps leave the server's tables alone and only add to history.
LEMMA OnlyIngestWrites ==
  ASSUME IInv, [Next]_vars, ~ \E r \in ReqIds : Ingest(r)
  PROVE  /\ UNCHANGED <<ledger, rows>>
         /\ \A m \in BatchIds : hist'[m] = hist[m]
<1>1. ASSUME NEW cur, NEW full, CollectAndSpool(cur, full)
      PROVE  \A m \in BatchIds : hist'[m] = hist[m]
  <2>1. \/ UNCHANGED hist
        \/ \E e : hist' = Append(hist, e)
    BY <1>1 DEF CollectAndSpool
  <2>2. Len(hist) \in Nat /\ hist \in Seq([inv : Inventory, batch : Batch])
    BY DEF IInv, TypeOK
  <2>3. QED BY <2>1, <2>2 DEF BatchIds
<1>2. CASE Start \/ \E s \in Sources : Tick(s)
  BY <1>1, <1>2 DEF Start, Tick, serverVars
<1>3. CASE \/ Crash \/ PostHead \/ PeekFails \/ Retry \/ Timeout
           \/ ReceiveAccepted \/ ReceiveRefused \/ ReceiveError
  BY <1>3 DEF Crash, PostHead, PeekFails, Retry, Timeout, ReceiveAccepted,
     ReceiveRefused, ReceiveError, serverVars
<1>4. CASE Decommission
  BY <1>4 DEF Decommission
<1>5. ASSUME NEW r \in ReqIds,
             \/ Admit(r) \/ RejectBody(r) \/ RejectAgent(r)
             \/ CheckSeen(r) \/ CheckFails(r) \/ IngestFails(r) \/ Abort(r)
      PROVE  UNCHANGED <<ledger, rows, hist>>
  BY <1>5 DEF Admit, RejectBody, RejectAgent, CheckSeen, CheckFails,
     IngestFails, Abort, serverIdle, serverVars
<1>6. CASE UNCHANGED vars
  BY <1>6 DEF vars, serverVars
<1>7. QED BY <1>2, <1>3, <1>4, <1>5, <1>6 DEF Next, Agent, Server

LEMMA HistoryEntry ==
  ASSUME TypeOK, NEW m \in BatchIds
  PROVE  hist[m].inv \in Inventory /\ hist[m].batch \in Batch
<1> DEFINE S == [inv : Inventory, batch : Batch]
<1>1. hist \in Seq(S) /\ m \in 1..Len(hist)
  BY DEF TypeOK, BatchIds
<1> HIDE DEF S
<1>2. hist[m] \in S
  BY <1>1, ElementOfSeq
<1>3. QED BY <1>2 DEF S

LEMMA MirroredInit == Init => Mirrored
  BY DEF Init, Mirrored

LEMMA MirroredNext ==
  ASSUME DistinctRows, IInv, IInv', Mirrored, [Next]_vars
  PROVE  Mirrored'
<1> USE DEF IInv
<1>0. /\ ledger \in Seq(Nat) /\ Len(ledger) \in Nat
      /\ DOMAIN ledger = 1..Len(ledger)
      /\ \A k \in DOMAIN ledger : ledger[k] \in BatchIds
  BY DEF TypeOK, Known, Range
<1>1. CASE ~ \E r \in ReqIds : Ingest(r)
  <2>1. /\ UNCHANGED <<ledger, rows>>
        /\ \A k \in DOMAIN ledger : hist'[ledger[k]] = hist[ledger[k]]
    BY <1>0, <1>1, OnlyIngestWrites
  <2>2. ASSUME NEW s \in Sources, NEW k \in DOMAIN ledger, AnchoredAt(k, s)'
        PROVE  Shows(rows, hist[Last(ledger)].inv, s)'
    <3>1. \A j \in (k + 1)..Len(ledger) : j \in DOMAIN ledger
      BY <1>0
    <3>2. AnchoredAt(k, s)
      BY <2>1, <2>2, <3>1 DEF AnchoredAt
    <3>3. Last(ledger)' = Last(ledger) /\ Len(ledger) \in DOMAIN ledger
      BY <1>0, <2>1 DEF Last
    <3>4. hist'[Last(ledger)'] = hist[Last(ledger)]
      BY <2>1, <3>3 DEF Last
    <3>5. QED BY <2>1, <3>2, <3>4 DEF Mirrored
  <2>3. QED BY <2>1, <2>2 DEF Mirrored
<1>2. ASSUME NEW r \in ReqIds, Ingest(r) PROVE Mirrored'
  <2> DEFINE n == reqs[r].batch
  <2>1. /\ UNCHANGED hist
        /\ ledger' = Append(ledger, n)
        /\ rows' \in Applied(rows, hist[n].batch)
        /\ n \in BatchIds
    BY <1>2 DEF Ingest, Known, InFlight
  <2> HIDE DEF n
  <2>2. /\ DOMAIN ledger' = 1..(Len(ledger) + 1)
        /\ Len(ledger') = Len(ledger) + 1
        /\ \A k \in 1..Len(ledger) : ledger'[k] = ledger[k]
        /\ ledger'[Len(ledger) + 1] = n
        /\ Last(ledger)' = n
    BY <1>0, <2>1 DEF Last
  <2>3. /\ rows \in Table
        /\ hist[n].inv \in Inventory
        /\ hist[n].batch = Diff(IF hist[n].batch.full THEN EmptyInventory
                                ELSE hist[n - 1].inv,
                                hist[n].inv, hist[n].batch.full)
        /\ hist[n].batch.full \in BOOLEAN
    <3>1. rows \in Table
      BY DEF TypeOK
    <3>2. hist[n].inv \in Inventory /\ hist[n].batch.full \in BOOLEAN
      BY <2>1, HistoryEntry DEF Batch
    <3>3. QED BY <2>1, <3>1, <3>2 DEF Chained
  <2>4. ASSUME NEW s \in Sources, NEW k \in DOMAIN ledger', AnchoredAt(k, s)'
        PROVE  Shows(rows, hist[Last(ledger)].inv, s)'
    <3>1. CASE k = Len(ledger) + 1
      <4>1. hist[n].batch.full /\ \E i \in Present(hist[n].inv) : SourceOf[i] = s
        BY <2>1, <2>2, <2>4, <3>1 DEF AnchoredAt
      <4>2. hist[n].batch = Diff(EmptyInventory, hist[n].inv, TRUE)
        BY <2>3, <4>1
      <4>3. Shows(rows', hist[n].inv, s)
        BY <2>1, <2>3, <4>1, <4>2, SnapshotApplied
      <4>4. QED BY <2>1, <2>2, <4>3
    <3>2. CASE k \in DOMAIN ledger
      <4>1. /\ \A j \in (k + 1)..Len(ledger) : j - 1 \in 1..Len(ledger) /\ j \in 1..Len(ledger)
            /\ \A j \in (k + 1)..Len(ledger) : j \in (k + 1)..Len(ledger')
            /\ Len(ledger) + 1 \in (k + 1)..Len(ledger')
            /\ Len(ledger) \in 1..Len(ledger)
            /\ Len(ledger) + 1 - 1 = Len(ledger)
        BY <1>0, <2>2, <3>2
      <4>2. AnchoredAt(k, s)
        BY <1>0, <2>1, <2>2, <2>4, <3>2, <4>1 DEF AnchoredAt
      <4>3. n = Last(ledger) + 1 /\ ~ hist[n].batch.full
        BY <2>1, <2>2, <2>4, <4>1 DEF AnchoredAt, Last
      <4>4. /\ Last(ledger) \in BatchIds /\ n - 1 = Last(ledger)
            /\ hist[n - 1].inv \in Inventory
        <5>1. Last(ledger) \in BatchIds
          BY <1>0, <4>1 DEF Last
        <5>2. Last(ledger) \in Nat
          BY <5>1 DEF BatchIds
        <5>3. n - 1 = Last(ledger)
          BY <4>3, <5>2
        <5>4. hist[Last(ledger)].inv \in Inventory
          BY <5>1, HistoryEntry
        <5>5. QED BY <5>1, <5>3, <5>4
      <4>5. Shows(rows, hist[n - 1].inv, s)
        BY <3>2, <4>2, <4>4 DEF Mirrored
      <4>6. hist[n].batch = Diff(hist[n - 1].inv, hist[n].inv, FALSE)
        BY <2>3, <4>3
      <4>7. Shows(rows', hist[n].inv, s)
        BY <2>1, <2>3, <4>4, <4>5, <4>6, DeltaApplied
      <4>8. QED BY <2>1, <2>2, <4>7
    <3>3. QED BY <1>0, <2>2, <3>1, <3>2
  <2>5. QED BY <2>4 DEF Mirrored
<1>3. QED BY <1>1, <1>2

\* Where no two identities share a row, the server shows, source by source,
\* what the agent had collected for the last batch it ingested, as long as the
\* ledger runs on from a full snapshot: under every fault of the network, the
\* database, the disk and the agent.
THEOREM ServerMirrorsAgent ==
  ASSUME DistinctRows
  PROVE  Spec => []Mirrored
<1>1. IInv /\ IInv' /\ Mirrored /\ [Next]_vars => Mirrored'
  BY MirroredNext
<1>2. QED BY <1>1, MirroredInit, Invariance, PTL DEF Spec
=============================================================================
