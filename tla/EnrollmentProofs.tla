-------------------------- MODULE EnrollmentProofs --------------------------
(***************************************************************************)
(* Proofs about Enrollment, for every number of machines and enrollments,  *)
(* whatever facts they report and whichever faults happen: the inductive   *)
(* invariant IInv, and from it that a stored certificate fits its key and  *)
(* is registered. And, for machines that can be told apart by what they    *)
(* report, that each has one host row, and that Enrollment implements      *)
(* Registry.                                                               *)
(***************************************************************************)
EXTENDS Enrollment, TLAPS

\* The constants the proofs keep apart.
LEMMA Constants ==
  /\ Absent \notin Calls /\ Torn \notin Calls /\ Absent # Torn
  /\ NoHost \notin Nat
BY EnrollmentAssumption

\* A call that is under way has facts to look up.
LEMMA CallUnderWay ==
  ASSUME TypeOK, NEW n \in Calls, calls[n].stage # "free"
  PROVE  calls[n] \in Call
BY DEF TypeOK, Free

LEMMA InitIInv == Init => IInv
<1> SUFFICES ASSUME Init PROVE IInv
  OBVIOUS
<1>1. TypeOK
  BY DEF Init, TypeOK, Contents, Files, ProcStates, Free
<1>2. \A m \in Machines : disk[m]["crt"] = Absent /\ proc[m] = "off"
  BY DEF Init, Files
<1>3. \A n \in Calls : calls[n].stage = "free"
  BY DEF Init, Free
<1>4. QED BY <1>1, <1>2, <1>3, Constants DEF IInv, KeyFits, Registered, Progress,
               Answered, HostFound

-----------------------------------------------------------------------------
(* The agent's steps. *)

\* A step that leaves the server alone keeps what is known of its calls.
LEMMA ServerKept ==
  ASSUME IInv, UNCHANGED <<calls, hosts, agents>>
  PROVE  Answered' /\ HostFound' /\ Certs' = Certs
BY DEF IInv, Answered, HostFound, Certs, HostIds

LEMMA BootStep ==
  ASSUME IInv, NEW m \in Machines, Boot(m)
  PROVE  IInv'
<1> USE DEF IInv
<1>1. TypeOK'
  BY DEF Boot, Goto, TypeOK, Contents, Files, ProcStates
<1>2. Progress'
  BY Constants, ServerKept DEF Boot, Goto, TypeOK, Progress, ProcStates
<1>3. KeyFits' /\ Registered'
  BY ServerKept DEF Boot, KeyFits, Registered
<1>4. QED BY <1>1, <1>2, <1>3, ServerKept DEF Boot

LEMMA RequestCertStep ==
  ASSUME IInv, NEW m \in Machines, RequestCert(m)
  PROVE  IInv'
<1> USE DEF IInv
<1>1. PICK n \in Calls, f \in FactsOf[m] :
        /\ Unused(n)
        /\ Write(m, "key", n)
        /\ calls' = [calls EXCEPT ![n] = [machine |-> m, facts |-> f, level |-> 1,
                                          stage |-> "lookup", host |-> NoHost]]
  BY DEF RequestCert
<1>2. f \in Facts
  BY EnrollmentAssumption
<1>3. TypeOK'
  <2>1. [machine |-> m, facts |-> f, level |-> 1, stage |-> "lookup",
         host |-> NoHost] \in Call
    BY <1>2 DEF Call, Stages, Levels
  <2>2. calls' \in [Calls -> Call \cup {Free}]
    BY <1>1, <2>1 DEF TypeOK
  <2>3. QED BY <1>1, <2>2 DEF RequestCert, Goto, Write, TypeOK, Contents, Files,
                 ProcStates
<1>4. Certs' = Certs
  BY DEF RequestCert, Certs
<1>5. disk[m]["crt"] = Absent
  BY DEF RequestCert, Progress
<1>6. Progress'
  BY <1>1, <1>4, <1>5 DEF RequestCert, Goto, Write, TypeOK, Progress, Files
<1>7. KeyFits' /\ Registered'
  BY <1>1, <1>4, <1>5, Constants DEF Write, TypeOK, KeyFits, Registered, Files
<1>8. Answered' /\ HostFound'
  BY <1>1, <1>4 DEF RequestCert, Answered, HostFound, HostIds, TypeOK
<1>9. QED BY <1>3, <1>6, <1>7, <1>8

\* Steps of doEnroll that write no file.
LEMMA AnswerStep ==
  ASSUME IInv, NEW m \in Machines, ReceiveCert(m) \/ EnrollmentFails(m)
  PROVE  IInv'
<1> USE DEF IInv
<1>1. UNCHANGED <<disk, calls, hosts, agents>>
  BY DEF ReceiveCert, EnrollmentFails
<1>2. TypeOK'
  BY DEF ReceiveCert, EnrollmentFails, Goto, TypeOK, Contents, ProcStates
<1>3. Progress'
  BY <1>1, ServerKept DEF ReceiveCert, EnrollmentFails, Goto, TypeOK, Progress,
       Answered
<1>4. QED BY <1>1, <1>2, <1>3, ServerKept DEF KeyFits, Registered

LEMMA StoreStep ==
  ASSUME IInv, NEW m \in Machines, StoreCert(m) \/ StoreCA(m) \/ SaveState(m)
  PROVE  IInv'
<1> USE DEF IInv
<1>1. UNCHANGED <<calls, hosts, agents>> /\ disk[m]["key"] \in Calls
  BY DEF StoreCert, StoreCA, SaveState, Progress
<1>2. TypeOK'
  <2>1. StoreCert(m) => TypeOK'
    BY <1>1 DEF StoreCert, Goto, Write, TypeOK, Contents, Files, ProcStates
  <2>2. StoreCA(m) => TypeOK'
    BY <1>1 DEF StoreCA, Goto, Write, TypeOK, Contents, Files, ProcStates
  <2>3. SaveState(m) => TypeOK'
    BY <1>1 DEF SaveState, Goto, Write, TypeOK, Contents, Files, ProcStates
  <2>4. QED BY <2>1, <2>2, <2>3
<1>3. Progress'
  <2>1. StoreCert(m) => Progress'
    BY <1>1, ServerKept DEF StoreCert, Goto, Write, TypeOK, Progress, Files
  <2>2. StoreCA(m) => Progress'
    BY <1>1, ServerKept DEF StoreCA, Goto, Write, TypeOK, Progress, Files
  <2>3. SaveState(m) => Progress'
    BY <1>1, ServerKept DEF SaveState, Goto, Write, TypeOK, Progress, Files
  <2>4. QED BY <2>1, <2>2, <2>3
<1>4. KeyFits' /\ Registered'
  BY <1>1, ServerKept DEF StoreCert, StoreCA, SaveState, Write, TypeOK, Progress,
       KeyFits, Registered, Files
<1>5. QED BY <1>1, <1>2, <1>3, <1>4, ServerKept

LEMMA ConnectStep ==
  ASSUME IInv, NEW m \in Machines, Connect(m)
  PROVE  IInv'
<1> USE DEF IInv
<1>1. UNCHANGED <<disk, calls, hosts, agents>>
  BY DEF Connect
<1>2. TypeOK'
  BY DEF Connect, Goto, TypeOK, Contents, ProcStates
<1>3. Progress'
  BY <1>1, ServerKept DEF Connect, Goto, TypeOK, Progress
<1>4. QED BY <1>1, <1>2, <1>3, ServerKept DEF KeyFits, Registered

\* A crash may tear the file at hand: the certificate only before it is used,
\* the key only while there is no certificate.
LEMMA CrashStep ==
  ASSUME IInv, NEW m \in Machines, Crash(m)
  PROVE  IInv'
<1> USE DEF IInv
<1>1. UNCHANGED <<calls, hosts, agents>>
  BY DEF Crash
<1>2. \/ UNCHANGED disk
      \/ \E f \in Files : Write(m, f, Torn) /\ (f = "key" => disk[m]["crt"] = Absent)
  <2>1. proc[m] \in ProcStates \ {"off"}
    BY DEF Crash, TypeOK
  <2>2. InWriting[proc[m]] \subseteq Files
    BY <2>1 DEF InWriting, Files, ProcStates
  <2>3. "key" \in InWriting[proc[m]] => proc[m] = "enroll"
    BY <2>1 DEF InWriting, ProcStates
  <2>4. QED BY <2>2, <2>3 DEF Crash, Progress
<1>3. TypeOK'
  BY <1>2 DEF Crash, Goto, Write, TypeOK, Contents, Files, ProcStates
<1>4. Progress'
  BY <1>2, <1>1, ServerKept DEF Crash, Goto, Write, TypeOK, Progress, Files
<1>5. ASSUME NEW x \in Machines, disk'[x]["crt"] \in Calls
      PROVE  disk'[x]["crt"] = disk[x]["crt"] /\ disk'[x]["key"] = disk[x]["key"]
  <2>1. CASE UNCHANGED disk
    BY <2>1
  <2>2. ASSUME NEW f \in Files, Write(m, f, Torn), f = "key" => disk[m]["crt"] = Absent
        PROVE  disk'[x]["crt"] = disk[x]["crt"] /\ disk'[x]["key"] = disk[x]["key"]
    BY <1>5, <2>2, Constants DEF Write, TypeOK, Files
  <2>3. QED BY <1>2, <2>1, <2>2
<1>6. KeyFits' /\ Registered'
  BY <1>1, <1>5, ServerKept DEF KeyFits, Registered
<1>7. QED BY <1>1, <1>3, <1>4, <1>6, ServerKept

-----------------------------------------------------------------------------
(* The server's steps. *)

\* A step that adds agent rows and leaves the machines alone.
LEMMA AgentKept ==
  ASSUME IInv, UNCHANGED <<proc, disk, agentID>>, Certs \subseteq Certs'
  PROVE  Progress' /\ KeyFits' /\ Registered'
BY DEF IInv, Progress, KeyFits, Registered

LEMMA LookupStep ==
  ASSUME IInv, NEW n \in Calls, Lookup(n)
  PROVE  IInv'
<1> USE DEF IInv
<1>1. calls[n] \in Call
  BY CallUnderWay DEF Lookup
<1>2. Certs' = Certs /\ HostIds' = HostIds
  BY DEF Lookup, Certs, HostIds
<1>3. calls[n].level \in Levels /\ calls[n].stage = "lookup"
  BY <1>1 DEF Lookup, Call
<1>4. \/ \E h \in HostIds : calls' = [calls EXCEPT ![n].stage = "write", ![n].host = h]
      \/ /\ calls[n].level = 4
         /\ calls' = [calls EXCEPT ![n].stage = "write"]
      \/ /\ calls[n].level \in 1..3
         /\ calls' = [calls EXCEPT ![n].level = calls[n].level + 1]
  BY <1>3 DEF Lookup, Levels
<1>5. TypeOK'
  <2>1. calls' \in [Calls -> Call \cup {Free}]
    <3>1. ASSUME NEW h \in HostIds
          PROVE  [calls[n] EXCEPT !.stage = "write", !.host = h] \in Call
      <4>1. h \in Nat /\ "write" \in Stages \ {"free"}
        BY DEF Stages, HostIds
      <4>2. QED BY <1>1, <4>1 DEF Call
    <3>2. [calls[n] EXCEPT !.stage = "write"] \in Call
      BY <1>1 DEF Call, Stages
    <3>3. ASSUME calls[n].level \in 1..3
          PROVE  [calls[n] EXCEPT !.level = calls[n].level + 1] \in Call
      BY <1>1, <3>3 DEF Call, Levels
    <3>4. QED BY <1>4, <3>1, <3>2, <3>3 DEF TypeOK
  <2>2. QED BY <2>1 DEF Lookup, TypeOK
<1>6. Answered'
  BY <1>1, <1>2, <1>4 DEF TypeOK, Answered, Call
<1>7. HostFound'
  <2>1. calls[n].host = NoHost
    BY <1>3 DEF HostFound
  <2>2. ASSUME NEW j \in Calls, j # n
        PROVE  calls'[j] = calls[j]
    BY <1>4, <2>2 DEF TypeOK
  <2>3. /\ calls'[n].stage = "lookup" => calls'[n].host = NoHost
        /\ calls'[n].stage = "write" => calls'[n].host \in HostIds \cup {NoHost}
    BY <1>1, <1>4, <2>1 DEF TypeOK, Call
  <2>4. QED BY <1>2, <2>2, <2>3 DEF HostFound
<1>8. QED BY <1>2, <1>5, <1>6, <1>7, AgentKept DEF Lookup

\* The row a call writes is made of the signals it collected and, perhaps, of
\* the serial number the row had.
LEMMA HostRowTyped ==
  ASSUME IInv, NEW n \in Calls, calls[n].stage = "write"
  PROVE  HostRow(n) \in Facts
<1> USE DEF IInv
<1>1. calls[n] \in Call
  BY CallUnderWay
<1>2. calls[n].facts \in Facts /\ calls[n].host \in HostIds \cup {NoHost}
  BY <1>1 DEF Call, HostFound
<1>3. calls[n].host # NoHost => hosts[calls[n].host] \in Facts
  BY <1>2 DEF TypeOK, HostIds
<1>4. 1 \in Levels
  BY DEF Levels
<1>5. QED BY <1>2, <1>3, <1>4 DEF HostRow, Facts

LEMMA EnrollStep ==
  ASSUME IInv, NEW n \in Calls, Enroll(n)
  PROVE  IInv'
<1> USE DEF IInv
<1> DEFINE h == IF calls[n].host = NoHost THEN Len(hosts) + 1 ELSE calls[n].host
<1>1. calls[n] \in Call /\ HostRow(n) \in Facts
  BY CallUnderWay, HostRowTyped DEF Enroll
<1>2. h \in Nat /\ hosts \in Seq(Facts) /\ Len(hosts) \in Nat
  BY <1>1 DEF TypeOK, Call
<1>3. hosts' \in Seq(Facts) /\ HostIds \subseteq HostIds'
  <2>1. CASE h \in HostIds
    BY <1>1, <1>2, <2>1 DEF Enroll, HostIds
  <2>2. CASE h \notin HostIds
    BY <1>1, <1>2, <2>2 DEF Enroll, HostIds
  <2>3. QED BY <2>1, <2>2
<1>4. Certs' = Certs \cup {n} /\ agents' \subseteq [cert : Calls, host : Nat]
  <2>1. agents' = agents \cup {[cert |-> n, host |-> h]}
    BY DEF Enroll
  <2>2. agents \subseteq [cert : Calls, host : Nat]
    BY DEF TypeOK
  <2>3. agents' \subseteq [cert : Calls, host : Nat]
    BY <1>2, <2>1, <2>2
  <2>4. Certs' = Certs \cup {n}
    <3> DEFINE a == [cert |-> n, host |-> h]
    <3>1. a.cert = n /\ agents' = agents \cup {a}
      BY <2>1
    <3> HIDE DEF a
    <3>2. QED BY <3>1 DEF Certs
  <2>5. QED BY <2>3, <2>4
<1>5. PICK s \in {"ok", "error"} : calls' = [calls EXCEPT ![n].stage = s]
  BY DEF Enroll
<1>6. TypeOK'
  BY <1>1, <1>3, <1>4, <1>5 DEF Enroll, TypeOK, Call, Stages
<1>7. Answered'
  BY <1>1, <1>4, <1>5 DEF TypeOK, Answered
<1>8. HostFound'
  BY <1>1, <1>3, <1>5 DEF TypeOK, HostFound, Call
<1>9. QED BY <1>4, <1>6, <1>7, <1>8, AgentKept DEF Enroll

LEMMA RollbackStep ==
  ASSUME IInv, NEW n \in Calls, EnrollFails(n) \/ EnrollConflicts(n)
  PROVE  IInv'
<1> USE DEF IInv
<1>1. calls[n] \in Call
  BY CallUnderWay DEF EnrollFails, EnrollConflicts
<1>2. Certs' = Certs /\ HostIds' = HostIds
  BY DEF EnrollFails, EnrollConflicts, Certs, HostIds
<1>3. PICK s \in {"error", "conflict"} : calls' = [calls EXCEPT ![n].stage = s]
  BY DEF EnrollFails, EnrollConflicts
<1>4. TypeOK'
  BY <1>1, <1>3 DEF EnrollFails, EnrollConflicts, TypeOK, Call, Stages
<1>5. Answered' /\ HostFound'
  BY <1>1, <1>2, <1>3 DEF TypeOK, Answered, HostFound, Call
<1>6. QED BY <1>2, <1>4, <1>5, AgentKept DEF EnrollFails, EnrollConflicts

-----------------------------------------------------------------------------

LEMMA NextIInv == IInv /\ [Next]_vars => IInv'
<1> SUFFICES ASSUME IInv, [Next]_vars PROVE IInv'
  OBVIOUS
<1>1. CASE UNCHANGED vars
  BY <1>1 DEF vars, IInv, TypeOK, KeyFits, Registered, Progress, Answered,
       HostFound, Certs, HostIds
<1>2. ASSUME NEW m \in Machines, AgentStep(m) \/ Crash(m) PROVE IInv'
  BY <1>2, BootStep, RequestCertStep, AnswerStep, StoreStep, ConnectStep, CrashStep
     DEF AgentStep
<1>3. ASSUME NEW n \in Calls,
             Lookup(n) \/ Enroll(n) \/ EnrollFails(n) \/ EnrollConflicts(n)
      PROVE  IInv'
  BY <1>3, LookupStep, EnrollStep, RollbackStep
<1>4. QED BY <1>1, <1>2, <1>3 DEF Next

\* Enrollment's inductive invariant holds in every reachable state.
THEOREM Invariance == Spec => []IInv
<1>1. QED BY InitIInv, NextIInv, PTL DEF Spec

\* Every reachable state is well typed.
THEOREM TypeCorrect == Spec => []TypeOK
<1>1. IInv => TypeOK
  BY DEF IInv
<1>2. QED BY <1>1, Invariance, PTL

\* agent.key always belongs to agent.crt: no crash, restart or repeated
\* enrollment overwrites the key of a certificate that is stored.
THEOREM CertificateFitsKey == Spec => []KeyFits
<1>1. IInv => KeyFits
  BY DEF IInv
<1>2. QED BY <1>1, Invariance, PTL

\* A stored certificate has an agent row: the server commits before it answers,
\* and only an answer is stored.
THEOREM CertificateRegistered == Spec => []Registered
<1>1. IInv => Registered
  BY DEF IInv
<1>2. QED BY <1>1, Invariance, PTL
-----------------------------------------------------------------------------
(* One host row per machine. *)

\* No two machines share a signal of one level, and whatever else a machine
\* collects, it collects its serial number.
OwnSignals ==
  \A m, o \in Machines : \A f \in FactsOf[m], g \in FactsOf[o] :
    IF m = o THEN f[1] \cap g[1] # {}
             ELSE \A k \in Levels : f[k] \cap g[k] = {}

\* A row that exists was written from facts of machine m.
RowOfMachine(h, m) == h \in HostIds /\ hosts[h] \in FactsOf[m]

\* The serial numbers are a key of the hosts table.
SerialsUnique ==
  \A h, g \in HostIds : h # g => hosts[h][1] \cap hosts[g][1] = {}

\* What a call looks up is of its machine, and so is the row it found; the call
\* of an agent row is over, and its number is not given again.
CallsOfMachine ==
  \A n \in Calls :
    /\ calls[n].stage # "free" =>
         calls[n].machine \in Machines /\ calls[n].facts \in FactsOf[calls[n].machine]
    /\ calls[n].stage = "write" /\ calls[n].host # NoHost =>
         RowOfMachine(calls[n].host, calls[n].machine)

AgentsOfMachine ==
  \A a \in agents :
    /\ a.cert \in Calls /\ calls[a.cert].stage \in {"ok", "error"}
    /\ RowOfMachine(a.host, calls[a.cert].machine)

RowsOfMachines == \A h \in HostIds : \E m \in Machines : RowOfMachine(h, m)

Identity == SerialsUnique /\ CallsOfMachine /\ AgentsOfMachine /\ RowsOfMachines

\* Facts that have a signal in common are of one machine.
LEMMA SameMachine ==
  ASSUME OwnSignals, NEW m \in Machines, NEW o \in Machines,
         NEW f \in FactsOf[m], NEW g \in FactsOf[o], NEW k \in Levels,
         f[k] \cap g[k] # {}
  PROVE  m = o
BY DEF OwnSignals

LEMMA SerialCollected ==
  ASSUME OwnSignals, NEW m \in Machines, NEW f \in FactsOf[m]
  PROVE  f \in Facts /\ f[1] # {} /\ 1 \in Levels
<1>1. f[1] \cap f[1] # {}
  BY DEF OwnSignals
<1>2. QED BY <1>1, EnrollmentAssumption DEF Levels

\* A row is of one machine at most.
LEMMA RowOfOneMachine ==
  ASSUME OwnSignals, NEW h, NEW m \in Machines, NEW o \in Machines,
         RowOfMachine(h, m), RowOfMachine(h, o)
  PROVE  m = o
<1>1. hosts[h][1] \cap hosts[h][1] # {}
  BY SerialCollected DEF RowOfMachine
<1>2. QED BY <1>1, SerialCollected, SameMachine DEF RowOfMachine

LEMMA InitIdentity == Init => Identity
BY DEF Init, Identity, SerialsUnique, CallsOfMachine, AgentsOfMachine,
     RowsOfMachines, RowOfMachine, HostIds, Free

\* A step that changes no call and no table.
LEMMA IdentityKept ==
  ASSUME Identity, UNCHANGED <<calls, hosts, agents>>
  PROVE  Identity'
BY DEF Identity, SerialsUnique, CallsOfMachine, AgentsOfMachine,
     RowsOfMachines, RowOfMachine, HostIds

LEMMA RequestCertIdentity ==
  ASSUME IInv, Identity, NEW m \in Machines, RequestCert(m)
  PROVE  Identity'
<1> USE DEF Identity
<1>1. PICK n \in Calls, f \in FactsOf[m] :
        /\ Unused(n)
        /\ calls' = [calls EXCEPT ![n] = [machine |-> m, facts |-> f, level |-> 1,
                                          stage |-> "lookup", host |-> NoHost]]
  BY DEF RequestCert
<1>2. UNCHANGED <<hosts, agents>> /\ HostIds' = HostIds
  BY DEF RequestCert, HostIds
<1>3. SerialsUnique' /\ RowsOfMachines'
  BY <1>2 DEF SerialsUnique, RowsOfMachines, RowOfMachine
<1>4. /\ \A j \in Calls : j # n => calls'[j] = calls[j]
      /\ calls'[n].machine = m /\ calls'[n].facts = f /\ calls'[n].stage = "lookup"
  BY <1>1 DEF IInv, TypeOK
<1>5. CallsOfMachine'
  BY <1>2, <1>4 DEF CallsOfMachine, RowOfMachine
<1>6. AgentsOfMachine'
  <2>1. \A a \in agents : a.cert # n
    BY <1>1 DEF Unused, AgentsOfMachine
  <2>2. QED BY <1>2, <1>4, <2>1 DEF AgentsOfMachine, RowOfMachine
<1>7. QED BY <1>3, <1>5, <1>6

\* A step of the server that leaves the tables alone.
LEMMA StageIdentity ==
  ASSUME IInv, Identity, UNCHANGED <<hosts, agents>>, NEW n \in Calls,
         calls[n].stage \in {"lookup", "write"},
         \A j \in Calls : j # n => calls'[j] = calls[j],
         calls'[n].machine = calls[n].machine, calls'[n].facts = calls[n].facts,
         calls'[n].stage = "write" /\ calls'[n].host # NoHost =>
           RowOfMachine(calls'[n].host, calls[n].machine)
  PROVE  Identity'
<1> USE DEF Identity
<1>1. HostIds' = HostIds
  BY DEF HostIds
<1>2. SerialsUnique' /\ RowsOfMachines'
  BY <1>1 DEF SerialsUnique, RowsOfMachines, RowOfMachine
<1>3. CallsOfMachine'
  BY <1>1 DEF CallsOfMachine, RowOfMachine
<1>4. AgentsOfMachine'
  <2>1. \A a \in agents : a.cert # n
    BY DEF AgentsOfMachine
  <2>2. QED BY <1>1, <2>1 DEF AgentsOfMachine, RowOfMachine
<1>5. QED BY <1>2, <1>3, <1>4

LEMMA LookupIdentity ==
  ASSUME OwnSignals, IInv, Identity, NEW n \in Calls, Lookup(n)
  PROVE  Identity'
<1> DEFINE k == calls[n].level
<1>1. /\ calls[n] \in Call /\ calls[n].stage = "lookup" /\ calls[n].host = NoHost
      /\ k \in Levels /\ UNCHANGED <<hosts, agents>>
  <2>1. calls[n] \in Call /\ calls[n].stage = "lookup"
    BY CallUnderWay DEF Lookup, IInv
  <2>2. QED BY <2>1 DEF Lookup, IInv, HostFound, Call
<1>2. /\ calls[n].machine \in Machines /\ calls[n].facts \in FactsOf[calls[n].machine]
  BY <1>1 DEF Identity, CallsOfMachine
<1>3. CASE \E h \in HostIds :
              /\ hosts[h][k] \cap calls[n].facts[k] # {}
              /\ calls' = [calls EXCEPT ![n].stage = "write", ![n].host = h]
  <2>1. PICK h \in HostIds :
          /\ hosts[h][k] \cap calls[n].facts[k] # {}
          /\ calls' = [calls EXCEPT ![n].stage = "write", ![n].host = h]
    BY <1>3
  <2>2. PICK o \in Machines : RowOfMachine(h, o)
    BY DEF Identity, RowsOfMachines
  <2>3. RowOfMachine(h, calls[n].machine)
    BY <1>1, <1>2, <2>1, <2>2, SameMachine DEF RowOfMachine
  <2>4. /\ \A j \in Calls : j # n => calls'[j] = calls[j]
        /\ calls'[n].machine = calls[n].machine /\ calls'[n].facts = calls[n].facts
        /\ calls'[n].host = h
    BY <1>1, <2>1 DEF IInv, TypeOK, Call
  <2> HIDE DEF k
  <2>5. QED BY <1>1, <2>3, <2>4, StageIdentity
<1>4. CASE \/ calls' = [calls EXCEPT ![n].stage = "write"]
           \/ calls' = [calls EXCEPT ![n].level = k + 1]
  <2>1. /\ \A j \in Calls : j # n => calls'[j] = calls[j]
        /\ calls'[n].machine = calls[n].machine /\ calls'[n].facts = calls[n].facts
        /\ calls'[n].host = NoHost
    BY <1>1, <1>4 DEF IInv, TypeOK, Call
  <2> HIDE DEF k
  <2>2. QED BY <1>1, <2>1, StageIdentity
<1>5. QED BY <1>3, <1>4 DEF Lookup

LEMMA RollbackIdentity ==
  ASSUME IInv, Identity, NEW n \in Calls, EnrollFails(n) \/ EnrollConflicts(n)
  PROVE  Identity'
<1>1. /\ calls[n] \in Call /\ calls[n].stage \in {"lookup", "write"}
      /\ UNCHANGED <<hosts, agents>>
  BY CallUnderWay DEF EnrollFails, EnrollConflicts, IInv
<1>2. PICK s \in {"error", "conflict"} : calls' = [calls EXCEPT ![n].stage = s]
  BY DEF EnrollFails, EnrollConflicts
<1>3. /\ \A j \in Calls : j # n => calls'[j] = calls[j]
      /\ calls'[n].machine = calls[n].machine /\ calls'[n].facts = calls[n].facts
      /\ calls'[n].stage = s
  BY <1>1, <1>2 DEF IInv, TypeOK, Call
<1>4. QED BY <1>1, <1>3, StageIdentity

\* The host that a committed enrollment writes.
HostOf(n) == IF calls[n].host = NoHost THEN Len(hosts) + 1 ELSE calls[n].host

\* What a commit does: one row of the hosts table becomes the call's facts.
LEMMA EnrollEffect ==
  ASSUME OwnSignals, IInv, Identity, NEW n \in Calls, Enroll(n)
  PROVE  LET h == HostOf(n)
             m == calls[n].machine
         IN /\ m \in Machines /\ calls[n].facts \in FactsOf[m]
            /\ calls[n].stage = "write"
            /\ HostIds' = HostIds \cup {h} /\ hosts'[h] = calls[n].facts
            /\ \A g \in HostIds : g # h => hosts'[g] = hosts[g]
            /\ \A g \in HostIds : g # h => hosts[g][1] \cap calls[n].facts[1] = {}
            /\ h \in HostIds => RowOfMachine(h, m)
            /\ agents' = agents \cup {[cert |-> n, host |-> h]}
            /\ \A j \in Calls : j # n => calls'[j] = calls[j]
            /\ calls'[n].machine = m /\ calls'[n].facts = calls[n].facts
            /\ calls'[n].stage \in {"ok", "error"}
<1> USE DEF Identity
<1> DEFINE h == HostOf(n)
           m == calls[n].machine
<1>1. /\ calls[n] \in Call /\ calls[n].stage = "write" /\ SerialIsFree(n)
      /\ calls[n].host \in HostIds \cup {NoHost}
  BY CallUnderWay DEF Enroll, IInv, HostFound
<1>2. m \in Machines /\ calls[n].facts \in FactsOf[m]
  BY <1>1 DEF CallsOfMachine
<1>3. HostRow(n) = calls[n].facts
  <2>1. calls[n].facts[1] # {} /\ calls[n].facts \in Facts
    BY <1>2, SerialCollected
  <2>2. calls[n].facts = [k \in Levels |-> calls[n].facts[k]]
    BY <2>1 DEF Facts
  <2>3. HostRow(n) = [k \in Levels |-> calls[n].facts[k]]
    BY <2>1 DEF HostRow
  <2>4. QED BY <2>2, <2>3
<1>4. hosts \in Seq(Facts) /\ Len(hosts) \in Nat /\ HostIds = 1..Len(hosts)
  BY DEF IInv, TypeOK, HostIds
<1>5. /\ HostIds' = HostIds \cup {h} /\ hosts'[h] = calls[n].facts
      /\ \A g \in HostIds : g # h => hosts'[g] = hosts[g]
  <2>1. CASE calls[n].host = NoHost
    <3>1. h = Len(hosts) + 1 /\ h \notin HostIds
      BY <1>4, <2>1 DEF HostOf
    <3>2. hosts' = Append(hosts, calls[n].facts)
      BY <1>3, <3>1 DEF Enroll, HostOf
    <3>3. QED BY <1>4, <3>1, <3>2 DEF HostIds
  <2>2. CASE calls[n].host # NoHost
    <3>1. h = calls[n].host /\ h \in HostIds
      BY <1>1, <2>2 DEF HostOf
    <3>2. hosts' = [hosts EXCEPT ![h] = calls[n].facts]
      BY <1>3, <3>1 DEF Enroll, HostOf
    <3>3. QED BY <1>4, <3>1, <3>2 DEF HostIds
  <2>3. QED BY <2>1, <2>2
<1>6. \A g \in HostIds : g # h => hosts[g][1] \cap calls[n].facts[1] = {}
  <2>1. ASSUME NEW g \in HostIds, g # h PROVE g # calls[n].host
    BY <1>1, <2>1, <1>4, EnrollmentAssumption DEF HostOf
  <2>2. QED BY <1>1, <1>3, <2>1 DEF SerialIsFree
<1>7. PICK s \in {"ok", "error"} : calls' = [calls EXCEPT ![n].stage = s]
  BY DEF Enroll
<1>8. /\ \A j \in Calls : j # n => calls'[j] = calls[j]
      /\ calls'[n].machine = m /\ calls'[n].facts = calls[n].facts
      /\ calls'[n].stage = s
  BY <1>1, <1>7 DEF IInv, TypeOK, Call
<1>9. agents' = agents \cup {[cert |-> n, host |-> h]}
  BY DEF Enroll, HostOf
<1>10. h \in HostIds => RowOfMachine(h, m)
  BY <1>1, <1>4 DEF CallsOfMachine, HostOf
<1> HIDE DEF h, m
<1>11. QED BY <1>1, <1>2, <1>5, <1>6, <1>8, <1>9, <1>10 DEF h, m

LEMMA EnrollIdentity ==
  ASSUME OwnSignals, IInv, Identity, NEW n \in Calls, Enroll(n)
  PROVE  Identity'
<1> USE DEF Identity
<1> DEFINE h == HostOf(n)
           m == calls[n].machine
<1>1. /\ m \in Machines /\ calls[n].facts \in FactsOf[m]
      /\ calls[n].stage = "write"
      /\ HostIds' = HostIds \cup {h} /\ hosts'[h] = calls[n].facts
      /\ \A g \in HostIds : g # h => hosts'[g] = hosts[g]
      /\ \A g \in HostIds : g # h => hosts[g][1] \cap calls[n].facts[1] = {}
      /\ h \in HostIds => RowOfMachine(h, m)
  BY EnrollEffect
<1>2. /\ agents' = agents \cup {[cert |-> n, host |-> h]}
      /\ \A j \in Calls : j # n => calls'[j] = calls[j]
      /\ calls'[n].machine = m /\ calls'[n].facts = calls[n].facts
      /\ calls'[n].stage \in {"ok", "error"}
  BY EnrollEffect
<1> HIDE DEF h, m
<1>3. ASSUME NEW g, NEW o \in Machines, RowOfMachine(g, o)
      PROVE  g \in HostIds' /\ hosts'[g] \in FactsOf[o]
  <2>1. CASE g = h
    <3>1. o = m
      BY <1>1, <1>3, <2>1, RowOfOneMachine DEF RowOfMachine
    <3>2. QED BY <1>1, <2>1, <3>1
  <2>2. CASE g # h
    BY <1>1, <1>3, <2>2 DEF RowOfMachine
  <2>3. QED BY <2>1, <2>2
<1>4. SerialsUnique'
  BY <1>1 DEF SerialsUnique
<1>5. RowsOfMachines'
  BY <1>1, <1>3 DEF RowsOfMachines, RowOfMachine
<1>6. CallsOfMachine'
  BY <1>1, <1>2, <1>3 DEF CallsOfMachine, RowOfMachine
<1>7. AgentsOfMachine'
  <2> DEFINE new == [cert |-> n, host |-> h]
  <2>1. ASSUME NEW a \in agents
        PROVE  /\ a.cert \in Calls /\ calls'[a.cert].stage \in {"ok", "error"}
               /\ a.host \in HostIds'
               /\ hosts'[a.host] \in FactsOf[calls'[a.cert].machine]
    <3>1. a.cert \in Calls /\ a.cert # n /\ calls'[a.cert] = calls[a.cert]
      BY <1>1, <1>2 DEF AgentsOfMachine
    <3>2. /\ calls[a.cert].stage \in {"ok", "error"}
          /\ calls[a.cert].machine \in Machines
          /\ RowOfMachine(a.host, calls[a.cert].machine)
      BY <3>1 DEF AgentsOfMachine, CallsOfMachine
    <3>3. QED BY <1>3, <3>1, <3>2
  <2>2. /\ new.cert \in Calls /\ calls'[new.cert].stage \in {"ok", "error"}
        /\ new.host \in HostIds'
        /\ hosts'[new.host] \in FactsOf[calls'[new.cert].machine]
    BY <1>1, <1>2
  <2>3. agents' = agents \cup {new}
    BY <1>2
  <2> HIDE DEF new
  <2>4. QED BY <2>1, <2>2, <2>3 DEF AgentsOfMachine, RowOfMachine
<1>8. QED BY <1>4, <1>5, <1>6, <1>7

LEMMA NextIdentity ==
  ASSUME OwnSignals, IInv, Identity, [Next]_vars
  PROVE  Identity'
<1>1. CASE UNCHANGED vars
  BY <1>1, IdentityKept DEF vars
<1>2. ASSUME NEW m \in Machines, AgentStep(m) \/ Crash(m) PROVE Identity'
  <2>1. CASE RequestCert(m)
    BY <2>1, RequestCertIdentity
  <2>2. CASE ~RequestCert(m)
    <3>1. UNCHANGED <<calls, hosts, agents>>
      BY <1>2, <2>2 DEF AgentStep, Boot, ReceiveCert, EnrollmentFails, StoreCert,
         StoreCA, SaveState, Connect, Crash
    <3>2. QED BY <3>1, IdentityKept
  <2>3. QED BY <2>1, <2>2
<1>3. ASSUME NEW n \in Calls,
             Lookup(n) \/ Enroll(n) \/ EnrollFails(n) \/ EnrollConflicts(n)
      PROVE  Identity'
  BY <1>3, LookupIdentity, EnrollIdentity, RollbackIdentity
<1>4. QED BY <1>1, <1>2, <1>3 DEF Next

LEMMA IdentityInvariant ==
  ASSUME OwnSignals
  PROVE  Spec => []Identity
<1>1. IInv /\ Identity /\ [Next]_vars => Identity'
  BY NextIdentity
<1>2. QED BY <1>1, InitIdentity, Invariance, PTL DEF Spec

\* Machines that share no signal and always report their serial number get one
\* host row each, however their enrollments interleave, fail and are repeated.
THEOREM MachinesKeptApart ==
  ASSUME OwnSignals
  PROVE  Spec => []HostIsMachine
<1>1. ASSUME Identity, NEW a \in agents, NEW b \in agents
      PROVE  a.host = b.host <=> calls[a.cert].machine = calls[b.cert].machine
  <2> DEFINE m == calls[a.cert].machine
             o == calls[b.cert].machine
  <2>1. /\ m \in Machines /\ o \in Machines
        /\ RowOfMachine(a.host, m) /\ RowOfMachine(b.host, o)
    BY <1>1 DEF Identity, AgentsOfMachine, CallsOfMachine
  <2> HIDE DEF m, o
  <2>2. a.host = b.host => m = o
    BY <2>1, RowOfOneMachine
  <2>3. ASSUME m = o PROVE a.host = b.host
    <3>1. hosts[a.host][1] \cap hosts[b.host][1] # {}
      BY <2>1, <2>3 DEF OwnSignals, RowOfMachine
    <3>2. QED BY <1>1, <2>1, <3>1 DEF Identity, SerialsUnique, RowOfMachine
  <2>4. QED BY <2>2, <2>3 DEF m, o
<1>2. Identity => HostIsMachine
  BY <1>1 DEF HostIsMachine
<1>3. QED BY <1>2, IdentityInvariant, PTL
-----------------------------------------------------------------------------
(* Enrollment implements Registry. *)

RowsOf(m) == {[id |-> a.host, facts |-> hosts[a.host]] : a \in AgentsOf(m)}
CertsOf(m) == {a.cert : a \in AgentsOf(m)}

\* A step that leaves the tables and the calls of agent rows alone.
RegistryKept ==
  \A m \in Machines : RowsOf(m)' = RowsOf(m) /\ CertsOf(m)' = CertsOf(m)

LEMMA TablesUntouched ==
  ASSUME Identity, UNCHANGED <<hosts, agents>>,
         \A n \in Calls : calls[n].stage \in {"ok", "error"} =>
           calls'[n].machine = calls[n].machine
  PROVE  RegistryKept
<1>1. \A a \in agents : calls'[a.cert].machine = calls[a.cert].machine
  BY DEF Identity, AgentsOfMachine
<1>2. \A m \in Machines : AgentsOf(m)' = AgentsOf(m)
  BY <1>1 DEF AgentsOf
<1>3. QED BY <1>2 DEF RegistryKept, RowsOf, CertsOf

LEMMA OtherStepsKeep ==
  ASSUME IInv, Identity, [Next]_vars, ~\E n \in Calls : Enroll(n)
  PROVE  RegistryKept
<1>1. CASE UNCHANGED <<calls, hosts, agents>>
  BY <1>1, TablesUntouched
<1>2. ASSUME NEW m \in Machines, RequestCert(m) PROVE RegistryKept
  <2>1. PICK n \in Calls, f \in FactsOf[m] :
          /\ Unused(n)
          /\ calls' = [calls EXCEPT ![n] = [machine |-> m, facts |-> f, level |-> 1,
                                            stage |-> "lookup", host |-> NoHost]]
    BY <1>2 DEF RequestCert
  <2>2. \A j \in Calls : calls[j].stage \in {"ok", "error"} => calls'[j] = calls[j]
    BY <2>1 DEF Unused, IInv, TypeOK
  <2>3. UNCHANGED <<hosts, agents>>
    BY <1>2 DEF RequestCert
  <2>4. QED BY <2>2, <2>3, TablesUntouched
<1>3. ASSUME NEW n \in Calls, Lookup(n) \/ EnrollFails(n) \/ EnrollConflicts(n)
      PROVE  RegistryKept
  <2>1. /\ calls[n] \in Call /\ calls[n].stage \in {"lookup", "write"}
        /\ UNCHANGED <<hosts, agents>>
    BY <1>3, CallUnderWay DEF Lookup, EnrollFails, EnrollConflicts, IInv
  <2>2. \A j \in Calls : j # n => calls'[j] = calls[j]
    BY <1>3 DEF Lookup, EnrollFails, EnrollConflicts, IInv, TypeOK
  <2>3. QED BY <2>1, <2>2, TablesUntouched
<1>4. CASE \E m \in Machines : (AgentStep(m) \/ Crash(m)) /\ ~RequestCert(m)
  BY <1>1, <1>4 DEF AgentStep, Boot, ReceiveCert, EnrollmentFails, StoreCert,
     StoreCA, SaveState, Connect, Crash
<1>5. CASE UNCHANGED vars
  BY <1>1, <1>5 DEF vars
<1>6. QED BY <1>2, <1>3, <1>4, <1>5 DEF Next

LEMMA EnrollRegisters ==
  ASSUME OwnSignals, IInv, Identity, NEW n \in Calls, Enroll(n),
         NEW m \in Machines, m = calls[n].machine
  PROVE  LET r == [id |-> HostOf(n), facts |-> calls[n].facts]
         IN /\ r.facts \in FactsOf[m]
            /\ RowsOf(m)' = {r} /\ CertsOf(m)' = CertsOf(m) \cup {n}
            /\ \A o \in Machines \ {m} :
                 RowsOf(o)' = RowsOf(o) /\ CertsOf(o)' = CertsOf(o)
            /\ \A q \in RowsOf(m) : q.id = r.id
            /\ \A o \in Machines \ {m} : \A q \in RowsOf(o) : q.id # r.id
            /\ \A o \in Machines : n \notin CertsOf(o)
<1> USE DEF Identity
<1> DEFINE h == HostOf(n)
           r == [id |-> h, facts |-> calls[n].facts]
           new == [cert |-> n, host |-> h]
<1>1. /\ m \in Machines /\ calls[n].facts \in FactsOf[m]
      /\ calls[n].stage = "write"
      /\ HostIds' = HostIds \cup {h} /\ hosts'[h] = calls[n].facts
      /\ \A g \in HostIds : g # h => hosts'[g] = hosts[g]
      /\ \A g \in HostIds : g # h => hosts[g][1] \cap calls[n].facts[1] = {}
      /\ h \in HostIds => RowOfMachine(h, m)
  BY EnrollEffect
<1>2. /\ agents' = agents \cup {new}
      /\ \A j \in Calls : j # n => calls'[j] = calls[j]
      /\ calls'[n].machine = m
  BY EnrollEffect
<1> HIDE DEF h
<1>3. ASSUME NEW a \in agents
      PROVE  /\ a.cert \in Calls /\ a.cert # n
             /\ calls'[a.cert].machine = calls[a.cert].machine
             /\ calls[a.cert].machine \in Machines
             /\ RowOfMachine(a.host, calls[a.cert].machine)
             /\ a.host \in HostIds
  <2>1. a.cert \in Calls /\ a.cert # n /\ calls'[a.cert] = calls[a.cert]
    BY <1>1, <1>2 DEF AgentsOfMachine
  <2>2. calls[a.cert].stage \in {"ok", "error"} /\ RowOfMachine(a.host, calls[a.cert].machine)
    BY DEF AgentsOfMachine
  <2>3. QED BY <2>1, <2>2 DEF CallsOfMachine, RowOfMachine
<1>4. ASSUME NEW a \in AgentsOf(m) PROVE a.host = h
  <2>1. a \in agents /\ RowOfMachine(a.host, m)
    BY <1>3 DEF AgentsOf
  <2>2. hosts[a.host][1] \cap calls[n].facts[1] # {}
    BY <1>1, <2>1 DEF OwnSignals, RowOfMachine
  <2>3. QED BY <1>1, <2>1, <2>2 DEF RowOfMachine
<1>5. ASSUME NEW o \in Machines \ {m}, NEW a \in AgentsOf(o)
      PROVE  a.host # h /\ hosts'[a.host] = hosts[a.host]
  <2>1. a \in agents /\ RowOfMachine(a.host, o) /\ a.host \in HostIds
    BY <1>3 DEF AgentsOf
  <2>2. a.host # h
    BY <1>1, <2>1, RowOfOneMachine
  <2>3. QED BY <1>1, <2>1, <2>2
<1>6. AgentsOf(m)' = AgentsOf(m) \cup {new}
  BY <1>2, <1>3 DEF AgentsOf
<1>7. \A o \in Machines \ {m} : AgentsOf(o)' = AgentsOf(o)
  BY <1>2, <1>3 DEF AgentsOf
<1>8. new.host = h /\ new.cert = n
  OBVIOUS
<1> HIDE DEF new
<1>9. RowsOf(m)' = {r}
  BY <1>1, <1>4, <1>6, <1>8 DEF RowsOf
<1>10. CertsOf(m)' = CertsOf(m) \cup {n}
  BY <1>6, <1>8 DEF CertsOf
<1>11. ASSUME NEW o \in Machines \ {m}
       PROVE  /\ RowsOf(o)' = RowsOf(o) /\ CertsOf(o)' = CertsOf(o)
              /\ \A q \in RowsOf(o) : q.id # r.id
  BY <1>5, <1>7 DEF RowsOf, CertsOf
<1>12. \A q \in RowsOf(m) : q.id = r.id
  BY <1>4 DEF RowsOf
<1>13. \A o \in Machines : n \notin CertsOf(o)
  BY <1>3 DEF CertsOf, AgentsOf
<1>14. QED BY <1>1, <1>9, <1>10, <1>11, <1>12, <1>13 DEF h

LEMMA RegistryStep ==
  ASSUME OwnSignals, IInv, Identity, [Next]_vars
  PROVE  [Abstract!Next]_(Abstract!vars)
<1> DEFINE rows == [m \in Machines |-> RowsOf(m)]
           certs == [m \in Machines |-> CertsOf(m)]
<1>1. CASE ~\E n \in Calls : Enroll(n)
  <2>1. RegistryKept
    BY <1>1, OtherStepsKeep
  <2>2. UNCHANGED <<rows, certs>>
    BY <2>1 DEF RegistryKept
  <2>3. QED BY <2>2 DEF Abstract!vars, RowsOf, CertsOf
<1>2. ASSUME NEW n \in Calls, Enroll(n)
      PROVE  Abstract!Next
  <2> DEFINE r == [id |-> HostOf(n), facts |-> calls[n].facts]
  <2>0. PICK m \in Machines : m = calls[n].machine
    BY <1>2, EnrollEffect
  <2>1. /\ r.facts \in FactsOf[m]
        /\ RowsOf(m)' = {r} /\ CertsOf(m)' = CertsOf(m) \cup {n}
        /\ \A o \in Machines \ {m} :
             RowsOf(o)' = RowsOf(o) /\ CertsOf(o)' = CertsOf(o)
        /\ \A q \in RowsOf(m) : q.id = r.id
        /\ \A o \in Machines \ {m} : \A q \in RowsOf(o) : q.id # r.id
        /\ \A o \in Machines : n \notin CertsOf(o)
    BY <1>2, <2>0, EnrollRegisters
  <2> HIDE DEF r
  <2>2. rows' = [rows EXCEPT ![m] = {r}] /\ r \in rows'[m]
    <3>1. /\ RowsOf(m)' = {r}
          /\ \A o \in Machines : o # m => RowsOf(o)' = RowsOf(o)
      BY <2>1
    <3>2. rows' = [o \in Machines |-> IF o = m THEN {r} ELSE RowsOf(o)]
      BY <3>1
    <3>3. QED BY <2>1, <3>1, <3>2
  <2>3. certs' = [certs EXCEPT ![m] = @ \cup {n}]
    <3>1. \A o \in Machines : CertsOf(o)' = IF o = m THEN CertsOf(o) \cup {n} ELSE CertsOf(o)
      BY <2>1
    <3>2. certs' = [o \in Machines |-> IF o = m THEN CertsOf(o) \cup {n} ELSE CertsOf(o)]
      BY <3>1
    <3>3. QED BY <2>1, <3>2
  <2>4. n \notin UNION {certs[o] : o \in Machines}
    BY <2>1
  <2>5. /\ \A q \in rows[m] : q.id = r.id
        /\ \A o \in Machines \ {m} : \A q \in rows[o] : q.id # r.id
    BY <2>1
  <2>6. Abstract!Register(m, n)
    BY <2>1, <2>2, <2>3, <2>4, <2>5
       DEF Abstract!Register, Abstract!Given, RowsOf, CertsOf
  <2>7. QED BY <2>1, <2>6 DEF Abstract!Next
<1>3. QED BY <1>1, <1>2

\* The hosts and agents tables are a registry of machines: an enrollment that
\* commits adds a certificate to its own machine and brings that machine's row,
\* which it keeps for ever, up to date; nothing else ever changes them.
THEOREM EnrollmentImplementsRegistry ==
  ASSUME OwnSignals
  PROVE  Spec => ImplementsRegistry
<1>1. Init => Abstract!Init
  BY DEF Init, Abstract!Init, AgentsOf
<1>2. IInv /\ Identity /\ [Next]_vars => [Abstract!Next]_(Abstract!vars)
  BY RegistryStep
<1>3. QED
  BY <1>1, <1>2, Invariance, IdentityInvariant, PTL
     DEF Spec, ImplementsRegistry, Abstract!Spec
=============================================================================
