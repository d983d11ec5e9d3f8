----------------------------- MODULE Enrollment -----------------------------
(***************************************************************************)
(* First-run enrollment: an agent without a certificate generates a key,   *)
(* posts a CSR with its host facts, and stores what it gets back in three  *)
(* files, one after the other (cmd/agent/main.go, internal/agent/enroll).  *)
(* The server finds or creates the host by the correlation waterfall and   *)
(* adds an agent row (internal/server/store/enroll.go), in one transaction *)
(* that may run beside others.                                             *)
(*                                                                         *)
(* One number stands for everything that belongs to one enrollment: its    *)
(* request, the key generated for it, the certificate and fingerprint the  *)
(* server makes of that key, and the id of the agent row.                  *)
(***************************************************************************)
EXTENDS Naturals, Sequences, FiniteSets

CONSTANTS
  Machines,  \* machines with an agent installed
  Calls,     \* bound on the enrollments that leave a trace
  Signals,   \* serial numbers, FQDNs, MAC addresses, host names
  FactsOf,   \* [Machines -> SUBSET Facts]: the host facts a machine may collect
  Absent,    \* no such file
  Torn,      \* a file that was being written when the process died
  NoHost,    \* no row found
  Faults     \* which of the faults below may happen

\* The waterfall: serial number, FQDN, MAC addresses, host name. A signal that
\* is not collected is the empty set, and only MAC addresses are several.
Levels == 1..4
Facts == [Levels -> SUBSET Signals]

ASSUME EnrollmentAssumption ==
  /\ FactsOf \in [Machines -> SUBSET Facts]
  /\ Absent # Torn /\ {Absent, Torn} \cap Calls = {}
  /\ NoHost \notin Nat
  /\ Faults \subseteq {"net", "db", "crash"}

VARIABLES
  proc,     \* where each machine's agent process is
  disk,     \* its files: agent.key, agent.crt, ca.crt, state.json
  agentID,  \* State.AgentID in memory
  calls,    \* POST /v1/enroll, as the server sees it
  hosts,    \* hosts rows; a host's id is its place
  agents    \* agents rows: certificate and host

vars == <<proc, disk, agentID, calls, hosts, agents>>

Files == {"key", "crt", "ca", "state"}
Contents == Calls \cup {Absent, Torn}
ProcStates ==
  {"off", "enroll", "waiting", "crt", "ca", "state", "connect", "running"}
Stages == {"free", "lookup", "write", "ok", "error", "conflict"}
HostIds == 1..Len(hosts)

Free == [stage |-> "free"]
Call == [machine : Machines, facts : Facts, stage : Stages \ {"free"},
         level : Levels, host : Nat \cup {NoHost}]

Certs == {a.cert : a \in agents}

TypeOK ==
  /\ proc \in [Machines -> ProcStates]
  /\ disk \in [Machines -> [Files -> Contents]]
  /\ agentID \in [Machines -> Contents]
  /\ calls \in [Calls -> Call \cup {Free}]
  /\ hosts \in Seq(Facts)
  /\ agents \subseteq [cert : Calls, host : Nat]

Init ==
  /\ proc = [m \in Machines |-> "off"]
  /\ disk = [m \in Machines |-> [f \in Files |-> Absent]]
  /\ agentID = [m \in Machines |-> Absent]
  /\ calls = [n \in Calls |-> Free]
  /\ hosts = <<>>
  /\ agents = {}

-----------------------------------------------------------------------------
(* The agent. *)

Write(m, file, n) == disk' = [disk EXCEPT ![m][file] = n]
Goto(m, state) == proc' = [proc EXCEPT ![m] = state]

Awaited(n) == \E m \in Machines : proc[m] = "waiting" /\ disk[m]["key"] = n

\* An enrollment refused for its serial number left nothing: its number may be
\* given again.
Unused(n) == calls[n].stage \in {"free", "conflict"} /\ ~Awaited(n)

\* A fault needs a number to spare for each machine, and most faults use one up:
\* in the end they stop.
FaultsMayHappen(f) ==
  /\ f \in Faults
  /\ Cardinality({n \in Calls : Unused(n)}) >= Cardinality(Machines)

\* Mutant: an agent without its CA enrolls again.
BootNeedsCA(m) ==
  /\ proc[m] = "off"
  /\ disk[m]["state"] # Torn
  /\ agentID' = [agentID EXCEPT ![m] = disk[m]["state"]]
  /\ Goto(m, IF Absent \in {disk[m]["crt"], disk[m]["ca"]} THEN "enroll" ELSE "connect")
  /\ UNCHANGED <<disk, calls, hosts, agents>>

\* Mutant: an agent with a key counts as enrolled.
BootTrustsKey(m) ==
  /\ proc[m] = "off"
  /\ disk[m]["state"] # Torn
  /\ agentID' = [agentID EXCEPT ![m] = disk[m]["state"]]
  /\ Goto(m, IF disk[m]["key"] = Absent THEN "enroll" ELSE "connect")
  /\ UNCHANGED <<disk, calls, hosts, agents>>

\* The service starts: LoadState (which refuses a torn state.json), IsEnrolled.
Boot(m) ==
  /\ proc[m] = "off"
  /\ disk[m]["state"] # Torn
  /\ agentID' = [agentID EXCEPT ![m] = disk[m]["state"]]
  /\ Goto(m, IF disk[m]["crt"] = Absent THEN "enroll" ELSE "connect")
  /\ UNCHANGED <<disk, calls, hosts, agents>>

\* doEnroll: GenerateKeyAndCSR writes the key, then the request goes out.
RequestCert(m) ==
  /\ proc[m] = "enroll"
  /\ \E n \in Calls, f \in FactsOf[m] :
       /\ Unused(n)
       /\ Write(m, "key", n)
       /\ calls' = [calls EXCEPT ![n] = [machine |-> m, facts |-> f, level |-> 1,
                                         stage |-> "lookup", host |-> NoHost]]
  /\ Goto(m, "waiting")
  /\ UNCHANGED <<agentID, hosts, agents>>

\* The answer is an error, or none comes in time: log.Fatalf.
EnrollmentFails(m) ==
  /\ proc[m] = "waiting"
  /\ calls[disk[m]["key"]].stage \in {"error", "conflict"} \/ FaultsMayHappen("net")
  /\ Goto(m, "off")
  /\ agentID' = [agentID EXCEPT ![m] = Absent]
  /\ UNCHANGED <<disk, calls, hosts, agents>>

ReceiveCert(m) ==
  /\ proc[m] = "waiting"
  /\ calls[disk[m]["key"]].stage = "ok"
  /\ Goto(m, "crt")
  /\ UNCHANGED <<disk, agentID, calls, hosts, agents>>

\* StoreCerts: the certificate first, then the CA.
StoreCert(m) ==
  /\ proc[m] = "crt"
  /\ Write(m, "crt", disk[m]["key"])
  /\ Goto(m, "ca")
  /\ UNCHANGED <<agentID, calls, hosts, agents>>

StoreCA(m) ==
  /\ proc[m] = "ca"
  /\ Write(m, "ca", disk[m]["key"])
  /\ Goto(m, "state")
  /\ UNCHANGED <<agentID, calls, hosts, agents>>

SaveState(m) ==
  /\ proc[m] = "state"
  /\ agentID' = [agentID EXCEPT ![m] = disk[m]["key"]]
  /\ Write(m, "state", disk[m]["key"])
  /\ Goto(m, "connect")
  /\ UNCHANGED <<calls, hosts, agents>>

\* TLSConfig: key, certificate and CA load, and key and certificate match.
Loads(files) ==
  /\ files["crt"] \in Calls /\ files["key"] = files["crt"]
  /\ files["ca"] \in Calls

Connect(m) ==
  /\ proc[m] = "connect"
  /\ Goto(m, IF Loads(disk[m]) THEN "running" ELSE "off")
  /\ agentID' = [agentID EXCEPT ![m] = IF Loads(disk[m]) THEN @ ELSE Absent]
  /\ UNCHANGED <<disk, calls, hosts, agents>>

\* The file os.WriteFile may be in the middle of: a running agent rewrites
\* state.json when doCheckin learns of a new config version.
InWriting ==
  [enroll |-> {"key"}, waiting |-> {}, crt |-> {"crt"}, ca |-> {"ca"},
   state |-> {"state"}, connect |-> {}, running |-> {"state"}]

\* The process dies, or a write fails and it gives up.
Crash(m) ==
  /\ proc[m] # "off"
  /\ FaultsMayHappen("crash")
  /\ \/ UNCHANGED disk
     \/ \E f \in InWriting[proc[m]] : Write(m, f, Torn)
  /\ Goto(m, "off")
  /\ agentID' = [agentID EXCEPT ![m] = Absent]
  /\ UNCHANGED <<calls, hosts, agents>>

-----------------------------------------------------------------------------
(* The server: HandleEnroll for call n. *)

\* Mutant: the waterfall does not end in an INSERT.
LookupForever(n) ==
  LET k == calls[n].level
      found == {h \in HostIds : hosts[h][k] \cap calls[n].facts[k] # {}}
  IN /\ calls[n].stage = "lookup"
     /\ \/ \E h \in found :
             calls' = [calls EXCEPT ![n].stage = "write", ![n].host = h]
        \/ /\ found = {}
           /\ calls' = [calls EXCEPT ![n].level = k + 1]
     /\ UNCHANGED <<proc, disk, agentID, hosts, agents>>

\* resolveOrCreateHost, one SELECT of the waterfall; any row that matches may
\* come first.
Lookup(n) ==
  LET k == calls[n].level
      found == {h \in HostIds : hosts[h][k] \cap calls[n].facts[k] # {}}
  IN /\ calls[n].stage = "lookup"
     /\ \/ \E h \in found :
             calls' = [calls EXCEPT ![n].stage = "write", ![n].host = h]
        \/ /\ found = {}
           /\ calls' = IF k = 4 THEN [calls EXCEPT ![n].stage = "write"]
                                ELSE [calls EXCEPT ![n].level = k + 1]
     /\ UNCHANGED <<proc, disk, agentID, hosts, agents>>

\* The row updateHost writes (COALESCE keeps a serial number that is not
\* collected any more), or the one that is inserted.
HostRow(n) ==
  LET c == calls[n]
  IN [k \in Levels |->
        IF k = 1 /\ c.host # NoHost /\ c.facts[1] = {}
          THEN hosts[c.host][1] ELSE c.facts[k]]

\* Mutant: hosts without that index.
NoSerialIndex(n) == TRUE

\* The unique index on hosts.serial_number.
SerialIsFree(n) ==
  \A h \in HostIds : h # calls[n].host => hosts[h][1] \cap HostRow(n)[1] = {}

\* Mutant: one agent per host, the new one replaces the one before it.
EnrollReplaces(n) ==
  LET h == IF calls[n].host = NoHost THEN Len(hosts) + 1 ELSE calls[n].host
  IN /\ calls[n].stage = "write"
     /\ SerialIsFree(n)
     /\ hosts' = IF h \in HostIds THEN [hosts EXCEPT ![h] = HostRow(n)]
                                  ELSE Append(hosts, HostRow(n))
     /\ agents' = {a \in agents : a.host # h} \cup {[cert |-> n, host |-> h]}
     /\ calls' = [calls EXCEPT ![n].stage = "ok"]
     /\ UNCHANGED <<proc, disk, agentID>>

\* The host row and the agent row are committed together; the commit may
\* succeed and still be reported as failed.
Enroll(n) ==
  LET h == IF calls[n].host = NoHost THEN Len(hosts) + 1 ELSE calls[n].host
  IN /\ calls[n].stage = "write"
     /\ SerialIsFree(n)
     /\ hosts' = IF h \in HostIds THEN [hosts EXCEPT ![h] = HostRow(n)]
                                  ELSE Append(hosts, HostRow(n))
     /\ agents' = agents \cup {[cert |-> n, host |-> h]}
     /\ \/ calls' = [calls EXCEPT ![n].stage = "ok"]
        \/ /\ FaultsMayHappen("db")
           /\ calls' = [calls EXCEPT ![n].stage = "error"]
     /\ UNCHANGED <<proc, disk, agentID>>

\* Mutant: HandleEnroll does not look at Enroll's error.
EnrollErrorIgnored(n) ==
  /\ calls[n].stage \in {"lookup", "write"}
  /\ FaultsMayHappen("db") \/ FaultsMayHappen("net")
  /\ calls' = [calls EXCEPT ![n].stage = "ok"]
  /\ UNCHANGED <<proc, disk, agentID, hosts, agents>>

\* The transaction rolls back: a statement fails, or the agent hung up and the
\* request's context ends.
EnrollFails(n) ==
  /\ calls[n].stage \in {"lookup", "write"}
  /\ FaultsMayHappen("db") \/ FaultsMayHappen("net")
  /\ calls' = [calls EXCEPT ![n].stage = "error"]
  /\ UNCHANGED <<proc, disk, agentID, hosts, agents>>

\* The transaction rolls back because another host has the serial number.
EnrollConflicts(n) ==
  /\ calls[n].stage = "write"
  /\ ~SerialIsFree(n)
  /\ calls' = [calls EXCEPT ![n].stage = "conflict"]
  /\ UNCHANGED <<proc, disk, agentID, hosts, agents>>

-----------------------------------------------------------------------------

AgentStep(m) ==
  \/ Boot(m) \/ RequestCert(m) \/ ReceiveCert(m) \/ EnrollmentFails(m)
  \/ StoreCert(m) \/ StoreCA(m) \/ SaveState(m) \/ Connect(m)

Next ==
  \/ \E m \in Machines : AgentStep(m) \/ Crash(m)
  \/ \E n \in Calls : Lookup(n) \/ Enroll(n) \/ EnrollFails(n) \/ EnrollConflicts(n)

Spec == Init /\ [][Next]_vars

\* The service manager restarts the agent, a process that runs goes on, and it
\* is not struck at the same place every time; the server goes on.
Fairness ==
  /\ \A m \in Machines :
       /\ WF_vars(Boot(m)) /\ WF_vars(SaveState(m))
       /\ SF_vars(RequestCert(m)) /\ SF_vars(ReceiveCert(m))
       /\ WF_vars(EnrollmentFails(m))
       /\ WF_vars(StoreCert(m)) /\ WF_vars(StoreCA(m))
       /\ SF_vars(Connect(m))
  /\ \A n \in Calls : WF_vars(Lookup(n)) /\ WF_vars(Enroll(n) \/ EnrollConflicts(n))

FairSpec == Spec /\ Fairness
-----------------------------------------------------------------------------
(* Safety. *)

\* A certificate is stored beside the key it was made for, whatever crashes and
\* repeated enrollments did: agent.key is not overwritten once agent.crt is
\* there (IsEnrolled).
KeyFits ==
  \A m \in Machines : disk[m]["crt"] \in Calls => disk[m]["key"] = disk[m]["crt"]

\* A certificate that is stored maps to an agent row, so mTLSMiddleware lets
\* the agent that holds it in.
Registered ==
  \A m \in Machines : disk[m]["crt"] \in Calls => disk[m]["crt"] \in Certs

\* The hosts table has one row per machine ("durable machine identity"): two
\* agent rows share a host exactly if their enrollments came from one machine.
HostIsMachine ==
  \A a, b \in agents :
    a.host = b.host <=> calls[a.cert].machine = calls[b.cert].machine

\* The agent rows of machine m.
AgentsOf(m) == {a \in agents : calls[a.cert].machine = m}

Abstract == INSTANCE Registry WITH
  Certs <- Calls,
  row   <- [m \in Machines |->
              {[id |-> a.host, facts |-> hosts[a.host]] : a \in AgentsOf(m)}],
  certs <- [m \in Machines |-> {a.cert : a \in AgentsOf(m)}]

\* A committed enrollment takes effect on its own machine's row alone, and that
\* row stays the machine's: whatever looks up, conflicts, is repeated, or is
\* committed although the agent had given up.
ImplementsRegistry == Abstract!Spec

-----------------------------------------------------------------------------
(* The inductive invariant behind KeyFits and Registered. *)

\* What each step of doEnroll may count on.
Progress ==
  \A m \in Machines :
    /\ proc[m] \in {"enroll", "waiting", "crt"} => disk[m]["crt"] = Absent
    /\ proc[m] \in {"waiting", "crt", "ca", "state"} => disk[m]["key"] \in Calls
    /\ proc[m] = "crt" => disk[m]["key"] \in Certs

\* The server answers 200 for a row that is committed.
Answered == \A n \in Calls : calls[n].stage = "ok" => n \in Certs

\* The waterfall found a row that is there.
HostFound ==
  \A n \in Calls :
    /\ calls[n].stage = "lookup" => calls[n].host = NoHost
    /\ calls[n].stage = "write" => calls[n].host \in HostIds \cup {NoHost}

IInv == TypeOK /\ KeyFits /\ Registered /\ Progress /\ Answered /\ HostFound

-----------------------------------------------------------------------------
(* Liveness, under FairSpec. *)

\* The files of an agent that will never start again.
Broken(files) ==
  \/ files["state"] = Torn
  \/ files["crt"] # Absent /\ ~Loads(files)

\* Every agent comes to run, unless a crash left it with some but not all of
\* its files, or with a torn one.
RunsOrBroken ==
  \A m \in Machines :
    <>(proc[m] = "running" \/ (proc[m] = "off" /\ Broken(disk[m])))

\* An agent enrolls "if we don't have a cert yet", and so comes to run.
EventuallyRuns == \A m \in Machines : <>(proc[m] = "running")
=============================================================================
