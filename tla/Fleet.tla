------------------------------- MODULE Fleet --------------------------------
(***************************************************************************)
(* Fleet management: an administrator's requests change agents rows, queue *)
(* commands, create users and leave audit entries (api/fleet.go,           *)
(* store/decommission.go, store/commands.go), each request as a sequence   *)
(* of autocommitted statements; agents poll with checkin and learn of      *)
(* config versions and commands (HandleCheckin, doCheckin).                *)
(*                                                                         *)
(* One checkin per agent is followed, the one whose answer the agent still *)
(* awaits. One it has given up on may still be handled, but then changes   *)
(* nothing that the first did not: doCheckin acknowledges no commands. For *)
(* the same reason a retry within Post is a checkin of its own here: its   *)
(* body is the same as long as none is answered.                           *)
(***************************************************************************)
EXTENDS Naturals, FiniteSets

CONSTANTS
  Agents,       \* enrolled agents
  Ghost,        \* an agent id no row has
  Names,        \* names for new web users
  Ops,          \* bound on the administrators' requests
  NoOp,         \* the config '{}' that an agents row starts with
  Decoded,      \* what a config is as a proto.AgentConfig
  BodyEncoding, \* of the agents' requests: "gzip", or "identity"
  Faults        \* which of the faults below may happen

ASSUME FleetAssumption ==
  /\ Ghost \notin Agents
  /\ IsFiniteSet(Ops) /\ NoOp \notin Ops
  /\ Decoded = [c \in Ops \cup {NoOp} |-> Decoded[c]]
  /\ BodyEncoding \in {"gzip", "identity"}
  /\ Faults \subseteq {"net", "db", "disk", "crash"}

VARIABLES
  status, config, version, \* agents rows; a config is the request that pushed it
  commands,                \* commands rows
  users,                   \* web_users rows
  audit,                   \* audit_log: the requests that have an entry
  ops,                     \* administrators' requests
  proc,                    \* where each agent's goroutine is
  known,                   \* its State.ConfigVersion in memory
  saved,                   \* and in state.json
  checkin,                 \* the checkin it awaits the answer of
  sent,                    \* history: the last config in an answer it received
  delivered                \* history: the commands in answers it received

rowVars == <<status, config, version>>
webVars == <<users, audit, ops>>
agentVars == <<proc, known, saved, sent, delivered>>
vars == <<rowVars, commands, webVars, agentVars, checkin>>

Scans == "scan_now"  \* stands for every type that is neither of the other two
CommandKinds == {"decommission", "config_update", Scans}
OpStages == {"update", "insert", "audit", "created", "error"}
Op == [kind : CommandKinds, target : Agents \cup {Ghost}, stage : OpStages]
      \cup [kind : {"create_user"}, target : Names, stage : OpStages]
Free == [stage |-> "free"]

Configs == Ops \cup {NoOp}
\* The errors of json.Unmarshal are ignored: what an administrator pushes with
\* unknown names or of the wrong type leaves fields of the answer at their zero
\* values, the ones that '{}' decodes to.
AgentConfigs == {Decoded[c] : c \in Configs}
Checkin == [stage : {"none", "sent", "admitted", "read", "replied"},
            version : Nat, acked : SUBSET Ops,
            newVersion : Nat, config : AgentConfigs, commands : SUBSET Ops]
NoCheckin == [stage |-> "none", version |-> 0, acked |-> {},
              newVersion |-> 0, config |-> Decoded[NoOp], commands |-> {}]

TypeOK ==
  /\ status \in [Agents -> {"active", "decommissioned"}]
  /\ config \in [Agents -> Configs]
  /\ version \in [Agents -> Nat]
  /\ commands \subseteq [op : Ops, agent : Agents, status : {"pending", "acked"}]
  /\ users \subseteq [name : Names, by : Ops]
  /\ audit \subseteq Ops
  /\ ops \in [Ops -> Op \cup {Free}]
  /\ proc \in [Agents -> {"down", "idle", "asking"}]
  /\ known \in [Agents -> Nat]
  /\ saved \in [Agents -> Nat]
  /\ checkin \in [Agents -> Checkin]
  /\ sent \in [Agents -> AgentConfigs]
  /\ delivered \in [Agents -> SUBSET Ops]

\* Enrolled agents that have not checked in yet.
Init ==
  /\ status = [a \in Agents |-> "active"]
  /\ config = [a \in Agents |-> NoOp]
  /\ version = [a \in Agents |-> 1]
  /\ commands = {} /\ users = {} /\ audit = {}
  /\ ops = [o \in Ops |-> Free]
  /\ proc = [a \in Agents |-> "down"]
  /\ known = [a \in Agents |-> 0]
  /\ saved = [a \in Agents |-> 0]
  /\ checkin = [a \in Agents |-> NoCheckin]
  /\ sent = [a \in Agents |-> Decoded[NoOp]]
  /\ delivered = [a \in Agents |-> {}]

-----------------------------------------------------------------------------
(* An administrator's request, statement by statement. *)

Goto(o, stage) == ops' = [ops EXCEPT ![o].stage = stage]

\* After a statement that took effect; its success may be reported as an error.
Then(o, stage) == Goto(o, stage) \/ ("db" \in Faults /\ Goto(o, "error"))

\* POST /api/agents/{agentID}/commands or /api/users.
Submit(o) ==
  /\ ops[o] = Free
  /\ \/ \E kind \in CommandKinds, t \in Agents \cup {Ghost} :
          ops' = [ops EXCEPT ![o] =
                    [kind |-> kind, target |-> t,
                     stage |-> IF kind = Scans THEN "insert" ELSE "update"]]
     \/ \E name \in Names :
          ops' = [ops EXCEPT ![o] =
                    [kind |-> "create_user", target |-> name, stage |-> "insert"]]
  /\ UNCHANGED <<rowVars, commands, users, audit, agentVars, checkin>>

\* Mutant: the command's name as the status.
DecommissionTypo(o) ==
  /\ ops[o].stage = "update" /\ ops[o].kind = "decommission"
  /\ status' = [a \in Agents |-> IF a = ops[o].target THEN ops[o].kind ELSE status[a]]
  /\ Then(o, "insert")
  /\ UNCHANGED <<config, version, commands, users, audit, agentVars, checkin>>

\* DecommissionAgent's UPDATE; it changes no row if there is no such agent.
DecommissionAgent(o) ==
  /\ ops[o].stage = "update" /\ ops[o].kind = "decommission"
  /\ status' = [a \in Agents |->
                  IF a = ops[o].target THEN "decommissioned" ELSE status[a]]
  /\ Then(o, "insert")
  /\ UNCHANGED <<config, version, commands, users, audit, agentVars, checkin>>

\* PushConfig's UPDATE of config and config_version.
PushConfig(o) ==
  /\ ops[o].stage = "update" /\ ops[o].kind = "config_update"
  /\ config' = [a \in Agents |-> IF a = ops[o].target THEN o ELSE config[a]]
  /\ version' = [a \in Agents |->
                   IF a = ops[o].target THEN version[a] + 1 ELSE version[a]]
  /\ Then(o, "insert")
  /\ UNCHANGED <<status, commands, users, audit, agentVars, checkin>>

\* The INSERT INTO commands that all three kinds end in.
QueueCommand(o) ==
  /\ ops[o].stage = "insert" /\ ops[o].kind \in CommandKinds
  /\ ops[o].target \in Agents
  /\ commands' = commands \cup
                   {[op |-> o, agent |-> ops[o].target, status |-> "pending"]}
  /\ Then(o, "audit")
  /\ UNCHANGED <<rowVars, users, audit, agentVars, checkin>>

NameIsFree(o) == \A u \in users : u.name # ops[o].target

CreateUser(o) ==
  /\ ops[o].stage = "insert" /\ ops[o].kind = "create_user"
  /\ NameIsFree(o)
  /\ users' = users \cup {[name |-> ops[o].target, by |-> o]}
  /\ Then(o, "audit")
  /\ UNCHANGED <<rowVars, commands, audit, agentVars, checkin>>

\* The foreign key of commands, the unique name of web_users.
Violates(o) ==
  /\ ops[o].stage = "insert"
  /\ IF ops[o].kind = "create_user" THEN ~NameIsFree(o) ELSE ops[o].target = Ghost

\* Mutant: err is shadowed in the switch, so the handler goes on.
ErrorShadowed(o) ==
  /\ ops[o].stage \in {"update", "insert"}
  /\ "db" \in Faults \/ Violates(o)
  /\ Goto(o, "audit")
  /\ UNCHANGED <<rowVars, commands, users, audit, agentVars, checkin>>

\* A statement fails (or the client goes away, or the server dies): 500, and the
\* statements before it stay.
StatementFails(o) ==
  /\ ops[o].stage \in {"update", "insert"}
  /\ "db" \in Faults \/ Violates(o)
  /\ Goto(o, "error")
  /\ UNCHANGED <<rowVars, commands, users, audit, agentVars, checkin>>

\* The error of WriteAuditLog is ignored.
WriteAuditLog(o) ==
  /\ ops[o].stage = "audit"
  /\ \/ audit' = audit \cup {o}
     \/ "db" \in Faults /\ UNCHANGED audit
  /\ Goto(o, "created")
  /\ UNCHANGED <<rowVars, commands, users, agentVars, checkin>>

-----------------------------------------------------------------------------
(* Agents. *)

Boot(a) ==
  /\ proc[a] = "down"
  /\ proc' = [proc EXCEPT ![a] = "idle"]
  /\ UNCHANGED <<rowVars, commands, webVars, known, saved, sent, delivered, checkin>>

\* checkinTick: doCheckin leaves AckedCommandIDs empty.
Ask(a) ==
  /\ proc[a] = "idle"
  /\ proc' = [proc EXCEPT ![a] = "asking"]
  /\ checkin' = [checkin EXCEPT ![a] =
                   [NoCheckin EXCEPT !.stage = "sent", !.version = known[a]]]
  /\ UNCHANGED <<rowVars, commands, webVars, known, saved, sent, delivered>>

\* Mutant: the new version is set in a copy of the state, which is saved.
ReceiveIntoCopy(a) ==
  LET r == checkin[a]
  IN /\ r.stage = "replied"
     /\ proc' = [proc EXCEPT ![a] = "idle"]
     /\ checkin' = [checkin EXCEPT ![a] = NoCheckin]
     /\ IF r.newVersion > known[a]
          THEN /\ sent' = [sent EXCEPT ![a] = r.config]
               /\ saved' = [saved EXCEPT ![a] = r.newVersion]
          ELSE UNCHANGED <<saved, sent>>
     /\ delivered' = [delivered EXCEPT ![a] = @ \cup r.commands]
     /\ UNCHANGED <<rowVars, commands, webVars, known>>

\* The answer arrives. resp.Commands and resp.Config are dropped; the error of
\* SaveState is, too, and a crash may come before it.
Receive(a) ==
  LET r == checkin[a]
  IN /\ r.stage = "replied"
     /\ proc' = [proc EXCEPT ![a] = "idle"]
     /\ checkin' = [checkin EXCEPT ![a] = NoCheckin]
     /\ IF r.newVersion > known[a]
          THEN /\ known' = [known EXCEPT ![a] = r.newVersion]
               /\ sent' = [sent EXCEPT ![a] = r.config]
               /\ \/ saved' = [saved EXCEPT ![a] = r.newVersion]
                  \/ "disk" \in Faults /\ UNCHANGED saved
          ELSE UNCHANGED <<known, saved, sent>>
     /\ delivered' = [delivered EXCEPT ![a] = @ \cup r.commands]
     /\ UNCHANGED <<rowVars, commands, webVars>>

\* No answer, or one that is not 200: mTLSMiddleware finds no active agent, the
\* body cannot be read, GetAgentByID fails.
CheckinFails(a) ==
  /\ \/ checkin[a].stage = "sent" /\ (status[a] # "active" \/ BodyEncoding = "gzip")
     \/ checkin[a].stage # "none" /\ Faults \cap {"net", "db"} # {}
  /\ proc' = [proc EXCEPT ![a] = "idle"]
  /\ checkin' = [checkin EXCEPT ![a] = NoCheckin]
  /\ UNCHANGED <<rowVars, commands, webVars, known, saved, sent, delivered>>

Crash(a) ==
  /\ "crash" \in Faults
  /\ proc[a] # "down"
  /\ proc' = [proc EXCEPT ![a] = "down"]
  /\ known' = [known EXCEPT ![a] = saved[a]]
  /\ checkin' = [checkin EXCEPT ![a] = NoCheckin]
  /\ UNCHANGED <<rowVars, commands, webVars, saved, sent, delivered>>

-----------------------------------------------------------------------------
(* HandleCheckin. *)

\* Mutant: the certificate alone is enough.
AdmitAnyStatus(a) ==
  /\ checkin[a].stage = "sent"
  /\ BodyEncoding = "identity"
  /\ checkin' = [checkin EXCEPT ![a].stage = "admitted"]
  /\ UNCHANGED <<rowVars, commands, webVars, agentVars>>

\* mTLSMiddleware, readJSON and AckCommands, whose error the handler ignores.
Admit(a) ==
  /\ checkin[a].stage = "sent"
  /\ status[a] = "active" /\ BodyEncoding = "identity"
  /\ \/ commands' = {IF c.agent = a /\ c.op \in checkin[a].acked
                       THEN [c EXCEPT !.status = "acked"] ELSE c : c \in commands}
     \/ "db" \in Faults /\ UNCHANGED commands
  /\ checkin' = [checkin EXCEPT ![a].stage = "admitted"]
  /\ UNCHANGED <<rowVars, webVars, agentVars>>

\* GetAgentByID reads version and config in one SELECT and decodes the config,
\* which is sent if its version is newer than the agent's.
ReadAgent(a) ==
  /\ checkin[a].stage = "admitted"
  /\ checkin' = [checkin EXCEPT
                   ![a].stage = "read", ![a].newVersion = version[a],
                   ![a].config = IF version[a] > checkin[a].version
                                   THEN Decoded[config[a]] ELSE Decoded[NoOp]]
  /\ UNCHANGED <<rowVars, commands, webVars, agentVars>>

Pending(a) == {c.op : c \in {d \in commands : d.agent = a /\ d.status = "pending"}}

\* Mutant: the answer carries a version that is read with the commands.
ReplyWithNewestVersion(a) ==
  /\ checkin[a].stage = "read"
  /\ checkin' = [checkin EXCEPT ![a].stage = "replied", ![a].commands = Pending(a),
                                ![a].newVersion = version[a]]
  /\ UNCHANGED <<rowVars, commands, webVars, agentVars>>

\* Mutant: a command counts as acknowledged when it is sent.
ReplyAcks(a) ==
  /\ checkin[a].stage = "read"
  /\ checkin' = [checkin EXCEPT ![a].stage = "replied", ![a].commands = Pending(a)]
  /\ commands' = {IF c.agent = a THEN [c EXCEPT !.status = "acked"] ELSE c :
                    c \in commands}
  /\ UNCHANGED <<rowVars, webVars, agentVars>>

Reply(a) ==
  /\ checkin[a].stage = "read"
  /\ checkin' = [checkin EXCEPT ![a].stage = "replied", ![a].commands = Pending(a)]
  /\ UNCHANGED <<rowVars, commands, webVars, agentVars>>

\* The error of PendingCommands is ignored: an answer without commands.
ReplyBare(a) ==
  /\ "db" \in Faults
  /\ checkin[a].stage = "read"
  /\ checkin' = [checkin EXCEPT ![a].stage = "replied"]
  /\ UNCHANGED <<rowVars, commands, webVars, agentVars>>

-----------------------------------------------------------------------------

Request(o) ==
  \/ DecommissionAgent(o) \/ PushConfig(o) \/ QueueCommand(o) \/ CreateUser(o)
  \/ WriteAuditLog(o)

AgentStep(a) == Boot(a) \/ Ask(a) \/ Receive(a)

Handler(a) == Admit(a) \/ ReadAgent(a) \/ Reply(a)

Next ==
  \/ \E o \in Ops : Submit(o) \/ Request(o) \/ StatementFails(o)
  \/ \E a \in Agents : \/ AgentStep(a) \/ CheckinFails(a) \/ Crash(a)
                       \/ Handler(a) \/ ReplyBare(a)

Spec == Init /\ [][Next]_vars

\* The service manager restarts the agent, checkinTick fires again and again, a
\* request that is refused ends; and faults do not strike every checkin at the
\* same place.
Fairness ==
  \A a \in Agents :
    /\ WF_vars(Boot(a)) /\ SF_vars(Ask(a))
    /\ WF_vars(CheckinFails(a))
    /\ SF_vars(Admit(a)) /\ SF_vars(ReadAgent(a))
    /\ SF_vars(Reply(a)) /\ SF_vars(Receive(a))
    /\ SF_vars(Receive(a) /\ checkin[a].commands # {})

FairSpec == Spec /\ Fairness
-----------------------------------------------------------------------------
(* Safety. *)

\* HandleCheckin compares versions instead of configs. That is sound: an agent
\* whose version is the one in its agents row has been sent the config of that
\* row, as far as it can be decoded, whichever pushes, lost answers and restarts
\* came before.
CurrentConfigSent ==
  \A a \in Agents : known[a] = version[a] => sent[a] = Decoded[config[a]]

\* What an accepted request leaves behind.
TookEffect(o) ==
  LET t == ops[o].target
  IN /\ ops[o].kind \in CommandKinds => \E c \in commands : c.op = o /\ c.agent = t
     /\ ops[o].kind = "decommission" => status[t] = "decommissioned"
     /\ ops[o].kind = "create_user" => [name |-> t, by |-> o] \in users

PushesTo(a) == {o \in Ops : ops[o].stage # "free" /\ ops[o].kind = "config_update"
                           /\ ops[o].target = a}

\* An audit entry tells of a change that was made, all of it; and an agent's
\* version has gone up once for each audited push to it, however they interleaved.
AuditIsTrue ==
  /\ \A o \in audit : TookEffect(o)
  /\ \A a \in Agents : version[a] > Cardinality(PushesTo(a) \cap audit)

\* An agent stays decommissioned, and only the answer to a checkin that was
\* admitted before can still bring it a config or a command.
DecommissionedHearsNothing ==
  [][\A a \in Agents : status[a] = "decommissioned" =>
       /\ status'[a] = "decommissioned"
       /\ checkin[a].stage \in {"none", "sent"} =>
            /\ checkin'[a].stage \in {"none", "sent"}
            /\ sent'[a] = sent[a] /\ delivered'[a] = delivered[a]]_vars

-----------------------------------------------------------------------------
(* The inductive invariants behind them. *)

\* What an agent knows was true, and may be behind.
KnownBounds ==
  \A a \in Agents :
    /\ saved[a] <= known[a] /\ known[a] <= version[a] /\ version[a] > 0
    /\ known[a] = version[a] => sent[a] = Decoded[config[a]]

\* An answer under way names a version that was read together with its config,
\* after the agent asked.
AnswerFits ==
  \A a \in Agents :
    LET r == checkin[a]
    IN /\ r.stage # "none" => r.version = known[a]
       /\ r.stage \in {"read", "replied"} =>
            /\ r.newVersion <= version[a]
            /\ r.newVersion = version[a] /\ r.newVersion > r.version
                 => r.config = Decoded[config[a]]

ConfigInv == TypeOK /\ KnownBounds /\ AnswerFits

\* What a request has changed by the time its next statement runs.
DoneSoFar(o) ==
  LET t == ops[o].target
  IN /\ ops[o].stage = "insert" /\ t \in Agents /\ ops[o].kind = "decommission"
          => status[t] = "decommissioned"
     /\ ops[o].stage \in {"audit", "created"} => TookEffect(o)
     /\ o \in audit => ops[o].stage = "created"

StatementsDone == \A o \in Ops : DoneSoFar(o)

\* The pushes to an agent whose UPDATE is known to have been made.
Pushed(a) == {o \in PushesTo(a) : ops[o].stage \in {"insert", "audit", "created"}}

PushesCounted == \A a \in Agents : version[a] > Cardinality(Pushed(a))

AuditInv == TypeOK /\ StatementsDone /\ PushesCounted

-----------------------------------------------------------------------------
(* Liveness, under FairSpec. *)

\* An agent that stays active comes to know the newest config version, again
\* after each push and after each restart that forgot what was not saved.
LearnsConfig ==
  \A a \in Agents :
    []<>(known[a] = version[a] \/ status[a] = "decommissioned")

\* The commands that are queued for an agent are handed to it, each at least
\* once, unless it is decommissioned.
Delivered ==
  \A a \in Agents :
    []<>({c.op : c \in {d \in commands : d.agent = a}} \subseteq delivered[a]
         \/ status[a] = "decommissioned")
=============================================================================
