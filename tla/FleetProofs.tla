---------------------------- MODULE FleetProofs -----------------------------
(***************************************************************************)
(* Proofs about Fleet, for any number of agents and of requests by any     *)
(* number of administrators: comparing config versions is sound, the audit *)
(* log tells of no change that was not made, and an agent stays            *)
(* decommissioned and hears nothing more.                                  *)
(***************************************************************************)
EXTENDS Fleet, FiniteSetTheorems, TLAPS

LEMMA InitTyped == Init => TypeOK
BY FleetAssumption DEF Init, TypeOK, Configs, AgentConfigs, Checkin, NoCheckin, Free

-----------------------------------------------------------------------------
(* Type correctness. *)

LEMMA NoCheckinTyped == NoCheckin \in Checkin
BY DEF NoCheckin, Checkin, Configs, AgentConfigs

\* A request that was submitted is one.
LEMMA Submitted ==
  ASSUME TypeOK, NEW o \in Ops, ops[o].stage # "free"
  PROVE  ops[o] \in Op
BY DEF TypeOK, Free

LEMMA GotoTyped ==
  ASSUME TypeOK, NEW o \in Ops, NEW s \in OpStages, ops[o].stage # "free", Goto(o, s)
  PROVE  ops' \in [Ops -> Op \cup {Free}]
<1>1. [ops[o] EXCEPT !.stage = s] \in Op
  BY Submitted DEF Op
<1>2. QED BY <1>1 DEF Goto, TypeOK

LEMMA RequestTyped ==
  ASSUME TypeOK, NEW o \in Ops, Submit(o) \/ Request(o) \/ StatementFails(o)
  PROVE  TypeOK'
<1>1. UNCHANGED <<agentVars, checkin>>
  BY DEF Submit, Request, StatementFails, DecommissionAgent, PushConfig,
       QueueCommand, CreateUser, WriteAuditLog
<1>2. CASE Submit(o)
  <2>1. ops' \in [Ops -> Op \cup {Free}]
    BY <1>2 DEF Submit, TypeOK, Op, OpStages, CommandKinds, Scans
  <2>2. QED BY <1>1, <1>2, <2>1 DEF Submit, TypeOK, rowVars, agentVars
<1>3. ASSUME NEW s \in OpStages, ops[o].stage # "free", Then(o, s)
      PROVE  ops' \in [Ops -> Op \cup {Free}]
  BY <1>3, GotoTyped DEF Then, OpStages
<1>4. CASE DecommissionAgent(o)
  <2>1. ops' \in [Ops -> Op \cup {Free}]
    BY <1>3, <1>4 DEF DecommissionAgent, OpStages
  <2>2. QED BY <1>1, <1>4, <2>1 DEF DecommissionAgent, TypeOK, agentVars
<1>5. CASE PushConfig(o)
  <2>1. ops' \in [Ops -> Op \cup {Free}]
    BY <1>3, <1>5 DEF PushConfig, OpStages
  <2>2. QED BY <1>1, <1>5, <2>1 DEF PushConfig, TypeOK, Configs, agentVars
<1>6. CASE QueueCommand(o)
  <2>1. ops' \in [Ops -> Op \cup {Free}]
    BY <1>3, <1>6 DEF QueueCommand, OpStages
  <2>2. QED BY <1>1, <1>6, <2>1 DEF QueueCommand, TypeOK, rowVars, agentVars
<1>7. CASE CreateUser(o)
  <2>1. ops' \in [Ops -> Op \cup {Free}]
    BY <1>3, <1>7 DEF CreateUser, OpStages
  <2>2. ops[o].target \in Names
    BY <1>7, Submitted DEF CreateUser, Op, CommandKinds, Scans
  <2>3. QED BY <1>1, <1>7, <2>1, <2>2 DEF CreateUser, TypeOK, rowVars, agentVars
<1>8. CASE StatementFails(o)
  <2>1. ops' \in [Ops -> Op \cup {Free}]
    BY <1>8, GotoTyped DEF StatementFails, OpStages
  <2>2. QED BY <1>1, <1>8, <2>1 DEF StatementFails, TypeOK, rowVars, agentVars
<1>9. CASE WriteAuditLog(o)
  <2>1. ops' \in [Ops -> Op \cup {Free}]
    BY <1>9, GotoTyped DEF WriteAuditLog, OpStages
  <2>2. QED BY <1>1, <1>9, <2>1 DEF WriteAuditLog, TypeOK, rowVars, agentVars
<1>10. QED BY <1>2, <1>4, <1>5, <1>6, <1>7, <1>8, <1>9 DEF Request

LEMMA AgentTyped ==
  ASSUME TypeOK, NEW a \in Agents, AgentStep(a) \/ CheckinFails(a) \/ Crash(a)
  PROVE  TypeOK'
<1>1. UNCHANGED <<rowVars, commands, webVars>>
  BY DEF AgentStep, Boot, Ask, Receive, CheckinFails, Crash
<1>2. checkin[a] \in Checkin
  BY DEF TypeOK
<1>3. checkin' \in [Agents -> Checkin]
  <2>1. [NoCheckin EXCEPT !.stage = "sent", !.version = known[a]] \in Checkin
    BY NoCheckinTyped DEF TypeOK, Checkin, NoCheckin
  <2>2. QED BY <2>1, NoCheckinTyped DEF TypeOK, AgentStep, Boot, Ask, Receive,
                 CheckinFails, Crash
<1>4. proc' \in [Agents -> {"down", "idle", "asking"}]
  BY DEF TypeOK, AgentStep, Boot, Ask, Receive, CheckinFails, Crash
<1>5. known' \in [Agents -> Nat] /\ saved' \in [Agents -> Nat]
  <2>1. Receive(a) => known' \in [Agents -> Nat] /\ saved' \in [Agents -> Nat]
    BY <1>2 DEF TypeOK, Checkin, Receive
  <2>2. ~Receive(a) => known' \in [Agents -> Nat] /\ saved' \in [Agents -> Nat]
    BY DEF TypeOK, AgentStep, Boot, Ask, CheckinFails, Crash
  <2>3. QED BY <2>1, <2>2
<1>6. sent' \in [Agents -> AgentConfigs] /\ delivered' \in [Agents -> SUBSET Ops]
  BY <1>2 DEF TypeOK, Checkin, AgentStep, Boot, Ask, Receive, CheckinFails, Crash
<1>7. QED BY <1>1, <1>3, <1>4, <1>5, <1>6 DEF TypeOK, rowVars, webVars

LEMMA HandlerTyped ==
  ASSUME TypeOK, NEW a \in Agents, Handler(a) \/ ReplyBare(a)
  PROVE  TypeOK'
<1>1. UNCHANGED <<rowVars, webVars, agentVars>>
  BY DEF Handler, Admit, ReadAgent, Reply, ReplyBare
<1>2. checkin[a] \in Checkin
  BY DEF TypeOK
<1>3. commands' \subseteq [op : Ops, agent : Agents, status : {"pending", "acked"}]
  BY DEF TypeOK, Handler, Admit, ReadAgent, Reply, ReplyBare
<1>4. Pending(a) \subseteq Ops
  BY DEF Pending, TypeOK
<1>5. PICK r \in Checkin : checkin' = [checkin EXCEPT ![a] = r]
  <2>1. CASE Admit(a)
    <3>1. [checkin[a] EXCEPT !.stage = "admitted"] \in Checkin
      BY <1>2 DEF Checkin
    <3>2. QED BY <2>1, <3>1 DEF Admit
  <2>2. CASE ReadAgent(a)
    <3> DEFINE r == [checkin[a] EXCEPT
                       !.stage = "read", !.newVersion = version[a],
                       !.config = IF version[a] > checkin[a].version
                                    THEN Decoded[config[a]] ELSE Decoded[NoOp]]
    <3>1. r \in Checkin
      BY <1>2 DEF Checkin, TypeOK, Configs, AgentConfigs
    <3>2. checkin' = [checkin EXCEPT ![a] = r]
      BY <2>2 DEF ReadAgent
    <3>3. QED BY <3>1, <3>2
  <2>3. CASE Reply(a)
    <3> DEFINE r == [checkin[a] EXCEPT !.stage = "replied", !.commands = Pending(a)]
    <3>1. r \in Checkin
      BY <1>2, <1>4 DEF Checkin
    <3>2. checkin' = [checkin EXCEPT ![a] = r]
      BY <2>3 DEF Reply
    <3>3. QED BY <3>1, <3>2
  <2>4. CASE ReplyBare(a)
    <3>1. [checkin[a] EXCEPT !.stage = "replied"] \in Checkin
      BY <1>2 DEF Checkin
    <3>2. QED BY <2>4, <3>1 DEF ReplyBare
  <2>5. QED BY <2>1, <2>2, <2>3, <2>4 DEF Handler
<1>6. QED BY <1>1, <1>3, <1>5 DEF TypeOK, rowVars, webVars, agentVars

LEMMA NextTyped == TypeOK /\ [Next]_vars => TypeOK'
<1>1. ASSUME TypeOK, UNCHANGED vars PROVE TypeOK'
  BY <1>1 DEF TypeOK, vars, rowVars, webVars, agentVars
<1>2. QED BY <1>1, RequestTyped, AgentTyped, HandlerTyped DEF Next

-----------------------------------------------------------------------------
(* Config versions. *)

LEMMA InitConfig == Init => ConfigInv
BY InitTyped DEF Init, ConfigInv, KnownBounds, AnswerFits, NoCheckin

\* An administrator's request leaves the agents alone; a push raises the version
\* above all that is known or under way.
LEMMA RequestConfig ==
  ASSUME ConfigInv, NEW o \in Ops, Submit(o) \/ Request(o) \/ StatementFails(o)
  PROVE  KnownBounds' /\ AnswerFits'
<1> USE DEF ConfigInv
<1>1. UNCHANGED <<agentVars, checkin>>
  BY DEF Submit, Request, StatementFails, DecommissionAgent, PushConfig,
       QueueCommand, CreateUser, WriteAuditLog
<1>2. CASE PushConfig(o)
  <2>1. \A a \in Agents :
          IF a = ops[o].target
            THEN version'[a] = version[a] + 1
            ELSE version'[a] = version[a] /\ config'[a] = config[a]
    BY <1>2 DEF PushConfig, TypeOK
  <2>2. KnownBounds'
    BY <1>1, <2>1 DEF KnownBounds, TypeOK, agentVars
  <2>3. AnswerFits'
    <3>1. \A a \in Agents : checkin[a].newVersion \in Nat
      BY DEF TypeOK, Checkin
    <3>2. QED BY <1>1, <2>1, <3>1 DEF AnswerFits, TypeOK, agentVars
  <2>4. QED BY <2>2, <2>3
<1>3. CASE ~PushConfig(o)
  <2>1. UNCHANGED <<config, version>>
    BY <1>3 DEF Submit, Request, StatementFails, DecommissionAgent, QueueCommand,
         CreateUser, WriteAuditLog, rowVars
  <2>2. QED BY <1>1, <2>1 DEF KnownBounds, AnswerFits, agentVars
<1>4. QED BY <1>2, <1>3

LEMMA AgentConfig ==
  ASSUME ConfigInv, NEW a \in Agents, AgentStep(a) \/ CheckinFails(a) \/ Crash(a)
  PROVE  KnownBounds' /\ AnswerFits'
<1> USE DEF ConfigInv
<1>1. UNCHANGED rowVars
  BY DEF AgentStep, Boot, Ask, Receive, CheckinFails, Crash
<1>2. checkin[a] \in Checkin
  BY DEF TypeOK
<1>3. CASE Receive(a)
  <2>1. KnownBounds'
    BY <1>1, <1>2, <1>3 DEF Receive, KnownBounds, AnswerFits, TypeOK, Checkin, rowVars
  <2>2. AnswerFits'
    <3>1. checkin'[a].stage = "none"
      BY <1>3 DEF Receive, TypeOK, NoCheckin
    <3>2. \A b \in Agents \ {a} : checkin'[b] = checkin[b] /\ known'[b] = known[b]
      BY <1>3 DEF Receive, TypeOK
    <3>3. UNCHANGED <<version, config>>
      BY <1>1 DEF rowVars
    <3>4. QED BY <3>1, <3>2, <3>3 DEF AnswerFits
  <2>3. QED BY <2>1, <2>2
<1>4. CASE Boot(a) \/ Ask(a) \/ CheckinFails(a)
  <2>1. KnownBounds'
    BY <1>1, <1>4 DEF Boot, Ask, CheckinFails, KnownBounds, rowVars
  <2>2. UNCHANGED <<version, config, known>>
    BY <1>1, <1>4 DEF Boot, Ask, CheckinFails, rowVars
  <2>3. \A b \in Agents :
          \/ checkin'[b] = checkin[b]
          \/ checkin'[b].stage = "none"
          \/ checkin'[b].stage = "sent" /\ checkin'[b].version = known[b]
    <3>1. CASE Boot(a)
      BY <3>1 DEF Boot
    <3>2. CASE Ask(a)
      BY <3>2 DEF Ask, TypeOK, NoCheckin
    <3>3. CASE CheckinFails(a)
      BY <3>3 DEF CheckinFails, TypeOK, NoCheckin
    <3>4. QED BY <1>4, <3>1, <3>2, <3>3
  <2>4. AnswerFits'
    BY <2>2, <2>3 DEF AnswerFits
  <2>5. QED BY <2>1, <2>4
<1>5. CASE Crash(a)
  <2>1. KnownBounds'
    BY <1>1, <1>5 DEF Crash, KnownBounds, TypeOK, rowVars
  <2>2. AnswerFits'
    BY <1>1, <1>5 DEF Crash, AnswerFits, TypeOK, NoCheckin, rowVars
  <2>3. QED BY <2>1, <2>2
<1>6. QED BY <1>3, <1>4, <1>5 DEF AgentStep

LEMMA HandlerConfig ==
  ASSUME ConfigInv, NEW a \in Agents, Handler(a) \/ ReplyBare(a)
  PROVE  KnownBounds' /\ AnswerFits'
<1> USE DEF ConfigInv
<1>1. UNCHANGED <<rowVars, agentVars>>
  BY DEF Handler, Admit, ReadAgent, Reply, ReplyBare
<1>2. KnownBounds'
  BY <1>1 DEF KnownBounds, rowVars, agentVars
<1>3. checkin[a] \in Checkin
  BY DEF TypeOK
<1>4. CASE ReadAgent(a)
  <2>1. /\ checkin'[a].version = known[a]
        /\ checkin'[a].newVersion = version[a]
        /\ version[a] > known[a] => checkin'[a].config = Decoded[config[a]]
    BY <1>3, <1>4 DEF ReadAgent, AnswerFits, TypeOK, Checkin
  <2>2. \A b \in Agents \ {a} : checkin'[b] = checkin[b]
    BY <1>4 DEF ReadAgent, TypeOK
  <2>3. UNCHANGED <<version, config, known>>
    BY <1>1 DEF rowVars, agentVars
  <2>4. AnswerFits'
    BY <2>1, <2>2, <2>3 DEF AnswerFits, TypeOK
  <2>5. QED BY <1>2, <2>4
<1>5. CASE Admit(a) \/ Reply(a) \/ ReplyBare(a)
  <2>1. \A b \in Agents :
          /\ checkin'[b].version = checkin[b].version
          /\ checkin'[b].newVersion = checkin[b].newVersion
          /\ checkin'[b].config = checkin[b].config
          /\ checkin'[b].stage # "none" => checkin[b].stage # "none"
          /\ checkin'[b].stage \in {"read", "replied"} =>
               checkin[b].stage \in {"read", "replied"}
    <3>1. CASE Admit(a)
      BY <1>3, <3>1 DEF Admit, TypeOK, Checkin
    <3>2. CASE Reply(a)
      BY <1>3, <3>2 DEF Reply, TypeOK, Checkin
    <3>3. CASE ReplyBare(a)
      BY <1>3, <3>3 DEF ReplyBare, TypeOK, Checkin
    <3>4. QED BY <1>5, <3>1, <3>2, <3>3
  <2>2. UNCHANGED <<version, config, known>>
    BY <1>1 DEF rowVars, agentVars
  <2>3. AnswerFits'
    BY <2>1, <2>2 DEF AnswerFits
  <2>4. QED BY <1>2, <2>3
<1>6. QED BY <1>4, <1>5 DEF Handler

LEMMA NextConfig == ConfigInv /\ [Next]_vars => ConfigInv'
<1>1. ASSUME ConfigInv, UNCHANGED vars PROVE KnownBounds' /\ AnswerFits'
  BY <1>1 DEF ConfigInv, KnownBounds, AnswerFits, vars, rowVars, agentVars
<1>2. ASSUME ConfigInv, Next PROVE KnownBounds' /\ AnswerFits'
  BY <1>2, RequestConfig, AgentConfig, HandlerConfig DEF Next
<1>3. QED BY <1>1, <1>2, NextTyped DEF ConfigInv
-----------------------------------------------------------------------------
(* The audit log. *)

LEMMA InitAudit == Init => StatementsDone
BY DEF Init, StatementsDone, DoneSoFar, Free

\* No step takes back what a statement did.
NothingUndone ==
  /\ \A c \in commands : \E d \in commands' : d.op = c.op /\ d.agent = c.agent
  /\ users \subseteq users'
  /\ \A a \in Agents : status[a] = "decommissioned" => status'[a] = "decommissioned"

LEMMA RequestUndoesNothing ==
  ASSUME TypeOK, NEW o \in Ops, Submit(o) \/ Request(o) \/ StatementFails(o)
  PROVE  NothingUndone
<1>1. commands \subseteq commands' /\ users \subseteq users'
  BY DEF Submit, Request, StatementFails, DecommissionAgent, PushConfig,
       QueueCommand, CreateUser, WriteAuditLog
<1>2. \A a \in Agents : status[a] = "decommissioned" => status'[a] = "decommissioned"
  BY DEF TypeOK, Submit, Request, StatementFails, DecommissionAgent, PushConfig,
       QueueCommand, CreateUser, WriteAuditLog, rowVars
<1>3. QED BY <1>1, <1>2 DEF NothingUndone

LEMMA AgentUndoesNothing ==
  ASSUME TypeOK, NEW a \in Agents,
         AgentStep(a) \/ CheckinFails(a) \/ Crash(a) \/ Handler(a) \/ ReplyBare(a)
  PROVE  NothingUndone /\ UNCHANGED webVars
<1>1. UNCHANGED <<rowVars, webVars>>
  BY DEF AgentStep, Boot, Ask, Receive, CheckinFails, Crash, Handler, Admit, ReadAgent,
       Reply, ReplyBare
<1>2. \A c \in commands : \E d \in commands' : d.op = c.op /\ d.agent = c.agent
  <2>1. CASE UNCHANGED commands
    BY <2>1
  <2>2. CASE Admit(a)
    <3> SUFFICES ASSUME NEW c \in commands
                 PROVE  \E d \in commands' : d.op = c.op /\ d.agent = c.agent
      OBVIOUS
    <3>1. c \in [op : Ops, agent : Agents, status : {"pending", "acked"}]
      BY DEF TypeOK
    <3>2. c \in commands' \/ [c EXCEPT !.status = "acked"] \in commands'
      BY <2>2 DEF Admit
    <3>3. QED BY <3>1, <3>2
  <2>3. QED BY <2>1, <2>2 DEF AgentStep, Boot, Ask, Receive, CheckinFails, Crash,
                 Handler, ReadAgent, Reply, ReplyBare
<1>3. QED BY <1>1, <1>2 DEF NothingUndone, TypeOK, rowVars, webVars

\* What one request has done stays done whatever another one does.
LEMMA EffectStays ==
  ASSUME AuditInv, TypeOK', NothingUndone, NEW o \in Ops, TookEffect(o),
         ops'[o].kind = ops[o].kind, ops'[o].target = ops[o].target
  PROVE  TookEffect(o)'
<1>1. ops[o].kind \in CommandKinds => ops[o].target \in Agents
  BY DEF TookEffect, AuditInv, TypeOK
<1>2. ops[o].kind = "decommission" => ops[o].kind \in CommandKinds
  BY DEF CommandKinds
<1>3. ops[o].kind = "decommission" => status'[ops[o].target] = "decommissioned"
  BY <1>1, <1>2 DEF TookEffect, NothingUndone
<1>4. QED BY <1>3 DEF TookEffect, NothingUndone

LEMMA OthersStay ==
  ASSUME AuditInv, TypeOK', NothingUndone, NEW o \in Ops, ops'[o] = ops[o],
         o \in audit' => o \in audit
  PROVE  DoneSoFar(o)'
<1>1. DoneSoFar(o)
  BY DEF AuditInv, StatementsDone
<1>2. ops[o].stage \in {"audit", "created"} => TookEffect(o)'
  BY <1>1, EffectStays DEF DoneSoFar
<1>3. QED BY <1>1, <1>2 DEF DoneSoFar, NothingUndone

\* The request that takes the step.
LEMMA ActorDone ==
  ASSUME AuditInv, TypeOK', NEW o \in Ops, Submit(o) \/ Request(o) \/ StatementFails(o)
  PROVE  DoneSoFar(o)'
<1> USE DEF AuditInv
<1>1. DoneSoFar(o) /\ NothingUndone
  BY RequestUndoesNothing DEF StatementsDone
<1>2. CASE Submit(o)
  <2>1. o \notin audit
    BY <1>1, <1>2 DEF Submit, DoneSoFar, Free
  <2>2. /\ ops'[o].stage \in {"update", "insert"}
        /\ ops'[o].stage = "insert" => ops'[o].kind \in {Scans, "create_user"}
    BY <1>2 DEF Submit, TypeOK, CommandKinds, Scans
  <2>3. QED BY <1>2, <2>1, <2>2 DEF Submit, DoneSoFar, Scans
<1>3. ASSUME NEW s \in OpStages, ops[o].stage # "free", Then(o, s) \/ Goto(o, s)
      PROVE  /\ ops'[o].kind = ops[o].kind /\ ops'[o].target = ops[o].target
             /\ ops'[o].stage \in {s, "error"}
  BY <1>3, Submitted DEF Then, Goto, TypeOK, Op
<1>4. CASE DecommissionAgent(o)
  <2>1. /\ ops'[o].kind = "decommission" /\ ops'[o].target = ops[o].target
        /\ ops'[o].stage \in {"insert", "error"}
    BY <1>3, <1>4 DEF DecommissionAgent, OpStages
  <2>2. QED BY <1>1, <1>4, <2>1 DEF DecommissionAgent, DoneSoFar
<1>5. CASE PushConfig(o)
  <2>1. /\ ops'[o].kind = "config_update" /\ ops'[o].target = ops[o].target
        /\ ops'[o].stage \in {"insert", "error"}
    BY <1>3, <1>5 DEF PushConfig, OpStages
  <2>2. QED BY <1>1, <1>5, <2>1 DEF PushConfig, DoneSoFar
<1>6. CASE QueueCommand(o)
  <2>1. /\ ops'[o].kind = ops[o].kind /\ ops'[o].target = ops[o].target
        /\ ops'[o].stage \in {"audit", "error"}
    BY <1>3, <1>6 DEF QueueCommand, OpStages
  <2>2. TookEffect(o)'
    <3> DEFINE c == [op |-> o, agent |-> ops[o].target, status |-> "pending"]
    <3>1. c \in commands' /\ c.op = o /\ c.agent = ops[o].target
      BY <1>6 DEF QueueCommand
    <3>2. /\ ops[o].kind = "decommission" => status'[ops[o].target] = "decommissioned"
          /\ ops[o].kind # "create_user"
      BY <1>1, <1>6 DEF QueueCommand, DoneSoFar, CommandKinds, Scans, rowVars
    <3> HIDE DEF c
    <3>3. QED BY <2>1, <3>1, <3>2 DEF TookEffect
  <2>3. QED BY <1>1, <1>6, <2>1, <2>2 DEF QueueCommand, DoneSoFar
<1>7. CASE CreateUser(o)
  <2>1. /\ ops'[o].kind = "create_user" /\ ops'[o].target = ops[o].target
        /\ ops'[o].stage \in {"audit", "error"}
    BY <1>3, <1>7 DEF CreateUser, OpStages
  <2>2. TookEffect(o)'
    BY <1>7, <2>1 DEF CreateUser, TookEffect, CommandKinds, Scans
  <2>3. QED BY <1>1, <1>7, <2>1, <2>2 DEF CreateUser, DoneSoFar
<1>8. CASE StatementFails(o)
  <2>1. ops'[o].stage = "error"
    BY <1>3, <1>8 DEF StatementFails, OpStages
  <2>2. QED BY <1>1, <1>8, <2>1 DEF StatementFails, DoneSoFar
<1>9. CASE WriteAuditLog(o)
  <2>1. /\ ops'[o].kind = ops[o].kind /\ ops'[o].target = ops[o].target
        /\ ops'[o].stage = "created"
    BY <1>9, Submitted DEF WriteAuditLog, Goto, TypeOK, Op
  <2>2. TookEffect(o)'
    BY <1>1, <1>9, <2>1, EffectStays DEF WriteAuditLog, DoneSoFar
  <2>3. QED BY <2>1, <2>2 DEF DoneSoFar
<1>10. QED BY <1>2, <1>4, <1>5, <1>6, <1>7, <1>8, <1>9 DEF Request

LEMMA NextAudit == AuditInv /\ TypeOK' /\ [Next]_vars => StatementsDone'
<1> SUFFICES ASSUME AuditInv, TypeOK', [Next]_vars PROVE StatementsDone'
  OBVIOUS
<1> USE DEF AuditInv
<1>1. CASE UNCHANGED vars
  BY <1>1 DEF StatementsDone, DoneSoFar, TookEffect, vars, rowVars, webVars
<1>2. ASSUME NEW o \in Ops, Submit(o) \/ Request(o) \/ StatementFails(o)
      PROVE  StatementsDone'
  <2>1. \A p \in Ops \ {o} : ops'[p] = ops[p] /\ (p \in audit' => p \in audit)
    BY <1>2 DEF TypeOK, Submit, Request, StatementFails, DecommissionAgent, PushConfig,
       QueueCommand, CreateUser, WriteAuditLog, Then, Goto
  <2>2. \A p \in Ops \ {o} : DoneSoFar(p)'
    BY <1>2, <2>1, RequestUndoesNothing, OthersStay
  <2>3. QED BY <1>2, <2>2, ActorDone DEF StatementsDone
<1>3. ASSUME NEW a \in Agents,
             AgentStep(a) \/ CheckinFails(a) \/ Crash(a) \/ Handler(a) \/ ReplyBare(a)
      PROVE  StatementsDone'
  <2>1. NothingUndone /\ UNCHANGED <<ops, audit>>
    BY <1>3, AgentUndoesNothing DEF webVars
  <2>2. QED BY <2>1, OthersStay DEF StatementsDone
<1>4. QED BY <1>1, <1>2, <1>3 DEF Next

-----------------------------------------------------------------------------
(* The pushes counted. *)

LEMMA PushedFinite ==
  \A a \in Agents : Pushed(a) \subseteq Ops /\ IsFiniteSet(Pushed(a))
                    /\ Cardinality(Pushed(a)) \in Nat
BY FleetAssumption, FS_Subset, FS_CardinalityType DEF Pushed, PushesTo

LEMMA InitPushes == Init => PushesCounted
<1> SUFFICES ASSUME Init, NEW a \in Agents PROVE version[a] > Cardinality(Pushed(a))
  BY DEF PushesCounted
<1>1. Pushed(a) = {}
  BY DEF Init, Pushed, PushesTo, Free
<1>2. QED BY <1>1, FS_EmptySet DEF Init

\* A step that makes no push.
LEMMA NoneAdded ==
  ASSUME TypeOK, PushesCounted, UNCHANGED version,
         \A a \in Agents : Pushed(a)' \subseteq Pushed(a)
  PROVE  PushesCounted'
<1> SUFFICES ASSUME NEW a \in Agents PROVE version[a] > Cardinality(Pushed(a)')
  BY DEF PushesCounted
<1>1. IsFiniteSet(Pushed(a)) /\ Cardinality(Pushed(a)) \in Nat
  BY PushedFinite
<1>2. /\ Cardinality(Pushed(a)') \in Nat
      /\ Cardinality(Pushed(a)') <= Cardinality(Pushed(a))
  BY <1>1, FS_Subset, FS_CardinalityType
<1>3. version[a] > Cardinality(Pushed(a)) /\ version[a] \in Nat
  BY DEF PushesCounted, TypeOK
<1>4. QED BY <1>1, <1>2, <1>3

\* A push adds one to either side of the count, or less.
LEMMA PushCounted ==
  ASSUME TypeOK, PushesCounted, NEW o \in Ops, PushConfig(o)
  PROVE  PushesCounted'
<1> SUFFICES ASSUME NEW a \in Agents PROVE version'[a] > Cardinality(Pushed(a)')
  BY DEF PushesCounted
<1>1. IsFiniteSet(Pushed(a)) /\ Cardinality(Pushed(a)) \in Nat
  BY PushedFinite
<1>2. version[a] > Cardinality(Pushed(a)) /\ version[a] \in Nat
  BY DEF PushesCounted, TypeOK
<1>3. /\ \A p \in Ops : p # o => ops'[p] = ops[p]
      /\ ops'[o].target = ops[o].target
  BY Submitted DEF PushConfig, Then, Goto, TypeOK, Op
<1>4. CASE a = ops[o].target
  <2>1. version'[a] = version[a] + 1
    BY <1>4 DEF PushConfig
  <2>2. Pushed(a)' \subseteq Pushed(a) \cup {o}
    BY <1>3 DEF Pushed, PushesTo
  <2>3. /\ IsFiniteSet(Pushed(a) \cup {o})
        /\ Cardinality(Pushed(a) \cup {o}) <= Cardinality(Pushed(a)) + 1
        /\ Cardinality(Pushed(a) \cup {o}) \in Nat
    <3>1. /\ IsFiniteSet(Pushed(a) \cup {o})
          /\ \/ Cardinality(Pushed(a) \cup {o}) = Cardinality(Pushed(a))
             \/ Cardinality(Pushed(a) \cup {o}) = Cardinality(Pushed(a)) + 1
      BY <1>1, FS_AddElement
    <3>2. QED BY <1>1, <3>1
  <2>4. /\ Cardinality(Pushed(a)') \in Nat
        /\ Cardinality(Pushed(a)') <= Cardinality(Pushed(a) \cup {o})
    BY <2>2, <2>3, FS_Subset, FS_CardinalityType
  <2>5. QED BY <1>1, <1>2, <2>1, <2>3, <2>4
<1>5. CASE a # ops[o].target
  <2>1. version'[a] = version[a]
    BY <1>5 DEF PushConfig
  <2>2. Pushed(a)' \subseteq Pushed(a)
    BY <1>3, <1>5 DEF Pushed, PushesTo
  <2>3. /\ Cardinality(Pushed(a)') \in Nat
        /\ Cardinality(Pushed(a)') <= Cardinality(Pushed(a))
    BY <1>1, <2>2, FS_Subset, FS_CardinalityType
  <2>4. QED BY <1>1, <1>2, <2>1, <2>3
<1>6. QED BY <1>4, <1>5

LEMMA NextPushes == TypeOK /\ PushesCounted /\ [Next]_vars => PushesCounted'
<1> SUFFICES ASSUME TypeOK, PushesCounted, [Next]_vars PROVE PushesCounted'
  OBVIOUS
<1>1. CASE UNCHANGED <<version, ops>>
  BY <1>1, NoneAdded DEF Pushed, PushesTo
<1>2. ASSUME NEW o \in Ops, Submit(o) \/ Request(o) \/ StatementFails(o), ~PushConfig(o)
      PROVE  PushesCounted'
  <2>1. UNCHANGED version
    BY <1>2 DEF Submit, Request, StatementFails, DecommissionAgent, QueueCommand,
       CreateUser, WriteAuditLog, rowVars
  <2>2. \A p \in Ops : p # o => ops'[p] = ops[p]
    BY <1>2 DEF TypeOK, Submit, Request, StatementFails, DecommissionAgent,
       QueueCommand, CreateUser, WriteAuditLog, Then, Goto
  <2>3. ops'[o].kind = "config_update" /\ ops'[o].stage \in {"insert", "audit", "created"}
          => /\ ops[o].kind = "config_update" /\ ops[o].target = ops'[o].target
             /\ ops[o].stage \in {"insert", "audit", "created"}
    <3>1. CASE Submit(o)
      BY <3>1 DEF Submit, TypeOK, CommandKinds, Scans
    <3>2. CASE ~Submit(o)
      <4>1. ops[o] \in Op /\ ops[o].stage # "free"
        BY <1>2, <3>2, Submitted DEF Request, StatementFails, DecommissionAgent,
           QueueCommand, CreateUser, WriteAuditLog
      <4>2. PICK s \in OpStages : ops' = [ops EXCEPT ![o].stage = s]
        BY <1>2, <3>2 DEF Request, StatementFails, DecommissionAgent, QueueCommand,
           CreateUser, WriteAuditLog, Then, Goto, OpStages
      <4>3. ops'[o].kind = ops[o].kind /\ ops'[o].target = ops[o].target
        BY <4>1, <4>2 DEF TypeOK, Op
      <4>4. CASE DecommissionAgent(o)
        BY <4>3, <4>4 DEF DecommissionAgent
      <4>5. CASE StatementFails(o)
        BY <4>1, <4>5 DEF StatementFails, Goto, TypeOK, Op
      <4>6. CASE QueueCommand(o) \/ CreateUser(o) \/ WriteAuditLog(o)
        BY <4>3, <4>6 DEF QueueCommand, CreateUser, WriteAuditLog
      <4>7. QED BY <1>2, <3>2, <4>4, <4>5, <4>6 DEF Request
    <3>3. QED BY <3>1, <3>2
  <2>4. \A a \in Agents : Pushed(a)' \subseteq Pushed(a)
    <3>1. ops[o].kind = "config_update" /\ ops[o].stage \in {"insert", "audit", "created"}
            => ops[o].stage # "free"
      OBVIOUS
    <3>2. QED BY <2>2, <2>3, <3>1 DEF Pushed, PushesTo
  <2>5. QED BY <2>1, <2>4, NoneAdded
<1>3. ASSUME NEW a \in Agents,
             AgentStep(a) \/ CheckinFails(a) \/ Crash(a) \/ Handler(a) \/ ReplyBare(a)
      PROVE  UNCHANGED <<version, ops>>
  BY <1>3 DEF AgentStep, Boot, Ask, Receive, CheckinFails, Crash, Handler, Admit, ReadAgent,
     Reply, ReplyBare, rowVars, webVars
<1>4. CASE UNCHANGED vars
  BY <1>1, <1>4 DEF vars, rowVars, webVars
<1>5. QED BY <1>1, <1>2, <1>3, <1>4, PushCounted DEF Next

-----------------------------------------------------------------------------

\* Fleet's inductive invariant holds in every reachable state.
THEOREM Invariance == Spec => [](ConfigInv /\ AuditInv)
<1>1. Init => ConfigInv /\ AuditInv
  BY InitConfig, InitAudit, InitPushes DEF ConfigInv, AuditInv
<1>2. ConfigInv /\ AuditInv /\ [Next]_vars => (ConfigInv /\ AuditInv)'
  <2>1. ConfigInv /\ AuditInv /\ [Next]_vars => ConfigInv'
    BY NextConfig
  <2>2. AuditInv /\ ConfigInv' /\ [Next]_vars => AuditInv'
    BY NextAudit, NextPushes DEF ConfigInv, AuditInv
  <2>3. QED BY <2>1, <2>2
<1>3. QED BY <1>1, <1>2, PTL DEF Spec

\* Every reachable state is well typed.
THEOREM TypeCorrect == Spec => []TypeOK
<1>1. ConfigInv => TypeOK
  BY DEF ConfigInv
<1>2. QED BY <1>1, Invariance, PTL

\* An agent that knows the current config version was sent the current config,
\* so an answer without a config withholds nothing from it.
THEOREM VersionNamesConfig == Spec => []CurrentConfigSent
<1>1. ConfigInv => CurrentConfigSent
  BY DEF ConfigInv, KnownBounds, CurrentConfigSent
<1>2. QED BY <1>1, Invariance, PTL

\* Every audit entry tells of a change all of whose statements were committed, and
\* an agent's version has gone up for each audited push to it.
THEOREM AuditTellsTheTruth == Spec => []AuditIsTrue
<1>1. ASSUME AuditInv PROVE AuditIsTrue
  <2>1. audit \subseteq Ops /\ \A o \in audit : ops[o].stage = "created"
    BY <1>1 DEF AuditInv, StatementsDone, DoneSoFar, TypeOK
  <2>2. \A o \in audit : TookEffect(o)
    BY <1>1, <2>1 DEF AuditInv, StatementsDone, DoneSoFar
  <2>3. ASSUME NEW a \in Agents PROVE version[a] > Cardinality(PushesTo(a) \cap audit)
    <3>1. PushesTo(a) \cap audit \subseteq Pushed(a)
      BY <2>1 DEF Pushed
    <3>2. IsFiniteSet(Pushed(a)) /\ Cardinality(Pushed(a)) \in Nat
      BY PushedFinite
    <3>3. /\ Cardinality(PushesTo(a) \cap audit) \in Nat
          /\ Cardinality(PushesTo(a) \cap audit) <= Cardinality(Pushed(a))
      BY <3>1, <3>2, FS_Subset, FS_CardinalityType
    <3>4. version[a] > Cardinality(Pushed(a)) /\ version[a] \in Nat
      BY <1>1 DEF AuditInv, PushesCounted, TypeOK
    <3>5. QED BY <3>2, <3>3, <3>4
  <2>4. QED BY <2>2, <2>3 DEF AuditIsTrue
<1>2. QED BY <1>1, Invariance, PTL
-----------------------------------------------------------------------------
(* Decommissioned agents. *)

\* What a checkin starts with.
LEMMA FreshCheckin ==
  /\ NoCheckin.stage = "none"
  /\ \A v : [NoCheckin EXCEPT !.stage = "sent", !.version = v].stage = "sent"
BY DEF NoCheckin

\* An agent gets something only from an answer.
LEMMA OnlyAnswersTell ==
  ASSUME TypeOK, NEW a \in Agents, checkin[a].stage \in {"none", "sent"},
         status[a] = "decommissioned", [Next]_vars
  PROVE  /\ checkin'[a].stage \in {"none", "sent"}
         /\ sent'[a] = sent[a] /\ delivered'[a] = delivered[a]
<1>1. ASSUME NEW o \in Ops, Submit(o) \/ Request(o) \/ StatementFails(o)
      PROVE  UNCHANGED <<sent, delivered, checkin>>
  BY <1>1 DEF Submit, Request, StatementFails, DecommissionAgent, PushConfig,
     QueueCommand, CreateUser, WriteAuditLog, agentVars
<1>2. ASSUME NEW b \in Agents, b # a,
             AgentStep(b) \/ CheckinFails(b) \/ Crash(b) \/ Handler(b) \/ ReplyBare(b)
      PROVE  checkin'[a] = checkin[a] /\ sent'[a] = sent[a] /\ delivered'[a] = delivered[a]
  BY <1>2 DEF TypeOK, AgentStep, Boot, Ask, Receive, CheckinFails, Crash, Handler,
     Admit, ReadAgent, Reply, ReplyBare, agentVars
<1>3. ASSUME AgentStep(a) \/ CheckinFails(a) \/ Crash(a)
      PROVE  /\ checkin'[a].stage \in {"none", "sent"}
             /\ sent'[a] = sent[a] /\ delivered'[a] = delivered[a]
  <2>1. UNCHANGED <<sent, delivered>>
    BY <1>3 DEF AgentStep, Boot, Ask, Receive, CheckinFails, Crash
  <2>2. \/ checkin'[a] = checkin[a]
        \/ checkin'[a] = NoCheckin
        \/ checkin'[a] = [NoCheckin EXCEPT !.stage = "sent", !.version = known[a]]
    BY <1>3 DEF TypeOK, AgentStep, Boot, Ask, Receive, CheckinFails, Crash
  <2>3. checkin'[a] = checkin[a] \/ checkin'[a].stage \in {"none", "sent"}
    BY <2>2, FreshCheckin
  <2>4. QED BY <2>1, <2>3
<1>4. ~(Handler(a) \/ ReplyBare(a))
  BY DEF Handler, Admit, ReadAgent, Reply, ReplyBare
<1>5. CASE UNCHANGED vars
  BY <1>5 DEF vars, agentVars
<1>6. QED BY <1>1, <1>2, <1>3, <1>4, <1>5 DEF Next

\* Decommissioning is final, and what is pushed to or queued for the agent from
\* then on never reaches it.
THEOREM DecommissionIsFinal == Spec => DecommissionedHearsNothing
<1>1. ASSUME TypeOK, [Next]_vars, NEW a \in Agents, status[a] = "decommissioned"
      PROVE  status'[a] = "decommissioned"
  <2>1. CASE UNCHANGED vars
    BY <1>1, <2>1 DEF vars, rowVars
  <2>2. CASE Next
    BY <1>1, <2>2, RequestUndoesNothing, AgentUndoesNothing DEF Next, NothingUndone
  <2>3. QED BY <1>1, <2>1, <2>2
<1>2. TypeOK /\ [Next]_vars =>
        [\A a \in Agents : status[a] = "decommissioned" =>
           /\ status'[a] = "decommissioned"
           /\ checkin[a].stage \in {"none", "sent"} =>
                /\ checkin'[a].stage \in {"none", "sent"}
                /\ sent'[a] = sent[a] /\ delivered'[a] = delivered[a]]_vars
  BY <1>1, OnlyAnswersTell
<1>3. QED BY <1>2, TypeCorrect, PTL DEF Spec, DecommissionedHearsNothing
=============================================================================
