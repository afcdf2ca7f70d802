------------------------- MODULE StatementPipeline --------------------------
(***************************************************************************)
(* One client connection of the Postgres proxy and the upstream session it *)
(* owns: policy decision, rollback artifact, row-limit transaction,        *)
(* execution, audit and answer (handle_query), with every await a point    *)
(* where the call can time out, fail, or be dropped because the session    *)
(* ended.                                                                  *)
(*                                                                         *)
(* The upstream is modelled from how tokio_postgres is used: commands are  *)
(* queued and run in order; a command the proxy stopped waiting for still  *)
(* runs; when the client object is dropped the queue is drained and the    *)
(* session terminates, which undoes an open transaction.                   *)
(***************************************************************************)
EXTENDS Integers, Sequences

CONSTANTS Statement,   \* statements a client may send
          RowCounts,   \* numbers of rows a data-changing statement may change
          Limit,       \* policy.max_rows_changed, or Unlimited
          Unlimited,   \* no max_rows_changed
          Capture,     \* rollback.enabled with at least one sink
          NSinks,      \* length of audit.sinks
          FailClosed,  \* audit.fail_closed
          None         \* no statement

ASSUME RowsAssumption == RowCounts \subseteq Nat
ASSUME LimitAssumption == Limit \in Nat \/ Limit = Unlimited
ASSUME SwitchAssumption == Capture \in BOOLEAN /\ FailClosed \in BOOLEAN
ASSUME SinksAssumption == NSinks \in Nat \ {0}
ASSUME NoneAssumption == None \notin Statement

VARIABLES
  kind,      \* what each statement is, "new" before it is sent
  pc,        \* where the handler is
  cur,       \* the statement being handled, or None
  outcome,   \* what the audit event of each statement says
  sink,      \* the next audit sink to write
  logged,    \* the sinks that hold each statement's audit event
  artifact,  \* statements whose rollback artifact is stored
  told,      \* what the client was told of each statement
  ready,     \* statements after which the client was told ReadyForQuery
  unlogged,  \* history: statements with a failed audit write
  queue,     \* upstream: commands sent and not yet run
  reply,     \* upstream: the answer to the last command sent
  tx,        \* upstream: the session's transaction
  pending,   \* upstream: changes of the open transaction
  durable,   \* upstream: committed changes
  rows,      \* upstream: rows changed by each statement
  link       \* upstream: is the connection up

proxyVars == <<kind, pc, cur, outcome, sink, logged, artifact, told, ready, unlogged>>
serverVars == <<tx, pending, durable, rows>>
vars == <<proxyVars, queue, reply, serverVars, link>>

-----------------------------------------------------------------------------
(* Statements, as the proxy tells them apart. *)

\* "update" stands for UPDATE and DELETE, "other" for a data-changing
\* statement that is neither limited nor captured (DDL, WITH ... UPDATE, an
\* UPDATE behind a comment), the next three for transaction control.
Kinds == {"refused", "select", "insert", "update", "other", "begin", "commit", "rollback"}

\* decide.
Blocked(s) == kind[s] = "refused"

\* is_row_limited_mutation, with a limit in the policy.
Limited(s) == Limit # Unlimited /\ kind[s] \in {"insert", "update"}

\* parse_rollback_request finds something to capture.
Captured(s) == Capture /\ kind[s] = "update"

Changes(s) == kind[s] \in {"insert", "update", "other"}

\* What a command does to the upstream session.
Verb(c) ==
  IF c.op # "EXEC" THEN c.op
  ELSE IF Changes(c.of) THEN "CHANGE"
  ELSE IF kind[c.of] = "begin" THEN "BEGIN"
  ELSE IF kind[c.of] = "commit" THEN "COMMIT"
  ELSE IF kind[c.of] = "rollback" THEN "ROLLBACK" ELSE "READ"

Ops == {"READ", "BEGIN", "EXEC", "ROLLBACK", "COMMIT"}
Command == [op : Ops, of : Statement]

Outcomes == {"none", "blocked", "allowed", "overlimit", "error", "timeout"}

\* Waiting for the upstream.
Waiting == {"capture", "begin", "exec", "undo", "cleanup", "commit"}
Pc == {"idle", "artifact", "audit", "answer", "dead"} \cup Waiting

Init ==
  /\ kind = [s \in Statement |-> "new"]
  /\ pc = "idle"
  /\ cur = None
  /\ outcome = [s \in Statement |-> "none"]
  /\ sink = 1
  /\ logged = [s \in Statement |-> {}]
  /\ artifact = {}
  /\ told = [s \in Statement |-> {}]
  /\ ready = {}
  /\ unlogged = {}
  /\ queue = << >>
  /\ reply = "none"
  /\ tx = "none"
  /\ pending = {}
  /\ durable = {}
  /\ rows = [s \in Statement |-> 0]
  /\ link = "up"

-----------------------------------------------------------------------------
(* Sending. *)

\* simple_query: on a broken connection it fails at once.
Send(op, s) ==
  /\ queue' = IF link = "up" THEN Append(queue, [op |-> op, of |-> s]) ELSE queue
  /\ reply' = IF link = "up" THEN "none" ELSE "error"

\* After the artifact: open a transaction if the statement is row-limited,
\* otherwise run it.
SendOn(s) ==
  IF Limited(s)
  THEN Send("BEGIN", s) /\ pc' = "begin"
  ELSE Send("EXEC", s) /\ pc' = "exec"

Decided(s, verdict) ==
  /\ outcome' = [outcome EXCEPT ![s] = verdict]
  /\ sink' = 1

-----------------------------------------------------------------------------
(* handle_query. *)

\* A statement arrives and the policy decides.
Receive(s, k) ==
  /\ pc = "idle"
  /\ kind[s] = "new"
  /\ kind' = [kind EXCEPT ![s] = k]
  /\ cur' = s
  /\ UNCHANGED <<logged, artifact, told, ready, unlogged, serverVars, link>>
  /\ \/ /\ k = "refused"
        /\ Decided(s, "blocked")
        /\ pc' = "audit"
        /\ UNCHANGED <<queue, reply>>
     \/ /\ k # "refused"
        /\ Captured(s)'
        /\ Send("READ", s)
        /\ pc' = "capture"
        /\ UNCHANGED <<outcome, sink>>
     \/ /\ k # "refused"
        /\ ~Captured(s)'
        /\ IF Limited(s)'
           THEN Send("BEGIN", s) /\ pc' = "begin"
           ELSE Send("EXEC", s) /\ pc' = "exec"
        /\ UNCHANGED <<outcome, sink>>

\* The before-image and the primary key are read (one command here, two in
\* the code). An error makes the artifact manual, nothing else.
CaptureDone ==
  /\ pc = "capture"
  /\ reply # "none"
  /\ pc' = "artifact"
  /\ UNCHANGED <<kind, cur, outcome, sink, logged, artifact, told, ready, unlogged,
                 queue, reply, serverVars, link>>

\* write_artifact succeeds.
StoreArtifact ==
  /\ pc = "artifact"
  /\ artifact' = artifact \cup {cur}
  /\ SendOn(cur)
  /\ UNCHANGED <<kind, cur, outcome, sink, logged, told, ready, unlogged, serverVars, link>>

\* The definitions named Faulty... are not part of the model. Each one is the
\* definition that follows it with one plausible mistake, used to confirm that
\* the properties tell the two apart.

\* fail_closed is not looked at.
FaultyArtifactFails ==
  /\ pc = "artifact"
  /\ SendOn(cur)
  /\ UNCHANGED <<kind, cur, outcome, sink, logged, artifact, told, ready, unlogged,
                 serverVars, link>>

\* write_artifact fails: an error if fail_closed, a warning if not.
ArtifactFails ==
  /\ pc = "artifact"
  /\ IF FailClosed
     THEN pc' = "dead" /\ cur' = None /\ UNCHANGED <<queue, reply>>
     ELSE SendOn(cur) /\ cur' = cur
  /\ UNCHANGED <<kind, outcome, sink, logged, artifact, told, ready, unlogged, serverVars, link>>

BeginDone ==
  /\ pc = "begin"
  /\ reply = "ok"
  /\ Send("EXEC", cur)
  /\ pc' = "exec"
  /\ UNCHANGED <<kind, cur, outcome, sink, logged, artifact, told, ready, unlogged,
                 serverVars, link>>

\* The limit is off by one.
FaultyExecDone ==
  /\ pc = "exec"
  /\ reply = "ok"
  /\ told' = [told EXCEPT ![cur] = @ \cup {"complete"}]
  /\ \/ /\ Limited(cur) /\ rows[cur] > Limit + 1
        /\ Send("ROLLBACK", cur)
        /\ pc' = "undo"
        /\ UNCHANGED <<outcome, sink>>
     \/ /\ Limited(cur) /\ rows[cur] <= Limit + 1
        /\ Send("COMMIT", cur)
        /\ pc' = "commit"
        /\ UNCHANGED <<outcome, sink>>
     \/ /\ ~Limited(cur)
        /\ Decided(cur, "allowed")
        /\ pc' = "audit"
        /\ UNCHANGED <<queue, reply>>
  /\ UNCHANGED <<kind, cur, logged, artifact, ready, unlogged, serverVars, link>>

\* The statement ran: its rows and CommandComplete go to the client first,
\* then a limited mutation is undone or committed.
ExecDone ==
  /\ pc = "exec"
  /\ reply = "ok"
  /\ told' = [told EXCEPT ![cur] = @ \cup {"complete"}]
  /\ \/ /\ Limited(cur) /\ rows[cur] > Limit
        /\ Send("ROLLBACK", cur)
        /\ pc' = "undo"
        /\ UNCHANGED <<outcome, sink>>
     \/ /\ Limited(cur) /\ rows[cur] <= Limit
        /\ Send("COMMIT", cur)
        /\ pc' = "commit"
        /\ UNCHANGED <<outcome, sink>>
     \/ /\ ~Limited(cur)
        /\ Decided(cur, "allowed")
        /\ pc' = "audit"
        /\ UNCHANGED <<queue, reply>>
  /\ UNCHANGED <<kind, cur, logged, artifact, ready, unlogged, serverVars, link>>

\* The transaction is left open.
FaultyExecFails(verdict) ==
  /\ pc = "exec"
  /\ Decided(cur, verdict)
  /\ pc' = "audit"
  /\ UNCHANGED <<kind, cur, logged, artifact, told, ready, unlogged,
                 queue, reply, serverVars, link>>

\* The statement failed, or was given up after IO_TIMEOUT: the transaction of
\* a limited mutation is undone, and the result of that is ignored.
ExecFails(verdict) ==
  /\ pc = "exec"
  /\ Decided(cur, verdict)
  /\ IF Limited(cur)
     THEN Send("ROLLBACK", cur) /\ pc' = "cleanup"
     ELSE pc' = "audit" /\ UNCHANGED <<queue, reply>>
  /\ UNCHANGED <<kind, cur, logged, artifact, told, ready, unlogged, serverVars, link>>

\* The second transaction command of a limited mutation is answered.
LimitSettled ==
  /\ \/ pc = "undo" /\ reply = "ok" /\ Decided(cur, "overlimit")
     \/ pc = "commit" /\ reply = "ok" /\ Decided(cur, "allowed")
     \/ pc = "cleanup" /\ reply # "none" /\ UNCHANGED <<outcome, sink>>
  /\ pc' = "audit"
  /\ UNCHANGED <<kind, cur, logged, artifact, told, ready, unlogged,
                 queue, reply, serverVars, link>>

\* The statement itself has no timeout.
FaultyTimeOut ==
  /\ reply = "none"
  /\ pc \in {"capture", "cleanup"}
  /\ pc' = IF pc = "capture" THEN "artifact" ELSE "audit"
  /\ UNCHANGED <<kind, cur, outcome, sink, logged, artifact, told, ready, unlogged,
                 queue, reply, serverVars, link>>

\* IO_TIMEOUT passes. BEGIN, ROLLBACK and COMMIT that time out end the
\* connection (see Fail); the read of the before-image and the cleanup do not.
TimeOut ==
  /\ reply = "none"
  /\ \/ ExecFails("timeout")
     \/ /\ pc \in {"capture", "cleanup"}
        /\ pc' = IF pc = "capture" THEN "artifact" ELSE "audit"
        /\ UNCHANGED <<kind, cur, outcome, sink, logged, artifact, told, ready, unlogged,
                       queue, reply, serverVars, link>>

ExecError == reply = "error" /\ ExecFails("error")

\* One step past the last sink.
FaultyNextSink == IF sink > NSinks THEN pc' = "answer" /\ sink' = sink
                                   ELSE pc' = pc /\ sink' = sink + 1

\* write_audit, one sink at a time; after the last sink comes the answer.
NextSink == IF sink = NSinks THEN pc' = "answer" /\ sink' = sink
                             ELSE pc' = pc /\ sink' = sink + 1

WriteAudit ==
  /\ pc = "audit"
  /\ logged' = [logged EXCEPT ![cur] = @ \cup {sink}]
  /\ NextSink
  /\ UNCHANGED <<kind, cur, outcome, artifact, told, ready, unlogged,
                 queue, reply, serverVars, link>>

\* fail_closed is not looked at.
FaultyAuditFails ==
  /\ pc = "audit"
  /\ unlogged' = unlogged \cup {cur}
  /\ NextSink
  /\ UNCHANGED <<kind, cur, outcome, logged, artifact, told, ready,
                 queue, reply, serverVars, link>>

\* A sink fails: the handler's error if fail_closed, a warning if not.
AuditFails ==
  /\ pc = "audit"
  /\ unlogged' = unlogged \cup {cur}
  /\ IF FailClosed
     THEN pc' = "dead" /\ cur' = None /\ sink' = sink
     ELSE NextSink /\ cur' = cur
  /\ UNCHANGED <<kind, outcome, logged, artifact, told, ready, queue, reply, serverVars, link>>

\* No ErrorResponse for what the upstream was asked to undo.
FaultyAnswer ==
  /\ pc = "answer"
  /\ told' = IF outcome[cur] \in {"allowed", "overlimit"} THEN told
             ELSE [told EXCEPT ![cur] = @ \cup {"error"}]
  /\ ready' = ready \cup {cur}
  /\ pc' = "idle"
  /\ cur' = None
  /\ UNCHANGED <<kind, outcome, sink, logged, artifact, unlogged, queue, reply, serverVars, link>>

\* An ErrorResponse unless the statement was allowed and ran, then
\* ReadyForQuery: the next statement may come.
Answer ==
  /\ pc = "answer"
  /\ told' = IF outcome[cur] = "allowed" THEN told
             ELSE [told EXCEPT ![cur] = @ \cup {"error"}]
  /\ ready' = ready \cup {cur}
  /\ pc' = "idle"
  /\ cur' = None
  /\ UNCHANGED <<kind, outcome, sink, logged, artifact, unlogged, queue, reply, serverVars, link>>

\* handle_query returns an error: BEGIN, ROLLBACK or COMMIT failed or timed
\* out, or the client is not there to be written to.
Fail ==
  /\ \/ pc \in {"begin", "undo", "commit"} /\ reply # "ok"
     \/ pc = "exec" /\ reply = "ok"
     \/ pc = "answer"
  /\ pc' = "dead"
  /\ cur' = None
  /\ UNCHANGED <<kind, outcome, sink, logged, artifact, told, ready, unlogged,
                 queue, reply, serverVars, link>>

\* wait_for_session_end wins the race: handle_query is dropped where it is.
SessionEnds ==
  /\ pc # "dead"
  /\ pc' = "dead"
  /\ cur' = None
  /\ UNCHANGED <<kind, outcome, sink, logged, artifact, told, ready, unlogged,
                 queue, reply, serverVars, link>>

\* The proxy process dies: commands that are not on the wire are lost.
Crash ==
  /\ pc # "dead"
  /\ pc' = "dead"
  /\ cur' = None
  /\ \E n \in 0..Len(queue) : queue' = SubSeq(queue, 1, n)
  /\ UNCHANGED <<kind, outcome, sink, logged, artifact, told, ready, unlogged,
                 reply, serverVars, link>>

-----------------------------------------------------------------------------
(* The upstream session. *)

\* It runs the oldest command; the proxy waits for the answer to the newest.
Run(verb, answer) ==
  /\ queue # << >>
  /\ Verb(Head(queue)) = verb
  /\ queue' = Tail(queue)
  /\ reply' = IF Len(queue) = 1 THEN answer ELSE reply
  /\ UNCHANGED <<proxyVars, link>>

\* BEGIN inside a transaction is a warning.
ServerBegins ==
  /\ Run("BEGIN", "ok")
  /\ tx # "failed"
  /\ tx' = "open"
  /\ UNCHANGED <<pending, durable, rows>>

\* COMMIT of a failed transaction answers ROLLBACK, without an error.
ServerCommits ==
  /\ Run("COMMIT", "ok")
  /\ durable' = durable \cup pending
  /\ pending' = {}
  /\ tx' = "none"
  /\ UNCHANGED rows

ServerRollsBack ==
  /\ Run("ROLLBACK", "ok")
  /\ pending' = {}
  /\ tx' = "none"
  /\ UNCHANGED <<durable, rows>>

ServerReads ==
  /\ Run("READ", "ok")
  /\ tx # "failed"
  /\ UNCHANGED serverVars

\* Outside a transaction a change is committed at once.
ServerChanges ==
  /\ Run("CHANGE", "ok")
  /\ tx # "failed"
  /\ \E n \in RowCounts : rows' = [rows EXCEPT ![Head(queue).of] = n]
  /\ IF tx = "open"
     THEN pending' = pending \cup {Head(queue).of} /\ durable' = durable
     ELSE durable' = durable \cup {Head(queue).of} /\ pending' = pending
  /\ UNCHANGED tx

\* An error undoes and fails the open transaction; COMMIT that fails (a
\* deferred constraint) ends it.
ServerRefuses ==
  /\ \/ Run("READ", "error") \/ Run("CHANGE", "error") \/ Run("COMMIT", "error")
     \/ Run("BEGIN", "error") /\ tx = "failed"
  /\ pending' = {}
  /\ tx' = IF Verb(Head(queue)) = "COMMIT" \/ tx = "none" THEN "none" ELSE "failed"
  /\ UNCHANGED <<durable, rows>>

\* The connection breaks; what the last command did may stay unknown.
LinkBreaks ==
  /\ link = "up"
  /\ link' = "down"
  /\ queue' = << >>
  /\ reply' = "error"
  /\ pending' = {}
  /\ tx' = "none"
  /\ UNCHANGED <<proxyVars, durable, rows>>

\* The proxy is gone and everything it sent has run.
ServerTerminates ==
  /\ pc = "dead"
  /\ queue = << >>
  /\ tx # "none"
  /\ pending' = {}
  /\ tx' = "none"
  /\ UNCHANGED <<proxyVars, queue, reply, durable, rows, link>>

-----------------------------------------------------------------------------
ProxyStep ==
  \/ CaptureDone \/ StoreArtifact \/ ArtifactFails \/ BeginDone
  \/ ExecDone \/ ExecError \/ LimitSettled \/ TimeOut
  \/ WriteAudit \/ AuditFails \/ Answer \/ Fail

ServerStep ==
  \/ ServerBegins \/ ServerCommits \/ ServerRollsBack \/ ServerReads
  \/ ServerChanges \/ ServerRefuses \/ ServerTerminates

Next ==
  \/ \E s \in Statement, k \in Kinds : Receive(s, k)
  \/ ProxyStep
  \/ ServerStep
  \/ SessionEnds \/ Crash \/ LinkBreaks

Spec == Init /\ [][Next]_vars

\* The runtime schedules the handler, its timers fire, its sinks answer.
FairSpec == Spec /\ WF_vars(ProxyStep)

-----------------------------------------------------------------------------
(* Properties. *)

\* Types of the variables.
TypeOK ==
  /\ kind \in [Statement -> Kinds \cup {"new"}]
  /\ pc \in Pc
  /\ cur \in Statement \cup {None}
  /\ outcome \in [Statement -> Outcomes]
  /\ sink \in 1..NSinks
  /\ logged \in [Statement -> SUBSET (1..NSinks)]
  /\ artifact \subseteq Statement
  /\ told \in [Statement -> SUBSET {"complete", "error"}]
  /\ ready \subseteq Statement
  /\ unlogged \subseteq Statement
  /\ queue \in Seq(Command)
  /\ reply \in {"none", "ok", "error"}
  /\ tx \in {"none", "open", "failed"}
  /\ pending \subseteq Statement
  /\ durable \subseteq Statement
  /\ rows \in [Statement -> RowCounts \cup {0}]
  /\ link \in {"up", "down"}

\* With fail_closed, a client is told ReadyForQuery after a statement only
\* when every audit sink holds its event, whichever way the statement went.
AnsweredIsAudited ==
  FailClosed => \A s \in ready : logged[s] = 1..NSinks

\* With fail_closed, the sinks are written in order and without gaps: a later
\* sink never holds an event that an earlier one lacks.
EarlierSinkFirst ==
  FailClosed => \A s \in Statement : \A n \in logged[s] : 1..n \subseteq logged[s]

\* A row-limited mutation over the limit is never committed, whatever is cut
\* short by a timeout, the session's end, a crash, or transaction control that
\* the client itself sends.
OverLimitNeverDurable ==
  \A s \in durable : Limited(s) => rows[s] <= Limit

\* With fail_closed, a captured statement changes nothing before its rollback
\* artifact is stored.
ArtifactBeforeEffect ==
  FailClosed => \A s \in durable \cup pending : Captured(s) => s \in artifact

\* The audit event of a row-limited mutation tells the truth: "allowed" without
\* an error means its change is committed; a refusal, an error or a timeout
\* means it is not and never will be, even if the upstream runs it later.
AuditTellsTheOutcome ==
  \A s \in Statement :
    /\ outcome[s] = "allowed" /\ Limited(s) => s \in durable
    /\ outcome[s] \in {"overlimit", "error", "timeout"} /\ Limited(s) => s \notin durable
    /\ outcome[s] = "blocked" => s \notin durable \cup pending

\* By the time of ReadyForQuery the client has been told of an error exactly
\* if its row-limited mutation is not committed, although CommandComplete is
\* sent before the fate of the transaction is known.
ClientIsToldTheOutcome ==
  \A s \in ready : Limited(s) => ("error" \notin told[s] <=> s \in durable)

\* What has become of a row-limited mutation, in the words of RowLimitedMutation.
Stage(s) == IF kind[s] = "new" THEN "new" ELSE IF Limited(s) THEN "held" ELSE "free"

Effect(s) ==
  IF ~Limited(s) \/ s \notin pending \cup durable THEN "none"
  ELSE IF s \in durable THEN "durable"
  ELSE IF rows[s] > Limit THEN "over" ELSE "open"

Word(s) ==
  IF ~Limited(s) \/ outcome[s] = "none" THEN "none"
  ELSE IF outcome[s] = "allowed" THEN "allowed" ELSE "denied"

Promise == INSTANCE RowLimitedMutation WITH
  stage <- [s \in Statement |-> Stage(s)],
  effect <- [s \in Statement |-> Effect(s)],
  word <- [s \in Statement |-> Word(s)]

\* The handler and the upstream, however they interleave, keep the promise of a
\* row-limited mutation: it never commits by itself, and what is said of it is
\* said once and stays true.
KeepsItsPromise == Promise!Spec

\* Every statement is answered or its connection ends: no upstream that stops
\* answering can hold a client for ever.
EveryStatementSettles == \A s \in Statement : cur = s ~> cur # s

\* Every allowed statement creates an audit event: a statement whose change is
\* committed is in the audit log once the proxy is done with it.
EffectIsAudited ==
  \A s \in durable : cur # s => logged[s] # {}
=============================================================================
