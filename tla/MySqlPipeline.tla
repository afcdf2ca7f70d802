--------------------------- MODULE MySqlPipeline ---------------------------
(***************************************************************************)
(* One client connection of the MySQL proxy and the upstream session it    *)
(* owns (handle_query), beside other sessions that write the row a         *)
(* captured statement changes.  It differs from the Postgres pipeline: OK  *)
(* is sent after COMMIT, a statement that returns rows leaves on a path of *)
(* its own, START TRANSACTION commits what was open, and a call that is    *)
(* given up leaves its answer on the connection.                           *)
(*                                                                         *)
(* The upstream and mysql_async are external.  Commands are run in the     *)
(* order they were sent, also those the proxy stopped waiting for.  What   *)
(* is heard on a connection after a call was given up is not promised: it  *)
(* may be any answer, an earlier one or an error.                          *)
(***************************************************************************)
EXTENDS Integers, Sequences

CONSTANTS Statement,   \* statements a client may send
          RowCounts,   \* numbers of rows a statement may change
          Limit,       \* policy.max_rows_changed, or Unlimited
          Unlimited,   \* no max_rows_changed
          Capture,     \* rollback.enabled with at least one sink
          FailClosed,  \* audit.fail_closed
          MaxWrites,   \* bound: writes of other sessions
          None         \* no statement, no image, no view

ASSUME RowsAssumption == RowCounts \subseteq Nat
ASSUME LimitAssumption == Limit \in Nat \/ Limit = Unlimited
ASSUME SwitchAssumption == Capture \in BOOLEAN /\ FailClosed \in BOOLEAN
ASSUME WritesAssumption == MaxWrites \in Nat
ASSUME NoneAssumption == None \notin Statement /\ None \notin Nat

-----------------------------------------------------------------------------
(* Statements, as the proxy tells them apart. *)

\* "update" stands for UPDATE and DELETE, "returning" for a mutation that
\* returns rows, "other" for a change that is neither limited nor captured, the
\* next three for transaction control of the client.
Kinds == {"refused", "select", "insert", "update", "returning", "other",
          "begin", "commit", "rollback"}

\* is_row_limited_mutation, with a limit in the policy.
Limited(k) == Limit # Unlimited /\ k \in {"insert", "update", "returning"}

\* parse_rollback_request finds a table and a predicate; an UPDATE it cannot read
\* gets an artifact without an image, and is an "insert" here.
Captured(k) == Capture /\ k = "update"

Verdicts == {"none", "blocked", "allowed", "overlimit", "error", "timeout"}

Ops == {"READ", "BEGIN", "EXEC", "ROLLBACK", "COMMIT"}
Command == [op : Ops, of : Statement]

Versions == 0 .. MaxWrites

\* n is what a change counted, or the version of the row that was read.
Answer == [is : {"none", "ok", "rows", "error"}, n : RowCounts \cup Versions \cup {0}]
NoAnswer == [is |-> "none", n |-> 0]
Error == [is |-> "error", n |-> 0]

Waiting == {"capture", "begin", "exec", "undo", "commit", "cleanup"}
Pc == {"idle", "artifact", "tell", "audit", "refuse", "dead"} \cup Waiting

VARIABLES
  kind,      \* what each statement is, "new" before it is sent
  pc,        \* where the handler is
  cur,       \* the statement in hand, or None
  verdict,   \* what the audit event and the client are told of each statement
  image,     \* version of the row in the stored artifact of each statement
  queue,     \* upstream: commands sent and not yet run
  reply,     \* the answer to the last command, as the handler hears it
  doubt,     \* a call on this connection was given up
  doubtful,  \* history: statements that heard an answer in doubt
  tx,        \* upstream: is a transaction open
  view,      \* upstream: version the open transaction's reads see
  pending,   \* upstream: changes of the open transaction
  durable,   \* upstream: committed changes
  rows,      \* upstream: rows changed by each statement
  link,      \* is the connection up
  version,   \* upstream: writes of the row by other sessions
  since,     \* history: oldest version a statement that came could still read
  replaced   \* history: version of the row each statement changed

history == <<since, replaced, doubtful>>
serverVars == <<tx, view, pending, durable, rows>>
vars == <<kind, pc, cur, verdict, image, queue, reply, doubt, serverVars, link,
          version, history>>

Init ==
  /\ kind = [s \in Statement |-> "new"]
  /\ pc = "idle"
  /\ cur = None
  /\ verdict = [s \in Statement |-> "none"]
  /\ image = [s \in Statement |-> None]
  /\ queue = << >>
  /\ reply = NoAnswer
  /\ doubt = FALSE
  /\ doubtful = {}
  /\ tx = FALSE
  /\ view = None
  /\ pending = {}
  /\ durable = {}
  /\ rows = [s \in Statement |-> 0]
  /\ link = "up"
  /\ version = 0
  /\ since = [s \in Statement |-> 0]
  /\ replaced = [s \in Statement |-> None]

-----------------------------------------------------------------------------
(* Calls. *)

Send(op, s) ==
  /\ queue' = IF link = "up" THEN Append(queue, [op |-> op, of |-> s]) ELSE queue
  /\ reply' = IF link = "up" THEN NoAnswer ELSE Error

\* After the artifact: open a transaction for a limited mutation, or run it.
SendOn(s, k) ==
  IF Limited(k)
  THEN Send("BEGIN", s) /\ pc' = "begin"
  ELSE Send("EXEC", s) /\ pc' = "exec"

Undo(s) == Send("ROLLBACK", s) /\ pc' = "cleanup"

Decided(v) == verdict' = [verdict EXCEPT ![cur] = v]

Released == pc' = "idle" /\ cur' = None

-----------------------------------------------------------------------------
(* handle_query. *)

Receive(s, k) ==
  /\ pc = "idle"
  /\ kind[s] = "new"
  /\ kind' = [kind EXCEPT ![s] = k]
  /\ cur' = s
  /\ since' = [since EXCEPT ![s] =
       IF ~Captured(k) THEN 0 ELSE IF view = None THEN version ELSE view]
  /\ IF k = "refused"
     THEN /\ verdict' = [verdict EXCEPT ![s] = "blocked"]
          /\ pc' = "audit"
          /\ UNCHANGED <<queue, reply>>
     ELSE /\ UNCHANGED verdict
          /\ IF Captured(k) THEN Send("READ", s) /\ pc' = "capture" ELSE SendOn(s, k)
  /\ UNCHANGED <<image, doubt, serverVars, link, version, replaced, doubtful>>

\* The definitions named Faulty... are not part of the model. Each one is the
\* definition that follows it with one plausible mistake, used to confirm that
\* the properties tell the two apart.

\* A read that fails leaves the rows of the statement before.
FaultyCaptureDone ==
  /\ pc = "capture"
  /\ reply.is # "none"
  /\ image' = [image EXCEPT ![cur] =
       IF reply.is = "rows" THEN reply.n
       ELSE IF \E s \in Statement : image[s] # None
            THEN image[CHOOSE s \in Statement : image[s] # None] ELSE None]
  /\ pc' = "artifact"
  /\ UNCHANGED <<kind, cur, verdict, queue, reply, doubt, serverVars, link, version, history>>

\* The before-image and the primary key are read (two calls in the code).
\* Anything but rows makes the artifact a manual one, without an image.
CaptureDone ==
  /\ pc = "capture"
  /\ reply.is # "none"
  /\ image' = [image EXCEPT ![cur] = IF reply.is = "rows" THEN reply.n ELSE None]
  /\ pc' = "artifact"
  /\ UNCHANGED <<kind, cur, verdict, queue, reply, doubt, serverVars, link, version, history>>

\* write_artifact stores it, or fails and fail_closed is off.
WriteArtifact ==
  /\ pc = "artifact"
  /\ \/ UNCHANGED image
     \/ ~FailClosed /\ image' = [image EXCEPT ![cur] = None]
  /\ SendOn(cur, kind[cur])
  /\ UNCHANGED <<kind, cur, verdict, doubt, serverVars, link, version, history>>

BeginDone ==
  /\ pc = "begin"
  /\ reply.is \in {"ok", "rows"}
  /\ Send("EXEC", cur)
  /\ pc' = "exec"
  /\ UNCHANGED <<kind, cur, verdict, image, doubt, serverVars, link, version, history>>

\* The limit is off by one.
FaultyOverLimit(k, n) == Limited(k) /\ n > Limit + 1

OverLimit(k, n) == Limited(k) /\ n > Limit

\* No rows came back: a limited mutation is undone or committed.
ExecDone ==
  /\ pc = "exec"
  /\ reply.is = "ok"
  /\ IF OverLimit(kind[cur], reply.n)
     THEN Send("ROLLBACK", cur) /\ pc' = "undo" /\ UNCHANGED verdict
     ELSE IF Limited(kind[cur])
          THEN Send("COMMIT", cur) /\ pc' = "commit" /\ UNCHANGED verdict
          ELSE Decided("allowed") /\ pc' = "tell" /\ UNCHANGED <<queue, reply>>
  /\ UNCHANGED <<kind, cur, image, doubt, serverVars, link, version, history>>

\* Rows came back: they are sent on, and a transaction stays open.
RowsDone ==
  /\ pc = "exec"
  /\ reply.is = "rows"
  /\ Decided("allowed")
  /\ pc' = "tell"
  /\ UNCHANGED <<kind, cur, image, queue, reply, doubt, serverVars, link, version, history>>

\* The transaction is left open.
FaultyExecFails(v) ==
  /\ pc = "exec"
  /\ Decided(v)
  /\ pc' = "audit"
  /\ UNCHANGED <<kind, cur, image, queue, reply, serverVars, link, version, history>>

\* The statement failed or was given up: the transaction of a limited mutation
\* is undone, and what comes of that is ignored.
ExecFails(v) ==
  /\ pc = "exec"
  /\ Decided(v)
  /\ IF Limited(kind[cur]) THEN Undo(cur) ELSE pc' = "audit" /\ UNCHANGED <<queue, reply>>
  /\ UNCHANGED <<kind, cur, image, serverVars, link, version, history>>

ExecError == reply.is = "error" /\ ExecFails("error") /\ UNCHANGED doubt

\* ROLLBACK or COMMIT of a limited mutation is answered.
Settled ==
  /\ \/ /\ pc = "undo" /\ reply.is \in {"ok", "rows"}
        /\ Decided("overlimit")
        /\ pc' = "audit"
     \/ /\ pc = "commit" /\ reply.is \in {"ok", "rows"}
        /\ Decided("allowed")
        /\ pc' = "tell"
     \/ /\ pc = "cleanup" /\ reply.is # "none"
        /\ pc' = "audit"
        /\ UNCHANGED verdict
  /\ UNCHANGED <<kind, cur, image, queue, reply, doubt, serverVars, link, version, history>>

\* QUERY_TIMEOUT passes. START TRANSACTION, ROLLBACK and COMMIT that time out end
\* the connection (Fail); a read, the statement and a cleanup do not.
TimeOut ==
  /\ reply.is = "none"
  /\ doubt' = TRUE
  /\ \/ ExecFails("timeout")
     \/ /\ pc \in {"capture", "cleanup"}
        /\ pc' = IF pc = "capture" THEN "artifact" ELSE "audit"
        /\ UNCHANGED <<kind, cur, verdict, image, queue, reply, serverVars, link, version,
                       history>>

\* write_ok or write_result_set, before the audit.
Tell ==
  /\ pc = "tell"
  /\ pc' = "audit"
  /\ UNCHANGED <<kind, cur, verdict, image, queue, reply, doubt, serverVars, link, version,
                 history>>

\* Every sink is written, or one fails and fail_closed is off.
Audit ==
  /\ pc = "audit"
  /\ IF verdict[cur] = "allowed" THEN Released ELSE pc' = "refuse" /\ UNCHANGED cur
  /\ UNCHANGED <<kind, verdict, image, queue, reply, doubt, serverVars, link, version, history>>

\* The statement stays in hand.
FaultyRefuse ==
  /\ pc = "refuse"
  /\ pc' = "idle"
  /\ UNCHANGED <<kind, cur, verdict, image, queue, reply, doubt, serverVars, link, version,
                 history>>

\* write_err, after the audit.
Refuse ==
  /\ pc = "refuse"
  /\ Released
  /\ UNCHANGED <<kind, verdict, image, queue, reply, doubt, serverVars, link, version, history>>

Ends ==
  /\ pc' = "dead"
  /\ cur' = None
  /\ reply' = NoAnswer
  /\ UNCHANGED <<kind, verdict, image, doubt, serverVars, link, version, history>>

\* handle_query returns an error, and so does command_loop.
Fail ==
  /\ \/ pc \in {"begin", "undo", "commit"} /\ reply.is \in {"none", "error"}
     \/ pc = "exec" /\ reply.is = "rows"
     \/ pc \in {"artifact", "audit"} /\ FailClosed
     \/ pc \in {"tell", "refuse"}
  /\ Ends
  /\ UNCHANGED queue

\* wait_for_session_end wins the race: handle_query is dropped where it is.
SessionEnds == pc # "dead" /\ Ends /\ UNCHANGED queue

\* The proxy process dies: commands that are not on the wire are lost.
Crash ==
  /\ pc # "dead"
  /\ Ends
  /\ \E n \in 0 .. Len(queue) : queue' = SubSeq(queue, 1, n)

-----------------------------------------------------------------------------
(* The upstream session. *)

Run(op, answer) ==
  /\ queue # << >>
  /\ Head(queue).op = op
  /\ queue' = Tail(queue)
  /\ reply' = IF pc \in Waiting /\ link = "up" /\ ~doubt /\ Len(queue) = 1
              THEN answer ELSE reply
  /\ UNCHANGED <<kind, pc, cur, verdict, image, doubt, link, doubtful, since>>

Runs(s, kinds, answer) == Run("EXEC", answer) /\ Head(queue).of = s /\ kind[s] \in kinds

Ok(n) == [is |-> "ok", n |-> n]
Rows(n) == [is |-> "rows", n |-> n]

\* What was open is committed, also by START TRANSACTION.
Commits(open) ==
  /\ durable' = durable \cup pending
  /\ pending' = {}
  /\ tx' = open
  /\ view' = None
  /\ UNCHANGED <<rows, version, replaced>>

ServerBegins == Run("BEGIN", Ok(0)) /\ Commits(TRUE)

ServerCommits == Run("COMMIT", Ok(0)) /\ Commits(FALSE)

\* A transaction ends without its changes.
Forgets ==
  /\ pending' = {}
  /\ tx' = FALSE
  /\ view' = None
  /\ UNCHANGED <<durable, rows, version, replaced>>

ServerRollsBack == Run("ROLLBACK", Ok(0)) /\ Forgets

\* A read in a transaction sees what its first read saw, or, when the client
\* asked for another isolation level, the row as it is.
Reads(v) ==
  /\ v = version \/ v = view
  /\ view' = IF tx /\ view = None THEN version ELSE view
  /\ UNCHANGED <<tx, pending, durable, rows, version, replaced>>

ServerReads(v) == v # None /\ Run("READ", Rows(v)) /\ Reads(v)

\* Outside a transaction a change is committed at once.
Changes(s, n) ==
  /\ rows' = [rows EXCEPT ![s] = n]
  /\ replaced' = [replaced EXCEPT ![s] = IF kind[s] = "update" THEN version ELSE None]
  /\ IF tx THEN pending' = pending \cup {s} /\ UNCHANGED durable
           ELSE durable' = durable \cup {s} /\ UNCHANGED pending
  /\ UNCHANGED <<tx, view, version>>

ServerExecutes(s, n) ==
  \/ Runs(s, {"insert", "update", "other"}, Ok(n)) /\ Changes(s, n)
  \/ Runs(s, {"returning"}, Rows(n)) /\ Changes(s, n)
  \/ Runs(s, {"select"}, Rows(0)) /\ Reads(version)
  \/ Runs(s, {"begin"}, Ok(0)) /\ Commits(TRUE)
  \/ Runs(s, {"commit"}, Ok(0)) /\ Commits(FALSE)
  \/ Runs(s, {"rollback"}, Ok(0)) /\ Forgets

\* A statement that is refused is undone alone, or, after a deadlock, with the
\* transaction it is in.
ServerRefuses ==
  /\ Run("READ", Error) \/ Run("EXEC", Error)
  /\ Forgets \/ UNCHANGED <<serverVars, version, replaced>>

\* Once a call was given up, any answer may be heard.
LateAnswer(a) ==
  /\ doubt
  /\ link = "up"
  /\ pc \in Waiting
  /\ reply = NoAnswer
  /\ a.is # "none"
  /\ reply' = a
  /\ doubtful' = IF pc = "cleanup" THEN doubtful ELSE doubtful \cup {cur}
  /\ UNCHANGED <<kind, pc, cur, verdict, image, queue, doubt, serverVars, link, version,
                 since, replaced>>

\* Commands on the wire may still be run.
LinkBreaks ==
  /\ link = "up"
  /\ link' = "down"
  /\ \E n \in 0 .. Len(queue) : queue' = SubSeq(queue, 1, n)
  /\ reply' = Error
  /\ UNCHANGED <<kind, pc, cur, verdict, image, doubt, serverVars, version, history>>

\* Nobody is connected and all that was sent has run.
ServerTerminates ==
  /\ pc = "dead" \/ link = "down"
  /\ queue = << >>
  /\ tx
  /\ Forgets
  /\ UNCHANGED <<kind, pc, cur, verdict, image, queue, reply, doubt, link, doubtful, since>>

\* Another session writes the row, unless an open change of ours locks it.
OtherWrites ==
  /\ version < MaxWrites
  /\ \A s \in pending : kind[s] # "update"
  /\ version' = version + 1
  /\ UNCHANGED <<kind, pc, cur, verdict, image, queue, reply, doubt, serverVars, link, history>>

-----------------------------------------------------------------------------
ProxyStep ==
  \/ CaptureDone \/ WriteArtifact \/ BeginDone \/ ExecDone \/ RowsDone \/ ExecError
  \/ Settled \/ TimeOut \/ Tell \/ Audit \/ Refuse \/ Fail

ServerStep ==
  \/ ServerBegins \/ ServerCommits \/ ServerRollsBack \/ ServerRefuses \/ ServerTerminates
  \/ \E v \in Versions : ServerReads(v)
  \/ \E s \in Statement, n \in RowCounts : ServerExecutes(s, n)

Next ==
  \/ \E s \in Statement, k \in Kinds : Receive(s, k)
  \/ ProxyStep \/ SessionEnds \/ Crash
  \/ ServerStep \/ OtherWrites
  \/ LinkBreaks \/ \E a \in Answer : LateAnswer(a)

Spec == Init /\ [][Next]_vars

-----------------------------------------------------------------------------
(* Properties. *)

\* Types of the variables.
TypeOK ==
  /\ kind \in [Statement -> Kinds \cup {"new"}]
  /\ pc \in Pc
  /\ cur \in IF pc \in {"idle", "dead"} THEN {None} ELSE Statement
  /\ verdict \in [Statement -> Verdicts]
  /\ image \in [Statement -> Nat \cup {None}]
  /\ queue \in Seq(Command)
  /\ reply \in Answer
  /\ doubt \in BOOLEAN
  /\ doubtful \subseteq Statement
  /\ tx \in BOOLEAN
  /\ view \in Versions \cup {None}
  /\ pending \subseteq Statement
  /\ durable \subseteq Statement
  /\ rows \in [Statement -> RowCounts \cup {0}]
  /\ link \in {"up", "down"}
  /\ version \in Versions
  /\ since \in [Statement -> Versions]
  /\ replaced \in [Statement -> Versions \cup {None}]

\* A row-limited mutation over the limit is never committed, wherever its
\* handler was stopped and whatever transaction the client has open: but for
\* one that returns rows, which is not compared with the limit and is committed
\* by the next START TRANSACTION, and for one that went by an answer heard after
\* a call on the connection was given up.
OverLimitNeverDurable ==
  \A s \in durable \ doubtful :
    Limited(kind[s]) /\ rows[s] > Limit => kind[s] = "returning"

\* What the audit event and the client are told of a row-limited mutation is
\* what became of it, and stays so: allowed means committed, unless it returns
\* rows; over the limit, failed or timed out means that it is not committed and
\* never will be, though the upstream may run it later.
VerdictIsTrue ==
  \A s \in Statement \ doubtful : Limited(kind[s]) =>
    /\ verdict[s] = "allowed" /\ kind[s] # "returning" => s \in durable
    /\ verdict[s] \in {"overlimit", "error", "timeout"} => s \notin durable

\* The before-image of a change was read between the arrival of the statement
\* and the change, or is as old as the view of the transaction the client had
\* open: no more than what others wrote since then is lost when it is restored.
ImageIsOfTheStatement ==
  \A s \in (pending \cup durable) \ doubtful :
    image[s] # None => since[s] <= image[s] /\ image[s] <= replaced[s]

\* A limited mutation is held to the promise unless it returns rows or went by
\* an answer that may be another's.
HeldTo(s) == Limited(kind[s]) /\ kind[s] # "returning" /\ s \notin doubtful

\* What has become of it, in the words of RowLimitedMutation.
Stage(s) == IF kind[s] = "new" THEN "new" ELSE IF HeldTo(s) THEN "held" ELSE "free"

Effect(s) ==
  IF ~HeldTo(s) \/ s \notin pending \cup durable THEN "none"
  ELSE IF s \in durable THEN "durable"
  ELSE IF rows[s] > Limit THEN "over" ELSE "open"

Word(s) ==
  IF ~HeldTo(s) \/ verdict[s] = "none" THEN "none"
  ELSE IF verdict[s] = "allowed" THEN "allowed" ELSE "denied"

Promise == INSTANCE RowLimitedMutation WITH
  stage <- [s \in Statement |-> Stage(s)],
  effect <- [s \in Statement |-> Effect(s)],
  word <- [s \in Statement |-> Word(s)]

\* The handler and the upstream, however they interleave, keep the promise of a
\* row-limited mutation: it never commits by itself, and what is said of it is
\* said once and stays true.
KeepsItsPromise == Promise!Spec
=============================================================================
