----------------------- MODULE StatementPipelineProofs -----------------------
(***************************************************************************)
(* The safety of StatementPipeline for every number of statements and      *)
(* sinks, every limit and both settings of the switches.                   *)
(***************************************************************************)
EXTENDS StatementPipeline, TLAPS

USE RowsAssumption, LimitAssumption, SwitchAssumption, SinksAssumption, NoneAssumption

-----------------------------------------------------------------------------
(* The inductive invariant. *)

\* The statement s, and an EXEC of it, somewhere in the queue.
Queued(s) == \E i \in 1..Len(queue) : queue[i].op = "EXEC" /\ queue[i].of = s

Touched(s) == s \in durable \cup pending \/ Queued(s)

\* Where the handler is decides what is known of the statement in hand, and
\* what is done with a statement that has not come or that is done with.
Flow ==
  /\ cur = None <=> pc \in {"idle", "dead"}
  /\ \A s \in Statement : kind[s] = "new" =>
       outcome[s] = "none" /\ s \notin ready /\ cur # s /\ ~Touched(s)
  /\ cur # None =>
       /\ cur \notin ready
       /\ outcome[cur] = "none" <=> pc \notin {"cleanup", "audit", "answer"}
       /\ pc \in {"begin", "undo", "commit", "cleanup"} => Limited(cur)
       /\ pc \in Waiting \cup {"artifact"} => kind[cur] # "refused"
       /\ pc \in {"capture", "artifact", "begin"} => ~Touched(cur)
  /\ \A s \in Statement : outcome[s] = "blocked" => kind[s] = "refused"
  /\ \A s \in Statement : kind[s] = "refused" => ~Touched(s)
  /\ \A s \in ready : outcome[s] # "none"

\* With fail_closed, the sinks before the one to write hold the event.
Audited ==
  FailClosed =>
    /\ pc = "cleanup" => sink = 1
    /\ pc = "audit" => 1..(sink - 1) \subseteq logged[cur]
    /\ pc = "answer" => logged[cur] = 1..NSinks
    /\ \A s \in ready : logged[s] = 1..NSinks
    /\ \A s \in Statement : \A n \in logged[s] : 1..n \subseteq logged[s]

\* With fail_closed, what was sent upstream has its artifact.
Prepared ==
  FailClosed =>
    /\ pc \in {"begin", "exec"} /\ Captured(cur) => cur \in artifact
    /\ \A s \in Statement : Touched(s) /\ Captured(s) => s \in artifact

\* The command the handler waits for.
Awaited == CASE pc = "capture" -> "READ"
             [] pc = "begin" -> "BEGIN"
             [] pc = "exec" -> "EXEC"
             [] pc = "commit" -> "COMMIT"
             [] OTHER -> "ROLLBACK"

\* The handler waits for the last command in the queue; an answer means that
\* the queue is empty.
Lane ==
  /\ link = "down" => Len(queue) = 0 /\ reply = "error" /\ pending = {} /\ tx = "none"
  /\ reply # "none" => Len(queue) = 0
  /\ pc \in Waiting /\ reply = "none" =>
       /\ Len(queue) > 0
       /\ queue[Len(queue)] = [op |-> Awaited, of |-> cur]

\* A row-limited mutation runs inside a transaction and nothing but its
\* ROLLBACK is behind it in the queue.
LimitedAt(i) == queue[i].op = "EXEC" /\ Limited(queue[i].of)

LimitedInQueue ==
  /\ pc = "begin" /\ reply = "ok" => tx = "open"
  /\ \A i \in 1..Len(queue) : LimitedAt(i) =>
       /\ i = 1
       /\ tx = "open"
       /\ queue[1].of \notin durable \cup pending
       /\ \/ Len(queue) > 1 /\ queue[2].op = "ROLLBACK"
          \/ Len(queue) = 1 /\ (pc = "dead" \/ (pc = "exec" /\ cur = queue[1].of))

\* Once it has run, what comes next is its ROLLBACK, or a COMMIT that the
\* handler sent after it compared the rows with the limit.
Undone == Len(queue) > 0 /\ queue[1].op = "ROLLBACK"
HasRun(s) == Len(queue) = 0 /\ (pc = "dead" \/ (cur = s /\ pc = "exec"))
Committing(s) ==
  /\ Len(queue) = 1 /\ queue[1].op = "COMMIT"
  /\ rows[s] <= Limit /\ outcome[s] = "none"
  /\ pc = "dead" \/ (cur = s /\ pc = "commit")

LimitedPending ==
  /\ \A s \in pending : Limited(s) => Undone \/ HasRun(s) \/ Committing(s)
  /\ pc = "exec" /\ Limited(cur) /\ reply = "ok" => cur \in pending
  /\ pc = "commit" /\ reply = "none" => cur \in pending /\ Len(queue) = 1
  /\ pc = "commit" /\ reply = "ok" => cur \in durable
  /\ pc \in {"exec", "undo"} /\ Limited(cur) => cur \notin durable

\* What is committed, and what its audit event and its client are told.
Settled ==
  /\ OverLimitNeverDurable
  /\ AuditTellsTheOutcome
  /\ \A s \in Statement :
       IF s \in ready THEN "error" \in told[s] <=> outcome[s] # "allowed"
                      ELSE "error" \notin told[s]

IInv ==
  /\ TypeOK /\ Flow /\ Audited /\ Prepared /\ Lane
  /\ LimitedInQueue /\ LimitedPending /\ Settled

-----------------------------------------------------------------------------
(* The queue. *)

LEMMA QueueFacts ==
  ASSUME NEW q \in Seq(Command)
  PROVE /\ Len(q) \in Nat
        /\ q = << >> <=> Len(q) = 0
        /\ q # << >> => Head(q) = q[1]
        /\ \A i \in 1..Len(q) : q[i] \in Command /\ q[i].op \in Ops /\ q[i].of \in Statement
<1> Len(q) \in Nat /\ \A i \in 1..Len(q) : q[i] \in Command
  OBVIOUS
<1> q = << >> <=> Len(q) = 0
  OBVIOUS
<1> q # << >> => Head(q) = q[1]
  OBVIOUS
<1> QED
  BY DEF Command

LEMMA SendEffect ==
  ASSUME TypeOK, NEW op \in Ops, NEW s \in Statement, Send(op, s)
  PROVE /\ queue' \in Seq(Command)
        /\ link = "up" => /\ reply' = "none"
                          /\ Len(queue') = Len(queue) + 1
                          /\ queue'[Len(queue) + 1] = [op |-> op, of |-> s]
                          /\ \A i \in 1..Len(queue) : queue'[i] = queue[i]
        /\ link # "up" => reply' = "error" /\ queue' = queue
<1> DEFINE c == [op |-> op, of |-> s]
<1>1. c \in Command
  BY DEF Command
<1>2. queue \in Seq(Command)
  BY DEF TypeOK
<1>3. CASE link = "up"
  <2>1. queue' = Append(queue, c) /\ reply' = "none"
    BY <1>3 DEF Send
  <2> HIDE DEF c
  <2>2. /\ Append(queue, c) \in Seq(Command)
        /\ Len(Append(queue, c)) = Len(queue) + 1
        /\ Append(queue, c)[Len(queue) + 1] = c
        /\ \A i \in 1..Len(queue) : Append(queue, c)[i] = queue[i]
    BY <1>1, <1>2
  <2> QED
    BY <1>3, <2>1, <2>2 DEF c
<1>4. CASE link # "up"
  BY <1>2, <1>4 DEF Send
<1> QED
  BY <1>3, <1>4

LEMMA RunEffect ==
  ASSUME TypeOK, NEW verb, NEW answer, Run(verb, answer)
  PROVE /\ queue' \in Seq(Command)
        /\ Len(queue) > 0
        /\ queue[1] \in Command
        /\ Verb(queue[1]) = verb
        /\ Len(queue') = Len(queue) - 1
        /\ \A i \in 1..Len(queue') : queue'[i] = queue[i + 1]
        /\ reply' = IF Len(queue) = 1 THEN answer ELSE reply
<1>1. queue \in Seq(Command) /\ queue # << >>
  BY DEF TypeOK, Run
<1>2. /\ Tail(queue) \in Seq(Command)
      /\ Len(Tail(queue)) = Len(queue) - 1
      /\ \A i \in 1..Len(Tail(queue)) : Tail(queue)[i] = queue[i + 1]
  BY <1>1
<1> QED
  BY <1>1, <1>2, QueueFacts DEF Run

LEMMA CrashEffect ==
  ASSUME TypeOK, NEW n \in 0..Len(queue), queue' = SubSeq(queue, 1, n)
  PROVE /\ queue' \in Seq(Command)
        /\ Len(queue') = n
        /\ \A i \in 1..n : queue'[i] = queue[i]
BY DEF TypeOK

-----------------------------------------------------------------------------
(* Types. *)

LEMMA DecidedType ==
  ASSUME TypeOK, cur \in Statement, NEW verdict \in Outcomes, Decided(cur, verdict)
  PROVE outcome' \in [Statement -> Outcomes] /\ sink' \in 1..NSinks
BY DEF TypeOK, Decided

LEMMA SendType ==
  ASSUME TypeOK, NEW op \in Ops, NEW s \in Statement, Send(op, s)
  PROVE queue' \in Seq(Command) /\ reply' \in {"none", "ok", "error"}
<1>1. queue' \in Seq(Command)
  BY SendEffect
<1>2. reply' \in {"none", "ok", "error"}
  BY DEF Send
<1> QED
  BY <1>1, <1>2

LEMMA SendOnType ==
  ASSUME TypeOK, NEW s \in Statement, SendOn(s)
  PROVE queue' \in Seq(Command) /\ reply' \in {"none", "ok", "error"} /\ pc' \in Pc
BY SendType DEF SendOn, Ops, Pc, Waiting

LEMMA ProxyType == TypeOK /\ Flow /\ (ProxyStep \/ SessionEnds) => TypeOK'
<1> SUFFICES ASSUME TypeOK, Flow, ProxyStep \/ SessionEnds PROVE TypeOK'
  OBVIOUS
<1>c. pc \notin {"idle", "dead"} => cur \in Statement
  BY DEF TypeOK, Flow
<1>1. CASE CaptureDone \/ Fail \/ SessionEnds
  BY <1>1 DEF CaptureDone, Fail, SessionEnds, TypeOK, Pc, serverVars
<1>2. CASE StoreArtifact
  <2>1. /\ cur \in Statement /\ SendOn(cur) /\ artifact' = artifact \cup {cur}
        /\ UNCHANGED <<kind, cur, outcome, sink, logged, told, ready, unlogged, serverVars, link>>
    BY <1>2, <1>c DEF StoreArtifact
  <2> QED
    BY <2>1, SendOnType DEF TypeOK, serverVars
<1>3. CASE ArtifactFails
  <2>1. /\ UNCHANGED <<kind, outcome, sink, logged, artifact, told, ready, unlogged,
                       serverVars, link>>
        /\ cur' \in {cur, None}
        /\ pc' \in Pc /\ queue' \in Seq(Command) /\ reply' \in {"none", "ok", "error"}
    BY <1>3, <1>c, SendOnType DEF ArtifactFails, TypeOK, Pc
  <2> QED
    BY <2>1 DEF TypeOK, serverVars
<1>4. CASE BeginDone
  <2>1. queue' \in Seq(Command) /\ reply' \in {"none", "ok", "error"}
    BY <1>4, <1>c, SendType DEF BeginDone, Ops
  <2> QED
    BY <1>4, <2>1 DEF BeginDone, TypeOK, Pc, Waiting, serverVars
<1>5. CASE ExecDone
  <2>1. /\ cur \in Statement
        /\ told' = [told EXCEPT ![cur] = @ \cup {"complete"}]
        /\ UNCHANGED <<kind, cur, logged, artifact, ready, unlogged, serverVars, link>>
    BY <1>5, <1>c DEF ExecDone
  <2>2. /\ queue' \in Seq(Command) /\ reply' \in {"none", "ok", "error"}
        /\ pc' \in Pc /\ outcome' \in [Statement -> Outcomes] /\ sink' \in 1..NSinks
    <3>1. CASE Limited(cur)
      <4>1. /\ Send("ROLLBACK", cur) \/ Send("COMMIT", cur)
            /\ pc' \in {"undo", "commit"} /\ UNCHANGED <<outcome, sink>>
        BY <1>5, <3>1 DEF ExecDone
      <4> QED
        BY <2>1, <4>1, SendType DEF Ops, TypeOK, Pc, Waiting
    <3>2. CASE ~Limited(cur)
      <4>1. /\ Decided(cur, "allowed") /\ pc' = "audit" /\ UNCHANGED <<queue, reply>>
        BY <1>5, <3>2 DEF ExecDone
      <4> QED
        BY <2>1, <4>1, DecidedType DEF Outcomes, TypeOK, Pc
    <3> QED
      BY <3>1, <3>2
  <2> QED
    BY <2>1, <2>2 DEF TypeOK, serverVars
<1>6. ASSUME NEW verdict \in {"error", "timeout"}, ExecFails(verdict) PROVE TypeOK'
  <2>1. /\ cur \in Statement /\ Decided(cur, verdict)
        /\ UNCHANGED <<kind, cur, logged, artifact, told, ready, unlogged, serverVars, link>>
    BY <1>6, <1>c DEF ExecFails
  <2>2. outcome' \in [Statement -> Outcomes] /\ sink' \in 1..NSinks
    BY <2>1, DecidedType DEF Outcomes
  <2>3. queue' \in Seq(Command) /\ reply' \in {"none", "ok", "error"} /\ pc' \in Pc
    BY <1>6, <2>1, SendType DEF ExecFails, Ops, TypeOK, Pc, Waiting
  <2> QED
    BY <2>1, <2>2, <2>3 DEF TypeOK, serverVars
<1>7. CASE LimitSettled
  <2>1. /\ cur \in Statement /\ pc' = "audit"
        /\ UNCHANGED <<kind, cur, logged, artifact, told, ready, unlogged,
                       queue, reply, serverVars, link>>
        /\ \/ Decided(cur, "overlimit") \/ Decided(cur, "allowed")
           \/ UNCHANGED <<outcome, sink>>
    BY <1>7, <1>c DEF LimitSettled
  <2>2. outcome' \in [Statement -> Outcomes] /\ sink' \in 1..NSinks
    BY <2>1, DecidedType DEF Outcomes, TypeOK
  <2> QED
    BY <2>1, <2>2 DEF TypeOK, serverVars, Pc
<1>8. CASE TimeOut
  <2>1. CASE ExecFails("timeout")
    BY <1>6, <2>1
  <2>2. CASE ~ExecFails("timeout")
    BY <1>8, <2>2 DEF TimeOut, TypeOK, Pc, serverVars
  <2> QED
    BY <2>1, <2>2
<1>9. CASE WriteAudit \/ AuditFails
  <2>1. /\ cur \in Statement
        /\ cur' \in {cur, None} /\ pc' \in Pc /\ sink' \in 1..NSinks
        /\ logged' = logged \/ logged' = [logged EXCEPT ![cur] = @ \cup {sink}]
        /\ unlogged' = unlogged \/ unlogged' = unlogged \cup {cur}
        /\ UNCHANGED <<kind, outcome, artifact, told, ready, queue, reply, serverVars, link>>
    BY <1>9, <1>c DEF WriteAudit, AuditFails, NextSink, TypeOK, Pc
  <2> QED
    BY <2>1 DEF TypeOK, serverVars
<1>10. CASE Answer
  BY <1>10, <1>c DEF Answer, TypeOK, Pc, serverVars
<1> QED
  BY <1>1, <1>2, <1>3, <1>4, <1>5, <1>6, <1>7, <1>8, <1>9, <1>10 DEF ProxyStep, ExecError

LEMMA ServerType == TypeOK /\ (ServerStep \/ LinkBreaks) => TypeOK'
<1> SUFFICES ASSUME TypeOK, ServerStep \/ LinkBreaks PROVE TypeOK'
  OBVIOUS
<1>1. ASSUME NEW verb, NEW answer \in {"ok", "error"}, Run(verb, answer)
      PROVE /\ queue' \in Seq(Command) /\ reply' \in {"none", "ok", "error"}
            /\ Head(queue).of \in Statement
            /\ UNCHANGED <<proxyVars, link>>
  BY <1>1, RunEffect, QueueFacts DEF TypeOK, Run, Command
<1>2. CASE ServerBegins
  BY <1>1, <1>2 DEF ServerBegins, TypeOK, proxyVars
<1>3. CASE ServerCommits
  BY <1>1, <1>3 DEF ServerCommits, TypeOK, proxyVars
<1>4. CASE ServerRollsBack
  BY <1>1, <1>4 DEF ServerRollsBack, TypeOK, proxyVars
<1>5. CASE ServerReads
  BY <1>1, <1>5 DEF ServerReads, TypeOK, proxyVars, serverVars
<1>6. CASE ServerChanges
  <2>1. /\ queue' \in Seq(Command) /\ reply' \in {"none", "ok", "error"}
        /\ Head(queue).of \in Statement
        /\ UNCHANGED <<proxyVars, link, tx>>
    BY <1>1, <1>6 DEF ServerChanges
  <2>2. PICK n \in RowCounts : rows' = [rows EXCEPT ![Head(queue).of] = n]
    BY <1>6 DEF ServerChanges
  <2>3. pending' \subseteq Statement /\ durable' \subseteq Statement
    BY <1>6, <2>1 DEF ServerChanges, TypeOK
  <2> QED
    BY <2>1, <2>2, <2>3 DEF TypeOK, proxyVars
<1>7. CASE ServerRefuses
  <2>1. /\ queue' \in Seq(Command) /\ reply' \in {"none", "ok", "error"}
        /\ UNCHANGED <<proxyVars, link>>
    BY <1>1, <1>7 DEF ServerRefuses
  <2> QED
    BY <1>7, <2>1 DEF ServerRefuses, TypeOK, proxyVars
<1>8. CASE ServerTerminates
  BY <1>8 DEF ServerTerminates, TypeOK, proxyVars
<1>9. CASE LinkBreaks
  BY <1>9 DEF LinkBreaks, TypeOK, proxyVars
<1> QED
  BY <1>2, <1>3, <1>4, <1>5, <1>6, <1>7, <1>8, <1>9 DEF ServerStep

LEMMA NextType == TypeOK /\ Flow /\ [Next]_vars => TypeOK'
<1> SUFFICES ASSUME TypeOK, Flow, [Next]_vars PROVE TypeOK'
  OBVIOUS
<1>1. ASSUME NEW s \in Statement, NEW k \in Kinds, Receive(s, k) PROVE TypeOK'
  <2>1. /\ kind' = [kind EXCEPT ![s] = k] /\ cur' = s
        /\ UNCHANGED <<logged, artifact, told, ready, unlogged, serverVars, link>>
    BY <1>1 DEF Receive
  <2>2. /\ queue' \in Seq(Command) /\ reply' \in {"none", "ok", "error"} /\ pc' \in Pc
        /\ outcome' \in [Statement -> Outcomes] /\ sink' \in 1..NSinks
    <3>1. CASE k = "refused"
      BY <1>1, <3>1 DEF Receive, Decided, TypeOK, Outcomes, Pc
    <3>2. CASE k # "refused"
      <4>1. /\ UNCHANGED <<outcome, sink>>
            /\ Send("READ", s) \/ Send("BEGIN", s) \/ Send("EXEC", s)
            /\ pc' \in {"capture", "begin", "exec"}
        BY <1>1, <3>2 DEF Receive
      <4> QED
        BY <4>1, SendType DEF TypeOK, Ops, Pc, Waiting
    <3> QED
      BY <3>1, <3>2
  <2> QED
    BY <2>1, <2>2 DEF TypeOK, serverVars
<1>2. CASE Crash
  <2>1. queue' \in Seq(Command)
    BY <1>2, CrashEffect DEF Crash
  <2> QED
    BY <1>2, <2>1 DEF Crash, TypeOK, Pc, serverVars
<1>3. CASE UNCHANGED vars
  BY <1>3 DEF vars, proxyVars, serverVars, TypeOK
<1> QED
  BY <1>1, <1>2, <1>3, ProxyType, ServerType DEF Next

-----------------------------------------------------------------------------
(* Which statements have been sent upstream. *)

LEMMA SameKinds ==
  ASSUME kind' = kind
  PROVE \A s : /\ Limited(s)' <=> Limited(s)
               /\ Captured(s)' <=> Captured(s)
BY DEF Limited, Captured

LEMMA TouchedSame ==
  ASSUME UNCHANGED <<queue, serverVars>>
  PROVE \A t : Touched(t)' <=> Touched(t)
BY DEF Touched, Queued, serverVars

LEMMA TouchedBySend ==
  ASSUME TypeOK, NEW op \in Ops, NEW s \in Statement, Send(op, s), UNCHANGED serverVars
  PROVE \A t : Touched(t)' => Touched(t) \/ (op = "EXEC" /\ t = s)
<1> SUFFICES ASSUME NEW t, Queued(t)' PROVE Queued(t) \/ (op = "EXEC" /\ t = s)
  BY DEF Touched, serverVars
<1>1. PICK i \in 1..Len(queue') : queue'[i].op = "EXEC" /\ queue'[i].of = t
  BY DEF Queued
<1>n. Len(queue) \in Nat /\ Len(queue') \in Nat
  BY SendEffect DEF TypeOK
<1>2. CASE link = "up" /\ i = Len(queue) + 1
  <2>1. queue'[i] = [op |-> op, of |-> s]
    BY <1>2, SendEffect
  <2> QED
    BY <1>1, <2>1
<1>3. CASE link = "up" /\ i # Len(queue) + 1
  <2>1. Len(queue') = Len(queue) + 1 /\ \A j \in 1..Len(queue) : queue'[j] = queue[j]
    BY <1>3, SendEffect
  <2>2. i \in 1..Len(queue)
    BY <1>n, <1>3, <2>1
  <2> QED
    BY <1>1, <2>1, <2>2 DEF Queued
<1>4. CASE link # "up"
  BY <1>1, <1>4, SendEffect DEF Queued
<1> QED
  BY <1>2, <1>3, <1>4

LEMMA TouchedByRun ==
  ASSUME TypeOK, NEW verb, NEW answer, Run(verb, answer)
  PROVE /\ \A t : Queued(t)' => Queued(t)
        /\ queue[1].op = "EXEC" => Queued(queue[1].of)
<1>1. ASSUME NEW t, Queued(t)' PROVE Queued(t)
  <2>1. PICK i \in 1..Len(queue') : queue'[i].op = "EXEC" /\ queue'[i].of = t
    BY <1>1 DEF Queued
  <2>2. i + 1 \in 1..Len(queue) /\ queue'[i] = queue[i + 1]
    BY RunEffect, QueueFacts DEF TypeOK
  <2> QED
    BY <2>1, <2>2 DEF Queued
<1>2. 1 \in 1..Len(queue)
  BY RunEffect, QueueFacts DEF TypeOK
<1> QED
  BY <1>1, <1>2 DEF Queued

LEMMA TouchedByServer ==
  ASSUME TypeOK, ServerStep \/ LinkBreaks
  PROVE \A t \in Statement : Touched(t)' => Touched(t)
<1>1. CASE ServerBegins
  BY <1>1, TouchedByRun DEF ServerBegins, Touched
<1>2. CASE ServerCommits
  BY <1>2, TouchedByRun DEF ServerCommits, Touched
<1>3. CASE ServerRollsBack
  BY <1>3, TouchedByRun DEF ServerRollsBack, Touched
<1>4. CASE ServerReads
  BY <1>4, TouchedByRun DEF ServerReads, Touched, serverVars
<1>5. CASE ServerChanges
  <2>1. queue[1].op = "EXEC" /\ Head(queue) = queue[1]
    BY <1>5, RunEffect, QueueFacts DEF ServerChanges, Verb, TypeOK, Command, Ops, Run
  <2>2. /\ \A t : Queued(t)' => Queued(t)
        /\ Queued(queue[1].of)
    BY <1>5, <2>1, TouchedByRun DEF ServerChanges
  <2> QED
    BY <1>5, <2>1, <2>2 DEF ServerChanges, Touched
<1>6. CASE ServerRefuses
  BY <1>6, TouchedByRun DEF ServerRefuses, Touched
<1>7. CASE ServerTerminates
  BY <1>7 DEF ServerTerminates, Touched, Queued
<1>8. CASE LinkBreaks
  BY <1>8 DEF LinkBreaks, Touched, Queued
<1> QED
  BY <1>1, <1>2, <1>3, <1>4, <1>5, <1>6, <1>7, <1>8 DEF ServerStep

LEMMA TouchedByCrash ==
  ASSUME TypeOK, Crash
  PROVE \A t : Touched(t)' => Touched(t)
<1>1. PICK n \in 0..Len(queue) : queue' = SubSeq(queue, 1, n)
  BY DEF Crash
<1>2. /\ Len(queue') = n
      /\ \A i \in 1..n : queue'[i] = queue[i] /\ i \in 1..Len(queue)
  BY <1>1, CrashEffect, QueueFacts DEF TypeOK
<1> QED
  BY <1>2 DEF Touched, Queued, Crash, serverVars

-----------------------------------------------------------------------------
(* The control of the handler. *)

\* What the steps of the handler may send.
LEMMA ProxyTouches ==
  ASSUME TypeOK, Flow, ProxyStep \/ SessionEnds
  PROVE /\ kind' = kind
        /\ \A t : Touched(t)' => Touched(t) \/ (pc' = "exec" /\ t = cur)
<1>c. pc \notin {"idle", "dead"} => cur \in Statement
  BY DEF TypeOK, Flow
<1>1. CASE UNCHANGED <<queue, serverVars>>
  BY <1>1, TouchedSame DEF ProxyStep, CaptureDone, StoreArtifact, ArtifactFails, BeginDone,
        ExecDone, ExecError, ExecFails, LimitSettled, TimeOut, WriteAudit, AuditFails,
        Answer, Fail, SessionEnds
<1>2. ASSUME NEW op \in Ops, Send(op, cur), cur \in Statement, UNCHANGED serverVars,
             op = "EXEC" => pc' = "exec"
      PROVE \A t : Touched(t)' => Touched(t) \/ (pc' = "exec" /\ t = cur)
  BY <1>2, TouchedBySend
<1>3. CASE StoreArtifact \/ ArtifactFails
  BY <1>1, <1>2, <1>3, <1>c DEF StoreArtifact, ArtifactFails, SendOn, Ops
<1>4. CASE BeginDone
  BY <1>2, <1>4, <1>c DEF BeginDone, Ops
<1>5. CASE ExecDone
  BY <1>1, <1>2, <1>5, <1>c DEF ExecDone, Ops
<1>6. CASE ExecError \/ TimeOut
  BY <1>1, <1>2, <1>6, <1>c DEF ExecError, TimeOut, ExecFails, Ops
<1>7. CASE CaptureDone \/ LimitSettled \/ WriteAudit \/ AuditFails \/ Answer \/ Fail \/ SessionEnds
  BY <1>1, <1>7 DEF CaptureDone, LimitSettled, WriteAudit, AuditFails, Answer, Fail, SessionEnds
<1> QED
  BY <1>3, <1>4, <1>5, <1>6, <1>7 DEF ProxyStep

LEMMA ProxyFlow == TypeOK /\ Flow /\ (ProxyStep \/ SessionEnds) => Flow'
<1> SUFFICES ASSUME TypeOK, Flow, ProxyStep \/ SessionEnds PROVE Flow'
  OBVIOUS
<1>t. /\ kind' = kind
      /\ \A t : Touched(t)' => Touched(t) \/ (pc' = "exec" /\ t = cur)
  BY ProxyTouches
<1>k. \A t : Limited(t)' <=> Limited(t)
  BY <1>t, SameKinds
<1>c. pc \notin {"idle", "dead"} => cur \in Statement
  BY DEF TypeOK, Flow
<1>d. ASSUME cur \in Statement, NEW verdict \in Outcomes, Decided(cur, verdict)
      PROVE /\ outcome'[cur] = verdict
            /\ \A s \in Statement \ {cur} : outcome'[s] = outcome[s]
  BY <1>d DEF Decided, TypeOK
<1> USE DEF Flow, Waiting
<1>1. CASE CaptureDone
  BY <1>1, <1>t, <1>k, <1>c DEF CaptureDone, TypeOK
<1>2. CASE StoreArtifact
  BY <1>2, <1>t, <1>k, <1>c DEF StoreArtifact, SendOn, TypeOK
<1>3. CASE ArtifactFails
  BY <1>3, <1>t, <1>k, <1>c DEF ArtifactFails, SendOn, TypeOK
<1>4. CASE BeginDone
  BY <1>4, <1>t, <1>k, <1>c DEF BeginDone, TypeOK
<1>5. CASE ExecDone
  <2>1. CASE Limited(cur)
    <3>1. /\ pc = "exec" /\ pc' \in {"undo", "commit"}
          /\ UNCHANGED <<outcome, cur, ready>>
      BY <1>5, <2>1 DEF ExecDone
    <3> QED
      BY <3>1, <2>1, <1>t, <1>k, <1>c DEF TypeOK
  <2>2. CASE ~Limited(cur)
    <3>1. /\ pc = "exec" /\ pc' = "audit" /\ Decided(cur, "allowed")
          /\ UNCHANGED <<cur, ready>>
      BY <1>5, <2>2 DEF ExecDone
    <3> QED
      BY <3>1, <1>d, <1>t, <1>k, <1>c DEF TypeOK, Outcomes
  <2> QED
    BY <2>1, <2>2
<1>6. ASSUME NEW verdict \in {"error", "timeout"}, ExecFails(verdict) PROVE Flow'
  <2>1. /\ pc = "exec" /\ Decided(cur, verdict) /\ UNCHANGED <<cur, ready>>
        /\ pc' = IF Limited(cur) THEN "cleanup" ELSE "audit"
    BY <1>6 DEF ExecFails
  <2> QED
    BY <2>1, <1>d, <1>t, <1>k, <1>c DEF TypeOK, Outcomes
<1>7. CASE LimitSettled
  <2>1. /\ pc' = "audit" /\ UNCHANGED <<cur, ready>>
        /\ \/ pc \in {"undo", "commit"} /\ Decided(cur, "overlimit")
           \/ pc \in {"undo", "commit"} /\ Decided(cur, "allowed")
           \/ pc = "cleanup" /\ UNCHANGED outcome
    BY <1>7 DEF LimitSettled
  <2> QED
    BY <2>1, <1>d, <1>t, <1>k, <1>c DEF TypeOK, Outcomes
<1>8. CASE TimeOut
  <2>1. CASE ExecFails("timeout")
    BY <1>6, <2>1
  <2>2. CASE ~ExecFails("timeout")
    <3>1. /\ pc \in {"capture", "cleanup"}
          /\ pc' = IF pc = "capture" THEN "artifact" ELSE "audit"
          /\ UNCHANGED <<cur, outcome, ready>>
      BY <1>8, <2>2 DEF TimeOut
    <3> QED
      BY <3>1, <1>t, <1>k, <1>c DEF TypeOK
  <2> QED
    BY <2>1, <2>2
<1>9. CASE WriteAudit \/ AuditFails
  BY <1>9, <1>t, <1>k, <1>c DEF WriteAudit, AuditFails, NextSink, TypeOK
<1>10. CASE Answer
  BY <1>10, <1>t, <1>k, <1>c DEF Answer, TypeOK
<1>11. CASE Fail \/ SessionEnds
  BY <1>11, <1>t, <1>k, <1>c DEF Fail, SessionEnds, TypeOK
<1> QED
  BY <1>1, <1>2, <1>3, <1>4, <1>5, <1>6, <1>7, <1>8, <1>9, <1>10, <1>11 DEF ProxyStep, ExecError

LEMMA NextFlow == TypeOK /\ Flow /\ [Next]_vars => Flow'
<1> SUFFICES ASSUME TypeOK, Flow, [Next]_vars PROVE Flow'
  OBVIOUS
<1>1. ASSUME NEW s \in Statement, NEW k \in Kinds, Receive(s, k) PROVE Flow'
  <2>1. /\ pc = "idle" /\ kind[s] = "new" /\ cur' = s
        /\ kind' = [kind EXCEPT ![s] = k] /\ k # "new"
        /\ UNCHANGED <<ready, serverVars>>
    BY <1>1 DEF Receive, Kinds
  <2>2. /\ kind'[s] = k
        /\ \A t \in Statement \ {s} : kind'[t] = kind[t]
    BY <2>1 DEF TypeOK
  <2>3. CASE k = "refused"
    <3>1. /\ Decided(s, "blocked") /\ pc' = "audit" /\ UNCHANGED queue
      BY <1>1, <2>3 DEF Receive
    <3>2. \A t : Touched(t)' <=> Touched(t)
      BY <2>1, <3>1, TouchedSame
    <3> QED
      BY <2>1, <2>2, <2>3, <3>1, <3>2 DEF Flow, Decided, TypeOK, Waiting
  <2>4. CASE k # "refused"
    <3>1. /\ outcome' = outcome
          /\ \/ pc' = "capture" /\ Send("READ", s)
             \/ pc' = "begin" /\ Send("BEGIN", s) /\ Limited(s)'
             \/ pc' = "exec" /\ Send("EXEC", s)
      BY <1>1, <2>4 DEF Receive
    <3>2. \A t : Touched(t)' => Touched(t) \/ (pc' = "exec" /\ t = s)
      BY <2>1, <3>1, TouchedBySend DEF Ops
    <3> QED
      BY <2>1, <2>2, <2>4, <3>1, <3>2 DEF Flow, TypeOK, Waiting
  <2> QED
    BY <2>3, <2>4
<1>2. ASSUME UNCHANGED <<kind, cur, outcome, ready>>, \A t \in Statement : Touched(t)' => Touched(t),
             pc' = pc
      PROVE Flow'
  BY <1>2, SameKinds DEF Flow, TypeOK
<1>3. CASE ServerStep \/ LinkBreaks
  <2>1. UNCHANGED proxyVars
    BY <1>3 DEF ServerStep, LinkBreaks, ServerBegins, ServerCommits, ServerRollsBack,
                ServerReads, ServerChanges, ServerRefuses, ServerTerminates, Run
  <2> QED
    BY <1>2, <1>3, <2>1, TouchedByServer DEF proxyVars
<1>4. CASE Crash
  BY <1>4, TouchedByCrash, SameKinds DEF Crash, Flow, TypeOK, Waiting
<1>5. CASE UNCHANGED vars
  BY <1>2, <1>5, TouchedSame DEF vars, proxyVars
<1> QED
  BY <1>1, <1>3, <1>4, <1>5, ProxyFlow DEF Next

-----------------------------------------------------------------------------
(* The audit. *)

LEMMA NextAudited == TypeOK /\ Flow /\ Audited /\ [Next]_vars => Audited'
<1> SUFFICES ASSUME TypeOK, Flow, Audited, [Next]_vars, FailClosed PROVE Audited'
  BY DEF Audited
<1>c. pc \notin {"idle", "dead"} => cur \in Statement /\ cur \notin ready
  BY DEF TypeOK, Flow
<1>1. ASSUME UNCHANGED <<logged, ready>>, pc' \notin {"cleanup", "audit", "answer"}
      PROVE Audited'
  BY <1>1 DEF Audited
<1>2. ASSUME UNCHANGED <<logged, ready>>, pc' \in {"cleanup", "audit"}, sink' = 1
      PROVE Audited'
  BY <1>2 DEF Audited
<1>3. ASSUME UNCHANGED <<logged, ready, pc, cur, sink>> PROVE Audited'
  BY <1>3 DEF Audited
<1>4. ASSUME NEW s \in Statement, NEW k \in Kinds, Receive(s, k) PROVE Audited'
  BY <1>1, <1>2, <1>4 DEF Receive, Decided
<1>5. CASE CaptureDone \/ StoreArtifact \/ ArtifactFails \/ BeginDone \/ Fail \/ SessionEnds \/ Crash
  BY <1>1, <1>5 DEF CaptureDone, StoreArtifact, ArtifactFails, SendOn, BeginDone, Fail,
                    SessionEnds, Crash
<1>6. CASE ExecDone
  BY <1>1, <1>2, <1>6 DEF ExecDone, Decided
<1>7. ASSUME NEW verdict, ExecFails(verdict) PROVE Audited'
  BY <1>2, <1>7 DEF ExecFails, Decided
<1>8. CASE LimitSettled
  <2>1. UNCHANGED <<logged, ready>> /\ pc' = "audit"
    BY <1>8 DEF LimitSettled
  <2>2. sink' = 1
    BY <1>8 DEF LimitSettled, Decided, Audited
  <2> QED
    BY <1>2, <2>1, <2>2
<1>9. CASE TimeOut
  <2>1. CASE ExecFails("timeout")
    BY <1>7, <2>1
  <2>2. CASE pc = "capture" /\ pc' = "artifact" /\ UNCHANGED <<logged, ready>>
    BY <1>1, <2>2
  <2>3. CASE pc = "cleanup" /\ pc' = "audit" /\ UNCHANGED <<logged, ready, sink>>
    BY <1>2, <2>3 DEF Audited
  <2> QED
    BY <1>9, <2>1, <2>2, <2>3 DEF TimeOut
<1>10. CASE WriteAudit
  <2>1. /\ pc = "audit" /\ cur' = cur /\ ready' = ready
        /\ logged' = [logged EXCEPT ![cur] = logged[cur] \cup {sink}]
        /\ \/ sink = NSinks /\ pc' = "answer"
           \/ sink # NSinks /\ pc' = "audit" /\ sink' = sink + 1
    BY <1>10 DEF WriteAudit, NextSink
  <2>2. /\ cur \in Statement /\ sink \in 1..NSinks /\ NSinks \in Nat
        /\ logged[cur] \subseteq 1..NSinks /\ 1..(sink - 1) \subseteq logged[cur]
    BY <2>1, <1>c DEF TypeOK, Audited
  <2>3. /\ logged'[cur] = logged[cur] \cup {sink}
        /\ \A s \in Statement \ {cur} : logged'[s] = logged[s]
    BY <2>1, <2>2 DEF TypeOK
  <2>4. 1..sink \subseteq logged'[cur]
    BY <2>2, <2>3
  <2>5. pc' = "answer" => logged'[cur] = 1..NSinks
    BY <2>1, <2>2, <2>3, <2>4
  <2>6. pc' = "audit" => sink' = sink + 1 /\ 1..(sink' - 1) = 1..sink
    BY <2>1, <2>2
  <2>7. \A s \in Statement : \A n \in logged'[s] : 1..n \subseteq logged'[s]
    BY <2>2, <2>3, <2>4 DEF Audited
  <2>8. \A s \in ready' : logged'[s] = 1..NSinks
    BY <2>1, <2>3, <1>c DEF Audited, TypeOK
  <2> QED
    BY <2>1, <2>4, <2>5, <2>6, <2>7, <2>8 DEF Audited
<1>11. CASE AuditFails
  BY <1>1, <1>11 DEF AuditFails
<1>12. CASE Answer
  <2>1. pc = "answer" /\ pc' = "idle" /\ ready' = ready \cup {cur} /\ logged' = logged
    BY <1>12 DEF Answer
  <2> QED
    BY <2>1 DEF Audited
<1>13. CASE ServerStep \/ LinkBreaks \/ UNCHANGED vars
  <2>1. UNCHANGED proxyVars
    BY <1>13 DEF ServerStep, LinkBreaks, ServerBegins, ServerCommits, ServerRollsBack,
                 ServerReads, ServerChanges, ServerRefuses, ServerTerminates, Run, vars
  <2> QED
    BY <1>3, <2>1 DEF proxyVars
<1> QED
  BY <1>4, <1>5, <1>6, <1>7, <1>8, <1>9, <1>10, <1>11, <1>12, <1>13
  DEF Next, ProxyStep, ExecError

-----------------------------------------------------------------------------
(* The artifact. *)

LEMMA NextPrepared == TypeOK /\ Flow /\ Prepared /\ [Next]_vars => Prepared'
<1> SUFFICES ASSUME TypeOK, Flow, Prepared, [Next]_vars, FailClosed PROVE Prepared'
  BY DEF Prepared
<1>c. pc \notin {"idle", "dead"} => cur \in Statement
  BY DEF TypeOK, Flow
<1>1. ASSUME kind' = kind, artifact \subseteq artifact',
             \A t \in Statement : Touched(t)' => Touched(t),
             \/ pc' \notin {"begin", "exec"}
             \/ pc' = pc /\ cur' = cur
      PROVE Prepared'
  BY <1>1, SameKinds DEF Prepared, TypeOK, Flow
<1>2. ASSUME NEW s \in Statement, NEW k \in Kinds, Receive(s, k) PROVE Prepared'
  <2>1. /\ kind[s] = "new" /\ cur' = s
        /\ kind' = [kind EXCEPT ![s] = k]
        /\ UNCHANGED <<artifact, serverVars>>
    BY <1>2 DEF Receive
  <2>2. \A t \in Statement \ {s} : Captured(t)' <=> Captured(t)
    BY <2>1 DEF Captured, TypeOK
  <2>3. ~Touched(s)
    BY <2>1 DEF Flow
  <2>4. CASE k = "refused"
    <3>1. pc' = "audit" /\ UNCHANGED queue
      BY <1>2, <2>4 DEF Receive
    <3>2. \A t : Touched(t)' <=> Touched(t)
      BY <2>1, <3>1, TouchedSame
    <3> QED
      BY <2>1, <2>2, <2>3, <3>1, <3>2 DEF Prepared
  <2>5. CASE k # "refused" /\ Captured(s)'
    <3>1. pc' = "capture" /\ Send("READ", s)
      BY <1>2, <2>5 DEF Receive
    <3>2. \A t : Touched(t)' => Touched(t)
      BY <2>1, <3>1, TouchedBySend DEF Ops
    <3> QED
      BY <2>1, <2>2, <2>3, <3>1, <3>2 DEF Prepared
  <2>6. CASE k # "refused" /\ ~Captured(s)'
    <3>1. Send("BEGIN", s) \/ Send("EXEC", s)
      BY <1>2, <2>6 DEF Receive
    <3>2. \A t : Touched(t)' => Touched(t) \/ t = s
      BY <2>1, <3>1, TouchedBySend DEF Ops
    <3> QED
      BY <2>1, <2>2, <2>6, <3>2 DEF Prepared
  <2> QED
    BY <2>4, <2>5, <2>6
<1>3. CASE ProxyStep \/ SessionEnds
  <2>1. /\ kind' = kind
        /\ \A t : Touched(t)' => Touched(t) \/ (pc' = "exec" /\ t = cur)
    BY <1>3, ProxyTouches
  <2>2. \A t : Captured(t)' <=> Captured(t)
    BY <2>1, SameKinds
  <2>3. CASE StoreArtifact
    BY <1>c, <2>1, <2>2, <2>3 DEF StoreArtifact, Prepared
  <2>4. CASE BeginDone
    BY <1>c, <2>1, <2>2, <2>4 DEF BeginDone, Prepared
  <2>5. CASE ~StoreArtifact /\ ~BeginDone
    <3>1. pc' \notin {"begin", "exec"} /\ artifact' = artifact
      BY <1>3, <2>5 DEF ProxyStep, SessionEnds, CaptureDone, ArtifactFails, ExecDone, ExecError,
         ExecFails, LimitSettled, TimeOut, WriteAudit, AuditFails, NextSink, Answer, Fail
    <3> QED
      BY <1>1, <2>1, <3>1
  <2> QED
    BY <2>3, <2>4, <2>5
<1>4. CASE ServerStep \/ LinkBreaks
  <2>1. UNCHANGED proxyVars
    BY <1>4 DEF ServerStep, LinkBreaks, ServerBegins, ServerCommits, ServerRollsBack,
                ServerReads, ServerChanges, ServerRefuses, ServerTerminates, Run
  <2> QED
    BY <1>1, <1>4, <2>1, TouchedByServer DEF proxyVars
<1>5. CASE Crash
  BY <1>1, <1>5, TouchedByCrash DEF Crash
<1>6. CASE UNCHANGED vars
  BY <1>1, <1>6, TouchedSame DEF vars, proxyVars
<1> QED
  BY <1>2, <1>3, <1>4, <1>5, <1>6 DEF Next

-----------------------------------------------------------------------------
(* The command the handler waits for. *)

\* Only an EXEC changes anything, and a row-limited one does.
LEMMA VerbFacts ==
  ASSUME NEW c \in Command
  PROVE /\ Verb(c) = "CHANGE" => c.op = "EXEC"
        /\ c.op # "EXEC" => Verb(c) = c.op
        /\ c.op = "EXEC" /\ Limited(c.of) => Verb(c) = "CHANGE"
<1>1. c.op \in Ops
  BY DEF Command
<1> QED
  BY <1>1 DEF Verb, Limited, Changes, Ops

LEMMA ServerFrame ==
  ASSUME ServerStep \/ LinkBreaks
  PROVE UNCHANGED proxyVars
BY DEF ServerStep, LinkBreaks, ServerBegins, ServerCommits, ServerRollsBack,
       ServerReads, ServerChanges, ServerRefuses, ServerTerminates, Run

LEMMA LaneBySend ==
  ASSUME TypeOK, Lane, NEW op \in Ops, NEW s \in Statement, Send(op, s),
         UNCHANGED <<serverVars, link>>, cur' = s, pc' \in Waiting, Awaited' = op
  PROVE Lane'
<1>n. Len(queue) \in Nat
  BY QueueFacts DEF TypeOK
<1>1. CASE link = "up"
  <2>1. /\ reply' = "none" /\ Len(queue') = Len(queue) + 1
        /\ queue'[Len(queue')] = [op |-> op, of |-> s]
    BY <1>1, SendEffect
  <2> QED
    BY <1>1, <1>n, <2>1 DEF Lane
<1>2. CASE link # "up"
  <2>1. link = "down" /\ reply' = "error" /\ queue' = queue
    BY <1>2, SendEffect DEF TypeOK
  <2> QED
    BY <2>1 DEF Lane, serverVars
<1> QED
  BY <1>1, <1>2

LEMMA NextLane == TypeOK /\ Flow /\ Lane /\ [Next]_vars => Lane'
<1> SUFFICES ASSUME TypeOK, Flow, Lane, [Next]_vars PROVE Lane'
  OBVIOUS
<1>c. pc \notin {"idle", "dead"} => cur \in Statement
  BY DEF TypeOK, Flow
<1>n. Len(queue) \in Nat
  BY QueueFacts DEF TypeOK
<1>1. ASSUME UNCHANGED <<queue, reply, serverVars, link>>,
             pc' \notin Waiting \/ (pc' = pc /\ cur' = cur)
      PROVE Lane'
  BY <1>1 DEF Lane, serverVars, Awaited
<1>2. ASSUME NEW s \in Statement, cur' = s, UNCHANGED <<serverVars, link>>,
             \/ Send("READ", s) /\ pc' = "capture"
             \/ Send("BEGIN", s) /\ pc' = "begin"
             \/ Send("EXEC", s) /\ pc' = "exec"
             \/ Send("ROLLBACK", s) /\ pc' \in {"undo", "cleanup"}
             \/ Send("COMMIT", s) /\ pc' = "commit"
      PROVE Lane'
  BY <1>2, LaneBySend DEF Ops, Waiting, Awaited
<1>3. ASSUME NEW s \in Statement, NEW k \in Kinds, Receive(s, k) PROVE Lane'
  BY <1>1, <1>2, <1>3 DEF Receive, Waiting
<1>4. CASE ProxyStep \/ SessionEnds
  <2>1. CASE StoreArtifact
    BY <1>2, <1>c, <2>1 DEF StoreArtifact, SendOn
  <2>2. CASE ArtifactFails
    BY <1>1, <1>2, <1>c, <2>2 DEF ArtifactFails, SendOn, Waiting
  <2>3. CASE BeginDone
    BY <1>2, <1>c, <2>3 DEF BeginDone
  <2>4. CASE ExecDone
    BY <1>1, <1>2, <1>c, <2>4 DEF ExecDone, Waiting
  <2>5. ASSUME NEW verdict, ExecFails(verdict) PROVE Lane'
    BY <1>1, <1>2, <1>c, <2>5 DEF ExecFails, Waiting
  <2>6. CASE TimeOut
    <3>1. CASE ExecFails("timeout")
      BY <2>5, <3>1
    <3>2. CASE ~ExecFails("timeout")
      BY <1>1, <2>6, <3>2 DEF TimeOut, Waiting
    <3> QED
      BY <3>1, <3>2
  <2>7. CASE \/ CaptureDone \/ LimitSettled \/ WriteAudit \/ AuditFails \/ Answer
             \/ Fail \/ SessionEnds
    BY <1>1, <2>7 DEF CaptureDone, LimitSettled, WriteAudit, AuditFails, NextSink, Answer,
                      Fail, SessionEnds, Waiting
  <2> QED
    BY <1>4, <2>1, <2>2, <2>3, <2>4, <2>5, <2>6, <2>7 DEF ProxyStep, ExecError
<1>5. ASSUME NEW verb, NEW answer \in {"ok", "error"}, Run(verb, answer),
             UNCHANGED proxyVars
      PROVE Lane'
  <2>1. /\ Len(queue) > 0 /\ Len(queue') = Len(queue) - 1
        /\ \A i \in 1..Len(queue') : queue'[i] = queue[i + 1]
        /\ reply' = IF Len(queue) = 1 THEN answer ELSE reply
        /\ link' = link
    BY <1>5, RunEffect DEF Run
  <2>2. link # "down" /\ reply = "none"
    BY <1>n, <2>1 DEF Lane
  <2>3. CASE Len(queue) = 1
    BY <1>n, <1>5, <2>1, <2>2, <2>3 DEF Lane
  <2>4. CASE Len(queue) # 1
    <3>1. Len(queue') > 0 /\ queue'[Len(queue')] = queue[Len(queue)]
      BY <1>n, <2>1, <2>4
    <3> QED
      BY <1>5, <2>1, <2>2, <2>4, <3>1 DEF Lane, Awaited, proxyVars
  <2> QED
    BY <2>3, <2>4
<1>6. CASE ServerStep
  <2>1. CASE ServerTerminates
    BY <2>1 DEF ServerTerminates, Lane, proxyVars, Waiting
  <2>2. CASE ~ServerTerminates
    BY <1>5, <1>6, <2>2, ServerFrame DEF ServerStep, ServerBegins, ServerCommits,
       ServerRollsBack, ServerReads, ServerChanges, ServerRefuses
  <2> QED
    BY <2>1, <2>2
<1>7. CASE LinkBreaks
  <2>1. queue' = << >> /\ Len(queue') = 0
    BY <1>7 DEF LinkBreaks
  <2> QED
    BY <1>7, <2>1 DEF LinkBreaks, Lane
<1>8. CASE Crash
  <2>1. /\ pc' = "dead" /\ UNCHANGED <<reply, serverVars, link>>
        /\ Len(queue) = 0 => Len(queue') = 0
    BY <1>8, <1>n, CrashEffect DEF Crash
  <2> QED
    BY <2>1 DEF Lane, Waiting, serverVars
<1>9. CASE UNCHANGED vars
  BY <1>1, <1>9 DEF vars, proxyVars
<1> QED
  BY <1>3, <1>4, <1>6, <1>7, <1>8, <1>9 DEF Next

-----------------------------------------------------------------------------
(* Row-limited mutations in the queue. *)

Safe == TypeOK /\ Flow /\ Lane /\ LimitedInQueue

LEMMA LimitedAtMoves ==
  ASSUME NEW i, NEW j, queue'[i] = queue[j],
         queue[j].op = "EXEC" => kind'[queue[j].of] = kind[queue[j].of]
  PROVE LimitedAt(i)' <=> LimitedAt(j)
BY DEF LimitedAt, Limited

\* A row-limited EXEC that nothing follows is the one the handler waits for.
LEMMA LimitedQueueBySend ==
  ASSUME Safe, NEW op \in Ops, NEW s \in Statement, Send(op, s),
         \A i \in 1..Len(queue) :
           queue[i].op = "EXEC" => kind'[queue[i].of] = kind[queue[i].of],
         UNCHANGED serverVars,
         pc \in {"exec"} /\ Len(queue) > 0 /\ Limited(cur) => op = "ROLLBACK",
         pc # "dead",
         op = "EXEC" /\ Limited(s)' =>
           /\ Len(queue) = 0 /\ tx = "open" /\ s \notin durable \cup pending
           /\ pc' = "exec" /\ cur' = s
  PROVE LimitedInQueue'
<1>t. TypeOK /\ Flow /\ Lane /\ LimitedInQueue
  BY DEF Safe
<1>n. Len(queue) \in Nat /\ \A i \in 1..Len(queue) : queue[i].of \in Statement
  BY <1>t, QueueFacts DEF TypeOK
<1>r. reply' # "ok"
  BY <1>t, SendEffect
<1>1. CASE link = "up"
  <2>1. /\ Len(queue') = Len(queue) + 1
        /\ queue'[Len(queue) + 1] = [op |-> op, of |-> s]
        /\ \A i \in 1..Len(queue) : queue'[i] = queue[i]
    BY <1>1, <1>t, SendEffect
  <2> SUFFICES ASSUME NEW i \in 1..Len(queue'), LimitedAt(i)'
               PROVE /\ i = 1
                     /\ tx' = "open"
                     /\ queue'[1].of \notin durable' \cup pending'
                     /\ \/ Len(queue') > 1 /\ queue'[2].op = "ROLLBACK"
                        \/ /\ Len(queue') = 1
                           /\ pc' = "dead" \/ (pc' = "exec" /\ cur' = queue'[1].of)
    BY <1>r DEF LimitedInQueue
  <2>2. CASE i \in 1..Len(queue)
    <3>1. queue'[i] = queue[i]
      BY <2>1, <2>2
    <3>2. LimitedAt(i)
      BY <2>2, <3>1, LimitedAtMoves
    <3>3. /\ i = 1 /\ tx = "open" /\ queue[1].of \notin durable \cup pending
          /\ \/ Len(queue) > 1 /\ queue[2].op = "ROLLBACK"
             \/ Len(queue) = 1 /\ pc = "exec" /\ cur = queue[1].of
      BY <1>t, <2>2, <3>2 DEF LimitedInQueue
    <3>4. Len(queue) = 1 => op = "ROLLBACK"
      BY <3>2, <3>3 DEF LimitedAt
    <3>5. Len(queue) = 1 => queue'[2].op = "ROLLBACK"
      BY <2>1, <3>4
    <3>6. Len(queue) > 1 => queue'[2] = queue[2]
      BY <1>n, <2>1
    <3> QED
      BY <1>n, <2>1, <3>1, <3>3, <3>5, <3>6 DEF serverVars
  <2>3. CASE i \notin 1..Len(queue)
    <3>1. i = Len(queue) + 1 /\ queue'[i] = [op |-> op, of |-> s]
      BY <1>n, <2>1, <2>3
    <3>2. op = "EXEC" /\ Limited(s)'
      BY <3>1 DEF Limited, LimitedAt
    <3> QED
      BY <1>n, <2>1, <3>1, <3>2 DEF serverVars
  <2> QED
    BY <2>2, <2>3
<1>2. CASE link # "up"
  <2>1. queue' = queue /\ Len(queue) = 0
    BY <1>2, <1>t, SendEffect DEF TypeOK, Lane
  <2> QED
    BY <1>r, <2>1 DEF LimitedInQueue
<1> QED
  BY <1>1, <1>2

LEMMA NextLimitedInQueue == Safe /\ [Next]_vars => LimitedInQueue'
<1> SUFFICES ASSUME Safe, [Next]_vars PROVE LimitedInQueue'
  OBVIOUS
<1>t. TypeOK /\ Flow /\ Lane /\ LimitedInQueue
  BY DEF Safe
<1>c. pc \notin {"idle", "dead"} => cur \in Statement
  BY <1>t DEF TypeOK, Flow
<1>n. Len(queue) \in Nat /\ \A i \in 1..Len(queue) : queue[i].of \in Statement
  BY <1>t, QueueFacts DEF TypeOK
<1>1. ASSUME UNCHANGED <<queue, kind, serverVars>>, pc' # "begin" \/ UNCHANGED <<pc, reply>>,
             pc' = "dead" \/ UNCHANGED <<pc, cur>> \/ pc # "exec" \/ Len(queue) = 0
             \/ ~Limited(cur),
             pc = "dead" => pc' = "dead"
      PROVE LimitedInQueue'
  <2>1. \A t : Limited(t)' <=> Limited(t)
    BY <1>1, SameKinds
  <2>2. tx' = tx /\ durable' = durable /\ pending' = pending
    BY <1>1 DEF serverVars
  <2>3. pc' = "begin" /\ reply' = "ok" => tx' = "open"
    BY <1>1, <1>t, <2>2 DEF LimitedInQueue
  <2>4. ASSUME NEW i \in 1..Len(queue), LimitedAt(i)
        PROVE /\ i = 1 /\ tx = "open" /\ queue[1].of \notin durable \cup pending
              /\ \/ Len(queue) > 1 /\ queue[2].op = "ROLLBACK"
                 \/ Len(queue) = 1 /\ (pc' = "dead" \/ (pc' = "exec" /\ cur' = queue[1].of))
    BY <1>1, <1>n, <1>t, <2>4 DEF LimitedInQueue, LimitedAt
  <2>5. \A i : LimitedAt(i)' <=> LimitedAt(i)
    BY <1>1 DEF LimitedAt, Limited
  <2> QED
    BY <1>1, <2>2, <2>3, <2>4, <2>5 DEF LimitedInQueue
<1>2. ASSUME NEW s \in Statement, NEW k \in Kinds, Receive(s, k) PROVE LimitedInQueue'
  <2>1. /\ pc = "idle" /\ kind[s] = "new" /\ cur' = s
        /\ kind' = [kind EXCEPT ![s] = k]
        /\ UNCHANGED serverVars
    BY <1>2 DEF Receive
  <2>2. ASSUME NEW i \in 1..Len(queue), queue[i].op = "EXEC"
        PROVE kind'[queue[i].of] = kind[queue[i].of]
    <3>1. Queued(queue[i].of) /\ ~Queued(s)
      BY <1>t, <2>1, <2>2 DEF Queued, Touched, Flow
    <3> QED
      BY <1>n, <1>t, <2>1, <3>1 DEF TypeOK
  <2>3. CASE k = "refused"
    <3>1. pc' = "audit" /\ queue' = queue
      BY <1>2, <2>3 DEF Receive
    <3>2. \A i \in 1..Len(queue) : LimitedAt(i)' <=> LimitedAt(i)
      BY <2>2, <3>1, LimitedAtMoves
    <3> QED
      BY <1>t, <2>1, <3>1, <3>2 DEF LimitedInQueue, serverVars
  <2>4. CASE k # "refused"
    <3>1. \/ Send("READ", s) \/ Send("BEGIN", s)
          \/ Send("EXEC", s) /\ ~Limited(s)'
      BY <1>2, <2>4 DEF Receive
    <3> QED
      BY <2>1, <2>2, <3>1, LimitedQueueBySend DEF Ops
  <2> QED
    BY <2>3, <2>4
<1>3. CASE ProxyStep \/ SessionEnds
  <2>1. /\ kind' = kind
        /\ \A t : Limited(t)' <=> Limited(t)
    BY <1>3, <1>t, ProxyTouches, SameKinds
  <2>2. CASE StoreArtifact \/ (ArtifactFails /\ ~FailClosed)
    <3>1. /\ pc = "artifact" /\ SendOn(cur) /\ UNCHANGED serverVars /\ cur \in Statement
      BY <1>c, <2>2 DEF StoreArtifact, ArtifactFails
    <3>2. Send("BEGIN", cur) \/ (Send("EXEC", cur) /\ ~Limited(cur))
      BY <3>1 DEF SendOn
    <3> QED
      BY <2>1, <3>1, <3>2, LimitedQueueBySend DEF Ops
  <2>3. CASE BeginDone
    <3>1. /\ pc = "begin" /\ reply = "ok" /\ cur \in Statement /\ cur' = cur
          /\ Send("EXEC", cur) /\ pc' = "exec" /\ UNCHANGED serverVars
      BY <1>c, <2>3 DEF BeginDone
    <3>2. /\ Len(queue) = 0 /\ tx = "open" /\ cur \notin durable \cup pending
      BY <1>t, <3>1 DEF Lane, LimitedInQueue, Flow, Touched
    <3> QED
      BY <2>1, <3>1, <3>2, LimitedQueueBySend DEF Ops
  <2>4. CASE ExecDone /\ Limited(cur)
    <3>1. /\ pc = "exec" /\ reply = "ok" /\ cur \in Statement /\ UNCHANGED serverVars
          /\ Send("ROLLBACK", cur) \/ Send("COMMIT", cur)
      BY <1>c, <2>4 DEF ExecDone
    <3>2. Len(queue) = 0
      BY <1>t, <3>1 DEF Lane
    <3> QED
      BY <2>1, <3>1, <3>2, LimitedQueueBySend DEF Ops
  <2>5. ASSUME NEW verdict, ExecFails(verdict) PROVE LimitedInQueue'
    <3>1. /\ pc = "exec" /\ cur \in Statement /\ UNCHANGED serverVars
          /\ IF Limited(cur) THEN Send("ROLLBACK", cur)
                             ELSE pc' = "audit" /\ UNCHANGED <<queue, reply>>
      BY <1>c, <2>5 DEF ExecFails
    <3>2. CASE Limited(cur)
      BY <2>1, <3>1, <3>2, LimitedQueueBySend DEF Ops
    <3>3. CASE ~Limited(cur)
      BY <1>1, <2>1, <3>1, <3>3
    <3> QED
      BY <3>2, <3>3
  <2>6. CASE TimeOut
    <3>1. CASE ExecFails("timeout")
      BY <2>5, <3>1
    <3>2. CASE ~ExecFails("timeout")
      BY <1>1, <2>6, <3>2 DEF TimeOut
    <3> QED
      BY <3>1, <3>2
  <2>7. CASE ExecDone /\ ~Limited(cur)
    BY <1>1, <2>1, <2>7 DEF ExecDone
  <2>8. CASE \/ CaptureDone \/ LimitSettled \/ WriteAudit \/ AuditFails \/ Answer
             \/ Fail \/ SessionEnds \/ (ArtifactFails /\ FailClosed)
    BY <1>1, <2>1, <2>8 DEF CaptureDone, LimitSettled, WriteAudit, AuditFails, NextSink, Answer,
                      Fail, SessionEnds, ArtifactFails
  <2> QED
    BY <1>3, <2>2, <2>3, <2>4, <2>5, <2>6, <2>7, <2>8 DEF ProxyStep, ExecError
<1>4. ASSUME NEW verb, NEW answer, Run(verb, answer), UNCHANGED proxyVars,
             answer = "ok" /\ verb = "BEGIN" => tx' = "open"
      PROVE LimitedInQueue'
  <2>1. /\ Len(queue) > 0 /\ queue[1] \in Command /\ Verb(queue[1]) = verb
        /\ Len(queue') = Len(queue) - 1
        /\ \A i \in 1..Len(queue') : queue'[i] = queue[i + 1]
        /\ reply' = IF Len(queue) = 1 THEN answer ELSE reply
    BY <1>4, <1>t, RunEffect
  <2>2. pc' = "begin" /\ reply' = "ok" => tx' = "open"
    <3>1. SUFFICES ASSUME pc = "begin", reply' = "ok" PROVE tx' = "open"
      BY <1>4 DEF proxyVars
    <3>2. reply = "none"
      BY <1>n, <1>t, <2>1 DEF Lane
    <3>3. Len(queue) = 1 /\ answer = "ok"
      BY <2>1, <3>1, <3>2
    <3>4. queue[1] = [op |-> "BEGIN", of |-> cur]
      BY <1>t, <3>1, <3>2, <3>3 DEF Lane, Waiting, Awaited
    <3>5. verb = "BEGIN"
      BY <2>1, <3>4, VerbFacts
    <3> QED
      BY <1>4, <3>3, <3>5
  <2>3. ASSUME NEW i \in 1..Len(queue'), LimitedAt(i)' PROVE FALSE
    <3>1. i + 1 \in 1..Len(queue) /\ i + 1 # 1 /\ queue'[i] = queue[i + 1]
      BY <1>n, <2>1
    <3>2. LimitedAt(i + 1)
      BY <1>4, <2>3, <3>1, LimitedAtMoves DEF proxyVars
    <3> QED
      BY <1>t, <3>1, <3>2 DEF LimitedInQueue
  <2> QED
    BY <2>2, <2>3 DEF LimitedInQueue
<1>5. CASE ServerStep
  <2>1. CASE ServerTerminates
    <3>1. queue' = queue /\ Len(queue) = 0 /\ pc' # "begin"
      BY <2>1 DEF ServerTerminates, proxyVars
    <3> QED
      BY <3>1 DEF LimitedInQueue
  <2>2. CASE ServerBegins
    BY <1>4, <1>5, <2>2, ServerFrame DEF ServerBegins
  <2>3. CASE ServerCommits \/ ServerRollsBack \/ ServerReads \/ ServerChanges
    BY <1>4, <1>5, <2>3, ServerFrame DEF ServerCommits, ServerRollsBack, ServerReads,
                                         ServerChanges
  <2>4. CASE ServerRefuses
    BY <1>4, <1>5, <2>4, ServerFrame DEF ServerRefuses
  <2> QED
    BY <1>5, <2>1, <2>2, <2>3, <2>4 DEF ServerStep
<1>6. CASE LinkBreaks
  <2>1. queue' = << >> /\ Len(queue') = 0 /\ reply' # "ok"
    BY <1>6 DEF LinkBreaks
  <2> QED
    BY <2>1 DEF LimitedInQueue
<1>7. CASE Crash
  <2>1. PICK n \in 0..Len(queue) : queue' = SubSeq(queue, 1, n)
    BY <1>7 DEF Crash
  <2>2. /\ Len(queue') = n /\ \A i \in 1..n : queue'[i] = queue[i]
        /\ pc' = "dead" /\ UNCHANGED <<kind, tx, pending, durable>>
    BY <1>7, <1>t, <2>1, CrashEffect DEF Crash, serverVars
  <2>3. ASSUME NEW i \in 1..n, LimitedAt(i)'
        PROVE /\ i = 1 /\ tx = "open" /\ queue[1].of \notin durable \cup pending
              /\ Len(queue) = 1 \/ queue[2].op = "ROLLBACK"
    <3>1. i \in 1..Len(queue) /\ LimitedAt(i)
      BY <1>n, <2>2, <2>3, LimitedAtMoves
    <3> QED
      BY <1>t, <3>1 DEF LimitedInQueue
  <2> QED
    BY <1>n, <2>1, <2>2, <2>3 DEF LimitedInQueue
<1>8. CASE UNCHANGED vars
  BY <1>1, <1>8 DEF vars, proxyVars
<1> QED
  BY <1>2, <1>3, <1>5, <1>6, <1>7, <1>8 DEF Next

-----------------------------------------------------------------------------
(* Row-limited mutations that have run and are not committed. *)

Strong == Safe /\ LimitedPending

LEMMA PendingBySend ==
  ASSUME Strong, NEW op \in Ops, NEW s \in Statement, Send(op, s),
         UNCHANGED serverVars, kind' = kind \/ kind[s] = "new",
         \A t \in Statement \ {s} : kind'[t] = kind[t], pc # "dead",
         \/ pc \notin {"exec", "commit"}
         \/ /\ pc = "exec" /\ op = "ROLLBACK"
         \/ /\ pc = "exec" /\ op = "COMMIT" /\ reply = "ok" /\ rows[cur] <= Limit
            /\ pc' = "commit" /\ UNCHANGED <<cur, outcome>>
  PROVE \A t \in pending' : Limited(t)' => Undone' \/ HasRun(t)' \/ Committing(t)'
<1>t. TypeOK /\ Flow /\ Lane /\ LimitedInQueue /\ LimitedPending
  BY DEF Strong, Safe
<1>n. Len(queue) \in Nat
  BY <1>t, QueueFacts DEF TypeOK
<1> SUFFICES ASSUME NEW t \in pending', Limited(t)' PROVE Undone' \/ Committing(t)'
  OBVIOUS
<1>1. t \in pending /\ t \in Statement
  BY <1>t DEF TypeOK, serverVars
<1>2. kind'[t] = kind[t]
  BY <1>t, <1>1 DEF Flow, Touched
<1>3. Limited(t)
  BY <1>2 DEF Limited
<1>4. link = "up"
  BY <1>t, <1>1 DEF Lane, TypeOK
<1>5. /\ Len(queue') = Len(queue) + 1
      /\ queue'[Len(queue) + 1] = [op |-> op, of |-> s]
      /\ \A i \in 1..Len(queue) : queue'[i] = queue[i]
  BY <1>t, <1>4, SendEffect
<1>6. Undone \/ HasRun(t) \/ Committing(t)
  BY <1>t, <1>1, <1>3 DEF LimitedPending
<1>7. CASE Undone
  BY <1>5, <1>7, <1>n DEF Undone
<1>8. CASE HasRun(t)
  <2>1. Len(queue) = 0 /\ pc = "exec" /\ cur = t
    BY <1>8 DEF HasRun
  <2>2. Len(queue') = 1 /\ queue'[1].op = op
    BY <1>5, <2>1
  <2>3. CASE op = "ROLLBACK"
    BY <2>2, <2>3 DEF Undone
  <2>4. CASE op # "ROLLBACK"
    <3>1. outcome[cur] = "none"
      BY <1>t, <1>1, <2>1 DEF Flow
    <3> QED
      BY <2>1, <2>2, <2>4, <3>1 DEF Committing, serverVars
  <2> QED
    BY <2>3, <2>4
<1>9. CASE Committing(t)
  BY <1>9 DEF Committing
<1> QED
  BY <1>6, <1>7, <1>8, <1>9

LEMMA ProxyPending == Strong /\ (ProxyStep \/ SessionEnds) => LimitedPending'
<1> SUFFICES ASSUME Strong, ProxyStep \/ SessionEnds PROVE LimitedPending'
  OBVIOUS
<1>t. TypeOK /\ Flow /\ Lane /\ LimitedInQueue /\ LimitedPending
  BY DEF Strong, Safe
<1>c. pc \notin {"idle", "dead"} => cur \in Statement
  BY <1>t DEF TypeOK, Flow
<1>k. kind' = kind /\ \A s : Limited(s)' <=> Limited(s)
  BY <1>t, ProxyTouches, SameKinds
<1>1. ASSUME UNCHANGED <<queue, reply, serverVars>>,
             pc' \notin {"exec", "commit", "undo"},
             \/ pc' = "dead" /\ outcome' = outcome
             \/ pc \notin {"exec", "commit", "dead"}
             \/ pc \in {"exec", "commit"} /\ ~Limited(cur)
             \/ pc = "commit" /\ reply = "ok"
      PROVE LimitedPending'
  <2>1. ASSUME NEW s \in pending', Limited(s)'
        PROVE Undone' \/ HasRun(s)' \/ Committing(s)'
    <3>1. s \in pending /\ Limited(s)
      BY <1>1, <1>k, <2>1 DEF serverVars
    <3>2. Undone \/ HasRun(s) \/ Committing(s)
      BY <1>t, <3>1 DEF LimitedPending
    <3>3. pc = "commit" /\ reply = "ok" => Len(queue) = 0
      BY <1>t DEF Lane
    <3> QED
      BY <1>1, <3>1, <3>2, <3>3 DEF Undone, HasRun, Committing, serverVars
  <2> QED
    BY <1>1, <2>1 DEF LimitedPending
<1>2. CASE StoreArtifact \/ (ArtifactFails /\ ~FailClosed)
  <2>1. /\ pc = "artifact" /\ SendOn(cur) /\ UNCHANGED <<cur, serverVars>> /\ cur \in Statement
    BY <1>c, <1>2 DEF StoreArtifact, ArtifactFails
  <2>2. \/ Send("BEGIN", cur) /\ pc' = "begin"
        \/ Send("EXEC", cur) /\ pc' = "exec" /\ ~Limited(cur)
    BY <2>1 DEF SendOn
  <2>3. \A s \in pending' : Limited(s)' => Undone' \/ HasRun(s)' \/ Committing(s)'
    BY <1>k, <2>1, <2>2, PendingBySend DEF Ops
  <2> QED
    BY <1>k, <2>1, <2>2, <2>3 DEF LimitedPending
<1>3. CASE BeginDone
  <2>1. /\ pc = "begin" /\ cur \in Statement /\ Send("EXEC", cur) /\ pc' = "exec"
        /\ UNCHANGED <<cur, serverVars>>
    BY <1>c, <1>3 DEF BeginDone
  <2>2. \A s \in pending' : Limited(s)' => Undone' \/ HasRun(s)' \/ Committing(s)'
    BY <1>k, <2>1, PendingBySend DEF Ops
  <2>3. reply' # "ok" /\ cur \notin durable
    BY <1>t, <2>1, SendEffect DEF Flow, Touched, Ops, TypeOK
  <2> QED
    BY <2>1, <2>2, <2>3 DEF LimitedPending, serverVars
<1>4. CASE ExecDone /\ Limited(cur)
  <2>1. /\ pc = "exec" /\ reply = "ok" /\ cur \in Statement
        /\ UNCHANGED <<cur, outcome, serverVars>>
        /\ \/ Send("ROLLBACK", cur) /\ pc' = "undo"
           \/ Send("COMMIT", cur) /\ pc' = "commit" /\ rows[cur] <= Limit
    BY <1>c, <1>4 DEF ExecDone
  <2>2. \A s \in pending' : Limited(s)' => Undone' \/ HasRun(s)' \/ Committing(s)'
    BY <1>k, <2>1, PendingBySend DEF Ops
  <2>3. cur \in pending /\ cur \notin durable /\ Len(queue) = 0
    BY <1>4, <1>t, <2>1 DEF LimitedPending, Lane
  <2>4. link = "up"
    BY <1>t, <2>3 DEF Lane, TypeOK
  <2>5. reply' = "none" /\ Len(queue') = 1
    <3>1. ASSUME NEW op \in Ops, Send(op, cur)
          PROVE reply' = "none" /\ Len(queue') = Len(queue) + 1
      BY <1>t, <2>1, <2>4, <3>1, SendEffect
    <3>2. reply' = "none" /\ Len(queue') = Len(queue) + 1
      BY <2>1, <3>1 DEF Ops
    <3> QED
      BY <2>3, <3>2
  <2> QED
    BY <2>1, <2>2, <2>3, <2>5 DEF LimitedPending, serverVars
<1>5. ASSUME NEW verdict, ExecFails(verdict), reply # "ok" PROVE LimitedPending'
  <2>1. /\ pc = "exec" /\ cur \in Statement /\ UNCHANGED <<cur, serverVars>>
        /\ IF Limited(cur) THEN Send("ROLLBACK", cur) /\ pc' = "cleanup"
                           ELSE pc' = "audit" /\ UNCHANGED <<queue, reply>>
    BY <1>c, <1>5 DEF ExecFails
  <2>2. CASE Limited(cur)
    <3>1. \A s \in pending' : Limited(s)' => Undone' \/ HasRun(s)' \/ Committing(s)'
      BY <1>k, <2>1, <2>2, PendingBySend DEF Ops
    <3> QED
      BY <2>1, <2>2, <3>1 DEF LimitedPending
  <2>3. CASE ~Limited(cur)
    BY <1>1, <2>1, <2>3
  <2> QED
    BY <2>2, <2>3
<1>6. CASE TimeOut
  <2>1. CASE ExecFails("timeout")
    BY <1>5, <1>6, <2>1 DEF TimeOut
  <2>2. CASE ~ExecFails("timeout")
    BY <1>1, <1>6, <2>2 DEF TimeOut
  <2> QED
    BY <2>1, <2>2
<1>7. CASE ExecDone /\ ~Limited(cur)
  BY <1>1, <1>7 DEF ExecDone
<1>8. CASE LimitSettled
  BY <1>1, <1>8 DEF LimitSettled
<1>9. CASE CaptureDone \/ WriteAudit \/ AuditFails \/ Answer \/ (ArtifactFails /\ FailClosed)
  BY <1>1, <1>9 DEF CaptureDone, WriteAudit, AuditFails, NextSink, Answer, ArtifactFails
<1>10. CASE Fail \/ SessionEnds
  BY <1>1, <1>10 DEF Fail, SessionEnds
<1> QED
  BY <1>2, <1>3, <1>4, <1>5, <1>6, <1>7, <1>8, <1>9, <1>10 DEF ProxyStep, ExecError

\* What runs next when a row-limited mutation is pending or waits to run.
LEMMA HeadFacts ==
  ASSUME Strong, NEW verb, NEW answer, Run(verb, answer)
  PROVE /\ verb \in {"BEGIN", "READ", "CHANGE"} => \A s \in pending : ~Limited(s)
        /\ verb = "COMMIT" =>
             \A s \in pending : Limited(s) =>
               rows[s] <= Limit /\ outcome[s] = "none" /\ pc \notin {"exec", "undo"}
        /\ verb = "CHANGE" =>
             /\ queue[1].op = "EXEC" /\ queue[1].of \in Statement
             /\ Limited(queue[1].of) =>
                  /\ tx = "open" /\ queue[1].of \notin durable
                  /\ \/ Len(queue) > 1 /\ queue[2].op = "ROLLBACK"
                     \/ Len(queue) = 1 /\ (pc = "dead" \/ (pc = "exec" /\ cur = queue[1].of))
        /\ pc \in Waiting /\ Len(queue) = 1 =>
             /\ reply = "none"
             /\ pc = "exec" /\ Limited(cur) => verb = "CHANGE" /\ queue[1].of = cur
             /\ pc = "commit" => verb = "COMMIT" /\ cur \in pending
<1>t. TypeOK /\ Flow /\ Lane /\ LimitedInQueue /\ LimitedPending
  BY DEF Strong, Safe
<1>1. /\ Len(queue) > 0 /\ queue[1] \in Command /\ Verb(queue[1]) = verb
      /\ Len(queue) \in Nat
  BY <1>t, RunEffect, QueueFacts DEF TypeOK
<1>2. /\ queue[1].op = "ROLLBACK" => verb = "ROLLBACK"
      /\ queue[1].op = "COMMIT" => verb = "COMMIT"
      /\ verb = "CHANGE" => queue[1].op = "EXEC"
      /\ LimitedAt(1) => verb = "CHANGE"
      /\ queue[1].of \in Statement
  BY <1>1, VerbFacts DEF LimitedAt, Command
<1>3. ASSUME NEW s \in pending, Limited(s)
      PROVE \/ verb = "ROLLBACK"
            \/ /\ verb = "COMMIT" /\ rows[s] <= Limit /\ outcome[s] = "none"
               /\ pc \notin {"exec", "undo"}
  <2>1. Undone \/ Committing(s)
    BY <1>1, <1>3, <1>t DEF LimitedPending, HasRun
  <2> QED
    BY <1>2, <2>1 DEF Undone, Committing
<1>4. LimitedAt(1) =>
        /\ tx = "open" /\ queue[1].of \notin durable
        /\ \/ Len(queue) > 1 /\ queue[2].op = "ROLLBACK"
           \/ Len(queue) = 1 /\ (pc = "dead" \/ (pc = "exec" /\ cur = queue[1].of))
  BY <1>1, <1>t DEF LimitedInQueue
<1>5. ASSUME pc \in Waiting, Len(queue) = 1
      PROVE /\ reply = "none"
            /\ pc = "exec" /\ Limited(cur) => verb = "CHANGE" /\ queue[1].of = cur
            /\ pc = "commit" => verb = "COMMIT" /\ cur \in pending
  <2>1. reply = "none"
    BY <1>1, <1>5, <1>t DEF Lane
  <2>2. queue[1] = [op |-> Awaited, of |-> cur]
    BY <1>5, <1>t, <2>1 DEF Lane
  <2> QED
    BY <1>2, <1>t, <2>1, <2>2 DEF Awaited, LimitedAt, LimitedPending
<1> QED
  BY <1>2, <1>3, <1>4, <1>5 DEF LimitedAt
LEMMA RunPending ==
  ASSUME Strong, NEW verb, NEW answer \in {"ok", "error"}, Run(verb, answer),
         UNCHANGED proxyVars,
         \A s \in pending' : Limited(s) => Undone' \/ HasRun(s)',
         answer = "ok" /\ verb = "CHANGE" /\ Limited(queue[1].of) => queue[1].of \in pending',
         answer = "ok" /\ verb = "COMMIT" => pending \subseteq durable',
         pc \in {"exec", "undo"} /\ Limited(cur) => cur \notin durable'
  PROVE LimitedPending'
<1>t. TypeOK /\ Flow /\ Lane /\ LimitedInQueue /\ LimitedPending
  BY DEF Strong, Safe
<1>k. /\ UNCHANGED <<pc, cur>>
      /\ \A s : Limited(s)' <=> Limited(s)
  BY SameKinds DEF proxyVars
<1>1. /\ Len(queue) > 0 /\ Len(queue) \in Nat
      /\ reply' = IF Len(queue) = 1 THEN answer ELSE reply
  BY <1>t, RunEffect, QueueFacts DEF TypeOK
<1>2. reply = "none"
  BY <1>t, <1>1 DEF Lane
<1>3. reply' = "ok" => Len(queue) = 1 /\ answer = "ok"
  BY <1>1, <1>2
<1>4. pc = "exec" /\ Limited(cur) /\ reply' = "ok" => cur \in pending'
  BY <1>3, HeadFacts DEF Waiting
<1>5. ~(pc = "commit" /\ reply' = "none")
  BY <1>1, <1>2, <1>t DEF LimitedPending
<1>6. pc = "commit" /\ reply' = "ok" => cur \in durable'
  BY <1>3, HeadFacts DEF Waiting
<1> QED
  BY <1>k, <1>4, <1>5, <1>6 DEF LimitedPending

LEMMA ServerPending == Strong /\ (ServerStep \/ LinkBreaks) => LimitedPending'
<1> SUFFICES ASSUME Strong, ServerStep \/ LinkBreaks PROVE LimitedPending'
  OBVIOUS
<1>t. TypeOK /\ Flow /\ Lane /\ LimitedInQueue /\ LimitedPending
  BY DEF Strong, Safe
<1>f. UNCHANGED proxyVars
  BY ServerFrame
<1>n. Len(queue) \in Nat
  BY <1>t, QueueFacts DEF TypeOK
<1>d. pc \in {"exec", "undo"} /\ Limited(cur) => cur \notin durable
  BY <1>t DEF LimitedPending
<1>1. CASE ServerBegins
  <2>1. Run("BEGIN", "ok") /\ pending' = pending /\ durable' = durable
    BY <1>1 DEF ServerBegins
  <2>2. \A s \in pending : ~Limited(s)
    BY <2>1, HeadFacts
  <2> QED
    BY <1>f, <1>d, <2>1, <2>2, RunPending
<1>2. CASE ServerReads
  <2>1. Run("READ", "ok") /\ pending' = pending /\ durable' = durable
    BY <1>2 DEF ServerReads, serverVars
  <2>2. \A s \in pending : ~Limited(s)
    BY <2>1, HeadFacts
  <2> QED
    BY <1>f, <1>d, <2>1, <2>2, RunPending
<1>3. CASE ServerRollsBack
  <2>1. Run("ROLLBACK", "ok") /\ pending' = {} /\ durable' = durable
    BY <1>3 DEF ServerRollsBack
  <2> QED
    BY <1>f, <1>d, <2>1, RunPending
<1>4. CASE ServerCommits
  <2>1. Run("COMMIT", "ok") /\ pending' = {} /\ durable' = durable \cup pending
    BY <1>4 DEF ServerCommits
  <2>2. pc \in {"exec", "undo"} /\ Limited(cur) => cur \notin pending
    BY <2>1, HeadFacts
  <2> QED
    BY <1>f, <1>d, <2>1, <2>2, RunPending
<1>5. CASE ServerRefuses
  <2>1. pending' = {} /\ durable' = durable
    BY <1>5 DEF ServerRefuses
  <2>2. PICK verb \in {"READ", "CHANGE", "COMMIT", "BEGIN"} : Run(verb, "error")
    BY <1>5 DEF ServerRefuses
  <2> QED
    BY <1>f, <1>d, <2>1, <2>2, RunPending
<1>6. CASE ServerChanges
  <2>0. PICK s : s = queue[1].of
    OBVIOUS
  <2>1. /\ Run("CHANGE", "ok")
        /\ Head(queue) = queue[1]
        /\ IF tx = "open" THEN pending' = pending \cup {s} /\ durable' = durable
                          ELSE durable' = durable \cup {s} /\ pending' = pending
    BY <1>6, <1>t, <2>0, QueueFacts DEF ServerChanges, Run, TypeOK
  <2>2. \A t \in pending : ~Limited(t)
    BY <2>1, HeadFacts
  <2>3. Limited(s) =>
          /\ tx = "open" /\ s \notin durable
          /\ \/ Len(queue) > 1 /\ queue[2].op = "ROLLBACK"
             \/ Len(queue) = 1 /\ (pc = "dead" \/ (pc = "exec" /\ cur = s))
    BY <2>0, <2>1, HeadFacts
  <2>4. /\ Len(queue') = Len(queue) - 1
        /\ \A i \in 1..Len(queue') : queue'[i] = queue[i + 1]
    BY <1>t, <2>1, RunEffect
  <2>5. Len(queue) > 1 /\ queue[2].op = "ROLLBACK" => Undone'
    BY <1>n, <2>4 DEF Undone
  <2>6. Len(queue) = 1 /\ (pc = "dead" \/ (pc = "exec" /\ cur = s)) => HasRun(s)'
    BY <1>f, <2>4 DEF HasRun, proxyVars
  <2>7. Limited(s) => Undone' \/ HasRun(s)'
    BY <2>3, <2>5, <2>6
  <2>8. Limited(s) => s \in pending'
    BY <2>1, <2>3
  <2>9. \A t \in pending' : Limited(t) => Undone' \/ HasRun(t)'
    BY <2>1, <2>2, <2>7
  <2>10. pc \in {"exec", "undo"} /\ Limited(cur) => cur \notin durable'
    BY <1>d, <2>1, <2>3
  <2> QED
    BY <1>f, <2>0, <2>1, <2>8, <2>9, <2>10, RunPending
<1>7. CASE ServerTerminates
  <2>1. pending' = {} /\ pc' = "dead"
    BY <1>7 DEF ServerTerminates, proxyVars
  <2> QED
    BY <2>1 DEF LimitedPending
<1>8. CASE LinkBreaks
  <2>1. /\ pending' = {} /\ reply' = "error" /\ durable' = durable
        /\ UNCHANGED <<pc, cur, kind>>
    BY <1>8 DEF LinkBreaks, proxyVars
  <2> QED
    BY <1>d, <2>1, SameKinds DEF LimitedPending
<1> QED
  BY <1>1, <1>2, <1>3, <1>4, <1>5, <1>6, <1>7, <1>8 DEF ServerStep

LEMMA NextPending == Strong /\ [Next]_vars => LimitedPending'
<1> SUFFICES ASSUME Strong, [Next]_vars PROVE LimitedPending'
  OBVIOUS
<1>t. TypeOK /\ Flow /\ Lane /\ LimitedInQueue /\ LimitedPending
  BY DEF Strong, Safe
<1>n. Len(queue) \in Nat
  BY <1>t, QueueFacts DEF TypeOK
<1>1. ASSUME NEW s \in Statement, NEW k \in Kinds, Receive(s, k) PROVE LimitedPending'
  <2>1. /\ pc = "idle" /\ kind[s] = "new" /\ cur' = s
        /\ kind' = [kind EXCEPT ![s] = k]
        /\ UNCHANGED serverVars
    BY <1>1 DEF Receive
  <2>2. \A t \in Statement \ {s} : kind'[t] = kind[t]
    BY <1>t, <2>1 DEF TypeOK
  <2>3. CASE k = "refused"
    <3>1. pc' = "audit" /\ queue' = queue
      BY <1>1, <2>3 DEF Receive
    <3>2. ASSUME NEW t \in pending, Limited(t)' PROVE Undone
      <4>1. t \in Statement \ {s}
        BY <1>t, <2>1 DEF TypeOK, Flow, Touched
      <4>2. Limited(t)
        BY <2>2, <3>2, <4>1 DEF Limited
      <4> QED
        BY <1>t, <2>1, <4>1, <4>2 DEF LimitedPending, HasRun, Committing, Flow
    <3> QED
      BY <2>1, <3>1, <3>2 DEF LimitedPending, Undone, serverVars
  <2>4. CASE k # "refused"
    <3>1. \/ Send("READ", s) /\ pc' = "capture"
          \/ Send("BEGIN", s) /\ pc' = "begin"
          \/ Send("EXEC", s) /\ pc' = "exec" /\ ~Limited(s)'
      BY <1>1, <2>4 DEF Receive
    <3>2. \A t \in pending' : Limited(t)' => Undone' \/ HasRun(t)' \/ Committing(t)'
      BY <2>1, <2>2, <3>1, PendingBySend DEF Ops
    <3> QED
      BY <2>1, <3>1, <3>2 DEF LimitedPending
  <2> QED
    BY <2>3, <2>4
<1>2. CASE Crash
  <2>1. PICK n \in 0..Len(queue) : queue' = SubSeq(queue, 1, n)
    BY <1>2 DEF Crash
  <2>2. /\ Len(queue') = n /\ \A i \in 1..n : queue'[i] = queue[i]
        /\ pc' = "dead" /\ UNCHANGED <<kind, outcome, pending, rows>>
    BY <1>2, <1>t, <2>1, CrashEffect DEF Crash, serverVars
  <2>3. ASSUME NEW s \in pending', Limited(s)' PROVE Undone' \/ HasRun(s)' \/ Committing(s)'
    <3>1. Undone \/ HasRun(s) \/ Committing(s)
      BY <1>t, <2>2, <2>3, SameKinds DEF LimitedPending
    <3>2. CASE n = 0
      BY <2>2, <3>2 DEF HasRun
    <3>3. CASE n # 0
      BY <1>n, <2>1, <2>2, <3>1, <3>3 DEF Undone, HasRun, Committing
    <3> QED
      BY <3>2, <3>3
  <2> QED
    BY <2>2, <2>3 DEF LimitedPending
<1>3. CASE UNCHANGED vars
  BY <1>t, <1>3, SameKinds DEF LimitedPending, Undone, HasRun, Committing, vars, proxyVars, serverVars
<1> QED
  BY <1>1, <1>2, <1>3, ProxyPending, ServerPending DEF Next
-----------------------------------------------------------------------------
(* What is committed and what is said of it. *)

\* What one step may do to the outcome, the answer and the commitment of a
\* row-limited mutation.
LEMMA SettledStep ==
  ASSUME Strong, Settled, TypeOK', Flow',
         \A s \in Statement : Limited(s)' /\ ~Limited(s) => s \notin durable' /\ outcome'[s] = "none",
         \A s \in Statement : Limited(s)' /\ Limited(s) =>
           /\ s \in durable => s \in durable' /\ rows'[s] = rows[s]
           /\ s \in durable' \ durable => rows'[s] <= Limit /\ outcome[s] = "none"
           /\ \/ outcome'[s] = outcome[s]
              \/ outcome'[s] = "allowed" /\ s \in durable'
              \/ outcome'[s] # "allowed" /\ s \notin durable',
         \A s \in Statement :
           \/ /\ s \in ready' <=> s \in ready
              /\ s \in ready => outcome'[s] = outcome[s]
              /\ "error" \in told'[s] <=> "error" \in told[s]
           \/ /\ s \in ready'
              /\ "error" \in told'[s] <=> outcome'[s] # "allowed"
  PROVE Settled'
<1>1. OverLimitNeverDurable'
  <2> SUFFICES ASSUME NEW s \in durable', Limited(s)', s \in Statement PROVE rows'[s] <= Limit
    BY DEF OverLimitNeverDurable, Limited, TypeOK
  <2> QED
    BY DEF Settled, OverLimitNeverDurable
<1>2. AuditTellsTheOutcome'
  <2> SUFFICES ASSUME NEW s \in Statement
               PROVE /\ outcome'[s] = "allowed" /\ Limited(s)' => s \in durable'
                     /\ outcome'[s] \in {"overlimit", "error", "timeout"} /\ Limited(s)' =>
                          s \notin durable'
                     /\ outcome'[s] = "blocked" => s \notin durable' \cup pending'
    BY DEF AuditTellsTheOutcome
  <2>1. outcome'[s] = "blocked" => s \notin durable' \cup pending'
    BY DEF Flow, Touched
  <2>2. CASE Limited(s)' /\ Limited(s)
    BY <2>1, <2>2 DEF Settled, AuditTellsTheOutcome
  <2>3. CASE Limited(s)' /\ ~Limited(s)
    BY <2>1, <2>3
  <2> QED
    BY <2>1, <2>2, <2>3
<1>3. \A s \in Statement :
        IF s \in ready' THEN "error" \in told'[s] <=> outcome'[s] # "allowed"
                        ELSE "error" \notin told'[s]
  BY DEF Settled
<1> QED
  BY <1>1, <1>2, <1>3 DEF Settled

LEMMA NextSettled == Strong /\ Settled /\ TypeOK' /\ Flow' /\ [Next]_vars => Settled'
<1> SUFFICES ASSUME Strong, Settled, TypeOK', Flow', [Next]_vars PROVE Settled'
  OBVIOUS
<1>t. TypeOK /\ Flow /\ Lane /\ LimitedInQueue /\ LimitedPending
  BY DEF Strong, Safe
<1>c. pc \notin {"idle", "dead"} => cur \in Statement /\ cur \notin ready
  BY <1>t DEF TypeOK, Flow
<1>1. ASSUME UNCHANGED <<kind, outcome, told, ready, durable, rows>> PROVE Settled'
  BY <1>1, SettledStep, SameKinds
<1>2. ASSUME UNCHANGED <<kind, told, ready, durable, rows>>, cur \in Statement, cur \notin ready,
             NEW verdict, Decided(cur, verdict),
             Limited(cur) => (verdict = "allowed" <=> cur \in durable)
      PROVE Settled'
  <2>1. /\ outcome'[cur] = verdict
        /\ \A s \in Statement \ {cur} : outcome'[s] = outcome[s]
    BY <1>2, <1>t DEF Decided, TypeOK
  <2> QED
    BY <1>2, <2>1, SettledStep, SameKinds
<1>3. ASSUME NEW s \in Statement, NEW k \in Kinds, Receive(s, k) PROVE Settled'
  <2>1. /\ kind[s] = "new" /\ kind' = [kind EXCEPT ![s] = k]
        /\ UNCHANGED <<told, ready, serverVars>>
        /\ \/ outcome' = [outcome EXCEPT ![s] = "blocked"] /\ k = "refused"
           \/ outcome' = outcome
    BY <1>3 DEF Receive, Decided
  <2>2. /\ s \notin ready /\ s \notin durable /\ outcome[s] = "none"
    BY <1>t, <2>1 DEF Flow, Touched
  <2>3. kind'[s] = k /\ \A t \in Statement \ {s} : kind'[t] = kind[t]
    BY <1>t, <2>1 DEF TypeOK
  <2>4. /\ Limited(s)' => outcome'[s] = "none"
        /\ \A t \in Statement \ {s} : outcome'[t] = outcome[t] /\ (Limited(t)' <=> Limited(t))
    BY <1>t, <2>1, <2>2, <2>3 DEF TypeOK, Limited
  <2> QED
    BY <2>1, <2>2, <2>3, <2>4, SettledStep DEF serverVars
<1>4. CASE ProxyStep \/ SessionEnds
  <2>1. CASE ExecDone
    <3>1. /\ pc = "exec" /\ cur \in Statement /\ cur \notin ready
          /\ told' = [told EXCEPT ![cur] = told[cur] \cup {"complete"}]
          /\ UNCHANGED <<kind, ready, durable, rows>>
          /\ outcome' = outcome \/ (~Limited(cur) /\ Decided(cur, "allowed"))
      BY <1>c, <2>1 DEF ExecDone, serverVars
    <3>2. \A s \in Statement : "error" \in told'[s] <=> "error" \in told[s]
      BY <1>t, <3>1 DEF TypeOK
    <3>3. \A s \in Statement : outcome'[s] = outcome[s] \/ (s = cur /\ ~Limited(s))
      BY <1>t, <3>1 DEF TypeOK, Decided
    <3> QED
      BY <3>1, <3>2, <3>3, SettledStep, SameKinds
  <2>2. ASSUME NEW verdict \in {"error", "timeout"}, ExecFails(verdict) PROVE Settled'
    <3>1. /\ pc = "exec" /\ cur \in Statement /\ cur \notin ready /\ Decided(cur, verdict)
          /\ UNCHANGED <<kind, told, ready, durable, rows>>
      BY <1>c, <2>2 DEF ExecFails, serverVars
    <3>2. Limited(cur) => cur \notin durable
      BY <1>t, <3>1 DEF LimitedPending
    <3> QED
      BY <1>2, <3>1, <3>2
  <2>3. CASE LimitSettled
    <3>1. /\ cur \in Statement /\ cur \notin ready
          /\ UNCHANGED <<kind, told, ready, durable, rows>>
          /\ \/ pc = "undo" /\ Decided(cur, "overlimit")
             \/ pc = "commit" /\ reply = "ok" /\ Decided(cur, "allowed")
             \/ outcome' = outcome
      BY <1>c, <2>3 DEF LimitSettled, serverVars
    <3>2. /\ pc = "undo" => cur \notin durable
          /\ pc = "commit" /\ reply = "ok" => cur \in durable
      BY <1>t, <3>1 DEF LimitedPending, Flow
    <3> QED
      BY <1>1, <1>2, <3>1, <3>2
  <2>4. CASE Answer
    <3>1. /\ cur \in Statement /\ cur \notin ready
          /\ told' = IF outcome[cur] = "allowed" THEN told
                     ELSE [told EXCEPT ![cur] = told[cur] \cup {"error"}]
          /\ ready' = ready \cup {cur}
          /\ UNCHANGED <<kind, outcome, durable, rows>>
      BY <1>c, <2>4 DEF Answer, serverVars
    <3>2. "error" \in told'[cur] <=> outcome[cur] # "allowed"
      BY <1>t, <3>1 DEF TypeOK, Settled
    <3>3. \A s \in Statement \ {cur} : told'[s] = told[s]
      BY <1>t, <3>1 DEF TypeOK
    <3> QED
      BY <3>1, <3>2, <3>3, SettledStep, SameKinds
  <2>5. CASE TimeOut
    <3>1. CASE ExecFails("timeout")
      BY <2>2, <3>1
    <3>2. CASE ~ExecFails("timeout")
      BY <1>1, <2>5, <3>2 DEF TimeOut, serverVars
    <3> QED
      BY <3>1, <3>2
  <2>6. CASE \/ CaptureDone \/ StoreArtifact \/ ArtifactFails \/ BeginDone \/ WriteAudit
             \/ AuditFails \/ Fail \/ SessionEnds
    BY <1>1, <2>6 DEF CaptureDone, StoreArtifact, ArtifactFails, BeginDone, WriteAudit, AuditFails,
                      Fail, SessionEnds, serverVars
  <2> QED
    BY <1>4, <2>1, <2>2, <2>3, <2>4, <2>5, <2>6 DEF ProxyStep, ExecError
<1>5. CASE ServerStep \/ LinkBreaks
  <2>1. UNCHANGED <<kind, outcome, told, ready>>
    BY <1>5, ServerFrame DEF proxyVars
  <2>2. CASE ServerCommits
    <3>1. Run("COMMIT", "ok") /\ durable' = durable \cup pending /\ rows' = rows
      BY <2>2 DEF ServerCommits
    <3>2. \A s \in pending : Limited(s) => rows[s] <= Limit /\ outcome[s] = "none"
      BY <3>1, HeadFacts
    <3>3. \A s : Limited(s)' <=> Limited(s)
      BY <2>1, SameKinds
    <3>4. \A s \in Statement : Limited(s) =>
            /\ s \in durable => s \in durable' /\ rows'[s] = rows[s]
            /\ s \in durable' \ durable => rows'[s] <= Limit /\ outcome[s] = "none"
      BY <3>1, <3>2
    <3> QED
      BY <2>1, <3>3, <3>4, SettledStep
  <2>3. CASE ServerChanges
    <3>1. /\ Run("CHANGE", "ok") /\ Head(queue) = queue[1]
      BY <2>3, <1>t, QueueFacts DEF ServerChanges, Run, TypeOK
    <3>2. PICK s, n : /\ s = queue[1].of
                      /\ rows' = [rows EXCEPT ![s] = n]
                      /\ IF tx = "open" THEN durable' = durable ELSE durable' = durable \cup {s}
      BY <2>3, <3>1 DEF ServerChanges
    <3>3. Limited(s) => s \notin durable /\ durable' = durable
      BY <3>1, <3>2, HeadFacts
    <3>4. \A t : Limited(t)' <=> Limited(t)
      BY <2>1, SameKinds
    <3>5. \A t \in Statement : Limited(t) =>
            /\ t \in durable => t \in durable' /\ rows'[t] = rows[t]
            /\ t \notin durable' \ durable
      BY <1>t, <3>2, <3>3 DEF TypeOK
    <3> QED
      BY <2>1, <3>4, <3>5, SettledStep
  <2>4. CASE ~ServerCommits /\ ~ServerChanges
    <3>1. UNCHANGED <<durable, rows>>
      BY <1>5, <2>4 DEF ServerStep, ServerBegins, ServerRollsBack, ServerReads, ServerRefuses,
                        ServerTerminates, LinkBreaks, serverVars
    <3> QED
      BY <1>1, <2>1, <3>1
  <2> QED
    BY <2>2, <2>3, <2>4
<1>6. CASE Crash \/ UNCHANGED vars
  BY <1>1, <1>6 DEF Crash, vars, proxyVars, serverVars
<1> QED
  BY <1>3, <1>4, <1>5, <1>6 DEF Next
-----------------------------------------------------------------------------
(* The theorems. *)

LEMMA InitIInv == Init => IInv
<1> SUFFICES ASSUME Init PROVE IInv
  OBVIOUS
<1>1. TypeOK
  BY DEF Init, TypeOK, Outcomes, Pc, Waiting
<1>q. queue = << >> /\ Len(queue) = 0
  BY DEF Init
<1>2. Flow
  BY <1>q DEF Init, Flow, Touched, Queued, Waiting
<1>3. Audited
  BY DEF Init, Audited
<1>4. Prepared
  BY <1>q DEF Init, Prepared, Touched, Queued
<1>5. Lane
  BY <1>q DEF Init, Lane, Waiting
<1>6. LimitedInQueue
  BY <1>q DEF Init, LimitedInQueue
<1>7. LimitedPending
  BY DEF Init, LimitedPending
<1>8. Settled
  BY DEF Init, Settled, OverLimitNeverDurable, AuditTellsTheOutcome
<1> QED
  BY <1>1, <1>2, <1>3, <1>4, <1>5, <1>6, <1>7, <1>8 DEF IInv

LEMMA NextIInv == IInv /\ [Next]_vars => IInv'
<1> SUFFICES ASSUME IInv, [Next]_vars PROVE IInv'
  OBVIOUS
<1>1. TypeOK' /\ Flow'
  BY NextType, NextFlow DEF IInv
<1>2. Audited' /\ Prepared' /\ Lane'
  BY NextAudited, NextPrepared, NextLane DEF IInv
<1>3. LimitedInQueue' /\ LimitedPending'
  BY NextLimitedInQueue, NextPending DEF IInv, Strong, Safe
<1>4. Settled'
  BY <1>1, NextSettled DEF IInv, Strong, Safe
<1> QED
  BY <1>1, <1>2, <1>3, <1>4 DEF IInv

\* Every state a connection can reach satisfies the inductive invariant.
THEOREM InductiveInvariant == Spec => []IInv
BY InitIInv, NextIInv, PTL DEF Spec

\* Types of the variables of handle_query and of the upstream session.
THEOREM PipelineTypesCorrect == Spec => []TypeOK
<1>1. IInv => TypeOK
  BY DEF IInv
<1> QED
  BY <1>1, InductiveInvariant, PTL

\* With fail_closed, a statement after which the client was told ReadyForQuery
\* is in every audit sink, for every number of sinks (write_audit).
THEOREM AnswersAreAudited == Spec => []AnsweredIsAudited
<1>1. IInv => AnsweredIsAudited
  BY DEF IInv, Audited, AnsweredIsAudited
<1> QED
  BY <1>1, InductiveInvariant, PTL

\* With fail_closed, no audit sink holds an event that an earlier one lacks.
THEOREM SinksAreOrdered == Spec => []EarlierSinkFirst
<1>1. IInv => EarlierSinkFirst
  BY DEF IInv, Audited, EarlierSinkFirst
<1> QED
  BY <1>1, InductiveInvariant, PTL

\* No interleaving of the handler, its timeouts, the end of the session, a
\* crash and the upstream commits a row-limited mutation over the limit.
THEOREM LimitIsKept == Spec => []OverLimitNeverDurable
<1>1. IInv => OverLimitNeverDurable
  BY DEF IInv, Settled
<1> QED
  BY <1>1, InductiveInvariant, PTL

\* With fail_closed, the rollback artifact is stored before the statement it
\* belongs to can change anything.
THEOREM ArtifactComesFirst == Spec => []ArtifactBeforeEffect
<1>1. IInv => ArtifactBeforeEffect
  BY DEF IInv, TypeOK, Prepared, Touched, ArtifactBeforeEffect
<1> QED
  BY <1>1, InductiveInvariant, PTL

\* What the audit event says of a row-limited mutation is what became of it,
\* even if the upstream runs commands the proxy no longer waits for.
THEOREM AuditIsTrue == Spec => []AuditTellsTheOutcome
<1>1. IInv => AuditTellsTheOutcome
  BY DEF IInv, Settled
<1> QED
  BY <1>1, InductiveInvariant, PTL

\* At ReadyForQuery the client has seen an error for a row-limited mutation
\* exactly if it is not committed.
THEOREM ClientIsToldTheTruth == Spec => []ClientIsToldTheOutcome
<1>1. IInv => ClientIsToldTheOutcome
  <2> SUFFICES ASSUME IInv, NEW s \in ready, Limited(s)
               PROVE "error" \notin told[s] <=> s \in durable
    BY DEF ClientIsToldTheOutcome
  <2>1. s \in Statement /\ outcome[s] \in Outcomes
    BY DEF IInv, TypeOK
  <2>2. outcome[s] # "none" /\ outcome[s] # "blocked"
    BY <2>1 DEF IInv, Flow, Limited
  <2>3. "error" \in told[s] <=> outcome[s] # "allowed"
    BY <2>1 DEF IInv, Settled
  <2>4. outcome[s] = "allowed" <=> s \in durable
    BY <2>1, <2>2 DEF IInv, Settled, AuditTellsTheOutcome, Outcomes
  <2> QED
    BY <2>3, <2>4
<1> QED
  BY <1>1, InductiveInvariant, PTL

-----------------------------------------------------------------------------
(* The refinement of RowLimitedMutation. *)

LEMMA InitPromise == Init => Promise!Init
BY DEF Init, Promise!Init, Stage, Effect, Word, Limited

\* Nothing a row-limited mutation is promised has moved.
LEMMA PromiseSame ==
  ASSUME UNCHANGED <<kind, pending, durable>>,
         \A s \in Statement : Limited(s) => rows'[s] = rows[s] /\ outcome'[s] = outcome[s]
  PROVE  UNCHANGED Promise!abstractVars
BY SameKinds DEF Promise!abstractVars, Stage, Effect, Word

\* A statement arrives.
LEMMA ReceiveKeepsPromise ==
  ASSUME IInv, NEW s \in Statement, NEW k \in Kinds, Receive(s, k)
  PROVE  Promise!Next
<1>1. /\ kind[s] = "new" /\ kind' = [kind EXCEPT ![s] = k]
      /\ UNCHANGED <<pending, durable, rows>>
      /\ \/ outcome' = [outcome EXCEPT ![s] = "blocked"] /\ k = "refused"
         \/ outcome' = outcome
  BY DEF Receive, Decided, serverVars
<1>2. s \notin pending \cup durable /\ outcome[s] = "none" /\ ~Limited(s)
  BY <1>1 DEF IInv, Flow, Touched, Limited
<1>3. kind'[s] = k /\ \A t \in Statement \ {s} : kind'[t] = kind[t]
  BY <1>1 DEF IInv, TypeOK
<1>4. /\ Limited(s)' => outcome'[s] = "none"
      /\ \A t \in Statement \ {s} : outcome'[t] = outcome[t] /\ (Limited(t)' <=> Limited(t))
  BY <1>1, <1>2, <1>3 DEF IInv, TypeOK, Limited
<1>5. \A t \in Statement : Effect(t)' = Effect(t) /\ Word(t)' = Word(t)
  BY <1>1, <1>2, <1>4 DEF Effect, Word
<1>6. \A t \in Statement \ {s} : Stage(t)' = Stage(t)
  BY <1>3, <1>4 DEF Stage
<1>7. Stage(s) = "new" /\ Stage(s)' \in {"held", "free"}
  BY <1>1, <1>3 DEF Stage, Kinds
<1>8. Promise!Arrive(s, Stage(s)')
  BY <1>5, <1>6, <1>7 DEF Promise!Arrive
<1> QED
  BY <1>7, <1>8 DEF Promise!Next

\* The handler decides what the audit event of the statement in hand says.
LEMMA DecisionKeepsPromise ==
  ASSUME IInv, IInv', UNCHANGED <<kind, pending, durable, rows>>, NEW s \in Statement,
         NEW v \in {"allowed", "overlimit", "error", "timeout"}, Decided(s, v),
         Limited(s) => outcome[s] = "none"
  PROVE  [Promise!Next]_(Promise!abstractVars)
<1>1. outcome'[s] = v /\ \A t \in Statement \ {s} : outcome'[t] = outcome[t]
  BY DEF IInv, TypeOK, Decided
<1>2. CASE ~Limited(s)
  BY <1>1, <1>2, PromiseSame
<1>3. CASE Limited(s)
  <2> DEFINE w == IF v = "allowed" THEN "allowed" ELSE "denied"
  <2>1. \A t \in Statement : Stage(t)' = Stage(t) /\ Effect(t)' = Effect(t)
    BY SameKinds DEF Stage, Effect
  <2>2. Word(s)' = w /\ \A t \in Statement \ {s} : Word(t)' = Word(t)
    BY <1>1, <1>3, SameKinds DEF Word
  <2>3. Stage(s) = "held" /\ Word(s) = "none"
    BY <1>3 DEF Stage, Word, Limited
  <2>4. v = "allowed" <=> s \in durable
    <3>1. AuditTellsTheOutcome' /\ (Limited(s)' <=> Limited(s))
      BY SameKinds DEF IInv, Settled
    <3> QED
      BY <1>1, <1>3, <3>1 DEF AuditTellsTheOutcome
  <2>5. w = "allowed" <=> Effect(s) = "durable"
    BY <1>3, <2>4 DEF Effect
  <2>6. Promise!Say(s, w)
    BY <2>1, <2>2, <2>3, <2>5 DEF Promise!Say, Promise!Held
  <2> QED
    BY <2>6 DEF Promise!Next
<1> QED
  BY <1>2, <1>3

LEMMA ProxyKeepsPromise ==
  ASSUME IInv, IInv', ProxyStep \/ SessionEnds \/ Crash
  PROVE  [Promise!Next]_(Promise!abstractVars)
<1>1. UNCHANGED <<kind, pending, durable, rows>>
  BY DEF ProxyStep, SessionEnds, Crash, CaptureDone, StoreArtifact, ArtifactFails, BeginDone,
         ExecDone, ExecError, ExecFails, LimitSettled, TimeOut, WriteAudit, AuditFails, Answer,
         Fail, serverVars
<1>2. CASE outcome' = outcome
  BY <1>1, <1>2, PromiseSame
<1>3. CASE outcome' # outcome
  <2>1. \E v \in {"allowed", "overlimit", "error", "timeout"} :
          Decided(cur, v) /\ pc \in {"exec", "undo", "commit"}
    BY <1>3 DEF ProxyStep, SessionEnds, Crash, CaptureDone, StoreArtifact, ArtifactFails,
                BeginDone, ExecDone, ExecError, ExecFails, LimitSettled, TimeOut, WriteAudit,
                AuditFails, Answer, Fail
  <2>2. cur \in Statement /\ outcome[cur] = "none"
    BY <2>1 DEF IInv, TypeOK, Flow
  <2>3. PICK s \in Statement, v \in {"allowed", "overlimit", "error", "timeout"} :
          Decided(s, v) /\ outcome[s] = "none"
    BY <2>1, <2>2
  <2> QED
    BY <1>1, <2>3, DecisionKeepsPromise
<1> QED
  BY <1>2, <1>3

\* A change is run, outside the transaction or in it.
LEMMA ChangeKeepsPromise ==
  ASSUME IInv, ServerChanges
  PROVE  [Promise!Next]_(Promise!abstractVars)
<1>t. TypeOK /\ LimitedInQueue /\ Strong
  BY DEF IInv, Strong, Safe
<1>1. Run("CHANGE", "ok") /\ UNCHANGED <<kind, outcome>>
  BY DEF ServerChanges, Run, proxyVars
<1>2. Head(queue) = queue[1] /\ Len(queue) > 0 /\ Len(queue) \in Nat
  BY <1>1, <1>t, QueueFacts, RunEffect DEF TypeOK, Run
<1>3. PICK s, n : /\ s = queue[1].of /\ n \in RowCounts
                  /\ rows' = [rows EXCEPT ![s] = n]
                  /\ IF tx = "open" THEN pending' = pending \cup {s} /\ durable' = durable
                     ELSE durable' = durable \cup {s} /\ pending' = pending
  BY <1>2 DEF ServerChanges
<1>4. s \in Statement /\ queue[1].op = "EXEC"
  BY <1>1, <1>3, <1>t, HeadFacts
<1>5. rows'[s] = n /\ \A t \in Statement \ {s} : rows'[t] = rows[t]
  BY <1>3, <1>4, <1>t DEF TypeOK
<1>6. \A t \in Statement : /\ Limited(t)' <=> Limited(t)
                           /\ Stage(t)' = Stage(t) /\ Word(t)' = Word(t)
  BY <1>1, SameKinds DEF Stage, Word
<1>7. \A t \in Statement \ {s} : Effect(t)' = Effect(t)
  BY <1>3, <1>5, <1>6 DEF Effect
<1>8. CASE ~Limited(s)
  <2>1. \A t \in Statement : Effect(t)' = Effect(t)
    BY <1>6, <1>7, <1>8 DEF Effect
  <2> QED
    BY <1>6, <2>1 DEF Promise!abstractVars
<1>9. CASE Limited(s)
  <2>1. LimitedAt(1)
    BY <1>3, <1>4, <1>9 DEF LimitedAt
  <2>2. tx = "open" /\ s \notin durable \cup pending
    BY <1>2, <1>3, <1>t, <2>1 DEF LimitedInQueue
  <2>3. Effect(s) = "none" /\ Effect(s)' \in {"open", "over"}
    BY <1>3, <1>4, <1>6, <1>9, <2>2 DEF Effect
  <2>4. Stage(s) = "held"
    BY <1>9 DEF Stage, Limited
  <2>5. Promise!Change(s, Effect(s)')
    BY <1>4, <1>6, <1>7, <2>3, <2>4 DEF Promise!Change, Promise!Held
  <2> QED
    BY <1>4, <2>3, <2>5 DEF Promise!Next
<1> QED
  BY <1>8, <1>9

\* The open transaction is committed.
LEMMA CommitKeepsPromise == ASSUME IInv, ServerCommits PROVE Promise!Next
<1> DEFINE S == {s \in pending \ durable : Limited(s)}
<1>1. /\ Run("COMMIT", "ok") /\ UNCHANGED <<kind, outcome, rows>>
      /\ durable' = durable \cup pending /\ pending' = {}
  BY DEF ServerCommits, Run, proxyVars
<1>2. \A s \in pending : Limited(s) => rows[s] <= Limit /\ outcome[s] = "none"
  BY <1>1, HeadFacts DEF IInv, Strong, Safe
<1>3. S \in SUBSET Statement /\ \A s \in Statement : rows[s] \in Nat
  <2>1. pending \subseteq Statement /\ rows \in [Statement -> RowCounts \cup {0}]
    BY DEF IInv, TypeOK
  <2>2. RowCounts \cup {0} \subseteq Nat
    OBVIOUS
  <2> QED
    BY <2>1, <2>2
<1>4. \A s \in Statement : /\ Limited(s)' <=> Limited(s)
                           /\ Stage(s)' = Stage(s) /\ Word(s)' = Word(s)
  BY <1>1, SameKinds DEF Stage, Word
<1>5. \A s \in S : Stage(s) = "held" /\ Effect(s) = "open" /\ Word(s) = "none"
  <2> SUFFICES ASSUME NEW s \in S
               PROVE  Stage(s) = "held" /\ Effect(s) = "open" /\ Word(s) = "none"
    OBVIOUS
  <2>1. Limited(s) /\ s \in pending /\ s \notin durable /\ ~(rows[s] > Limit)
    BY <1>2, <1>3 DEF Limited
  <2> QED
    BY <1>2, <2>1 DEF Stage, Effect, Word, Limited
<1>6. \A s \in Statement : Effect(s)' = IF s \in S THEN "durable" ELSE Effect(s)
  BY <1>1, <1>4 DEF Effect
<1>7. Promise!Commit(S)
  BY <1>3, <1>4, <1>5, <1>6 DEF Promise!Commit, Promise!Becomes, Promise!Held
<1> QED
  BY <1>3, <1>7 DEF Promise!Next

\* The open transaction ends without its changes.
LEMMA UndoKeepsPromise ==
  ASSUME IInv, UNCHANGED <<kind, outcome, durable, rows>>, pending' = {}
  PROVE  Promise!Next
<1> DEFINE S == {s \in pending \ durable : Limited(s)}
<1>1. S \in SUBSET Statement
  BY DEF IInv, TypeOK
<1>2. \A s \in Statement : /\ Limited(s)' <=> Limited(s)
                           /\ Stage(s)' = Stage(s) /\ Word(s)' = Word(s)
  BY SameKinds DEF Stage, Word
<1>3. \A s \in S : Stage(s) = "held" /\ Effect(s) \in {"open", "over"}
  BY DEF Stage, Effect, Limited
<1>4. \A s \in Statement : Effect(s)' = IF s \in S THEN "none" ELSE Effect(s)
  BY <1>2 DEF Effect
<1>5. Promise!Undo(S)
  BY <1>1, <1>2, <1>3, <1>4 DEF Promise!Undo, Promise!Becomes, Promise!Held
<1> QED
  BY <1>1, <1>5 DEF Promise!Next

LEMMA StepPromise ==
  IInv /\ IInv' /\ [Next]_vars => [Promise!Next]_(Promise!abstractVars)
<1> SUFFICES ASSUME IInv, IInv', [Next]_vars PROVE [Promise!Next]_(Promise!abstractVars)
  OBVIOUS
<1>1. CASE ServerStep \/ LinkBreaks
  <2>1. UNCHANGED <<kind, outcome>>
    BY <1>1, ServerFrame DEF proxyVars
  <2>2. CASE ServerBegins \/ ServerReads
    BY <2>1, <2>2, PromiseSame DEF ServerBegins, ServerReads, serverVars
  <2>3. CASE ServerRollsBack \/ ServerRefuses \/ ServerTerminates \/ LinkBreaks
    BY <2>1, <2>3, UndoKeepsPromise
       DEF ServerRollsBack, ServerRefuses, ServerTerminates, LinkBreaks
  <2> QED
    BY <1>1, <2>2, <2>3, ChangeKeepsPromise, CommitKeepsPromise DEF ServerStep
<1>2. CASE UNCHANGED vars
  BY <1>2, PromiseSame DEF vars, proxyVars, serverVars
<1> QED
  BY <1>1, <1>2, ReceiveKeepsPromise, ProxyKeepsPromise DEF Next

\* handle_query and the upstream session, however they interleave, fail or are
\* cut short, keep the promise of a row-limited mutation.
THEOREM KeepsRowLimitPromise == Spec => KeepsItsPromise
<1> QED
  BY InitPromise, StepPromise, InductiveInvariant, PTL
     DEF Spec, KeepsItsPromise, Promise!Spec
=============================================================================
