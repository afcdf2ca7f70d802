------------------------ MODULE MySqlPipelineProofs ------------------------
(***************************************************************************)
(* The safety of MySqlPipeline for every number of statements and writes,  *)
(* every limit and both settings of the switches.                          *)
(***************************************************************************)
EXTENDS MySqlPipeline, TLAPS

USE RowsAssumption, LimitAssumption, SwitchAssumption, WritesAssumption, NoneAssumption

-----------------------------------------------------------------------------
(* The inductive invariant. *)

Sure(s) == s \notin doubtful
IsLimited(s) == Limited(kind[s])

\* The EXEC of the statement s, somewhere in the queue.
Queued(s) == \E i \in 1..Len(queue) : queue[i].op = "EXEC" /\ queue[i].of = s

Touched(s) == s \in pending \cup durable \/ Queued(s)

\* Where the handler is decides what is known of the statement in hand.
Hand ==
  /\ verdict[cur] = "none" <=> pc \notin {"tell", "audit", "refuse", "cleanup"}
  /\ pc \in {"begin", "undo", "commit", "cleanup"} => IsLimited(cur)
  /\ pc \in {"capture", "artifact", "begin"} => ~Touched(cur)
  /\ pc = "capture" => kind[cur] = "update"

\* Nothing is known of a statement that has not come.
Flow ==
  /\ \A s \in Statement : kind[s] = "new" =>
       verdict[s] = "none" /\ image[s] = None /\ Sure(s) /\ cur # s /\ ~Touched(s)
  /\ cur # None => Hand

\* The command the handler waits for.
Awaited == CASE pc = "capture" -> "READ"
             [] pc = "begin" -> "BEGIN"
             [] pc = "exec" -> "EXEC"
             [] pc = "commit" -> "COMMIT"
             [] OTHER -> "ROLLBACK"

\* Until a call is given up there is one command at most on the connection, the
\* one the handler waits for.
Lane ==
  /\ link = "down" /\ pc # "dead" => reply = Error
  /\ ~doubt /\ link = "up" /\ pc # "dead" =>
       IF pc \in Waiting /\ reply.is = "none"
       THEN Len(queue) = 1 /\ queue[1] = [op |-> Awaited, of |-> cur]
       ELSE Len(queue) = 0

Heard == reply.is \in {"ok", "rows"}

\* An answer that is not in doubt is the answer to the command, and a limited
\* mutation that ran went by no other.
Trust ==
  /\ doubt /\ pc \in Waiting \ {"cleanup"} /\ Heard => ~Sure(cur)
  /\ pc \in {"exec", "undo", "commit"} /\ IsLimited(cur) /\ Sure(cur) => ~doubt
  /\ pc = "begin" /\ ~doubt /\ Heard => tx
  /\ pc = "exec" /\ IsLimited(cur) /\ Sure(cur) /\ Heard =>
       /\ cur \in pending
       /\ IF kind[cur] = "returning" THEN reply.is = "rows"
                                     ELSE reply.is = "ok" /\ reply.n = rows[cur]
  /\ pc = "commit" /\ Sure(cur) =>
       /\ Heard => cur \in durable
       /\ reply.is = "none" => cur \in pending

\* A limited mutation runs inside a transaction, first of all that is queued, and
\* nothing but its ROLLBACK is sent behind it before it is answered.
InQueue(s) ==
  \A i \in 1..Len(queue) : queue[i].op = "EXEC" /\ queue[i].of = s =>
    /\ i = 1
    /\ tx
    /\ s \notin pending \cup durable
    /\ verdict[s] # "allowed"
    /\ \/ Len(queue) > 1 /\ queue[2].op = "ROLLBACK"
       \/ Len(queue) = 1 /\ (pc = "dead" \/ link = "down" \/ (pc = "exec" /\ cur = s))

\* Once it has run: its ROLLBACK is next, or nothing is, or a COMMIT that was
\* sent after the rows were compared with the limit.
Undone == Len(queue) > 0 /\ queue[1].op = "ROLLBACK"
HasRun(s) == Len(queue) = 0 /\ (pc = "dead" \/ link = "down" \/ (cur = s /\ pc = "exec"))
Committing(s) ==
  /\ Len(queue) = 1 /\ queue[1].op = "COMMIT"
  /\ rows[s] <= Limit /\ verdict[s] = "none" /\ kind[s] # "returning"
  /\ pc = "dead" \/ (cur = s /\ pc = "commit")
LeftOpen(s) == kind[s] = "returning" /\ verdict[s] = "allowed"

InTransaction(s) ==
  s \in pending => Undone \/ HasRun(s) \/ Committing(s) \/ LeftOpen(s)

\* What is committed, and what is told of it.
Committed(s) ==
  /\ s \in durable =>
       IF kind[s] = "returning" THEN verdict[s] = "allowed"
       ELSE /\ rows[s] <= Limit
            /\ \/ verdict[s] = "allowed"
               \/ verdict[s] = "none" /\ (pc = "dead" \/ (cur = s /\ pc = "commit"))
  /\ verdict[s] = "allowed" /\ kind[s] # "returning" => s \in durable

LimitedRun(s) == InQueue(s) /\ InTransaction(s) /\ Committed(s)

LimitedRuns == \A s \in Statement : IsLimited(s) /\ Sure(s) => LimitedRun(s)

\* What a read that is under way, or has just been answered, can find.
Reading ==
  /\ view # None => view <= version
  /\ pc = "capture" /\ ~doubt =>
       since[cur] <= version /\ (view # None => since[cur] <= view)
  /\ pc = "capture" /\ reply.is = "rows" /\ Sure(cur) =>
       since[cur] <= reply.n /\ reply.n <= version

\* The row is read no earlier than what the statement could read when it came,
\* and changed no earlier than it was read.
ImageOf(s) ==
  Sure(s) /\ image[s] # None =>
    /\ kind[s] = "update"
    /\ since[s] <= image[s] /\ image[s] <= version
    /\ s \in pending \cup durable => replaced[s] # None /\ image[s] <= replaced[s]

Images == Reading /\ \A s \in Statement : ImageOf(s)

IInv == TypeOK /\ Flow /\ Lane /\ Trust /\ LimitedRuns /\ Images

-----------------------------------------------------------------------------
(* The queue. *)

LEMMA QueueFacts ==
  ASSUME NEW q \in Seq(Command)
  PROVE /\ Len(q) \in Nat
        /\ q = << >> <=> Len(q) = 0
        /\ q # << >> => Head(q) = q[1]
        /\ \A i \in 1..Len(q) : q[i].op \in Ops /\ q[i].of \in Statement
<1> Len(q) \in Nat /\ \A i \in 1..Len(q) : q[i] \in Command
  OBVIOUS
<1> q = << >> <=> Len(q) = 0
  OBVIOUS
<1> q # << >> => Head(q) = q[1]
  OBVIOUS
<1> QED
  BY DEF Command

LEMMA SendEffect ==
  ASSUME TypeOK, NEW op \in Ops, NEW s \in Statement, Send(op, s)
  PROVE /\ queue' \in Seq(Command) /\ reply' \in {NoAnswer, Error}
        /\ link = "up" => /\ reply' = NoAnswer
                          /\ Len(queue') = Len(queue) + 1
                          /\ queue'[Len(queue) + 1] = [op |-> op, of |-> s]
                          /\ \A i \in 1..Len(queue) : queue'[i] = queue[i]
        /\ link # "up" => reply' = Error /\ queue' = queue
<1> DEFINE c == [op |-> op, of |-> s]
<1>1. c \in Command
  BY DEF Command
<1>2. queue \in Seq(Command)
  BY DEF TypeOK
<1>3. CASE link = "up"
  <2>1. queue' = Append(queue, c) /\ reply' = NoAnswer
    BY <1>3 DEF Send
  <2> HIDE DEF c
  <2>2. /\ Append(queue, c) \in Seq(Command)
        /\ Len(Append(queue, c)) = Len(queue) + 1
        /\ Append(queue, c)[Len(queue) + 1] = c
        /\ \A i \in 1..Len(queue) : Append(queue, c)[i] = queue[i]
    BY <1>1, <1>2
  <2> QED
    BY <1>3, <2>1, <2>2 DEF c
<1>4. CASE link # "up"
  BY <1>2, <1>4 DEF Send
<1> QED
  BY <1>3, <1>4

LEMMA RunEffect ==
  ASSUME TypeOK, NEW op, NEW answer, Run(op, answer)
  PROVE /\ queue' \in Seq(Command)
        /\ Len(queue) \in Nat /\ Len(queue) > 0
        /\ Head(queue) = queue[1] /\ queue[1].op = op /\ queue[1].of \in Statement
        /\ Len(queue') = Len(queue) - 1
        /\ \A i \in 1..Len(queue') : queue'[i] = queue[i + 1]
<1>1. queue \in Seq(Command) /\ queue # << >>
  BY DEF TypeOK, Run
<1>2. /\ Tail(queue) \in Seq(Command)
      /\ Len(Tail(queue)) = Len(queue) - 1
      /\ \A i \in 1..Len(Tail(queue)) : Tail(queue)[i] = queue[i + 1]
  BY <1>1
<1>3. Len(queue) \in Nat /\ Len(queue) > 0 /\ Head(queue) = queue[1] /\ 1 \in 1..Len(queue)
  BY <1>1, QueueFacts
<1> QED
  BY <1>1, <1>2, <1>3, QueueFacts DEF Run

LEMMA PrefixEffect ==
  ASSUME TypeOK, NEW n \in 0..Len(queue), queue' = SubSeq(queue, 1, n)
  PROVE /\ queue' \in Seq(Command)
        /\ Len(queue') = n
        /\ \A i \in 1..n : queue'[i] = queue[i]
BY DEF TypeOK

-----------------------------------------------------------------------------
(* Types. *)

LEMMA Answers ==
  /\ NoAnswer \in Answer /\ Error \in Answer
  /\ \A n \in RowCounts : Ok(n) \in Answer /\ Rows(n) \in Answer
  /\ \A v \in Versions : Rows(v) \in Answer
  /\ Ok(0) \in Answer /\ Rows(0) \in Answer
  /\ \A a \in Answer : a.is \in {"none", "ok", "rows", "error"} /\ a.n \in Nat
<1> DEFINE N == RowCounts \cup Versions \cup {0}
<1>1. N \subseteq Nat
  BY DEF Versions
<1>2. \A i \in {"none", "ok", "rows", "error"}, n \in N : [is |-> i, n |-> n] \in Answer
  BY DEF Answer
<1>3. \A a \in Answer : a.is \in {"none", "ok", "rows", "error"} /\ a.n \in N
  BY DEF Answer
<1>4. 0 \in N /\ RowCounts \subseteq N /\ Versions \subseteq N
  OBVIOUS
<1> HIDE DEF N
<1> QED
  BY <1>1, <1>2, <1>3, <1>4 DEF NoAnswer, Error, Ok, Rows

LEMMA InHand == TypeOK /\ pc \notin {"idle", "dead"} => cur \in Statement
BY DEF TypeOK

LEMMA SendOnType ==
  ASSUME TypeOK, NEW s \in Statement, NEW k, SendOn(s, k)
  PROVE queue' \in Seq(Command) /\ reply' \in Answer /\ pc' \in {"begin", "exec"}
<1>1. \/ Send("BEGIN", s) /\ pc' = "begin"
      \/ Send("EXEC", s) /\ pc' = "exec"
  BY DEF SendOn
<1> QED
  BY <1>1, SendEffect, Answers DEF Ops

LEMMA DecidedType ==
  ASSUME TypeOK, cur \in Statement, NEW v \in Verdicts, Decided(v)
  PROVE verdict' \in [Statement -> Verdicts]
BY DEF TypeOK, Decided

\* What no step of the proxy writes.
ServerSame == UNCHANGED <<kind, serverVars, link, version, history>>

LEMMA ExecFailsType ==
  ASSUME TypeOK, NEW v \in {"error", "timeout"}, ExecFails(v)
  PROVE /\ queue' \in Seq(Command) /\ reply' \in Answer /\ pc' \in {"cleanup", "audit"}
        /\ verdict' \in [Statement -> Verdicts]
        /\ UNCHANGED <<cur, image>> /\ ServerSame
<1>1. cur \in Statement /\ Decided(v) /\ UNCHANGED <<cur, image>> /\ ServerSame
  BY InHand DEF ExecFails, ServerSame, history
<1>2. verdict' \in [Statement -> Verdicts]
  BY <1>1, DecidedType DEF Verdicts
<1>3. CASE Limited(kind[cur])
  <2>1. Send("ROLLBACK", cur) /\ pc' = "cleanup"
    BY <1>3 DEF ExecFails, Undo
  <2> QED
    BY <1>1, <1>2, <2>1, SendEffect, Answers DEF Ops
<1>4. CASE ~Limited(kind[cur])
  BY <1>1, <1>2, <1>4 DEF ExecFails, TypeOK
<1> QED
  BY <1>3, <1>4

LEMMA ProxyType == TypeOK /\ ProxyStep => TypeOK'
<1> SUFFICES ASSUME TypeOK, ProxyStep PROVE TypeOK'
  OBVIOUS
<1> SUFFICES /\ ServerSame /\ pc' \in Pc /\ doubt' \in BOOLEAN
             /\ cur' \in IF pc' \in {"idle", "dead"} THEN {None} ELSE Statement
             /\ verdict' \in [Statement -> Verdicts]
             /\ image' \in [Statement -> Nat \cup {None}]
             /\ queue' \in Seq(Command) /\ reply' \in Answer
  BY DEF ServerSame, serverVars, history, TypeOK
<1>1. CASE CaptureDone
  <2>1. reply.n \in Nat
    BY Answers DEF TypeOK
  <2> QED
    BY <1>1, <2>1, InHand DEF CaptureDone, TypeOK, ServerSame, Pc
<1>2. CASE WriteArtifact
  <2>1. cur \in Statement /\ SendOn(cur, kind[cur])
    BY <1>2, InHand DEF WriteArtifact
  <2>2. queue' \in Seq(Command) /\ reply' \in Answer /\ pc' \in {"begin", "exec"}
    BY <2>1, SendOnType
  <2> QED
    BY <1>2, <2>1, <2>2 DEF WriteArtifact, TypeOK, ServerSame, Pc, Waiting
<1>3. CASE BeginDone
  <2>1. cur \in Statement
    BY <1>3, InHand DEF BeginDone
  <2>2. queue' \in Seq(Command) /\ reply' \in Answer
    BY <1>3, <2>1, SendEffect, Answers DEF BeginDone, Ops
  <2> QED
    BY <1>3, <2>1, <2>2 DEF BeginDone, TypeOK, ServerSame, Pc, Waiting
<1>4. CASE ExecDone
  <2>1. /\ cur \in Statement
        /\ UNCHANGED <<kind, cur, image, doubt, serverVars, link, version, history>>
    BY <1>4, InHand DEF ExecDone
  <2>2. /\ queue' \in Seq(Command) /\ reply' \in Answer
        /\ pc' \in {"undo", "commit", "tell"}
        /\ verdict' \in [Statement -> Verdicts]
    <3>1. CASE Send("ROLLBACK", cur) /\ pc' = "undo" /\ UNCHANGED verdict
      BY <2>1, <3>1, SendEffect, Answers DEF Ops, TypeOK
    <3>2. CASE Send("COMMIT", cur) /\ pc' = "commit" /\ UNCHANGED verdict
      BY <2>1, <3>2, SendEffect, Answers DEF Ops, TypeOK
    <3>3. CASE Decided("allowed") /\ pc' = "tell" /\ UNCHANGED <<queue, reply>>
      BY <2>1, <3>3, DecidedType DEF Verdicts, TypeOK
    <3> QED
      BY <1>4, <3>1, <3>2, <3>3 DEF ExecDone
  <2> QED
    BY <2>1, <2>2 DEF TypeOK, ServerSame, Pc, Waiting
<1>5. CASE RowsDone
  <2>1. cur \in Statement
    BY <1>5, InHand DEF RowsDone
  <2>2. verdict' \in [Statement -> Verdicts]
    BY <1>5, <2>1, DecidedType DEF RowsDone, Verdicts
  <2> QED
    BY <1>5, <2>1, <2>2 DEF RowsDone, TypeOK, ServerSame, Pc
<1>6. ASSUME NEW v \in {"error", "timeout"}, ExecFails(v), doubt' \in BOOLEAN
      PROVE /\ ServerSame /\ pc' \in Pc /\ doubt' \in BOOLEAN
            /\ cur' \in IF pc' \in {"idle", "dead"} THEN {None} ELSE Statement
            /\ verdict' \in [Statement -> Verdicts]
            /\ image' \in [Statement -> Nat \cup {None}]
            /\ queue' \in Seq(Command) /\ reply' \in Answer
  <2>1. cur \in Statement
    BY <1>6, InHand DEF ExecFails
  <2> QED
    BY <1>6, <2>1, ExecFailsType DEF TypeOK, Pc, Waiting
<1>7. CASE ExecError
  BY <1>6, <1>7 DEF ExecError, TypeOK
<1>8. CASE Settled
  <2>1. /\ cur \in Statement /\ pc' \in {"audit", "tell"}
        /\ Decided("overlimit") \/ Decided("allowed") \/ UNCHANGED verdict
        /\ UNCHANGED <<kind, cur, image, queue, reply, doubt, serverVars, link, version, history>>
    BY <1>8, InHand DEF Settled
  <2>2. verdict' \in [Statement -> Verdicts]
    BY <2>1, DecidedType DEF Verdicts, TypeOK
  <2> QED
    BY <2>1, <2>2 DEF TypeOK, ServerSame, Pc
<1>9. CASE TimeOut
  <2>1. CASE ExecFails("timeout")
    BY <1>6, <1>9, <2>1 DEF TimeOut
  <2>2. CASE ~ExecFails("timeout")
    <3>1. cur \in Statement /\ pc' \in {"artifact", "audit"} /\ doubt' = TRUE
      BY <1>9, <2>2, InHand DEF TimeOut
    <3>2. UNCHANGED <<kind, cur, verdict, image, queue, reply, serverVars, link, version, history>>
      BY <1>9, <2>2 DEF TimeOut
    <3> QED
      BY <3>1, <3>2 DEF TypeOK, Pc, ServerSame
  <2> QED
    BY <2>1, <2>2
<1>10. CASE Tell \/ Audit \/ Refuse
  BY <1>10, InHand DEF Tell, Audit, Refuse, Released, TypeOK, Pc, ServerSame
<1>11. CASE Fail
  BY <1>11, Answers DEF Fail, Ends, TypeOK, Pc, ServerSame
<1> QED
  BY <1>1, <1>2, <1>3, <1>4, <1>5, <1>7, <1>8, <1>9, <1>10, <1>11 DEF ProxyStep

\* What no step of the upstream writes.
ProxySame == UNCHANGED <<kind, pc, cur, verdict, image, doubt, link, doubtful, since>>

LEMMA RunType ==
  ASSUME TypeOK, NEW op, NEW answer \in Answer, Run(op, answer)
  PROVE /\ ProxySame
        /\ queue' \in Seq(Command) /\ reply' \in Answer
        /\ Head(queue).of \in Statement
<1>1. ProxySame /\ reply' \in {reply, answer}
  BY DEF Run, ProxySame
<1> QED
  BY <1>1, RunEffect DEF TypeOK

\* What the upstream does to its own state, and to the versions of the row.
ServerTypes ==
  /\ tx' \in BOOLEAN /\ view' \in Versions \cup {None}
  /\ pending' \subseteq Statement /\ durable' \subseteq Statement
  /\ rows' \in [Statement -> RowCounts \cup {0}]
  /\ version' = version
  /\ replaced' \in [Statement -> Versions \cup {None}]

LEMMA EffectTypes ==
  ASSUME TypeOK
  PROVE /\ \A b \in BOOLEAN : Commits(b) => ServerTypes
        /\ Forgets => ServerTypes
        /\ \A v : Reads(v) => ServerTypes
        /\ \A s \in Statement, n \in RowCounts : Changes(s, n) => ServerTypes
        /\ UNCHANGED <<serverVars, version, replaced>> => ServerTypes
<1>1. ASSUME NEW b \in BOOLEAN, Commits(b) PROVE ServerTypes
  BY <1>1 DEF Commits, ServerTypes, TypeOK
<1>2. ASSUME Forgets PROVE ServerTypes
  BY <1>2 DEF Forgets, ServerTypes, TypeOK
<1>3. ASSUME NEW v, Reads(v) PROVE ServerTypes
  BY <1>3 DEF Reads, ServerTypes, TypeOK
<1>4. ASSUME NEW s \in Statement, NEW n \in RowCounts, Changes(s, n) PROVE ServerTypes
  <2>1. pending' \subseteq Statement /\ durable' \subseteq Statement
    BY <1>4 DEF Changes, TypeOK
  <2>2. rows' \in [Statement -> RowCounts \cup {0}]
    BY <1>4 DEF Changes, TypeOK
  <2>3. replaced' \in [Statement -> Versions \cup {None}]
    BY <1>4 DEF Changes, TypeOK
  <2> QED
    BY <1>4, <2>1, <2>2, <2>3 DEF Changes, ServerTypes, TypeOK
<1>5. UNCHANGED <<serverVars, version, replaced>> => ServerTypes
  BY DEF serverVars, ServerTypes, TypeOK
<1> QED
  BY <1>1, <1>2, <1>3, <1>4, <1>5

LEMMA ServerType == TypeOK /\ ServerStep => TypeOK'
<1> SUFFICES ASSUME TypeOK, ServerStep PROVE TypeOK'
  OBVIOUS
<1> SUFFICES /\ ProxySame /\ ServerTypes
             /\ queue' \in Seq(Command) /\ reply' \in Answer
  BY DEF ProxySame, ServerTypes, TypeOK
<1>1. CASE ServerBegins
  BY <1>1, RunType, EffectTypes, Answers DEF ServerBegins
<1>2. CASE ServerCommits
  BY <1>2, RunType, EffectTypes, Answers DEF ServerCommits
<1>3. CASE ServerRollsBack
  BY <1>3, RunType, EffectTypes, Answers DEF ServerRollsBack
<1>4. CASE ServerRefuses
  BY <1>4, RunType, EffectTypes, Answers DEF ServerRefuses
<1>5. CASE ServerTerminates
  BY <1>5, EffectTypes DEF ServerTerminates, TypeOK, ProxySame
<1>6. ASSUME NEW v \in Versions, ServerReads(v)
      PROVE ProxySame /\ ServerTypes /\ queue' \in Seq(Command) /\ reply' \in Answer
  BY <1>6, RunType, EffectTypes, Answers DEF ServerReads
<1>7. ASSUME NEW s \in Statement, NEW n \in RowCounts, ServerExecutes(s, n)
      PROVE ProxySame /\ ServerTypes /\ queue' \in Seq(Command) /\ reply' \in Answer
  <2>1. \/ Changes(s, n) \/ Reads(version) \/ Forgets
        \/ Commits(TRUE) \/ Commits(FALSE)
    BY <1>7 DEF ServerExecutes
  <2>2. \E a \in Answer : Run("EXEC", a)
    BY <1>7, Answers DEF ServerExecutes, Runs
  <2> QED
    BY <2>1, <2>2, RunType, EffectTypes
<1> QED
  BY <1>1, <1>2, <1>3, <1>4, <1>5, <1>6, <1>7 DEF ServerStep

LEMMA NextType == TypeOK /\ [Next]_vars => TypeOK'
<1> SUFFICES ASSUME TypeOK, [Next]_vars PROVE TypeOK'
  OBVIOUS
<1>1. ASSUME NEW s \in Statement, NEW k \in Kinds, Receive(s, k) PROVE TypeOK'
  <2>1. /\ kind' \in [Statement -> Kinds \cup {"new"}]
        /\ cur' = s
        /\ since' \in [Statement -> Versions]
        /\ UNCHANGED <<image, doubt, serverVars, link, version, replaced, doubtful>>
    <3>1. (IF ~Captured(k) THEN 0 ELSE IF view = None THEN version ELSE view) \in Versions
      BY DEF TypeOK, Versions
    <3> QED
      BY <1>1, <3>1 DEF Receive, TypeOK
  <2>2. /\ queue' \in Seq(Command) /\ reply' \in Answer
        /\ pc' \in Pc \ {"idle", "dead"} /\ verdict' \in [Statement -> Verdicts]
    <3>1. CASE k = "refused"
      BY <1>1, <3>1 DEF Receive, TypeOK, Verdicts, Pc
    <3>2. CASE k # "refused" /\ Captured(k)
      BY <1>1, <3>2, SendEffect, Answers DEF Receive, TypeOK, Ops, Pc, Waiting
    <3>3. CASE k # "refused" /\ ~Captured(k)
      BY <1>1, <3>3, SendOnType DEF Receive, TypeOK, Pc, Waiting
    <3> QED
      BY <3>1, <3>2, <3>3
  <2> QED
    BY <2>1, <2>2 DEF TypeOK, serverVars
<1>2. CASE SessionEnds
  BY <1>2, Answers DEF SessionEnds, Ends, TypeOK, Pc, serverVars, history
<1>3. CASE Crash
  <2>1. queue' \in Seq(Command)
    BY <1>3, PrefixEffect DEF Crash
  <2> QED
    BY <1>3, <2>1, Answers DEF Crash, Ends, TypeOK, Pc, serverVars, history
<1>4. CASE OtherWrites
  BY <1>4 DEF OtherWrites, TypeOK, serverVars, history, Versions, Answer
<1>5. CASE LinkBreaks
  <2>1. queue' \in Seq(Command)
    BY <1>5, PrefixEffect DEF LinkBreaks
  <2> QED
    BY <1>5, <2>1, Answers DEF LinkBreaks, TypeOK, serverVars, history
<1>6. ASSUME NEW a \in Answer, LateAnswer(a) PROVE TypeOK'
  <2>1. cur \in Statement
    BY <1>6, InHand DEF LateAnswer, Waiting
  <2> QED
    BY <1>6, <2>1 DEF LateAnswer, TypeOK, serverVars
<1>7. CASE UNCHANGED vars
  BY <1>7 DEF vars, serverVars, history, TypeOK
<1> QED
  BY <1>1, <1>2, <1>3, <1>4, <1>5, <1>6, <1>7, ProxyType, ServerType DEF Next

-----------------------------------------------------------------------------
(* Which statements have been sent upstream, and where the handler is. *)

LEMMA TouchedSame ==
  ASSUME UNCHANGED <<queue, serverVars>>
  PROVE \A t : Touched(t)' <=> Touched(t)
BY DEF Touched, Queued, serverVars

LEMMA TouchedBySend ==
  ASSUME TypeOK, NEW op \in Ops, NEW s \in Statement, Send(op, s), UNCHANGED serverVars
  PROVE \A t : Touched(t)' => Touched(t) \/ (op = "EXEC" /\ t = s)
<1> SUFFICES ASSUME NEW t, Queued(t)' PROVE Queued(t) \/ (op = "EXEC" /\ t = s)
  BY DEF Touched, serverVars
<1>1. PICK i \in 1..Len(queue') : queue'[i].op = "EXEC" /\ queue'[i].of = t
  BY DEF Queued
<1>n. Len(queue) \in Nat /\ Len(queue') \in Nat
  BY SendEffect DEF TypeOK
<1>2. CASE link = "up" /\ i = Len(queue) + 1
  <2>1. queue'[i] = [op |-> op, of |-> s]
    BY <1>2, SendEffect
  <2> QED
    BY <1>1, <2>1
<1>3. CASE link = "up" /\ i # Len(queue) + 1
  <2>1. Len(queue') = Len(queue) + 1 /\ \A j \in 1..Len(queue) : queue'[j] = queue[j]
    BY <1>3, SendEffect
  <2>2. i \in 1..Len(queue)
    BY <1>n, <1>3, <2>1
  <2> QED
    BY <1>1, <2>1, <2>2 DEF Queued
<1>4. CASE link # "up"
  BY <1>1, <1>4, SendEffect DEF Queued
<1> QED
  BY <1>2, <1>3, <1>4

LEMMA TouchedByPrefix ==
  ASSUME TypeOK, NEW n \in 0..Len(queue), queue' = SubSeq(queue, 1, n), UNCHANGED serverVars
  PROVE \A t : Touched(t)' => Touched(t)
<1> SUFFICES ASSUME NEW t, Queued(t)' PROVE Queued(t)
  BY DEF Touched, serverVars
<1>1. PICK i \in 1..Len(queue') : queue'[i].op = "EXEC" /\ queue'[i].of = t
  BY DEF Queued
<1>2. i \in 1..Len(queue) /\ queue'[i] = queue[i]
  BY PrefixEffect, QueueFacts DEF TypeOK
<1> QED
  BY <1>1, <1>2 DEF Queued

LEMMA QueuedByRun ==
  ASSUME TypeOK, NEW op, NEW answer, Run(op, answer)
  PROVE /\ ProxySame
        /\ \A t : Queued(t)' => Queued(t)
        /\ op = "EXEC" => Queued(queue[1].of)
<1>1. ASSUME NEW t, Queued(t)' PROVE Queued(t)
  <2>1. PICK i \in 1..Len(queue') : queue'[i].op = "EXEC" /\ queue'[i].of = t
    BY <1>1 DEF Queued
  <2>2. i + 1 \in 1..Len(queue) /\ queue'[i] = queue[i + 1]
    BY RunEffect
  <2> QED
    BY <2>1, <2>2 DEF Queued
<1>2. 1 \in 1..Len(queue) /\ queue[1].op = op
  BY RunEffect
<1> QED
  BY <1>1, <1>2 DEF Queued, Run, ProxySame

LEMMA TouchedByServer ==
  ASSUME TypeOK, ServerStep
  PROVE ProxySame /\ \A t : Touched(t)' => Touched(t)
<1> DEFINE Open == pending \cup durable
<1>1. CASE ServerBegins \/ ServerCommits
  <2>1. \E op, a : Run(op, a)
    BY <1>1 DEF ServerBegins, ServerCommits
  <2>2. Open' \subseteq Open
    BY <1>1 DEF ServerBegins, ServerCommits, Commits
  <2> QED
    BY <2>1, <2>2, QueuedByRun DEF Touched
<1>2. CASE ServerRollsBack \/ ServerRefuses
  <2>1. \E op, a : Run(op, a)
    BY <1>2 DEF ServerRollsBack, ServerRefuses
  <2>2. Open' \subseteq Open
    BY <1>2 DEF ServerRollsBack, ServerRefuses, Forgets, serverVars
  <2> QED
    BY <2>1, <2>2, QueuedByRun DEF Touched
<1>3. CASE ServerTerminates
  BY <1>3 DEF ServerTerminates, Forgets, Touched, Queued, ProxySame
<1>4. ASSUME NEW v \in Versions, ServerReads(v)
      PROVE ProxySame /\ \A t : Touched(t)' => Touched(t)
  BY <1>4, QueuedByRun DEF ServerReads, Reads, Touched
<1>5. ASSUME NEW s \in Statement, NEW n \in RowCounts, ServerExecutes(s, n)
      PROVE ProxySame /\ \A t : Touched(t)' => Touched(t)
  <2>1. PICK a : Run("EXEC", a) /\ Head(queue).of = s
    BY <1>5 DEF ServerExecutes, Runs
  <2>2. Queued(s) /\ ProxySame /\ \A t : Queued(t)' => Queued(t)
    BY <2>1, QueuedByRun, RunEffect
  <2>3. Open' \subseteq Open \cup {s}
    BY <1>5 DEF ServerExecutes, Changes, Reads, Commits, Forgets
  <2> QED
    BY <2>2, <2>3 DEF Touched
<1> QED
  BY <1>1, <1>2, <1>3, <1>4, <1>5 DEF ServerStep

\* What a step of the handler can change, and of which statement.
HandStep ==
  /\ UNCHANGED <<kind, serverVars, link, version, history>>
  /\ cur' \in {cur, None}
  /\ \A t \in Statement : t # cur =>
       verdict'[t] = verdict[t] /\ image'[t] = image[t] /\ (Touched(t)' => Touched(t))

LEMMA HandByProxy ==
  ASSUME TypeOK, ProxyStep \/ SessionEnds \/ Crash
  PROVE HandStep
<1>1. ASSUME UNCHANGED queue \/ (\E op \in Ops : cur \in Statement /\ Send(op, cur))
                \/ (\E n \in 0..Len(queue) : queue' = SubSeq(queue, 1, n)),
             UNCHANGED <<kind, serverVars, link, version, history>>,
             cur' \in {cur, None},
             \A t \in Statement : t # cur => verdict'[t] = verdict[t] /\ image'[t] = image[t]
      PROVE HandStep
  BY <1>1, TouchedSame, TouchedBySend, TouchedByPrefix DEF HandStep
<1>2. ASSUME NEW v, ExecFails(v) PROVE HandStep
  <2>1. UNCHANGED queue \/ (cur \in Statement /\ Send("ROLLBACK", cur))
    BY <1>2, InHand DEF ExecFails, Undo
  <2>2. \A t \in Statement : t # cur => verdict'[t] = verdict[t] /\ image'[t] = image[t]
    BY <1>2 DEF ExecFails, Decided, TypeOK
  <2> QED
    BY <1>1, <1>2, <2>1, <2>2 DEF ExecFails, Ops
<1>3. CASE CaptureDone \/ WriteArtifact \/ BeginDone
  <2>1. UNCHANGED queue \/ (\E op \in Ops : cur \in Statement /\ Send(op, cur))
    BY <1>3, InHand DEF CaptureDone, WriteArtifact, BeginDone, SendOn, Ops
  <2>2. \A t \in Statement : t # cur => verdict'[t] = verdict[t] /\ image'[t] = image[t]
    BY <1>3 DEF CaptureDone, WriteArtifact, BeginDone, TypeOK
  <2> QED
    BY <1>1, <1>3, <2>1, <2>2 DEF CaptureDone, WriteArtifact, BeginDone
<1>4. CASE ExecDone \/ RowsDone
  <2>1. UNCHANGED queue \/ (\E op \in Ops : cur \in Statement /\ Send(op, cur))
    BY <1>4, InHand DEF ExecDone, RowsDone, Ops
  <2>2. \A t \in Statement : t # cur => verdict'[t] = verdict[t] /\ image'[t] = image[t]
    BY <1>4 DEF ExecDone, RowsDone, Decided, TypeOK
  <2> QED
    BY <1>1, <1>4, <2>1, <2>2 DEF ExecDone, RowsDone
<1>5. CASE Settled \/ Tell \/ Audit \/ Refuse \/ Fail \/ SessionEnds
  <2>1. \A t \in Statement : t # cur => verdict'[t] = verdict[t] /\ image'[t] = image[t]
    BY <1>5 DEF Settled, Tell, Audit, Refuse, Fail, SessionEnds, Ends, Decided, TypeOK
  <2> QED
    BY <1>1, <1>5, <2>1
    DEF Settled, Tell, Audit, Refuse, Fail, SessionEnds, Ends, Released
<1>6. CASE Crash
  BY <1>1, <1>6 DEF Crash, Ends
<1>7. CASE TimeOut
  <2>1. CASE ExecFails("timeout")
    BY <1>2, <2>1
  <2>2. CASE ~ExecFails("timeout")
    BY <1>1, <1>7, <2>2 DEF TimeOut
  <2> QED
    BY <2>1, <2>2
<1> QED
  BY <1>2, <1>3, <1>4, <1>5, <1>6, <1>7 DEF ProxyStep, ExecError

LEMMA ReceiveTouches ==
  ASSUME TypeOK, NEW q \in Statement, NEW k \in Kinds, Receive(q, k)
  PROVE /\ \A t : Touched(t)' => Touched(t) \/ (t = q /\ pc' = "exec")
        /\ pc' \in {"audit", "capture", "begin", "exec"} /\ cur' = q
        /\ kind' = [kind EXCEPT ![q] = k]
        /\ pc' = "audit" <=> k = "refused"
        /\ verdict' = IF k = "refused" THEN [verdict EXCEPT ![q] = "blocked"] ELSE verdict
        /\ pc' = "capture" => k = "update"
        /\ pc' = "begin" => Limited(k)
        /\ UNCHANGED <<image, doubt, serverVars, link, version, replaced, doubtful>>
<1>1. CASE k = "refused"
  BY <1>1, TouchedSame DEF Receive
<1>2. CASE k # "refused" /\ Captured(k)
  BY <1>2, TouchedBySend DEF Receive, Captured, Ops
<1>3. CASE k # "refused" /\ ~Captured(k) /\ Limited(k)
  BY <1>3, TouchedBySend DEF Receive, SendOn, Ops
<1>4. CASE k # "refused" /\ ~Captured(k) /\ ~Limited(k)
  BY <1>4, TouchedBySend DEF Receive, SendOn, Ops
<1> QED
  BY <1>1, <1>2, <1>3, <1>4

LEMMA FlowNew ==
  ASSUME TypeOK, Flow, [Next]_vars, NEW s \in Statement, kind'[s] = "new"
  PROVE /\ verdict'[s] = "none" /\ image'[s] = None /\ Sure(s)'
        /\ cur' # s /\ ~Touched(s)'
<1>n. s # None
  OBVIOUS
<1>f. kind[s] = "new" =>
        verdict[s] = "none" /\ image[s] = None /\ Sure(s) /\ cur # s /\ ~Touched(s)
  BY DEF Flow, Hand
<1>1. CASE \E q \in Statement, k \in Kinds : Receive(q, k)
  <2>1. PICK q \in Statement, k \in Kinds : Receive(q, k)
    BY <1>1
  <2>2. q # s
    BY <2>1, ReceiveTouches DEF TypeOK, Kinds
  <2>3. kind[s] = "new"
    BY <2>1, <2>2, ReceiveTouches DEF TypeOK
  <2> QED
    BY <1>f, <2>1, <2>2, <2>3, ReceiveTouches DEF TypeOK, Sure
<1>2. CASE ProxyStep \/ SessionEnds \/ Crash
  BY <1>f, <1>n, <1>2, HandByProxy DEF HandStep, history, Sure
<1>3. CASE ServerStep
  BY <1>f, <1>3, TouchedByServer DEF ProxySame, Sure
<1>4. CASE OtherWrites \/ UNCHANGED vars
  BY <1>f, <1>4, TouchedSame DEF OtherWrites, vars, history, Sure
<1>5. CASE LinkBreaks
  BY <1>f, <1>5, TouchedByPrefix DEF LinkBreaks, history, Sure
<1>6. CASE \E a \in Answer : LateAnswer(a)
  <2>1. UNCHANGED <<kind, verdict, image, cur, queue, serverVars>>
        /\ doubtful' \in {doubtful, doubtful \cup {cur}}
    BY <1>6 DEF LateAnswer
  <2> QED
    BY <1>f, <2>1, TouchedSame DEF Sure
<1> QED
  BY <1>1, <1>2, <1>3, <1>4, <1>5, <1>6 DEF Next

LEMMA FlowHand ==
  ASSUME TypeOK, Flow, [Next]_vars, cur' # None
  PROVE Hand'
<1>f. cur # None => Hand
  BY DEF Flow, Hand
<1>1. ASSUME NEW q \in Statement, NEW k \in Kinds, Receive(q, k) PROVE Hand'
  <2>1. kind[q] = "new" /\ verdict[q] = "none" /\ ~Touched(q)
    BY <1>1 DEF Receive, Flow, Hand
  <2>2. cur' = q /\ kind'[q] = k
    BY <1>1, ReceiveTouches DEF TypeOK
  <2>3. verdict'[q] = IF k = "refused" THEN "blocked" ELSE "none"
    BY <1>1, <2>1, ReceiveTouches DEF TypeOK
  <2> QED
    BY <1>1, <2>1, <2>2, <2>3, ReceiveTouches DEF Hand, IsLimited
<1>2. CASE ProxyStep
  <2>1. cur \in Statement /\ cur' = cur /\ Hand /\ kind' = kind
    BY <1>f, <1>2, HandByProxy, ProxyType DEF HandStep, TypeOK
  <2>2. \A v \in Verdicts : Decided(v) => verdict'[cur] = v
    BY <2>1 DEF Decided, TypeOK
  <2>v. {"allowed", "error", "timeout", "overlimit"} \subseteq Verdicts
    BY DEF Verdicts
  <2>3. CASE CaptureDone
    BY <2>1, <2>3, TouchedSame DEF CaptureDone, Hand, IsLimited
  <2>4. CASE WriteArtifact
    <3>1. \A t : Touched(t)' => Touched(t) \/ (t = cur /\ pc' = "exec")
      BY <2>1, <2>4, TouchedBySend DEF WriteArtifact, SendOn, Ops
    <3> QED
      BY <2>1, <2>4, <3>1 DEF WriteArtifact, SendOn, Hand, IsLimited
  <2>5. CASE BeginDone
    BY <2>1, <2>5 DEF BeginDone, Hand, IsLimited
  <2>6. CASE ExecDone
    BY <2>1, <2>2, <2>v, <2>6 DEF ExecDone, OverLimit, Hand, IsLimited
  <2>7. CASE RowsDone
    BY <2>1, <2>2, <2>v, <2>7 DEF RowsDone, Hand, IsLimited
  <2>8. ASSUME NEW v \in {"error", "timeout"}, ExecFails(v) PROVE Hand'
    BY <2>1, <2>2, <2>v, <2>8 DEF ExecFails, Undo, Hand, IsLimited
  <2>9. CASE ExecError
    BY <2>8, <2>9 DEF ExecError
  <2>10. CASE Settled
    BY <2>1, <2>2, <2>v, <2>10 DEF Settled, Hand, IsLimited
  <2>11. CASE TimeOut
    <3>1. CASE ExecFails("timeout")
      BY <2>8, <3>1
    <3>2. CASE ~ExecFails("timeout")
      BY <2>1, <2>11, <3>2, TouchedSame DEF TimeOut, Hand, IsLimited
    <3> QED
      BY <3>1, <3>2
  <2>12. CASE Tell \/ Audit \/ Refuse \/ Fail
    BY <2>1, <2>12 DEF Tell, Audit, Refuse, Fail, Ends, Released, Hand, IsLimited
  <2> QED
    BY <1>2, <2>3, <2>4, <2>5, <2>6, <2>7, <2>9, <2>10, <2>11, <2>12 DEF ProxyStep
<1>3. CASE SessionEnds \/ Crash
  BY <1>3 DEF SessionEnds, Crash, Ends
<1>4. CASE ServerStep
  BY <1>f, <1>4, TouchedByServer DEF ProxySame, Hand, IsLimited
<1>5. CASE OtherWrites \/ UNCHANGED vars
  BY <1>f, <1>5, TouchedSame DEF OtherWrites, vars, Hand, IsLimited
<1>6. CASE LinkBreaks
  BY <1>f, <1>6, TouchedByPrefix DEF LinkBreaks, Hand, IsLimited
<1>7. CASE \E a \in Answer : LateAnswer(a)
  BY <1>f, <1>7, TouchedSame DEF LateAnswer, Hand, IsLimited
<1> QED
  BY <1>1, <1>2, <1>3, <1>4, <1>5, <1>6, <1>7 DEF Next

LEMMA NextFlow == TypeOK /\ Flow /\ [Next]_vars => Flow'
BY FlowNew, FlowHand DEF Flow, Hand

-----------------------------------------------------------------------------
(* The connection. *)

LEMMA LaneBySend ==
  ASSUME TypeOK, Lane, NEW op \in Ops, NEW s \in Statement, Send(op, s),
         pc # "dead", pc \notin Waiting \/ reply.is # "none",
         UNCHANGED <<link, doubt>>, cur' = s, pc' \in Waiting, op = Awaited'
  PROVE Lane'
<1>1. CASE link = "up"
  <2>1. ~doubt => Len(queue) = 0
    BY <1>1 DEF Lane
  <2>2. ~doubt => Len(queue') = 1 /\ queue'[1] = [op |-> op, of |-> s]
    <3> DEFINE c == [op |-> op, of |-> s]
    <3>1. Len(queue') = Len(queue) + 1 /\ queue'[Len(queue) + 1] = c
      BY <1>1, SendEffect
    <3> HIDE DEF c
    <3>2. ~doubt => Len(queue') = 1 /\ queue'[1] = c
      BY <2>1, <3>1
    <3> QED
      BY <3>2 DEF c
  <2>3. reply'.is = "none" /\ link' = "up"
    <3>1. reply' = NoAnswer /\ link' = "up"
      BY <1>1, SendEffect
    <3> QED
      BY <3>1 DEF NoAnswer
  <2> QED
    BY <2>2, <2>3 DEF Lane
<1>2. CASE link # "up"
  BY <1>2, SendEffect DEF Lane, TypeOK
<1> QED
  BY <1>1, <1>2

\* The handler goes on without a command.
LEMMA LaneBySilence ==
  ASSUME TypeOK, Lane, UNCHANGED <<queue, reply, link>>,
         pc # "dead", pc \notin Waiting \/ reply.is # "none" \/ doubt',
         doubt => doubt', pc' \notin Waiting
  PROVE Lane'
BY DEF Lane

LEMMA LaneByRun ==
  ASSUME TypeOK, Lane, NEW op, NEW answer, answer.is # "none", Run(op, answer)
  PROVE /\ Lane'
        /\ ~doubt /\ link = "up" /\ pc # "dead" =>
             /\ pc \in Waiting /\ reply.is = "none" /\ Len(queue) = 1 /\ reply' = answer
             /\ op = Awaited /\ queue[1].of = cur
        /\ doubt \/ link # "up" \/ pc = "dead" \/ pc \notin Waiting => reply' = reply
<1>1. UNCHANGED <<pc, cur, doubt, link>>
  BY DEF Run
<1>2. ~doubt /\ link = "up" /\ pc # "dead" =>
        /\ pc \in Waiting /\ reply.is = "none" /\ Len(queue) = 1 /\ reply' = answer
        /\ op = Awaited /\ queue[1].of = cur /\ Len(queue') = 0
  BY RunEffect DEF Lane, Run
<1>3. doubt \/ link # "up" \/ pc = "dead" \/ pc \notin Waiting => reply' = reply
  BY DEF Run, Waiting
<1> QED
  BY <1>1, <1>2, <1>3 DEF Lane

LEMMA ServerRuns ==
  ASSUME TypeOK, ServerStep, ~ServerTerminates
  PROVE \E op \in Ops, a \in Answer : Run(op, a) /\ a.is # "none"
<1>1. CASE ServerBegins
  BY <1>1, Answers DEF ServerBegins, Ops, Ok
<1>2. CASE ServerCommits
  BY <1>2, Answers DEF ServerCommits, Ops, Ok
<1>3. CASE ServerRollsBack
  BY <1>3, Answers DEF ServerRollsBack, Ops, Ok
<1>4. CASE ServerRefuses
  BY <1>4, Answers DEF ServerRefuses, Ops, Error
<1>5. ASSUME NEW v \in Versions, ServerReads(v)
      PROVE \E op \in Ops, a \in Answer : Run(op, a) /\ a.is # "none"
  BY <1>5, Answers DEF ServerReads, Ops, Rows
<1>6. ASSUME NEW s \in Statement, NEW n \in RowCounts, ServerExecutes(s, n)
      PROVE \E op \in Ops, a \in Answer : Run(op, a) /\ a.is # "none"
  <2>1. \E a \in {Ok(n), Rows(n), Ok(0), Rows(0)} : Run("EXEC", a)
    BY <1>6 DEF ServerExecutes, Runs
  <2>2. \A a \in {Ok(n), Rows(n), Ok(0), Rows(0)} : a \in Answer /\ a.is # "none"
    BY Answers DEF Ok, Rows
  <2> QED
    BY <2>1, <2>2 DEF Ops
<1> QED
  BY <1>1, <1>2, <1>3, <1>4, <1>5, <1>6 DEF ServerStep

LEMMA NextLane == TypeOK /\ Lane /\ [Next]_vars => Lane'
<1> SUFFICES ASSUME TypeOK, Lane, [Next]_vars PROVE Lane'
  OBVIOUS
<1>1. ASSUME NEW q \in Statement, NEW k \in Kinds, Receive(q, k) PROVE Lane'
  <2>1. CASE k = "refused"
    <3>1. pc = "idle" /\ pc' = "audit" /\ UNCHANGED <<queue, reply, link, doubt>>
      BY <1>1, <2>1 DEF Receive
    <3> QED
      BY <3>1, LaneBySilence DEF Waiting
  <2>2. CASE k # "refused" /\ Captured(k)
    BY <1>1, <2>2, LaneBySend DEF Receive, Ops, Waiting, Awaited
  <2>3. CASE k # "refused" /\ ~Captured(k) /\ Limited(k)
    BY <1>1, <2>3, LaneBySend DEF Receive, SendOn, Ops, Waiting, Awaited
  <2>4. CASE k # "refused" /\ ~Captured(k) /\ ~Limited(k)
    BY <1>1, <2>4, LaneBySend DEF Receive, SendOn, Ops, Waiting, Awaited
  <2> QED
    BY <2>1, <2>2, <2>3, <2>4
<1>2. CASE ProxyStep
  <2>1. CASE CaptureDone
    BY <2>1, LaneBySilence DEF CaptureDone, Waiting
  <2>2. CASE WriteArtifact
    <3>1. CASE Limited(kind[cur])
      BY <2>2, <3>1, InHand, LaneBySend DEF WriteArtifact, SendOn, Ops, Waiting, Awaited
    <3>2. CASE ~Limited(kind[cur])
      BY <2>2, <3>2, InHand, LaneBySend DEF WriteArtifact, SendOn, Ops, Waiting, Awaited
    <3> QED
      BY <3>1, <3>2
  <2>3. CASE BeginDone
    BY <2>3, InHand, LaneBySend DEF BeginDone, Ops, Waiting, Awaited
  <2>4. CASE ExecDone
    <3>1. CASE Send("ROLLBACK", cur) /\ pc' = "undo"
      BY <2>4, <3>1, InHand, LaneBySend DEF ExecDone, Ops, Waiting, Awaited
    <3>2. CASE Send("COMMIT", cur) /\ pc' = "commit"
      BY <2>4, <3>2, InHand, LaneBySend DEF ExecDone, Ops, Waiting, Awaited
    <3>3. CASE pc' = "tell" /\ UNCHANGED <<queue, reply>>
      BY <2>4, <3>3, LaneBySilence DEF ExecDone, Waiting
    <3> QED
      BY <2>4, <3>1, <3>2, <3>3 DEF ExecDone
  <2>5. CASE RowsDone
    BY <2>5, LaneBySilence DEF RowsDone, Waiting
  <2>6. CASE ExecError
    <3>1. CASE Limited(kind[cur])
      BY <2>6, <3>1, InHand, LaneBySend
      DEF ExecError, ExecFails, Undo, Ops, Waiting, Awaited
    <3>2. CASE ~Limited(kind[cur])
      BY <2>6, <3>2, LaneBySilence DEF ExecError, ExecFails, Waiting
    <3> QED
      BY <3>1, <3>2
  <2>7. CASE Settled
    BY <2>7, LaneBySilence DEF Settled, Waiting
  <2>8. CASE TimeOut
    BY <2>8 DEF TimeOut, ExecFails, Lane, Error
  <2>9. CASE Tell \/ Audit \/ Refuse
    <3>1. UNCHANGED <<queue, reply, link, doubt>>
      BY <2>9 DEF Tell, Audit, Refuse
    <3>2. pc \in {"tell", "audit", "refuse"} /\ pc' \notin Waiting
      BY <2>9 DEF Tell, Audit, Refuse, Released, Waiting
    <3> QED
      BY <3>1, <3>2, LaneBySilence DEF Waiting
  <2>10. CASE Fail
    BY <2>10 DEF Fail, Ends, Lane
  <2> QED
    BY <1>2, <2>1, <2>2, <2>3, <2>4, <2>5, <2>6, <2>7, <2>8, <2>9, <2>10 DEF ProxyStep
<1>3. CASE SessionEnds \/ Crash
  BY <1>3 DEF SessionEnds, Crash, Ends, Lane
<1>4. CASE ServerTerminates
  BY <1>4 DEF ServerTerminates, Lane
<1>5. CASE ServerStep /\ ~ServerTerminates
  BY <1>5, ServerRuns, LaneByRun
<1>6. CASE OtherWrites \/ UNCHANGED vars
  BY <1>6 DEF OtherWrites, vars, Lane, Awaited
<1>7. CASE LinkBreaks
  BY <1>7 DEF LinkBreaks, Lane
<1>8. CASE \E a \in Answer : LateAnswer(a)
  BY <1>8 DEF LateAnswer, Lane
<1> QED
  BY <1>1, <1>2, <1>3, <1>4, <1>5, <1>6, <1>7, <1>8 DEF Next

-----------------------------------------------------------------------------
(* Answers that are not in doubt. *)

\* Steps after which nothing has been heard.
LEMMA TrustUnheard ==
  ASSUME ~Heard' \/ pc' \notin Waiting \ {"cleanup"},
         pc' \in {"exec", "undo", "commit"} /\ IsLimited(cur)' /\ Sure(cur)' => ~doubt',
         pc' = "commit" /\ Sure(cur)' /\ reply'.is = "none" => (cur \in pending)'
  PROVE Trust'
BY DEF Trust, Waiting

LEMMA SendUnheard ==
  ASSUME TypeOK, NEW op \in Ops, NEW s \in Statement, Send(op, s)
  PROVE ~Heard' /\ (reply'.is = "none" => link = "up")
<1>1. reply' \in {NoAnswer, Error} /\ (link # "up" => reply' = Error)
  BY SendEffect
<1> QED
  BY <1>1 DEF Heard, NoAnswer, Error

LEMMA TrustProxy == TypeOK /\ Flow /\ Trust /\ ProxyStep => Trust'
<1> SUFFICES ASSUME TypeOK, Flow, Trust, ProxyStep PROVE Trust'
  OBVIOUS
<1>h. cur \in Statement \/ cur = None
  BY DEF TypeOK
<1>k. UNCHANGED <<kind, pending, doubtful>>
  BY HandByProxy DEF HandStep, serverVars, history
<1>1. CASE pc' \notin {"begin", "exec", "undo", "commit", "capture"}
  BY <1>1, TrustUnheard DEF Waiting
<1>2. CASE WriteArtifact
  <2>1. cur \in Statement /\ UNCHANGED <<cur, doubt>>
    BY <1>2, InHand DEF WriteArtifact
  <2>2. ~Heard' /\ (pc' = "begin" \/ (pc' = "exec" /\ ~IsLimited(cur)))
    BY <1>2, <2>1, SendUnheard DEF WriteArtifact, SendOn, IsLimited, Ops
  <2> QED
    BY <1>k, <2>1, <2>2, TrustUnheard DEF IsLimited
<1>3. CASE BeginDone
  <2>1. cur \in Statement /\ UNCHANGED <<cur, doubt>> /\ pc' = "exec"
    BY <1>3, InHand DEF BeginDone
  <2>2. ~Heard'
    BY <1>3, <2>1, SendUnheard DEF BeginDone, Ops
  <2>3. Sure(cur) => ~doubt
    BY <1>3 DEF BeginDone, Trust, Heard, Waiting
  <2> QED
    BY <1>k, <2>1, <2>2, <2>3, TrustUnheard DEF Sure
<1>4. CASE ExecDone
  <2>1. cur \in Statement /\ UNCHANGED <<cur, doubt>> /\ pc = "exec" /\ Heard
    BY <1>4, InHand DEF ExecDone, Heard
  <2>2. CASE pc' \in {"undo", "commit"}
    <3>1. IsLimited(cur) /\ ~Heard'
      BY <1>4, <2>1, <2>2, SendUnheard DEF ExecDone, OverLimit, IsLimited, Ops
    <3>2. Sure(cur) => ~doubt /\ cur \in pending
      BY <2>1, <3>1 DEF Trust
    <3> QED
      BY <1>k, <2>1, <3>1, <3>2, TrustUnheard DEF Sure
  <2>3. CASE pc' = "tell"
    BY <1>1, <2>3
  <2> QED
    BY <1>4, <2>2, <2>3 DEF ExecDone
<1>5. CASE CaptureDone \/ RowsDone \/ ExecError \/ Settled
  BY <1>1, <1>5 DEF CaptureDone, RowsDone, ExecError, ExecFails, Undo, Settled
<1>6. CASE TimeOut
  BY <1>1, <1>6 DEF TimeOut, ExecFails, Undo
<1>7. CASE Tell \/ Audit \/ Refuse \/ Fail
  BY <1>1, <1>7 DEF Tell, Audit, Refuse, Fail, Ends, Released
<1> QED
  BY <1>2, <1>3, <1>4, <1>5, <1>6, <1>7 DEF ProxyStep

\* Which action of the upstream runs the command of a verb.
LEMMA RunsOf ==
  ASSUME TypeOK, ServerStep, ~ServerTerminates, NEW op, queue[1].op = op
  PROVE /\ op = "BEGIN" => ServerBegins
        /\ op = "COMMIT" => ServerCommits
        /\ op = "ROLLBACK" => ServerRollsBack
        /\ op = "READ" => ServerRefuses \/ \E v \in Versions : ServerReads(v)
        /\ op = "EXEC" => \/ ServerRefuses
                          \/ \E n \in RowCounts : ServerExecutes(queue[1].of, n)
<1>1. ServerBegins => op = "BEGIN"
  BY RunEffect DEF ServerBegins
<1>2. ServerCommits => op = "COMMIT"
  BY RunEffect DEF ServerCommits
<1>3. ServerRollsBack => op = "ROLLBACK"
  BY RunEffect DEF ServerRollsBack
<1>4. ServerRefuses => op \in {"READ", "EXEC"}
  BY RunEffect DEF ServerRefuses
<1>5. ASSUME NEW v \in Versions, ServerReads(v) PROVE op = "READ"
  BY <1>5, RunEffect DEF ServerReads
<1>6. ASSUME NEW s \in Statement, NEW n \in RowCounts, ServerExecutes(s, n)
      PROVE op = "EXEC" /\ queue[1].of = s
  <2>1. PICK a : Run("EXEC", a) /\ Head(queue).of = s
    BY <1>6 DEF ServerExecutes, Runs
  <2> QED
    BY <2>1, RunEffect
<1> QED
  BY <1>1, <1>2, <1>3, <1>4, <1>5, <1>6 DEF ServerStep

\* What the upstream does with a limited mutation.
LEMMA RunsLimited ==
  ASSUME TypeOK, NEW s \in Statement, NEW n \in RowCounts, ServerExecutes(s, n), IsLimited(s)
  PROVE /\ Changes(s, n)
        /\ Run("EXEC", IF kind[s] = "returning" THEN Rows(n) ELSE Ok(n))
BY DEF ServerExecutes, Runs, IsLimited, Limited

LEMMA TrustServer ==
  ASSUME TypeOK, Flow, Lane, Trust, LimitedRuns, ServerStep, ~ServerTerminates
  PROVE Trust'
<1>1. PICK op \in Ops, a \in Answer : Run(op, a) /\ a.is # "none"
  BY ServerRuns
<1>2. ProxySame
  BY <1>1, QueuedByRun
<1>3. /\ ~doubt /\ link = "up" /\ pc # "dead" =>
           /\ pc \in Waiting /\ reply.is = "none" /\ Len(queue) = 1 /\ reply' = a
           /\ op = Awaited /\ queue[1].of = cur
      /\ doubt \/ link # "up" \/ pc = "dead" \/ pc \notin Waiting => reply' = reply
  BY <1>1, LaneByRun
<1>4. /\ 1 \in 1..Len(queue) /\ queue[1].op = op
  BY <1>1, RunEffect
<1>5. CASE doubt
  <2>1. reply' = reply
    BY <1>3, <1>5
  <2>2. pc \in {"exec", "undo", "commit"} /\ IsLimited(cur) => ~Sure(cur)
    BY <1>5 DEF Trust
  <2>3. pc = "commit" => IsLimited(cur)
    BY InHand DEF Flow, Hand
  <2> QED
    BY <1>2, <1>5, <2>1, <2>2, <2>3 DEF Trust, ProxySame, Heard, Sure, IsLimited
<1>6. CASE ~doubt /\ (link # "up" \/ pc = "dead")
  <2>1. reply' = reply /\ (pc = "dead" \/ reply = Error)
    BY <1>3, <1>6 DEF Lane, TypeOK
  <2> QED
    BY <1>2, <1>6, <2>1 DEF Trust, ProxySame, Heard, Sure, IsLimited, Error, Waiting
<1>7. CASE ~doubt /\ link = "up" /\ pc # "dead"
  <2>0. op = Awaited /\ reply' = a /\ queue[1].of = cur
    BY <1>3, <1>7
  <2>1. CASE pc = "begin"
    <3>1. tx'
      BY <1>4, <2>0, <2>1, RunsOf DEF Awaited, ServerBegins, Commits
    <3> QED
      BY <1>2, <1>7, <2>1, <3>1 DEF Trust, ProxySame
  <2>2. CASE pc = "exec"
    <3>1. cur \in Statement /\ op = "EXEC"
      BY <2>0, <2>2, InHand DEF Awaited
    <3>2. CASE ServerRefuses
      <4>1. reply' = Error
        BY <1>3, <1>7, <3>2, LaneByRun DEF ServerRefuses, Error
      <4> QED
        BY <1>2, <1>7, <2>2, <4>1 DEF Trust, ProxySame, Heard, Error
    <3>3. ASSUME NEW n \in RowCounts, ServerExecutes(cur, n), IsLimited(cur), Sure(cur)
          PROVE /\ cur \in pending'
                /\ IF kind[cur] = "returning" THEN reply'.is = "rows"
                   ELSE reply'.is = "ok" /\ reply'.n = rows'[cur]
      <4>1. tx
        BY <1>4, <2>0, <3>1, <3>3 DEF LimitedRuns, LimitedRun, InQueue
      <4>2. Changes(cur, n)
        BY <3>1, <3>3, RunsLimited
      <4>3. cur \in pending' /\ rows'[cur] = n
        BY <3>1, <4>1, <4>2 DEF Changes, TypeOK
      <4>4. reply' = IF kind[cur] = "returning" THEN Rows(n) ELSE Ok(n)
        <5>1. /\ Run("EXEC", IF kind[cur] = "returning" THEN Rows(n) ELSE Ok(n))
              /\ (IF kind[cur] = "returning" THEN Rows(n) ELSE Ok(n)).is # "none"
          BY <3>1, <3>3, RunsLimited DEF Rows, Ok
        <5> QED
          BY <1>7, <5>1, LaneByRun
      <4> QED
        BY <4>3, <4>4 DEF Rows, Ok
    <3> QED
      BY <1>2, <1>4, <1>7, <2>0, <2>2, <3>1, <3>2, <3>3, RunsOf
      DEF Trust, ProxySame, Sure, IsLimited
  <2>3. CASE pc = "commit"
    <3>1. ServerCommits
      BY <1>4, <2>0, <2>3, RunsOf DEF Awaited
    <3>2. Sure(cur) => cur \in durable'
      BY <1>3, <1>7, <2>3, <3>1 DEF Trust, ServerCommits, Commits
    <3>3. reply'.is # "none"
      BY <1>1, <2>0
    <3> QED
      BY <1>2, <1>7, <2>3, <3>2, <3>3 DEF Trust, ProxySame, Sure
  <2>4. CASE pc \notin {"begin", "exec", "commit"}
    BY <1>2, <1>7, <2>4 DEF Trust, ProxySame
  <2> QED
    BY <2>1, <2>2, <2>3, <2>4
<1> QED
  BY <1>5, <1>6, <1>7

LEMMA NextTrust ==
  ASSUME TypeOK, Flow, Lane, Trust, LimitedRuns, [Next]_vars
  PROVE Trust'
<1>1. ASSUME NEW q \in Statement, NEW k \in Kinds, Receive(q, k) PROVE Trust'
  <2>1. kind'[q] = k /\ cur' = q /\ pc' \in {"audit", "capture", "begin", "exec"}
    BY <1>1, ReceiveTouches DEF TypeOK
  <2>2. pc' = "exec" => ~Limited(k)
    BY <1>1 DEF Receive, SendOn
  <2>3. ~Heard' \/ pc' = "audit"
    BY <1>1, SendUnheard DEF Receive, SendOn, Ops
  <2> QED
    BY <2>1, <2>2, <2>3, TrustUnheard DEF IsLimited, Waiting
<1>2. CASE ProxyStep
  BY <1>2, TrustProxy
<1>3. CASE SessionEnds \/ Crash
  BY <1>3, TrustUnheard DEF SessionEnds, Crash, Ends, Waiting
<1>4. CASE ServerTerminates
  <2>1. pc = "dead" \/ reply = Error
    BY <1>4 DEF ServerTerminates, Lane
  <2> QED
    BY <1>4, <2>1 DEF ServerTerminates, Trust, Heard, Error, Sure, IsLimited, Waiting
<1>5. CASE ServerStep /\ ~ServerTerminates
  BY <1>5, TrustServer
<1>6. CASE OtherWrites \/ UNCHANGED vars
  BY <1>6 DEF OtherWrites, vars, serverVars, history, Trust, Heard, Sure, IsLimited
<1>7. CASE LinkBreaks
  BY <1>7, TrustUnheard
  DEF LinkBreaks, serverVars, history, Trust, Heard, Error, Sure, IsLimited
<1>8. CASE \E a \in Answer : LateAnswer(a)
  BY <1>8 DEF LateAnswer, serverVars, Trust, Heard, Sure, IsLimited, Waiting, Flow, Hand
<1> QED
  BY <1>1, <1>2, <1>3, <1>4, <1>5, <1>6, <1>7, <1>8 DEF Next

-----------------------------------------------------------------------------
(* Row-limited mutations. *)

LEMMA Untouched ==
  ASSUME NEW s \in Statement, ~Touched(s)', verdict'[s] # "allowed"
  PROVE LimitedRun(s)'
BY DEF LimitedRun, Touched, Queued, InQueue, InTransaction, Committed

\* The queue grows, and the statement is not the one in hand.
LEMMA OthersKept ==
  ASSUME TypeOK, NEW s \in Statement, LimitedRun(s), cur # s, pc # "dead",
         UNCHANGED queue \/ \E op \in Ops, t \in Statement : t # s /\ Send(op, t),
         UNCHANGED <<serverVars, link>>, verdict'[s] = verdict[s], kind'[s] = kind[s]
  PROVE LimitedRun(s)'
<1>1. /\ Len(queue) \in Nat
      /\ \A i \in 1..Len(queue) : queue'[i] = queue[i]
      /\ link # "up" => queue' = queue
      /\ Len(queue') \in Nat /\ Len(queue') >= Len(queue)
      /\ \A i \in 1..Len(queue') : i \notin 1..Len(queue) => queue'[i].of # s
  <2>1. CASE UNCHANGED queue
    BY <2>1 DEF TypeOK
  <2>2. CASE ~UNCHANGED queue
    <3>0. PICK op \in Ops, t \in Statement : t # s /\ Send(op, t)
      BY <2>2
    <3>1. Len(queue) \in Nat /\ link = "up"
      <4>1. link # "up" => queue' = queue
        BY <3>0, SendEffect
      <4>2. Len(queue) \in Nat
        BY DEF TypeOK
      <4> QED
        BY <2>2, <4>1, <4>2
    <3>2. /\ Len(queue') = Len(queue) + 1
          /\ \A i \in 1..Len(queue) : queue'[i] = queue[i]
          /\ queue'[Len(queue) + 1] = [op |-> op, of |-> t]
      BY <3>0, <3>1, SendEffect
    <3>3. queue'[Len(queue) + 1].of # s
      BY <3>0, <3>2
    <3>4. \A i \in 1..Len(queue') : i \notin 1..Len(queue) => i = Len(queue) + 1
      BY <3>1, <3>2
    <3> QED
      BY <3>1, <3>2, <3>3, <3>4
  <2> QED
    BY <2>1, <2>2
<1>2. UNCHANGED <<tx, pending, durable, rows, link>>
  BY DEF serverVars
<1>3. link # "up" => link = "down"
  BY DEF TypeOK
<1>4. InQueue(s)'
  BY <1>1, <1>2, <1>3 DEF LimitedRun, InQueue
<1>5. InTransaction(s)'
  BY <1>1, <1>2, <1>3 DEF LimitedRun, InTransaction, Undone, HasRun, Committing, LeftOpen
<1>6. Committed(s)'
  BY <1>2 DEF LimitedRun, Committed
<1> QED
  BY <1>4, <1>5, <1>6 DEF LimitedRun

\* The proxy has stopped or the link is down, and the queue is cut.
LEMMA CutKept ==
  ASSUME TypeOK, NEW s \in Statement, LimitedRun(s),
         UNCHANGED queue \/ \E n \in 0..Len(queue) : queue' = SubSeq(queue, 1, n),
         UNCHANGED <<serverVars, kind, verdict>>,
         pc' = "dead" \/ (link' = "down" /\ UNCHANGED <<pc, cur>>)
  PROVE LimitedRun(s)'
<1>1. /\ Len(queue') \in Nat /\ Len(queue) \in Nat /\ Len(queue') <= Len(queue)
      /\ \A i \in 1..Len(queue') : queue'[i] = queue[i]
  <2>1. Len(queue) \in Nat
    BY DEF TypeOK
  <2>2. CASE UNCHANGED queue
    BY <2>1, <2>2
  <2>3. CASE \E n \in 0..Len(queue) : queue' = SubSeq(queue, 1, n)
    <3>1. PICK n \in 0..Len(queue) : queue' = SubSeq(queue, 1, n)
      BY <2>3
    <3>2. Len(queue') = n /\ \A i \in 1..n : queue'[i] = queue[i]
      BY <3>1, PrefixEffect
    <3> QED
      BY <2>1, <3>2
  <2> QED
    BY <2>2, <2>3
<1>2. UNCHANGED <<tx, pending, durable, rows>>
  BY DEF serverVars
<1>4. InQueue(s)'
  <2>1. SUFFICES ASSUME NEW i \in 1..Len(queue'), queue'[i].op = "EXEC", queue'[i].of = s
                 PROVE /\ i = 1 /\ tx /\ s \notin pending \cup durable /\ verdict[s] # "allowed"
                       /\ \/ Len(queue') > 1 /\ queue'[2].op = "ROLLBACK"
                          \/ Len(queue') = 1
    BY <1>2 DEF InQueue
  <2>2. i \in 1..Len(queue) /\ queue[i].op = "EXEC" /\ queue[i].of = s
    BY <1>1, <2>1
  <2>3. /\ i = 1 /\ tx /\ s \notin pending \cup durable /\ verdict[s] # "allowed"
        /\ Len(queue) > 1 => queue[2].op = "ROLLBACK"
    BY <1>1, <2>2 DEF LimitedRun, InQueue
  <2>4. Len(queue') > 1 => queue'[2] = queue[2] /\ Len(queue) > 1
    BY <1>1
  <2>5. Len(queue') > 1 \/ Len(queue') = 1
    <3>1. \A l \in Nat : i \in 1..l => l > 1 \/ l = 1
      OBVIOUS
    <3> QED
      BY <1>1, <3>1, Zenon
  <2> QED
    BY <2>3, <2>4, <2>5
<1>5. InTransaction(s)'
  BY <1>1, <1>2 DEF LimitedRun, InTransaction, Undone, HasRun, Committing, LeftOpen
<1>6. Committed(s)'
  BY <1>2 DEF LimitedRun, Committed
<1> QED
  BY <1>4, <1>5, <1>6 DEF LimitedRun

\* The statement in hand goes on or is given up, without a command.
LEMMA CurrentQuiet ==
  ASSUME TypeOK, NEW s \in Statement, LimitedRun(s),
         pc \notin {"exec", "commit", "dead"}, UNCHANGED <<queue, serverVars, link, kind, verdict>>
  PROVE LimitedRun(s)'
<1>1. UNCHANGED <<tx, pending, durable, rows>>
  BY DEF serverVars
<1>2. InQueue(s)'
  BY <1>1 DEF LimitedRun, InQueue
<1>3. InTransaction(s)'
  BY <1>1 DEF LimitedRun, InTransaction, Undone, HasRun, Committing, LeftOpen
<1>4. Committed(s)'
  BY <1>1 DEF LimitedRun, Committed
<1> QED
  BY <1>2, <1>3, <1>4 DEF LimitedRun

\* A limited mutation that has not been decided is not committed before its
\* COMMIT is sent.
LEMMA NotYet ==
  ASSUME TypeOK, Flow, cur \in Statement, LimitedRun(cur), pc \in {"exec", "undo"}
  PROVE cur \notin durable
<1>1. verdict[cur] = "none"
  BY DEF Flow, Hand
<1> QED
  BY <1>1 DEF LimitedRun, Committed

LEMMA LimitedBegins ==
  ASSUME TypeOK, Flow, Lane, Trust, BeginDone, Sure(cur), LimitedRun(cur)
  PROVE LimitedRun(cur)'
<1>1. /\ cur \in Statement /\ Send("EXEC", cur) /\ pc' = "exec" /\ Heard /\ pc = "begin"
      /\ UNCHANGED <<kind, cur, verdict, serverVars, link>>
  BY InHand DEF BeginDone, Heard
<1>2. ~doubt
  BY <1>1 DEF Trust, Waiting
<1>3. link = "up" /\ Len(queue) = 0 /\ tx
  BY <1>1, <1>2 DEF Lane, Trust, Heard, Error, TypeOK
<1>4. Len(queue') = 1
  <2>1. Len(queue') = Len(queue) + 1
    BY <1>1, <1>3, SendEffect DEF Ops
  <2> QED
    BY <1>3, <2>1
<1>5. ~Touched(cur) /\ verdict[cur] = "none"
  BY <1>1 DEF Flow, Hand
<1>6. UNCHANGED <<tx, pending, durable, rows>>
  BY <1>1 DEF serverVars
<1>7. InQueue(cur)'
  BY <1>1, <1>3, <1>4, <1>5, <1>6 DEF InQueue, Touched
<1>8. InTransaction(cur)' /\ Committed(cur)'
  BY <1>1, <1>5, <1>6 DEF InTransaction, Committed, Touched
<1> QED
  BY <1>1, <1>7, <1>8 DEF LimitedRun

LEMMA LimitedAnswered ==
  ASSUME TypeOK, Flow, Lane, Trust, ExecDone, IsLimited(cur), Sure(cur), LimitedRun(cur)
  PROVE LimitedRun(cur)'
<1>1. /\ cur \in Statement /\ Heard /\ pc = "exec" /\ reply.is = "ok"
      /\ UNCHANGED <<kind, cur, verdict, serverVars, link>>
  BY InHand DEF ExecDone, Heard, IsLimited
<1>2. ~doubt
  BY <1>1 DEF Trust
<1>3. link = "up" /\ Len(queue) = 0
  BY <1>1, <1>2 DEF Lane, Error, TypeOK
<1>4. kind[cur] # "returning" /\ reply.n = rows[cur]
  BY <1>1 DEF Trust
<1>5. verdict[cur] = "none" /\ cur \notin durable
  BY <1>1, NotYet DEF Flow, Hand
<1>6. UNCHANGED <<tx, pending, durable, rows>>
  BY <1>1 DEF serverVars
<1>7. Committed(cur)'
  BY <1>1, <1>5, <1>6 DEF Committed
<1>8. ASSUME NEW op \in {"ROLLBACK", "COMMIT"}, Send(op, cur)
      PROVE InQueue(cur)' /\ Len(queue') = 1 /\ queue'[1].op = op
  <2>1. Len(queue') = Len(queue) + 1 /\ queue'[Len(queue) + 1] = [op |-> op, of |-> cur]
    BY <1>1, <1>3, <1>8, SendEffect DEF Ops
  <2>2. Len(queue') = 1 /\ queue'[1].op = op
    BY <1>3, <2>1
  <2> QED
    BY <2>2 DEF InQueue
<1>9. CASE OverLimit(kind[cur], reply.n)
  <2>0. Send("ROLLBACK", cur)
    BY <1>9 DEF ExecDone
  <2>1. Undone'
    BY <1>8, <2>0 DEF Undone
  <2> QED
    BY <1>1, <1>7, <1>8, <2>0, <2>1 DEF LimitedRun, InTransaction
<1>10. CASE ~OverLimit(kind[cur], reply.n)
  <2>1. Send("COMMIT", cur) /\ pc' = "commit"
    BY <1>10 DEF ExecDone, IsLimited
  <2>2. rows[cur] <= Limit
    <3>1. rows[cur] \in Nat /\ Limit \in Nat
      <4>1. rows[cur] \in RowCounts \cup {0}
        <5>1. rows \in [Statement -> RowCounts \cup {0}]
          BY DEF TypeOK
        <5> QED
          BY <1>1, <5>1
      <4>2. Limit # Unlimited
        BY DEF IsLimited, Limited
      <4>3. rows[cur] \in Nat
        <5>1. RowCounts \cup {0} \subseteq Nat
          OBVIOUS
        <5> QED
          BY <4>1, <5>1, Zenon
      <4>4. Limit \in Nat
        BY <4>2
      <4> QED
        BY <4>3, <4>4
    <3>2. ~(rows[cur] > Limit)
      BY <1>4, <1>10 DEF OverLimit, IsLimited
    <3> QED
      BY <3>1, <3>2
  <2>3. Committing(cur)'
    BY <1>1, <1>4, <1>5, <1>6, <1>8, <2>1, <2>2 DEF Committing
  <2> QED
    BY <1>1, <1>7, <1>8, <2>1, <2>3 DEF LimitedRun, InTransaction
<1> QED
  BY <1>9, <1>10

LEMMA LimitedReturns ==
  ASSUME TypeOK, Flow, Lane, Trust, RowsDone, IsLimited(cur), Sure(cur), LimitedRun(cur)
  PROVE LimitedRun(cur)'
<1>1. /\ cur \in Statement /\ Heard /\ pc = "exec" /\ reply.is = "rows" /\ Decided("allowed")
      /\ UNCHANGED <<kind, cur, queue, serverVars, link>>
  BY InHand DEF RowsDone, Heard
<1>2. ~doubt
  BY <1>1 DEF Trust
<1>3. Len(queue) = 0
  BY <1>1, <1>2 DEF Lane, Error, TypeOK
<1>4. kind[cur] = "returning"
  BY <1>1 DEF Trust
<1>5. verdict'[cur] = "allowed"
  BY <1>1 DEF Decided, TypeOK
<1>6. UNCHANGED <<tx, pending, durable, rows>>
  BY <1>1 DEF serverVars
<1> QED
  BY <1>1, <1>3, <1>4, <1>5, <1>6
  DEF LimitedRun, InQueue, InTransaction, LeftOpen, Committed

LEMMA LimitedFails ==
  ASSUME TypeOK, Flow, NEW v \in {"error", "timeout"}, ExecFails(v), IsLimited(cur),
         LimitedRun(cur)
  PROVE LimitedRun(cur)'
<1>1. /\ cur \in Statement /\ Send("ROLLBACK", cur) /\ pc = "exec" /\ pc' = "cleanup"
      /\ Decided(v)
      /\ UNCHANGED <<kind, cur, serverVars, link>>
  BY InHand DEF ExecFails, Undo, IsLimited
<1>2. verdict'[cur] = v /\ cur \notin durable /\ verdict[cur] = "none"
  BY <1>1, NotYet DEF Decided, TypeOK, Flow, Hand
<1>3. UNCHANGED <<tx, pending, durable, rows>>
  BY <1>1 DEF serverVars
<1>4. Committed(cur)'
  BY <1>1, <1>2, <1>3 DEF Committed
<1>5. CASE link # "up"
  <2>1. UNCHANGED queue /\ link = "down"
    BY <1>1, <1>5, SendEffect DEF Ops, TypeOK
  <2>2. InQueue(cur)'
    BY <1>1, <1>2, <1>3, <2>1 DEF LimitedRun, InQueue
  <2>3. InTransaction(cur)'
    BY <1>1, <1>2, <1>3, <2>1
    DEF LimitedRun, InTransaction, Undone, HasRun, Committing, LeftOpen
  <2> QED
    BY <1>1, <1>4, <2>2, <2>3 DEF LimitedRun
<1>6. CASE link = "up"
  <2>1. /\ Len(queue) \in Nat
        /\ Len(queue') = Len(queue) + 1
        /\ queue'[Len(queue) + 1] = [op |-> "ROLLBACK", of |-> cur]
        /\ \A i \in 1..Len(queue) : queue'[i] = queue[i]
    BY <1>1, <1>6, SendEffect DEF Ops, TypeOK
  <2>2. queue'[Len(queue) + 1].op = "ROLLBACK"
    BY <2>1
  <2>3. InQueue(cur)'
    <3>1. SUFFICES ASSUME NEW i \in 1..Len(queue'), queue'[i].op = "EXEC", queue'[i].of = cur
                   PROVE /\ i = 1 /\ tx /\ cur \notin pending \cup durable
                         /\ Len(queue') > 1 /\ queue'[2].op = "ROLLBACK"
      BY <1>1, <1>2, <1>3 DEF InQueue
    <3>2. i \in 1..Len(queue)
      BY <2>1, <2>2, <3>1
    <3>3. /\ i = 1 /\ tx /\ cur \notin pending \cup durable
          /\ Len(queue) = 1 \/ (Len(queue) > 1 /\ queue[2].op = "ROLLBACK")
      BY <2>1, <3>1, <3>2 DEF LimitedRun, InQueue
    <3>4. Len(queue') > 1 /\ queue'[2].op = "ROLLBACK"
      BY <2>1, <2>2, <3>3
    <3> QED
      BY <3>3, <3>4
  <2>4. InTransaction(cur)'
    <3>1. SUFFICES ASSUME cur \in pending PROVE Undone'
      BY <1>1, <1>3 DEF InTransaction
    <3>2. Undone \/ Len(queue) = 0
      BY <1>1, <1>2, <3>1
      DEF LimitedRun, InTransaction, Undone, HasRun, Committing, LeftOpen
    <3> QED
      BY <2>1, <2>2, <3>2 DEF Undone
  <2> QED
    BY <1>1, <1>4, <2>3, <2>4 DEF LimitedRun
<1> QED
  BY <1>5, <1>6

LEMMA LimitedSettles ==
  ASSUME TypeOK, Flow, Lane, Trust, Settled, IsLimited(cur), Sure(cur), LimitedRun(cur)
  PROVE LimitedRun(cur)'
<1>1. cur \in Statement /\ UNCHANGED <<kind, cur, queue, serverVars, link>>
  BY InHand DEF Settled
<1>2. UNCHANGED <<tx, pending, durable, rows>>
  BY <1>1 DEF serverVars
<1>3. CASE pc = "undo"
  <2>1. verdict'[cur] = "overlimit" /\ cur \notin durable /\ verdict[cur] = "none"
    BY <1>1, <1>3, NotYet DEF Settled, Decided, TypeOK, Flow, Hand
  <2>2. InQueue(cur)'
    BY <1>1, <1>2, <1>3, <2>1 DEF LimitedRun, InQueue
  <2>3. InTransaction(cur)'
    BY <1>1, <1>2, <1>3, <2>1
    DEF LimitedRun, InTransaction, Undone, HasRun, Committing, LeftOpen
  <2> QED
    BY <1>1, <1>2, <2>1, <2>2, <2>3 DEF LimitedRun, Committed
<1>4. CASE pc = "commit"
  <2>1. verdict'[cur] = "allowed" /\ Heard /\ verdict[cur] = "none"
    BY <1>1, <1>4 DEF Settled, Decided, TypeOK, Heard, Flow, Hand
  <2>2. ~doubt /\ cur \in durable
    BY <1>4, <2>1 DEF Trust
  <2>3. link = "up" /\ Len(queue) = 0
    BY <1>4, <2>1, <2>2 DEF Lane, Heard, Error, TypeOK
  <2>4. kind[cur] # "returning" /\ rows[cur] <= Limit
    BY <2>1, <2>2 DEF LimitedRun, Committed
  <2>5. cur \notin pending
    BY <1>4, <2>1, <2>3 DEF LimitedRun, InTransaction, Undone, HasRun, Committing, LeftOpen
  <2> QED
    BY <1>1, <1>2, <2>1, <2>2, <2>3, <2>4, <2>5
    DEF LimitedRun, InQueue, InTransaction, Committed
<1>5. CASE pc = "cleanup"
  BY <1>1, <1>5, CurrentQuiet DEF Settled
<1> QED
  BY <1>3, <1>4, <1>5 DEF Settled

LEMMA LimitedProxy ==
  ASSUME TypeOK, Flow, Lane, Trust, ProxyStep, NEW s \in Statement,
         IsLimited(s), Sure(s), LimitedRun(s)
  PROVE LimitedRun(s)'
<1>h. HandStep
  BY HandByProxy
<1>p. pc # "dead"
  BY DEF ProxyStep, CaptureDone, WriteArtifact, BeginDone, ExecDone, RowsDone, ExecError,
         ExecFails, Settled, TimeOut, Tell, Audit, Refuse, Fail
<1>1. CASE Fail
  BY <1>1, CutKept DEF Fail, Ends
<1>2. CASE ~Fail /\ cur # s
  <2>1. UNCHANGED queue \/ \E op \in Ops : cur \in Statement /\ Send(op, cur)
    BY <1>2, InHand
    DEF ProxyStep, CaptureDone, WriteArtifact, SendOn, BeginDone, ExecDone, RowsDone, ExecError,
        ExecFails, Undo, Settled, TimeOut, Tell, Audit, Refuse, Ops
  <2> QED
    BY <1>2, <1>h, <1>p, <2>1, OthersKept DEF HandStep
<1>3. CASE ~Fail /\ cur = s
  <2>1. CASE CaptureDone
    BY <2>1, CurrentQuiet DEF CaptureDone
  <2>2. CASE WriteArtifact
    <3>1. Send("BEGIN", s) /\ UNCHANGED <<serverVars, verdict>> /\ pc = "artifact"
      BY <1>3, <2>2 DEF WriteArtifact, SendOn, IsLimited
    <3>2. ~Touched(s) /\ verdict[s] = "none"
      BY <1>3, <3>1 DEF Flow, Hand
    <3> QED
      BY <3>1, <3>2, TouchedBySend, Untouched DEF Ops
  <2>3. CASE BeginDone
    BY <1>3, <2>3, LimitedBegins DEF BeginDone
  <2>4. CASE ExecDone
    BY <1>3, <2>4, LimitedAnswered DEF ExecDone
  <2>5. CASE RowsDone
    BY <1>3, <2>5, LimitedReturns DEF RowsDone
  <2>6. ASSUME NEW v \in {"error", "timeout"}, ExecFails(v) PROVE LimitedRun(s)'
    BY <1>3, <2>6, LimitedFails DEF ExecFails
  <2>7. CASE ExecError
    BY <2>6, <2>7 DEF ExecError
  <2>8. CASE Settled
    BY <1>3, <2>8, LimitedSettles DEF Settled
  <2>9. CASE TimeOut
    <3>1. CASE ExecFails("timeout")
      BY <2>6, <3>1
    <3>2. CASE ~ExecFails("timeout")
      BY <2>9, <3>2, CurrentQuiet DEF TimeOut
    <3> QED
      BY <3>1, <3>2
  <2>10. CASE Tell \/ Audit \/ Refuse
    <3>1. pc \in {"tell", "audit", "refuse"}
          /\ UNCHANGED <<queue, serverVars, link, kind, verdict>>
      BY <2>10 DEF Tell, Audit, Refuse
    <3> QED
      BY <3>1, CurrentQuiet
  <2> QED
    BY <1>3, <2>1, <2>2, <2>3, <2>4, <2>5, <2>7, <2>8, <2>9, <2>10 DEF ProxyStep
<1> QED
  BY <1>1, <1>2, <1>3

\* What a command that is run does to the changes of one statement.
AtHead(s) == queue[1].op = "EXEC" /\ queue[1].of = s

ServerMoves(s) ==
  /\ durable \subseteq durable'
  /\ s \in pending' => s \in pending \/ (AtHead(s) /\ tx)
  /\ s \in durable' =>
       s \in durable \/ (s \in pending /\ queue[1].op # "ROLLBACK") \/ (AtHead(s) /\ ~tx)
  /\ rows'[s] = rows[s] \/ AtHead(s)
  /\ queue[1].op \in {"ROLLBACK", "COMMIT"} => pending' = {}

LEMMA ServerEffect ==
  ASSUME TypeOK, ServerStep, ~ServerTerminates, NEW s \in Statement
  PROVE ServerMoves(s)
<1>1. CASE ServerBegins
  <2>1. queue[1].op = "BEGIN"
    BY <1>1, RunEffect DEF ServerBegins
  <2> QED
    BY <1>1, <2>1 DEF ServerBegins, Commits, ServerMoves
<1>2. CASE ServerCommits
  <2>1. queue[1].op = "COMMIT"
    BY <1>2, RunEffect DEF ServerCommits
  <2> QED
    BY <1>2, <2>1 DEF ServerCommits, Commits, ServerMoves
<1>3. CASE ServerRollsBack
  <2>1. queue[1].op = "ROLLBACK"
    BY <1>3, RunEffect DEF ServerRollsBack
  <2> QED
    BY <1>3, <2>1 DEF ServerRollsBack, Forgets, ServerMoves
<1>4. CASE ServerRefuses
  <2>1. queue[1].op \in {"READ", "EXEC"}
    BY <1>4, RunEffect DEF ServerRefuses
  <2>2. Forgets \/ UNCHANGED <<pending, durable, rows>>
    BY <1>4 DEF ServerRefuses, serverVars
  <2> QED
    BY <2>1, <2>2 DEF Forgets, ServerMoves
<1>5. ASSUME NEW v \in Versions, ServerReads(v) PROVE ServerMoves(s)
  <2>1. queue[1].op = "READ"
    BY <1>5, RunEffect DEF ServerReads
  <2> QED
    BY <1>5, <2>1 DEF ServerReads, Reads, ServerMoves
<1>6. ASSUME NEW q \in Statement, NEW n \in RowCounts, ServerExecutes(q, n)
      PROVE ServerMoves(s)
  <2>1. queue[1].op = "EXEC" /\ queue[1].of = q
    <3>1. PICK a : Run("EXEC", a) /\ Head(queue).of = q
      BY <1>6 DEF ServerExecutes, Runs
    <3> QED
      BY <3>1, RunEffect
  <2>2. CASE Changes(q, n)
    <3>1. s # q => rows'[s] = rows[s]
      BY <2>2 DEF Changes, TypeOK
    <3> QED
      BY <2>1, <2>2, <3>1 DEF Changes, ServerMoves, AtHead
  <2>3. CASE Reads(version)
    BY <2>1, <2>3 DEF Reads, ServerMoves
  <2>4. CASE Forgets
    BY <2>1, <2>4 DEF Forgets, ServerMoves
  <2>5. CASE Commits(TRUE) \/ Commits(FALSE)
    BY <2>1, <2>5 DEF Commits, ServerMoves
  <2> QED
    BY <1>6, <2>2, <2>3, <2>4, <2>5 DEF ServerExecutes
<1> QED
  BY <1>1, <1>2, <1>3, <1>4, <1>5, <1>6 DEF ServerStep

LEMMA LimitedServer ==
  ASSUME TypeOK, ServerStep, ~ServerTerminates, NEW s \in Statement, LimitedRun(s)
  PROVE LimitedRun(s)'
<1>1. PICK op \in Ops, a \in Answer : Run(op, a) /\ a.is # "none"
  BY ServerRuns
<1>2. /\ Len(queue) \in Nat /\ Len(queue) > 0 /\ Len(queue') = Len(queue) - 1
      /\ \A i \in 1..Len(queue') : queue'[i] = queue[i + 1]
      /\ ProxySame
  BY <1>1, RunEffect, QueuedByRun
<1>3. ServerMoves(s)
  BY ServerEffect
<1>4. InQueue(s)'
  <2>1. SUFFICES ASSUME NEW i \in 1..Len(queue'), queue'[i].op = "EXEC", queue'[i].of = s
                 PROVE FALSE
    BY DEF InQueue
  <2>2. i + 1 \in 1..Len(queue) /\ queue'[i] = queue[i + 1] /\ i + 1 # 1
    BY <1>2
  <2> QED
    BY <2>1, <2>2 DEF LimitedRun, InQueue
<1>h. AtHead(s) =>
        /\ tx /\ s \notin pending \cup durable
        /\ \/ Len(queue) > 1 /\ queue[2].op = "ROLLBACK"
           \/ Len(queue) = 1 /\ (pc = "dead" \/ link = "down" \/ (pc = "exec" /\ cur = s))
  <2>1. 1 \in 1..Len(queue)
    BY <1>2
  <2> QED
    BY <2>1 DEF AtHead, LimitedRun, InQueue
<1>5. InTransaction(s)'
  <2>1. SUFFICES ASSUME s \in pending'
                 PROVE Undone' \/ HasRun(s)' \/ LeftOpen(s)'
    BY DEF InTransaction
  <2>2. CASE AtHead(s)
    <3>1. CASE Len(queue) > 1 /\ queue[2].op = "ROLLBACK"
      <4>1. Len(queue') > 0 /\ queue'[1] = queue[1 + 1]
        BY <1>2, <3>1
      <4> QED
        BY <3>1, <4>1 DEF Undone
    <3>2. CASE Len(queue) = 1 /\ (pc = "dead" \/ link = "down" \/ (pc = "exec" /\ cur = s))
      BY <1>2, <3>2 DEF HasRun, ProxySame
    <3> QED
      BY <1>h, <2>2, <3>1, <3>2
  <2>3. CASE ~AtHead(s)
    <3>1. s \in pending /\ ~Undone /\ ~Committing(s)
      BY <1>2, <1>3, <2>1, <2>3 DEF ServerMoves, Undone, Committing
    <3>2. ~HasRun(s)
      BY <1>2 DEF HasRun
    <3> QED
      BY <1>2, <3>1, <3>2 DEF LimitedRun, InTransaction, LeftOpen, ProxySame
  <2> QED
    BY <2>2, <2>3
<1>6. Committed(s)'
  <2>1. durable \subseteq durable' /\ UNCHANGED <<kind, verdict, pc, cur>>
    BY <1>2, <1>3 DEF ServerMoves, ProxySame
  <2>2. CASE s \in durable
    <3>1. rows'[s] = rows[s]
      BY <1>3, <1>h, <2>2 DEF ServerMoves
    <3> QED
      BY <2>1, <2>2, <3>1 DEF LimitedRun, Committed
  <2>3. CASE s \notin durable
    <3>1. CASE s \in durable'
      <4>1. ~AtHead(s) /\ s \in pending /\ queue[1].op # "ROLLBACK" /\ rows'[s] = rows[s]
        BY <1>3, <1>h, <2>3, <3>1 DEF ServerMoves
      <4>2. Committing(s) \/ LeftOpen(s)
        BY <1>2, <4>1 DEF LimitedRun, InTransaction, Undone, HasRun
      <4> QED
        BY <2>1, <3>1, <4>1, <4>2 DEF Committing, LeftOpen, Committed
    <3>2. CASE s \notin durable'
      BY <2>1, <2>3, <3>2 DEF LimitedRun, Committed
    <3> QED
      BY <3>1, <3>2
  <2> QED
    BY <2>2, <2>3
<1> QED
  BY <1>4, <1>5, <1>6 DEF LimitedRun

LEMMA NextLimited ==
  ASSUME TypeOK, Flow, Lane, Trust, LimitedRuns, [Next]_vars
  PROVE LimitedRuns'
<1> SUFFICES ASSUME NEW s \in Statement, IsLimited(s)', Sure(s)' PROVE LimitedRun(s)'
  BY DEF LimitedRuns, LimitedRun
<1>s. IsLimited(s) /\ Sure(s) => LimitedRun(s)
  BY DEF LimitedRuns, LimitedRun
<1>1. ASSUME NEW q \in Statement, NEW k \in Kinds, Receive(q, k) PROVE LimitedRun(s)'
  <2>1. /\ pc = "idle" /\ cur = None /\ kind[q] = "new"
        /\ UNCHANGED <<serverVars, link, doubtful>>
    BY <1>1 DEF Receive, TypeOK
  <2>2. CASE s = q
    <3>1. ~Touched(s) /\ verdict[s] = "none"
      BY <2>1, <2>2 DEF Flow, Hand
    <3>2. Limited(k)
      BY <1>1, <2>2, ReceiveTouches DEF IsLimited, TypeOK
    <3>3. pc' # "exec" /\ verdict'[s] # "allowed"
      BY <1>1, <2>2, <3>1, <3>2 DEF Receive, SendOn, TypeOK
    <3> QED
      BY <1>1, <2>2, <3>1, <3>3, ReceiveTouches, Untouched
  <2>3. CASE s # q
    <3>1. kind'[s] = kind[s] /\ verdict'[s] = verdict[s]
      BY <1>1, <2>3, ReceiveTouches DEF TypeOK
    <3>2. UNCHANGED queue \/ \E op \in Ops : Send(op, q)
      BY <1>1 DEF Receive, SendOn, Ops
    <3>3. LimitedRun(s)
      BY <1>s, <2>1, <3>1 DEF IsLimited, Sure
    <3>4. cur # s /\ pc # "dead"
      BY <2>1
    <3> QED
      BY <2>1, <2>3, <3>1, <3>2, <3>3, <3>4, OthersKept
  <2> QED
    BY <2>2, <2>3
<1>2. CASE ProxyStep
  <2>1. UNCHANGED <<kind, doubtful>>
    BY <1>2, HandByProxy DEF HandStep, history
  <2> QED
    BY <1>s, <1>2, <2>1, LimitedProxy DEF IsLimited, Sure
<1>3. CASE SessionEnds \/ Crash \/ LinkBreaks
  <2>1. UNCHANGED <<kind, doubtful, serverVars, verdict>>
    BY <1>3 DEF SessionEnds, Crash, LinkBreaks, Ends, history
  <2>2. LimitedRun(s)
    BY <1>s, <2>1 DEF IsLimited, Sure
  <2>3. UNCHANGED queue \/ \E n \in 0..Len(queue) : queue' = SubSeq(queue, 1, n)
    BY <1>3 DEF SessionEnds, Crash, LinkBreaks
  <2>4. pc' = "dead" \/ (link' = "down" /\ UNCHANGED <<pc, cur>>)
    BY <1>3 DEF SessionEnds, Crash, LinkBreaks, Ends
  <2> QED
    BY <2>1, <2>2, <2>3, <2>4, CutKept
<1>4. CASE ServerTerminates
  <2>1. LimitedRun(s) /\ Len(queue) = 0 /\ pending' = {}
        /\ UNCHANGED <<kind, pc, cur, verdict, queue, durable, rows, link>>
    BY <1>s, <1>4 DEF ServerTerminates, Forgets, IsLimited, Sure
  <2> QED
    BY <2>1 DEF LimitedRun, InQueue, InTransaction, Committed
<1>5. CASE ServerStep /\ ~ServerTerminates
  <2>1. LimitedRun(s)
    BY <1>s, <1>5, TouchedByServer DEF ProxySame, IsLimited, Sure
  <2> QED
    BY <1>5, <2>1, LimitedServer
<1>6. CASE OtherWrites \/ UNCHANGED vars \/ \E a \in Answer : LateAnswer(a)
  <2>1. /\ UNCHANGED <<kind, pc, cur, verdict, queue, serverVars, link>>
        /\ doubtful \subseteq doubtful'
    BY <1>6 DEF OtherWrites, LateAnswer, vars, history
  <2>2. LimitedRun(s)
    BY <1>s, <2>1 DEF IsLimited, Sure
  <2> QED
    BY <2>1, <2>2 DEF serverVars, LimitedRun, InQueue, InTransaction, Undone, HasRun,
                      Committing, LeftOpen, Committed
<1> QED
  BY <1>1, <1>2, <1>3, <1>4, <1>5, <1>6 DEF Next

-----------------------------------------------------------------------------
(* Before-images. *)

LEMMA RowNumbers ==
  ASSUME TypeOK
  PROVE /\ version \in Nat /\ (view # None => view \in Nat)
        /\ \A s \in Statement : /\ since[s] \in Nat
                                /\ image[s] # None => image[s] \in Nat
<1>1. version \in Versions /\ view \in Versions \cup {None} /\ since \in [Statement -> Versions]
      /\ image \in [Statement -> Nat \cup {None}]
  BY DEF TypeOK
<1>2. Versions \subseteq Nat
  BY DEF Versions
<1> QED
  BY <1>1, <1>2

\* The views the upstream can come to have.
LEMMA ViewsOf ==
  ASSUME TypeOK, ServerStep
  PROVE view' \in {view, None, version} /\ version' = version
<1>1. ASSUME NEW v \in Versions, ServerReads(v)
      PROVE view' \in {view, None, version} /\ version' = version
  BY <1>1 DEF ServerReads, Reads
<1>2. ASSUME NEW s \in Statement, NEW n \in RowCounts, ServerExecutes(s, n)
      PROVE view' \in {view, None, version} /\ version' = version
  BY <1>2 DEF ServerExecutes, Changes, Reads, Commits, Forgets
<1>3. CASE ServerBegins \/ ServerCommits \/ ServerRollsBack \/ ServerRefuses \/ ServerTerminates
  BY <1>3 DEF ServerBegins, ServerCommits, ServerRollsBack, ServerRefuses, ServerTerminates,
              Commits, Forgets, serverVars
<1> QED
  BY <1>1, <1>2, <1>3 DEF ServerStep

LEMMA ReadingServer ==
  ASSUME TypeOK, Lane, Trust, Reading, ServerStep
  PROVE Reading'
<1>0. ProxySame
  BY TouchedByServer
<1>1. view' \in {view, None, version} /\ version' = version
  BY ViewsOf
<1>2. version \in Nat /\ (view # None => view \in Nat)
  BY RowNumbers
<1>3. view' # None => view' <= version'
  BY <1>1, <1>2 DEF Reading
<1>4. pc' = "capture" /\ ~doubt' =>
        since'[cur'] <= version' /\ (view' # None => since'[cur'] <= view')
  BY <1>0, <1>1, <1>2 DEF Reading, ProxySame
<1>5. ASSUME pc = "capture", reply'.is = "rows", Sure(cur)
      PROVE since[cur] <= reply'.n /\ reply'.n <= version
  <2>1. CASE reply' = reply
    BY <1>5, <2>1 DEF Reading
  <2>2. CASE reply' # reply
    <3>1. ~ServerTerminates
      BY <2>2 DEF ServerTerminates
    <3>2. PICK op \in Ops, a \in Answer : Run(op, a) /\ a.is # "none"
      BY <3>1, ServerRuns
    <3>3. /\ ~doubt /\ link = "up" /\ pc # "dead" /\ op = "READ" /\ queue[1].op = op
      BY <1>5, <2>2, <3>2, LaneByRun, RunEffect DEF Awaited, TypeOK
    <3>4. ~ServerRefuses
      <4>1. ServerRefuses => reply' = Error
        BY <3>3, LaneByRun DEF ServerRefuses, Error
      <4> QED
        BY <1>5, <4>1 DEF Error
    <3>5. PICK v \in Versions : ServerReads(v)
      BY <3>1, <3>3, <3>4, RunsOf
    <3>6. reply' = Rows(v)
      <4>1. Run("READ", Rows(v)) /\ Rows(v).is # "none"
        BY <3>5 DEF ServerReads, Rows
      <4> QED
        BY <3>3, <4>1, LaneByRun
    <3>7. v \in Nat /\ v # None /\ (v = version \/ v = view)
      BY <3>5 DEF ServerReads, Reads, Versions
    <3>8. since[cur] <= v /\ v <= version
      BY <1>2, <1>5, <3>3, <3>7 DEF Reading
    <3> QED
      BY <3>6, <3>8 DEF Rows
  <2> QED
    BY <2>1, <2>2
<1> QED
  BY <1>0, <1>1, <1>3, <1>4, <1>5 DEF Reading, ProxySame, Sure

LEMMA NextReading ==
  ASSUME TypeOK, Lane, Trust, Reading, [Next]_vars
  PROVE Reading'
<1>n. version \in Nat /\ (view # None => view \in Nat)
  BY RowNumbers
<1>1. ASSUME NEW q \in Statement, NEW k \in Kinds, Receive(q, k) PROVE Reading'
  <2>1. UNCHANGED <<view, version>> /\ cur' = q
    BY <1>1 DEF Receive, serverVars
  <2>2. ASSUME pc' = "capture"
        PROVE ~Heard' /\ since'[q] = IF view = None THEN version ELSE view
    <3>1. Send("READ", q) /\ Captured(k)
      BY <1>1, <2>2 DEF Receive, SendOn
    <3>2. since' = [since EXCEPT ![q] = IF view = None THEN version ELSE view]
      BY <1>1, <3>1 DEF Receive
    <3> QED
      BY <3>1, <3>2, SendUnheard DEF TypeOK, Ops
  <2> QED
    BY <1>n, <2>1, <2>2 DEF Reading, Heard
<1>2. CASE ProxyStep \/ SessionEnds \/ Crash
  <2>1. UNCHANGED <<view, version>>
    BY <1>2, HandByProxy DEF HandStep, serverVars
  <2>2. pc' # "capture"
    BY <1>2
    DEF ProxyStep, SessionEnds, Crash, CaptureDone, WriteArtifact, SendOn, BeginDone, ExecDone,
        RowsDone, ExecError, ExecFails, Undo, Settled, TimeOut, Tell, Audit, Refuse, Released,
        Fail, Ends
  <2> QED
    BY <2>1, <2>2 DEF Reading
<1>3. CASE ServerStep
  BY <1>3, ReadingServer
<1>4. CASE OtherWrites
  <2>1. UNCHANGED <<view, pc, cur, doubt, reply, since, doubtful>> /\ version' = version + 1
    BY <1>4 DEF OtherWrites, serverVars, history
  <2>2. cur \in Statement => since[cur] \in Nat
    BY RowNumbers
  <2>3. pc = "capture" => cur \in Statement
    BY InHand
  <2>4. reply.n \in Nat
    BY Answers DEF TypeOK
  <2> QED
    BY <1>n, <2>1, <2>2, <2>3, <2>4 DEF Reading, Sure
<1>5. CASE LinkBreaks
  BY <1>5 DEF LinkBreaks, serverVars, history, Reading, Error, Sure
<1>6. CASE \E a \in Answer : LateAnswer(a)
  BY <1>6 DEF LateAnswer, serverVars, Reading, Sure
<1>7. CASE UNCHANGED vars
  BY <1>7 DEF vars, serverVars, history, Reading, Sure
<1> QED
  BY <1>1, <1>2, <1>3, <1>4, <1>5, <1>6, <1>7 DEF Next

LEMMA ReplacedByServer ==
  ASSUME TypeOK, ServerStep, NEW s \in Statement, (s \in pending \cup durable)'
  PROVE \/ s \in pending \cup durable /\ replaced'[s] = replaced[s]
        \/ kind[s] = "update" => replaced'[s] = version
<1>1. ASSUME NEW q \in Statement, NEW n \in RowCounts, ServerExecutes(q, n)
      PROVE \/ s \in pending \cup durable /\ replaced'[s] = replaced[s]
            \/ kind[s] = "update" => replaced'[s] = version
  <2>1. CASE Changes(q, n)
    BY <2>1 DEF Changes, TypeOK
  <2>2. CASE ~Changes(q, n)
    BY <1>1, <2>2 DEF ServerExecutes, Reads, Commits, Forgets
  <2> QED
    BY <2>1, <2>2
<1>2. ASSUME NEW v \in Versions, ServerReads(v)
      PROVE s \in pending \cup durable /\ replaced'[s] = replaced[s]
  BY <1>2 DEF ServerReads, Reads
<1>3. CASE ServerBegins \/ ServerCommits \/ ServerRollsBack \/ ServerRefuses \/ ServerTerminates
  BY <1>3 DEF ServerBegins, ServerCommits, ServerRollsBack, ServerRefuses, ServerTerminates,
              Commits, Forgets, serverVars
<1> QED
  BY <1>1, <1>2, <1>3 DEF ServerStep

LEMMA NextImageOf ==
  ASSUME TypeOK, Flow, Reading, [Next]_vars, NEW s \in Statement, ImageOf(s)
  PROVE ImageOf(s)'
<1>n. version \in Nat /\ (image[s] # None => image[s] \in Nat)
  BY RowNumbers
<1>1. ASSUME NEW q \in Statement, NEW k \in Kinds, Receive(q, k) PROVE ImageOf(s)'
  <2>1. UNCHANGED <<image, serverVars, version, replaced, doubtful>>
    BY <1>1 DEF Receive
  <2>2. s # q => kind'[s] = kind[s] /\ since'[s] = since[s]
    BY <1>1 DEF Receive, TypeOK
  <2>3. s = q => image[s] = None
    BY <1>1 DEF Receive, Flow, Hand
  <2> QED
    BY <2>1, <2>2, <2>3 DEF ImageOf, Sure, serverVars
<1>2. CASE ProxyStep \/ SessionEnds \/ Crash
  <2>1. UNCHANGED <<kind, pending, durable, version, since, replaced, doubtful>>
    BY <1>2, HandByProxy DEF HandStep, serverVars, history
  <2>2. CASE CaptureDone /\ s = cur
    <3>1. cur \in Statement /\ pc = "capture" /\ image'[s] \in {reply.n, None}
          /\ (image'[s] = reply.n /\ image'[s] # None => reply.is = "rows")
      BY <2>2, InHand DEF CaptureDone, TypeOK
    <3>2. kind[s] = "update" /\ s \notin pending \cup durable
      BY <2>2, <3>1 DEF Flow, Hand, Touched
    <3>3. Sure(s) /\ image'[s] # None => since[s] <= image'[s] /\ image'[s] <= version
      BY <2>2, <3>1 DEF Reading
    <3> QED
      BY <2>1, <3>2, <3>3 DEF ImageOf, Sure
  <2>3. CASE ~(CaptureDone /\ s = cur)
    <3>1. image'[s] \in {image[s], None}
      <4>1. CASE s # cur
        BY <1>2, <4>1, HandByProxy DEF HandStep
      <4>2. CASE s = cur
        BY <1>2, <2>3, <4>2
        DEF ProxyStep, SessionEnds, Crash, WriteArtifact, BeginDone, ExecDone,
            RowsDone, ExecError, ExecFails, Settled, TimeOut, Tell, Audit, Refuse,
            Fail, Ends, TypeOK
      <4> QED
        BY <4>1, <4>2
    <3> QED
      BY <2>1, <3>1 DEF ImageOf, Sure
  <2> QED
    BY <2>2, <2>3
<1>3. CASE ServerStep
  <2>1. UNCHANGED <<kind, image, since, doubtful>> /\ version' = version
    BY <1>3, TouchedByServer, ViewsOf DEF ProxySame
  <2>2. ASSUME Sure(s), image[s] # None, (s \in pending \cup durable)'
        PROVE replaced'[s] # None /\ image[s] <= replaced'[s]
    <3>1. kind[s] = "update" /\ image[s] <= version
      BY <2>2 DEF ImageOf
    <3>2. CASE s \in pending \cup durable /\ replaced'[s] = replaced[s]
      BY <2>2, <3>2 DEF ImageOf
    <3>3. CASE replaced'[s] = version
      BY <1>n, <3>1, <3>3
    <3> QED
      BY <1>3, <2>2, <3>1, <3>2, <3>3, ReplacedByServer
  <2> QED
    BY <2>1, <2>2 DEF ImageOf, Sure
<1>4. CASE OtherWrites
  <2>1. /\ UNCHANGED <<kind, image, pending, durable, since, replaced, doubtful>>
        /\ version' = version + 1
    BY <1>4 DEF OtherWrites, serverVars, history
  <2> QED
    BY <1>n, <2>1 DEF ImageOf, Sure
<1>5. CASE LinkBreaks \/ UNCHANGED vars \/ \E a \in Answer : LateAnswer(a)
  <2>1. /\ UNCHANGED <<kind, image, pending, durable, version, since, replaced>>
        /\ doubtful \subseteq doubtful'
    BY <1>5 DEF LinkBreaks, LateAnswer, vars, serverVars, history
  <2> QED
    BY <2>1 DEF ImageOf, Sure
<1> QED
  BY <1>1, <1>2, <1>3, <1>4, <1>5 DEF Next

LEMMA NextImages ==
  TypeOK /\ Flow /\ Lane /\ Trust /\ Images /\ [Next]_vars => Images'
BY NextReading, NextImageOf DEF Images

-----------------------------------------------------------------------------
(* The theorems. *)

LEMMA InitInv == Init => IInv
<1> SUFFICES ASSUME Init PROVE IInv
  OBVIOUS
<1>1. TypeOK
  <2>1. /\ pc \in Pc /\ verdict \in [Statement -> Verdicts] /\ queue \in Seq(Command)
        /\ cur \in IF pc \in {"idle", "dead"} THEN {None} ELSE Statement
    BY DEF Init, Pc, Verdicts
  <2>2. /\ version \in Versions /\ since \in [Statement -> Versions]
        /\ rows \in [Statement -> RowCounts \cup {0}]
    BY DEF Init, Versions
  <2>3. reply \in Answer
    BY Answers DEF Init
  <2> QED
    BY <2>1, <2>2, <2>3 DEF Init, TypeOK
<1>2. Len(queue) = 0
  BY DEF Init
<1>3. Flow
  BY <1>2 DEF Init, Flow, Hand, Sure, Touched, Queued
<1>4. Lane /\ Trust
  BY <1>2 DEF Init, Lane, Trust, Waiting
<1>5. LimitedRuns
  BY <1>2 DEF Init, LimitedRuns, LimitedRun, InQueue, InTransaction, Committed
<1>6. Images
  BY DEF Init, Images, Reading, ImageOf, Sure
<1> QED
  BY <1>1, <1>3, <1>4, <1>5, <1>6 DEF IInv

LEMMA NextInv == IInv /\ [Next]_vars => IInv'
BY NextType, NextFlow, NextLane, NextTrust, NextLimited, NextImages DEF IInv

\* What the invariant says is told and committed.
LEMMA InvImplies == IInv => OverLimitNeverDurable /\ VerdictIsTrue /\ ImageIsOfTheStatement
<1> SUFFICES ASSUME IInv PROVE OverLimitNeverDurable /\ VerdictIsTrue /\ ImageIsOfTheStatement
  OBVIOUS
<1>1. \A s \in Statement \ doubtful : Limited(kind[s]) => Committed(s)
  BY DEF IInv, LimitedRuns, LimitedRun, IsLimited, Sure
<1>2. OverLimitNeverDurable
  <2>1. SUFFICES ASSUME NEW s \in durable \ doubtful, Limited(kind[s]), rows[s] > Limit,
                        kind[s] # "returning"
                 PROVE FALSE
    BY DEF OverLimitNeverDurable
  <2>2. s \in Statement \ doubtful
    BY <2>1 DEF IInv, TypeOK
  <2>3. rows[s] <= Limit
    BY <1>1, <2>1, <2>2 DEF Committed
  <2>4. Limit \in Nat
    BY <2>1 DEF Limited
  <2>5. rows[s] \in Nat
    <3>1. rows \in [Statement -> RowCounts \cup {0}]
      BY DEF IInv, TypeOK
    <3>2. RowCounts \cup {0} \subseteq Nat
      OBVIOUS
    <3> QED
      BY <2>2, <3>1, <3>2, Zenon
  <2> QED
    BY <2>1, <2>3, <2>4, <2>5
<1>3. VerdictIsTrue
  BY <1>1 DEF VerdictIsTrue, Committed
<1>4. ImageIsOfTheStatement
  BY DEF ImageIsOfTheStatement, IInv, TypeOK, Images, ImageOf, Sure
<1> QED
  BY <1>2, <1>3, <1>4

\* What handle_query and the upstream session keep between them: where the
\* handler is, what is queued, and what became of each limited mutation.
THEOREM InductiveInvariant == Spec => []IInv
<1>1. Init => IInv
  BY InitInv
<1>2. IInv /\ [Next]_vars => IInv'
  BY NextInv
<1> QED
  BY <1>1, <1>2, PTL DEF Spec

\* The types hold for every number of statements and of writes by others.
THEOREM TypeCorrect == Spec => []TypeOK
<1>1. IInv => TypeOK
  BY DEF IInv
<1> QED
  BY <1>1, InductiveInvariant, PTL

\* handle_query never commits a change over the limit, wherever it is stopped,
\* whatever the client had open and whatever the upstream refuses, but for the
\* two cases the property names.
THEOREM NoOverLimitCommit == Spec => []OverLimitNeverDurable
<1>1. IInv => OverLimitNeverDurable
  BY InvImplies
<1> QED
  BY <1>1, InductiveInvariant, PTL

\* What the audit event says of a row-limited mutation is what became of it.
THEOREM VerdictsAreTrue == Spec => []VerdictIsTrue
<1>1. IInv => VerdictIsTrue
  BY InvImplies
<1> QED
  BY <1>1, InductiveInvariant, PTL

\* The image in an artifact is of the row as it was between the arrival of the
\* statement, or the view of the client's transaction, and the change.
THEOREM ImagesAreOfTheStatement == Spec => []ImageIsOfTheStatement
<1>1. IInv => ImageIsOfTheStatement
  BY InvImplies
<1> QED
  BY <1>1, InductiveInvariant, PTL

-----------------------------------------------------------------------------
(* The promise of a row-limited mutation. *)

LEMMA InitPromise == Init => Promise!Init
BY DEF Init, Promise!Init, Stage, Effect, Word, HeldTo, Limited

LEMMA SameHeld ==
  ASSUME UNCHANGED <<kind, doubtful>>, NEW s
  PROVE  (HeldTo(s)' <=> HeldTo(s)) /\ Stage(s)' = Stage(s)
BY DEF HeldTo, Stage

\* Nothing a statement held to the promise is promised has moved.
LEMMA PromiseSame ==
  ASSUME UNCHANGED <<kind, doubtful, pending, durable>>,
         \A s \in Statement : HeldTo(s) => rows'[s] = rows[s] /\ verdict'[s] = verdict[s]
  PROVE  UNCHANGED Promise!abstractVars
BY SameHeld DEF Promise!abstractVars, Effect, Word

\* A statement arrives.
LEMMA ReceiveKeepsPromise ==
  ASSUME IInv, NEW s \in Statement, NEW k \in Kinds, Receive(s, k)
  PROVE  Promise!Next
<1>1. /\ kind[s] = "new" /\ kind' = [kind EXCEPT ![s] = k]
      /\ verdict' = IF k = "refused" THEN [verdict EXCEPT ![s] = "blocked"] ELSE verdict
      /\ UNCHANGED <<pending, durable, rows, doubtful>>
  BY ReceiveTouches DEF Receive, IInv, serverVars
<1>2. s \notin pending \cup durable /\ verdict[s] = "none" /\ ~HeldTo(s)
  BY <1>1 DEF IInv, Flow, Touched, HeldTo, Limited
<1>3. kind'[s] = k /\ \A t \in Statement \ {s} : kind'[t] = kind[t]
  BY <1>1 DEF IInv, TypeOK
<1>4. HeldTo(s)' => verdict'[s] = "none"
  BY <1>1, <1>2, <1>3 DEF HeldTo, Limited
<1>5. \A t \in Statement \ {s} : verdict'[t] = verdict[t] /\ (HeldTo(t)' <=> HeldTo(t))
  BY <1>1, <1>3 DEF IInv, TypeOK, HeldTo
<1>6. \A t \in Statement : Effect(t)' = Effect(t) /\ Word(t)' = Word(t)
  BY <1>1, <1>2, <1>4, <1>5 DEF Effect, Word
<1>7. \A t \in Statement \ {s} : Stage(t)' = Stage(t)
  BY <1>3, <1>5 DEF Stage
<1>8. Stage(s) = "new" /\ Stage(s)' \in {"held", "free"}
  BY <1>1, <1>3 DEF Stage, Kinds
<1>9. Promise!Arrive(s, Stage(s)')
  BY <1>6, <1>7, <1>8 DEF Promise!Arrive
<1> QED
  BY <1>8, <1>9 DEF Promise!Next

\* The handler decides what the audit event of the statement in hand says.
LEMMA DecisionKeepsPromise ==
  ASSUME IInv, IInv', UNCHANGED <<kind, doubtful, pending, durable, rows>>,
         NEW s \in Statement, NEW v \in {"allowed", "overlimit", "error", "timeout"},
         verdict' = [verdict EXCEPT ![s] = v], verdict[s] = "none"
  PROVE  [Promise!Next]_(Promise!abstractVars)
<1>1. verdict'[s] = v /\ \A t \in Statement \ {s} : verdict'[t] = verdict[t]
  BY DEF IInv, TypeOK
<1>2. CASE ~HeldTo(s)
  BY <1>1, <1>2, PromiseSame
<1>3. CASE HeldTo(s)
  <2> DEFINE w == IF v = "allowed" THEN "allowed" ELSE "denied"
  <2>1. \A t \in Statement : Stage(t)' = Stage(t) /\ Effect(t)' = Effect(t)
    BY SameHeld DEF Effect
  <2>2. Word(s)' = w /\ \A t \in Statement \ {s} : Word(t)' = Word(t)
    BY <1>1, <1>3, SameHeld DEF Word
  <2>3. Stage(s) = "held" /\ Word(s) = "none"
    BY <1>3 DEF Stage, Word, HeldTo, Limited
  <2>4. v = "allowed" <=> s \in durable
    <3>1. IsLimited(s)' /\ kind'[s] # "returning" /\ Sure(s)'
      BY <1>3 DEF HeldTo, IsLimited, Sure
    <3>2. Committed(s)'
      BY <3>1 DEF IInv, LimitedRuns, LimitedRun
    <3> QED
      BY <1>1, <3>1, <3>2 DEF Committed
  <2>5. w = "allowed" <=> Effect(s) = "durable"
    BY <1>3, <2>4 DEF Effect
  <2>6. Promise!Say(s, w)
    BY <2>1, <2>2, <2>3, <2>5 DEF Promise!Say, Promise!Held
  <2> QED
    BY <2>6 DEF Promise!Next
<1> QED
  BY <1>2, <1>3

LEMMA ProxyKeepsPromise ==
  ASSUME IInv, IInv', ProxyStep \/ SessionEnds \/ Crash
  PROVE  [Promise!Next]_(Promise!abstractVars)
<1>1. UNCHANGED <<kind, doubtful, pending, durable, rows>>
  BY HandByProxy DEF IInv, HandStep, history, serverVars
<1>2. CASE verdict' = verdict
  BY <1>1, <1>2, PromiseSame
<1>3. CASE verdict' # verdict
  <2>1. \E v \in {"allowed", "overlimit", "error", "timeout"} :
          Decided(v) /\ pc \in {"exec", "undo", "commit"}
    BY <1>3 DEF ProxyStep, SessionEnds, Crash, CaptureDone, WriteArtifact, BeginDone, ExecDone,
                RowsDone, ExecError, ExecFails, Settled, TimeOut, Tell, Audit, Refuse, Fail, Ends
  <2>2. cur \in Statement
    BY <2>1, InHand DEF IInv
  <2>3. verdict[cur] = "none"
    BY <2>1, <2>2 DEF IInv, Flow, Hand
  <2>4. PICK s \in Statement, v \in {"allowed", "overlimit", "error", "timeout"} :
          verdict' = [verdict EXCEPT ![s] = v] /\ verdict[s] = "none"
    BY <2>1, <2>2, <2>3 DEF Decided
  <2> QED
    BY <1>1, <2>4, DecisionKeepsPromise
<1> QED
  BY <1>2, <1>3

\* A change is run: if it is held to the promise, in a transaction.
LEMMA ChangeKeepsPromise ==
  ASSUME IInv, NEW s \in Statement, NEW n \in RowCounts, ServerExecutes(s, n), Changes(s, n)
  PROVE  [Promise!Next]_(Promise!abstractVars)
<1>1. PICK a : Run("EXEC", a) /\ Head(queue).of = s
  BY DEF ServerExecutes, Runs
<1>2. UNCHANGED <<kind, doubtful, verdict>>
  BY <1>1 DEF Run
<1>3. queue[1].op = "EXEC" /\ queue[1].of = s /\ 1 \in 1..Len(queue)
  BY <1>1, RunEffect DEF IInv
<1>4. /\ rows'[s] = n /\ \A t \in Statement \ {s} : rows'[t] = rows[t]
      /\ IF tx THEN pending' = pending \cup {s} /\ durable' = durable
               ELSE durable' = durable \cup {s} /\ pending' = pending
  BY DEF Changes, IInv, TypeOK
<1>5. \A t \in Statement : /\ HeldTo(t)' <=> HeldTo(t)
                           /\ Stage(t)' = Stage(t) /\ Word(t)' = Word(t)
  BY <1>2, SameHeld DEF Word
<1>6. \A t \in Statement \ {s} : Effect(t)' = Effect(t)
  BY <1>4, <1>5 DEF Effect
<1>7. CASE ~HeldTo(s)
  <2>1. \A t \in Statement : Effect(t)' = Effect(t)
    BY <1>5, <1>6, <1>7 DEF Effect
  <2> QED
    BY <1>5, <2>1 DEF Promise!abstractVars
<1>8. CASE HeldTo(s)
  <2>1. InQueue(s)
    BY <1>8 DEF HeldTo, IInv, LimitedRuns, LimitedRun, IsLimited, Sure
  <2>2. tx /\ s \notin pending \cup durable
    BY <1>3, <2>1 DEF InQueue
  <2>3. s \in pending' /\ s \notin durable'
    BY <1>4, <2>2
  <2>4. Effect(s) = "none" /\ Effect(s)' \in {"open", "over"}
    BY <1>5, <1>8, <2>2, <2>3 DEF Effect
  <2>5. Stage(s) = "held"
    BY <1>8 DEF Stage, HeldTo, Limited
  <2>6. Promise!Change(s, Effect(s)')
    BY <1>5, <1>6, <2>4, <2>5 DEF Promise!Change, Promise!Held
  <2> QED
    BY <2>4, <2>6 DEF Promise!Next
<1> QED
  BY <1>7, <1>8

\* A command that commits what is open finds no change held to the promise but
\* one whose own COMMIT it is.
LEMMA CommitKeepsPromise ==
  ASSUME IInv, NEW op \in Ops, NEW a, Run(op, a), op # "ROLLBACK", NEW b, Commits(b)
  PROVE  Promise!Next
<1> DEFINE S == {s \in pending \ durable : HeldTo(s)}
<1>1. /\ UNCHANGED <<kind, doubtful, verdict, rows>>
      /\ durable' = durable \cup pending /\ pending' = {}
  BY DEF Run, Commits
<1>2. Len(queue) > 0 /\ queue[1].op # "ROLLBACK"
  BY RunEffect DEF IInv
<1>3. \A s \in S : s \in Statement /\ Committing(s)
  <2> SUFFICES ASSUME NEW s \in S PROVE s \in Statement /\ Committing(s)
    OBVIOUS
  <2>1. s \in Statement /\ s \in pending
    BY DEF IInv, TypeOK
  <2>2. HeldTo(s) /\ kind[s] # "returning"
    BY DEF HeldTo
  <2>3. InTransaction(s)
    BY <2>1, <2>2 DEF HeldTo, IInv, LimitedRuns, LimitedRun, IsLimited, Sure
  <2> QED
    BY <1>2, <2>1, <2>2, <2>3 DEF InTransaction, Undone, HasRun, LeftOpen
<1>4. \A s \in Statement : rows[s] \in Nat
  <2>1. rows \in [Statement -> RowCounts \cup {0}]
    BY DEF IInv, TypeOK
  <2>2. RowCounts \cup {0} \subseteq Nat
    OBVIOUS
  <2> QED
    BY <2>1, <2>2
<1>5. \A s \in Statement : /\ HeldTo(s)' <=> HeldTo(s)
                           /\ Stage(s)' = Stage(s) /\ Word(s)' = Word(s)
  BY <1>1, SameHeld DEF Word
<1>6. \A s \in S : Stage(s) = "held" /\ Effect(s) = "open" /\ Word(s) = "none"
  <2> SUFFICES ASSUME NEW s \in S
               PROVE  Stage(s) = "held" /\ Effect(s) = "open" /\ Word(s) = "none"
    OBVIOUS
  <2>1. HeldTo(s) /\ s \in pending /\ s \notin durable /\ s \in Statement
    BY <1>3
  <2>2. rows[s] <= Limit /\ verdict[s] = "none"
    BY <1>3 DEF Committing
  <2>3. ~(rows[s] > Limit)
    BY <1>4, <2>1, <2>2 DEF HeldTo, Limited
  <2> QED
    BY <2>1, <2>2, <2>3 DEF Stage, Effect, Word, HeldTo, Limited
<1>7. \A s \in Statement : Effect(s)' = IF s \in S THEN "durable" ELSE Effect(s)
  BY <1>1, <1>5 DEF Effect
<1>8. S \in SUBSET Statement
  BY <1>3
<1>9. Promise!Commit(S)
  BY <1>3, <1>5, <1>6, <1>7 DEF Promise!Commit, Promise!Becomes, Promise!Held
<1> QED
  BY <1>8, <1>9 DEF Promise!Next

\* The open transaction ends without its changes.
LEMMA UndoKeepsPromise ==
  ASSUME IInv, UNCHANGED <<kind, doubtful, verdict>>, Forgets
  PROVE  Promise!Next
<1> DEFINE S == {s \in pending \ durable : HeldTo(s)}
<1>1. S \in SUBSET Statement
  BY DEF IInv, TypeOK
<1>2. pending' = {} /\ UNCHANGED <<durable, rows>>
  BY DEF Forgets
<1>3. \A s \in Statement : /\ HeldTo(s)' <=> HeldTo(s)
                           /\ Stage(s)' = Stage(s) /\ Word(s)' = Word(s)
  BY SameHeld DEF Word
<1>4. \A s \in S : Stage(s) = "held" /\ Effect(s) \in {"open", "over"}
  BY DEF Stage, Effect, HeldTo, Limited
<1>5. \A s \in Statement : Effect(s)' = IF s \in S THEN "none" ELSE Effect(s)
  BY <1>2, <1>3 DEF Effect
<1>6. Promise!Undo(S)
  BY <1>1, <1>3, <1>4, <1>5 DEF Promise!Undo, Promise!Becomes, Promise!Held
<1> QED
  BY <1>1, <1>6 DEF Promise!Next

LEMMA ServerKeepsPromise ==
  ASSUME IInv, ServerStep
  PROVE  [Promise!Next]_(Promise!abstractVars)
<1>1. UNCHANGED <<kind, doubtful, verdict>>
  BY TouchedByServer DEF IInv, ProxySame
<1>2. ASSUME UNCHANGED <<pending, durable, rows>> PROVE UNCHANGED Promise!abstractVars
  BY <1>1, <1>2, PromiseSame
<1>3. CASE ServerBegins \/ ServerCommits
  BY <1>3, CommitKeepsPromise DEF ServerBegins, ServerCommits, Ops
<1>4. CASE ServerRollsBack \/ ServerTerminates
  BY <1>1, <1>4, UndoKeepsPromise DEF ServerRollsBack, ServerTerminates
<1>5. CASE ServerRefuses
  BY <1>1, <1>2, <1>5, UndoKeepsPromise DEF ServerRefuses, serverVars
<1>6. ASSUME NEW v \in Versions, ServerReads(v) PROVE UNCHANGED Promise!abstractVars
  BY <1>2, <1>6 DEF ServerReads, Reads
<1>7. ASSUME NEW s \in Statement, NEW n \in RowCounts, ServerExecutes(s, n)
      PROVE  [Promise!Next]_(Promise!abstractVars)
  <2>1. PICK a : Run("EXEC", a)
    BY <1>7 DEF ServerExecutes, Runs
  <2>2. CASE Changes(s, n)
    BY <1>7, <2>2, ChangeKeepsPromise
  <2>3. CASE \E b : Commits(b)
    BY <2>1, <2>3, CommitKeepsPromise DEF Ops
  <2>4. CASE Forgets
    BY <1>1, <2>4, UndoKeepsPromise
  <2>5. CASE Reads(version)
    BY <1>2, <2>5 DEF Reads
  <2> QED
    BY <1>7, <2>2, <2>3, <2>4, <2>5 DEF ServerExecutes
<1> QED
  BY <1>3, <1>4, <1>5, <1>6, <1>7 DEF ServerStep

\* An answer that may be another's lets the statement in hand go, before
\* anything was said of it.
LEMMA LateAnswerKeepsPromise ==
  ASSUME IInv, NEW a \in Answer, LateAnswer(a)
  PROVE  [Promise!Next]_(Promise!abstractVars)
<1>1. UNCHANGED <<kind, verdict, pending, durable, rows>>
  BY DEF LateAnswer, serverVars
<1>2. CASE UNCHANGED doubtful
  BY <1>1, <1>2, PromiseSame
<1>3. CASE ~UNCHANGED doubtful
  <2>1. /\ pc \in Waiting \ {"cleanup"}
        /\ doubtful' = doubtful \cup {cur}
    BY <1>3 DEF LateAnswer
  <2>2. cur \in Statement /\ verdict[cur] = "none"
    <3>1. cur \in Statement
      BY <2>1, InHand DEF IInv, Waiting
    <3> QED
      BY <2>1, <3>1 DEF IInv, Flow, Hand, Waiting
  <2>3. PICK s \in Statement : verdict[s] = "none" /\ doubtful' = doubtful \cup {s}
    BY <2>1, <2>2
  <2>4. \A t \in Statement \ {s} : /\ HeldTo(t)' <=> HeldTo(t)
                                   /\ Stage(t)' = Stage(t)
                                   /\ Effect(t)' = Effect(t)
                                   /\ Word(t)' = Word(t)
    BY <1>1, <2>3 DEF HeldTo, Stage, Effect, Word
  <2>5. /\ ~HeldTo(s)' /\ Effect(s)' = "none"
        /\ Word(s) = "none" /\ Word(s)' = "none"
    BY <1>1, <2>3 DEF HeldTo, Effect, Word
  <2>6. CASE HeldTo(s)
    <3>1. Stage(s) = "held" /\ Stage(s)' = "free"
      BY <1>1, <2>5, <2>6 DEF Stage, HeldTo, Limited
    <3>2. Promise!LetGo(s)
      BY <2>4, <2>5, <3>1 DEF Promise!LetGo, Promise!Held
    <3> QED
      BY <3>2 DEF Promise!Next
  <2>7. CASE ~HeldTo(s)
    <3>1. Stage(s)' = Stage(s) /\ Effect(s) = "none"
      BY <1>1, <2>5, <2>7 DEF Stage, Effect
    <3> QED
      BY <2>4, <2>5, <3>1 DEF Promise!abstractVars
  <2> QED
    BY <2>6, <2>7
<1> QED
  BY <1>2, <1>3

LEMMA StepPromise ==
  IInv /\ IInv' /\ [Next]_vars => [Promise!Next]_(Promise!abstractVars)
<1> SUFFICES ASSUME IInv, IInv', [Next]_vars PROVE [Promise!Next]_(Promise!abstractVars)
  OBVIOUS
<1>1. CASE OtherWrites \/ LinkBreaks \/ UNCHANGED vars
  <2>1. UNCHANGED <<kind, doubtful, pending, durable, rows, verdict>>
    BY <1>1 DEF OtherWrites, LinkBreaks, vars, serverVars, history
  <2> QED
    BY <2>1, PromiseSame
<1> QED
  BY <1>1, ReceiveKeepsPromise, ProxyKeepsPromise, ServerKeepsPromise, LateAnswerKeepsPromise
     DEF Next

\* handle_query and the upstream session keep the promise of a row-limited
\* mutation for every limit and number of statements, though calls are given up
\* and what is sent may run long after.
THEOREM KeepsRowLimitPromise == Spec => KeepsItsPromise
<1> QED
  BY InitPromise, StepPromise, InductiveInvariant, PTL
     DEF Spec, KeepsItsPromise, Promise!Spec
=============================================================================
