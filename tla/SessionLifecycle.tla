-------------------------- MODULE SessionLifecycle --------------------------
(***************************************************************************)
(* Sessions and the proxy connections that use them: admission with a      *)
(* session token, the wait for the session's end that runs beside the      *)
(* message loop, the active_connections rows, revocation, pruning, and the *)
(* proxy process stopping.  The Postgres and MySQL proxies share this      *)
(* structure (MySQL has no "describe" step).                               *)
(*                                                                         *)
(* wait_for_session_end starts afresh for every message and every query:   *)
(* its first poll of the store is issued at once, and a message or a       *)
(* result that comes before the answer discards it.                        *)
(***************************************************************************)
EXTENDS Integers

CONSTANTS Session,      \* sessions
          Connection,   \* client connections to the proxy
          Target,       \* database targets, one listener each
          SessionTtl,   \* sessions.ttl, or the target's session ttl
          Retention,    \* retention of sessions and of closed connections
          MaxTime,      \* bound on the clock
          None          \* no session

ASSUME TtlAssumption == SessionTtl \in Nat \ {0}
ASSUME RetentionAssumption == Retention \in Nat
ASSUME MaxTimeAssumption == MaxTime \in Nat
ASSUME NoneAssumption == None \notin Session /\ None \notin Target

VARIABLES
  now,      \* the clock
  sess,     \* sessions: the row of each session
  conn,     \* active_connections: the row of each connection
  pc,       \* where each connection's handler is
  at,       \* the target whose listener accepted the connection
  token,    \* the session a connection's token names
  seen,     \* the row verify_active read
  wait,     \* how far the current wait_for_session_end has come
  wasOver,  \* history: had the session ended when its token was presented
  unheard,  \* connections whose handler ended while the store was writing their row
  lost      \* history: connections that got to their loop and never heard of the close

storeVars == <<sess, conn>>
handlerVars == <<pc, at, token, seen, wait, wasOver, unheard, lost>>
vars == <<now, storeVars, handlerVars>>

Time == 0..MaxTime
SessionRow == [stored  : {"none", "stored", "pruned"},
               target  : Target \cup {None},
               expires : Nat,
               revoked : BOOLEAN]
ConnectionRow == [stored : {"none", "open", "closed", "pruned"}, closed_at : Time]
Seen == [found : BOOLEAN, target : Target \cup {None}, expires : Nat, revoked : BOOLEAN]

\* "loop" waits for a message, "query" runs handle_query, both beside
\* wait_for_session_end; "describe" runs describe_query alone.
Pc == {"idle", "verify", "check", "refused", "upstream", "register",
       "loop", "query", "describe", "telling", "closing", "gone"}
Serving == {"loop", "query", "describe", "telling"}

Nothing == [found |-> FALSE, target |-> None, expires |-> 0, revoked |-> FALSE]

\* is_active fails: what both the admission and the polls ask of a row.
Over(s) ==
  \/ sess[s].stored # "stored"
  \/ sess[s].revoked
  \/ sess[s].expires <= now

Init ==
  /\ now = 0
  /\ sess = [s \in Session |-> [stored |-> "none", target |-> None,
                                expires |-> 0, revoked |-> FALSE]]
  /\ conn = [c \in Connection |-> [stored |-> "none", closed_at |-> 0]]
  /\ pc = [c \in Connection |-> "idle"]
  /\ at = [c \in Connection |-> None]
  /\ token = [c \in Connection |-> None]
  /\ seen = [c \in Connection |-> Nothing]
  /\ wait = [c \in Connection |-> "fresh"]
  /\ wasOver = [c \in Connection |-> FALSE]
  /\ unheard = {}
  /\ lost = {}

-----------------------------------------------------------------------------
(* The store, driven by the broker and the command line. *)

\* The definitions named Faulty... are not part of the model. Each one is the
\* definition that follows it with one plausible mistake, used to confirm that
\* the properties tell the two apart.

\* The time to live is subtracted.
FaultyExpiry(s, t) ==
  /\ sess[s].stored = "none"
  /\ sess' = [sess EXCEPT ![s] = [stored |-> "stored", target |-> t,
                                  expires |-> now - SessionTtl, revoked |-> FALSE]]
  /\ UNCHANGED <<now, conn, handlerVars>>

\* The row is written over one that exists.
FaultyUpsert(s, t) ==
  /\ sess' = [sess EXCEPT ![s] = [stored |-> "stored", target |-> t,
                                  expires |-> now + SessionTtl, revoked |-> FALSE]]
  /\ UNCHANGED <<now, conn, handlerVars>>

\* new_session and create_session.
OpenSession(s, t) ==
  /\ sess[s].stored = "none"
  /\ sess' = [sess EXCEPT ![s] = [stored |-> "stored", target |-> t,
                                  expires |-> now + SessionTtl, revoked |-> FALSE]]
  /\ UNCHANGED <<now, conn, handlerVars>>

\* The revoke endpoint and `gatebase session revoke`.
RevokeSession(s) ==
  /\ sess[s].stored = "stored"
  /\ sess' = [sess EXCEPT ![s].revoked = TRUE]
  /\ UNCHANGED <<now, conn, handlerVars>>

\* prune_sessions.
PruneSessions ==
  LET old == {s \in Session : sess[s].stored = "stored" /\ sess[s].expires < now - Retention}
  IN /\ old # {}
     /\ sess' = [s \in Session |->
                   IF s \in old THEN [sess[s] EXCEPT !.stored = "pruned"] ELSE sess[s]]
     /\ UNCHANGED <<now, conn, handlerVars>>

\* Without the test that the connection is closed.
FaultyOldRows ==
  {c \in Connection : conn[c].stored \in {"open", "closed"} /\ conn[c].closed_at < now - Retention}

\* prune_active_connections: rows without disconnected_at never match.
OldRows == {c \in Connection : conn[c].stored = "closed" /\ conn[c].closed_at < now - Retention}

PruneConnections ==
  /\ OldRows # {}
  /\ conn' = [c \in Connection |->
                IF c \in OldRows THEN [conn[c] EXCEPT !.stored = "pruned"] ELSE conn[c]]
  /\ UNCHANGED <<now, sess, handlerVars>>

Tick ==
  /\ now < MaxTime
  /\ now' = now + 1
  /\ UNCHANGED <<storeVars, handlerVars>>

-----------------------------------------------------------------------------
(* Admission: handle_connection up to the message loop. *)

\* A client connects to a listener and sends a token signed for a session.
Present(c, s, t) ==
  /\ pc[c] = "idle"
  /\ sess[s].stored # "none"
  /\ at' = [at EXCEPT ![c] = t]
  /\ token' = [token EXCEPT ![c] = s]
  /\ wasOver' = [wasOver EXCEPT ![c] = Over(s)]
  /\ pc' = [pc EXCEPT ![c] = "verify"]
  /\ UNCHANGED <<now, storeVars, seen, wait, unheard, lost>>

\* verify_active reads the session's row.
ReadSession(c) ==
  /\ pc[c] = "verify"
  /\ LET row == sess[token[c]]
     IN seen' = [seen EXCEPT ![c] =
                   IF row.stored = "stored"
                   THEN [found |-> TRUE, target |-> row.target,
                         expires |-> row.expires, revoked |-> row.revoked]
                   ELSE Nothing]
  /\ pc' = [pc EXCEPT ![c] = "check"]
  /\ UNCHANGED <<now, storeVars, at, token, wait, wasOver, unheard, lost>>

\* revoked_at is not looked at.
FaultyAdmit(c) ==
  /\ pc[c] = "check"
  /\ LET active == /\ seen[c].found
                   /\ seen[c].target = at[c]
                   /\ seen[c].expires > now
     IN pc' = [pc EXCEPT ![c] = IF active THEN "upstream" ELSE "refused"]
  /\ UNCHANGED <<now, storeVars, at, token, seen, wait, wasOver, unheard, lost>>

\* It judges the row it read by the clock it reads now. Refused: one error.
Admit(c) ==
  /\ pc[c] = "check"
  /\ LET active == /\ seen[c].found
                   /\ seen[c].target = at[c]
                   /\ ~seen[c].revoked
                   /\ seen[c].expires > now
     IN pc' = [pc EXCEPT ![c] = IF active THEN "upstream" ELSE "refused"]
  /\ UNCHANGED <<now, storeVars, at, token, seen, wait, wasOver, unheard, lost>>

\* AuthenticationOk and ReadyForQuery are sent, then the upstream is called.
ConnectUpstream(c) ==
  /\ pc[c] = "upstream"
  /\ pc' = [pc EXCEPT ![c] = "register"]
  /\ UNCHANGED <<now, storeVars, at, token, seen, wait, wasOver, unheard, lost>>

\* The store commits the row that create_active_connection inserts. It may do
\* so after the handler is gone, while nobody waits for the answer.
InsertRow(c) ==
  /\ pc[c] = "register" \/ c \in unheard \ lost
  /\ conn[c].stored = "none"
  /\ conn' = [conn EXCEPT ![c].stored = "open"]
  /\ UNCHANGED <<now, sess, handlerVars>>

\* create_active_connection answers, then the loop.
Register(c) ==
  /\ pc[c] = "register"
  /\ conn[c].stored = "open"
  /\ pc' = [pc EXCEPT ![c] = "loop"]
  /\ wait' = [wait EXCEPT ![c] = "fresh"]
  /\ UNCHANGED <<now, storeVars, at, token, seen, wasOver, unheard, lost>>

\* A step before create_active_connection fails: the handler returns.
FailAdmission(c) ==
  /\ pc[c] \in {"verify", "check", "upstream"}
  /\ pc' = [pc EXCEPT ![c] = "gone"]
  /\ UNCHANGED <<now, storeVars, at, token, seen, wait, wasOver, unheard, lost>>

\* create_active_connection fails and the handler returns. The row may be there
\* all the same: the answer to the INSERT was lost, or the SELECT that SQLite
\* needs after it failed.
RegisterFails(c) ==
  /\ pc[c] = "register"
  /\ pc' = [pc EXCEPT ![c] = "gone"]
  /\ unheard' = unheard \cup {c}
  /\ UNCHANGED <<now, storeVars, at, token, seen, wait, wasOver, lost>>

-----------------------------------------------------------------------------
(* The message loop and the wait beside it. *)

\* A Query, Execute or COM_QUERY: a new wait runs beside handle_query.
StartQuery(c) ==
  /\ pc[c] = "loop"
  /\ pc' = [pc EXCEPT ![c] = "query"]
  /\ wait' = [wait EXCEPT ![c] = "fresh"]
  /\ UNCHANGED <<now, storeVars, at, token, seen, wasOver, unheard, lost>>

\* A Describe: no wait runs beside it.
StartDescribe(c) ==
  /\ pc[c] = "loop"
  /\ pc' = [pc EXCEPT ![c] = "describe"]
  /\ wait' = [wait EXCEPT ![c] = "fresh"]
  /\ UNCHANGED <<now, storeVars, at, token, seen, wasOver, unheard, lost>>

\* Any message that is answered at once: Parse, Bind, Close, Flush, Sync,
\* COM_PING, an unsupported one.
SmallMessage(c) ==
  /\ pc[c] = "loop"
  /\ wait' = [wait EXCEPT ![c] = "fresh"]
  /\ UNCHANGED <<now, storeVars, pc, at, token, seen, wasOver, unheard, lost>>

\* handle_query or describe_query is done: back to the loop, with a new wait.
Finish(c) ==
  /\ pc[c] \in {"query", "describe"}
  /\ pc' = [pc EXCEPT ![c] = "loop"]
  /\ wait' = [wait EXCEPT ![c] = "fresh"]
  /\ UNCHANGED <<now, storeVars, at, token, seen, wasOver, unheard, lost>>

\* The loop's error is returned before the row is closed.
FaultyLeave(c) ==
  /\ pc[c] \in Serving
  /\ pc' = [pc EXCEPT ![c] = "gone"]
  /\ UNCHANGED <<now, storeVars, at, token, seen, wait, wasOver, unheard, lost>>

\* Terminate, COM_QUIT, end of file, an I/O error, a failed handle_query, a
\* poll that cannot read the store: the loop returns.
Leave(c) ==
  /\ pc[c] \in Serving
  /\ pc' = [pc EXCEPT ![c] = "closing"]
  /\ UNCHANGED <<now, storeVars, at, token, seen, wait, wasOver, unheard, lost>>

\* The wait is polled for the first time: the timer is set, the row asked for.
StartWait(c) ==
  /\ pc[c] \in {"loop", "query"}
  /\ wait[c] = "fresh"
  /\ wait' = [wait EXCEPT ![c] = "waiting"]
  /\ UNCHANGED <<now, storeVars, pc, at, token, seen, wasOver, unheard, lost>>

\* Only the timer ends a session.
FaultySessionEnds(c) ==
  /\ pc[c] \in {"loop", "query"}
  /\ wait[c] = "waiting"
  /\ seen[c].expires <= now
  /\ pc' = [pc EXCEPT ![c] = "telling"]
  /\ UNCHANGED <<now, storeVars, at, token, seen, wait, wasOver, unheard, lost>>

\* A poll answers that the row is gone, revoked or expired, or the timer set
\* from the row read at admission fires.
SessionEnds(c) ==
  /\ pc[c] \in {"loop", "query"}
  /\ wait[c] = "waiting"
  /\ Over(token[c]) \/ seen[c].expires <= now
  /\ pc' = [pc EXCEPT ![c] = "telling"]
  /\ UNCHANGED <<now, storeVars, at, token, seen, wait, wasOver, unheard, lost>>

\* The error is written to the client and the loop returns.
Tell(c) ==
  /\ pc[c] = "telling"
  /\ pc' = [pc EXCEPT ![c] = "closing"]
  /\ UNCHANGED <<now, storeVars, at, token, seen, wait, wasOver, unheard, lost>>

\* close_active_connection.
CloseRow(c) ==
  /\ pc[c] = "closing"
  /\ conn' = [conn EXCEPT ![c] = [stored |-> "closed", closed_at |-> now]]
  /\ pc' = [pc EXCEPT ![c] = "gone"]
  /\ UNCHANGED <<now, sess, at, token, seen, wait, wasOver, unheard, lost>>

\* The update fails or is not answered: the handler returns the error.
CloseFails(c) ==
  /\ pc[c] = "closing"
  /\ pc' = [pc EXCEPT ![c] = "gone"]
  /\ unheard' = unheard \cup {c}
  /\ lost' = lost \cup {c}
  /\ UNCHANGED <<now, storeVars, at, token, seen, wait, wasOver>>

\* The store commits the update after its handler is gone. The time it writes
\* was read before it was sent.
CloseLands(c) ==
  /\ c \in unheard \cap lost
  /\ conn[c].stored = "open"
  /\ \E t \in 0..now :
       conn' = [conn EXCEPT ![c] = [stored |-> "closed", closed_at |-> t]]
  /\ UNCHANGED <<now, sess, handlerVars>>

\* The proxy process ends, by a crash or by ctrl-c: its tasks are dropped, what
\* they sent to the store is not.
Stop ==
  /\ \E c \in Connection : pc[c] \notin {"idle", "refused", "gone"}
  /\ pc' = [c \in Connection |-> IF pc[c] \in {"idle", "refused"} THEN pc[c] ELSE "gone"]
  /\ unheard' = unheard \cup {c \in Connection : pc[c] \in {"register", "closing"}}
  /\ lost' = lost \cup {c \in Connection : pc[c] \in Serving \cup {"closing"}}
  /\ UNCHANGED <<now, storeVars, at, token, seen, wait, wasOver>>

-----------------------------------------------------------------------------
\* Steps of the handler itself, which the runtime keeps scheduling.
HandlerStep(c) ==
  \/ ReadSession(c) \/ Admit(c) \/ ConnectUpstream(c) \/ Register(c)
  \/ Finish(c) \/ Tell(c) \/ CloseRow(c)

WaitStep(c) == StartWait(c) \/ SessionEnds(c)

\* What the client sends.
ClientStep(c) == StartQuery(c) \/ StartDescribe(c) \/ SmallMessage(c)

Next ==
  \/ \E c \in Connection :
       \/ HandlerStep(c) \/ WaitStep(c) \/ ClientStep(c)
       \/ InsertRow(c) \/ FailAdmission(c) \/ RegisterFails(c)
       \/ Leave(c) \/ CloseFails(c) \/ CloseLands(c)
  \/ \E c \in Connection, s \in Session, t \in Target : Present(c, s, t)
  \/ \E s \in Session, t \in Target : OpenSession(s, t)
  \/ \E s \in Session : RevokeSession(s)
  \/ PruneSessions \/ PruneConnections \/ Stop \/ Tick

Spec == Init /\ [][Next]_vars

Fairness == \A c \in Connection : WF_vars(HandlerStep(c)) /\ WF_vars(WaitStep(c))

FairSpec == Spec /\ Fairness

-----------------------------------------------------------------------------
(* Properties. *)

\* Types of the variables.
TypeOK ==
  /\ now \in Time
  /\ sess \in [Session -> SessionRow]
  /\ conn \in [Connection -> ConnectionRow]
  /\ pc \in [Connection -> Pc]
  /\ at \in [Connection -> Target \cup {None}]
  /\ token \in [Connection -> Session \cup {None}]
  /\ seen \in [Connection -> Seen]
  /\ wait \in [Connection -> {"fresh", "waiting"}]
  /\ wasOver \in [Connection -> BOOLEAN]
  /\ unheard \subseteq Connection
  /\ lost \subseteq Connection

\* A revoked, expired or pruned session cannot connect: a token presented after
\* the end of its session is never served, whatever happens between the read
\* of the row and the check of the clock, and never at a target that is not
\* the session's.
EndedCannotConnect ==
  \A c \in Connection :
    pc[c] \in {"upstream", "register", "closing"} \cup Serving =>
      ~wasOver[c] /\ at[c] = sess[token[c]].target

\* GET /api/connections lists every live connection: while a connection can
\* run statements its row is open, and pruning keeps it.
LiveIsListed ==
  \A c \in Connection : pc[c] \in Serving => conn[c].stored = "open"

\* A row that stays open after its handler belongs to a connection that got to
\* its loop, and whose close failed or whose process ended, or to one that never
\* did, because the answer to its INSERT was not heard; every other way out of
\* the loop closes the row. A row whose INSERT was not heard of is closed by
\* nobody and pruned by nobody: the list of connections shows it for good.
OnlyLostStaysListed ==
  \A c \in Connection :
    /\ conn[c].stored = "open" /\ pc[c] = "gone" => c \in lost \cup unheard
    /\ c \in unheard \ lost => conn[c].stored \in {"none", "open"}

\* A connection whose session has ended by revocation or expiry is closed,
\* unless the client keeps sending messages for ever: each message discards
\* the poll in flight.
QuietConnectionEnds ==
  \A c \in Connection :
    \/ []<><<ClientStep(c)>>_vars
    \/ (pc[c] \in Serving /\ Over(token[c])) ~> (pc[c] \notin Serving)

\* An existing connection closes after its session is revoked.
RevokedConnectionCloses ==
  \A c \in Connection :
    (pc[c] \in Serving /\ sess[token[c]].revoked) ~> (pc[c] \notin Serving)

\* What a store once said of a session's end stays true, so that a poll that
\* answers late can only be late, never wrong.
EndIsFinal == [][\A s \in Session : sess[s].stored # "none" /\ Over(s) => Over(s)']_vars
=============================================================================
