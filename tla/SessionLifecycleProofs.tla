----------------------- MODULE SessionLifecycleProofs -----------------------
(***************************************************************************)
(* Theorems about SessionLifecycle, for every number of sessions,          *)
(* connections and targets, every time to live and every clock bound.      *)
(***************************************************************************)
EXTENDS SessionLifecycle, TLAPS

\* The states of a handler before it asks the store for a row.
Unregistered == {"idle", "verify", "check", "refused", "upstream"}

\* A handler that was given a token knows whose it is. TypeOK is inductive only
\* with it, because ReadSession looks up the row of that session.
HasToken == \A c \in Connection : pc[c] # "idle" => token[c] \in Session

LEMMA InitTypeOK == Init => TypeOK /\ HasToken
BY MaxTimeAssumption
   DEF Init, TypeOK, HasToken, Time, SessionRow, ConnectionRow, Seen, Pc, Nothing

LEMMA NextHasToken == TypeOK /\ HasToken /\ [Next]_vars => HasToken'
<1> SUFFICES ASSUME TypeOK, HasToken, [Next]_vars PROVE HasToken'
  OBVIOUS
<1> USE DEF TypeOK, HasToken
<1>1. ASSUME NEW c \in Connection, NEW s \in Session, NEW t \in Target, Present(c, s, t)
      PROVE HasToken'
  BY <1>1 DEF Present
<1>2. ASSUME NEW c \in Connection,
             \/ HandlerStep(c) \/ WaitStep(c) \/ ClientStep(c)
             \/ FailAdmission(c) \/ RegisterFails(c) \/ Leave(c) \/ CloseFails(c)
      PROVE HasToken'
  <2>1. token' = token /\ pc[c] # "idle" /\ \A e \in Connection \ {c} : pc'[e] = pc[e]
    BY <1>2
       DEF HandlerStep, WaitStep, ClientStep, FailAdmission, RegisterFails, Leave,
           CloseFails, Serving,
           ReadSession, Admit, ConnectUpstream, Register, Finish, Tell, CloseRow,
           StartWait, SessionEnds, StartQuery, StartDescribe, SmallMessage
  <2> QED
    BY <2>1
<1>3. CASE Stop
  BY <1>3 DEF Stop
<1>4. CASE \/ PruneSessions \/ PruneConnections \/ Tick \/ UNCHANGED vars
           \/ \E s \in Session : RevokeSession(s) \/ \E t \in Target : OpenSession(s, t)
           \/ \E c \in Connection : InsertRow(c) \/ CloseLands(c)
  BY <1>4 DEF PruneSessions, PruneConnections, Tick, vars, RevokeSession, OpenSession,
              InsertRow, CloseLands, handlerVars
<1> QED
  BY <1>1, <1>2, <1>3, <1>4 DEF Next

LEMMA NextTypeOK == TypeOK /\ HasToken /\ [Next]_vars => TypeOK'
<1> SUFFICES ASSUME TypeOK, HasToken, [Next]_vars PROVE TypeOK'
  OBVIOUS
<1> USE TtlAssumption, MaxTimeAssumption
    DEF TypeOK, Time, SessionRow, ConnectionRow, Seen, Pc, Serving, Nothing,
        storeVars, handlerVars
<1>1. ASSUME NEW c \in Connection, NEW s \in Session, NEW t \in Target, Present(c, s, t)
      PROVE TypeOK'
  <2>1. Over(s) \in BOOLEAN
    BY DEF Over
  <2> QED
    BY <1>1, <2>1 DEF Present
<1>2. ASSUME NEW c \in Connection, ReadSession(c) PROVE TypeOK'
  <2> DEFINE row == sess[token[c]]
  <2>1. row \in SessionRow
    BY <1>2 DEF ReadSession, HasToken
  <2>2. /\ row.target \in Target \cup {None}
        /\ row.expires \in Nat
        /\ row.revoked \in BOOLEAN
    BY <2>1
  <2>3. seen' \in [Connection -> Seen]
    <3> DEFINE read == IF row.stored = "stored"
                       THEN [found |-> TRUE, target |-> row.target,
                             expires |-> row.expires, revoked |-> row.revoked]
                       ELSE Nothing
    <3>1. read \in Seen
      BY <2>2
    <3>2. seen' = [seen EXCEPT ![c] = read]
      BY <1>2 DEF ReadSession
    <3> HIDE DEF read
    <3> QED
      BY <3>1, <3>2
  <2> QED
    BY <1>2, <2>3 DEF ReadSession
<1>3. ASSUME NEW c \in Connection, Admit(c) PROVE TypeOK'
  BY <1>3 DEF Admit
<1>4. ASSUME NEW c \in Connection, ConnectUpstream(c) PROVE TypeOK'
  BY <1>4 DEF ConnectUpstream
<1>5. ASSUME NEW c \in Connection, InsertRow(c) PROVE TypeOK'
  <2>1. conn[c] \in ConnectionRow
    OBVIOUS
  <2>2. [conn[c] EXCEPT !.stored = "open"] \in ConnectionRow
    BY <2>1
  <2>3. conn' \in [Connection -> ConnectionRow]
    BY <1>5, <2>2 DEF InsertRow
  <2> QED
    BY <1>5, <2>3 DEF InsertRow
<1>6. ASSUME NEW c \in Connection, Register(c) \/ FailAdmission(c) \/ RegisterFails(c)
      PROVE TypeOK'
  BY <1>6 DEF Register, FailAdmission, RegisterFails
<1>7. ASSUME NEW c \in Connection, ClientStep(c) \/ Finish(c) PROVE TypeOK'
  BY <1>7 DEF ClientStep, StartQuery, StartDescribe, SmallMessage, Finish
<1>8. ASSUME NEW c \in Connection, WaitStep(c) PROVE TypeOK'
  BY <1>8 DEF WaitStep, StartWait, SessionEnds
<1>9. ASSUME NEW c \in Connection, Leave(c) \/ Tell(c) PROVE TypeOK'
  BY <1>9 DEF Leave, Tell
<1>10. ASSUME NEW c \in Connection, CloseRow(c) \/ CloseLands(c) PROVE TypeOK'
  <2>1. 0..now \subseteq Time
    OBVIOUS
  <2>2. ASSUME NEW t \in Time PROVE [stored |-> "closed", closed_at |-> t] \in ConnectionRow
    OBVIOUS
  <2>3. PICK t \in Time : conn' = [conn EXCEPT ![c] = [stored |-> "closed", closed_at |-> t]]
    BY <1>10, <2>1 DEF CloseRow, CloseLands
  <2>4. conn' \in [Connection -> ConnectionRow]
    BY <2>2, <2>3
  <2> QED
    BY <1>10, <2>4 DEF CloseRow, CloseLands
<1>11. ASSUME NEW c \in Connection, CloseFails(c) PROVE TypeOK'
  BY <1>11 DEF CloseFails
<1>12. ASSUME NEW s \in Session, NEW t \in Target, OpenSession(s, t) PROVE TypeOK'
  BY <1>12 DEF OpenSession
<1>13. ASSUME NEW s \in Session, RevokeSession(s) PROVE TypeOK'
  <2>1. [sess[s] EXCEPT !.revoked = TRUE] \in SessionRow
    <3>1. sess[s] \in SessionRow
      OBVIOUS
    <3> QED
      BY <3>1
  <2>2. sess' \in [Session -> SessionRow]
    BY <1>13, <2>1 DEF RevokeSession
  <2> QED
    BY <1>13, <2>2 DEF RevokeSession
<1>14. CASE PruneSessions
  <2>1. ASSUME NEW s \in Session PROVE [sess[s] EXCEPT !.stored = "pruned"] \in SessionRow
    <3>1. sess[s] \in SessionRow
      OBVIOUS
    <3> QED
      BY <3>1
  <2>2. sess' \in [Session -> SessionRow]
    BY <1>14, <2>1 DEF PruneSessions
  <2> QED
    BY <1>14, <2>2 DEF PruneSessions
<1>15. CASE PruneConnections
  <2>1. ASSUME NEW c \in Connection
        PROVE [conn[c] EXCEPT !.stored = "pruned"] \in ConnectionRow
    <3>1. conn[c] \in ConnectionRow
      OBVIOUS
    <3> QED
      BY <3>1
  <2>2. conn' \in [Connection -> ConnectionRow]
    BY <1>15, <2>1 DEF PruneConnections
  <2> QED
    BY <1>15, <2>2 DEF PruneConnections
<1>16. CASE Stop
  BY <1>16 DEF Stop
<1>17. CASE Tick \/ UNCHANGED vars
  BY <1>17 DEF Tick, vars
<1> QED
  BY <1>1, <1>2, <1>3, <1>4, <1>5, <1>6, <1>7, <1>8, <1>9, <1>10, <1>11, <1>12,
     <1>13, <1>14, <1>15, <1>16, <1>17 DEF Next, HandlerStep

\* The variables keep their types, for every value of the constants.
THEOREM SessionTypesCorrect == Spec => []TypeOK
<1>1. TypeOK /\ HasToken /\ [Next]_vars => (TypeOK /\ HasToken)'
  BY NextTypeOK, NextHasToken
<1> QED
  BY <1>1, InitTypeOK, PTL DEF Spec

-----------------------------------------------------------------------------
(* The rows of the store. *)

\* What one step does to a session that exists: it keeps its target, is never
\* extended and never un-revoked, does not come back once pruned; and the clock
\* does not go back.
SessionsOnlyEnd ==
  /\ now' >= now
  /\ \A s \in Session :
       sess[s].stored # "none" =>
         /\ sess'[s].stored # "none"
         /\ sess'[s].target = sess[s].target
         /\ sess'[s].expires = sess[s].expires
         /\ sess[s].revoked => sess'[s].revoked
         /\ sess[s].stored = "pruned" => sess'[s].stored = "pruned"

LEMMA StepSessionsOnlyEnd == TypeOK /\ [Next]_vars => SessionsOnlyEnd
<1> SUFFICES ASSUME TypeOK, [Next]_vars PROVE SessionsOnlyEnd
  OBVIOUS
<1>n. now \in Int
  BY MaxTimeAssumption DEF TypeOK, Time
<1>u. ASSUME now' = now, sess' = sess PROVE SessionsOnlyEnd
  BY <1>n, <1>u DEF SessionsOnlyEnd
<1>1. ASSUME NEW s \in Session, NEW t \in Target, OpenSession(s, t) PROVE SessionsOnlyEnd
  BY <1>1, <1>n DEF OpenSession, SessionsOnlyEnd, TypeOK
<1>2. ASSUME NEW s \in Session, RevokeSession(s) PROVE SessionsOnlyEnd
  BY <1>2, <1>n DEF RevokeSession, SessionsOnlyEnd, TypeOK, SessionRow
<1>3. CASE PruneSessions
  BY <1>3, <1>n DEF PruneSessions, SessionsOnlyEnd, TypeOK, SessionRow
<1>4. CASE Tick
  BY <1>4, <1>n DEF Tick, SessionsOnlyEnd, storeVars
<1>5. CASE PruneConnections \/ Stop \/ UNCHANGED vars
  BY <1>5, <1>u DEF PruneConnections, Stop, vars, storeVars
<1>6. ASSUME NEW c \in Connection,
             \/ HandlerStep(c) \/ WaitStep(c) \/ ClientStep(c)
             \/ InsertRow(c) \/ FailAdmission(c) \/ RegisterFails(c)
             \/ Leave(c) \/ CloseFails(c) \/ CloseLands(c)
             \/ \E s \in Session, t \in Target : Present(c, s, t)
      PROVE SessionsOnlyEnd
  BY <1>6, <1>u
     DEF HandlerStep, WaitStep, ClientStep, InsertRow, FailAdmission, RegisterFails,
         Leave, CloseFails, CloseLands, Present,
         ReadSession, Admit, ConnectUpstream, Register, Finish, Tell, CloseRow,
         StartWait, SessionEnds, StartQuery, StartDescribe, SmallMessage, storeVars
<1> QED
  BY <1>1, <1>2, <1>3, <1>4, <1>5, <1>6 DEF Next

LEMMA OverStaysOver ==
  ASSUME TypeOK, TypeOK', SessionsOnlyEnd,
         NEW s \in Session, sess[s].stored # "none", Over(s)
  PROVE  Over(s)'
BY MaxTimeAssumption DEF SessionsOnlyEnd, Over, TypeOK, SessionRow, Time

\* The end of a session is final: a poll that answers late is never wrong.
THEOREM SessionEndIsFinal == Spec => EndIsFinal
<1>1. TypeOK /\ TypeOK' /\ [Next]_vars
      => [\A s \in Session : sess[s].stored # "none" /\ Over(s) => Over(s)']_vars
  BY StepSessionsOnlyEnd, OverStaysOver
<1> QED
  BY <1>1, SessionTypesCorrect, PTL DEF Spec, EndIsFinal

-----------------------------------------------------------------------------
(* Admission. *)

\* A handler that has a token names a session that was opened.
TokenNamesSession ==
  \A c \in Connection :
    pc[c] # "idle" => token[c] \in Session /\ sess[token[c]].stored # "none"

\* A session that was over when its token was presented is still over.
WasOverIsOver ==
  \A c \in Connection : pc[c] # "idle" /\ wasOver[c] => Over(token[c])

\* The row read for such a token already fails the check, or was not found.
SeenIsOver ==
  \A c \in Connection :
    pc[c] = "check" /\ seen[c].found =>
      /\ seen[c].target = sess[token[c]].target
      /\ wasOver[c] => seen[c].revoked \/ seen[c].expires <= now

AdmissionInv == TypeOK /\ TokenNamesSession /\ WasOverIsOver /\ SeenIsOver /\ EndedCannotConnect

\* The states of a handler that can follow admission.
Admitted == {"upstream", "register", "closing"} \cup Serving

LEMMA NextAdmissionInv == AdmissionInv /\ [Next]_vars => AdmissionInv'
<1> SUFFICES ASSUME AdmissionInv, [Next]_vars PROVE AdmissionInv'
  OBVIOUS
<1>i. TypeOK /\ TokenNamesSession /\ WasOverIsOver /\ SeenIsOver /\ EndedCannotConnect
  BY DEF AdmissionInv
<1>h. HasToken
  BY <1>i DEF HasToken, TokenNamesSession
<1>t. TypeOK' /\ SessionsOnlyEnd
  BY <1>i, <1>h, NextTypeOK, StepSessionsOnlyEnd
<1>n. now \in Int /\ now' \in Int /\ now' >= now /\ \A c \in Connection : seen[c].expires \in Int
  BY <1>i, <1>t, MaxTimeAssumption DEF TypeOK, Time, Seen, SessionsOnlyEnd
<1> DEFINE
  Good(c) == /\ pc[c] # "idle" => token[c] \in Session /\ sess[token[c]].stored # "none"
             /\ pc[c] # "idle" /\ wasOver[c] => Over(token[c])
             /\ pc[c] = "check" /\ seen[c].found =>
                  /\ seen[c].target = sess[token[c]].target
                  /\ wasOver[c] => seen[c].revoked \/ seen[c].expires <= now
             /\ pc[c] \in Admitted => ~wasOver[c] /\ at[c] = sess[token[c]].target
\* A handler that does not go where more is asked of it, whatever the store does.
<1>s. ASSUME NEW c \in Connection,
             token'[c] = token[c], wasOver'[c] = wasOver[c],
             at'[c] = at[c], seen'[c] = seen[c],
             \/ pc'[c] = pc[c]
             \/ pc[c] # "idle" /\ pc'[c] \in {"gone", "refused"}
             \/ pc[c] \in Admitted /\ pc'[c] \in Admitted
      PROVE Good(c)'
  <2>1. CASE pc'[c] = "idle"
    BY <2>1, <1>s DEF Admitted, Serving
  <2>2. CASE pc'[c] # "idle"
    <3>1. pc[c] # "idle"
      BY <2>2, <1>s DEF Admitted, Serving
    <3>2. PICK s \in Session : s = token[c] /\ sess[s].stored # "none"
      BY <3>1, <1>i DEF TokenNamesSession
    <3>3. sess'[s].stored # "none" /\ sess'[s].target = sess[s].target
      BY <3>2, <1>t DEF SessionsOnlyEnd
    <3>4. wasOver[c] => Over(s)
      BY <3>1, <3>2, <1>i DEF WasOverIsOver
    <3>5. wasOver[c] => Over(s)'
      BY <3>2, <3>4, <1>t, <1>i, OverStaysOver
    <3>6. (pc'[c] \in Admitted => pc[c] \in Admitted) /\ (pc'[c] = "check" => pc[c] = "check")
      BY <1>s DEF Admitted, Serving
    <3>7. pc[c] \in Admitted => ~wasOver[c] /\ at[c] = sess[s].target
      BY <3>2, <1>i DEF EndedCannotConnect, Admitted
    <3>8. pc[c] = "check" /\ seen[c].found =>
            /\ seen[c].target = sess[s].target
            /\ wasOver[c] => seen[c].revoked \/ seen[c].expires <= now'
      BY <3>2, <1>i, <1>n DEF SeenIsOver
    <3>9. wasOver'[c] => Over(token[c])'
      BY <3>2, <3>5, <1>s DEF Over
    <3> QED
      BY <3>2, <3>3, <3>6, <3>7, <3>8, <3>9, <1>s
  <2> QED
    BY <2>1, <2>2
<1>q. ASSUME \A c \in Connection : Good(c)'
      PROVE AdmissionInv'
  BY <1>q, <1>t DEF AdmissionInv, TokenNamesSession, WasOverIsOver, SeenIsOver,
                    EndedCannotConnect, Admitted
<1> HIDE DEF Good
\* Only one handler moves.
<1>o. ASSUME NEW c \in Connection, Good(c)',
             \A e \in Connection \ {c} :
               /\ token'[e] = token[e] /\ wasOver'[e] = wasOver[e]
               /\ at'[e] = at[e] /\ seen'[e] = seen[e] /\ pc'[e] = pc[e]
      PROVE AdmissionInv'
  <2>1. \A e \in Connection : Good(e)'
    BY <1>o, <1>s
  <2> QED
    BY <2>1, <1>q
<1>1. ASSUME NEW c \in Connection, NEW s \in Session, NEW t \in Target, Present(c, s, t)
      PROVE AdmissionInv'
  <2>1. /\ token'[c] = s /\ at'[c] = t /\ pc'[c] = "verify" /\ seen' = seen
        /\ wasOver'[c] = Over(s)
        /\ sess' = sess /\ now' = now /\ sess[s].stored # "none"
    BY <1>1, <1>i DEF Present, TypeOK, storeVars
  <2>2. Over(token[c])' = Over(s)
    BY <2>1 DEF Over
  <2>3. Good(c)'
    BY <2>1, <2>2 DEF Good, Admitted, Serving
  <2>4. \A e \in Connection \ {c} :
          /\ token'[e] = token[e] /\ wasOver'[e] = wasOver[e]
          /\ at'[e] = at[e] /\ seen'[e] = seen[e] /\ pc'[e] = pc[e]
    BY <1>1, <1>i DEF Present, TypeOK
  <2> QED
    BY <2>3, <2>4, <1>o
<1>2. ASSUME NEW c \in Connection, ReadSession(c) PROVE AdmissionInv'
  <2>1. /\ token' = token /\ at' = at /\ wasOver' = wasOver /\ sess' = sess /\ now' = now
        /\ pc[c] = "verify" /\ pc'[c] = "check"
        /\ \A e \in Connection \ {c} : pc'[e] = pc[e] /\ seen'[e] = seen[e]
    BY <1>2, <1>i DEF ReadSession, TypeOK, storeVars
  <2>2. /\ token[c] \in Session /\ sess[token[c]].stored # "none"
        /\ wasOver[c] => Over(token[c])
    BY <2>1, <1>i DEF TokenNamesSession, WasOverIsOver
  <2>3. seen'[c].found =>
          /\ sess[token[c]].stored = "stored"
          /\ seen'[c].target = sess[token[c]].target
          /\ seen'[c].revoked = sess[token[c]].revoked
          /\ seen'[c].expires = sess[token[c]].expires
    BY <1>2, <1>i DEF ReadSession, TypeOK, Nothing
  <2>4. Good(c)'
    BY <2>1, <2>2, <2>3 DEF Good, Over, Admitted, Serving
  <2> QED
    BY <2>1, <2>4, <1>o
<1>3. ASSUME NEW c \in Connection, Admit(c) PROVE AdmissionInv'
  <2>1. /\ token' = token /\ at' = at /\ wasOver' = wasOver /\ sess' = sess /\ now' = now
        /\ seen' = seen /\ pc[c] = "check"
        /\ \A e \in Connection \ {c} : pc'[e] = pc[e]
    BY <1>3, <1>i DEF Admit, TypeOK, storeVars
  <2>2. CASE pc'[c] = "refused"
    BY <2>1, <2>2, <1>s, <1>o
  <2>3. CASE pc'[c] # "refused"
    <3>1. /\ pc'[c] = "upstream" /\ seen[c].found /\ seen[c].target = at[c]
          /\ ~seen[c].revoked /\ seen[c].expires > now
      BY <1>3, <2>3, <1>i DEF Admit, TypeOK
    <3>2. seen[c].target = sess[token[c]].target /\ ~wasOver[c]
      BY <2>1, <3>1, <1>i, <1>n DEF SeenIsOver, TypeOK
    <3>3. token[c] \in Session /\ sess[token[c]].stored # "none"
      BY <2>1, <1>i DEF TokenNamesSession
    <3>4. Good(c)'
      BY <2>1, <3>1, <3>2, <3>3 DEF Good
    <3> QED
      BY <2>1, <3>4, <1>o
  <2> QED
    BY <2>2, <2>3
<1>4. ASSUME NEW c \in Connection,
             \/ ConnectUpstream(c) \/ Register(c) \/ Finish(c) \/ Tell(c) \/ CloseRow(c)
             \/ WaitStep(c) \/ ClientStep(c) \/ Leave(c) \/ CloseFails(c)
             \/ FailAdmission(c) \/ RegisterFails(c)
      PROVE AdmissionInv'
  <2>1. token' = token /\ at' = at /\ wasOver' = wasOver /\ seen' = seen
    BY <1>4
       DEF WaitStep, ClientStep, FailAdmission, RegisterFails, Leave, CloseFails,
           ConnectUpstream, Register, Finish, Tell, CloseRow,
           StartWait, SessionEnds, StartQuery, StartDescribe, SmallMessage
  <2>2. /\ \/ pc'[c] = pc[c]
           \/ pc[c] # "idle" /\ pc'[c] \in {"gone", "refused"}
           \/ pc[c] \in Admitted /\ pc'[c] \in Admitted
        /\ \A e \in Connection \ {c} : pc'[e] = pc[e]
    BY <1>4, <1>i
       DEF TypeOK, WaitStep, ClientStep, FailAdmission, RegisterFails, Leave, CloseFails,
           ConnectUpstream, Register, Finish, Tell, CloseRow, Admitted, Serving,
           StartWait, SessionEnds, StartQuery, StartDescribe, SmallMessage
  <2> QED
    BY <2>1, <2>2, <1>s, <1>o
<1>5. CASE Stop
  <2>1. \A c \in Connection :
          /\ token'[c] = token[c] /\ at'[c] = at[c] /\ wasOver'[c] = wasOver[c]
          /\ seen'[c] = seen[c]
          /\ pc'[c] = pc[c] \/ (pc[c] # "idle" /\ pc'[c] = "gone")
    BY <1>5 DEF Stop
  <2>2. \A c \in Connection : Good(c)'
    BY <2>1, <1>s
  <2> QED
    BY <2>2, <1>q
<1>6. CASE \/ PruneSessions \/ PruneConnections \/ Tick \/ UNCHANGED vars
           \/ \E s \in Session : RevokeSession(s) \/ \E t \in Target : OpenSession(s, t)
           \/ \E c \in Connection : InsertRow(c) \/ CloseLands(c)
  <2>1. UNCHANGED <<token, at, wasOver, seen, pc>>
    BY <1>6 DEF PruneSessions, PruneConnections, Tick, vars, RevokeSession, OpenSession,
                InsertRow, CloseLands, handlerVars
  <2>2. \A c \in Connection : Good(c)'
    BY <2>1, <1>s
  <2> QED
    BY <2>2, <1>q
<1> QED
  BY <1>1, <1>2, <1>3, <1>4, <1>5, <1>6 DEF Next, HandlerStep

\* A token presented after the end of its session is never served.
THEOREM EndedNeverConnects == Spec => []EndedCannotConnect
<1>1. Init => AdmissionInv
  BY InitTypeOK
     DEF Init, AdmissionInv, TokenNamesSession, WasOverIsOver, SeenIsOver,
         EndedCannotConnect, Serving
<1> QED
  BY <1>1, NextAdmissionInv, PTL DEF Spec, AdmissionInv

-----------------------------------------------------------------------------
(* The list of live connections. *)

\* A handler has no row before it asks for one, and while it waits for the
\* answer nothing but its own INSERT has touched the row.
NoEarlyRow ==
  \A c \in Connection :
    /\ pc[c] \in Unregistered => conn[c].stored = "none"
    /\ pc[c] = "register" => conn[c].stored \in {"none", "open"}

\* A handler that has registered and not ended has an open row.
RowWhileServing ==
  \A c \in Connection : pc[c] \in Serving \cup {"closing"} => conn[c].stored = "open"

\* What a handler left unheard or unclosed, it left by ending. Without it, the
\* store could still write the row of a handler that serves.
LeftIsGone == \A c \in unheard \cup lost : pc[c] = "gone"

ListInv == NoEarlyRow /\ RowWhileServing /\ LeftIsGone /\ OnlyLostStaysListed

LEMMA NextListInv == TypeOK /\ ListInv /\ [Next]_vars => ListInv'
<1> SUFFICES ASSUME TypeOK, ListInv, [Next]_vars PROVE ListInv'
  OBVIOUS
<1> USE DEF TypeOK, ListInv, NoEarlyRow, RowWhileServing, LeftIsGone, OnlyLostStaysListed,
            Serving, Unregistered
<1>1. ASSUME NEW c \in Connection, NEW s \in Session, NEW t \in Target, Present(c, s, t)
      PROVE ListInv'
  BY <1>1 DEF Present, storeVars
<1>2. ASSUME NEW c \in Connection,
             ReadSession(c) \/ Admit(c) \/ ConnectUpstream(c) \/ FailAdmission(c)
      PROVE ListInv'
  BY <1>2 DEF ReadSession, Admit, ConnectUpstream, FailAdmission, storeVars
\* The INSERT, in time or late.
<1>3. ASSUME NEW c \in Connection, InsertRow(c) PROVE ListInv'
  <2>1. /\ UNCHANGED <<pc, unheard, lost>>
        /\ conn'[c].stored = "open" /\ \A e \in Connection \ {c} : conn'[e] = conn[e]
    BY <1>3 DEF InsertRow, ConnectionRow, handlerVars
  <2>2. \/ pc[c] = "register" /\ c \notin unheard
        \/ pc[c] = "gone" /\ c \in unheard \ lost
    BY <1>3 DEF InsertRow
  <2> QED
    BY <2>1, <2>2
<1>4. ASSUME NEW c \in Connection, Register(c) PROVE ListInv'
  BY <1>4 DEF Register, storeVars
<1>5. ASSUME NEW c \in Connection, RegisterFails(c) PROVE ListInv'
  BY <1>5 DEF RegisterFails, storeVars
<1>6. ASSUME NEW c \in Connection,
             Finish(c) \/ Tell(c) \/ WaitStep(c) \/ ClientStep(c) \/ Leave(c)
      PROVE ListInv'
  BY <1>6 DEF Finish, Tell, WaitStep, ClientStep, Leave, StartWait, SessionEnds,
              StartQuery, StartDescribe, SmallMessage, storeVars
<1>7. ASSUME NEW c \in Connection, CloseRow(c) PROVE ListInv'
  BY <1>7 DEF CloseRow, ConnectionRow
<1>8. ASSUME NEW c \in Connection, CloseFails(c) PROVE ListInv'
  BY <1>8 DEF CloseFails, storeVars
\* The UPDATE, late.
<1>9. ASSUME NEW c \in Connection, CloseLands(c) PROVE ListInv'
  <2>1. /\ UNCHANGED <<pc, unheard, lost>> /\ c \in lost /\ pc[c] = "gone"
        /\ conn'[c].stored = "closed" /\ \A e \in Connection \ {c} : conn'[e] = conn[e]
    BY <1>9 DEF CloseLands, ConnectionRow, handlerVars
  <2> QED
    BY <2>1
<1>10. CASE PruneConnections
  <2>1. /\ UNCHANGED <<pc, unheard, lost>>
        /\ \A c \in Connection :
             \/ conn'[c].stored = conn[c].stored
             \/ conn[c].stored = "closed" /\ conn'[c].stored = "pruned"
    BY <1>10 DEF PruneConnections, OldRows, ConnectionRow, handlerVars
  <2> QED
    BY <2>1
<1>11. CASE Stop
  BY <1>11 DEF Stop, Pc, storeVars
<1>12. CASE \/ PruneSessions \/ Tick \/ UNCHANGED vars
            \/ \E s \in Session : RevokeSession(s) \/ \E t \in Target : OpenSession(s, t)
  BY <1>12 DEF PruneSessions, Tick, vars, RevokeSession, OpenSession, handlerVars, storeVars
<1> QED
  BY <1>1, <1>2, <1>3, <1>4, <1>5, <1>6, <1>7, <1>8, <1>9, <1>10, <1>11, <1>12
     DEF Next, HandlerStep

LEMMA ListInvariant == Spec => []ListInv
<1>1. Init => ListInv
  BY DEF Init, ListInv, NoEarlyRow, RowWhileServing, LeftIsGone, OnlyLostStaysListed,
         Serving, Unregistered
<1> QED
  BY <1>1, NextListInv, SessionTypesCorrect, PTL DEF Spec

\* Every live connection is listed.
THEOREM EveryLiveIsListed == Spec => []LiveIsListed
<1>1. ListInv => LiveIsListed
  BY DEF ListInv, RowWhileServing, LiveIsListed
<1> QED
  BY <1>1, ListInvariant, PTL

\* A row is left open only by an INSERT whose answer was not heard, by a failed
\* close, or by the end of the process; and in the first case for good.
THEOREM OnlyLostLeftListed == Spec => []OnlyLostStaysListed
BY ListInvariant, PTL DEF ListInv
=============================================================================
