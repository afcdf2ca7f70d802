------------------------- MODULE AccessTokensProofs -------------------------
(***************************************************************************)
(* Proofs about AccessTokens for every set of deliveries, requests and     *)
(* issues, every list of signals and every lifetime.                       *)
(***************************************************************************)
EXTENDS AccessTokens, TLAPS

\* A token has a row only from its own delivery's insert on, so the insert
\* can never bring a spent token back.
RowFollowsDelivery ==
  \A d \in Delivery :
    dpc[d] \in {"idle", "signals", "insert"} => row[d].stored = "none"

\* used_at and the history variable winner are set together and never reset.
UsedHasWinner ==
  \A t \in Delivery :
    /\ row[t].used_at = Null <=> winner[t] = None
    /\ row[t].stored = "none" => winner[t] = None

\* The request that won a token was given that token and is past its UPDATE.
WinnerHasPassed ==
  \A t \in Delivery, r \in Redeemer :
    winner[t] = r => rtok[r] = t /\ rpc[r] \in {"create", "respond", "granted", "failed"}

\* Every request past idle was given a token, and every request past its
\* UPDATE without being refused won it.
RequestIsWinner ==
  \A r \in Redeemer :
    /\ rpc[r] # "idle" => rtok[r] \in Delivery
    /\ rpc[r] \in {"create", "respond", "granted"} => winner[rtok[r]] = r

\* A session is opened by the winner, after its UPDATE.
SessionOfWinner ==
  \A r \in Redeemer :
    /\ session[r] # None => session[r] = rtok[r] /\ winner[rtok[r]] = r
    /\ rpc[r] \in {"idle", "update", "denied", "create"} => session[r] = None
    /\ rpc[r] \in {"respond", "granted"} => session[r] = rtok[r]

\* The inductive invariant.
IInv ==
  /\ TypeOK
  /\ RowFollowsDelivery
  /\ UsedHasWinner
  /\ WinnerHasPassed
  /\ RequestIsWinner
  /\ SessionOfWinner

-----------------------------------------------------------------------------
LEMMA InitTypeOK == Init => TypeOK
<1> SUFFICES ASSUME Init PROVE TypeOK
  OBVIOUS
<1> USE DEF Init
<1>1. Len(RequiredSignals) \in Nat
  BY SignalsAssumption
<1>2. now \in Time /\ dsig \in [Delivery -> 0..Len(RequiredSignals)]
      /\ dat \in [Delivery -> Time] /\ rat \in [Redeemer -> Time]
  BY <1>1, MaxTimeAssumption DEF Time
<1>3. issue \in [Issue -> [open : BOOLEAN, labeled : BOOLEAN]]
  <2>1. [open : {TRUE}, labeled : BOOLEAN] \subseteq [open : BOOLEAN, labeled : BOOLEAN]
    OBVIOUS
  <2> QED BY <2>1
<1>4. row \in [Delivery -> Row]
  BY DEF Row, Null
<1> QED
  BY <1>2, <1>3, <1>4 DEF TypeOK, DeliveryPc, RedeemPc

\* An issue that changes stays an issue, whoever changes it.
LEMMA ChangeIssueType ==
  ASSUME TypeOK, NEW i, NEW shown, ChangeIssue(i, shown),
         i \in Issue => shown \in [open : BOOLEAN, labeled : BOOLEAN]
  PROVE  /\ issue' \in [Issue -> [open : BOOLEAN, labeled : BOOLEAN]]
         /\ held' \in [Delivery -> SUBSET SignalKinds]
BY DEF TypeOK, ChangeIssue, Holding

LEMMA NextTypeOK == TypeOK /\ [Next]_vars => TypeOK'
<1> SUFFICES ASSUME TypeOK, [Next]_vars PROVE TypeOK'
  OBVIOUS
<1> USE TtlAssumption, MaxTimeAssumption, SignalsAssumption
    DEF TypeOK, Time, Row, Null, DeliveryPc, RedeemPc, gitHubVars, mintVars, redeemVars
<1>1. ASSUME NEW d \in Delivery, NEW i \in Issue, Receive(d, i) PROVE TypeOK'
  <2>1. held' \in [Delivery -> SUBSET SignalKinds]
    BY <1>1 DEF Receive, Holding
  <2> QED
    BY <1>1, <2>1 DEF Receive
<1>2. ASSUME NEW d \in Delivery, EvaluateSignal(d) PROVE TypeOK'
  <2>1. Len(RequiredSignals) \in Nat
    BY SignalsAssumption
  <2>2. CASE SignalHolds(RequiredSignals[dsig[d] + 1], issue[dissue[d]])
    <3>1. dsig' = [dsig EXCEPT ![d] = dsig[d] + 1] /\ dsig[d] < Len(RequiredSignals)
      BY <1>2, <2>2 DEF EvaluateSignal
    <3>2. dsig' \in [Delivery -> 0..Len(RequiredSignals)]
      BY <2>1, <3>1
    <3>3. UNCHANGED <<now, issue, posted, row, dpc, dissue, dat, since, rpc, rtok,
                      rat, session, winner, held>>
      BY <1>2, <2>2 DEF EvaluateSignal
    <3> QED
      BY <3>2, <3>3
  <2>3. CASE ~SignalHolds(RequiredSignals[dsig[d] + 1], issue[dissue[d]])
    BY <1>2, <2>1, <2>3 DEF EvaluateSignal
  <2> QED
    BY <2>2, <2>3
<1>3. ASSUME NEW d \in Delivery, FindActive(d) PROVE TypeOK'
  BY <1>3 DEF FindActive
<1>4. ASSUME NEW d \in Delivery, InsertToken(d) PROVE TypeOK'
  BY <1>4 DEF InsertToken
<1>5. ASSUME NEW d \in Delivery, PostComment(d) PROVE TypeOK'
  BY <1>5 DEF PostComment
<1>6. ASSUME NEW d \in Delivery, CloseIssue(d) PROVE TypeOK'
  <2> DEFINE shown == [issue[dissue[d]] EXCEPT !.open = FALSE]
  <2>1. dissue[d] \in Issue => shown \in [open : BOOLEAN, labeled : BOOLEAN]
    <3>1. dissue[d] \in Issue => issue[dissue[d]] \in [open : BOOLEAN, labeled : BOOLEAN]
      OBVIOUS
    <3> QED
      BY <3>1
  <2>2. ChangeIssue(dissue[d], shown)
    BY <1>6 DEF CloseIssue
  <2>3. /\ issue' \in [Issue -> [open : BOOLEAN, labeled : BOOLEAN]]
        /\ held' \in [Delivery -> SUBSET SignalKinds]
    <3> HIDE DEF shown
    <3> QED
      BY <2>1, <2>2, ChangeIssueType
  <2> QED
    BY <1>6, <2>3 DEF CloseIssue
<1>7. ASSUME NEW d \in Delivery, Abandon(d) PROVE TypeOK'
  BY <1>7 DEF Abandon
<1>8. ASSUME NEW r \in Redeemer, NEW t \in Delivery, SelectToken(r, t) PROVE TypeOK'
  BY <1>8 DEF SelectToken
<1>9. ASSUME NEW r \in Redeemer, MarkUsed(r) PROVE TypeOK'
  <2>1. CASE ~StillUnused(rtok[r])
    BY <1>9, <2>1 DEF MarkUsed
  <2>2. CASE StillUnused(rtok[r])
    <3>1. row' \in [Delivery -> Row]
      <4>1. row' = [row EXCEPT ![rtok[r]].used_at = rat[r]]
        BY <1>9, <2>2 DEF MarkUsed
      <4>2. ASSUME NEW t \in Delivery PROVE [row[t] EXCEPT !.used_at = rat[r]] \in Row
        <5>1. row[t] \in Row /\ rat[r] \in Time
          OBVIOUS
        <5> QED
          BY <5>1
      <4> QED
        BY <4>1, <4>2
    <3>2. winner' \in [Delivery -> Redeemer \cup {None}]
      BY <1>9, <2>2 DEF MarkUsed
    <3> QED
      BY <1>9, <2>2, <3>1, <3>2 DEF MarkUsed
  <2> QED
    BY <2>1, <2>2
<1>10. ASSUME NEW r \in Redeemer, CreateSession(r) PROVE TypeOK'
  BY <1>10 DEF CreateSession
<1>11. ASSUME NEW r \in Redeemer, Respond(r) PROVE TypeOK'
  BY <1>11 DEF Respond
<1>12. ASSUME NEW r \in Redeemer, AbandonRequest(r) PROVE TypeOK'
  BY <1>12 DEF AbandonRequest
<1>13. CASE PruneTokens
  <2>1. row' \in [Delivery -> Row]
    <3> SUFFICES ASSUME NEW t \in Delivery
                 PROVE [row[t] EXCEPT !.stored = "pruned"] \in Row
      BY <1>13 DEF PruneTokens
    <3>1. row[t] \in Row
      OBVIOUS
    <3> QED
      BY <3>1
  <2> QED
    BY <1>13, <2>1 DEF PruneTokens
<1>14. ASSUME NEW i \in Issue, EditIssue(i) PROVE TypeOK'
  <2>1. issue[i] \in [open : BOOLEAN, labeled : BOOLEAN]
    OBVIOUS
  <2>2. /\ [issue[i] EXCEPT !.open = ~@] \in [open : BOOLEAN, labeled : BOOLEAN]
        /\ [issue[i] EXCEPT !.labeled = ~@] \in [open : BOOLEAN, labeled : BOOLEAN]
    BY <2>1, Zenon
  <2>3. /\ issue' \in [Issue -> [open : BOOLEAN, labeled : BOOLEAN]]
        /\ held' \in [Delivery -> SUBSET SignalKinds]
    <3>1. CASE ChangeIssue(i, [issue[i] EXCEPT !.open = ~@])
      BY <2>2, <3>1, ChangeIssueType
    <3>2. CASE ChangeIssue(i, [issue[i] EXCEPT !.labeled = ~@])
      BY <2>2, <3>2, ChangeIssueType
    <3> QED
      BY <1>14, <3>1, <3>2 DEF EditIssue
  <2> QED
    BY <1>14, <2>3 DEF EditIssue
<1>15. CASE Tick
  BY <1>15 DEF Tick
<1>16. CASE UNCHANGED vars
  BY <1>16 DEF vars
<1> QED
  BY <1>1, <1>2, <1>3, <1>4, <1>5, <1>6, <1>7, <1>8, <1>9, <1>10, <1>11,
     <1>12, <1>13, <1>14, <1>15, <1>16 DEF Next, MintStep, RedeemStep

\* The variables keep their types, for every value of the constants.
THEOREM TypeCorrect == Spec => []TypeOK
BY InitTypeOK, NextTypeOK, PTL DEF Spec
-----------------------------------------------------------------------------
LEMMA InitIInv == Init => IInv
<1> SUFFICES ASSUME Init PROVE IInv
  OBVIOUS
<1>1. RowFollowsDelivery
  BY DEF Init, RowFollowsDelivery
<1>2. UsedHasWinner
  BY DEF Init, UsedHasWinner
<1>3. WinnerHasPassed
  BY NoneAssumption DEF Init, WinnerHasPassed
<1>4. RequestIsWinner /\ SessionOfWinner
  BY DEF Init, RequestIsWinner, SessionOfWinner
<1> QED
  BY <1>1, <1>2, <1>3, <1>4, InitTypeOK DEF IInv

LEMMA NextIInv == IInv /\ [Next]_vars => IInv'
<1> SUFFICES ASSUME IInv, [Next]_vars PROVE IInv'
  OBVIOUS
<1> USE NoneAssumption
    DEF RowFollowsDelivery, UsedHasWinner, WinnerHasPassed, RequestIsWinner,
        SessionOfWinner
<1>t. TypeOK /\ TypeOK'
  BY NextTypeOK DEF IInv
<1>p. /\ RowFollowsDelivery /\ UsedHasWinner /\ WinnerHasPassed
      /\ RequestIsWinner /\ SessionOfWinner
  BY DEF IInv
<1>u. ASSUME row' = row, winner' = winner, rpc' = rpc, rtok' = rtok, session' = session,
             \A d \in Delivery : dpc'[d] \in {"idle", "signals", "insert"}
                                   => dpc[d] \in {"idle", "signals", "insert"}
      PROVE IInv'
  BY <1>t, <1>p, <1>u DEF IInv
<1>1. ASSUME NEW d \in Delivery, NEW i \in Issue, Receive(d, i) PROVE IInv'
  BY <1>1, <1>t, <1>u DEF Receive, TypeOK, gitHubVars, redeemVars
<1>2. ASSUME NEW d \in Delivery, EvaluateSignal(d) PROVE IInv'
  BY <1>2, <1>t, <1>u DEF EvaluateSignal, TypeOK, gitHubVars, redeemVars
<1>3. ASSUME NEW d \in Delivery, FindActive(d) PROVE IInv'
  BY <1>3, <1>t, <1>u DEF FindActive, TypeOK, gitHubVars, redeemVars
<1>4. ASSUME NEW d \in Delivery, InsertToken(d) PROVE IInv'
  BY <1>4, <1>t, <1>p DEF InsertToken, TypeOK, IInv, gitHubVars, redeemVars
<1>5. ASSUME NEW d \in Delivery, PostComment(d) PROVE IInv'
  BY <1>5, <1>t, <1>u DEF PostComment, TypeOK, redeemVars
<1>6. ASSUME NEW d \in Delivery, CloseIssue(d) PROVE IInv'
  BY <1>6, <1>t, <1>u DEF CloseIssue, TypeOK, redeemVars
<1>7. ASSUME NEW d \in Delivery, Abandon(d) PROVE IInv'
  BY <1>7, <1>t, <1>u DEF Abandon, TypeOK, gitHubVars, redeemVars
<1>8. ASSUME NEW r \in Redeemer, NEW t \in Delivery, SelectToken(r, t) PROVE IInv'
  BY <1>8, <1>t, <1>p DEF SelectToken, TypeOK, IInv, gitHubVars, mintVars
<1>9. ASSUME NEW r \in Redeemer, MarkUsed(r) PROVE IInv'
  <2> DEFINE t == rtok[r]
  <2>1. /\ rpc[r] = "update" /\ t \in Delivery /\ session[r] = None
        /\ \A u \in Delivery : winner[u] # r
        /\ UNCHANGED <<dpc, rtok, session>>
    BY <1>9, <1>p DEF MarkUsed, mintVars
  <2>2. CASE StillUnused(t)
    <3>1. winner[t] = None /\ row[t].stored = "stored"
      BY <2>1, <2>2, <1>p DEF StillUnused
    <3>2. /\ winner' = [winner EXCEPT ![t] = r]
          /\ rpc' = [rpc EXCEPT ![r] = "create"]
          /\ row' = [row EXCEPT ![t].used_at = rat[r]]
      BY <1>9, <2>2 DEF MarkUsed
    <3>3. \A u \in Delivery : row'[u].stored = row[u].stored
      BY <2>1, <3>2, <1>t DEF TypeOK, Row
    <3>4. RowFollowsDelivery'
      BY <2>1, <3>3, <1>p
    <3>5. UsedHasWinner'
      <4>1. \A u \in Delivery \ {t} : row'[u] = row[u] /\ winner'[u] = winner[u]
        BY <2>1, <3>2, <1>t DEF TypeOK
      <4>2. row'[t].used_at = rat[r] /\ winner'[t] = r
        BY <2>1, <3>2, <1>t DEF TypeOK, Row
      <4>3. rat[r] # Null /\ r # None
        BY <1>t DEF TypeOK, Time, Null
      <4> QED
        BY <4>1, <4>2, <4>3, <3>1, <3>3, <1>p
    <3>6. WinnerHasPassed'
      BY <2>1, <3>1, <3>2, <1>p, <1>t DEF TypeOK
    <3>7. RequestIsWinner' /\ SessionOfWinner'
      BY <2>1, <3>1, <3>2, <1>p, <1>t DEF TypeOK
    <3> QED
      BY <3>4, <3>5, <3>6, <3>7, <1>t DEF IInv
  <2>3. CASE ~StillUnused(t)
    <3>1. row' = row /\ winner' = winner /\ rpc' = [rpc EXCEPT ![r] = "denied"]
      BY <1>9, <2>3 DEF MarkUsed
    <3> QED
      BY <2>1, <3>1, <1>p, <1>t DEF TypeOK, IInv
  <2> QED
    BY <2>2, <2>3
<1>10. ASSUME NEW r \in Redeemer, CreateSession(r) PROVE IInv'
  BY <1>10, <1>t, <1>p DEF CreateSession, TypeOK, IInv, gitHubVars, mintVars
<1>11. ASSUME NEW r \in Redeemer, Respond(r) PROVE IInv'
  BY <1>11, <1>t, <1>p DEF Respond, TypeOK, IInv, gitHubVars, mintVars
<1>12. ASSUME NEW r \in Redeemer, AbandonRequest(r) PROVE IInv'
  BY <1>12, <1>t, <1>p DEF AbandonRequest, TypeOK, IInv, gitHubVars, mintVars
<1>13. CASE PruneTokens
  BY <1>13, <1>t, <1>p DEF PruneTokens, Prunable, TypeOK, IInv, mintVars, redeemVars
<1>14. ASSUME NEW i \in Issue, EditIssue(i) PROVE IInv'
  BY <1>14, <1>t, <1>u DEF EditIssue, mintVars, redeemVars
<1>15. CASE Tick
  BY <1>15, <1>t, <1>u DEF Tick, gitHubVars, mintVars, redeemVars
<1>16. CASE UNCHANGED vars
  BY <1>16, <1>t, <1>u DEF vars, mintVars, redeemVars
<1> QED
  BY <1>1, <1>2, <1>3, <1>4, <1>5, <1>6, <1>7, <1>8, <1>9, <1>10, <1>11,
     <1>12, <1>13, <1>14, <1>15, <1>16 DEF Next, MintStep, RedeemStep

LEMMA InductiveInvariant == Spec => []IInv
BY InitIInv, NextIInv, PTL DEF Spec

\* However many requests race with the same token, at most one session is
\* opened for it.
THEOREM OneSessionPerToken == Spec => []AtMostOneSession
<1>1. IInv => AtMostOneSession
  BY NoneAssumption DEF IInv, TypeOK, SessionOfWinner, AtMostOneSession
<1> QED
  BY <1>1, InductiveInvariant, PTL

\* A request is told what happened to its token.
THEOREM TruthfulAnswers == Spec => []AnswerIsTruthful
<1>1. IInv => AnswerIsTruthful
  BY NoneAssumption
     DEF IInv, TypeOK, SessionOfWinner, RequestIsWinner, WinnerHasPassed, AnswerIsTruthful
<1> QED
  BY <1>1, InductiveInvariant, PTL

\* A token spent without a session was spent by a request that failed, or that
\* is still between the two statements.
THEOREM SpentIsAccountedFor == Spec => []SpentWithoutSession
<1>1. IInv => SpentWithoutSession
  <2> SUFFICES ASSUME IInv, NEW t \in Delivery, row[t].used_at # Null
               PROVE \E r \in Redeemer :
                        /\ winner[t] = r
                        /\ session[r] = t \/ rpc[r] \in {"create", "failed"}
    BY DEF SpentWithoutSession
  <2>1. winner[t] \in Redeemer
    BY DEF IInv, TypeOK, UsedHasWinner
  <2> QED
    BY <2>1 DEF IInv, WinnerHasPassed, SessionOfWinner
<1> QED
  BY <1>1, InductiveInvariant, PTL

-----------------------------------------------------------------------------
(* Expiry, publication, and the check-then-insert race. *)

\* A request between its SELECT and its UPDATE arrived before the expiry, and
\* the row keeps its expiry until the UPDATE even if it is pruned meanwhile.
UpdateIsInTime ==
  \A r \in Redeemer :
    rpc[r] = "update" =>
      /\ rtok[r] \in Delivery
      /\ row[rtok[r]].stored # "none"
      /\ rat[r] < row[rtok[r]].expires

\* A delivery past its insert has a row.
DeliveryHasRow ==
  \A d \in Delivery :
    dpc[d] \in {"comment", "close", "minted"} => row[d].stored # "none"

\* Inductive together with IInv.
TimeInv == UpdateIsInTime /\ DeliveryHasRow /\ PublishedIsStored /\ SpentBeforeExpiry

LEMMA NextTimeInv == IInv /\ TimeInv /\ [Next]_vars => TimeInv'
<1> SUFFICES ASSUME IInv, TimeInv, [Next]_vars PROVE TimeInv'
  OBVIOUS
<1>t. TypeOK
  BY DEF IInv
<1> USE DEF TimeInv, UpdateIsInTime, DeliveryHasRow, PublishedIsStored, SpentBeforeExpiry
<1>1. ASSUME NEW d \in Delivery, MintStep(d) \/ Abandon(d) PROVE TimeInv'
  <2>1. CASE InsertToken(d)
    <3>1. /\ dpc[d] = "insert" /\ dpc' = [dpc EXCEPT ![d] = "comment"]
          /\ row' = [row EXCEPT ![d] = [stored |-> "stored", issue |-> dissue[d],
                                        expires |-> dat[d] + TokenTtl, used_at |-> Null]]
          /\ UNCHANGED <<posted, rpc, rtok, rat>>
      BY <2>1 DEF InsertToken, gitHubVars, redeemVars
    <3>2. row[d].stored = "none"
      BY <3>1 DEF IInv, RowFollowsDelivery
    <3>3. /\ row'[d].stored = "stored" /\ row'[d].used_at = Null
          /\ \A t \in Delivery \ {d} : row'[t] = row[t]
      BY <3>1, <1>t DEF TypeOK
    <3> QED
      BY <3>1, <3>2, <3>3, <1>t DEF TypeOK
  <2>2. CASE PostComment(d)
    BY <2>2, <1>t DEF PostComment, TypeOK, redeemVars
  <2>3. CASE EvaluateSignal(d) \/ FindActive(d) \/ CloseIssue(d) \/ Abandon(d)
    BY <2>3, <1>t DEF EvaluateSignal, FindActive, CloseIssue, Abandon, TypeOK,
                      gitHubVars, redeemVars
  <2> QED
    BY <1>1, <2>1, <2>2, <2>3 DEF MintStep
<1>2. ASSUME NEW d \in Delivery, NEW i \in Issue, Receive(d, i) PROVE TimeInv'
  BY <1>2, <1>t DEF Receive, TypeOK, gitHubVars, redeemVars
<1>3. ASSUME NEW r \in Redeemer, NEW t \in Delivery, SelectToken(r, t) PROVE TimeInv'
  BY <1>3, <1>t DEF SelectToken, Redeemable, TypeOK, gitHubVars, mintVars
<1>4. ASSUME NEW r \in Redeemer, MarkUsed(r) PROVE TimeInv'
  <2> DEFINE t == rtok[r]
  <2>1. /\ t \in Delivery /\ rat[r] < row[t].expires
        /\ rpc'[r] # "update" /\ \A q \in Redeemer \ {r} : rpc'[q] = rpc[q]
        /\ UNCHANGED <<posted, dpc, rtok, rat>>
    BY <1>4, <1>t DEF MarkUsed, TypeOK, gitHubVars, mintVars
  <2>2. \/ row' = row
        \/ row' = [row EXCEPT ![t].used_at = rat[r]]
    BY <1>4 DEF MarkUsed
  <2>3. \A u \in Delivery : /\ row'[u].stored = row[u].stored
                            /\ row'[u].expires = row[u].expires
                            /\ \/ row'[u].used_at = row[u].used_at
                               \/ u = t /\ row'[u].used_at = rat[r]
    <3> HIDE DEF TimeInv
    <3>1. row \in [Delivery -> Row]
      BY <1>t DEF TypeOK
    <3>2. CASE row' = row
      BY <3>2
    <3>3. ASSUME row' = [row EXCEPT ![t].used_at = rat[r]], NEW u \in Delivery
          PROVE /\ row'[u].stored = row[u].stored
                /\ row'[u].expires = row[u].expires
                /\ \/ row'[u].used_at = row[u].used_at
                   \/ u = t /\ row'[u].used_at = rat[r]
      <4>1. CASE u = t
        BY <3>1, <3>3, <4>1 DEF Row
      <4>2. CASE u # t
        BY <3>1, <3>3, <4>2
      <4> QED
        BY <4>1, <4>2
    <3> QED
      BY <2>2, <3>2, <3>3
  <2>4. UpdateIsInTime' /\ DeliveryHasRow' /\ PublishedIsStored'
    BY <2>1, <2>3, <1>t DEF TypeOK
  <2>5. SpentBeforeExpiry'
    <3>1. \A u \in Delivery : row[u].used_at # Null => row[u].used_at < row[u].expires
      OBVIOUS
    <3> QED
      BY <2>1, <2>3, <3>1
  <2> QED
    BY <2>4, <2>5
<1>5. ASSUME NEW r \in Redeemer, CreateSession(r) \/ Respond(r) \/ AbandonRequest(r)
      PROVE TimeInv'
  BY <1>5, <1>t DEF CreateSession, Respond, AbandonRequest, TypeOK, gitHubVars, mintVars
<1>6. CASE PruneTokens
  <2>1. UNCHANGED <<posted, dpc, rpc, rtok, rat>>
    BY <1>6 DEF PruneTokens, gitHubVars, mintVars, redeemVars
  <2>2. \A u \in Delivery : /\ row[u].stored # "none" => row'[u].stored # "none"
                            /\ row'[u].expires = row[u].expires
                            /\ row'[u].used_at = row[u].used_at
    BY <1>6, <1>t DEF PruneTokens, TypeOK, Row
  <2>3. posted \subseteq Delivery
    BY <1>t DEF TypeOK
  <2> QED
    BY <2>1, <2>2, <2>3
<1>7. CASE Tick \/ (\E i \in Issue : EditIssue(i)) \/ UNCHANGED vars
  BY <1>7 DEF Tick, EditIssue, vars, gitHubVars, mintVars, redeemVars
<1> QED
  BY <1>1, <1>2, <1>3, <1>4, <1>5, <1>6, <1>7 DEF Next, RedeemStep

LEMMA TimeInvariant == Spec => []TimeInv
<1>1. Init => TimeInv
  BY DEF Init, TimeInv, UpdateIsInTime, DeliveryHasRow, PublishedIsStored, SpentBeforeExpiry
<1> QED
  BY <1>1, NextTimeInv, InductiveInvariant, PTL DEF Spec

\* No token is spent by a request that arrived at or after its expiry.
THEOREM NeverSpentExpired == Spec => []SpentBeforeExpiry
BY TimeInvariant, PTL DEF TimeInv

\* A raw token is published only after its row is stored.
THEOREM NeverPublishedUnstored == Spec => []PublishedIsStored
BY TimeInvariant, PTL DEF TimeInv

LEMMA NextSecondToken ==
  TypeOK /\ SecondTokenOnlyByRace /\ [Next]_vars => SecondTokenOnlyByRace'
<1> SUFFICES ASSUME TypeOK, SecondTokenOnlyByRace, [Next]_vars,
                    NEW d \in Delivery, dpc'[d] = "insert",
                    NEW t \in Delivery, t \in ActiveTokens(dissue[d], now)'
             PROVE t \in since'[d]
  BY DEF SecondTokenOnlyByRace, ActiveTokens
<1> USE DEF TypeOK, SecondTokenOnlyByRace, ActiveTokens
<1>1. ASSUME NEW e \in Delivery, FindActive(e) PROVE t \in since'[d]
  <2>1. dissue' = dissue /\ row' = row /\ now' = now
    BY <1>1 DEF FindActive
  <2>2. CASE e = d
    BY <1>1, <2>1, <2>2 DEF FindActive
  <2>3. CASE e # d
    BY <1>1, <2>1, <2>3 DEF FindActive
  <2> QED
    BY <2>2, <2>3
<1>2. ASSUME NEW e \in Delivery, InsertToken(e) PROVE t \in since'[d]
  <2>1. /\ dpc[d] = "insert" /\ dissue' = dissue /\ now' = now
        /\ since'[d] = since[d] \cup {e}
        /\ t # e => row'[t] = row[t]
    BY <1>2 DEF InsertToken
  <2> QED
    BY <2>1
<1>3. ASSUME NEW e \in Delivery,
             EvaluateSignal(e) \/ PostComment(e) \/ CloseIssue(e) \/ Abandon(e)
      PROVE t \in since'[d]
  BY <1>3 DEF EvaluateSignal, PostComment, CloseIssue, Abandon, gitHubVars
<1>4. ASSUME NEW e \in Delivery, NEW i \in Issue, Receive(e, i) PROVE t \in since'[d]
  BY <1>4 DEF Receive
<1>5. ASSUME NEW r \in Redeemer, MarkUsed(r) PROVE t \in since'[d]
  <2>1. UNCHANGED <<dpc, dissue, since, now>>
    BY <1>5 DEF MarkUsed, mintVars
  <2>2. row' = row \/ row' = [row EXCEPT ![rtok[r]].used_at = rat[r]]
    BY <1>5 DEF MarkUsed
  <2>3. /\ row'[t].stored = row[t].stored /\ row'[t].issue = row[t].issue
        /\ row'[t].expires = row[t].expires
        /\ row'[t].used_at = row[t].used_at \/ row'[t].used_at = rat[r]
    <3>1. row \in [Delivery -> Row]
      OBVIOUS
    <3>2. CASE row' = row
      BY <3>2
    <3>3. CASE row' = [row EXCEPT ![rtok[r]].used_at = rat[r]]
      <4>1. CASE rtok[r] = t
        BY <3>1, <3>3, <4>1 DEF Row
      <4>2. CASE rtok[r] # t
        BY <3>1, <3>3, <4>2
      <4> QED
        BY <4>1, <4>2
    <3> QED
      BY <2>2, <3>2, <3>3
  <2>4. rat[r] # Null
    BY DEF Time, Null
  <2> QED
    BY <2>1, <2>3, <2>4
<1>6. ASSUME NEW r \in Redeemer,
             \/ CreateSession(r) \/ Respond(r) \/ AbandonRequest(r)
             \/ \E u \in Delivery : SelectToken(r, u)
      PROVE t \in since'[d]
  BY <1>6 DEF CreateSession, Respond, AbandonRequest, SelectToken, mintVars
<1>7. CASE PruneTokens
  <2>1. UNCHANGED <<dpc, dissue, since, now>> /\ row'[t] = row[t]
    BY <1>7 DEF PruneTokens, Prunable, mintVars, Row
  <2> QED
    BY <2>1
<1>8. CASE Tick
  <2>1. now' = now + 1 /\ UNCHANGED <<dpc, dissue, since, row>>
    BY <1>8 DEF Tick, mintVars
  <2> QED
    BY <2>1 DEF Time, Row
<1>9. CASE (\E i \in Issue : EditIssue(i)) \/ UNCHANGED vars
  BY <1>9 DEF EditIssue, vars, mintVars
<1> QED
  BY <1>1, <1>2, <1>3, <1>4, <1>5, <1>6, <1>7, <1>8, <1>9 DEF Next, MintStep, RedeemStep

\* Two active tokens for one issue come only from deliveries that overlap.
THEOREM SecondTokenNeedsRace == Spec => []SecondTokenOnlyByRace
<1>1. Init => SecondTokenOnlyByRace
  BY DEF Init, SecondTokenOnlyByRace
<1> QED
  BY <1>1, NextSecondToken, TypeCorrect, PTL DEF Spec

-----------------------------------------------------------------------------
(* The signals. *)

\* What a delivery knows of its issue. A delivery witnesses the signals that
\* hold now; the ones it has judged held when it judged them; and a delivery
\* past the judgement has judged all of them.
Judged ==
  \A d \in Delivery :
    /\ dpc[d] = "idle" => dsig[d] = 0
    /\ dpc[d] # "idle" => dissue[d] \in Issue /\ Holding(issue[dissue[d]]) \subseteq held[d]
    /\ \A n \in 1..dsig[d] : RequiredSignals[n] \in held[d]
    /\ dpc[d] \in {"insert", "comment", "close"} \/ row[d].stored # "none" =>
         dsig[d] = Len(RequiredSignals)

\* What is witnessed is never forgotten, and the present is always witnessed.
LEMMA ChangeIsWitnessed ==
  ASSUME TypeOK, NEW i, NEW shown, ChangeIssue(i, shown),
         NEW d \in Delivery, dissue[d] \in Issue,
         Holding(issue[dissue[d]]) \subseteq held[d]
  PROVE  /\ held[d] \subseteq held'[d]
         /\ Holding(issue'[dissue[d]]) \subseteq held'[d]
<1>1. CASE dissue[d] = i
  BY <1>1 DEF TypeOK, ChangeIssue
<1>2. CASE dissue[d] # i
  BY <1>2 DEF TypeOK, ChangeIssue
<1> QED
  BY <1>1, <1>2

LEMMA NextJudged == IInv /\ Judged /\ [Next]_vars => Judged'
<1> SUFFICES ASSUME IInv, Judged, [Next]_vars PROVE Judged'
  OBVIOUS
<1>t. TypeOK
  BY DEF IInv
<1>n. Len(RequiredSignals) \in Nat
  BY SignalsAssumption
<1>c. ASSUME NEW i, NEW shown, ChangeIssue(i, shown),
             UNCHANGED <<dissue, dsig, row>>,
             \A d \in Delivery :
               /\ dpc'[d] = "idle" <=> dpc[d] = "idle"
               /\ dpc'[d] \in {"insert", "comment", "close"} =>
                    dpc[d] \in {"insert", "comment", "close"}
      PROVE Judged'
  <2> SUFFICES ASSUME NEW d \in Delivery
               PROVE /\ dpc'[d] = "idle" => dsig[d] = 0
                     /\ dpc'[d] # "idle" =>
                          dissue[d] \in Issue /\ Holding(issue'[dissue[d]]) \subseteq held'[d]
                     /\ \A n \in 1..dsig[d] : RequiredSignals[n] \in held'[d]
                     /\ dpc'[d] \in {"insert", "comment", "close"} \/ row[d].stored # "none" =>
                          dsig[d] = Len(RequiredSignals)
    BY <1>c DEF Judged, Holding, SignalHolds
  <2>1. CASE dpc[d] = "idle"
    BY <1>c, <1>t, <2>1 DEF Judged, TypeOK
  <2>2. CASE dpc[d] # "idle"
    <3>1. /\ held[d] \subseteq held'[d]
          /\ Holding(issue'[dissue[d]]) \subseteq held'[d]
      BY <1>c, <1>t, <2>2, ChangeIsWitnessed DEF Judged
    <3> QED
      BY <1>c, <2>2, <3>1 DEF Judged
  <2> QED
    BY <2>1, <2>2
<1>1. ASSUME NEW d \in Delivery, NEW i \in Issue, Receive(d, i) PROVE Judged'
  <2>1. row[d].stored = "none" /\ dsig[d] = 0
    BY <1>1 DEF Receive, IInv, RowFollowsDelivery, Judged
  <2> QED
    BY <1>1, <1>t, <2>1 DEF Receive, Judged, TypeOK, gitHubVars, Holding, SignalHolds
<1>2. ASSUME NEW d \in Delivery, EvaluateSignal(d) PROVE Judged'
  <2>1. /\ dpc[d] = "signals" /\ dsig[d] < Len(RequiredSignals)
        /\ UNCHANGED <<issue, row, dissue, held>>
    BY <1>2 DEF EvaluateSignal, gitHubVars
  <2>2. row[d].stored = "none"
    BY <2>1 DEF IInv, RowFollowsDelivery
  <2>3. CASE SignalHolds(RequiredSignals[dsig[d] + 1], issue[dissue[d]])
    <3>1. dsig' = [dsig EXCEPT ![d] = dsig[d] + 1] /\ dpc' = dpc
      BY <1>2, <2>3 DEF EvaluateSignal
    <3>2. RequiredSignals[dsig[d] + 1] \in SignalKinds
      BY <2>1, <1>t, <1>n, SignalsAssumption DEF TypeOK
    <3>3. RequiredSignals[dsig[d] + 1] \in held[d]
      BY <2>1, <2>3, <3>2 DEF Judged, Holding
    <3> QED
      BY <1>t, <1>n, <2>1, <2>2, <3>1, <3>3 DEF Judged, TypeOK, Holding, SignalHolds
  <2>4. CASE ~SignalHolds(RequiredSignals[dsig[d] + 1], issue[dissue[d]])
    <3>1. dsig' = dsig /\ dpc' = [dpc EXCEPT ![d] = "denied"]
      BY <1>2, <2>4 DEF EvaluateSignal
    <3> QED
      BY <1>t, <2>1, <3>1 DEF Judged, TypeOK, Holding, SignalHolds
  <2> QED
    BY <2>3, <2>4
<1>3. ASSUME NEW d \in Delivery,
             FindActive(d) \/ InsertToken(d) \/ PostComment(d) \/ Abandon(d)
      PROVE Judged'
  <2>1. /\ UNCHANGED <<issue, dissue, dsig, held>>
        /\ dpc[d] # "idle" /\ dpc'[d] # "idle"
        /\ \A e \in Delivery \ {d} : dpc'[e] = dpc[e] /\ row'[e] = row[e]
    BY <1>3, <1>t DEF FindActive, InsertToken, PostComment, Abandon, gitHubVars, TypeOK
  <2>2. dpc'[d] \in {"insert", "comment", "close"} \/ row'[d].stored # "none" =>
          dsig[d] = Len(RequiredSignals)
    BY <1>3, <1>t DEF FindActive, InsertToken, PostComment, Abandon, gitHubVars, TypeOK, Judged
  <2> QED
    BY <2>1, <2>2 DEF Judged, Holding, SignalHolds
<1>4. ASSUME NEW d \in Delivery, CloseIssue(d) PROVE Judged'
  BY <1>4, <1>c, <1>t DEF CloseIssue, TypeOK
<1>5. ASSUME NEW i \in Issue, EditIssue(i) PROVE Judged'
  BY <1>5, <1>c DEF EditIssue
<1>6. ASSUME UNCHANGED <<issue, held, dpc, dissue, dsig>>,
             \A d \in Delivery : row'[d].stored # "none" => row[d].stored # "none"
      PROVE Judged'
  BY <1>6 DEF Judged, Holding, SignalHolds
<1>7. ASSUME NEW r \in Redeemer, RedeemStep(r) \/ AbandonRequest(r) PROVE Judged'
  <2>1. UNCHANGED <<issue, held, dpc, dissue, dsig>>
    BY <1>7 DEF RedeemStep, MarkUsed, CreateSession, Respond, AbandonRequest, gitHubVars,
                mintVars
  <2>2. \A d \in Delivery : row'[d].stored = row[d].stored
    <3>1. CASE MarkUsed(r) /\ StillUnused(rtok[r])
      <4>1. row' = [row EXCEPT ![rtok[r]].used_at = rat[r]]
        BY <3>1 DEF MarkUsed
      <4> QED
        BY <4>1, <1>t DEF TypeOK, Row
    <3>2. CASE ~(MarkUsed(r) /\ StillUnused(rtok[r]))
      <4>1. row' = row
        BY <1>7, <3>2 DEF RedeemStep, MarkUsed, CreateSession, Respond, AbandonRequest
      <4> QED
        BY <4>1
    <3> QED
      BY <3>1, <3>2
  <2> QED
    BY <1>6, <2>1, <2>2
<1>8. CASE PruneTokens
  BY <1>6, <1>8, <1>t DEF PruneTokens, Prunable, gitHubVars, mintVars, TypeOK, Row
<1>9. CASE \/ Tick \/ UNCHANGED vars
           \/ \E r \in Redeemer, t \in Delivery : SelectToken(r, t)
  BY <1>6, <1>9 DEF Tick, vars, SelectToken, gitHubVars, mintVars
<1> QED
  BY <1>1, <1>2, <1>3, <1>4, <1>5, <1>7, <1>8, <1>9 DEF Next, MintStep

\* Every required signal of a minted token held while its delivery was handled.
THEOREM SignalsOfAMintHeld == Spec => []EachSignalHeld
<1>1. Init => Judged
  <2> SUFFICES ASSUME Init, NEW d \in Delivery
               PROVE /\ dpc[d] = "idle" /\ dsig[d] = 0
                     /\ row[d].stored = "none" /\ 1..dsig[d] = {}
    BY DEF Judged
  <2> QED
    BY DEF Init
<1>2. Judged => EachSignalHeld
  BY DEF Judged, EachSignalHeld
<1> QED
  BY <1>1, <1>2, NextJudged, InductiveInvariant, PTL DEF Spec

-----------------------------------------------------------------------------
(* The refinement of OneTimeToken. *)

LEMMA InitRefines == Init => OneTime!Init
BY DEF Init, OneTime!Init, TokenStatus

LEMMA StepRefines == IInv /\ [Next]_vars => [OneTime!Next]_(OneTime!abstractVars)
<1> SUFFICES ASSUME IInv, [Next]_vars PROVE [OneTime!Next]_(OneTime!abstractVars)
  OBVIOUS
<1>t. TypeOK
  BY DEF IInv
<1>u. ASSUME row' = row, winner' = winner, session' = session
      PROVE UNCHANGED OneTime!abstractVars
  BY <1>u DEF OneTime!abstractVars, TokenStatus
<1>1. ASSUME NEW d \in Delivery, InsertToken(d) PROVE OneTime!IssueToken(d)
  <2>1. /\ winner' = winner /\ session' = session
        /\ dpc[d] = "insert"
        /\ row' = [row EXCEPT ![d] = [stored |-> "stored", issue |-> dissue[d],
                                      expires |-> dat[d] + TokenTtl, used_at |-> Null]]
    BY <1>1 DEF InsertToken, redeemVars
  <2>2. row[d].stored = "none" /\ winner[d] = None
    BY <2>1 DEF IInv, RowFollowsDelivery, UsedHasWinner
  <2>3. row'[d].stored = "stored" /\ \A t \in Delivery \ {d} : row'[t] = row[t]
    BY <2>1, <1>t DEF TypeOK
  <2> QED
    BY <2>1, <2>2, <2>3 DEF OneTime!IssueToken, TokenStatus
<1>2. ASSUME NEW r \in Redeemer, MarkUsed(r), StillUnused(rtok[r])
      PROVE OneTime!Redeem(rtok[r], r)
  <2> DEFINE t == rtok[r]
  <2>1. /\ rpc[r] = "update" /\ t \in Delivery /\ session' = session
        /\ winner' = [winner EXCEPT ![t] = r]
        /\ row' = [row EXCEPT ![t].used_at = rat[r]]
    BY <1>2 DEF MarkUsed, IInv, RequestIsWinner
  <2>2. \A u \in Delivery : winner[u] # r
    BY <2>1 DEF IInv, WinnerHasPassed
  <2>3. winner[t] = None /\ row[t].stored = "stored" /\ r # None
    BY <1>2, <2>1, NoneAssumption DEF StillUnused, IInv, UsedHasWinner
  <2>4. \A u \in Delivery : row'[u].stored = row[u].stored
    BY <2>1, <1>t DEF TypeOK, Row
  <2>5. winner'[t] = r /\ \A u \in Delivery \ {t} : winner'[u] = winner[u]
    BY <2>1, <1>t DEF TypeOK
  <2> QED
    BY <2>1, <2>2, <2>3, <2>4, <2>5 DEF OneTime!Redeem, TokenStatus
<1>3. ASSUME NEW r \in Redeemer, MarkUsed(r), ~StillUnused(rtok[r])
      PROVE UNCHANGED OneTime!abstractVars
  BY <1>3, <1>u DEF MarkUsed
<1>4. ASSUME NEW r \in Redeemer, CreateSession(r) PROVE OneTime!Open(r, rtok[r])
  <2>1. winner[rtok[r]] = r /\ session[r] = None
    BY <1>4 DEF CreateSession, IInv, RequestIsWinner, SessionOfWinner
  <2> QED
    BY <1>4, <2>1 DEF CreateSession, OneTime!Open, TokenStatus
<1>5. CASE PruneTokens
  <2> DEFINE T == {t \in Delivery : Prunable(t) /\ winner[t] = None}
  <2>1. winner' = winner /\ session' = session
    BY <1>5 DEF PruneTokens, redeemVars
  <2>2. \A t \in Delivery : row'[t].stored = IF Prunable(t) THEN "pruned" ELSE row[t].stored
    BY <1>5, <1>t DEF PruneTokens, TypeOK, Row
  <2>3. \A t \in Delivery : Prunable(t) => row[t].stored = "stored"
    BY DEF Prunable
  <2>4. OneTime!Withdraw(T)
    BY <2>1, <2>2, <2>3 DEF OneTime!Withdraw, TokenStatus
  <2> QED
    BY <2>4 DEF OneTime!Next
<1>6. ASSUME NEW d \in Delivery, MintStep(d) PROVE [OneTime!Next]_(OneTime!abstractVars)
  BY <1>6, <1>1, <1>u DEF MintStep, EvaluateSignal, FindActive, PostComment, CloseIssue,
                         OneTime!Next, redeemVars
<1>7. ASSUME NEW r \in Redeemer, RedeemStep(r)
      PROVE [OneTime!Next]_(OneTime!abstractVars)
  <2>1. CASE MarkUsed(r)
    <3>1. CASE StillUnused(rtok[r])
      <4>1. rtok[r] \in Delivery
        BY <2>1 DEF MarkUsed, IInv, RequestIsWinner
      <4> QED
        BY <1>2, <2>1, <3>1, <4>1 DEF OneTime!Next
    <3>2. CASE ~StillUnused(rtok[r])
      BY <1>3, <2>1, <3>2
    <3> QED
      BY <3>1, <3>2
  <2>2. CASE CreateSession(r)
    <3>1. rtok[r] \in Delivery
      BY <2>2 DEF CreateSession, IInv, RequestIsWinner
    <3> QED
      BY <1>4, <2>2, <3>1 DEF OneTime!Next
  <2>3. CASE Respond(r)
    BY <2>3, <1>u DEF Respond
  <2> QED
    BY <1>7, <2>1, <2>2, <2>3 DEF RedeemStep
<1>8. ASSUME \/ \E d \in Delivery : Abandon(d)
             \/ \E d \in Delivery, i \in Issue : Receive(d, i)
             \/ \E r \in Redeemer : AbandonRequest(r)
             \/ \E r \in Redeemer, t \in Delivery : SelectToken(r, t)
             \/ \E i \in Issue : EditIssue(i)
             \/ Tick
      PROVE UNCHANGED OneTime!abstractVars
  BY <1>8, <1>u DEF Abandon, Receive, AbandonRequest, SelectToken, EditIssue, Tick, redeemVars
<1>9. CASE UNCHANGED vars
  BY <1>9, <1>u DEF vars, redeemVars
<1> QED
  BY <1>5, <1>6, <1>7, <1>8, <1>9 DEF Next

\* The broker's handlers, however they interleave, fail or are retried, keep
\* the promise of a one-time token.
THEOREM KeepsOneTimePromise == Spec => ImplementsOneTimeToken
<1> QED
  BY InitRefines, StepRefines, InductiveInvariant, PTL
     DEF Spec, ImplementsOneTimeToken, OneTime!Spec
=============================================================================
