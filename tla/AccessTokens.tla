---------------------------- MODULE AccessTokens ----------------------------
(***************************************************************************)
(* The broker's one-time access tokens: GitHub webhook deliveries that     *)
(* mint them and POST /api/sessions requests (or `gatebase session         *)
(* create`) that redeem them, all sharing the metadata store.              *)
(*                                                                         *)
(* A delivery mints at most one token, so a token is named by the delivery *)
(* that minted it.  Every await between two steps of a handler is a point  *)
(* where the other handlers, GitHub, the clock and pruning may move, and   *)
(* where the handler may stop: a failed call, a peer that hung up (the     *)
(* HTTP server drops the handler) and a crash of the broker all leave what *)
(* was already done and do nothing more, and are one action, Abandon.      *)
(***************************************************************************)
EXTENDS Integers, Sequences

CONSTANTS Delivery,         \* webhook deliveries; also the identities of tokens
          Redeemer,         \* requests to exchange a token for a session
          Issue,            \* GitHub issues of the one configured repository
          RequiredSignals,  \* target.access.required_signals, in order
          TokenTtl,         \* target.access.access_token_ttl
          Retention,        \* retention.approval_days
          MaxTime,          \* bound on the clock
          None              \* no token, no request

SignalKinds == {"github_issue_open", "github_issue_labels"}

ASSUME TtlAssumption == TokenTtl \in Nat \ {0}
ASSUME RetentionAssumption == Retention \in Nat
ASSUME MaxTimeAssumption == MaxTime \in Nat
ASSUME SignalsAssumption == RequiredSignals \in Seq(SignalKinds)
ASSUME NoneAssumption == None \notin Delivery /\ None \notin Redeemer /\ None \notin Issue

VARIABLES
  now,      \* the clock
  issue,    \* GitHub: is each issue open, does it have the required labels
  row,      \* access_tokens: the row of each token
  posted,   \* tokens whose raw text is in a comment
  dpc,      \* where each delivery's handler is
  dissue,   \* the issue a delivery is about
  dsig,     \* how many signals a delivery has found to hold
  dat,      \* the clock a delivery read before it looked for an active token
  rpc,      \* where each redeem request is
  rtok,     \* the token a request was given
  rat,      \* the clock a request read when it arrived
  session,  \* sessions: the token each request opened a session for, or None
  winner,   \* history: the request whose UPDATE set used_at, or None
  since,    \* history: tokens inserted since a delivery looked for an active one
  held      \* history: signals that held while a delivery was handled

gitHubVars == <<issue, posted>>
mintVars == <<dpc, dissue, dsig, dat, since, held>>
redeemVars == <<rpc, rtok, rat, session, winner>>
vars == <<now, gitHubVars, row, mintVars, redeemVars>>

Null == -1   \* SQL NULL in used_at

Time == 0..MaxTime
Row == [stored  : {"none", "stored", "pruned"},
        issue   : Issue \cup {None},
        expires : Nat,
        used_at : Time \cup {Null}]

DeliveryPc == {"idle", "signals", "insert", "comment", "close",
               "minted", "already", "denied", "failed"}
RedeemPc == {"idle", "update", "create", "respond",
             "granted", "denied", "failed"}

-----------------------------------------------------------------------------
(* Queries of the metadata store. *)

\* The definitions named Faulty... are not part of the model. Each one is the
\* definition that follows it with one plausible mistake, used to confirm that
\* the properties tell the two apart.

\* Without the filter on the issue.
FaultyActiveTokens(i, at) ==
  {t \in Delivery : /\ row[t].stored = "stored"
                    /\ row[t].used_at = Null
                    /\ row[t].expires > at}

\* find_active_access_token: unused and unexpired tokens of an issue.
ActiveTokens(i, at) ==
  {t \in Delivery : /\ row[t].stored = "stored"
                    /\ row[t].issue = i
                    /\ row[t].used_at = Null
                    /\ row[t].expires > at}

\* Without the comparison with the clock.
FaultyRedeemable(t, at) ==
  /\ row[t].stored = "stored"
  /\ row[t].used_at = Null

\* The SELECT of consume_access_token.
Redeemable(t, at) ==
  /\ row[t].stored = "stored"
  /\ row[t].used_at = Null
  /\ row[t].expires > at

\* The UPDATE trusts the SELECT.
FaultyStillUnused(t) == row[t].stored = "stored"

\* The WHERE clause of its UPDATE.
StillUnused(t) ==
  /\ row[t].stored = "stored"
  /\ row[t].used_at = Null

\* The WHERE clause of prune_access_tokens.
Prunable(t) ==
  /\ row[t].stored = "stored"
  /\ row[t].expires < now - Retention

\* evaluate_signal on the issue as GitHub shows it at that moment.
SignalHolds(signal, shown) ==
  \/ signal = "github_issue_open" /\ shown.open
  \/ signal = "github_issue_labels" /\ shown.labeled

Holding(shown) == {signal \in SignalKinds : SignalHolds(signal, shown)}

\* An issue changes on GitHub, which the deliveries about it live through.
ChangeIssue(i, shown) ==
  /\ issue' = [issue EXCEPT ![i] = shown]
  /\ held' = [d \in Delivery |->
                IF dissue[d] = i THEN held[d] \cup Holding(shown) ELSE held[d]]

-----------------------------------------------------------------------------
Init ==
  /\ now = 0
  /\ issue \in [Issue -> [open : {TRUE}, labeled : BOOLEAN]]
  /\ row = [t \in Delivery |-> [stored |-> "none", issue |-> None,
                                expires |-> 0, used_at |-> Null]]
  /\ posted = {}
  /\ dpc = [d \in Delivery |-> "idle"]
  /\ dissue = [d \in Delivery |-> None]
  /\ dsig = [d \in Delivery |-> 0]
  /\ dat = [d \in Delivery |-> 0]
  /\ since = [d \in Delivery |-> {}]
  /\ held = [d \in Delivery |-> {}]
  /\ rpc = [r \in Redeemer |-> "idle"]
  /\ rtok = [r \in Redeemer |-> None]
  /\ rat = [r \in Redeemer |-> 0]
  /\ session = [r \in Redeemer |-> None]
  /\ winner = [t \in Delivery |-> None]

-----------------------------------------------------------------------------
(* github_webhook and mint_issue_access_token: one action per remote call. *)

\* A signed `issues` event with one of the four actions arrives. Deliveries
\* are asynchronous: the issue may have changed since the event, and GitHub
\* may deliver an event again.
Receive(d, i) ==
  /\ dpc[d] = "idle"
  /\ dpc' = [dpc EXCEPT ![d] = "signals"]
  /\ dissue' = [dissue EXCEPT ![d] = i]
  /\ held' = [held EXCEPT ![d] = Holding(issue[i])]
  /\ UNCHANGED <<now, gitHubVars, row, dsig, dat, since, redeemVars>>

\* The first signal is judged every time.
FaultyEvaluateSignal(d) ==
  /\ dpc[d] = "signals"
  /\ dsig[d] < Len(RequiredSignals)
  /\ IF SignalHolds(RequiredSignals[1], issue[dissue[d]])
     THEN /\ dsig' = [dsig EXCEPT ![d] = dsig[d] + 1]
          /\ dpc' = dpc
     ELSE /\ dpc' = [dpc EXCEPT ![d] = "denied"]
          /\ dsig' = dsig
  /\ UNCHANGED <<now, gitHubVars, row, dissue, dat, since, held, redeemVars>>

\* Each required signal is judged on a GET of its own.
EvaluateSignal(d) ==
  /\ dpc[d] = "signals"
  /\ dsig[d] < Len(RequiredSignals)
  /\ IF SignalHolds(RequiredSignals[dsig[d] + 1], issue[dissue[d]])
     THEN /\ dsig' = [dsig EXCEPT ![d] = dsig[d] + 1]
          /\ dpc' = dpc
     ELSE /\ dpc' = [dpc EXCEPT ![d] = "denied"]
          /\ dsig' = dsig
  /\ UNCHANGED <<now, gitHubVars, row, dissue, dat, since, held, redeemVars>>

\* The answer of the query is ignored.
FaultyFindActive(d) ==
  /\ dpc[d] = "signals"
  /\ dsig[d] = Len(RequiredSignals)
  /\ dat' = [dat EXCEPT ![d] = now]
  /\ dpc' = [dpc EXCEPT ![d] = "insert"]
  /\ since' = [since EXCEPT ![d] = {}]
  /\ UNCHANGED <<now, gitHubVars, row, dissue, dsig, held, redeemVars>>

\* All signals passed: read the clock, then look for an active token.
FindActive(d) ==
  /\ dpc[d] = "signals"
  /\ dsig[d] = Len(RequiredSignals)
  /\ dat' = [dat EXCEPT ![d] = now]
  /\ dpc' = [dpc EXCEPT ![d] = IF ActiveTokens(dissue[d], now) = {}
                               THEN "insert" ELSE "already"]
  /\ since' = [since EXCEPT ![d] = {}]
  /\ UNCHANGED <<now, gitHubVars, row, dissue, dsig, held, redeemVars>>

\* The time to live is subtracted.
FaultyInsertToken(d) ==
  /\ dpc[d] = "insert"
  /\ row' = [row EXCEPT ![d] = [stored |-> "stored", issue |-> dissue[d],
                                expires |-> dat[d] - TokenTtl,
                                used_at |-> Null]]
  /\ since' = [e \in Delivery |-> since[e] \cup {d}]
  /\ dpc' = [dpc EXCEPT ![d] = "comment"]
  /\ UNCHANGED <<now, gitHubVars, dissue, dsig, dat, held, redeemVars>>

\* Fetch the issue again for its author, then insert the row. Only the hash
\* of the token is stored; the raw token lives in this handler alone.
InsertToken(d) ==
  /\ dpc[d] = "insert"
  /\ row' = [row EXCEPT ![d] = [stored |-> "stored", issue |-> dissue[d],
                                expires |-> dat[d] + TokenTtl,
                                used_at |-> Null]]
  /\ since' = [e \in Delivery |-> since[e] \cup {d}]
  /\ dpc' = [dpc EXCEPT ![d] = "comment"]
  /\ UNCHANGED <<now, gitHubVars, dissue, dsig, dat, held, redeemVars>>

\* The comment may go out before the row is stored.
FaultyPostComment(d) ==
  /\ dpc[d] \in {"insert", "comment"}
  /\ posted' = posted \cup {d}
  /\ dpc' = [dpc EXCEPT ![d] = IF dpc[d] = "insert" THEN "insert" ELSE "close"]
  /\ UNCHANGED <<now, issue, row, dissue, dsig, dat, since, held, redeemVars>>

\* comment_issue: the raw token becomes public.
PostComment(d) ==
  /\ dpc[d] = "comment"
  /\ posted' = posted \cup {d}
  /\ dpc' = [dpc EXCEPT ![d] = "close"]
  /\ UNCHANGED <<now, issue, row, dissue, dsig, dat, since, held, redeemVars>>

\* close_issue.
CloseIssue(d) ==
  /\ dpc[d] = "close"
  /\ ChangeIssue(dissue[d], [issue[dissue[d]] EXCEPT !.open = FALSE])
  /\ dpc' = [dpc EXCEPT ![d] = "minted"]
  /\ UNCHANGED <<now, posted, row, dissue, dsig, dat, since, redeemVars>>

\* The handler stops between two steps. The webhook still answers 202 to a
\* failed mint, so GitHub does not deliver the event again by itself.
Abandon(d) ==
  /\ dpc[d] \in {"signals", "insert", "comment", "close"}
  /\ dpc' = [dpc EXCEPT ![d] = "failed"]
  /\ UNCHANGED <<now, gitHubVars, row, dissue, dsig, dat, since, held, redeemVars>>

-----------------------------------------------------------------------------
(* create_session: one action per statement on the store. *)

\* consume_access_token, its SELECT: somebody who read the comment sends the
\* token. A token that matches no row is refused with 401.
SelectToken(r, t) ==
  /\ rpc[r] = "idle"
  /\ t \in posted
  /\ rtok' = [rtok EXCEPT ![r] = t]
  /\ rat' = [rat EXCEPT ![r] = now]
  /\ rpc' = [rpc EXCEPT ![r] = IF Redeemable(t, now) THEN "update" ELSE "denied"]
  /\ UNCHANGED <<now, gitHubVars, row, mintVars, session, winner>>

\* The number of affected rows is ignored.
FaultyMarkUsed(r) ==
  /\ rpc[r] = "update"
  /\ rpc' = [rpc EXCEPT ![r] = "create"]
  /\ IF StillUnused(rtok[r])
     THEN /\ row' = [row EXCEPT ![rtok[r]].used_at = rat[r]]
          /\ winner' = [winner EXCEPT ![rtok[r]] = r]
     ELSE UNCHANGED <<row, winner>>
  /\ UNCHANGED <<now, gitHubVars, mintVars, rtok, rat, session>>

\* consume_access_token, its conditional UPDATE, which does not look at the
\* clock again. No affected row: refused with 401.
MarkUsed(r) ==
  /\ rpc[r] = "update"
  /\ IF StillUnused(rtok[r])
     THEN /\ row' = [row EXCEPT ![rtok[r]].used_at = rat[r]]
          /\ winner' = [winner EXCEPT ![rtok[r]] = r]
          /\ rpc' = [rpc EXCEPT ![r] = "create"]
     ELSE /\ rpc' = [rpc EXCEPT ![r] = "denied"]
          /\ UNCHANGED <<row, winner>>
  /\ UNCHANGED <<now, gitHubVars, mintVars, rtok, rat, session>>

\* A failed insert of the session is swallowed.
FaultyCreateSession(r) ==
  /\ rpc[r] = "create"
  /\ session' \in {session, [session EXCEPT ![r] = rtok[r]]}
  /\ rpc' = [rpc EXCEPT ![r] = "respond"]
  /\ UNCHANGED <<now, gitHubVars, row, mintVars, rtok, rat, winner>>

\* The session is created only after the token is spent.
CreateSession(r) ==
  /\ rpc[r] = "create"
  /\ session' = [session EXCEPT ![r] = rtok[r]]
  /\ rpc' = [rpc EXCEPT ![r] = "respond"]
  /\ UNCHANGED <<now, gitHubVars, row, mintVars, rtok, rat, winner>>

\* Sign the session token, find the target, answer with the connection string.
Respond(r) ==
  /\ rpc[r] = "respond"
  /\ rpc' = [rpc EXCEPT ![r] = "granted"]
  /\ UNCHANGED <<now, gitHubVars, row, mintVars, rtok, rat, session, winner>>

\* The request stops between two steps: a store error, an unknown target, a
\* client that hung up, a crash.
AbandonRequest(r) ==
  /\ rpc[r] \in {"update", "create", "respond"}
  /\ rpc' = [rpc EXCEPT ![r] = "failed"]
  /\ UNCHANGED <<now, gitHubVars, row, mintVars, rtok, rat, session, winner>>

-----------------------------------------------------------------------------
(* Pruning, people on GitHub, and time. *)

\* prune_access_tokens: one DELETE.
PruneTokens ==
  /\ \E t \in Delivery : Prunable(t)
  /\ row' = [t \in Delivery |->
               IF Prunable(t) THEN [row[t] EXCEPT !.stored = "pruned"] ELSE row[t]]
  /\ UNCHANGED <<now, gitHubVars, mintVars, redeemVars>>

\* The author or a maintainer opens, closes, labels or unlabels an issue.
EditIssue(i) ==
  /\ \/ ChangeIssue(i, [issue[i] EXCEPT !.open = ~@])
     \/ ChangeIssue(i, [issue[i] EXCEPT !.labeled = ~@])
  /\ UNCHANGED <<now, posted, row, dpc, dissue, dsig, dat, since, redeemVars>>

Tick ==
  /\ now < MaxTime
  /\ now' = now + 1
  /\ UNCHANGED <<gitHubVars, row, mintVars, redeemVars>>

-----------------------------------------------------------------------------
MintStep(d) ==
  \/ EvaluateSignal(d) \/ FindActive(d) \/ InsertToken(d)
  \/ PostComment(d) \/ CloseIssue(d)

RedeemStep(r) ==
  MarkUsed(r) \/ CreateSession(r) \/ Respond(r)

Next ==
  \/ \E d \in Delivery : MintStep(d) \/ Abandon(d)
  \/ \E d \in Delivery, i \in Issue : Receive(d, i)
  \/ \E r \in Redeemer : RedeemStep(r) \/ AbandonRequest(r)
  \/ \E r \in Redeemer, t \in Delivery : SelectToken(r, t)
  \/ PruneTokens
  \/ \E i \in Issue : EditIssue(i)
  \/ Tick

Spec == Init /\ [][Next]_vars

\* The runtime keeps scheduling a delivery's handler until it returns, is
\* abandoned or stops at a failed call.
FairSpec == Spec /\ \A d \in Delivery : WF_vars(MintStep(d))

-----------------------------------------------------------------------------
(* Properties. *)

\* Types of the variables.
TypeOK ==
  /\ now \in Time
  /\ issue \in [Issue -> [open : BOOLEAN, labeled : BOOLEAN]]
  /\ row \in [Delivery -> Row]
  /\ posted \subseteq Delivery
  /\ dpc \in [Delivery -> DeliveryPc]
  /\ dissue \in [Delivery -> Issue \cup {None}]
  /\ dsig \in [Delivery -> 0..Len(RequiredSignals)]
  /\ dat \in [Delivery -> Time]
  /\ since \in [Delivery -> SUBSET Delivery]
  /\ held \in [Delivery -> SUBSET SignalKinds]
  /\ rpc \in [Redeemer -> RedeemPc]
  /\ rtok \in [Redeemer -> Delivery \cup {None}]
  /\ rat \in [Redeemer -> Time]
  /\ session \in [Redeemer -> Delivery \cup {None}]
  /\ winner \in [Delivery -> Redeemer \cup {None}]

\* However many requests race with the same token, at most one session is
\* opened for it: consume_access_token reads the row and only then marks it,
\* and the condition repeated in its UPDATE decides who wins.
AtMostOneSession ==
  \A r1, r2 \in Redeemer :
    session[r1] # None /\ session[r1] = session[r2] => r1 = r2

\* A token is never spent by a request that arrived at or after its expiry,
\* although the UPDATE that spends it may run later and does not look at the
\* clock, and although pruning may run in between.
SpentBeforeExpiry ==
  \A t \in Delivery :
    row[t].used_at # Null => row[t].used_at < row[t].expires

\* A delivery that is about to insert a token does so over an active token of
\* its issue only if that token was inserted after the delivery looked: the
\* check-then-insert of mint_issue_access_token admits two active tokens for
\* an issue only through overlapping deliveries.
SecondTokenOnlyByRace ==
  \A d \in Delivery :
    dpc[d] = "insert" => ActiveTokens(dissue[d], now) \subseteq since[d]

\* A token is minted only for an issue for which each required signal held at
\* some moment between the arrival of the delivery and the mint, although each
\* is judged on a read of its own and the issue may change in between. (They
\* need not have held together, nor hold when the token is minted.)
EachSignalHeld ==
  \A d \in Delivery :
    row[d].stored # "none" =>
      \A n \in 1..Len(RequiredSignals) : RequiredSignals[n] \in held[d]

\* A raw token is only ever published after its row is in the store, so the
\* person who reads the comment can never be refused because they were quick.
PublishedIsStored ==
  \A t \in posted : row[t].stored # "none"

\* What a request is told is what happened: an answer with a connection string
\* means this request spent the token and opened the session; a 401 means it
\* did neither, so the person can try again with another token.
AnswerIsTruthful ==
  \A r \in Redeemer :
    /\ rpc[r] = "granted" => session[r] = rtok[r] /\ winner[rtok[r]] = r
    /\ rpc[r] = "denied" => session[r] = None /\ winner[rtok[r]] # r

\* A token that is spent without a session is accounted for: the request that
\* spent it is still between the two statements, or it failed there.
SpentWithoutSession ==
  \A t \in Delivery :
    row[t].used_at # Null =>
      \E r \in Redeemer :
        /\ winner[t] = r
        /\ session[r] = t \/ rpc[r] \in {"create", "failed"}

\* Where a token is in the life that OneTimeToken gives it.
TokenStatus(t) ==
  IF winner[t] # None THEN "redeemed"
  ELSE IF row[t].stored = "none" THEN "unissued"
  ELSE IF row[t].stored = "stored" THEN "issued" ELSE "withdrawn"

\* The token store implements the one-time promise.
OneTime == INSTANCE OneTimeToken WITH
  Token <- Delivery,
  Holder <- Redeemer,
  status <- [t \in Delivery |-> TokenStatus(t)],
  holder <- winner,
  opened <- session

\* Every behaviour of the broker is a behaviour of OneTimeToken.
ImplementsOneTimeToken == OneTime!Spec

\* A delivery whose signals pass ends with a token published on its issue, its
\* own or the one another delivery was publishing when this one looked, unless
\* its own handler or the one that stored that other token stopped half-way.
ApprovedIsPublished ==
  \A d \in Delivery :
    dpc[d] = "signals" ~>
      \/ dpc[d] = "denied"
      \/ \E t \in posted : row[t].issue = dissue[d]
      \/ dpc[d] = "failed"
      \/ \E e \in Delivery : dpc[e] = "failed" /\ row[e].issue = dissue[d]

\* An approved issue gets a one-time token: a delivery that finds an active
\* token and returns without minting leaves the issue with a token that is
\* published, or that its own handler is about to publish.
ActiveTokenIsPublished ==
  \A d \in Delivery :
    dpc[d] = "already" =>
      \E t \in Delivery :
        /\ row[t].issue = dissue[d]
        /\ t \in posted \/ dpc[t] = "comment"
=============================================================================
