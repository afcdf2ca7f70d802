------------------------------ MODULE Console ------------------------------
(***************************************************************************)
(* The web console (gatebase ui) and the broker lists it pages through:    *)
(* the five pages, their pagers, filters, refresh buttons and the revert   *)
(* shown under an audit event; the query cache between the pages and the   *)
(* network; the list endpoints behind the local proxy, over lists that     *)
(* grow, shrink and are pruned while they are read.                        *)
(*                                                                         *)
(* The query cache (TanStack Query) is external: it is modelled from how   *)
(* main.tsx configures it and the pages use it.  A query that is watched   *)
(* by a mounted component is fetched when it is new or stale, an answer is *)
(* fresh for staleTime, a failure is retried once, and while the browser   *)
(* is offline requests wait.                                               *)
(***************************************************************************)
EXTENDS Integers, FiniteSets, BeforeRowsCsv

CONSTANTS Ids,            \* rows a list may hold; a newer row is a greater one
          Stored,         \* rows of each list when the console is opened
          Comes,          \* bound: rows each list comes to hold
          Captured,       \* audit events that name a rollback artifact
          Before,         \* the before-rows of their artifacts
          Filters,        \* audit filters a user may type
          NoFilter,       \* the empty filter
          Matches,        \* events each filter selects
          AuditPageSize,  \* PAGE_SIZE of the audit page
          PageSize,       \* PAGE_SIZE of the other pages
          Visits,         \* bound: the sets of pages a user goes to
          MaxPage,        \* bound: the last page a pager is taken to
          MaxClicks,      \* bound: clicks and edits of the user
          MaxChanges,     \* bound: changes of the broker's lists
          MaxEvents,      \* bound: lost requests, losses of the network and timeouts
          None,           \* no offset, no event
          NoData,         \* no answer yet
          Refused         \* an answer that is not 200

Lists == {"sessions", "audits", "connections", "users", "activity"}
PageNumbers == 0 .. MaxPage

ASSUME IdsAssumption == Ids \subseteq Nat /\ IsFiniteSet(Ids)
ASSUME StoredAssumption == {Stored, Comes} \subseteq [Lists -> SUBSET Ids] /\ Captured \subseteq Ids
ASSUME BeforeAssumption == \A i \in Captured : Before[i] = << >> \/ IsBeforeRows(Before[i])
ASSUME FilterAssumption ==
  NoFilter \in Filters /\ Matches \in [Filters -> SUBSET Ids] /\ Matches[NoFilter] = Ids
ASSUME SizeAssumption == AuditPageSize \in Nat \ {0} /\ PageSize \in Nat \ {0}
ASSUME BoundAssumption == {MaxPage, MaxClicks, MaxChanges, MaxEvents} \subseteq Nat
ASSUME NoneAssumption == None \notin Nat

-----------------------------------------------------------------------------
(* The pages. *)

Sessions == [list |-> "sessions", size |-> PageSize, refresh |-> TRUE]
Audits == [list |-> "audits", size |-> AuditPageSize, refresh |-> FALSE]
Connections == [list |-> "connections", size |-> PageSize, refresh |-> TRUE]
Users == [list |-> "users", size |-> PageSize, refresh |-> TRUE]
Logs == [list |-> "activity", size |-> PageSize, refresh |-> FALSE]

TABS == {Sessions, Audits, Connections, Users, Logs}

ASSUME VisitsAssumption == Visits \subseteq SUBSET TABS

Screen == [tab : TABS, page : PageNumbers, filters : Filters, draft : Filters,
           open : Ids \cup {None}]

\* A panel keeps nothing while another one is selected.
Entered(t) == [tab |-> t, page |-> 0, filters |-> NoFilter, draft |-> NoFilter, open |-> None]

-----------------------------------------------------------------------------
(* Requests, and the keys their answers are cached under. *)

Request == [path : Lists \cup {"rollback"}, filter : Filters,
            limit : Nat \cup {None}, offset : Nat \cup {None}, id : Ids \cup {None}]

\* A parameter that is zero is left out of the query string.
Param(n) == IF n = 0 THEN None ELSE n

qs(f, limit, offset) ==
  [path |-> "audits", filter |-> f, limit |-> Param(limit), offset |-> Param(offset),
   id |-> None]

pageQs(l, limit, offset) ==
  [path |-> l, filter |-> NoFilter, limit |-> Param(limit), offset |-> Param(offset),
   id |-> None]

auditRollback(i) ==
  [path |-> "rollback", filter |-> NoFilter, limit |-> None, offset |-> None, id |-> i]

FaultyPageRequest(u) ==
  IF u.tab = Audits
  THEN qs(u.filters, u.tab.size, u.page * (u.tab.size + 1))
  ELSE pageQs(u.tab.list, u.tab.size, u.page * u.tab.size)

ShortPageRequest(u) ==
  IF u.tab = Audits
  THEN qs(u.filters, u.tab.size - 1, u.page * u.tab.size)
  ELSE pageQs(u.tab.list, u.tab.size - 1, u.page * u.tab.size)

\* What the page asks for.
PageRequest(u) ==
  IF u.tab = Audits
  THEN qs(u.filters, u.tab.size, u.page * u.tab.size)
  ELSE pageQs(u.tab.list, u.tab.size, u.page * u.tab.size)

Keys == [of : {"audits"}, filter : Filters, arg : PageNumbers]
        \cup [of : Lists \ {"audits"}, filter : {NoFilter}, arg : PageNumbers]
        \cup [of : {"rollback"}, filter : {NoFilter}, arg : Captured]

FaultyPageKey(u) == [of |-> u.tab.list, filter |-> NoFilter, arg |-> u.page]

PageKey(u) ==
  [of |-> u.tab.list, filter |-> IF u.tab = Audits THEN u.filters ELSE NoFilter, arg |-> u.page]

FaultyRevertKey(i) == [of |-> "rollback", filter |-> NoFilter, arg |-> CHOOSE r \in Captured : TRUE]

RevertKey(i) == [of |-> "rollback", filter |-> NoFilter, arg |-> i]

\* What a component that watches key k asks for.
Asks(u, k) == IF k = PageKey(u) THEN PageRequest(u) ELSE auditRollback(u.open)

\* "all" and "asOf" are history: the rows the request selected, and when.
Data == [asked : Request, rows : SUBSET Ids, all : SUBSET Ids, asOf : 0 .. MaxChanges]

ASSUME DataAssumption == NoData \notin Data /\ Refused \notin Data /\ NoData # Refused

\* "wanted" is history: the last click on Refresh that found data shown.
Entry == [status : {"pending", "success", "error"},
          net : {"idle", "asked", "answered", "waiting", "paused"},
          data : Data \cup {NoData},
          answer : Data \cup {NoData, Refused},
          asked : Request \cup {NoData},
          fresh : BOOLEAN,
          retried : BOOLEAN,
          wanted : 0 .. MaxChanges]

Blank == [status |-> "pending", net |-> "idle", data |-> NoData, answer |-> NoData,
          asked |-> NoData, fresh |-> FALSE, retried |-> FALSE, wanted |-> 0]

VARIABLES
  opened,     \* the pages the user goes to
  ui,         \* the selected page and its state
  cache,      \* what the browser holds of each query
  online,     \* does the browser see a network
  rows,       \* broker: rows of each list
  used,       \* broker: rows each list has ever held
  artifacts,  \* broker: events whose rollback artifact is stored
  changes,    \* broker: changes so far, the clock of the model
  clicks,     \* clicks and edits so far
  events      \* lost requests, losses of the network and timeouts so far

brokerVars == <<rows, used, artifacts, changes>>
vars == <<opened, ui, cache, online, brokerVars, clicks, events>>

-----------------------------------------------------------------------------
(* What is shown. *)

RowsOf(e) == IF e.data = NoData THEN {} ELSE e.data.rows

isLoading(e) == e.status = "pending" /\ e.net \in {"asked", "answered", "waiting"}

FaultyQuery(e) ==
  IF isLoading(e) THEN "loading"
  ELSE IF RowsOf(e) = {} THEN "empty"
  ELSE IF e.status = "error" THEN "failed" ELSE "rows"

Query(e) ==
  IF isLoading(e) THEN "loading"
  ELSE IF e.status = "error" THEN "failed"
  ELSE IF RowsOf(e) = {} THEN "empty" ELSE "rows"

Shown(u, c) == IF Query(c[PageKey(u)]) = "rows" THEN RowsOf(c[PageKey(u)]) ELSE {}

\* The revert of the open event is on the screen while its row is.
Reverts(u, c) == IF u.tab = Audits THEN {u.open} \cap Shown(u, c) ELSE {}

hasNext(u, c) == Cardinality(RowsOf(c[PageKey(u)])) = u.tab.size

\* The queries some mounted component watches.
Watched(u, c) == {PageKey(u)} \cup {RevertKey(i) : i \in Reverts(u, c)}

-----------------------------------------------------------------------------
(* The query cache. *)

Start(e, ask, up) ==
  [e EXCEPT !.net = IF up THEN "asked" ELSE "paused",
            !.asked = ask,
            !.answer = NoData,
            !.retried = FALSE,
            !.status = IF e.data = NoData THEN "pending" ELSE @]

Mounted(e, ask) ==
  IF e.net # "idle" \/ (e.data # NoData /\ e.fresh) THEN e ELSE Start(e, ask, online)

\* A first request that never started is given up; a running one goes on.
Unmounted(e) == IF e.net = "paused" /\ e.status = "pending" THEN Blank ELSE e

Rejected(e) ==
  [e EXCEPT !.status = "error", !.net = "idle", !.answer = NoData, !.asked = NoData,
            !.fresh = FALSE, !.retried = FALSE]

FaultyFailed(e, watched) ==
  IF watched THEN [e EXCEPT !.net = "waiting", !.answer = NoData, !.retried = TRUE]
  ELSE Rejected(e)

\* retry: 1, while somebody watches.
Failed(e, watched) ==
  IF watched /\ ~e.retried THEN [e EXCEPT !.net = "waiting", !.answer = NoData, !.retried = TRUE]
  ELSE Rejected(e)

Succeeded(e) ==
  [e EXCEPT !.status = "success", !.net = "idle", !.data = e.answer, !.answer = NoData,
            !.asked = NoData, !.fresh = TRUE, !.retried = FALSE]

FaultyRefetched(e, ask) ==
  IF e.net # "idle" THEN [e EXCEPT !.wanted = IF e.data = NoData THEN @ ELSE changes]
  ELSE [Start(e, ask, online) EXCEPT !.wanted = changes]

\* query.refetch() joins the first fetch and replaces a later one.
Refetched(e, ask) ==
  IF e.net # "idle" /\ e.data = NoData THEN e
  ELSE [Start(e, ask, online) EXCEPT !.wanted = changes]

\* The screen becomes u and the cache c; the components that come and go with
\* it are mounted and unmounted.
Becomes(u, c) ==
  LET was == Watched(ui, cache)
      is == Watched(u, c)
  IN /\ ui' = u
     /\ cache' = [k \in Keys |->
                    IF k \in is \ was THEN Mounted(c[k], Asks(u, k))
                    ELSE IF k \in was \ is THEN Unmounted(c[k]) ELSE c[k]]

Init ==
  /\ opened \in Visits
  /\ ui = Entered(Sessions)
  /\ online = TRUE
  /\ cache = [k \in Keys |->
                IF k = PageKey(Entered(Sessions))
                THEN Start(Blank, PageRequest(Entered(Sessions)), TRUE) ELSE Blank]
  /\ rows = Stored
  /\ used = Stored
  /\ artifacts = Captured \cap Stored["audits"]
  /\ changes = 0
  /\ clicks = 0
  /\ events = 0

-----------------------------------------------------------------------------
(* The user. *)

Click ==
  /\ clicks < MaxClicks
  /\ clicks' = clicks + 1
  /\ UNCHANGED <<opened, online, brokerVars, events>>

OpenTab(t) ==
  /\ t \in opened \ {ui.tab}
  /\ Click
  /\ Becomes(Entered(t), cache)

EditDraft(f) ==
  /\ ui.tab = Audits
  /\ f # ui.draft
  /\ Click
  /\ ui' = [ui EXCEPT !.draft = f]
  /\ UNCHANGED cache

apply ==
  /\ ui.tab = Audits
  /\ Click
  /\ Becomes([ui EXCEPT !.page = 0, !.open = None, !.filters = ui.draft], cache)

\* Every page but the audit page has no open row to forget.
goto(p) == Becomes([ui EXCEPT !.open = None, !.page = p], cache)

PrevPage ==
  /\ ui.page # 0
  /\ Click
  /\ goto(ui.page - 1)

NextPage ==
  /\ hasNext(ui, cache)
  /\ ui.page < MaxPage
  /\ Click
  /\ goto(ui.page + 1)

ToggleRevert(i) ==
  /\ ui.tab = Audits
  /\ i \in Captured \cap Shown(ui, cache)
  /\ Click
  /\ Becomes([ui EXCEPT !.open = IF @ = i THEN None ELSE i], cache)

Refresh ==
  /\ ui.tab.refresh
  /\ Click
  /\ Becomes(ui, [cache EXCEPT ![PageKey(ui)] = Refetched(@, PageRequest(ui))])

-----------------------------------------------------------------------------
(* The broker's answers. *)

\* Rows of M that are listed before x: the lists are newest first.
Rank(x, M) == Cardinality({y \in M : y > x})

Listed(r, M) ==
  LET offset == IF r.offset = None THEN 0 ELSE r.offset
  IN {x \in M : /\ offset <= Rank(x, M)
                /\ r.limit = None \/ Rank(x, M) < offset + r.limit}

list_rows(r) ==
  LET M == rows[r.path] \cap Matches[r.filter]
  IN [asked |-> r, rows |-> Listed(r, M), all |-> M, asOf |-> changes]

\* Not found when the event or its artifact is gone.
get_audit_rollback(r) ==
  IF r.id \in rows["audits"] \cap Captured \cap artifacts
  THEN [asked |-> r, rows |-> {r.id}, all |-> {r.id}, asOf |-> changes]
  ELSE Refused

Respond(r) == IF r.path = "rollback" THEN get_audit_rollback(r) ELSE list_rows(r)

-----------------------------------------------------------------------------
(* The network. *)

Serve(k) ==
  /\ cache[k].net = "asked"
  /\ cache' = [cache EXCEPT ![k].net = "answered", ![k].answer = Respond(cache[k].asked)]
  /\ UNCHANGED <<opened, ui, online, brokerVars, clicks, events>>

FaultyDeliver(k) ==
  /\ cache[k].net = "answered"
  /\ Becomes(ui, [cache EXCEPT ![k] = Succeeded(@)])
  /\ UNCHANGED <<opened, online, brokerVars, clicks, events>>

\* An answer that is not 200 is an error like any other.
Deliver(k) ==
  /\ cache[k].net = "answered"
  /\ Becomes(ui, [cache EXCEPT ![k] =
       IF @.answer = Refused THEN Failed(@, k \in Watched(ui, cache)) ELSE Succeeded(@)])
  /\ UNCHANGED <<opened, online, brokerVars, clicks, events>>

\* The request or its answer is lost, or the proxy cannot reach the broker.
Fail(k) ==
  /\ cache[k].net \in {"asked", "answered"}
  /\ events < MaxEvents
  /\ events' = events + 1
  /\ Becomes(ui, [cache EXCEPT ![k] = Failed(@, k \in Watched(ui, cache))])
  /\ UNCHANGED <<opened, online, brokerVars, clicks>>

\* The delay before the second attempt is over.
Retry(k) ==
  /\ cache[k].net = "waiting"
  /\ cache' = [cache EXCEPT ![k] =
       IF k \notin Watched(ui, cache) THEN Rejected(@)
       ELSE [@ EXCEPT !.net = IF online THEN "asked" ELSE "paused"]]
  /\ UNCHANGED <<opened, ui, online, brokerVars, clicks, events>>

GoOffline ==
  /\ online
  /\ events < MaxEvents
  /\ events' = events + 1
  /\ online' = FALSE
  /\ UNCHANGED <<opened, ui, cache, brokerVars, clicks>>

\* What was waiting goes on, and what is watched and stale is fetched.
Resumed(k) ==
  LET e == cache[k]
      watched == k \in Watched(ui, cache)
  IN IF e.net = "paused" /\ e.retried /\ ~watched THEN Rejected(e)
     ELSE IF e.net = "paused" THEN [e EXCEPT !.net = "asked"]
     ELSE IF e.net = "idle" /\ watched /\ ~e.fresh THEN Start(e, Asks(ui, k), TRUE)
     ELSE e

GoOnline ==
  /\ ~online
  /\ online' = TRUE
  /\ cache' = [k \in Keys |-> Resumed(k)]
  /\ UNCHANGED <<opened, ui, brokerVars, clicks, events>>

\* staleTime has passed.
GoStale(k) ==
  /\ cache[k].fresh
  /\ events < MaxEvents
  /\ events' = events + 1
  /\ cache' = [cache EXCEPT ![k].fresh = FALSE]
  /\ UNCHANGED <<opened, ui, online, brokerVars, clicks>>

\* gcTime has passed since anyone watched.
Evict(k) ==
  /\ events < MaxEvents
  /\ cache[k].net = "idle"
  /\ cache[k] # Blank
  /\ k \notin Watched(ui, cache)
  /\ events' = events + 1
  /\ cache' = [cache EXCEPT ![k] = Blank]
  /\ UNCHANGED <<opened, ui, online, brokerVars, clicks>>

-----------------------------------------------------------------------------
(* The rest of the system changes the lists of the pages that are opened. *)

Change ==
  /\ changes < MaxChanges
  /\ changes' = changes + 1
  /\ UNCHANGED <<opened, ui, cache, online, clicks, events>>

\* A row is stored.  Two writers may store their rows out of the order of
\* their times, and users are listed by name, so it may land anywhere.
AddRow(l, r) ==
  /\ r \in Comes[l] \ used[l]
  /\ Change
  /\ rows' = [rows EXCEPT ![l] = @ \cup {r}]
  /\ used' = [used EXCEPT ![l] = @ \cup {r}]
  /\ artifacts' = IF l = "audits" THEN artifacts \cup ({r} \cap Captured) ELSE artifacts

\* A connection is closed, an expired session or an old entry is pruned.
DropRow(l, r) ==
  /\ l \in {"sessions", "connections", "activity"}
  /\ r \in rows[l]
  /\ Change
  /\ rows' = [rows EXCEPT ![l] = @ \ {r}]
  /\ UNCHANGED <<used, artifacts>>

\* A connection's entry in the activity log moves when it is closed.
MoveRow(r, s) ==
  /\ Logs \in opened
  /\ r \in rows["activity"]
  /\ s \in Comes["activity"] \ used["activity"]
  /\ s > r
  /\ Change
  /\ rows' = [rows EXCEPT !["activity"] = (@ \ {r}) \cup {s}]
  /\ used' = [used EXCEPT !["activity"] = @ \cup {s}]
  /\ UNCHANGED artifacts

\* prune keeps the audit events that are not older than its cutoff ...
PruneAudits(r) ==
  /\ Audits \in opened
  /\ r \in rows["audits"]
  /\ Change
  /\ rows' = [rows EXCEPT !["audits"] = {x \in @ : x > r}]
  /\ UNCHANGED <<used, artifacts>>

\* ... and the rollback artifacts by a cutoff of their own.
PruneArtifacts(r) ==
  /\ Audits \in opened
  /\ r \in artifacts
  /\ Change
  /\ artifacts' = {x \in artifacts : x > r}
  /\ UNCHANGED <<rows, used>>

Next ==
  \/ \E t \in TABS : OpenTab(t)
  \/ \E f \in Filters : EditDraft(f)
  \/ apply
  \/ PrevPage
  \/ NextPage
  \/ \E i \in Ids : ToggleRevert(i)
  \/ Refresh
  \/ \E k \in Keys : Serve(k) \/ Deliver(k) \/ Fail(k) \/ Retry(k) \/ GoStale(k) \/ Evict(k)
  \/ GoOffline
  \/ GoOnline
  \/ \E t \in opened, r \in Ids : AddRow(t.list, r) \/ DropRow(t.list, r)
  \/ \E r, s \in Ids : MoveRow(r, s)
  \/ \E r \in Ids : PruneAudits(r) \/ PruneArtifacts(r)

\* While requests are out, they are answered or fail, and the timers of retries
\* fire; the user, the broker's lists and the network may do what they like.
Fairness == WF_vars(\E k \in Keys : Serve(k) \/ Deliver(k) \/ Retry(k))

Spec == Init /\ [][Next]_vars

FairSpec == Spec /\ Fairness

-----------------------------------------------------------------------------
(* Properties. *)

\* Types of the screen, of the cached queries and of the broker's lists.
TypeOK ==
  /\ opened \in Visits
  /\ ui \in Screen
  /\ cache \in [Keys -> Entry]
  /\ online \in BOOLEAN
  /\ rows \in [Lists -> SUBSET Ids]
  /\ used \in [Lists -> SUBSET Ids]
  /\ artifacts \subseteq Ids
  /\ changes \in 0 .. MaxChanges
  /\ clicks \in 0 .. MaxClicks
  /\ events \in 0 .. MaxEvents

\* Rows on the screen are an answer to the tab, page and filters selected now,
\* whatever was in flight when they were selected (the query keys of the pages).
RowsAnswerTheControls ==
  LET e == cache[PageKey(ui)]
  IN Query(e) = "rows" =>
       /\ e.data.asked = PageRequest(ui)
       /\ ui.tab = Audits => e.data.rows \subseteq Matches[ui.filters]

\* A revert on the screen is that of the statement it is shown under
\* (RollbackDetail).
RevertIsOfItsStatement ==
  \A i \in Reverts(ui, cache) :
    LET e == cache[RevertKey(i)]
    IN Query(e) = "rows" => e.data.rows = {i} /\ e.data.asked.id = i

\* <<j, i>>: the file that the button under j's revert writes, if it has rows and
\* so a button, reads back as the rows captured before i.
HoldsRowsOf ==
  {ji \in Captured \X Captured :
     Before[ji[1]] # << >> => ReadsBack(beforeRowsCsv(Before[ji[1]]), Before[ji[2]])}

\* The file the button of a revert on the screen writes holds the rows captured
\* before the statement it is shown under, whatever characters their keys and
\* values hold (downloadBeforeRows).
DownloadHoldsTheRows ==
  \A i \in Reverts(ui, cache) :
    LET e == cache[RevertKey(i)]
    IN Query(e) = "rows" => \A j \in e.data.rows : <<j, i>> \in HoldsRowsOf

\* The events of two adjacent audit pages of which the earlier was read first:
\* an event that was there both times, older than all of the one page and newer
\* than some event of the other, is on the other.  Events stored meanwhile push
\* rows down and retention takes them from the end, so paging by offset repeats
\* events and skips none.
NothingFallsBetweenPages ==
  \A f \in Filters, p \in PageNumbers \ {MaxPage} :
    LET d == cache[[of |-> "audits", filter |-> f, arg |-> p]].data
        e == cache[[of |-> "audits", filter |-> f, arg |-> p + 1]].data
    IN d # NoData /\ e # NoData /\ d.rows # {} =>
         \A x \in d.all \cap e.all :
           /\ d.asOf <= e.asOf
           /\ \A y \in d.rows : y > x
           /\ \E y \in e.rows : y < x
           => x \in e.rows

\* Without a next page to go to, nothing older was there when the rows on the
\* screen were read (hasNext).
LastPageIsLast ==
  LET e == cache[PageKey(ui)]
  IN Query(e) = "rows" /\ ~hasNext(ui, cache) =>
       \A x \in e.data.all : (\A y \in e.data.rows : y > x) => x \in e.data.rows

\* Rows that were asked for again by a click on Refresh are not older than the
\* click, though an earlier answer was on its way.
RefreshIsFresh ==
  \A k \in Keys :
    LET e == cache[k]
    IN e.status = "success" /\ e.net = "idle" => e.data.asOf >= e.wanted

\* The page says that there is nothing only if the broker said so, or if the
\* browser is offline and the first request waits.
EmptyMeansAnswered ==
  LET e == cache[PageKey(ui)]
  IN Query(e) = "empty" =>
       \/ e.status = "success" /\ e.data # NoData /\ e.data.rows = {}
       \/ e.data = NoData /\ e.net = "paused"

\* A page or a revert that says it is loading stops saying so: with one retry,
\* a request that is refused again and again ends in an error.
LoadingEnds ==
  LET loading == \E k \in Watched(ui, cache) : isLoading(cache[k])
  IN loading ~> ~loading
=============================================================================
