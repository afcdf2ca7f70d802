--------------------------- MODULE ConsoleProofs ---------------------------
(***************************************************************************)
(* Theorems about Console, for every set of rows, filters and pages, every *)
(* page size and every bound.                                              *)
(*                                                                         *)
(* The argument: every entry of the cache holds answers to the one request *)
(* its key stands for, and remembers a click on Refresh until an answer    *)
(* that is as recent arrives (EntryOK).  Two answers about audit events    *)
(* are related by what the broker may do between them: an event of the     *)
(* earlier one that is still there has all its newer ones still there      *)
(* (Keeps).  Every step is one of three kinds: it only moves or forgets    *)
(* answers, it serves one request, or it changes the broker's lists.       *)
(***************************************************************************)
EXTENDS Console, BeforeRowsCsvProofs, TLAPS, FiniteSetTheorems

\* The request a key stands for.
KeyRequest(k) ==
  IF k.of = "rollback" THEN auditRollback(k.arg)
  ELSE IF k.of = "audits" THEN qs(k.filter, AuditPageSize, k.arg * AuditPageSize)
  ELSE pageQs(k.of, PageSize, k.arg * PageSize)

\* The answers an entry holds, shown or on their way.
Held(e) == {e.data, e.answer} \ {NoData, Refused}

Answers(d, k) ==
  /\ d \in Data
  /\ d.asked = KeyRequest(k)
  /\ k.of = "rollback" => d.rows = {k.arg}
  /\ k.of # "rollback" => d.rows = Listed(d.asked, d.all)
  /\ k.of = "audits" => d.all \subseteq Matches[k.filter]

\* What holds of the entry of key k when the broker's clock is at now.
EntryOK(e, k, now) ==
  /\ e \in Entry
  /\ e.net # "idle" => e.asked = KeyRequest(k)
  /\ \A d \in Held(e) : Answers(d, k) /\ d.asOf <= now
  /\ e.net = "answered" <=> e.answer # NoData
  /\ e.status = "pending" => e.data = NoData
  /\ e.status = "success" => e.data # NoData
  /\ e.wanted <= now
  /\ e.answer \notin {NoData, Refused} => e.answer.asOf >= e.wanted
  /\ e.status = "success" /\ e.net = "idle" => e.data.asOf >= e.wanted

\* Of the rows A, those still in B have all their newer ones in B.
Keeps(A, B) == \A x \in A \cap B, y \in A : y > x => y \in B

Selected(f) == rows["audits"] \cap Matches[f]

AuditKeys == {k \in Keys : k.of = "audits"}

BrokerOK ==
  /\ rows \in [Lists -> SUBSET Ids]
  /\ used \in [Lists -> SUBSET Ids]
  /\ rows["audits"] \subseteq used["audits"]
  /\ artifacts \subseteq Ids
  /\ changes \in 0 .. MaxChanges

ScreenOK ==
  /\ opened \in Visits
  /\ ui \in Screen
  /\ ui.open \in Captured \cup {None}
  /\ online \in BOOLEAN
  /\ clicks \in 0 .. MaxClicks
  /\ events \in 0 .. MaxEvents

CacheOK ==
  /\ cache = [k \in Keys |-> cache[k]]
  /\ \A k \in Keys : EntryOK(cache[k], k, changes)

\* The page on the screen has been asked for.
PageAsked == LET e == cache[PageKey(ui)] IN e.status = "pending" => e.net # "idle"

\* An answer about audit events and the events there are now.
KeepsNow ==
  \A k \in AuditKeys : \A d \in Held(cache[k]) :
    /\ d.all \subseteq used["audits"]
    /\ Keeps(d.all, Selected(k.filter))
    /\ d.asOf = changes => d.all = Selected(k.filter)

\* Two answers about audit events.
KeepsBetween ==
  \A j, k \in AuditKeys : j.filter = k.filter =>
    \A d \in Held(cache[j]), e \in Held(cache[k]) : d.asOf <= e.asOf => Keeps(d.all, e.all)

IInv == BrokerOK /\ ScreenOK /\ CacheOK /\ PageAsked /\ KeepsNow /\ KeepsBetween

-----------------------------------------------------------------------------
(* Keys and requests. *)

LEMMA TabFacts ==
  ASSUME NEW t \in TABS
  PROVE  /\ t.list \in Lists
         /\ t = Audits => t.list = "audits" /\ t.size = AuditPageSize
         /\ t # Audits => t.list # "audits" /\ t.size = PageSize
BY DEF TABS, Sessions, Audits, Connections, Users, Logs, Lists

LEMMA KeyFacts ==
  ASSUME NEW k \in Keys
  PROVE  /\ KeyRequest(k) \in Request
         /\ k.of = "audits" => k.filter \in Filters /\ k.arg \in PageNumbers
         /\ k.of = "rollback" => k.arg \in Captured
         /\ k.of \in Lists \cup {"rollback"}
<1>1. CASE k \in [of : {"audits"}, filter : Filters, arg : PageNumbers]
  <2>1. k.arg \in Nat /\ k.filter \in Filters /\ k.of = "audits"
    BY <1>1, BoundAssumption DEF PageNumbers
  <2>2. k.arg * AuditPageSize \in Nat
    BY <2>1, SizeAssumption
  <2> QED
    BY <1>1, <2>1, <2>2, SizeAssumption DEF KeyRequest, qs, Request, Param, Lists
<1>2. CASE k \in [of : Lists \ {"audits"}, filter : {NoFilter}, arg : PageNumbers]
  <2>1. k.arg \in Nat /\ k.of \in Lists \ {"audits"}
    BY <1>2, BoundAssumption DEF PageNumbers
  <2>2. k.arg * PageSize \in Nat
    BY <2>1, SizeAssumption
  <2> QED
    BY <1>2, <2>1, <2>2, SizeAssumption, FilterAssumption
       DEF KeyRequest, pageQs, Request, Param, Lists
<1>3. CASE k \in [of : {"rollback"}, filter : {NoFilter}, arg : Captured]
  BY <1>3, StoredAssumption, FilterAssumption DEF KeyRequest, auditRollback, Request, Lists
<1> QED
  BY <1>1, <1>2, <1>3 DEF Keys

LEMMA PageKeyFacts ==
  ASSUME NEW u \in Screen
  PROVE  /\ PageKey(u) \in Keys
         /\ PageKey(u).of # "rollback"
         /\ PageRequest(u) = KeyRequest(PageKey(u))
         /\ u.tab = Audits <=> PageKey(u).of = "audits"
         /\ u.tab = Audits => PageKey(u).filter = u.filters
<1>1. u.tab \in TABS /\ u.page \in PageNumbers /\ u.filters \in Filters
  BY DEF Screen
<1>2. CASE u.tab = Audits
  BY <1>1, <1>2, TabFacts DEF PageKey, Keys, PageRequest, KeyRequest
<1>3. CASE u.tab # Audits
  BY <1>1, <1>3, TabFacts DEF PageKey, Keys, PageRequest, KeyRequest, Lists
<1> QED
  BY <1>2, <1>3

LEMMA WatchedFacts ==
  ASSUME NEW u \in Screen, u.open \in Captured \cup {None}, NEW c, NEW k \in Watched(u, c),
         \A j \in Keys : c[j] \in Entry
  PROVE  k \in Keys /\ Asks(u, k) = KeyRequest(k)
<1>1. CASE k = PageKey(u)
  BY <1>1, PageKeyFacts DEF Asks
<1>2. ASSUME NEW i \in Reverts(u, c), k = RevertKey(i)
      PROVE  k \in Keys /\ Asks(u, k) = KeyRequest(k)
  <2>1. i = u.open /\ i \in Shown(u, c)
    BY <1>2 DEF Reverts
  <2>2. c[PageKey(u)] \in Entry
    BY PageKeyFacts
  <2>3. i \in Ids
    BY <2>1, <2>2 DEF Shown, RowsOf, Entry, Data
  <2>4. i \in Captured
    BY <2>1, <2>3, NoneAssumption, IdsAssumption
  <2>5. k \in Keys /\ k.of = "rollback" /\ k.arg = i
    BY <1>2, <2>4 DEF RevertKey, Keys
  <2> QED
    BY <2>1, <2>5, PageKeyFacts DEF Asks, KeyRequest
<1> QED
  BY <1>1, <1>2 DEF Watched

-----------------------------------------------------------------------------
(* What each operation does to an entry. *)

LEMMA BlankOK ==
  ASSUME NEW k \in Keys, NEW now \in 0 .. MaxChanges
  PROVE  EntryOK(Blank, k, now) /\ Held(Blank) = {}
BY DataAssumption, BoundAssumption DEF EntryOK, Blank, Entry, Held

LEMMA StartOK ==
  ASSUME NEW k \in Keys, NEW now \in 0 .. MaxChanges, NEW e, EntryOK(e, k, now),
         NEW up \in BOOLEAN
  PROVE  LET s == Start(e, KeyRequest(k), up)
         IN EntryOK(s, k, now) /\ Held(s) \subseteq Held(e) /\ s.net \in {"asked", "paused"}
<1> DEFINE s == Start(e, KeyRequest(k), up)
<1>1. s \in Entry
  BY KeyFacts DEF EntryOK, Start, Entry
<1>2. /\ s.net \in {"asked", "paused"} /\ s.asked = KeyRequest(k)
      /\ s.answer = NoData /\ s.data = e.data /\ s.wanted = e.wanted
      /\ s.status = IF e.data = NoData THEN "pending" ELSE e.status
  BY DEF EntryOK, Start, Entry
<1>3. Held(s) \subseteq Held(e)
  BY <1>2 DEF Held
<1> QED
  BY <1>1, <1>2, <1>3, DataAssumption DEF EntryOK

\* The clock never stands before a click it remembers.
LEMMA WantedOK ==
  ASSUME NEW k \in Keys, NEW now \in 0 .. MaxChanges, NEW e, EntryOK(e, k, now),
         e.net \in {"asked", "paused"}
  PROVE  LET w == [e EXCEPT !.wanted = now]
         IN EntryOK(w, k, now) /\ Held(w) = Held(e) /\ w.net = e.net
<1> DEFINE w == [e EXCEPT !.wanted = now]
<1>1. w \in Entry
  BY DEF EntryOK, Entry
<1>2. /\ w.net = e.net /\ w.asked = e.asked /\ w.answer = e.answer /\ w.data = e.data
      /\ w.status = e.status /\ w.wanted = now
  BY DEF EntryOK, Entry
<1>3. e.answer = NoData /\ e.net # "idle"
  BY DEF EntryOK
<1> QED
  BY <1>1, <1>2, <1>3, BoundAssumption DEF EntryOK, Held

LEMMA MountedOK ==
  ASSUME NEW k \in Keys, NEW e, EntryOK(e, k, changes), changes \in 0 .. MaxChanges,
         online \in BOOLEAN
  PROVE  LET m == Mounted(e, KeyRequest(k))
         IN /\ EntryOK(m, k, changes) /\ Held(m) \subseteq Held(e)
            /\ m.status = "pending" => m.net # "idle"
BY StartOK DEF Mounted, EntryOK

LEMMA UnmountedOK ==
  ASSUME NEW k \in Keys, NEW e, EntryOK(e, k, changes), changes \in 0 .. MaxChanges
  PROVE  EntryOK(Unmounted(e), k, changes) /\ Held(Unmounted(e)) \subseteq Held(e)
BY BlankOK DEF Unmounted

LEMMA RejectedOK ==
  ASSUME NEW k \in Keys, NEW e, EntryOK(e, k, changes), changes \in 0 .. MaxChanges
  PROVE  LET r == Rejected(e)
         IN EntryOK(r, k, changes) /\ Held(r) \subseteq Held(e) /\ r.status # "pending"
<1> DEFINE r == Rejected(e)
<1>1. r \in Entry
  BY DEF EntryOK, Rejected, Entry
<1>2. /\ r.net = "idle" /\ r.status = "error" /\ r.answer = NoData /\ r.data = e.data
      /\ r.wanted = e.wanted
  BY DEF EntryOK, Rejected, Entry
<1> QED
  BY <1>1, <1>2 DEF EntryOK, Held

LEMMA FailedOK ==
  ASSUME NEW k \in Keys, NEW e, EntryOK(e, k, changes), changes \in 0 .. MaxChanges,
         NEW watched \in BOOLEAN, e.net # "idle"
  PROVE  LET f == Failed(e, watched)
         IN /\ EntryOK(f, k, changes) /\ Held(f) \subseteq Held(e)
            /\ f.status = "pending" => f.net # "idle"
<1> DEFINE f == [e EXCEPT !.net = "waiting", !.answer = NoData, !.retried = TRUE]
<1>1. f \in Entry
  BY DEF EntryOK, Entry
<1>2. /\ f.net = "waiting" /\ f.status = e.status /\ f.answer = NoData /\ f.data = e.data
      /\ f.wanted = e.wanted /\ f.asked = e.asked
  BY DEF EntryOK, Entry
<1>3. EntryOK(f, k, changes) /\ Held(f) \subseteq Held(e)
  BY <1>1, <1>2 DEF EntryOK, Held
<1> QED
  BY <1>2, <1>3, RejectedOK DEF Failed

LEMMA SucceededOK ==
  ASSUME NEW k \in Keys, NEW e, EntryOK(e, k, changes), changes \in 0 .. MaxChanges,
         e.net = "answered", e.answer # Refused
  PROVE  LET s == Succeeded(e)
         IN EntryOK(s, k, changes) /\ Held(s) \subseteq Held(e) /\ s.status # "pending"
<1> DEFINE s == Succeeded(e)
<1>1. e.answer \in Data
  BY DEF EntryOK, Entry
<1>2. s \in Entry
  BY <1>1 DEF EntryOK, Succeeded, Entry
<1>3. /\ s.net = "idle" /\ s.status = "success" /\ s.answer = NoData /\ s.data = e.answer
      /\ s.wanted = e.wanted
  BY DEF EntryOK, Succeeded, Entry
<1> QED
  BY <1>1, <1>2, <1>3, DataAssumption DEF EntryOK, Held

LEMMA RefetchedOK ==
  ASSUME NEW k \in Keys, NEW e, EntryOK(e, k, changes), changes \in 0 .. MaxChanges,
         online \in BOOLEAN
  PROVE  LET r == Refetched(e, KeyRequest(k))
         IN EntryOK(r, k, changes) /\ Held(r) \subseteq Held(e) /\ r.net # "idle"
BY StartOK, WantedOK DEF Refetched

\* What is on its way and what is known does not change.
LEMMA NetOK ==
  ASSUME NEW k \in Keys, NEW e, EntryOK(e, k, changes), e.net \in {"waiting", "paused"},
         NEW net \in {"asked", "paused"}
  PROVE  LET n == [e EXCEPT !.net = net] IN EntryOK(n, k, changes) /\ Held(n) = Held(e)
<1> DEFINE n == [e EXCEPT !.net = net]
<1>1. n \in Entry
  BY DEF EntryOK, Entry
<1>2. /\ n.net = net /\ n.status = e.status /\ n.answer = e.answer /\ n.data = e.data
      /\ n.wanted = e.wanted /\ n.asked = e.asked
  BY DEF EntryOK, Entry
<1> QED
  BY <1>1, <1>2 DEF EntryOK, Held

LEMMA StaleOK ==
  ASSUME NEW k \in Keys, NEW e, EntryOK(e, k, changes)
  PROVE  LET n == [e EXCEPT !.fresh = FALSE]
         IN EntryOK(n, k, changes) /\ Held(n) = Held(e) /\ n.status = e.status /\ n.net = e.net
<1> DEFINE n == [e EXCEPT !.fresh = FALSE]
<1>1. n \in Entry
  BY DEF EntryOK, Entry
<1>2. /\ n.net = e.net /\ n.status = e.status /\ n.answer = e.answer /\ n.data = e.data
      /\ n.wanted = e.wanted /\ n.asked = e.asked
  BY DEF EntryOK, Entry
<1> QED
  BY <1>1, <1>2 DEF EntryOK, Held

\* An answer is one to the request, and says what there is now.
LEMMA RespondOK ==
  ASSUME NEW k \in Keys, BrokerOK
  PROVE  LET d == Respond(KeyRequest(k))
         IN /\ d # NoData
            /\ d # Refused => /\ Answers(d, k) /\ d.asOf = changes
                              /\ k.of = "audits" => d.all = Selected(k.filter)
<1> DEFINE r == KeyRequest(k)
<1>1. r \in Request
  BY KeyFacts
<1>2. CASE k.of = "rollback"
  <2>1. r.path = "rollback" /\ r.id = k.arg
    BY <1>2 DEF KeyRequest, auditRollback
  <2>2. rows["audits"] \subseteq Ids
    BY DEF BrokerOK, Lists
  <2>3. CASE k.arg \in rows["audits"] \cap Captured \cap artifacts
    <3> DEFINE d == [asked |-> r, rows |-> {k.arg}, all |-> {k.arg}, asOf |-> changes]
    <3>1. Respond(r) = d
      BY <2>1, <2>3 DEF Respond, get_audit_rollback
    <3>2. d \in Data
      BY <1>1, <2>2, <2>3 DEF Data, BrokerOK
    <3> HIDE DEF r
    <3> QED
      BY <1>2, <3>1, <3>2, DataAssumption DEF Answers, r
  <2>4. CASE k.arg \notin rows["audits"] \cap Captured \cap artifacts
    BY <2>1, <2>4, DataAssumption DEF Respond, get_audit_rollback
  <2> QED
    BY <2>3, <2>4
<1>3. CASE k.of # "rollback"
  <2>1. /\ r.path = k.of /\ k.of \in Lists
        /\ k.of = "audits" => r.filter = k.filter
    BY <1>3, KeyFacts DEF KeyRequest, qs, pageQs
  <2> DEFINE M == rows[r.path] \cap Matches[r.filter]
             d == [asked |-> r, rows |-> Listed(r, M), all |-> M, asOf |-> changes]
  <2>2. Respond(r) = d
    BY <1>3, <2>1 DEF Respond, list_rows
  <2>3. M \subseteq Ids /\ Listed(r, M) \subseteq M
    BY <2>1 DEF BrokerOK, Listed
  <2>4. d \in Data
    BY <1>1, <2>3 DEF Data, BrokerOK
  <2>5. k.of = "audits" => M = Selected(k.filter) /\ M \subseteq Matches[k.filter]
    BY <2>1 DEF Selected
  <2> QED
    BY <1>3, <2>2, <2>4, <2>5, DataAssumption DEF Answers
<1> QED
  BY <1>2, <1>3

LEMMA ServedOK ==
  ASSUME NEW k \in Keys, NEW e, EntryOK(e, k, changes), BrokerOK, e.net = "asked"
  PROVE  LET s == [e EXCEPT !.net = "answered", !.answer = Respond(e.asked)]
         IN /\ EntryOK(s, k, changes) /\ s.status = e.status /\ s.net = "answered"
            /\ \A d \in Held(s) \ Held(e) :
                 d.asOf = changes /\ (k.of = "audits" => d.all = Selected(k.filter))
<1> DEFINE d == Respond(KeyRequest(k))
           s == [e EXCEPT !.net = "answered", !.answer = d]
<1>1. e.asked = KeyRequest(k)
  BY DEF EntryOK
<1>2. /\ d # NoData
      /\ d # Refused => /\ Answers(d, k) /\ d.asOf = changes
                        /\ k.of = "audits" => d.all = Selected(k.filter)
  BY RespondOK
<1> HIDE DEF d
<1>3. s \in Entry
  BY <1>2 DEF EntryOK, Entry, Answers
<1>4. /\ s.net = "answered" /\ s.status = e.status /\ s.answer = d /\ s.data = e.data
      /\ s.wanted = e.wanted /\ s.asked = e.asked
  BY DEF EntryOK, Entry
<1>5. Held(s) \subseteq Held(e) \cup ({d} \ {Refused})
  BY <1>4 DEF Held
<1>6. changes \in Nat /\ e.wanted \in Nat
  BY BoundAssumption DEF BrokerOK, EntryOK, Entry
<1>7. EntryOK(s, k, changes)
  BY <1>1, <1>2, <1>3, <1>4, <1>5, <1>6 DEF EntryOK
<1> QED
  BY <1>1, <1>2, <1>4, <1>5, <1>7 DEF d

-----------------------------------------------------------------------------
(* The three kinds of steps. *)

\* Answers are moved or forgotten, or one is new and says what there is now.
CacheStep ==
  /\ UNCHANGED brokerVars
  /\ cache' = [k \in Keys |-> cache'[k]]
  /\ \A k \in Keys :
       /\ EntryOK(cache'[k], k, changes)
       /\ \A d \in Held(cache'[k]) :
            \/ d \in Held(cache[k])
            \/ d.asOf = changes /\ (k.of = "audits" => d.all = Selected(k.filter))

\* The broker's lists change: an event that was ever stored is still there only
\* if it was before, and so were and are all its newer ones.
BrokerStep ==
  /\ UNCHANGED cache
  /\ BrokerOK'
  /\ changes' = changes + 1
  /\ used["audits"] \subseteq used'["audits"]
  /\ \A x \in rows'["audits"] \cap used["audits"] :
       /\ x \in rows["audits"]
       /\ \A y \in rows["audits"] : y > x => y \in rows'["audits"]

LEMMA CacheStepKeeps == IInv /\ CacheStep => BrokerOK' /\ CacheOK' /\ KeepsNow' /\ KeepsBetween'
<1> SUFFICES ASSUME IInv, CacheStep PROVE BrokerOK' /\ CacheOK' /\ KeepsNow' /\ KeepsBetween'
  OBVIOUS
<1>1. /\ rows' = rows /\ used' = used /\ artifacts' = artifacts /\ changes' = changes
      /\ \A f : Selected(f)' = Selected(f)
  BY DEF CacheStep, brokerVars, Selected
<1>2. BrokerOK' /\ CacheOK'
  BY <1>1 DEF CacheStep, IInv, BrokerOK, CacheOK
<1>3. changes \in Nat /\ rows["audits"] \subseteq used["audits"]
  BY BoundAssumption DEF IInv, BrokerOK
<1>4. ASSUME NEW k \in AuditKeys, NEW d \in Held(cache'[k])
      PROVE  /\ d \in Held(cache[k]) \/ (d.asOf = changes /\ d.all = Selected(k.filter))
             /\ d.asOf \in Nat /\ d.asOf <= changes
             /\ d.all \subseteq used["audits"]
             /\ Keeps(d.all, Selected(k.filter))
             /\ d.asOf = changes => d.all = Selected(k.filter)
  <2>1. k \in Keys /\ k.of = "audits"
    BY DEF AuditKeys
  <2>2. d \in Held(cache[k]) \/ (d.asOf = changes /\ d.all = Selected(k.filter))
    BY <2>1 DEF CacheStep
  <2>3. d \in Data /\ d.asOf <= changes
    BY <2>1 DEF CacheStep, EntryOK, Answers
  <2>4. d.asOf \in Nat
    BY <2>3, BoundAssumption DEF Data
  <2>5. Selected(k.filter) \subseteq used["audits"]
    BY <1>3 DEF Selected
  <2>6. CASE d \in Held(cache[k])
    BY <2>3, <2>4, <2>6 DEF IInv, KeepsNow
  <2>7. CASE d.asOf = changes /\ d.all = Selected(k.filter)
    BY <2>3, <2>4, <2>5, <2>7 DEF Keeps
  <2> QED
    BY <2>2, <2>6, <2>7
<1>5. KeepsNow'
  BY <1>1, <1>4 DEF KeepsNow
<1>6. ASSUME NEW j \in AuditKeys, NEW k \in AuditKeys, j.filter = k.filter,
             NEW d \in Held(cache'[j]), NEW e \in Held(cache'[k]), d.asOf <= e.asOf
      PROVE  Keeps(d.all, e.all)
  <2>1. CASE e.asOf = changes /\ e.all = Selected(k.filter)
    BY <1>4, <1>6, <2>1
  <2>2. CASE d.asOf = changes
    <3>1. e.asOf = changes
      BY <1>3, <1>4, <1>6, <2>2
    <3> QED
      BY <1>4, <2>1, <3>1
  <2>3. CASE d \in Held(cache[j]) /\ e \in Held(cache[k])
    BY <1>6, <2>3 DEF IInv, KeepsBetween
  <2> QED
    BY <1>4, <2>1, <2>2, <2>3
<1>7. KeepsBetween'
  BY <1>6 DEF KeepsBetween
<1> QED
  BY <1>2, <1>5, <1>7

LEMMA EntryLater ==
  ASSUME NEW e, NEW k, NEW m \in 0 .. MaxChanges, NEW n \in 0 .. MaxChanges, m <= n,
         EntryOK(e, k, m)
  PROVE  EntryOK(e, k, n)
<1>1. \A d \in Held(e) : d.asOf \in Nat
  BY BoundAssumption DEF EntryOK, Answers, Data
<1>2. e.wanted \in Nat
  BY BoundAssumption DEF EntryOK, Entry
<1>3. \A d \in Held(e) : d.asOf <= n
  BY <1>1, BoundAssumption DEF EntryOK
<1> QED
  BY <1>2, <1>3, BoundAssumption DEF EntryOK

LEMMA BrokerStepKeeps == IInv /\ BrokerStep => CacheOK' /\ KeepsNow' /\ KeepsBetween'
<1> SUFFICES ASSUME IInv, BrokerStep PROVE CacheOK' /\ KeepsNow' /\ KeepsBetween'
  OBVIOUS
<1>1. cache' = cache /\ changes' = changes + 1
  BY DEF BrokerStep
<1>2. changes \in 0 .. MaxChanges /\ changes' \in 0 .. MaxChanges
  BY DEF IInv, BrokerStep, BrokerOK
<1>3. CacheOK'
  <2>1. \A k \in Keys : EntryOK(cache[k], k, changes')
    BY <1>1, <1>2, EntryLater, BoundAssumption DEF IInv, CacheOK
  <2> QED
    BY <1>1, <2>1 DEF IInv, CacheOK
<1>4. ASSUME NEW k \in AuditKeys, NEW d \in Held(cache[k])
      PROVE  /\ d.all \subseteq used'["audits"]
             /\ Keeps(d.all, Selected(k.filter)')
             /\ d.asOf # changes'
  <2>1. d.all \subseteq used["audits"] /\ Keeps(d.all, Selected(k.filter))
    BY DEF IInv, KeepsNow
  <2>2. d.asOf \in Nat /\ d.asOf <= changes
    BY BoundAssumption DEF IInv, CacheOK, AuditKeys, EntryOK, Answers, Data
  <2>3. ASSUME NEW x \in d.all \cap Selected(k.filter)', NEW y \in d.all, y > x
        PROVE  y \in Selected(k.filter)'
    <3>1. x \in rows'["audits"] \cap used["audits"] /\ x \in Matches[k.filter]
      BY <2>1, <2>3 DEF Selected
    <3>2. x \in Selected(k.filter)
      BY <3>1 DEF BrokerStep, Selected
    <3>3. y \in Selected(k.filter)
      BY <2>1, <2>3, <3>2 DEF Keeps
    <3> QED
      BY <2>3, <3>1, <3>3 DEF BrokerStep, Selected
  <2> QED
    BY <1>1, <1>2, <2>1, <2>2, <2>3 DEF BrokerStep, Keeps
<1>5. KeepsNow'
  BY <1>1, <1>4 DEF KeepsNow
<1>6. KeepsBetween'
  BY <1>1 DEF IInv, KeepsBetween
<1> QED
  BY <1>3, <1>5, <1>6

\* The components that come and go start requests and give some up.
LEMMA BecomesOK ==
  ASSUME IInv, NEW u \in Screen, u.open \in Captured \cup {None}, NEW c,
         \A k \in Keys : EntryOK(c[k], k, changes) /\ Held(c[k]) \subseteq Held(cache[k]),
         PageKey(u) = PageKey(ui) =>
           (c[PageKey(u)].status = "pending" => c[PageKey(u)].net # "idle"),
         UNCHANGED brokerVars, Becomes(u, c)
  PROVE  CacheStep /\ PageAsked'
<1> DEFINE was == Watched(ui, cache)
           is == Watched(u, c)
           new(k) == IF k \in is \ was THEN Mounted(c[k], Asks(u, k))
                     ELSE IF k \in was \ is THEN Unmounted(c[k]) ELSE c[k]
<1>1. ui' = u /\ cache' = [k \in Keys |-> new(k)]
  BY DEF Becomes
<1>2. changes \in 0 .. MaxChanges /\ online \in BOOLEAN
  BY DEF IInv, BrokerOK, ScreenOK
<1>3. \A k \in is : Asks(u, k) = KeyRequest(k)
  BY WatchedFacts DEF EntryOK
<1> HIDE DEF was, is
<1>4. ASSUME NEW k \in Keys
      PROVE  EntryOK(new(k), k, changes) /\ Held(new(k)) \subseteq Held(cache[k])
  BY <1>2, <1>3, MountedOK, UnmountedOK
<1> HIDE DEF new
<1>5. CacheStep
  BY <1>1, <1>4 DEF CacheStep
<1>6. PageKey(u) \in Keys /\ PageKey(u) \in is
  BY PageKeyFacts DEF is, Watched
<1>7. PageAsked' <=> (new(PageKey(u)).status = "pending" => new(PageKey(u)).net # "idle")
  BY <1>1, <1>6 DEF PageAsked
<1>8. CASE PageKey(u) \in was
  <2>1. PageKey(u) = PageKey(ui)
    BY <1>8, PageKeyFacts DEF was, Watched, RevertKey
  <2>2. new(PageKey(u)) = c[PageKey(u)]
    BY <1>6, <1>8 DEF new
  <2> QED
    BY <1>5, <1>7, <2>1, <2>2
<1>9. CASE PageKey(u) \notin was
  <2>1. new(PageKey(u)) = Mounted(c[PageKey(u)], KeyRequest(PageKey(u)))
    BY <1>3, <1>6, <1>9 DEF new
  <2>2. new(PageKey(u)).status = "pending" => new(PageKey(u)).net # "idle"
    BY <1>2, <1>6, <2>1, MountedOK
  <2> QED
    BY <1>5, <1>7, <2>2
<1> QED
  BY <1>8, <1>9

\* The same for the screen as it is and one entry changed.
LEMMA EntryBecomesOK ==
  ASSUME IInv, NEW k \in Keys, NEW e, EntryOK(e, k, changes), Held(e) \subseteq Held(cache[k]),
         e.status = "pending" => e.net # "idle",
         UNCHANGED brokerVars, Becomes(ui, [cache EXCEPT ![k] = e])
  PROVE  CacheStep /\ PageAsked'
<1> DEFINE c == [cache EXCEPT ![k] = e]
<1>1. ui \in Screen /\ ui.open \in Captured \cup {None}
  BY DEF IInv, ScreenOK
<1>2. \A j \in Keys : c[j] = IF j = k THEN e ELSE cache[j]
  BY DEF IInv, CacheOK
<1>3. \A j \in Keys : EntryOK(c[j], j, changes) /\ Held(c[j]) \subseteq Held(cache[j])
  BY <1>2 DEF IInv, CacheOK
<1>4. PageKey(ui) \in Keys
  BY <1>1, PageKeyFacts
<1>5. c[PageKey(ui)].status = "pending" => c[PageKey(ui)].net # "idle"
  BY <1>2, <1>4 DEF IInv, PageAsked
<1> HIDE DEF c
<1> QED
  BY <1>1, <1>3, <1>5, BecomesOK DEF c

-----------------------------------------------------------------------------
(* The user. *)

LEMMA EnteredOK == \A t \in TABS : Entered(t) \in Screen /\ Entered(t).open = None
BY BoundAssumption, FilterAssumption DEF Entered, Screen, PageNumbers

\* A click that leads from one screen to another.
LEMMA ClickOK ==
  ASSUME IInv, Click, NEW u \in Screen, u.open \in Captured \cup {None}, Becomes(u, cache)
  PROVE  CacheStep /\ PageAsked' /\ ScreenOK'
<1>1. ScreenOK'
  BY BoundAssumption DEF IInv, ScreenOK, Click, Becomes
<1>2. \A k \in Keys : EntryOK(cache[k], k, changes) /\ Held(cache[k]) \subseteq Held(cache[k])
  BY DEF IInv, CacheOK
<1>3. UNCHANGED brokerVars
  BY DEF Click
<1> QED
  BY <1>1, <1>2, <1>3, BecomesOK DEF IInv, PageAsked

UserStep ==
  \/ \E t \in TABS : OpenTab(t)
  \/ \E f \in Filters : EditDraft(f)
  \/ apply \/ PrevPage \/ NextPage \/ Refresh
  \/ \E i \in Ids : ToggleRevert(i)

LEMMA UserStepOK == IInv /\ UserStep => CacheStep /\ PageAsked' /\ ScreenOK'
<1> SUFFICES ASSUME IInv, UserStep PROVE CacheStep /\ PageAsked' /\ ScreenOK'
  OBVIOUS
<1>1. /\ ui \in Screen /\ ui.open \in Captured \cup {None} /\ online \in BOOLEAN
      /\ ui.page \in PageNumbers /\ ui.draft \in Filters /\ ui.tab \in TABS
      /\ MaxPage \in Nat
  BY BoundAssumption DEF IInv, ScreenOK, Screen
<1>2. ASSUME NEW t \in TABS, OpenTab(t) PROVE CacheStep /\ PageAsked' /\ ScreenOK'
  BY <1>2, EnteredOK, ClickOK DEF OpenTab
<1>3. ASSUME NEW f \in Filters, EditDraft(f) PROVE CacheStep /\ PageAsked' /\ ScreenOK'
  <2>1. ui' = [ui EXCEPT !.draft = f] /\ cache' = cache /\ Click
    BY <1>3 DEF EditDraft
  <2>2. /\ ui' \in Screen /\ ui'.open = ui.open /\ ui'.tab = ui.tab
        /\ ui'.page = ui.page /\ ui'.filters = ui.filters
    BY <1>1, <2>1 DEF Screen
  <2>3. ScreenOK'
    BY <1>1, <2>1, <2>2, BoundAssumption DEF IInv, ScreenOK, Click
  <2>4. CacheStep
    BY <2>1 DEF CacheStep, Click, IInv, CacheOK
  <2>5. PageAsked'
    BY <2>1, <2>2 DEF IInv, PageAsked, PageKey
  <2> QED
    BY <2>3, <2>4, <2>5
<1>4. CASE apply
  <2> DEFINE u == [ui EXCEPT !.page = 0, !.open = None, !.filters = ui.draft]
  <2>1. 0 \in PageNumbers
    BY <1>1 DEF PageNumbers
  <2>2. u \in Screen /\ u.open = None
    BY <1>1, <2>1 DEF Screen
  <2> QED
    BY <1>4, <2>2, ClickOK DEF apply
<1>5. ASSUME NEW p \in PageNumbers, Click, goto(p) PROVE CacheStep /\ PageAsked' /\ ScreenOK'
  <2> DEFINE u == [ui EXCEPT !.open = None, !.page = p]
  <2>1. u \in Screen /\ u.open = None
    BY <1>1 DEF Screen
  <2> QED
    BY <1>5, <2>1, ClickOK DEF goto
<1>6. CASE PrevPage
  BY <1>1, <1>5, <1>6 DEF PrevPage, PageNumbers
<1>7. CASE NextPage
  BY <1>1, <1>5, <1>7 DEF NextPage, PageNumbers
<1>8. ASSUME NEW i \in Ids, ToggleRevert(i) PROVE CacheStep /\ PageAsked' /\ ScreenOK'
  <2> DEFINE u == [ui EXCEPT !.open = IF @ = i THEN None ELSE i]
  <2>1. u \in Screen /\ u.open \in Captured \cup {None}
    BY <1>1, <1>8 DEF Screen, ToggleRevert
  <2> QED
    BY <1>8, <2>1, ClickOK DEF ToggleRevert
<1>9. CASE Refresh
  <2> DEFINE k == PageKey(ui)
             e == Refetched(cache[k], PageRequest(ui))
  <2>1. k \in Keys /\ PageRequest(ui) = KeyRequest(k)
    BY <1>1, PageKeyFacts
  <2>2. EntryOK(cache[k], k, changes) /\ changes \in 0 .. MaxChanges
    BY <2>1 DEF IInv, CacheOK, BrokerOK
  <2>3. EntryOK(e, k, changes) /\ Held(e) \subseteq Held(cache[k]) /\ e.net # "idle"
    BY <1>1, <2>1, <2>2, RefetchedOK
  <2>4. Becomes(ui, [cache EXCEPT ![k] = e]) /\ Click /\ UNCHANGED brokerVars
    BY <1>9, <2>1 DEF Refresh, Click, IInv, CacheOK
  <2>5. ScreenOK'
    BY <2>4, BoundAssumption DEF IInv, ScreenOK, Click, Becomes
  <2> HIDE DEF e, k
  <2> QED
    BY <2>1, <2>3, <2>4, <2>5, EntryBecomesOK
<1> QED
  BY <1>2, <1>3, <1>4, <1>6, <1>7, <1>8, <1>9 DEF UserStep
-----------------------------------------------------------------------------
(* The network and the timers. *)

\* A step of one entry that leaves the screen as it is.
LEMMA EntryStepOK ==
  ASSUME IInv, NEW k \in Keys, NEW e, EntryOK(e, k, changes),
         \A d \in Held(e) :
           \/ d \in Held(cache[k])
           \/ d.asOf = changes /\ (k.of = "audits" => d.all = Selected(k.filter)),
         k = PageKey(ui) => (e.status = "pending" => e.net # "idle"),
         cache' = [cache EXCEPT ![k] = e], ui' = ui, UNCHANGED brokerVars
  PROVE  CacheStep /\ PageAsked'
<1>1. \A j \in Keys : cache'[j] = IF j = k THEN e ELSE cache[j]
  BY DEF IInv, CacheOK
<1>2. cache' = [j \in Keys |-> cache'[j]]
  BY DEF IInv, CacheOK
<1>3. CacheStep
  BY <1>1, <1>2 DEF CacheStep, IInv, CacheOK
<1>4. PageKey(ui) \in Keys
  BY PageKeyFacts DEF IInv, ScreenOK
<1>5. PageAsked'
  BY <1>1, <1>4 DEF IInv, PageAsked
<1> QED
  BY <1>3, <1>5

NetStep ==
  \/ \E k \in Keys : Serve(k) \/ Deliver(k) \/ Fail(k) \/ Retry(k) \/ GoStale(k) \/ Evict(k)
  \/ GoOffline
  \/ GoOnline

LEMMA NetStepOK == IInv /\ NetStep => CacheStep /\ PageAsked' /\ ScreenOK'
<1> SUFFICES ASSUME IInv, NetStep PROVE CacheStep /\ PageAsked' /\ ScreenOK'
  OBVIOUS
<1>1. ScreenOK'
  <2>1. UNCHANGED <<opened, ui, clicks>>
    BY DEF NetStep, Serve, Deliver, Fail, Retry, GoStale, Evict, GoOffline, GoOnline, Becomes
  <2>2. online' \in {online, TRUE, FALSE}
    BY DEF NetStep, Serve, Deliver, Fail, Retry, GoStale, Evict, GoOffline, GoOnline
  <2>3. events' = events \/ (events < MaxEvents /\ events' = events + 1)
    BY DEF NetStep, Serve, Deliver, Fail, Retry, GoStale, Evict, GoOffline, GoOnline
  <2>4. events' \in 0 .. MaxEvents
    BY <2>3, BoundAssumption DEF IInv, ScreenOK
  <2> QED
    BY <2>1, <2>2, <2>4 DEF IInv, ScreenOK
<1>2. UNCHANGED brokerVars
  BY DEF NetStep, Serve, Deliver, Fail, Retry, GoStale, Evict, GoOffline, GoOnline
<1>3. /\ changes \in 0 .. MaxChanges /\ online \in BOOLEAN /\ BrokerOK
      /\ PageKey(ui) \in Watched(ui, cache)
  BY DEF IInv, BrokerOK, ScreenOK, Watched
<1>4. \A k \in Keys : EntryOK(cache[k], k, changes)
  BY DEF IInv, CacheOK
<1>5. PageKey(ui) \in Keys
  BY PageKeyFacts DEF IInv, ScreenOK
<1>6. PageAsked
  BY DEF IInv
<1>7. ASSUME NEW k \in Keys, Serve(k) PROVE CacheStep /\ PageAsked'
  <2> DEFINE e == [cache[k] EXCEPT !.net = "answered", !.answer = Respond(cache[k].asked)]
  <2>1. cache' = [cache EXCEPT ![k] = e] /\ cache[k].net = "asked" /\ ui' = ui
    BY <1>7 DEF Serve, IInv, CacheOK
  <2>2. /\ EntryOK(e, k, changes) /\ e.net = "answered"
        /\ \A d \in Held(e) \ Held(cache[k]) :
             d.asOf = changes /\ (k.of = "audits" => d.all = Selected(k.filter))
    BY <1>3, <1>4, <2>1, ServedOK
  <2> HIDE DEF e
  <2> QED
    BY <1>2, <2>1, <2>2, EntryStepOK
<1>8. ASSUME NEW k \in Keys, Deliver(k) PROVE CacheStep /\ PageAsked'
  <2> DEFINE watched == k \in Watched(ui, cache)
             e == IF cache[k].answer = Refused THEN Failed(cache[k], watched)
                  ELSE Succeeded(cache[k])
  <2>1. Becomes(ui, [cache EXCEPT ![k] = e]) /\ cache[k].net = "answered"
    BY <1>8 DEF Deliver, IInv, CacheOK
  <2>2. watched \in BOOLEAN
    OBVIOUS
  <2>3. /\ EntryOK(e, k, changes) /\ Held(e) \subseteq Held(cache[k])
        /\ e.status = "pending" => e.net # "idle"
    BY <1>3, <1>4, <2>1, <2>2, FailedOK, SucceededOK
  <2> HIDE DEF e
  <2> QED
    BY <1>2, <2>1, <2>3, EntryBecomesOK
<1>9. ASSUME NEW k \in Keys, Fail(k) PROVE CacheStep /\ PageAsked'
  <2> DEFINE watched == k \in Watched(ui, cache)
             e == Failed(cache[k], watched)
  <2>1. Becomes(ui, [cache EXCEPT ![k] = e]) /\ cache[k].net # "idle"
    BY <1>9 DEF Fail, IInv, CacheOK
  <2>2. watched \in BOOLEAN
    OBVIOUS
  <2>3. /\ EntryOK(e, k, changes) /\ Held(e) \subseteq Held(cache[k])
        /\ e.status = "pending" => e.net # "idle"
    BY <1>3, <1>4, <2>1, <2>2, FailedOK
  <2> HIDE DEF e
  <2> QED
    BY <1>2, <2>1, <2>3, EntryBecomesOK
<1>10. ASSUME NEW k \in Keys, Retry(k) PROVE CacheStep /\ PageAsked'
  <2>1. CASE k \notin Watched(ui, cache)
    <3> DEFINE e == Rejected(cache[k])
    <3>1. cache' = [cache EXCEPT ![k] = e] /\ ui' = ui
      BY <1>10, <2>1 DEF Retry, IInv, CacheOK
    <3>2. EntryOK(e, k, changes) /\ Held(e) \subseteq Held(cache[k]) /\ e.status # "pending"
      BY <1>3, <1>4, RejectedOK
    <3> HIDE DEF e
    <3> QED
      BY <1>2, <3>1, <3>2, EntryStepOK
  <2>2. CASE k \in Watched(ui, cache)
    <3> DEFINE net == IF online THEN "asked" ELSE "paused"
               e == [cache[k] EXCEPT !.net = net]
    <3>1. cache' = [cache EXCEPT ![k] = e] /\ ui' = ui /\ cache[k].net = "waiting"
      BY <1>10, <2>2 DEF Retry, IInv, CacheOK
    <3>2. net \in {"asked", "paused"}
      OBVIOUS
    <3>3. e.net = net
      BY <1>4 DEF EntryOK, Entry
    <3> HIDE DEF net
    <3>4. EntryOK(e, k, changes) /\ Held(e) = Held(cache[k])
      BY <1>4, <3>1, <3>2, NetOK
    <3> HIDE DEF e
    <3> QED
      BY <1>2, <3>1, <3>2, <3>3, <3>4, EntryStepOK
  <2> QED
    BY <2>1, <2>2
<1>11. ASSUME NEW k \in Keys, GoStale(k) PROVE CacheStep /\ PageAsked'
  <2> DEFINE e == [cache[k] EXCEPT !.fresh = FALSE]
  <2>1. cache' = [cache EXCEPT ![k] = e] /\ ui' = ui
    BY <1>11 DEF GoStale, IInv, CacheOK
  <2>2. /\ EntryOK(e, k, changes) /\ Held(e) = Held(cache[k])
        /\ e.status = cache[k].status /\ e.net = cache[k].net
    BY <1>4, StaleOK
  <2> HIDE DEF e
  <2> QED
    BY <1>2, <1>6, <2>1, <2>2, EntryStepOK DEF PageAsked
<1>12. ASSUME NEW k \in Keys, Evict(k) PROVE CacheStep /\ PageAsked'
  <2>1. cache' = [cache EXCEPT ![k] = Blank] /\ ui' = ui /\ k # PageKey(ui)
    BY <1>3, <1>12 DEF Evict
  <2>2. EntryOK(Blank, k, changes) /\ Held(Blank) = {}
    BY <1>3, BlankOK
  <2> QED
    BY <1>2, <2>1, <2>2, EntryStepOK
<1>13. CASE GoOffline
  <2>1. cache' = cache /\ ui' = ui
    BY <1>13 DEF GoOffline
  <2> QED
    BY <1>1, <1>2, <1>6, <2>1 DEF CacheStep, PageAsked, IInv, CacheOK
<1>14. CASE GoOnline
  <2>1. ui' = ui /\ cache' = [k \in Keys |-> Resumed(k)]
    BY <1>14 DEF GoOnline
  <2>2. ASSUME NEW k \in Keys
        PROVE  /\ EntryOK(Resumed(k), k, changes) /\ Held(Resumed(k)) \subseteq Held(cache[k])
               /\ k = PageKey(ui) => (Resumed(k).status = "pending" => Resumed(k).net # "idle")
    <3> DEFINE e == cache[k]
               watched == k \in Watched(ui, cache)
    <3>1. CASE e.net = "paused" /\ e.retried /\ ~watched
      <4>1. Resumed(k) = Rejected(e)
        BY <3>1 DEF Resumed
      <4> QED
        BY <1>3, <1>4, <4>1, RejectedOK
    <3>2. CASE e.net = "paused" /\ ~(e.retried /\ ~watched)
      <4>1. Resumed(k) = [e EXCEPT !.net = "asked"]
        BY <3>2 DEF Resumed
      <4>2. Resumed(k).net = "asked"
        BY <1>4, <4>1 DEF EntryOK, Entry
      <4> QED
        BY <1>4, <3>2, <4>1, <4>2, NetOK
    <3>3. CASE e.net = "idle" /\ watched /\ ~e.fresh
      <4>1. Resumed(k) = Start(e, Asks(ui, k), TRUE)
        BY <3>3 DEF Resumed
      <4>2. Asks(ui, k) = KeyRequest(k)
        BY <1>4, <3>3, WatchedFacts DEF IInv, ScreenOK, EntryOK
      <4> QED
        BY <1>3, <1>4, <4>1, <4>2, StartOK
    <3>4. CASE e.net # "paused" /\ ~(e.net = "idle" /\ watched /\ ~e.fresh)
      <4>1. Resumed(k) = e
        BY <3>4 DEF Resumed
      <4> QED
        BY <1>4, <1>6, <4>1 DEF PageAsked
    <3> QED
      BY <3>1, <3>2, <3>3, <3>4
  <2>3. \A k \in Keys : cache'[k] = Resumed(k)
    BY <2>1
  <2>4. CacheStep
    BY <1>2, <2>1, <2>2, <2>3 DEF CacheStep
  <2>5. PageAsked'
    BY <1>5, <2>1, <2>2, <2>3 DEF PageAsked
  <2> QED
    BY <1>1, <2>4, <2>5
<1> QED
  BY <1>1, <1>7, <1>8, <1>9, <1>10, <1>11, <1>12, <1>13, <1>14 DEF NetStep

-----------------------------------------------------------------------------
(* The broker's lists. *)

ListStep ==
  \/ \E t \in opened, r \in Ids : AddRow(t.list, r) \/ DropRow(t.list, r)
  \/ \E r, s \in Ids : MoveRow(r, s)
  \/ \E r \in Ids : PruneAudits(r) \/ PruneArtifacts(r)

LEMMA ListStepOK == IInv /\ ListStep => BrokerStep /\ PageAsked' /\ ScreenOK'
<1> SUFFICES ASSUME IInv, ListStep PROVE BrokerStep /\ PageAsked' /\ ScreenOK'
  OBVIOUS
<1>1. Change
  BY DEF ListStep, AddRow, DropRow, MoveRow, PruneAudits, PruneArtifacts
<1>2. /\ changes' = changes + 1 /\ changes' \in 0 .. MaxChanges
      /\ UNCHANGED <<opened, ui, cache, online, clicks, events>>
  BY <1>1, BoundAssumption DEF Change, IInv, BrokerOK
<1>3. PageAsked' /\ ScreenOK'
  BY <1>2 DEF IInv, PageAsked, ScreenOK
<1>4. /\ rows \in [Lists -> SUBSET Ids] /\ used \in [Lists -> SUBSET Ids]
      /\ rows["audits"] \subseteq used["audits"] /\ artifacts \subseteq Ids
      /\ {"audits", "activity"} \subseteq Lists
  BY DEF IInv, BrokerOK, Lists
<1> DEFINE Kept == /\ BrokerOK'
                   /\ used["audits"] \subseteq used'["audits"]
                   /\ \A x \in rows'["audits"] \cap used["audits"] :
                        /\ x \in rows["audits"]
                        /\ \A y \in rows["audits"] : y > x => y \in rows'["audits"]
<1>5. ASSUME NEW l \in Lists, NEW r \in Ids, AddRow(l, r) PROVE Kept
  <2>1. artifacts' \subseteq Ids /\ r \notin used[l]
    BY <1>4, <1>5 DEF AddRow
  <2>2. /\ rows' = [rows EXCEPT ![l] = @ \cup {r}]
        /\ used' = [used EXCEPT ![l] = @ \cup {r}]
    BY <1>5 DEF AddRow
  <2>3. rows' \in [Lists -> SUBSET Ids] /\ used' \in [Lists -> SUBSET Ids]
    BY <1>4, <2>2
  <2>4. CASE l = "audits"
    <3>1. /\ rows'["audits"] = rows["audits"] \cup {r}
          /\ used'["audits"] = used["audits"] \cup {r}
      BY <1>4, <2>2, <2>4
    <3> QED
      BY <1>2, <1>4, <2>1, <2>3, <2>4, <3>1 DEF BrokerOK
  <2>5. CASE l # "audits"
    <3>1. rows'["audits"] = rows["audits"] /\ used'["audits"] = used["audits"]
      BY <1>4, <2>2, <2>5
    <3> QED
      BY <1>2, <1>4, <2>1, <2>3, <3>1 DEF BrokerOK
  <2> QED
    BY <2>4, <2>5
<1>6. ASSUME NEW l \in Lists, NEW r \in Ids, DropRow(l, r) PROVE Kept
  <2>1. /\ rows' = [rows EXCEPT ![l] = @ \ {r}] /\ used' = used /\ artifacts' = artifacts
        /\ l # "audits"
    BY <1>6 DEF DropRow
  <2>2. rows' \in [Lists -> SUBSET Ids] /\ rows'["audits"] = rows["audits"]
    BY <1>4, <2>1
  <2> QED
    BY <1>2, <1>4, <2>1, <2>2 DEF BrokerOK
<1>7. ASSUME NEW r \in Ids, NEW s \in Ids, MoveRow(r, s) PROVE Kept
  <2>1. /\ rows' = [rows EXCEPT !["activity"] = (@ \ {r}) \cup {s}]
        /\ used' = [used EXCEPT !["activity"] = @ \cup {s}] /\ artifacts' = artifacts
    BY <1>7 DEF MoveRow
  <2>2. /\ rows' \in [Lists -> SUBSET Ids] /\ used' \in [Lists -> SUBSET Ids]
        /\ rows'["audits"] = rows["audits"] /\ used'["audits"] = used["audits"]
    BY <1>4, <2>1
  <2> QED
    BY <1>2, <1>4, <2>1, <2>2 DEF BrokerOK
<1>8. ASSUME NEW r \in Ids, PruneAudits(r) PROVE Kept
  <2>1. /\ rows' = [rows EXCEPT !["audits"] = {x \in @ : x > r}] /\ used' = used
        /\ artifacts' = artifacts
    BY <1>8 DEF PruneAudits
  <2>2. rows' \in [Lists -> SUBSET Ids] /\ rows'["audits"] = {x \in rows["audits"] : x > r}
    BY <1>4, <2>1
  <2>3. rows["audits"] \subseteq Nat /\ r \in Nat
    BY <1>4, IdsAssumption
  <2> QED
    BY <1>2, <1>4, <2>1, <2>2, <2>3 DEF BrokerOK
<1>9. ASSUME NEW r \in Ids, PruneArtifacts(r) PROVE Kept
  BY <1>2, <1>4, <1>9 DEF PruneArtifacts, BrokerOK
<1>10. \A t \in opened : t.list \in Lists
  BY VisitsAssumption, TabFacts DEF IInv, ScreenOK
<1>11. Kept
  BY <1>5, <1>6, <1>7, <1>8, <1>9, <1>10 DEF ListStep
<1> QED
  BY <1>2, <1>3, <1>11 DEF BrokerStep

-----------------------------------------------------------------------------
(* The inductive invariant. *)

LEMMA InitIInv == Init => IInv
<1> SUFFICES ASSUME Init PROVE IInv
  OBVIOUS
<1> DEFINE u == Entered(Sessions)
<1>1. /\ ui = u /\ u \in Screen /\ u.open = None
  BY EnteredOK DEF Init, TABS
<1>2. changes = 0 /\ changes \in 0 .. MaxChanges
  BY BoundAssumption DEF Init
<1>3. BrokerOK
  BY <1>2, StoredAssumption DEF Init, BrokerOK, Lists
<1>4. ScreenOK
  BY <1>1, BoundAssumption DEF Init, ScreenOK
<1>5. PageKey(u) \in Keys /\ PageRequest(u) = KeyRequest(PageKey(u))
  BY <1>1, PageKeyFacts
<1>6. ASSUME NEW k \in Keys
      PROVE  /\ EntryOK(cache[k], k, changes) /\ Held(cache[k]) = {}
             /\ k = PageKey(u) => cache[k].net # "idle"
  <2>1. CASE k = PageKey(u)
    <3>1. cache[k] = Start(Blank, KeyRequest(k), TRUE)
      BY <1>5, <2>1 DEF Init
    <3>2. EntryOK(Blank, k, changes) /\ Held(Blank) = {}
      BY <1>2, BlankOK
    <3> DEFINE e == Start(Blank, KeyRequest(k), TRUE)
    <3>3. EntryOK(e, k, changes) /\ Held(e) \subseteq Held(Blank) /\ e.net \in {"asked", "paused"}
      BY <1>2, <3>2, StartOK
    <3> HIDE DEF e
    <3> QED
      BY <3>1, <3>2, <3>3 DEF e
  <2>2. CASE k # PageKey(u)
    BY <1>2, <2>2, BlankOK DEF Init
  <2> QED
    BY <2>1, <2>2
<1>7. CacheOK
  BY <1>6 DEF CacheOK, Init
<1>8. PageAsked
  BY <1>1, <1>5, <1>6 DEF PageAsked
<1>9. KeepsNow /\ KeepsBetween
  BY <1>6 DEF KeepsNow, KeepsBetween, AuditKeys
<1> QED
  BY <1>3, <1>4, <1>7, <1>8, <1>9 DEF IInv

LEMMA NextIInv == IInv /\ [Next]_vars => IInv'
<1> SUFFICES ASSUME IInv, [Next]_vars PROVE IInv'
  OBVIOUS
<1>1. CASE UserStep
  BY <1>1, UserStepOK, CacheStepKeeps DEF IInv
<1>2. CASE NetStep
  BY <1>2, NetStepOK, CacheStepKeeps DEF IInv
<1>3. CASE ListStep
  BY <1>3, ListStepOK, BrokerStepKeeps DEF IInv, BrokerStep
<1>4. CASE UNCHANGED vars
  <2>1. UNCHANGED <<opened, ui, cache, online, rows, used, artifacts, changes, clicks, events>>
    BY <1>4 DEF vars, brokerVars
  <2>2. CacheStep
    BY <2>1 DEF CacheStep, brokerVars, IInv, CacheOK
  <2>3. ScreenOK' /\ PageAsked'
    BY <2>1 DEF IInv, ScreenOK, PageAsked
  <2> QED
    BY <2>2, <2>3, CacheStepKeeps DEF IInv
<1> QED
  BY <1>1, <1>2, <1>3, <1>4 DEF Next, UserStep, NetStep, ListStep

\* The entries of the cache, the screen and the broker's lists fit together as the
\* proof needs: the invariant the other theorems follow from.
THEOREM InductiveInvariant == Spec => []IInv
BY InitIInv, NextIInv, PTL DEF Spec

-----------------------------------------------------------------------------
(* The properties. *)

\* The screen, the cached queries and the broker's lists keep their types.
THEOREM ConsoleTypesCorrect == Spec => []TypeOK
<1>1. IInv => TypeOK
  BY DEF IInv, BrokerOK, ScreenOK, CacheOK, EntryOK, TypeOK
<1> QED
  BY <1>1, InductiveInvariant, PTL

\* An entry that shows rows holds an answer to the request of its key.
LEMMA ShownIsHeld ==
  ASSUME IInv, NEW k \in Keys, RowsOf(cache[k]) # {}
  PROVE  cache[k].data \in Held(cache[k]) /\ Answers(cache[k].data, k)
<1>1. EntryOK(cache[k], k, changes)
  BY DEF IInv, CacheOK
<1>2. cache[k].data \in Data
  BY <1>1 DEF RowsOf, EntryOK, Entry
<1> QED
  BY <1>1, <1>2, DataAssumption DEF EntryOK, Held

\* Rows on the screen answer the tab, page and filters selected now.
THEOREM RowsMatchTheScreen == Spec => []RowsAnswerTheControls
<1>1. IInv => RowsAnswerTheControls
  <2> SUFFICES ASSUME IInv, Query(cache[PageKey(ui)]) = "rows"
               PROVE  LET d == cache[PageKey(ui)].data
                      IN /\ d.asked = PageRequest(ui)
                         /\ ui.tab = Audits => d.rows \subseteq Matches[ui.filters]
    BY DEF RowsAnswerTheControls
  <2> DEFINE k == PageKey(ui)
             d == cache[k].data
  <2>1. /\ k \in Keys /\ PageRequest(ui) = KeyRequest(k)
        /\ ui.tab = Audits => k.of = "audits" /\ k.filter = ui.filters
    BY PageKeyFacts DEF IInv, ScreenOK
  <2>2. Answers(d, k)
    BY <2>1, ShownIsHeld DEF Query
  <2> HIDE DEF k, d
  <2>3. d.asked = KeyRequest(k) /\ (k.of = "audits" => d.rows \subseteq Matches[k.filter])
    BY <2>2 DEF Answers, Listed
  <2> QED
    BY <2>1, <2>3 DEF k, d
<1> QED
  BY <1>1, InductiveInvariant, PTL

\* A revert is shown under the statement it reverts.
THEOREM RevertMatchesItsRow == Spec => []RevertIsOfItsStatement
<1>1. IInv => RevertIsOfItsStatement
  <2> SUFFICES ASSUME IInv, NEW i \in Reverts(ui, cache),
                      Query(cache[RevertKey(i)]) = "rows"
               PROVE  LET d == cache[RevertKey(i)].data IN d.rows = {i} /\ d.asked.id = i
    BY DEF RevertIsOfItsStatement
  <2>1. RevertKey(i) \in Keys
    BY WatchedFacts DEF IInv, ScreenOK, CacheOK, EntryOK, Watched
  <2>2. Answers(cache[RevertKey(i)].data, RevertKey(i))
    BY <2>1, ShownIsHeld DEF Query
  <2> QED
    BY <2>2 DEF Answers, RevertKey, KeyRequest, auditRollback
<1> QED
  BY <1>1, InductiveInvariant, PTL

\* The file a user downloads under a statement holds the rows captured before
\* it: the revert is of that statement, and its file reads back as its rows.
THEOREM DownloadsHoldTheRows == Spec => []DownloadHoldsTheRows
<1>1. IInv => DownloadHoldsTheRows
  <2> SUFFICES ASSUME IInv, NEW i \in Reverts(ui, cache),
                      Query(cache[RevertKey(i)]) = "rows",
                      NEW j \in cache[RevertKey(i)].data.rows
               PROVE  <<j, i>> \in HoldsRowsOf
    BY DEF DownloadHoldsTheRows
  <2>1. RevertKey(i) \in Keys /\ i \in Captured
    <3>1. RevertKey(i) \in Keys
      BY WatchedFacts DEF IInv, ScreenOK, CacheOK, EntryOK, Watched
    <3>2. RevertKey(i).of = "rollback" /\ RevertKey(i).arg = i
      BY DEF RevertKey
    <3> QED
      BY <3>1, <3>2, KeyFacts
  <2>2. Answers(cache[RevertKey(i)].data, RevertKey(i))
    BY <2>1, ShownIsHeld DEF Query
  <2>3. j = i
    BY <2>2 DEF Answers, RevertKey
  <2>4. Before[i] # << >> => ReadsBack(beforeRowsCsv(Before[i]), Before[i])
    BY <2>1, BeforeAssumption, FileReadsBack
  <2> QED
    BY <2>1, <2>3, <2>4 DEF HoldsRowsOf
<1> QED
  BY <1>1, InductiveInvariant, PTL

\* Rows that were asked for again are not older than the click on Refresh.
THEOREM RefreshedRowsAreFresh == Spec => []RefreshIsFresh
<1>1. IInv => RefreshIsFresh
  BY DEF IInv, CacheOK, EntryOK, RefreshIsFresh
<1> QED
  BY <1>1, InductiveInvariant, PTL

\* The page says that there is nothing only if the broker said so, or if the
\* browser is offline and the first request waits.
THEOREM EmptyIsAnswered == Spec => []EmptyMeansAnswered
<1>1. IInv => EmptyMeansAnswered
  <2> SUFFICES ASSUME IInv PROVE EmptyMeansAnswered
    OBVIOUS
  <2> DEFINE k == PageKey(ui)
             e == cache[k]
  <2>1. k \in Keys
    BY PageKeyFacts DEF IInv, ScreenOK
  <2>2. /\ e \in Entry
        /\ e.status = "pending" => e.data = NoData /\ e.net # "idle"
        /\ e.status = "success" => e.data # NoData
    BY <2>1 DEF IInv, CacheOK, EntryOK, PageAsked
  <2>3. /\ e.status \in {"pending", "success", "error"}
        /\ e.net \in {"idle", "asked", "answered", "waiting", "paused"}
    BY <2>2 DEF Entry
  <2> QED
    BY <2>2, <2>3 DEF EmptyMeansAnswered, Query, isLoading, RowsOf
<1> QED
  BY <1>1, InductiveInvariant, PTL

-----------------------------------------------------------------------------
(* Adjacent pages. *)

LEMMA RankType ==
  ASSUME NEW A \in SUBSET Ids, NEW x PROVE Rank(x, A) \in Nat
<1>1. IsFiniteSet({y \in A : y > x})
  BY IdsAssumption, FS_Subset
<1> QED
  BY <1>1, FS_CardinalityType DEF Rank

\* Where newer rows only come, a row is never listed higher.
LEMMA RankGrows ==
  ASSUME NEW A \in SUBSET Ids, NEW B \in SUBSET Ids, Keeps(A, B), NEW x \in A \cap B
  PROVE  Rank(x, A) <= Rank(x, B)
<1>1. {y \in A : y > x} \subseteq {y \in B : y > x}
  BY DEF Keeps
<1>2. IsFiniteSet({y \in B : y > x})
  BY IdsAssumption, FS_Subset
<1> QED
  BY <1>1, <1>2, FS_Subset DEF Rank

\* A newer row is listed higher.
LEMMA RankOrders ==
  ASSUME NEW A \in SUBSET Ids, NEW x \in A, NEW y \in A, y > x
  PROVE  Rank(y, A) < Rank(x, A)
<1> DEFINE S == {z \in A : z > x}
           T == {z \in A : z > y}
<1>1. T \subseteq S /\ y \in S /\ y \notin T
  <2>1. x \in Nat /\ y \in Nat /\ \A z \in A : z \in Nat
    BY IdsAssumption
  <2>2. \A z \in A : z > y => z > x
    BY <2>1
  <2>3. ~(y > y)
    BY <2>1
  <2> QED
    BY <2>2, <2>3
<1>2. IsFiniteSet(S)
  BY IdsAssumption, FS_Subset
<1>3. Cardinality(T) <= Cardinality(S) /\ Cardinality(T) # Cardinality(S)
  BY <1>1, <1>2, FS_Subset
<1>4. Cardinality(S) \in Nat /\ Cardinality(T) \in Nat
  BY <1>1, <1>2, FS_Subset, FS_CardinalityType
<1> QED
  BY <1>3, <1>4 DEF Rank

\* What a page of size s lists from row n on.
LEMMA ListedFrom ==
  ASSUME NEW r, NEW n \in Nat, NEW s \in Nat \ {0}, NEW M \in SUBSET Ids,
         r.limit = Param(s), r.offset = Param(n)
  PROVE  Listed(r, M) = {x \in M : n <= Rank(x, M) /\ Rank(x, M) < n + s}
<1>1. r.limit = s /\ r.limit # None
  BY NoneAssumption DEF Param
<1>2. (IF r.offset = None THEN 0 ELSE r.offset) = n
  BY NoneAssumption DEF Param
<1> QED
  BY <1>1, <1>2 DEF Listed

\* What an audit page lists.
LEMMA ListedPage ==
  ASSUME NEW f, NEW p \in PageNumbers, NEW M \in SUBSET Ids
  PROVE  Listed(qs(f, AuditPageSize, p * AuditPageSize), M) =
           {x \in M : /\ p * AuditPageSize <= Rank(x, M)
                      /\ Rank(x, M) < p * AuditPageSize + AuditPageSize}
<1> DEFINE n == p * AuditPageSize
           r == qs(f, AuditPageSize, n)
<1>1. n \in Nat
  BY BoundAssumption, SizeAssumption DEF PageNumbers
<1> HIDE DEF n
<1>2. r.limit = Param(AuditPageSize) /\ r.offset = Param(n)
  BY DEF qs
<1> HIDE DEF r
<1>3. Listed(r, M) = {x \in M : n <= Rank(x, M) /\ Rank(x, M) < n + AuditPageSize}
  BY <1>1, <1>2, SizeAssumption, ListedFrom
<1> QED
  BY <1>3 DEF r, n

\* No event falls between two audit pages of which the earlier was read first.
THEOREM NoEventIsSkipped == Spec => []NothingFallsBetweenPages
<1>1. IInv => NothingFallsBetweenPages
  <2> SUFFICES ASSUME IInv, NEW f \in Filters, NEW p \in PageNumbers \ {MaxPage}
               PROVE  LET d == cache[[of |-> "audits", filter |-> f, arg |-> p]].data
                          e == cache[[of |-> "audits", filter |-> f, arg |-> p + 1]].data
                      IN d # NoData /\ e # NoData /\ d.rows # {} =>
                           \A x \in d.all \cap e.all :
                             /\ d.asOf <= e.asOf
                             /\ \A y \in d.rows : y > x
                             /\ \E y \in e.rows : y < x
                             => x \in e.rows
    BY DEF NothingFallsBetweenPages
  <2> DEFINE j == [of |-> "audits", filter |-> f, arg |-> p]
             k == [of |-> "audits", filter |-> f, arg |-> p + 1]
             d == cache[j].data
             e == cache[k].data
             n == p * AuditPageSize
             m == (p + 1) * AuditPageSize
  <2> SUFFICES ASSUME d # NoData, e # NoData, d.asOf <= e.asOf,
                      NEW x \in d.all \cap e.all, \A y \in d.rows : y > x,
                      NEW above \in d.rows, NEW below \in e.rows, below < x
               PROVE  x \in e.rows
    OBVIOUS
  <2>1. /\ j \in AuditKeys /\ k \in AuditKeys /\ p \in Nat
        /\ p \in PageNumbers /\ p + 1 \in PageNumbers
    BY BoundAssumption DEF AuditKeys, Keys, PageNumbers
  <2>2. n \in Nat /\ m \in Nat /\ m = n + AuditPageSize /\ AuditPageSize \in Nat
    BY <2>1, SizeAssumption
  <2>3. /\ d \in Held(cache[j]) /\ e \in Held(cache[k])
        /\ Answers(d, j) /\ Answers(e, k)
    <3>1. EntryOK(cache[j], j, changes) /\ EntryOK(cache[k], k, changes)
      BY <2>1 DEF IInv, CacheOK, AuditKeys
    <3>2. d \in Data /\ e \in Data
      BY <3>1 DEF EntryOK, Entry
    <3> QED
      BY <3>1, <3>2, DataAssumption DEF EntryOK, Held
  <2>4. Keeps(d.all, e.all)
    BY <2>1, <2>3 DEF IInv, KeepsBetween
  <2>5. d.all \in SUBSET Ids /\ e.all \in SUBSET Ids
    BY <2>3 DEF Answers, Data
  <2>6. /\ KeyRequest(j) = qs(f, AuditPageSize, n)
        /\ KeyRequest(k) = qs(f, AuditPageSize, m)
    BY DEF KeyRequest
  <2>7. /\ d.rows = {y \in d.all : n <= Rank(y, d.all) /\ Rank(y, d.all) < n + AuditPageSize}
        /\ e.rows = {y \in e.all : m <= Rank(y, e.all) /\ Rank(y, e.all) < m + AuditPageSize}
    BY <2>1, <2>3, <2>5, <2>6, ListedPage DEF Answers
  <2> HIDE DEF d, e, j, k, n, m
  <2>8. d.all \subseteq Nat /\ e.all \subseteq Nat
    BY <2>5, IdsAssumption
  <2>9. /\ Rank(x, d.all) \in Nat /\ Rank(x, e.all) \in Nat
        /\ Rank(above, d.all) \in Nat /\ Rank(below, e.all) \in Nat
    BY <2>5, RankType
  <2>10. Rank(above, d.all) < Rank(x, d.all) /\ x \notin d.rows
    BY <2>5, <2>7, <2>8, RankOrders
  <2>11. m <= Rank(x, d.all)
    BY <2>2, <2>7, <2>9, <2>10
  <2>12. Rank(x, d.all) <= Rank(x, e.all)
    BY <2>4, <2>5, RankGrows
  <2>13. Rank(x, e.all) < Rank(below, e.all)
    BY <2>5, <2>7, <2>8, RankOrders
  <2> QED
    BY <2>2, <2>7, <2>9, <2>11, <2>12, <2>13
<1> QED
  BY <1>1, InductiveInvariant, PTL

-----------------------------------------------------------------------------
(* The last page. *)

\* The rows above a row of a list take every place above it.
LEMMA EveryPlaceIsTaken ==
  ASSUME NEW A \in SUBSET Ids, NEW x \in A, NEW i \in Nat, i < Rank(x, A)
  PROVE  \E y \in A : y > x /\ Rank(y, A) = i
<1> DEFINE above == {y \in A : y > x}
           places == 0 .. Rank(x, A) - 1
           f == [y \in above |-> Rank(y, A)]
<1>1. A \subseteq Nat /\ IsFiniteSet(above) /\ Rank(x, A) = Cardinality(above)
  BY IdsAssumption, FS_Subset DEF Rank
<1>2. \A y \in A : Rank(y, A) \in Nat
  BY RankType
<1>3. \A y \in above : Rank(y, A) \in places
  BY <1>2, RankOrders
<1>4. \A y, z \in above : y # z => Rank(y, A) # Rank(z, A)
  <2> SUFFICES ASSUME NEW y \in above, NEW z \in above, y > z
               PROVE  Rank(y, A) # Rank(z, A)
    BY <1>1
  <2> QED
    BY <1>2, RankOrders
<1>5. f \in Injection(above, places)
  BY <1>3, <1>4 DEF Injection, IsInjective
<1>6. IsFiniteSet(places) /\ Cardinality(places) = Rank(x, A)
  <2>1. Rank(x, A) - 1 \in Int
    BY <1>2
  <2>2. /\ IsFiniteSet(places)
        /\ Cardinality(places) =
             IF 0 > Rank(x, A) - 1 THEN 0 ELSE Rank(x, A) - 1 - 0 + 1
    BY <2>1, FS_Interval
  <2> QED
    BY <1>2, <2>2
<1>7. f \in Surjection(above, places)
  BY <1>1, <1>5, <1>6, FS_Injection
<1>8. i \in places
  BY <1>2
<1>9. PICK y \in above : f[y] = i
  BY <1>7, <1>8 DEF Surjection
<1> QED
  BY <1>9

\* A page that starts above a row and does not reach it is full.
LEMMA PageAboveIsFull ==
  ASSUME NEW A \in SUBSET Ids, NEW x \in A, NEW n \in Nat, NEW s \in Nat \ {0},
         n + s <= Rank(x, A)
  PROVE  Cardinality({y \in A : n <= Rank(y, A) /\ Rank(y, A) < n + s}) = s
<1> DEFINE R == {y \in A : n <= Rank(y, A) /\ Rank(y, A) < n + s}
           places == n .. n + s - 1
           f == [y \in R |-> Rank(y, A)]
<1>1. A \subseteq Nat /\ \A y \in A : Rank(y, A) \in Nat
  BY IdsAssumption, RankType
<1>2. \A y, z \in R : y # z => Rank(y, A) # Rank(z, A)
  <2> SUFFICES ASSUME NEW y \in R, NEW z \in R, y > z PROVE Rank(y, A) # Rank(z, A)
    BY <1>1
  <2> QED
    BY <1>1, RankOrders
<1>3. \A y \in R : Rank(y, A) \in places
  BY <1>1
<1>4. f \in Injection(R, places)
  BY <1>2, <1>3 DEF Injection, IsInjective
<1>5. \A i \in places : \E y \in R : Rank(y, A) = i
  <2> SUFFICES ASSUME NEW i \in places PROVE \E y \in R : Rank(y, A) = i
    OBVIOUS
  <2>1. i \in Nat /\ i < Rank(x, A) /\ n <= i /\ i < n + s
    BY <1>1
  <2> QED
    BY <2>1, EveryPlaceIsTaken
<1>6. f \in Surjection(R, places)
  BY <1>3, <1>5 DEF Surjection
<1>7. IsFiniteSet(places) /\ Cardinality(places) = s
  BY FS_Interval
<1>8. Cardinality(R) = Cardinality(places)
  BY <1>4, <1>6, <1>7, FS_Injection
<1> QED
  BY <1>7, <1>8

\* Where there is no next page to go to, nothing older was there.
THEOREM LastPageEndsTheList == Spec => []LastPageIsLast
<1>1. IInv => LastPageIsLast
  <2> DEFINE k == PageKey(ui)
             d == cache[k].data
  <2> SUFFICES ASSUME IInv, Query(cache[k]) = "rows", ~hasNext(ui, cache),
                      NEW x \in d.all, \A y \in d.rows : y > x, x \notin d.rows
               PROVE  FALSE
    BY DEF LastPageIsLast
  <2> DEFINE s == ui.tab.size
             n == ui.page * s
  <2>1. ui \in Screen /\ ui.tab \in TABS /\ ui.page \in Nat
    BY BoundAssumption DEF IInv, ScreenOK, Screen, PageNumbers
  <2>2. k \in Keys /\ k.of # "rollback" /\ PageRequest(ui) = KeyRequest(k)
    BY <2>1, PageKeyFacts
  <2>3. RowsOf(cache[k]) # {} /\ Cardinality(RowsOf(cache[k])) # s
    BY DEF Query, hasNext
  <2>4. Answers(d, k)
    BY <2>2, <2>3, ShownIsHeld
  <2>5. RowsOf(cache[k]) = d.rows
    BY <2>3 DEF RowsOf
  <2>6. s \in Nat \ {0} /\ n \in Nat
    BY <2>1, TabFacts, SizeAssumption
  <2>7. PageRequest(ui).limit = Param(s) /\ PageRequest(ui).offset = Param(n)
    BY DEF PageRequest, qs, pageQs
  <2> HIDE DEF d, k, s, n
  <2>8. d.asked = PageRequest(ui) /\ d.rows = Listed(d.asked, d.all) /\ d.all \in SUBSET Ids
    BY <2>2, <2>4 DEF Answers, Data
  <2>9. d.rows = {y \in d.all : n <= Rank(y, d.all) /\ Rank(y, d.all) < n + s}
    BY <2>6, <2>7, <2>8, ListedFrom
  <2>10. PICK y \in d.rows : y \in d.all /\ y > x
    BY <2>3, <2>5, <2>9
  <2>11. Rank(y, d.all) < Rank(x, d.all)
    BY <2>8, <2>10, RankOrders
  <2>12. Rank(x, d.all) \in Nat /\ Rank(y, d.all) \in Nat
    BY <2>8, RankType
  <2>13. n + s <= Rank(x, d.all)
    BY <2>6, <2>9, <2>11, <2>12
  <2>14. Cardinality(d.rows) = s
    BY <2>6, <2>8, <2>9, <2>13, PageAboveIsFull
  <2> QED
    BY <2>3, <2>5, <2>14
<1> QED
  BY <1>1, InductiveInvariant, PTL
=============================================================================
