------------------------------ MODULE AuditLog ------------------------------
(***************************************************************************)
(* The audit table of moxui (src/audit/store.rs), written by the audit     *)
(* middleware (src/audit/middleware.rs) and read, page by page, through    *)
(* GET /api/v1/audit (src/api/audit.rs).                                   *)
(*                                                                         *)
(* A row's time is read before the store's mutex is taken, so that rows    *)
(* reach the table out of the order of their times; within a second they   *)
(* have the same one.  Rows are never changed or removed.  A row is its    *)
(* time and its kind, which stands for the columns that a query compares   *)
(* (method, path, status, request_id); its id is its place in the table.   *)
(***************************************************************************)
EXTENDS Naturals, Sequences, FiniteSets, SequencesExt

CONSTANTS
  Writer,     \* audited requests in flight
  Reader,     \* clients that page through the log
  Kind,       \* what filters other than those on the time tell apart
  PerPage,    \* values of per_page that clients use
  Unset,      \* no filter, and no row
  Half,       \* 2 ^ 63: no i64 holds it, a u64 all that is less than twice it
  MaxPerPage, \* 500
  MaxTime,    \* bound of the model: the clock stops here
  MaxRows     \* bound of the model: rows ever logged

Time == 0 .. MaxTime
Row == [ts : Time, kind : Kind]
AuditQuery ==
  [kind : Kind \cup {Unset}, from_ts : Time \cup {Unset}, to_ts : Time \cup {Unset},
   sort_dir : {"Asc", "Desc"}, per_page : PerPage]

ASSUME AuditAssumption ==
  /\ Unset \notin Kind /\ Unset \notin Row /\ Unset \notin Time
  /\ PerPage \subseteq 1 .. MaxPerPage
  /\ MaxTime \in Nat /\ MaxRows \in Nat /\ MaxPerPage \in Nat
  /\ Half \in Nat /\ MaxRows * MaxPerPage < Half

VARIABLES
  now,      \* Utc::now().timestamp()
  rows,     \* the table; a row's id is its index
  stamped,  \* stamped[w]: the row w is about to log, or Unset
  walk      \* walk[r]: the reader's query, the page it asks for next, the ids
            \* it has seen, the number of pages it was last told, and (history)
            \* the ids that matched when it began

auditVars == <<now, rows, stamped, walk>>

NoWalk == [query |-> Unset, page |-> 0, pages |-> 0, seen |-> {}, owed |-> {}]

AuditInit ==
  /\ now = 0
  /\ rows = <<>>
  /\ stamped = [w \in Writer |-> Unset]
  /\ walk = [r \in Reader |-> NoWalk]

-----------------------------------------------------------------------------
(* AuditStore::query.                                                      *)

\* build_where: each filter is an equation, those on the time too, although
\* AuditQuery documents from_ts and to_ts as an inclusive minimum and maximum.
build_where(q, row) ==
  /\ q.kind \in {Unset, row.kind}
  /\ q.from_ts \in {Unset, row.ts}
  /\ q.to_ts \in {Unset, row.ts}

Matching(q) == {i \in 1 .. Len(rows) : build_where(q, rows[i])}

total(q) == Cardinality(Matching(q))

\* ORDER BY ts, id, both in the query's direction.
Earlier(i, j) == rows[i].ts < rows[j].ts \/ (rows[i].ts = rows[j].ts /\ i < j)
Before(q, i, j) == IF q.sort_dir = "Asc" THEN Earlier(i, j) ELSE Earlier(j, i)

\* The ids make the order total: there is one such list.
sorted(q) ==
  CHOOSE list \in [1 .. total(q) -> Matching(q)] :
    \A a, b \in 1 .. total(q) : a < b => Before(q, list[a], list[b])

\* Mutant: pages are numbered from zero.
ZeroBasedOffset(q, page) == (page * q.per_page) % (2 * Half)

\* The product wraps in a release build.  What no i64 holds becomes 0.
offset(q, page) ==
  LET product == ((page - 1) * q.per_page) % (2 * Half)
  IN  IF product < Half THEN product ELSE 0

\* LIMIT per_page OFFSET offset.
entries(q, page) ==
  LET limit == {k \in 1 .. q.per_page : offset(q, page) + k <= total(q)}
  IN  [k \in limit |-> sorted(q)[offset(q, page) + k]]

\* Mutant: a last page that is not full is not counted.
FullPages(q) == total(q) \div q.per_page

pages(q) == IF total(q) = 0 THEN 0 ELSE ((total(q) - 1) \div q.per_page) + 1

-----------------------------------------------------------------------------
(* The middleware and its readers.                                         *)

\* A request that is audited ends, and its row is made.
Stamp(w, k) ==
  /\ stamped[w] = Unset
  /\ stamped' = [stamped EXCEPT ![w] = [ts |-> now, kind |-> k]]
  /\ UNCHANGED <<now, rows, walk>>

\* AuditStore::log, under the mutex.
log(w) ==
  /\ stamped[w] # Unset
  /\ Len(rows) < MaxRows
  /\ rows' = Append(rows, stamped[w])
  /\ stamped' = [stamped EXCEPT ![w] = Unset]
  /\ UNCHANGED <<now, walk>>

\* SQLite refuses the row, which is traced and given up.
LogFails(w) ==
  /\ stamped[w] # Unset
  /\ stamped' = [stamped EXCEPT ![w] = Unset]
  /\ UNCHANGED <<now, rows, walk>>

\* A client opens the log.
StartWalk(r, q) ==
  /\ walk[r] = NoWalk
  /\ walk' = [walk EXCEPT ![r] =
       [query |-> q, page |-> 1, pages |-> 1, seen |-> {}, owed |-> Matching(q)]]
  /\ UNCHANGED <<now, rows, stamped>>

\* It asks for one page after the other, up to the last that it was told of.
list_audit(r) ==
  LET q == walk[r].query IN
  /\ q # Unset /\ walk[r].page <= walk[r].pages
  /\ walk' = [walk EXCEPT ![r].seen = @ \cup ToSet(entries(q, walk[r].page)),
                          ![r].page = @ + 1,
                          ![r].pages = pages(q)]
  /\ UNCHANGED <<now, rows, stamped>>

Finished(r) == walk[r].query # Unset /\ walk[r].page > walk[r].pages

\* It leaves, at the end or before.
EndWalk(r) ==
  /\ walk[r].query # Unset
  /\ walk' = [walk EXCEPT ![r] = NoWalk]
  /\ UNCHANGED <<now, rows, stamped>>

\* The process ends and is started again; the table is on disk.
Restart ==
  /\ stamped' = [w \in Writer |-> Unset]
  /\ UNCHANGED <<now, rows, walk>>

Tick ==
  /\ now < MaxTime
  /\ now' = now + 1
  /\ UNCHANGED <<rows, stamped, walk>>

AuditNext ==
  \/ \E w \in Writer, k \in Kind : Stamp(w, k)
  \/ \E w \in Writer : log(w)
  \/ \E w \in Writer : LogFails(w)
  \/ \E r \in Reader, q \in AuditQuery : StartWalk(r, q)
  \/ \E r \in Reader : list_audit(r)
  \/ \E r \in Reader : EndWalk(r)
  \/ Restart
  \/ Tick

AuditSpec == AuditInit /\ [][AuditNext]_auditVars

-----------------------------------------------------------------------------
(* What makes it correct.                                                  *)

\* How many rows come before row i in the order of q.
Rank(q, i) == Cardinality({j \in Matching(q) : Before(q, j, i)})

\* At every moment the pages of a query that someone makes cut the table exactly:
\* whatever is filtered and however many rows share a second, page n holds the
\* matching rows of the ranks from (n - 1) * per_page on, in order, each once,
\* and `pages` is the number of pages that hold one.
PagesPartition ==
  \A r \in Reader : LET q == walk[r].query IN
    q # Unset =>
      \A n \in 1 .. MaxRows + 1 : LET page == entries(q, n) IN
        /\ ToSet(page) = {i \in Matching(q) : Rank(q, i) \div q.per_page = n - 1}
        /\ \A a, b \in DOMAIN page : a < b => Before(q, page[a], page[b])
        /\ page # <<>> <=> n <= pages(q)

\* What a query finds is what it is documented to find: it has no filter on the
\* time, or the same minimum and maximum.  Ranges find too little (build_where).
FindsWhatItSays(q) == q.from_ts = q.to_ts

\* Nobody who pages through the log while it grows misses a row, unless it asked
\* for a range of times: rows move to later pages when others come in before
\* them, never to earlier ones, so that a reader who has asked for every page
\* sees each row that it asked for and that was there when it began, some of
\* them twice.
WalkMissesNothing ==
  \A r \in Reader :
    Finished(r) /\ FindsWhatItSays(walk[r].query)
      => walk[r].owed \subseteq walk[r].seen
=============================================================================
