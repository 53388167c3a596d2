----------------------------- MODULE TieredQuery -----------------------------
(***************************************************************************)
(* TieredQuery::query_range of ecat-data-tiering (query.rs), with the      *)
(* ClickHouse adapter of ColdQuery (query/clickhouse.rs): a page of the    *)
(* rows between two times, put together from the hot and the cold tier.    *)
(*                                                                         *)
(* A tier is a set of stored copies of rows: the id, the time and a number *)
(* that tells the copies of a row apart. A hot row is its copy 0, which is *)
(* also the first copy in the cold table; a retried archive adds further   *)
(* ones there until a merge folds them, and the query does not say FINAL.  *)
(* A page is a set, ordered by id. Times are ticks, of which the text of a *)
(* time (fmt_time) keeps the whole seconds.                                *)
(***************************************************************************)
EXTENDS Naturals, FiniteSets

CONSTANTS QIds, QTimes, QSizes,  \* the inputs to check: ids, times, limit and offset
          TicksPerSecond

ASSUME TimesAssumption ==
  QIds \subseteq Nat /\ QTimes \subseteq Nat /\ QSizes \subseteq Nat
  /\ IsFiniteSet(QIds) /\ IsFiniteSet(QTimes) /\ QTimes # {}
  /\ TicksPerSecond \in Nat \ {0}

\* fmt_time drops the fraction.
FmtTime(t) == t - (t % TicksPerSecond)

\* ORDER BY id LIMIT limit OFFSET offset: every stored copy counts.
Precedes(q, r) == q.id < r.id \/ (q.id = r.id /\ q.copy < r.copy)
Slice(rows, limit, offset) ==
  {r \in rows : LET n == Cardinality({q \in rows : Precedes(q, r)})
                IN  offset <= n /\ n < offset + limit}

\* hot_range: both ends are in the range.
HotRange(hot, from, to, limit, offset) ==
  Slice({r \in hot : FmtTime(from) <= r.time /\ r.time <= FmtTime(to)}, limit, offset)

\* ClickhouseColdQuery: the upper end is not.
ColdRange(cold, from, to, limit, offset) ==
  Slice({r \in cold : FmtTime(from) <= r.time /\ r.time < FmtTime(to)}, limit, offset)

\* What both sides are asked for when the range spans the boundary.
\* Mutant: only the page itself.
PushdownPage(limit, offset) == limit
Pushdown(limit, offset) == limit + offset

\* The dedup of sort_dedupe_paginate: of every id one row is kept.
Dedupe(rows) == {[id |-> r.id, time |-> r.time, copy |-> 0] : r \in rows}

\* query_range. Only what both sides return is deduplicated.
QueryRange(hot, cold, boundary, from, to, limit, offset) ==
  LET n == Pushdown(limit, offset) IN
  CASE from >= boundary -> HotRange(hot, from, to, limit, offset)
    [] from < boundary /\ to < boundary -> ColdRange(cold, from, to, limit, offset)
    [] from < boundary /\ to >= boundary ->
         Slice(Dedupe(HotRange(hot, boundary, to, n, 0) \cup ColdRange(cold, from, boundary, n, 0)),
               limit, offset)

-----------------------------------------------------------------------------
QRows == [id : QIds, time : QTimes, copy : {0}]
Tables == {T \in SUBSET QRows : \A r, q \in T : r.id = q.id => r = q}

\* What is documented: the rows in [from, to].
Between(T, from, to) == {r \in T : from <= r.time /\ r.time <= to}

\* The rows the code treats differently: those in the seconds that fmt_time drops
\* from the ends, and those at the upper end of a range in the cold tier alone.
AtEnd(r, boundary, from, to) ==
  \/ FmtTime(from) <= r.time /\ r.time < from
  \/ FmtTime(to) < r.time /\ r.time <= to
  \/ r.time = FmtTime(to) /\ to < boundary

\* Every row of the cold tier once more.
Again(rows) == {[id |-> r.id, time |-> r.time, copy |-> 1] : r \in rows}

\* The rows T are split at the boundary, those in `both` being in both tiers.
\* Further copies in the cold tier do no harm if the range reaches the boundary
\* and the page ends after the last copy.
Earlier(T, boundary) == {r \in T : r.time < FmtTime(boundary)}
PageIsExact(T, both, boundary, from, to, limit, offset) ==
  LET newer == (T \ Earlier(T, boundary)) \cup both
      older == Earlier(T, boundary) \cup both
  IN  \A more \in {{}, Again(older)} :
        \/ more = {}
        \/ to >= boundary /\ limit + offset >= Cardinality(older \cup more)
        => QueryRange(newer, older \cup more, boundary, from, to, limit, offset)
             = Slice(Between(T, from, to), limit, offset)

\* A query returns its page of the rows in [from, to] unless one is at an end,
\* if every row before the boundary is in the cold tier and every other one in
\* the hot tier; some may be in both.
PagesAreExact ==
  \A T \in Tables, boundary, from, to \in QTimes, limit, offset \in QSizes :
    from <= to /\ (\A r \in T : ~AtEnd(r, boundary, from, to)) =>
      \A both \in {{}, T} : PageIsExact(T, both, boundary, from, to, limit, offset)
=============================================================================
