---------------------------- MODULE DecisionPages ----------------------------
(***************************************************************************)
(* Listing decisions page by page while decisions are stored and deleted.  *)
(* A row's created_at is the clock of the process that evaluated it, read  *)
(* before its transaction, so rows become visible in any order of it; the  *)
(* foreign key of a deleted scenario takes its decisions away.             *)
(***************************************************************************)
EXTENDS Integers, Sequences, FiniteSets, FiniteSetsExt, SequencesExt

CONSTANTS
  Rows,          \* records [id, at, scn, score]; ids differ
  Filters,       \* records [scn, min]: Unset where the query has no such parameter
  Limits,        \* page sizes that clients ask for
  DefaultLimit, MaxLimit,
  Walkers,
  Unset, NoCursor, NoWalk

VARIABLES stored, gone, walk

pageVars == <<stored, gone, walk>>

\* order by created_at desc, id desc
Before(r, s) == r.at > s.at \/ (r.at = s.at /\ r.id > s.id)

\* (Mutant: the cursor compares created_at alone.)
AfterCursorTime(cur, r) == cur = NoCursor \/ r.at < cur.at

\* created_at < $c or (created_at = $c and id < $i)
AfterCursor(cur, r) == cur = NoCursor \/ r.at < cur.at \/ (r.at = cur.at /\ r.id < cur.id)

\* the conjunction of the parameters that are given
Matches(f, r) == (f.scn = Unset \/ r.scn = f.scn) /\ (f.min = Unset \/ r.score >= f.min)

Selected(f) == SetToSortSeq({r \in stored : Matches(f, r)}, Before)
Count(f)    == Len(Selected(f))

\* a limit that is given must be positive, and is capped
parseLimit(n) == IF n = Unset THEN DefaultLimit ELSE IF n > MaxLimit THEN MaxLimit ELSE n

\* one row more than the limit is read, to know whether there are more
Page(rows, limit) ==
  LET read == SubSeq(rows, 1, Min({limit + 1, Len(rows)}))
  IN [items |-> SubSeq(read, 1, Min({limit, Len(read)})), more |-> Len(read) > limit]

ListFilteredPage(f, limit, offset) == Page(SubSeq(Selected(f), offset + 1, Count(f)), limit)

ListFilteredCursor(f, limit, cur) ==
  Page(SelectSeq(Selected(f), LAMBDA r : AfterCursor(cur, r)), limit)

\* EncodeDecisionCursor of the last item, when there are more
buildDecisionNextCursor(page) ==
  IF page.more /\ page.items # <<>>
  THEN [at |-> Last(page.items).at, id |-> Last(page.items).id] ELSE NoCursor

\* DecodeDecisionCursor(EncodeDecisionCursor(r)): the time to the microsecond of
\* the row it came from, and the id
CursorOf(r) == [at |-> r.at, id |-> r.id]

(***************************************************************************)
(* A walk: [f, mode, limit, pos, ret, base, quiet, st].  base is what the  *)
(* filter selected from the start position when the walk began, quiet that *)
(* no row came or went since.                                              *)
(***************************************************************************)
PagesInit ==
  /\ stored \in SUBSET Rows
  /\ gone = {}
  /\ walk = [w \in Walkers |-> NoWalk]

Disturbed == [w \in Walkers |-> IF walk[w] = NoWalk THEN NoWalk ELSE [walk[w] EXCEPT !.quiet = FALSE]]

StoreRow(r) ==
  /\ r \in Rows \ (stored \cup gone)
  /\ stored' = stored \cup {r}
  /\ walk' = Disturbed
  /\ UNCHANGED gone

DeleteScenarioRows(s) ==
  LET rs == {r \in stored : r.scn = s}
  IN /\ rs # {}
     /\ stored' = stored \ rs
     /\ gone' = gone \cup rs
     /\ walk' = Disturbed

NewWalk(f, mode, n, pos, base) ==
  [f |-> f, mode |-> mode, limit |-> parseLimit(n), pos |-> pos, ret |-> <<>>,
   base |-> base, quiet |-> TRUE, st |-> "walking"]

\* a request with limit or offset: pages by position
StartOffsetWalk(w, f, n) ==
  /\ walk[w] = NoWalk
  /\ walk' = [walk EXCEPT ![w] = NewWalk(f, "offset", n, 0, {r \in stored : Matches(f, r)})]
  /\ UNCHANGED <<stored, gone>>

\* a request with a cursor: the rows after that of a decision the client knows
\* (an empty cursor parameter does not select this mode)
StartCursorWalk(w, f, n, r) ==
  /\ walk[w] = NoWalk
  /\ walk' = [walk EXCEPT ![w] =
       NewWalk(f, "cursor", n, CursorOf(r), {x \in stored : Matches(f, x) /\ AfterCursor(CursorOf(r), x)})]
  /\ UNCHANGED <<stored, gone>>

\* buildPagination: next_offset or next_cursor, and the client asks again with it
NextPage(w) ==
  LET q == walk[w]
      p == IF q.mode = "offset" THEN ListFilteredPage(q.f, q.limit, q.pos)
           ELSE ListFilteredCursor(q.f, q.limit, q.pos)
      next == IF q.mode = "offset" THEN q.pos + q.limit ELSE buildDecisionNextCursor(p)
  IN /\ q # NoWalk /\ q.st = "walking"
     /\ walk' = [walk EXCEPT ![w] =
          [q EXCEPT !.ret = @ \o p.items,
                    !.pos = IF p.more THEN next ELSE @,
                    !.st = IF p.more THEN "walking" ELSE "ended"]]
     /\ UNCHANGED <<stored, gone>>

PagesNext ==
  \/ \E r \in Rows : StoreRow(r)
  \/ \E s \in {r.scn : r \in Rows} : DeleteScenarioRows(s)
  \/ \E w \in Walkers, f \in Filters, n \in Limits :
       StartOffsetWalk(w, f, n) \/ \E r \in Rows : StartCursorWalk(w, f, n, r)
  \/ \E w \in Walkers : NextPage(w)

(***************************************************************************)
(* Properties.                                                             *)
(***************************************************************************)
\* A walk by cursor returns no decision twice, and when it ends it has returned
\* every decision that was there when it began and still is, whatever was stored
\* or deleted on the way and however many rows share a created_at.  A walk by
\* offset promises that only if nothing came or went.
PagesComplete ==
  \A w \in Walkers :
    LET q == walk[w]
    IN q # NoWalk /\ (q.mode = "cursor" \/ q.quiet) =>
         /\ IsInjective(q.ret)
         /\ \A k \in 1 .. Len(q.ret) - 1 : Before(q.ret[k], q.ret[k + 1])
         /\ q.st = "ended" => q.base \cap stored \subseteq ToSet(q.ret)
=============================================================================
