------------------------------- MODULE Tables -------------------------------
(***************************************************************************)
(* The tables that are shown page by page: the tabs of the admin panel     *)
(* (app/admin/page.tsx) and the user's own audit log (app/audit/page.tsx), *)
(* with the routes behind them and AuditService.  Rows are only ever       *)
(* added, newest first, while the user turns pages of a cache in which     *)
(* every page of every filter is a query of its own.                       *)
(***************************************************************************)
EXTENDS Browser, Integers

VARIABLES
  view,    \* which of the tables this is
  entries, \* the entries are 1..entries, the last being the newest
  shown,   \* its tab, or its page, is on display
  filter,  \* the filters applied
  number,  \* the page of the table the user is at
  cache,   \* the query of each page under each filter
  faults

vars == <<view, entries, shown, filter, number, cache, faults>>

Views == {"users", "audit", "files", "own"}

(* The audit tab has filters; "even" stands for any that some entries pass. *)
Filters == {"all", "even"}

Numbers == 1..(MaxEntries \div PageSize + 1)

Keys == Filters \X Numbers

(* findMany and count are two reads: how many entries each of them saw.     *)
Replies == [seen : 0..MaxEntries, counted : 0..MaxEntries]

TypeOK ==
  /\ view \in Views
  /\ entries \in 0..MaxEntries
  /\ shown \in BOOLEAN
  /\ filter \in Filters
  /\ number \in Numbers
  /\ cache \in [Keys -> Queries(Replies)]
  /\ faults \in 0..MaxFaults

Init ==
  /\ view \in Views
  /\ entries \in 0..MaxEntries
  /\ shown = FALSE
  /\ filter = "all"
  /\ number = 1
  /\ cache = [k \in Keys |-> NoQuery]
  /\ faults = 0

Fault == faults < MaxFaults /\ faults' = faults + 1

----------------------------------------------------------------------------
(* The server.                                                              *)

(* How many of the first n entries pass the where clause.                   *)
Matching(fil, n) == IF fil = "even" THEN n \div 2 ELSE n

Skip(num) == (num - 1) * PageSize

(* The number of rows that skip and take leave.                             *)
RowsOf(key, reply) ==
  LET left == Matching(key[1], reply.seen) - Skip(key[2])
  IN  IF left < 0 THEN 0 ELSE IF left > PageSize THEN PageSize ELSE left

TotalOf(key, reply) == Matching(key[1], reply.counted)

(* An upload, a registration, an event.                                     *)
Append ==
  /\ entries < MaxEntries
  /\ entries' = entries + 1
  /\ UNCHANGED <<view, shown, filter, number, cache, faults>>

(* An entry may be added between the two reads, whichever comes first.      *)
Answer(k) ==
  /\ cache[k].fetch = "sent"
  /\ entries' \in {entries, entries + 1} \cap 0..MaxEntries
  /\ \E seen, counted \in {entries, entries'} :
       cache' = [cache EXCEPT ![k] = Read(@, [seen |-> seen, counted |-> counted])]
  /\ UNCHANGED <<view, shown, filter, number, faults>>

Lose(k) ==
  /\ Fault
  /\ cache[k].fetch \in {"sent", "read"}
  /\ \E q \in Losses(cache[k]) : cache' = [cache EXCEPT ![k] = q]
  /\ UNCHANGED <<view, entries, shown, filter, number>>

----------------------------------------------------------------------------
(* What the table shows.                                                    *)

Key == <<filter, number>>

Current == cache[Key]

(* In the order of the code: the skeleton, the error, the empty state, and  *)
(* the rows with the buttons that turn the pages.                           *)
ShowsError == shown /\ ~IsLoading(Current) /\ Current.error

Loaded == shown /\ ~IsLoading(Current) /\ ~Current.error /\ Current.data # Nothing

ShowsRows == Loaded /\ RowsOf(Key, Current.data) > 0

(* Math.ceil(total / limit)                                                 *)
TotalPages(total) == (total + PageSize - 1) \div PageSize

CanNext == ShowsRows /\ number < TotalPages(TotalOf(Key, Current.data))

CanPrevious == ShowsRows /\ number > 1

----------------------------------------------------------------------------
(* Turning pages.                                                           *)

GoTo(fil, num) ==
  /\ filter' = fil
  /\ number' = num
  /\ cache' = [cache EXCEPT ![<<fil, num>>] = Mount(@)]
  /\ UNCHANGED <<view, entries, shown, faults>>

Forward == CanNext /\ GoTo(filter, number + 1)

Back == CanPrevious /\ GoTo(filter, number - 1)

(* Mutant of Apply: the page stays.                                         *)
ApplyHere(fil) == view = "audit" /\ shown /\ GoTo(fil, number)

(* handleApplyFilters; the form is there in every state of the table.       *)
Apply(fil) == view = "audit" /\ shown /\ GoTo(fil, 1)

(* The button of the audit tables' error state.                             *)
Retry ==
  /\ view \in {"audit", "own"}
  /\ ShowsError
  /\ Current.fetch = "idle"
  /\ cache' = [cache EXCEPT ![Key] = Fetch(@)]
  /\ UNCHANGED <<view, entries, shown, filter, number, faults>>

(* A tab of the panel, or the page itself, comes on display.                *)
Show ==
  /\ ~shown
  /\ shown' = TRUE
  /\ cache' = [cache EXCEPT ![Key] = Mount(@)]
  /\ UNCHANGED <<view, entries, filter, number, faults>>

(* Another tab: the panel keeps page and filters, and disables the query.   *)
(* The query of the users stays enabled.                                    *)
Hide ==
  /\ shown
  /\ view \in {"audit", "files"}
  /\ shown' = FALSE
  /\ UNCHANGED <<view, entries, filter, number, cache, faults>>

(* Another page: the state of the component is lost, and the cache is not.  *)
Leave ==
  /\ shown' = FALSE
  /\ filter' = "all"
  /\ number' = 1
  /\ UNCHANGED <<view, entries, cache, faults>>

Receive(k) ==
  /\ cache[k].fetch = "read"
  /\ cache' = [cache EXCEPT ![k] = Take(@)]
  /\ UNCHANGED <<view, entries, shown, filter, number, faults>>

(* A page has been in the cache for staleTime.                              *)
Age(k) ==
  /\ Fault
  /\ cache[k].data # Nothing
  /\ cache' = [cache EXCEPT ![k].valid = FALSE]
  /\ UNCHANGED <<view, entries, shown, filter, number>>

----------------------------------------------------------------------------
Next ==
  \/ Append
  \/ Forward \/ Back \/ Retry
  \/ Show \/ Hide \/ Leave
  \/ \E fil \in Filters : Apply(fil)
  \/ \E k \in Keys : Answer(k) \/ Receive(k) \/ Lose(k) \/ Age(k)

Spec == Init /\ [][Next]_vars

----------------------------------------------------------------------------
(* Properties.                                                              *)

(* The empty state has no buttons to turn pages with: whatever was added    *)
(* meanwhile, filtered, lost, or left in the cache, nobody is at a page     *)
(* beyond the first that has no rows.                                       *)
NeverStranded ==
  Current.data # Nothing /\ number > 1 => RowsOf(Key, Current.data) > 0

(* When the last page is on display, according to its total, the oldest     *)
(* entry that passes the filters is on it, unless the total was counted     *)
(* before the rows were read.                                               *)
LastPageIsLast ==
  ShowsRows /\ ~CanNext /\ Current.data.counted >= Current.data.seen =>
    Skip(number) + RowsOf(Key, Current.data) = Matching(filter, Current.data.seen)
=============================================================================
