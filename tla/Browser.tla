------------------------------ MODULE Browser -------------------------------
(***************************************************************************)
(* What the modules of the pages share: the bounds they are explored with, *)
(* and the query cache of the react-query client which app/providers.tsx   *)
(* builds, as the pages use it.  The library itself is not in the          *)
(* repository; package-lock.json pins it.                                  *)
(***************************************************************************)
EXTENDS Naturals

CONSTANTS
  Files,       \* the files of the user whose browser this is
  Opened,      \* those whose details the user looks at
  Nothing,     \* no data yet, no answer, no file chosen
  MaxFaults,   \* bound on lost messages and server errors
  MaxJobs,     \* bound on the deletions and revocations of a visit
  MaxUploads,  \* bound on the upload attempts of a visit
  MaxLogins,   \* bound on the times the user logs in
  PageSize,    \* the limit of a page of a table
  MaxEntries,  \* bound on the rows of a table
  MaxRequests, \* a rate limiter's max
  Window,      \* a rate limiter's windowMs, in ticks
  Horizon      \* bound on the ticks of the clock

(* Nothing is none of the values it stands beside.                          *)
ASSUME BrowserAssumption ==
  /\ Nothing \notin {"user", "admin", "nobody", "home", "settings", "dashboard", "login", "register"}
  /\ Nothing \notin Files \cup [Files -> STRING]
  /\ Opened \subseteq Files
  /\ {MaxFaults, MaxJobs, MaxUploads, MaxLogins, MaxEntries, Horizon} \subseteq Nat
  /\ {PageSize, MaxRequests, Window} \subseteq Nat \ {0}

(* A query of the cache.  valid: neither invalidated nor older than its     *)
(* staleTime.  again: the fetch under way is the retry (retry: 1).  late    *)
(* tells of the fetch under way, dated of the fetch that gave the data,     *)
(* that an invalidation came meanwhile and did not start it anew.           *)
Fetches == {"idle", "sent", "read", "stuck"}

Queries(Data) ==
  [data : Data \cup {Nothing}, valid : BOOLEAN, error : BOOLEAN,
   fetch : Fetches, answer : Data \cup {Nothing}, again : BOOLEAN,
   late : BOOLEAN, dated : BOOLEAN]

NoQuery ==
  [data |-> Nothing, valid |-> FALSE, error |-> FALSE, fetch |-> "idle",
   answer |-> Nothing, again |-> FALSE, late |-> FALSE, dated |-> FALSE]

IsLoading(q) == q.data = Nothing /\ q.fetch # "idle"

(* A fetch starts.  The error of an earlier one stays while there is data.  *)
Fetch(q) ==
  [q EXCEPT !.fetch = "sent", !.answer = Nothing, !.again = FALSE,
            !.late = FALSE, !.error = @ /\ q.data # Nothing]

(* A component that observes the query mounts.                              *)
Mount(q) ==
  IF q.fetch = "idle" /\ (q.data = Nothing \/ ~q.valid) THEN Fetch(q) ELSE q

(* cancelQueries: the query is again as it was before the fetch, whose      *)
(* answer nobody will read.                                                 *)
Cancel(q) ==
  [q EXCEPT !.fetch = "idle", !.answer = Nothing, !.again = FALSE, !.late = FALSE]

(* setQueryData: what is written counts as fresh.                           *)
SetData(q, data) == [q EXCEPT !.data = data, !.valid = TRUE, !.error = FALSE]

(* invalidateQueries: an observed query is fetched anew, unless its first   *)
(* fetch is under way; any other is only marked.                            *)
Invalidate(q, observed) ==
  IF observed /\ (q.data # Nothing \/ q.fetch = "idle")
  THEN Fetch([q EXCEPT !.valid = FALSE])
  ELSE [q EXCEPT !.valid = FALSE, !.late = q.fetch # "idle"]

(* The server answers; the answer reaches the cache.                        *)
Read(q, answer) == [q EXCEPT !.fetch = "read", !.answer = answer]

Take(q) == [NoQuery EXCEPT !.data = q.answer, !.valid = TRUE, !.dated = q.late]

(* The API client never settles the request (module ApiClient): its 401 led *)
(* to a refresh that was refused as well.                                   *)
Stick(q) == [q EXCEPT !.fetch = "stuck"]

(* The fetch fails: it is tried a second time, and then given up.           *)
Fail(q) ==
  IF q.again THEN [Cancel(q) EXCEPT !.error = TRUE, !.valid = FALSE]
  ELSE [q EXCEPT !.fetch = "sent", !.answer = Nothing, !.again = TRUE]

(* A message of the fetch is lost, and maybe one of its retry too.          *)
Losses(q) == IF q.again THEN {Fail(q)} ELSE {Fail(q), Fail(Fail(q))}

(* What the cache holds is shown as it stands: nothing is under way, and    *)
(* nothing has marked it since it was fetched.                              *)
Quiet(q) == q.data # Nothing /\ q.fetch = "idle" /\ q.valid /\ ~q.error /\ ~q.dated
=============================================================================
