----------------------------- MODULE FilePages ------------------------------
(***************************************************************************)
(* The dashboard and the details page of a file (app/dashboard/page.tsx,   *)
(* app/files/[id]/page.tsx, hooks/useFiles.ts) over one query cache, with  *)
(* the routes they call (routes/files.ts).                                 *)
(*                                                                         *)
(* The user moves between the pages while deletions, revocations and       *)
(* fetches are on their way, and answers arrive in any order.  A component *)
(* that unmounts loses its state; a mutation's callbacks run all the same. *)
(* onMutate awaits only cancelQueries, which yields no more than a         *)
(* microtask, and is one action with the click.                            *)
(***************************************************************************)
EXTENDS Browser, FiniteSets

VARIABLES
  stored,  \* what the server knows of each file
  place,   \* the page on display: the dashboard, a file's details, another
  list,    \* the query ["files", "list"]
  details, \* the query ["files", "detail", f] of each file
  jobs,    \* the mutations, in the order in which they were started
  since,   \* the mutations that were started before that page mounted: 1..since
  modal,   \* the modal open on the details page
  alerts,  \* the dashboard's error messages
  told,    \* the files whose deletion a 2xx has confirmed to this tab
  faults

cache == <<list, details>>

screen == <<place, since, modal, alerts>>

vars == <<stored, cache, jobs, screen, told, faults>>

Kinds == {"delete", "revoke"}

(* "cleared" is a row whose shareToken was emptied optimistically.          *)
Row == {"linked", "cleared", "expired", "absent"}

Rows == [Files -> Row]

(* What is left of a mutation that is over is that there was one.           *)
Job ==
  [kind : Kinds, file : Files, from : {"dashboard", "details"},
   phase : {"sent", "done", "failed"}, before : Rows \cup {Nothing}]
  \cup [kind : Kinds, phase : {"over"}]

Started == 1..MaxJobs

TypeOK ==
  /\ stored \in [Files -> {"active", "revoked", "expired", "deleted"}]
  /\ place \in {"dashboard", "elsewhere"} \cup Opened
  /\ list \in Queries(Rows)
  /\ details \in [Opened -> Queries(Row)]
  /\ jobs \in [Started -> Job \cup {Nothing}]
  /\ since \in 0..MaxJobs
  /\ modal \in Kinds \cup {"none"}
  /\ alerts \subseteq Kinds
  /\ told \subseteq Files
  /\ faults \in 0..MaxFaults

Init ==
  /\ stored = [f \in Files |-> "active"]
  /\ place = "elsewhere"
  /\ list = NoQuery
  /\ details = [f \in Opened |-> NoQuery]
  /\ jobs = [j \in Started |-> Nothing]
  /\ since = 0
  /\ modal = "none"
  /\ alerts = {}
  /\ told = {}
  /\ faults = 0

Fault == faults < MaxFaults /\ faults' = faults + 1

----------------------------------------------------------------------------
(* The server.                                                              *)

(* listFilesForUser: a link keeps its token when it is revoked.             *)
Listed(f) ==
  CASE stored[f] = "deleted" -> "absent"
    [] stored[f] = "expired" -> "expired"
    [] OTHER -> "linked"

(* The expiry passes, or the expiry worker removes the file.                *)
Lapse(f) ==
  /\ Fault
  /\ stored[f] # "deleted"
  /\ \E s \in {"expired", "deleted"} \ {stored[f]} : stored' = [stored EXCEPT ![f] = s]
  /\ UNCHANGED <<cache, jobs, screen, told>>

(* GET /files                                                               *)
AnswerList ==
  /\ list.fetch = "sent"
  /\ list' = Read(list, [f \in Files |-> Listed(f)])
  /\ UNCHANGED <<stored, details, jobs, screen, told, faults>>

(* GET /files/:fileId, which looks the file up in the same list.            *)
AnswerDetails(f) ==
  /\ details[f].fetch = "sent"
  /\ details' = [details EXCEPT ![f] =
                   IF Listed(f) = "absent" THEN Fail(@) ELSE Read(@, Listed(f))]
  /\ UNCHANGED <<stored, list, jobs, screen, told, faults>>

Phase(j, phase) == jobs' = [jobs EXCEPT ![j].phase = phase]

Finish(j) == jobs' = [jobs EXCEPT ![j] = [kind |-> @.kind, phase |-> "over"]]

InPhase(j, phase) == jobs[j] # Nothing /\ jobs[j].phase = phase

(* DELETE /files/:fileId; a file that is gone already is no error.          *)
AnswerDelete(j) ==
  /\ InPhase(j, "sent")
  /\ jobs[j].kind = "delete"
  /\ stored' = [stored EXCEPT ![jobs[j].file] = "deleted"]
  /\ Phase(j, "done")
  /\ UNCHANGED <<cache, screen, told, faults>>

(* POST /files/:fileId/revoke; a file that is gone is a 404.                *)
AnswerRevoke(j) ==
  /\ InPhase(j, "sent")
  /\ jobs[j].kind = "revoke"
  /\ LET f == jobs[j].file
     IN  IF Listed(f) = "absent"
         THEN Phase(j, "failed") /\ UNCHANGED stored
         ELSE /\ Phase(j, "done")
              /\ stored' = IF stored[f] = "active"
                           THEN [stored EXCEPT ![f] = "revoked"] ELSE stored
  /\ UNCHANGED <<cache, screen, told, faults>>

(* A request fails before the server has acted on it, or its answer is lost *)
(* afterwards.                                                              *)
Lose ==
  /\ Fault
  /\ \/ list.fetch \in {"sent", "read"} /\ list' \in Losses(list) /\ UNCHANGED <<details, jobs>>
     \/ \E f \in Opened :
          /\ details[f].fetch \in {"sent", "read"}
          /\ \E q \in Losses(details[f]) : details' = [details EXCEPT ![f] = q]
          /\ UNCHANGED <<list, jobs>>
     \/ \E j \in Started :
          /\ InPhase(j, "sent") \/ InPhase(j, "done")
          /\ Phase(j, "failed")
          /\ UNCHANGED cache
  /\ UNCHANGED <<stored, screen, told>>

----------------------------------------------------------------------------
(* The pages, as far as the user can act on them.                           *)

(* A useMutation of the mounted page tracks the last mutation it started.   *)
Mine(kind) == {j \in Started : j > since /\ jobs[j] # Nothing /\ jobs[j].kind = kind}

Tracks(kind, j) == j \in Mine(kind) /\ \A i \in Mine(kind) : i <= j

Pending(kind) == \E j \in Started : Tracks(kind, j) /\ jobs[j].phase # "over"

PendingOn(kind, f) ==
  \E j \in Started : Tracks(kind, j) /\ jobs[j].phase # "over" /\ jobs[j].file = f

(* The rows the dashboard shows, while it loads none.  The search and the   *)
(* status filter hide some of them, by the user's own choice.               *)
Shown ==
  IF list.data = Nothing THEN {} ELSE {f \in Files : list.data[f] # "absent"}

(* The share URL of a row, and the button that revokes it.                  *)
ShowsLink(f) == f \in Shown /\ list.data[f] = "linked"

CanRevokeRow(f) == ShowsLink(f) /\ ~PendingOn("revoke", f)

CanDeleteRow(f) == f \in Shown /\ ~PendingOn("delete", f)

(* The details page shows a spinner, "File not found", or the file.         *)
ShowsFile(f) ==
  /\ place = f
  /\ ~IsLoading(details[f])
  /\ ~details[f].error
  /\ details[f].data # Nothing

(* The section with the share link, and the actions.                        *)
DetailsLink(f) == ShowsFile(f) /\ details[f].data = "linked"

ShowsActions(f) == ShowsFile(f) /\ details[f].data # "expired"

----------------------------------------------------------------------------
(* Moving about.                                                            *)

Arrive(page, lst, dts) ==
  /\ place' = page
  /\ since' = Cardinality({j \in Started : jobs[j] # Nothing})
  /\ modal' = "none"
  /\ alerts' = {}
  /\ list' = IF page = "dashboard" THEN Mount(lst) ELSE lst
  /\ details' = [f \in Opened |-> IF f = page THEN Mount(dts[f]) ELSE dts[f]]

(* By a link of the page or of the Navbar, or the browser's history.        *)
Visit(page) ==
  /\ page # place
  /\ Arrive(page, list, details)
  /\ UNCHANGED <<stored, jobs, told, faults>>

(* The rows or the file on display have been there for staleTime.           *)
Age ==
  /\ Fault
  /\ \/ list.data # Nothing /\ list' = [list EXCEPT !.valid = FALSE] /\ UNCHANGED details
     \/ \E f \in Opened :
          /\ details[f].data # Nothing
          /\ details' = [details EXCEPT ![f].valid = FALSE]
          /\ UNCHANGED list
  /\ UNCHANGED <<stored, jobs, screen, told>>

ReceiveList ==
  /\ list.fetch = "read"
  /\ list' = Take(list)
  /\ UNCHANGED <<stored, details, jobs, screen, told, faults>>

ReceiveDetails(f) ==
  /\ details[f].fetch = "read"
  /\ details' = [details EXCEPT ![f] = Take(@)]
  /\ UNCHANGED <<stored, list, jobs, screen, told, faults>>

----------------------------------------------------------------------------
(* Deletions and revocations.                                               *)

Start(kind, f, from, before) ==
  \E j \in Started :
    /\ \A i \in Started : jobs[i] = Nothing <=> i >= j
    /\ jobs' = [jobs EXCEPT ![j] = [kind |-> kind, file |-> f, from |-> from,
                                    phase |-> "sent", before |-> before]]

(* What onMutate writes into the list before anybody has answered.          *)
Optimistic(kind, f) ==
  IF kind = "delete" THEN [list.data EXCEPT ![f] = "absent"]
  ELSE [list.data EXCEPT ![f] = IF @ = "linked" THEN "cleared" ELSE @]

(* handleDelete and handleRevoke of the dashboard, confirmed, and onMutate. *)
MutateRow(kind, f) ==
  /\ place = "dashboard"
  /\ IF kind = "delete" THEN CanDeleteRow(f) ELSE CanRevokeRow(f)
  /\ Start(kind, f, "dashboard", list.data)
  /\ list' = SetData(Cancel(list), Optimistic(kind, f))
  /\ alerts' = alerts \ {kind}
  /\ UNCHANGED <<stored, details, place, since, modal, told, faults>>

(* The button of an error message.                                          *)
DismissAlert ==
  /\ \E kind \in alerts : alerts' = alerts \ {kind}
  /\ UNCHANGED <<stored, cache, jobs, place, since, modal, told, faults>>

OpenModal(f, kind) ==
  /\ ShowsActions(f)
  /\ modal = "none"
  /\ ~Pending(kind)
  /\ modal' = kind
  /\ UNCHANGED <<stored, cache, jobs, place, since, alerts, told, faults>>

CloseModal ==
  /\ modal # "none"
  /\ modal' = "none"
  /\ UNCHANGED <<stored, cache, jobs, place, since, alerts, told, faults>>

(* handleDelete and handleRevoke of the details page, up to their await.    *)
MutateFile(f) ==
  /\ ShowsFile(f)
  /\ modal # "none"
  /\ ~Pending(modal)
  /\ Start(modal, f, "details", Nothing)
  /\ UNCHANGED <<stored, cache, screen, told, faults>>

(* invalidateQueries(["files"]), of the list and of every file's details.   *)
Outdated(lst) == Invalidate(lst, place = "dashboard")

(* Mutant of OutdatedDetails: only the list is invalidated.                 *)
ListOnly == details

OutdatedDetails == [f \in Opened |-> Invalidate(details[f], place = f)]

Confirm(j) ==
  told' = IF jobs[j].kind = "delete" THEN told \cup {jobs[j].file} ELSE told

(* A mutation of the dashboard succeeds: onSettled.                         *)
RowSucceeds(j) ==
  /\ InPhase(j, "done") /\ jobs[j].from = "dashboard"
  /\ Finish(j)
  /\ list' = Outdated(list)
  /\ details' = OutdatedDetails
  /\ Confirm(j)
  /\ UNCHANGED <<stored, screen, faults>>

(* Mutant of RowFails: onSettled does nothing after an error.               *)
RowFailsQuietly(j) ==
  /\ InPhase(j, "failed") /\ jobs[j].from = "dashboard"
  /\ Finish(j)
  /\ list' = SetData(list, jobs[j].before)
  /\ alerts' = IF j > since THEN alerts \cup {jobs[j].kind} ELSE alerts
  /\ UNCHANGED <<stored, details, place, since, modal, told, faults>>

(* It fails: onError puts the list back as it was before this mutation, and *)
(* onSettled has it fetched.  Errors are set on a component that may be     *)
(* gone, which drops them.                                                  *)
RowFails(j) ==
  /\ InPhase(j, "failed") /\ jobs[j].from = "dashboard"
  /\ Finish(j)
  /\ list' = Outdated(SetData(list, jobs[j].before))
  /\ details' = OutdatedDetails
  /\ alerts' = IF j > since THEN alerts \cup {jobs[j].kind} ELSE alerts
  /\ UNCHANGED <<stored, place, since, modal, told, faults>>

(* mutateAsync of the details page returns: onSuccess, then the rest of the *)
(* handler.  A deletion goes to the dashboard from wherever the user is.    *)
FileSucceeds(j) ==
  /\ InPhase(j, "done") /\ jobs[j].from = "details"
  /\ Finish(j)
  /\ Confirm(j)
  /\ IF jobs[j].kind = "delete" /\ place # "dashboard"
     THEN Arrive("dashboard", Outdated(list), OutdatedDetails)
     ELSE /\ list' = Outdated(list)
          /\ details' = OutdatedDetails
          /\ modal' = IF j > since /\ modal = jobs[j].kind THEN "none" ELSE modal
          /\ UNCHANGED <<place, since, alerts>>
  /\ UNCHANGED <<stored, faults>>

(* It throws: its modal closes, and nothing else tells of the failure.      *)
FileFails(j) ==
  /\ InPhase(j, "failed") /\ jobs[j].from = "details"
  /\ Finish(j)
  /\ modal' = IF j > since /\ modal = jobs[j].kind THEN "none" ELSE modal
  /\ UNCHANGED <<stored, cache, place, since, alerts, told, faults>>

----------------------------------------------------------------------------
Settle(j) == RowSucceeds(j) \/ RowFails(j) \/ FileSucceeds(j) \/ FileFails(j)

Answered ==
  \/ AnswerList \/ ReceiveList
  \/ \E f \in Opened : AnswerDetails(f) \/ ReceiveDetails(f)
  \/ \E j \in Started : AnswerDelete(j) \/ AnswerRevoke(j) \/ Settle(j)

Next ==
  \/ Answered
  \/ Lose
  \/ Age
  \/ CloseModal \/ DismissAlert
  \/ \E page \in {"dashboard", "elsewhere"} \cup Opened : Visit(page)
  \/ \E f \in Files : Lapse(f) \/ \E kind \in Kinds : MutateRow(kind, f)
  \/ \E f \in Opened : MutateFile(f) \/ \E kind \in Kinds : OpenModal(f, kind)

Spec == Init /\ [][Next]_vars

----------------------------------------------------------------------------
(* Properties.                                                              *)

AllSettled == \A j \in Started : jobs[j] # Nothing => jobs[j].phase = "over"

(* Once every mutation has settled and the list is quiet, it shows every    *)
(* file the server still has, and none whose deletion was confirmed: no     *)
(* rollback to a snapshot that another mutation has overtaken, and no       *)
(* fetch that an optimistic update has overtaken, leaves its mark.          *)
SettledListIsTrue ==
  AllSettled /\ Quiet(list) =>
    \A f \in Files :
      /\ f \in told => f \notin Shown
      /\ f \notin Shown => stored[f] = "deleted"

(* The details page does not show a file whose deletion was confirmed as    *)
(* though it were there, wherever the deletion came from.                   *)
DeletedDetailsAreGone ==
  AllSettled => \A f \in told \cap Opened : ~Quiet(details[f])
=============================================================================
