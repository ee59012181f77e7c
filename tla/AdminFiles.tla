----------------------------- MODULE AdminFiles -----------------------------
(***************************************************************************)
(* The file management tab of the admin panel (app/admin/page.tsx) over a  *)
(* page of its table, and the routes behind it (routes/admin.ts).  The     *)
(* dialog stays open, and live, while a deletion is on its way; the tab    *)
(* may be left meanwhile.                                                  *)
(***************************************************************************)
EXTENDS Browser

VARIABLES
  status,   \* of each file, as GET /admin/files gives it
  tab,      \* the tab is on display
  table,    \* the query ["admin", "files", page, limit]
  dialog,   \* deleteFileId, or Nothing
  deletes,  \* the mutations, in the order in which they were started
  notices,  \* the messages on display
  promised, \* the files whose deletion a 2xx has confirmed
  faults

vars == <<status, tab, table, dialog, deletes, notices, promised, faults>>

Statuses == {"active", "expired", "revoked", "deleted"}

Started == 1..MaxJobs

TypeOK ==
  /\ status \in [Files -> Statuses]
  /\ tab \in BOOLEAN
  /\ table \in Queries([Files -> Statuses])
  /\ dialog \in Files \cup {Nothing}
  /\ deletes \in [Started -> [file : Files, phase : {"sent", "done", "failed", "over"}]
                               \cup {Nothing}]
  /\ notices \subseteq {"success", "error"}
  /\ promised \subseteq Files
  /\ faults \in 0..MaxFaults

Init ==
  /\ status \in [Files -> {"active", "revoked"}]
  /\ tab = FALSE
  /\ table = NoQuery
  /\ dialog = Nothing
  /\ deletes = [j \in Started |-> Nothing]
  /\ notices = {}
  /\ promised = {}
  /\ faults = 0

Fault == faults < MaxFaults /\ faults' = faults + 1

----------------------------------------------------------------------------
(* The server.                                                              *)

(* The expiry passes; the owner or the expiry worker deletes the file.      *)
Lapse(f) ==
  /\ Fault
  /\ status[f] # "deleted"
  /\ \E s \in {"expired", "deleted"} \ {status[f]} : status' = [status EXCEPT ![f] = s]
  /\ UNCHANGED <<tab, table, dialog, deletes, notices, promised>>

(* GET /admin/files: deleted files stay in the table.                       *)
AnswerTable ==
  /\ table.fetch = "sent"
  /\ table' = Read(table, status)
  /\ UNCHANGED <<status, tab, dialog, deletes, notices, promised, faults>>

InPhase(j, phase) == deletes[j] # Nothing /\ deletes[j].phase = phase

Turn(j, phase) == deletes' = [deletes EXCEPT ![j].phase = phase]

(* DELETE /admin/files/:fileId; deleting a file twice is no error.          *)
AnswerDelete(j) ==
  /\ InPhase(j, "sent")
  /\ status' = [status EXCEPT ![deletes[j].file] = "deleted"]
  /\ Turn(j, "done")
  /\ UNCHANGED <<tab, table, dialog, notices, promised, faults>>

(* A request or its answer is lost.                                         *)
Lose ==
  /\ Fault
  /\ \/ table.fetch \in {"sent", "read"} /\ table' \in Losses(table) /\ UNCHANGED deletes
     \/ \E j \in Started :
          /\ InPhase(j, "sent") \/ InPhase(j, "done")
          /\ Turn(j, "failed")
          /\ UNCHANGED table
  /\ UNCHANGED <<status, tab, dialog, notices, promised>>

----------------------------------------------------------------------------
(* The tab.                                                                 *)

(* Spinner, error, empty state, or the table with its buttons.              *)
ShowsTable == tab /\ ~IsLoading(table) /\ ~table.error /\ table.data # Nothing

OpenTab ==
  /\ ~tab
  /\ tab' = TRUE
  /\ table' = Mount(table)
  /\ UNCHANGED <<status, dialog, deletes, notices, promised, faults>>

(* The dialog lies over the tabs and the Navbar.                            *)
CloseTab ==
  /\ tab
  /\ dialog = Nothing
  /\ tab' = FALSE
  /\ UNCHANGED <<status, table, dialog, deletes, notices, promised, faults>>

ReceiveTable ==
  /\ table.fetch = "read"
  /\ table' = Take(table)
  /\ UNCHANGED <<status, tab, dialog, deletes, notices, promised, faults>>

(* The delete button of a row, whatever the file's status.                  *)
Ask(f) ==
  /\ ShowsTable
  /\ dialog = Nothing
  /\ dialog' = f
  /\ UNCHANGED <<status, tab, table, deletes, notices, promised, faults>>

CancelDialog ==
  /\ dialog # Nothing
  /\ dialog' = Nothing
  /\ UNCHANGED <<status, tab, table, deletes, notices, promised, faults>>

(* onConfirm: the dialog stays as it is, also while it waits for an answer. *)
Confirm ==
  /\ dialog # Nothing
  /\ \E j \in Started :
       /\ \A i \in Started : deletes[i] = Nothing <=> i >= j
       /\ deletes' = [deletes EXCEPT ![j] = [file |-> dialog, phase |-> "sent"]]
  /\ UNCHANGED <<status, tab, table, dialog, notices, promised, faults>>

(* Mutant of Outdated: nothing is invalidated.                              *)
Untouched == table

(* Both invalidations; a query that is not enabled is only marked.          *)
Outdated == Invalidate(Invalidate(table, tab), tab)

(* onSuccess closes whatever dialog is open.                                *)
Succeed(j) ==
  /\ InPhase(j, "done")
  /\ Turn(j, "over")
  /\ promised' = promised \cup {deletes[j].file}
  /\ dialog' = Nothing
  /\ notices' = {"success"}
  /\ table' = Outdated
  /\ UNCHANGED <<status, tab, faults>>

(* onError leaves the table alone.                                          *)
ReportFailure(j) ==
  /\ InPhase(j, "failed")
  /\ Turn(j, "over")
  /\ dialog' = Nothing
  /\ notices' = notices \cup {"error"}
  /\ UNCHANGED <<status, tab, table, promised, faults>>

(* By its button, and the success by its timer of 5 s too.                  *)
DismissNotice ==
  /\ \E notice \in notices : notices' = notices \ {notice}
  /\ UNCHANGED <<status, tab, table, dialog, deletes, promised, faults>>

----------------------------------------------------------------------------
Next ==
  \/ AnswerTable \/ ReceiveTable \/ Lose
  \/ OpenTab \/ CloseTab \/ CancelDialog \/ Confirm \/ DismissNotice
  \/ \E f \in Files : Lapse(f) \/ Ask(f)
  \/ \E j \in Started : AnswerDelete(j) \/ Succeed(j) \/ ReportFailure(j)

Spec == Init /\ [][Next]_vars

----------------------------------------------------------------------------
(* Properties.                                                              *)

(* Once the deletions are over and the table is quiet, it shows as deleted  *)
(* every file whose deletion was confirmed, whichever tab was open when the *)
(* answer came, and whatever fetch was on its way.                          *)
DeletedShowsDeleted ==
  Quiet(table) /\ (\A j \in Started : deletes[j] # Nothing => deletes[j].phase = "over") =>
    \A f \in promised : table.data[f] = "deleted"
=============================================================================
