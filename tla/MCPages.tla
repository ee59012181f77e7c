------------------------------ MODULE MCPages -------------------------------
(***************************************************************************)
(* A tab opened at one of the pages: open says at which.  The pages share  *)
(* the bounds of Browser; each keeps its own state, and the variables of   *)
(* the pages that are not open keep their initial values.                  *)
(***************************************************************************)
EXTENDS Browser, TLC

VARIABLES
  open, faults,
  stored, place, list, details, jobs, since, modal, alerts, told,
  form, option, uploading, result, error, mounted, attempt, reply, fresh, repeats,
  session, role, me, path, going, timedOut, remembered, submitting, logins, logout,
  hook, hung, loggedOut,
  view, entries, shown, filter, number, cache,
  status, tab, table, dialog, deletes, notices, promised,
  link, phase, retry, request, now, hits, began, granted

Pages == INSTANCE FilePages
Upload == INSTANCE UploadForm
Account == INSTANCE AuthPages
Paged == INSTANCE Tables
Panel == INSTANCE AdminFiles
Share == INSTANCE SharePage

(* Nothing is no mutation.                                                  *)
ASSUME PagesAssumption == Nothing \notin Pages!Job

pages == <<stored, place, list, details, jobs, since, modal, alerts, told>>
upload == <<form, option, uploading, result, error, mounted, attempt, reply, fresh,
            repeats>>
account == <<session, role, me, path, going, timedOut, remembered, submitting, logins,
             logout, hook, hung, loggedOut>>
paged == <<view, entries, shown, filter, number, cache>>
panel == <<status, tab, table, dialog, deletes, notices, promised>>
share == <<link, phase, retry, request, now, hits, began, granted>>

vars == <<open, faults, pages, upload, account, paged, panel, share>>

Init ==
  /\ open \in {"files", "upload", "account", "tables", "panel", "share"}
  /\ Pages!Init /\ Upload!Init /\ Panel!Init
  /\ Account!Init /\ Paged!Init /\ Share!Init
  /\ open # "account" => ~session /\ role = "user" /\ path = "home"
  /\ open # "tables" => view = "own" /\ entries = 0
  /\ open # "panel" => \A f \in Files : status[f] = "active"
  /\ open # "share" => link = "open"

AtFiles(step) ==
  open = "files" /\ step /\ UNCHANGED <<open, upload, account, paged, panel, share>>

AtUpload(step) ==
  open = "upload" /\ step /\ UNCHANGED <<open, pages, account, paged, panel, share>>

AtAccount(step) ==
  open = "account" /\ step /\ UNCHANGED <<open, pages, upload, paged, panel, share>>

AtTables(step) ==
  open = "tables" /\ step /\ UNCHANGED <<open, pages, upload, account, panel, share>>

AtPanel(step) ==
  open = "panel" /\ step /\ UNCHANGED <<open, pages, upload, account, paged, share>>

AtShare(step) ==
  open = "share" /\ step /\ UNCHANGED <<open, pages, upload, account, paged, panel>>

Next ==
  \/ AtFiles(Pages!Next)
  \/ AtUpload(Upload!Next)
  \/ AtAccount(Account!Next)
  \/ AtTables(Paged!Next)
  \/ AtPanel(Panel!Next)
  \/ AtShare(Share!Next)

Spec == Init /\ [][Next]_vars

(* Of the account's pages, which have the liveness properties.              *)
FairSpec ==
  /\ Spec
  /\ WF_account(AtAccount(Account!AnswerMe)) /\ WF_account(AtAccount(Account!ReceiveMe))
  /\ WF_account(AtAccount(Account!Navigate)) /\ WF_account(AtAccount(Account!TimerFires))
  /\ \A i \in Account!Submissions : WF_account(AtAccount(Account!Succeed(i)))

----------------------------------------------------------------------------
(* The properties of the pages, stated and explained in their modules.      *)

(* Every page's variables have the values its code can give them.           *)
TypeOK ==
  /\ Pages!TypeOK /\ Upload!TypeOK /\ Account!TypeOK
  /\ Paged!TypeOK /\ Panel!TypeOK /\ Share!TypeOK

(* The dashboard shows what there is, and nothing that was deleted.         *)
SettledListIsTrue == Pages!SettledListIsTrue

(* The details of a deleted file are not shown as though it were there.     *)
DeletedDetailsAreGone == Pages!DeletedDetailsAreGone

(* The expiry preset on display is the one the upload form sends.           *)
PresetIsSent == Upload!PresetIsSent

(* The once toggle of the upload form means maxDownloads 1.                 *)
OnceMeansOne == Upload!OnceMeansOne

(* The upload page sends a file twice only after an error.                  *)
RepeatsFollowAnError == Upload!RepeatsFollowAnError

(* No late answer replaces the share link the upload page shows.            *)
LinkStays == Upload!LinkStays

(* After a logout no late answer of GET /auth/me brings the user back.      *)
LogoutSticks == Account!LogoutSticks

(* No guard leaves a known user at the login or the register form.          *)
NoFormForUser == Account!NoFormForUser

(* ProtectedRoute decides within its 10 s, even without an answer.          *)
GuardDecides == Account!GuardDecides

(* A tab that has had an answer about its user comes to know who logs in.   *)
KnownTabLogsIn == Account!KnownTabLogsIn

(* Nobody is left at a page of a table that has no rows and no way back.    *)
NeverStranded == Paged!NeverStranded

(* The last page of a table ends with its oldest entry.                     *)
LastPageIsLast == Paged!LastPageIsLast

(* The admin's table shows a file deleted there as deleted.                 *)
DeletedShowsDeleted == Panel!DeletedShowsDeleted

(* A rate limiter's windows, laid side by side, let 2 * max - 1 pass.       *)
BurstBound == Share!BurstBound
=============================================================================
