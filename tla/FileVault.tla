----------------------------- MODULE FileVault -----------------------------
(***************************************************************************)
(* The life of shared files in the backend: FileService (upload, download, *)
(* delete, revoke, burn, secure delete), the audit trail it writes and the *)
(* expiry worker, a second process on the same database and upload volume. *)
(*                                                                         *)
(* The database (Postgres through Prisma) and the disk are shared.  Every  *)
(* await that touches them ends a step, so requests and worker runs        *)
(* interleave there; a $transaction is one step.  A request is made once;  *)
(* a worker is one run of the cron job at a time, and two workers are two  *)
(* overlapping runs.  Faults (a failed query or transaction, a failed disk *)
(* operation, an audit write that AuditService swallows, a crash of either *)
(* process) may strike anywhere, at most MaxFaults times.                  *)
(***************************************************************************)
EXTENDS Integers, FiniteSets

CONSTANTS
  Files,        \* file ids, each uploaded at most once
  Downloads,    \* requests GET /api/share/:token
  Deletes,      \* requests DELETE /api/files/:id and /api/admin/files/:id
  Revokes,      \* requests POST /api/files/:id/revoke
  Workers,      \* concurrent runs of the expiry job
  Options,      \* what an uploader may ask for: [max, once, burn, password]
  NotGiven,     \* an upload without maxDownloads
  NoFile,       \* not a file
  Batch,        \* `take` of the expiry query (100 in the code)
  MaxFaults     \* bound on faults

Option == [max : Int \cup {NotGiven}, once : BOOLEAN, burn : BOOLEAN, password : BOOLEAN]

ASSUME VaultAssumption ==
  /\ NoFile \notin Files
  /\ NotGiven \notin Int
  /\ IsFiniteSet(Downloads)
  /\ Options \subseteq Option
  /\ Batch \in Nat \ {0}
  /\ MaxFaults \in Nat
  /\ Downloads \cap (Deletes \cup Revokes \cup Workers) = {}
  /\ Deletes \cap (Revokes \cup Workers) = {}
  /\ Revokes \cap Workers = {}

Requests == Downloads \cup Deletes \cup Revokes

Procs == Requests \cup Workers

Role == {"owner", "admin", "stranger"}

Events == {"UPLOAD", "DOWNLOAD", "BURN", "DELETE", "EXPIRE", "LINK_REVOKED", "FAIL_ATTEMPT"}

Steps == {"idle", "file", "keys", "check", "read", "count", "log", "lookup", "stat", "wipe",
          "unlink", "commit", "respond", "revoke", "logRevoke", "loop", "expire", "done"}

Outcomes == {"none", "ok", "TOKEN_NOT_FOUND", "FILE_BURNED", "TOKEN_REVOKED", "LINK_EXPIRED",
             "DOWNLOAD_LIMIT_REACHED", "INVALID_SHARE_PASSWORD", "FILE_NOT_FOUND", "FORBIDDEN",
             "INTEGRITY_CHECK_FAILED", "INTERNAL_ERROR", "CRASHED"}

(* The row of a share link and of its file as one download has read them.   *)
Snapshot == [revoked : BOOLEAN, count : Nat, deleted : BOOLEAN, key : BOOLEAN]

NoSnapshot == [revoked |-> FALSE, count |-> 0, deleted |-> FALSE, key |-> FALSE]

VARIABLES
  \* the database
  row,       \* files: "none", "live" or "deleted" (isDeleted)
  opts,      \* files and share_links: what the uploader asked for
  key,       \* encrypted_keys: is there a wrapped key for the file?
  revoked,   \* share_links: revokedAt is set
  count,     \* share_links: downloadCount
  log,       \* audit_logs: how many events of each type name the file
  \* the disk and the clock
  blob,      \* the file's path: "absent", "cipher" (the ciphertext) or "wiped"
  expired,   \* the files whose expiresAt has passed
  \* the processes
  upload,    \* upload of each file: "new", "written", "done" or "failed"
  pc,        \* where each request and worker run stands
  on,        \* the file it works on
  snap,      \* what a download has read
  outcome,   \* the answer to a request
  batch,     \* the expired files a worker run has still to burn
  \* history, read by the properties only
  granted,   \* downloads that arrived while their link was open
  spoiled,   \* files whose destruction has failed or been cut short
  leaked,    \* files on which a secureDelete failed and was swallowed
  faults     \* how many faults have struck

database == <<row, opts, key, revoked, count>>

processes == <<upload, pc, on, snap, outcome, batch>>

history == <<granted, spoiled, leaked>>

vars == <<database, log, blob, expired, processes, history, faults>>

TypeOK ==
  /\ row \in [Files -> {"none", "live", "deleted"}]
  /\ opts \in [Files -> Option]
  /\ key \in [Files -> BOOLEAN]
  /\ revoked \in [Files -> BOOLEAN]
  /\ count \in [Files -> Nat]
  /\ log \in [Files -> [Events -> Nat]]
  /\ blob \in [Files -> {"absent", "cipher", "wiped"}]
  /\ expired \subseteq Files
  /\ upload \in [Files -> {"new", "written", "done", "failed"}]
  /\ pc \in [Procs -> Steps]
  /\ on \in [Procs -> Files \cup {NoFile}]
  /\ snap \in [Downloads -> Snapshot]
  /\ outcome \in [Requests -> Outcomes]
  /\ batch \in [Workers -> SUBSET Files]
  /\ granted \subseteq Downloads
  /\ spoiled \subseteq Files
  /\ leaked \subseteq Files
  /\ faults \in 0..MaxFaults

Init ==
  /\ row = [f \in Files |-> "none"]
  /\ opts \in [Files -> Options]
  /\ key = [f \in Files |-> FALSE]
  /\ revoked = [f \in Files |-> FALSE]
  /\ count = [f \in Files |-> 0]
  /\ log = [f \in Files |-> [e \in Events |-> 0]]
  /\ blob = [f \in Files |-> "absent"]
  /\ expired = {}
  /\ upload = [f \in Files |-> "new"]
  /\ pc = [p \in Procs |-> "idle"]
  /\ on = [p \in Procs |-> NoFile]
  /\ snap = [d \in Downloads |-> NoSnapshot]
  /\ outcome = [r \in Requests |-> "none"]
  /\ batch = [w \in Workers |-> {}]
  /\ granted = {}
  /\ spoiled = {}
  /\ leaked = {}
  /\ faults = 0

----------------------------------------------------------------------------
(* Control: a step of a process, its end, a fault, an audit write.          *)

Fault == faults < MaxFaults /\ faults' = faults + 1

NoFault == UNCHANGED faults

Goto(p, step) == pc' = [pc EXCEPT ![p] = step]

Move(p, from, to) == pc[p] = from /\ Goto(p, to)

(* A request is answered and its local variables are gone.                  *)
Finish(r, answer) ==
  /\ Goto(r, "done")
  /\ outcome' = [outcome EXCEPT ![r] = answer]
  /\ snap' = IF r \in Downloads THEN [snap EXCEPT ![r] = NoSnapshot] ELSE snap

Logged(f, event) == log' = [log EXCEPT ![f][event] = @ + 1]

(* AuditService.recordEvent: a failed insert is swallowed.                  *)
RecordEvent(f, event) ==
  \/ Logged(f, event) /\ NoFault
  \/ UNCHANGED log /\ Fault

----------------------------------------------------------------------------
(* uploadFile: the ciphertext goes to disk first, then one transaction      *)
(* inserts the file, its key, its link and the audit event.                 *)

WriteCiphertext(f) ==
  /\ upload[f] = "new"
  /\ upload' = [upload EXCEPT ![f] = "written"]
  /\ blob' = [blob EXCEPT ![f] = "cipher"]
  /\ UNCHANGED <<database, log, expired, pc, on, snap, outcome, batch, history, faults>>

(* Mutant: writeFile is not awaited.                                        *)
InsertRecordsEarly(f) ==
  /\ upload[f] \in {"new", "written"}
  /\ upload' = [upload EXCEPT ![f] = "done"]
  /\ row' = [row EXCEPT ![f] = "live"]
  /\ key' = [key EXCEPT ![f] = TRUE]
  /\ Logged(f, "UPLOAD")
  /\ UNCHANGED <<opts, revoked, count, blob, expired, pc, on, snap, outcome, batch, history, faults>>

InsertRecords(f) ==
  /\ upload[f] = "written"
  /\ upload' = [upload EXCEPT ![f] = "done"]
  /\ row' = [row EXCEPT ![f] = "live"]
  /\ key' = [key EXCEPT ![f] = TRUE]
  /\ Logged(f, "UPLOAD")
  /\ UNCHANGED <<opts, revoked, count, blob, expired, pc, on, snap, outcome, batch, history, faults>>

(* Nothing removes what a failed upload has written.                        *)
UploadFails(f) ==
  /\ upload[f] \in {"new", "written"}
  /\ Fault
  /\ upload' = [upload EXCEPT ![f] = "failed"]
  /\ blob' \in {blob, IF upload[f] = "new" THEN [blob EXCEPT ![f] = "wiped"] ELSE blob}
  /\ UNCHANGED <<database, log, expired, pc, on, snap, outcome, batch, history>>

(* The link's and the file's expiresAt are one value: both pass at once.    *)
Lapse(f) ==
  /\ row[f] # "none"
  /\ f \notin expired
  /\ expired' = expired \cup {f}
  /\ UNCHANGED <<database, log, blob, processes, history, faults>>
----------------------------------------------------------------------------
(* downloadFile.                                                            *)

(* maxDownloads ?? (downloadOnce ? 1 : -1); -1 is no limit.                 *)
MaxDownloads(f) ==
  IF opts[f].max # NotGiven THEN opts[f].max ELSE IF opts[f].once THEN 1 ELSE -1

(* Mutant: > instead of >=.                                                 *)
LimitPassed(f, n) == MaxDownloads(f) # -1 /\ n > MaxDownloads(f)

LimitReached(f, n) == MaxDownloads(f) # -1 /\ n >= MaxDownloads(f)

OneTime(f) == opts[f].once \/ opts[f].burn

(* What a request that arrives now may hope for; history only.              *)
Available(f) ==
  row[f] = "live" /\ ~revoked[f] /\ f \notin expired /\ ~LimitReached(f, count[f])

(* Mutant: revokedAt is not looked at.                                      *)
VerdictRevokedPasses(d, passwordOk) ==
  IF snap[d].deleted THEN "FILE_BURNED"
  ELSE IF on[d] \in expired THEN "LINK_EXPIRED"
  ELSE IF LimitReached(on[d], snap[d].count) THEN "DOWNLOAD_LIMIT_REACHED"
  ELSE IF opts[on[d]].password /\ ~passwordOk THEN "INVALID_SHARE_PASSWORD"
  ELSE "none"

(* The early returns of downloadFile in their order, on what d has read.    *)
Verdict(d, passwordOk) ==
  IF snap[d].deleted THEN "FILE_BURNED"
  ELSE IF snap[d].revoked THEN "TOKEN_REVOKED"
  ELSE IF on[d] \in expired THEN "LINK_EXPIRED"
  ELSE IF LimitReached(on[d], snap[d].count) THEN "DOWNLOAD_LIMIT_REACHED"
  ELSE IF opts[on[d]].password /\ ~passwordOk THEN "INVALID_SHARE_PASSWORD"
  ELSE "none"

UnknownToken(d) ==
  /\ pc[d] = "idle"
  /\ Finish(d, "TOKEN_NOT_FOUND")
  /\ UNCHANGED <<database, log, blob, expired, upload, on, batch, history, faults>>

(* findUnique with include is one query per table: the link, then its file, *)
(* then the file's keys.                                                    *)
ReadLink(d, f) ==
  /\ Move(d, "idle", "file")
  /\ row[f] # "none"
  /\ on' = [on EXCEPT ![d] = f]
  /\ snap' = [snap EXCEPT ![d].revoked = revoked[f], ![d].count = count[f]]
  /\ granted' = IF Available(f) THEN granted \cup {d} ELSE granted
  /\ UNCHANGED <<database, log, blob, expired, upload, outcome, batch, spoiled, leaked, faults>>

ReadFile(d) ==
  /\ Move(d, "file", "keys")
  /\ snap' = [snap EXCEPT ![d].deleted = row[on[d]] = "deleted"]
  /\ UNCHANGED <<database, log, blob, expired, upload, on, outcome, batch, history, faults>>

ReadKeys(d) ==
  /\ Move(d, "keys", "check")
  /\ snap' = [snap EXCEPT ![d].key = key[on[d]]]
  /\ UNCHANGED <<database, log, blob, expired, upload, on, outcome, batch, history, faults>>

Admit(d) ==
  /\ Move(d, "check", "read")
  /\ \E passwordOk \in BOOLEAN : Verdict(d, passwordOk) = "none"
  /\ UNCHANGED <<database, log, blob, expired, upload, on, snap, outcome, batch, history, faults>>

Refuse(d) ==
  /\ pc[d] = "check"
  /\ \E passwordOk \in BOOLEAN :
       /\ Verdict(d, passwordOk) # "none"
       /\ Finish(d, Verdict(d, passwordOk))
  /\ RecordEvent(on[d], "FAIL_ATTEMPT")
  /\ UNCHANGED <<database, blob, expired, upload, on, batch, history>>

(* AES-GCM rejects anything but the ciphertext that was written.            *)
Decrypts(d) == blob[on[d]] = "cipher" /\ snap[d].key

(* readFile, the wrapped key, decryptFile: only readFile touches shared     *)
(* state, the rest works on what has been read.                             *)
ReadCiphertext(d) ==
  /\ Move(d, "read", "count")
  /\ Decrypts(d)
  /\ UNCHANGED <<database, log, blob, expired, upload, on, snap, outcome, batch, history, faults>>

CannotDecrypt(d) ==
  /\ pc[d] = "read"
  /\ ~Decrypts(d)
  /\ Finish(d, IF blob[on[d]] = "absent" THEN "INTERNAL_ERROR"
               ELSE IF snap[d].key THEN "INTEGRITY_CHECK_FAILED" ELSE "FILE_NOT_FOUND")
  /\ UNCHANGED <<database, log, blob, expired, upload, on, batch, history, faults>>

(* Mutants: the count that was read is written back; it counts down.        *)
CountFromSnapshot(d) == snap[d].count + 1

CountDown(d) == count[on[d]] - 1

(* downloadCount: { increment: 1 } adds to the row, not to what was read.   *)
CountAfter(d) == count[on[d]] + 1

CountDownload(d) ==
  /\ Move(d, "count", "log")
  /\ count' = [count EXCEPT ![on[d]] = CountAfter(d)]
  /\ UNCHANGED <<row, opts, key, revoked, log, blob, expired, upload, on, snap, outcome, batch,
                 history, faults>>

(* Mutant: downloadOnce does not burn.                                      *)
AfterLogBurnOnly(d) == IF opts[on[d]].burn THEN "lookup" ELSE "respond"

(* A one-time file is burned before the plaintext is returned.              *)
AfterLog(d) == IF OneTime(on[d]) THEN "lookup" ELSE "respond"

LogDownload(d) ==
  /\ Move(d, "log", AfterLog(d))
  /\ RecordEvent(on[d], "DOWNLOAD")
  /\ UNCHANGED <<database, blob, expired, upload, on, snap, outcome, batch, history>>

Respond(r) ==
  /\ pc[r] = "respond"
  /\ Finish(r, "ok")
  /\ UNCHANGED <<database, log, blob, expired, upload, on, batch, history, faults>>

(* A query of downloadFile itself, or its readFile, is rejected.  Those of  *)
(* the burn it may go on to fail in LookupFails and CommitFails, an audit   *)
(* write in RecordEvent.  A request whose very first query is rejected is   *)
(* answered 500 having touched nothing, as if it had not been made.         *)
DownloadFails(d) ==
  /\ pc[d] \in {"file", "keys", "read", "count"}
  /\ Fault
  /\ Finish(d, "INTERNAL_ERROR")
  /\ UNCHANGED <<database, log, blob, expired, upload, on, batch, history>>

----------------------------------------------------------------------------
(* burnFile (a one-time download, the expiry worker) and deleteFile share   *)
(* secureDelete and the transaction that follows it.                        *)

(* Where a burn returns to.                                                 *)
AfterBurn(p) == IF p \in Workers THEN "expire" ELSE "respond"

(* Mutants: EXPIRE in a finally block; an error that reaches no handler.    *)
BurnThrowsFinally(p) ==
  IF p \in Workers THEN Goto(p, "expire") /\ UNCHANGED <<outcome, snap>> ELSE Finish(p, "INTERNAL_ERROR")

BurnThrowsUnhandled(p) == Goto(p, "loop") /\ UNCHANGED <<outcome, snap>>

(* A burn that throws: a request is answered 500, a worker run goes on with *)
(* its next file.                                                           *)
BurnThrows(p) ==
  IF p \in Workers THEN Goto(p, "loop") /\ UNCHANGED <<outcome, snap>> ELSE Finish(p, "INTERNAL_ERROR")

(* Mutant: a burn does not look at isDeleted.                               *)
BurnLookupBlind(p) ==
  /\ Move(p, "lookup", "stat")
  /\ UNCHANGED <<database, log, blob, expired, upload, on, snap, outcome, batch, history, faults>>

BurnLookup(p) ==
  /\ Move(p, "lookup", IF row[on[p]] = "live" THEN "stat" ELSE AfterBurn(p))
  /\ UNCHANGED <<database, log, blob, expired, upload, on, snap, outcome, batch, history, faults>>

(* The findUnique of a burn is rejected.                                    *)
LookupFails(p) ==
  /\ pc[p] = "lookup"
  /\ Fault
  /\ BurnThrows(p)
  /\ UNCHANGED <<database, log, blob, expired, upload, on, batch, history>>

(* deleteFile: who may delete, and the early return for a deleted file.     *)
RequestDelete(x, f, who) ==
  /\ pc[x] = "idle"
  /\ on' = [on EXCEPT ![x] = f]
  /\ \/ row[f] = "none" /\ Finish(x, "FILE_NOT_FOUND")
     \/ row[f] # "none" /\ who = "stranger" /\ Finish(x, "FORBIDDEN")
     \/ row[f] = "deleted" /\ who # "stranger" /\ Finish(x, "ok")
     \/ row[f] = "live" /\ who # "stranger" /\ Goto(x, "stat") /\ UNCHANGED <<snap, outcome>>
  /\ UNCHANGED <<database, log, blob, expired, upload, batch, history, faults>>

(* Mutants: secureDelete is not awaited; its ENOENT is not caught.          *)
StatNotAwaited(p) ==
  /\ Move(p, "stat", "commit")
  /\ UNCHANGED <<database, log, blob, expired, upload, on, snap, outcome, batch, history, faults>>

StatThrows(p) ==
  /\ pc[p] = "stat"
  /\ IF blob[on[p]] = "absent" THEN BurnThrows(p) ELSE Goto(p, "wipe") /\ UNCHANGED <<snap, outcome>>
  /\ UNCHANGED <<database, log, blob, expired, upload, on, batch, history, faults>>

(* secureDelete: stat, open(path, 'w') which truncates or creates, two      *)
(* overwrites through the handle, unlink.                                   *)
Stat(p) ==
  /\ Move(p, "stat", IF blob[on[p]] = "absent" THEN "commit" ELSE "wipe")
  /\ UNCHANGED <<database, log, blob, expired, upload, on, snap, outcome, batch, history, faults>>

Wipe(p) ==
  /\ Move(p, "wipe", "unlink")
  /\ blob' = [blob EXCEPT ![on[p]] = "wiped"]
  /\ UNCHANGED <<database, log, expired, upload, on, snap, outcome, batch, history, faults>>

Unlink(p) ==
  /\ Move(p, "unlink", "commit")
  /\ blob' = [blob EXCEPT ![on[p]] = "absent"]
  /\ UNCHANGED <<database, log, expired, upload, on, snap, outcome, batch, history, faults>>

(* An error of secureDelete is swallowed and the records are removed.       *)
SecureDeleteFails(p) ==
  /\ pc[p] \in {"stat", "wipe", "unlink"}
  /\ Fault
  /\ Goto(p, "commit")
  /\ leaked' = leaked \cup {on[p]}
  /\ UNCHANGED <<database, log, blob, expired, upload, on, snap, outcome, batch, granted, spoiled>>

(* Mutant: the links are not revoked.                                       *)
RemoveKeepingLinks(f, event) ==
  /\ key' = [key EXCEPT ![f] = FALSE]
  /\ row' = [row EXCEPT ![f] = "deleted"]
  /\ Logged(f, event)
  /\ UNCHANGED revoked

(* The transaction: keys gone, links revoked, file marked, event recorded.  *)
RemoveRecords(f, event) ==
  /\ key' = [key EXCEPT ![f] = FALSE]
  /\ revoked' = [revoked EXCEPT ![f] = TRUE]
  /\ row' = [row EXCEPT ![f] = "deleted"]
  /\ Logged(f, event)

CommitDestruction(p) ==
  /\ Move(p, "commit", AfterBurn(p))
  /\ RemoveRecords(on[p], IF p \in Deletes THEN "DELETE" ELSE "BURN")
  /\ UNCHANGED <<opts, count, blob, expired, upload, on, snap, outcome, batch, history, faults>>

CommitFails(p) ==
  /\ pc[p] = "commit"
  /\ Fault
  /\ BurnThrows(p)
  /\ spoiled' = spoiled \cup {on[p]}
  /\ UNCHANGED <<database, log, blob, expired, upload, on, batch, granted, leaked>>

----------------------------------------------------------------------------
(* revokeShareLink, through the route, which looks the token up among the   *)
(* requesting user's own live files.                                        *)

RequestRevoke(v, f, who) ==
  /\ pc[v] = "idle"
  /\ on' = [on EXCEPT ![v] = f]
  /\ IF row[f] = "live" /\ who = "owner"
     THEN Goto(v, "revoke") /\ UNCHANGED <<snap, outcome>>
     ELSE Finish(v, "FILE_NOT_FOUND")
  /\ UNCHANGED <<database, log, blob, expired, upload, batch, history, faults>>

(* Mutant: revoking a revoked link restores it.                             *)
ToggleRevoke(v) ==
  /\ Move(v, "revoke", "logRevoke")
  /\ revoked' = [revoked EXCEPT ![on[v]] = ~@]
  /\ UNCHANGED <<row, opts, key, count, log, blob, expired, upload, on, snap, outcome, batch,
                 history, faults>>

Revoke(v) ==
  /\ Move(v, "revoke", "logRevoke")
  /\ revoked' = [revoked EXCEPT ![on[v]] = TRUE]
  /\ UNCHANGED <<row, opts, key, count, log, blob, expired, upload, on, snap, outcome, batch,
                 history, faults>>

(* The update of the link is rejected.                                      *)
RevokeFails(v) ==
  /\ pc[v] = "revoke"
  /\ Fault
  /\ Finish(v, "INTERNAL_ERROR")
  /\ UNCHANGED <<database, log, blob, expired, upload, on, batch, history>>

LogRevoke(v) ==
  /\ Move(v, "logRevoke", "respond")
  /\ RecordEvent(on[v], "LINK_REVOKED")
  /\ UNCHANGED <<database, blob, expired, upload, on, snap, outcome, batch, history>>

----------------------------------------------------------------------------
(* processExpiredFiles: a bounded batch in no particular order, one burn    *)
(* after the other; EXPIRE is recorded when a burn has returned.  A run     *)
(* whose findMany is rejected has done nothing: it is a tick that was       *)
(* skipped, a StartRun not taken.                                           *)

Pending == {f \in expired : row[f] = "live"}

StartRun(w) ==
  /\ Move(w, "idle", "loop")
  /\ \E B \in SUBSET Pending :
       /\ B # {}
       /\ Cardinality(B) = Batch \/ (B = Pending /\ Cardinality(B) < Batch)
       /\ batch' = [batch EXCEPT ![w] = B]
  /\ UNCHANGED <<database, log, blob, expired, upload, on, snap, outcome, history, faults>>

NextExpired(w) ==
  /\ Move(w, "loop", "lookup")
  /\ \E f \in batch[w] :
       /\ on' = [on EXCEPT ![w] = f]
       /\ batch' = [batch EXCEPT ![w] = @ \ {f}]
  /\ UNCHANGED <<database, log, blob, expired, upload, snap, outcome, history, faults>>

EndRun(w) ==
  /\ Move(w, "loop", "idle")
  /\ batch[w] = {}
  /\ on' = [on EXCEPT ![w] = NoFile]
  /\ UNCHANGED <<database, log, blob, expired, upload, snap, outcome, batch, history, faults>>

LogExpire(w) ==
  /\ Move(w, "expire", "loop")
  /\ RecordEvent(on[w], "EXPIRE")
  /\ UNCHANGED <<database, blob, expired, upload, on, snap, outcome, batch, history>>

----------------------------------------------------------------------------
(* Crashes.  Docker restarts both containers (restart: unless-stopped); a   *)
(* SIGTERM of the worker calls process.exit in the middle of a burn.        *)

Active(p) == pc[p] \notin {"idle", "done"}

(* The files that processes of P have begun to destroy.                     *)
CutShort(P) == {f \in Files : \E p \in P : on[p] = f /\ pc[p] \in {"unlink", "commit"}}

ApiCrash ==
  /\ (\E r \in Requests : Active(r)) \/ (\E f \in Files : upload[f] = "written")
  /\ Fault
  /\ pc' = [p \in Procs |-> IF p \in Requests /\ Active(p) THEN "done" ELSE pc[p]]
  /\ outcome' = [r \in Requests |-> IF Active(r) THEN "CRASHED" ELSE outcome[r]]
  /\ snap' = [d \in Downloads |-> NoSnapshot]
  /\ upload' = [f \in Files |-> IF upload[f] = "written" THEN "failed" ELSE upload[f]]
  /\ spoiled' = spoiled \cup CutShort(Requests)
  /\ UNCHANGED <<database, log, blob, expired, on, batch, granted, leaked>>

WorkerCrash ==
  /\ \E w \in Workers : Active(w)
  /\ Fault
  /\ pc' = [p \in Procs |-> IF p \in Workers THEN "idle" ELSE pc[p]]
  /\ on' = [p \in Procs |-> IF p \in Workers THEN NoFile ELSE on[p]]
  /\ batch' = [w \in Workers |-> {}]
  /\ spoiled' = spoiled \cup CutShort(Workers)
  /\ UNCHANGED <<database, log, blob, expired, upload, snap, outcome, granted, leaked>>

----------------------------------------------------------------------------

(* The steps that the event loop takes once an operation has begun.         *)
Step(p) ==
  \/ p \in Downloads /\ (ReadFile(p) \/ ReadKeys(p) \/ Admit(p) \/ Refuse(p) \/ ReadCiphertext(p)
                          \/ CannotDecrypt(p) \/ CountDownload(p) \/ LogDownload(p))
  \/ p \in Downloads \cup Workers /\ BurnLookup(p)
  \/ p \notin Revokes /\ (Stat(p) \/ Wipe(p) \/ Unlink(p) \/ CommitDestruction(p))
  \/ p \in Revokes /\ (Revoke(p) \/ LogRevoke(p))
  \/ p \in Requests /\ Respond(p)
  \/ p \in Workers /\ (NextExpired(p) \/ EndRun(p) \/ LogExpire(p))

Arrive ==
  \/ \E d \in Downloads : UnknownToken(d)
  \/ \E d \in Downloads, f \in Files : ReadLink(d, f)
  \/ \E x \in Deletes, f \in Files, who \in Role : RequestDelete(x, f, who)
  \/ \E v \in Revokes, f \in Files, who \in Role : RequestRevoke(v, f, who)

Fail ==
  \/ \E f \in Files : UploadFails(f)
  \/ \E d \in Downloads : DownloadFails(d)
  \/ \E p \in Downloads \cup Workers : LookupFails(p)
  \/ \E v \in Revokes : RevokeFails(v)
  \/ \E p \in Procs \ Revokes : SecureDeleteFails(p) \/ CommitFails(p)
  \/ ApiCrash
  \/ WorkerCrash

Next ==
  \/ \E f \in Files : WriteCiphertext(f) \/ InsertRecords(f) \/ Lapse(f)
  \/ Arrive
  \/ \E p \in Procs : Step(p)
  \/ \E w \in Workers : StartRun(w)
  \/ Fail

Spec == Init /\ [][Next]_vars

(* Every await settles and cron goes on firing: nothing in the code can     *)
(* block a request or a run for good, and Docker restarts what stops.       *)
Fairness ==
  /\ \A p \in Procs : WF_vars(Step(p))
  /\ \A w \in Workers : WF_vars(StartRun(w))

FairSpec == Spec /\ Fairness

----------------------------------------------------------------------------
(* Properties.                                                              *)

(* The burn and delete transactions leave no half-destroyed records: a      *)
(* deleted file has no wrapped key and no usable link, a live one has its   *)
(* key, and no key exists without a file.                                   *)
DestructionComplete ==
  \A f \in Files :
    /\ row[f] = "deleted" => ~key[f] /\ revoked[f]
    /\ row[f] = "live" <=> key[f]

(* The audit trail never claims what did not happen, although recordEvent   *)
(* may lose an event: a file is marked deleted exactly when a BURN or DELETE *)
(* is on record, EXPIRE is recorded only of an expired file that is gone,   *)
(* DOWNLOAD never more often than downloads were counted, LINK_REVOKED only *)
(* of a revoked link.                                                       *)
AuditTruthful ==
  \A f \in Files :
    /\ row[f] = "deleted" <=> log[f]["BURN"] + log[f]["DELETE"] > 0
    /\ log[f]["EXPIRE"] > 0 => row[f] = "deleted" /\ f \in expired
    /\ log[f]["DOWNLOAD"] <= count[f]
    /\ log[f]["LINK_REVOKED"] > 0 => revoked[f]

(* A live file can be downloaded: its ciphertext is whole on disk unless a  *)
(* burn or delete is at work on it, or one failed or was cut short by a     *)
(* crash between secureDelete and its transaction.                          *)
LiveMeansIntact ==
  \A f \in Files :
    row[f] = "live" /\ f \notin spoiled /\ blob[f] # "cipher" =>
      \E p \in Procs : on[p] = f /\ pc[p] \in {"unlink", "commit"}

(* Once the records say deleted, the ciphertext has been overwritten or     *)
(* removed, unless a secureDelete failed and the failure was swallowed;     *)
(* concurrent burns that truncate, recreate and unlink the same path        *)
(* do not bring it back.                                                    *)
DeletedMeansWiped ==
  \A f \in Files : row[f] = "deleted" /\ f \notin leaked => blob[f] # "cipher"

Served(f) == {d \in Downloads : on[d] = f /\ outcome[d] = "ok"}

(* No plaintext leaves uncounted: downloadCount is at least the number of   *)
(* answered downloads, however they interleave.                             *)
ServedIsCounted == \A f \in Files : Cardinality(Served(f)) <= count[f]

(* By the time the plaintext of a one-time or burn-after-reading file is    *)
(* returned, the file's records are destroyed.                              *)
OneTimeDestroyedFirst ==
  \A f \in Files : OneTime(f) /\ Served(f) # {} => row[f] = "deleted"

(* The download limit holds between requests that do not overlap: a download *)
(* that nobody was counted during never takes the count past the limit.     *)
LimitHoldsUncontended ==
  [][\A d \in Downloads :
       /\ pc[d] = "count" /\ pc'[d] = "log"
       /\ snap[d].count = count[on[d]]
       /\ MaxDownloads(on[d]) # -1
       => count'[on[d]] <= MaxDownloads(on[d])]_vars

(* Nothing is undone: a deleted file stays deleted, its key and its wiped   *)
(* ciphertext do not come back, a revoked link stays revoked, and neither   *)
(* the download count nor the audit trail ever shrinks.                     *)
NeverUndone ==
  [][\A f \in Files :
       /\ row[f] = "deleted" =>
            row'[f] = "deleted" /\ ~key'[f] /\ (blob[f] # "cipher" => blob'[f] # "cipher")
       /\ revoked[f] => revoked'[f]
       /\ count'[f] >= count[f]
       /\ \A e \in Events : log'[f][e] >= log[f][e]]_vars

LinkState(f) ==
  IF row[f] = "none" THEN "unborn" ELSE IF Available(f) THEN "open" ELSE "closed"

Granted(d) == d \in granted /\ (pc[d] # "done" \/ outcome[d] = "ok")

Promise == INSTANCE ShareLink WITH
  link      <- [f \in Files |-> LinkState(f)],
  oneTime   <- {f \in Files : row[f] # "none" /\ OneTime(f)},
  grant     <- [d \in Downloads |-> IF Granted(d) THEN on[d] ELSE NoFile],
  delivered <- {d \in Downloads : outcome[d] = "ok"}

(* Every download behaves as if it had been granted at one instant, when it *)
(* read the link: it is answered only if the link was then live, unrevoked, *)
(* unexpired and below its limit, although the checks themselves come later *)
(* and on rows read one by one.                                             *)
KeepsLinkPromise == Promise!Spec

(* The worker gets every expired file destroyed in the end, whatever        *)
(* failed, crashed or was cut short before; and then its ciphertext is gone *)
(* unless a secureDelete failed.                                            *)
ExpiredEventuallyDestroyed ==
  \A f \in Files :
    f \in expired ~> row[f] = "deleted" /\ (blob[f] # "cipher" \/ f \in leaked)

(* Every download, delete and revoke that has begun is answered or dies     *)
(* with its process, whichever of its queries or disk operations fail.      *)
RequestsAnswered == \A r \in Requests : pc[r] # "idle" ~> pc[r] = "done"

(* What the documentation says, and the code does not keep.                 *)

(* FileService.property.test.ts, Property 10: with maxDownloads k, the      *)
(* (k+1)th download is rejected.                                            *)
DownloadLimitEnforced ==
  \A f \in Files : MaxDownloads(f) # -1 => Cardinality(Served(f)) <= MaxDownloads(f)

(* FileService.burnFile: "Idempotent: no-op if already burned/deleted", and *)
(* Property 13 of its tests: burning N times leaves the state of burning    *)
(* once.                                                                    *)
BurnIsIdempotent == \A f \in Files : log[f]["BURN"] <= 1
=============================================================================
