----------------------- MODULE FileVaultSafety_proofs -----------------------
(***************************************************************************)
(* The safety properties of FileVault, each from TypeInv and an inductive  *)
(* strengthening of its own.                                               *)
(***************************************************************************)
EXTENDS FileVault_proofs, FiniteSetTheorems

----------------------------------------------------------------------------
(* Records.                                                                 *)

(* No file, no records.                                                     *)
LEMMA DestructionInit == Init => DestructionComplete
BY DEF Init, DestructionComplete

(* The two transactions keep the records of a file together.                *)
LEMMA DestructionStep == TypeInv /\ DestructionComplete /\ [Next]_vars => DestructionComplete'
<1> SUFFICES ASSUME TypeInv, DestructionComplete, [Next]_vars PROVE DestructionComplete'
  OBVIOUS
<1> USE DEF TypeInv, TypeOK, DestructionComplete
<1>1. CASE UNCHANGED <<row, key, revoked>>
  BY <1>1
<1>2. ASSUME NEW f \in Files, InsertRecords(f) PROVE DestructionComplete'
  BY <1>2 DEF InsertRecords, UploadOrder
<1>3. ASSUME NEW p \in Procs \ Revokes, CommitDestruction(p) PROVE DestructionComplete'
  BY <1>3 DEF CommitDestruction, RemoveRecords
<1>4. ASSUME NEW v \in Revokes, Revoke(v) PROVE DestructionComplete'
  BY <1>4 DEF Revoke
<1> QED
  BY <1>1, <1>2, <1>3, <1>4, RowStep DEF vars, database

(* The transactions of burnFile and deleteFile destroy the records of a     *)
(* file together: a deleted file has neither a wrapped key nor a usable     *)
(* link, and keys exist for live files only.                                *)
THEOREM RecordsDestroyed == Spec => []DestructionComplete
<1>1. Spec => []TypeInv
  BY TypeInit, TypeStep, PTL DEF Spec
<1> QED
  BY <1>1, DestructionInit, DestructionStep, PTL DEF Spec

----------------------------------------------------------------------------
(* Nothing is undone.                                                       *)

NoneUndone ==
  \A f \in Files :
    /\ row[f] = "deleted" =>
         row'[f] = "deleted" /\ ~key'[f] /\ (blob[f] # "cipher" => blob'[f] # "cipher")
    /\ revoked[f] => revoked'[f]
    /\ count'[f] >= count[f]
    /\ \A e \in Events : log'[f][e] >= log[f][e]

(* Ciphertext is written for new uploads only.                              *)
LEMMA BlobStaysDestroyed ==
  ASSUME TypeInv, Next, NEW f \in Files, row[f] # "none", blob[f] # "cipher"
  PROVE  blob'[f] # "cipher"
<1> USE DEF TypeInv, TypeOK
<1>1. ASSUME NEW g \in Files, WriteCiphertext(g) PROVE blob'[f] # "cipher"
  BY <1>1 DEF WriteCiphertext, UploadOrder
<1>2. ASSUME NEW g \in Files, UploadFails(g) PROVE blob'[f] # "cipher"
  BY <1>2 DEF UploadFails
<1>3. ASSUME NEW p \in Procs, Wipe(p) \/ Unlink(p) PROVE blob'[f] # "cipher"
  BY <1>3 DEF Wipe, Unlink
<1> QED
  BY <1>1, <1>2, <1>3, BlobStep

(* Deletion and revocation are for good.                                    *)
LEMMA DeletedStays ==
  ASSUME TypeInv, Next, NEW f \in Files
  PROVE  /\ row[f] = "deleted" => row'[f] = "deleted"
         /\ row[f] # "none" => row'[f] # "none"
         /\ revoked[f] => revoked'[f]
<1> USE DEF TypeInv, TypeOK
<1>1. ASSUME NEW g \in Files, InsertRecords(g) PROVE row[g] = "none"
  BY <1>1 DEF InsertRecords, UploadOrder
<1> QED
  BY <1>1, RowStep DEF InsertRecords, CommitDestruction, RemoveRecords, Revoke

(* The download count never shrinks.                                        *)
LEMMA CountGrows ==
  ASSUME TypeInv, Next, NEW f \in Files
  PROVE  count'[f] >= count[f]
<1>1. count \in [Files -> Nat]
  BY DEF TypeInv, TypeOK
<1> QED
  BY <1>1, CountStep DEF CountDownload, CountAfter

(* No step undoes anything.                                                 *)
LEMMA NoneUndoneStep ==
  ASSUME TypeInv, DestructionComplete, DestructionComplete', [Next]_vars
  PROVE  [NoneUndone]_vars
<1> SUFFICES ASSUME Next PROVE NoneUndone
  OBVIOUS
<1>1. ASSUME NEW f \in Files, NEW e \in Events PROVE log'[f][e] >= log[f][e]
  BY <1>1, AuditStep DEF TypeInv, TypeOK
<1>2. ASSUME NEW f \in Files, row[f] = "deleted" PROVE row'[f] = "deleted" /\ ~key'[f]
  BY <1>2, DeletedStays DEF DestructionComplete
<1> QED
  BY <1>1, <1>2, BlobStaysDestroyed, DeletedStays, CountGrows DEF NoneUndone

(* No step of any request, worker run or crash undoes a deletion, a wiped   *)
(* ciphertext, a revocation, a download count or an audit event.            *)
THEOREM NothingUndone == Spec => NeverUndone
<1>1. Spec => []TypeInv
  BY TypeInit, TypeStep, PTL DEF Spec
<1>2. Spec => []DestructionComplete
  BY RecordsDestroyed
<1>3. Spec => [][NoneUndone]_vars
  BY <1>1, <1>2, NoneUndoneStep, PTL DEF Spec
<1> QED
  BY <1>3 DEF NeverUndone, NoneUndone

----------------------------------------------------------------------------
(* The ciphertext.                                                          *)

(* Whoever has wiped a file's ciphertext is about to destroy its records.   *)
Wiped ==
  \A p \in Procs :
    pc[p] \in {"unlink", "commit"} /\ on[p] \notin leaked => blob[on[p]] # "cipher"

WipedInv == DeletedMeansWiped /\ Wiped

(* Wiping comes before marking: the invariant is kept by every step.        *)
LEMMA WipedStep == TypeInv /\ WipedInv /\ [Next]_vars => WipedInv'
<1> SUFFICES ASSUME TypeInv, WipedInv, Next PROVE WipedInv'
  BY DEF WipedInv, Wiped, DeletedMeansWiped, vars, database, processes, history
<1> USE DEF TypeInv, TypeOK
<1>1. leaked \subseteq leaked'
  BY OnlyGrow
<1>2. ASSUME NEW p \in Procs, pc[p] \in {"stat", "wipe", "unlink", "commit"}
      PROVE  on[p] \in Files /\ row[on[p]] # "none"
  BY <1>2 DEF Engaged
<1>3. DeletedMeansWiped'
  <2> SUFFICES ASSUME NEW f \in Files, row'[f] = "deleted", f \notin leaked'
               PROVE  blob'[f] # "cipher"
    BY DEF DeletedMeansWiped
  <2>1. CASE row[f] = "deleted"
    BY <2>1, <1>1, BlobStaysDestroyed DEF WipedInv, DeletedMeansWiped
  <2>2. CASE row[f] # "deleted"
    <3>1. PICK p \in Procs : CommitDestruction(p) /\ on[p] = f
      BY <2>2, RowStep DEF InsertRecords, CommitDestruction, RemoveRecords, Revoke
    <3>2. blob[f] # "cipher" /\ row[f] # "none"
      BY <3>1, <1>1, <1>2 DEF WipedInv, Wiped, CommitDestruction, Move
    <3> QED
      BY <3>2, BlobStaysDestroyed
  <2> QED
    BY <2>1, <2>2
<1>4. Wiped'
  <2> SUFFICES ASSUME NEW p \in Procs, pc'[p] \in {"unlink", "commit"}, on'[p] \notin leaked'
               PROVE  blob'[on[p]] # "cipher" /\ on'[p] = on[p]
    BY DEF Wiped
  <2>0. on'[p] = on[p]
    BY WipingStep
  <2>1. CASE pc[p] = pc'[p]
    BY <2>0, <2>1, <1>1, <1>2, BlobStaysDestroyed DEF WipedInv, Wiped
  <2>2. CASE Wipe(p)
    BY <2>0, <2>2, <1>2 DEF Wipe, Move
  <2>3. CASE Unlink(p)
    BY <2>0, <2>3, <1>2 DEF Unlink, Move
  <2>4. CASE Stat(p)
    BY <2>0, <2>4, <1>2 DEF Stat, Move, Goto
  <2>5. CASE SecureDeleteFails(p)
    BY <2>0, <2>5 DEF SecureDeleteFails
  <2> QED
    BY <2>0, <2>1, <2>2, <2>3, <2>4, <2>5, WipingStep
<1> QED
  BY <1>3, <1>4 DEF WipedInv

(* secureDelete comes before the transaction: a file whose row says deleted *)
(* has no ciphertext on disk, unless one of its secureDeletes failed and    *)
(* the catch block of burnFile or deleteFile swallowed the error.           *)
THEOREM CiphertextWiped == Spec => []DeletedMeansWiped
<1>1. Spec => []TypeInv
  BY TypeInit, TypeStep, PTL DEF Spec
<1>2. Init => WipedInv
  BY DEF Init, WipedInv, Wiped, DeletedMeansWiped
<1>3. WipedInv => DeletedMeansWiped
  BY DEF WipedInv
<1> QED
  BY <1>1, <1>2, <1>3, WipedStep, PTL DEF Spec

(* Whoever makes a live file's ciphertext unreadable is on the way to       *)
(* destroy its records, and an upload writes before it inserts.             *)
Written == \A f \in Files : upload[f] = "written" => blob[f] = "cipher"

IntactInv == LiveMeansIntact /\ Written

(* What has been wiped is committed, or the file is spoiled.                *)
LEMMA WipedIsCommitted ==
  ASSUME TypeInv, Next, NEW p \in Procs, pc[p] \in {"unlink", "commit"}
  PROVE  \/ on'[p] = on[p] /\ pc'[p] \in {"unlink", "commit"}
         \/ p \notin Revokes /\ CommitDestruction(p)
         \/ on[p] \in spoiled'
<1>1. pc \in [Procs -> Steps] /\ on[p] \in Files
  BY DEF TypeInv, TypeOK, Engaged
<1>2. CASE Acts(p)
  BY <1>1, <1>2 DEF Acts, Step, UnknownToken, ReadLink, RequestDelete, RequestRevoke, ReadFile,
     ReadKeys, Admit, Refuse, ReadCiphertext, CannotDecrypt, CountDownload, LogDownload,
     BurnLookup, Stat, Wipe, Unlink, CommitDestruction, Revoke, LogRevoke, Respond, NextExpired,
     EndRun, LogExpire, StartRun, DownloadFails,
     LookupFails, RevokeFails, SecureDeleteFails, CommitFails, AfterLog,
     AfterBurn, Goto, Move, Finish, BurnThrows
<1>3. CASE \E q \in Procs : q # p /\ Acts(q)
  BY <1>3, ActsAlone DEF Alone
<1>4. CASE UNCHANGED <<pc, on>>
  BY <1>4
<1>5. CASE ApiCrash
  BY <1>1, <1>5 DEF ApiCrash, CutShort, Active
<1>6. CASE WorkerCrash
  BY <1>1, <1>6 DEF WorkerCrash, CutShort, Active
<1> QED
  BY <1>2, <1>3, <1>4, <1>5, <1>6, ProcStep

(* The invariant of intact files is kept by every step.                     *)
LEMMA IntactStep == TypeInv /\ IntactInv /\ [Next]_vars => IntactInv'
<1> SUFFICES ASSUME TypeInv, IntactInv, Next PROVE IntactInv'
  BY DEF IntactInv, Written, LiveMeansIntact, vars, database, processes, history
<1> USE DEF TypeInv, TypeOK
<1>1. Written'
  <2> SUFFICES ASSUME NEW f \in Files, upload'[f] = "written" PROVE blob'[f] = "cipher"
    BY DEF Written
  <2>1. CASE WriteCiphertext(f)
    BY <2>1 DEF WriteCiphertext
  <2>2. CASE ~WriteCiphertext(f)
    <3>1. upload[f] = "written"
      BY <2>2, UploadStep DEF WriteCiphertext, InsertRecords, UploadFails, ApiCrash
    <3>2. \A p \in Procs : pc[p] \in {"wipe", "unlink"} => on[p] # f
      BY <3>1 DEF Engaged, UploadOrder
    <3> QED
      BY <3>1, <3>2, BlobStep DEF IntactInv, Written, WriteCiphertext, UploadFails, Wipe, Unlink,
           Move
  <2> QED
    BY <2>1, <2>2
<1>2. LiveMeansIntact'
  <2> SUFFICES ASSUME NEW f \in Files, row'[f] = "live", f \notin spoiled', blob'[f] # "cipher"
               PROVE  \E p \in Procs : on'[p] = f /\ pc'[p] \in {"unlink", "commit"}
    BY DEF LiveMeansIntact
  <2>1. row[f] = "live"
    <3>1. ASSUME NEW g \in Files, InsertRecords(g) PROVE g # f
      BY <3>1 DEF InsertRecords, IntactInv, Written
    <3> QED
      BY <3>1, RowStep DEF InsertRecords, CommitDestruction, RemoveRecords, Revoke
  <2>2. CASE blob[f] # "cipher"
    <3>1. PICK p \in Procs : on[p] = f /\ pc[p] \in {"unlink", "commit"}
      BY <2>1, <2>2, OnlyGrow DEF IntactInv, LiveMeansIntact
    <3>2. ~(p \notin Revokes /\ CommitDestruction(p))
      BY <3>1 DEF CommitDestruction, RemoveRecords
    <3> QED
      BY <3>1, <3>2, WipedIsCommitted
  <2>3. CASE blob[f] = "cipher"
    <3>1. PICK p \in Procs : on[p] = f /\ (Wipe(p) \/ Unlink(p))
      BY <2>1, <2>3, BlobStep, SMTT(30) DEF WriteCiphertext, UploadFails, Wipe, Unlink, UploadOrder
    <3> QED
      BY <3>1 DEF Wipe, Unlink, Move, Goto
  <2> QED
    BY <2>2, <2>3
<1> QED
  BY <1>1, <1>2 DEF IntactInv

(* A live file has its ciphertext, because uploadFile writes before it      *)
(* inserts and every destruction that wipes also commits, unless that       *)
(* destruction is still under way, failed in its transaction or was cut     *)
(* short by a crash.                                                        *)
THEOREM LiveIntact == Spec => []LiveMeansIntact
<1>1. Spec => []TypeInv
  BY TypeInit, TypeStep, PTL DEF Spec
<1>2. Init => IntactInv
  BY DEF Init, IntactInv, Written, LiveMeansIntact
<1>3. IntactInv => LiveMeansIntact
  BY DEF IntactInv
<1> QED
  BY <1>1, <1>2, <1>3, IntactStep, PTL DEF Spec

----------------------------------------------------------------------------
(* One-time downloads.                                                      *)

(* A plaintext that is about to be answered has been destroyed if it must.  *)
OneTimeReady ==
  \A d \in Downloads : pc[d] = "respond" /\ OneTime(on[d]) => row[on[d]] = "deleted"

AnsweredIsDone == \A r \in Requests : outcome[r] = "ok" => pc[r] = "done"

OneTimeInv == OneTimeDestroyedFirst /\ OneTimeReady /\ AnsweredIsDone

(* Who answers ok, and that an answer is final.                             *)
LEMMA AnswerStep ==
  ASSUME TypeInv, Next, NEW r \in Requests, outcome'[r] = "ok"
  PROVE  \/ outcome[r] = "ok" /\ (pc[r] = "done" => pc'[r] = "done" /\ on'[r] = on[r])
         \/ pc'[r] = "done" /\ on'[r] = on[r] /\ Respond(r)
         \/ pc'[r] = "done" /\ r \in Deletes
<1>1. /\ pc \in [Procs -> Steps] /\ r \in Procs /\ r \notin Workers
      /\ outcome \in [Requests -> Outcomes]
  BY VaultAssumption DEF TypeInv, TypeOK, Procs, Requests
<1>2. \A d \in Downloads, passwordOk \in BOOLEAN : Verdict(d, passwordOk) # "ok"
  BY DEF Verdict
<1>3. CASE Acts(r)
  BY <1>1, <1>2, <1>3, VaultAssumption DEF Acts, Step, UnknownToken, ReadLink, RequestDelete,
     RequestRevoke, ReadFile, ReadKeys, Admit, Refuse, ReadCiphertext, CannotDecrypt,
     CountDownload, LogDownload, BurnLookup, Stat, Wipe, Unlink, CommitDestruction, Revoke,
     LogRevoke, Respond, NextExpired, EndRun, LogExpire, StartRun, DownloadFails,
     LookupFails, RevokeFails,
     SecureDeleteFails, CommitFails, AfterLog, AfterBurn, Goto, Move, Finish, BurnThrows
<1>4. CASE \E q \in Procs : q # r /\ Acts(q)
  BY <1>1, <1>4, ActsAlone DEF Alone
<1>5. CASE UNCHANGED <<pc, on, outcome>>
  BY <1>5
<1>6. CASE ApiCrash
  BY <1>1, <1>6 DEF ApiCrash, Active
<1>7. CASE WorkerCrash
  BY <1>1, <1>7 DEF WorkerCrash, Active
<1> QED
  BY <1>1, <1>3, <1>4, <1>5, <1>6, <1>7, ProcStep

(* The three ways for a download to be about to answer.                     *)
LEMMA RespondStep ==
  ASSUME TypeInv, Next, NEW d \in Downloads, pc'[d] = "respond"
  PROVE  /\ on'[d] = on[d]
         /\ pc[d] = "respond" \/ LogDownload(d) \/ BurnLookup(d) \/ CommitDestruction(d)
<1>1. pc \in [Procs -> Steps] /\ d \in Procs /\ d \notin Workers \cup Revokes \cup Deletes
  BY VaultAssumption DEF TypeInv, TypeOK, Procs, Requests
<1>2. CASE Acts(d)
  BY <1>1, <1>2 DEF Acts, Step, UnknownToken, ReadLink, RequestDelete, RequestRevoke, ReadFile,
     ReadKeys, Admit, Refuse, ReadCiphertext, CannotDecrypt, CountDownload, LogDownload,
     BurnLookup, Stat, Wipe, Unlink, CommitDestruction, Revoke, LogRevoke, Respond, NextExpired,
     EndRun, LogExpire, StartRun, DownloadFails,
     LookupFails, RevokeFails, SecureDeleteFails, CommitFails, AfterLog,
     AfterBurn, Goto, Move, Finish, BurnThrows
<1>3. CASE \E q \in Procs : q # d /\ Acts(q)
  BY <1>1, <1>3, ActsAlone DEF Alone
<1>4. CASE UNCHANGED <<pc, on>>
  BY <1>4
<1>5. CASE ApiCrash
  BY <1>1, <1>5 DEF ApiCrash
<1>6. CASE WorkerCrash
  BY <1>1, <1>6 DEF WorkerCrash
<1> QED
  BY <1>1, <1>2, <1>3, <1>4, <1>5, <1>6, ProcStep

(* One-time downloads destroy before they answer: kept by every step.       *)
LEMMA OneTimeStep == TypeInv /\ OneTimeInv /\ [Next]_vars => OneTimeInv'
<1> SUFFICES ASSUME TypeInv, OneTimeInv, Next PROVE OneTimeInv'
  BY DEF OneTimeInv, OneTimeDestroyedFirst, OneTimeReady, AnsweredIsDone, Served, OneTime,
     vars, database, processes, history
<1> USE DEF TypeInv, TypeOK
<1>1. AnsweredIsDone'
  BY AnswerStep DEF OneTimeInv, AnsweredIsDone
<1>2. UNCHANGED opts
  BY OptsStep
<1>3. ASSUME NEW d \in Downloads, pc[d] \notin {"idle", "done", "loop"}
      PROVE  on[d] \in Files /\ row[on[d]] # "none"
  BY <1>3 DEF Engaged, Procs, Requests
<1>4. OneTimeReady'
  <2> SUFFICES ASSUME NEW d \in Downloads, pc'[d] = "respond", OneTime(on[d])
               PROVE  row'[on[d]] = "deleted"
    BY <1>2, RespondStep DEF OneTimeReady, OneTime
  <2>1. CASE pc[d] = "respond"
    BY <2>1, <1>3, DeletedStays DEF OneTimeInv, OneTimeReady
  <2>2. CASE LogDownload(d)
    BY <2>2, ProcessSets DEF LogDownload, AfterLog, Move, Goto
  <2>3. CASE BurnLookup(d)
    <3>1. row[on[d]] = "deleted" /\ on[d] \in Files
      BY <2>3, <1>3, ProcessSets DEF BurnLookup, Move, Goto
    <3> QED
      BY <3>1, DeletedStays
  <2>4. CASE CommitDestruction(d)
    BY <2>4, <1>3 DEF CommitDestruction, RemoveRecords, Move
  <2> QED
    BY <2>1, <2>2, <2>3, <2>4, RespondStep
<1>5. OneTimeDestroyedFirst'
  <2> SUFFICES ASSUME NEW f \in Files, NEW d \in Downloads, OneTime(f), on'[d] = f, outcome'[d] = "ok"
               PROVE  row'[f] = "deleted"
    BY <1>2 DEF OneTimeDestroyedFirst, Served, OneTime
  <2>1. d \in Requests /\ d \notin Deletes
    BY VaultAssumption DEF Requests
  <2>2. CASE outcome[d] = "ok" /\ on[d] = f
    BY <2>2, DeletedStays DEF OneTimeInv, OneTimeDestroyedFirst, Served
  <2>3. CASE Respond(d) /\ on[d] = f
    BY <2>3, DeletedStays DEF OneTimeInv, OneTimeReady, Respond
  <2> QED
    BY <2>1, <2>2, <2>3, AnswerStep DEF OneTimeInv, AnsweredIsDone
<1> QED
  BY <1>1, <1>4, <1>5 DEF OneTimeInv

(* Nobody has been answered at the start.                                   *)
LEMMA OneTimeInit == Init => OneTimeInv
BY ProcessSets DEF Init, OneTimeInv, OneTimeDestroyedFirst, OneTimeReady, AnsweredIsDone, Served

(* downloadFile burns a one-time file before it returns the plaintext:      *)
(* when it has been answered once, its records are gone.                    *)
THEOREM OneTimeDestroyed == Spec => []OneTimeDestroyedFirst
<1>1. Spec => []TypeInv
  BY TypeInit, TypeStep, PTL DEF Spec
<1>2. OneTimeInv => OneTimeDestroyedFirst
  BY DEF OneTimeInv
<1> QED
  BY <1>1, <1>2, OneTimeInit, OneTimeStep, PTL DEF Spec

----------------------------------------------------------------------------
(* The download limit.                                                      *)

(* A download past the checks has read a count below the limit.             *)
BelowLimit ==
  \A d \in Downloads : pc[d] \in {"read", "count"} => ~LimitReached(on[d], snap[d].count)

(* A download reads the ciphertext only after the checks have let it pass.  *)
LEMMA AdmittedStep ==
  ASSUME TypeInv, Next, NEW d \in Downloads, pc'[d] \in {"read", "count"}
  PROVE  /\ on'[d] = on[d] /\ snap'[d] = snap[d]
         /\ pc[d] \in {"read", "count"} \/ Admit(d)
<1>1. pc \in [Procs -> Steps] /\ d \in Procs /\ d \in Requests /\ d \notin Workers \cup Revokes \cup Deletes
  BY VaultAssumption DEF TypeInv, TypeOK, Procs, Requests
<1>2. CASE Acts(d)
  BY <1>1, <1>2 DEF Acts, Step, UnknownToken, ReadLink, RequestDelete, RequestRevoke, ReadFile,
     ReadKeys, Admit, Refuse, ReadCiphertext, CannotDecrypt, CountDownload, LogDownload,
     BurnLookup, Stat, Wipe, Unlink, CommitDestruction, Revoke, LogRevoke, Respond, NextExpired,
     EndRun, LogExpire, StartRun, DownloadFails,
     LookupFails, RevokeFails, SecureDeleteFails, CommitFails, AfterLog,
     AfterBurn, Goto, Move, Finish, BurnThrows
<1>3. CASE \E q \in Procs : q # d /\ Acts(q)
  BY <1>1, <1>3, ActsAlone DEF Alone
<1>4. CASE \E f \in Files : WriteCiphertext(f) \/ InsertRecords(f) \/ Lapse(f) \/ UploadFails(f)
  BY <1>4 DEF WriteCiphertext, InsertRecords, Lapse, UploadFails, processes
<1>5. CASE ApiCrash
  BY <1>1, <1>5 DEF ApiCrash, Active
<1>6. CASE WorkerCrash
  BY <1>1, <1>6 DEF WorkerCrash
<1> QED
  BY <1>1, <1>2, <1>3, <1>4, <1>5, <1>6, ProcStep

(* Nobody gets past the checks with a count at its limit.                   *)
LEMMA LimitStep == TypeInv /\ BelowLimit /\ [Next]_vars => BelowLimit'
<1> SUFFICES ASSUME TypeInv, BelowLimit, Next, NEW d \in Downloads, pc'[d] \in {"read", "count"}
             PROVE  on'[d] = on[d] /\ UNCHANGED opts /\ ~LimitReached(on[d], snap'[d].count)
  BY DEF BelowLimit, LimitReached, MaxDownloads, vars, database, processes
<1>1. UNCHANGED opts
  BY OptsStep
<1>2. ASSUME NEW passwordOk \in BOOLEAN, Verdict(d, passwordOk) = "none"
      PROVE  ~LimitReached(on[d], snap[d].count)
  BY <1>2 DEF Verdict
<1> QED
  BY <1>1, <1>2, AdmittedStep DEF BelowLimit, Admit

Uncontended ==
  \A d \in Downloads :
    /\ pc[d] = "count" /\ pc'[d] = "log"
    /\ snap[d].count = count[on[d]]
    /\ MaxDownloads(on[d]) # -1
    => count'[on[d]] <= MaxDownloads(on[d])

(* Moving from count to log is counting.                                    *)
LEMMA CountingStep ==
  ASSUME TypeInv, Next, NEW d \in Downloads, pc[d] = "count", pc'[d] = "log"
  PROVE  CountDownload(d)
<1>1. pc \in [Procs -> Steps] /\ d \in Procs /\ d \in Requests /\ d \notin Workers \cup Revokes \cup Deletes
  BY VaultAssumption DEF TypeInv, TypeOK, Procs, Requests
<1>2. CASE Acts(d)
  BY <1>1, <1>2 DEF Acts, Step, UnknownToken, ReadLink, RequestDelete, RequestRevoke, ReadFile,
     ReadKeys, Admit, Refuse, ReadCiphertext, CannotDecrypt, CountDownload, LogDownload,
     BurnLookup, Stat, Wipe, Unlink, CommitDestruction, Revoke, LogRevoke, Respond, NextExpired,
     EndRun, LogExpire, StartRun, DownloadFails,
     LookupFails, RevokeFails, SecureDeleteFails, CommitFails, AfterLog,
     AfterBurn, Goto, Move, Finish, BurnThrows
<1>3. CASE \E q \in Procs : q # d /\ Acts(q)
  BY <1>1, <1>3, ActsAlone DEF Alone
<1>4. CASE UNCHANGED pc
  BY <1>4
<1>5. CASE ApiCrash
  BY <1>1, <1>5 DEF ApiCrash
<1>6. CASE WorkerCrash
  BY <1>1, <1>6 DEF WorkerCrash
<1> QED
  BY <1>1, <1>2, <1>3, <1>4, <1>5, <1>6, ProcStep

(* Counting without contention stays within the limit.                      *)
LEMMA UncontendedStep == TypeInv /\ BelowLimit /\ [Next]_vars => [Uncontended]_vars
<1> SUFFICES ASSUME TypeInv, BelowLimit, Next, NEW d \in Downloads, pc[d] = "count", pc'[d] = "log",
                    snap[d].count = count[on[d]], MaxDownloads(on[d]) # -1
             PROVE  count'[on[d]] <= MaxDownloads(on[d])
  BY DEF Uncontended
<1>1. CountDownload(d)
  BY CountingStep
<1>2. on[d] \in Files /\ count \in [Files -> Nat] /\ opts \in [Files -> Option]
  BY <1>1, ProcessSets DEF TypeInv, TypeOK, Engaged, CountDownload, Move
<1>3. count'[on[d]] = count[on[d]] + 1
  BY <1>1, <1>2 DEF CountDownload, CountAfter
<1>4. MaxDownloads(on[d]) \in Int
  BY <1>2, VaultAssumption DEF MaxDownloads, Option
<1>5. ~(count[on[d]] >= MaxDownloads(on[d]))
  BY DEF BelowLimit, LimitReached
<1> QED
  BY <1>2, <1>3, <1>4, <1>5

(* A download during which nobody else was counted keeps downloadCount      *)
(* within maxDownloads.                                                     *)
THEOREM LimitUncontended == Spec => LimitHoldsUncontended
<1>1. Spec => []TypeInv
  BY TypeInit, TypeStep, PTL DEF Spec
<1>2. Init => BelowLimit
  BY ProcessSets DEF Init, BelowLimit
<1>3. Spec => []BelowLimit
  BY <1>1, <1>2, LimitStep, PTL DEF Spec
<1>4. Spec => [][Uncontended]_vars
  BY <1>1, <1>3, UncontendedStep, PTL DEF Spec
<1> QED
  BY <1>4 DEF LimitHoldsUncontended, Uncontended

----------------------------------------------------------------------------
(* Counting.                                                                *)

(* The downloads of f that have been counted and not failed since.          *)
IsCounted(d, f) ==
  /\ on[d] = f
  /\ \/ outcome[d] = "ok"
     \/ pc[d] \in {"log", "lookup", "stat", "wipe", "unlink", "commit", "respond"}

Counted(f) == {d \in Downloads : IsCounted(d, f)}

CountedInv == AnsweredIsDone /\ \A f \in Files : Cardinality(Counted(f)) <= count[f]

(* Sets of downloads are finite.                                            *)
LEMMA DownloadSets == \A S \in SUBSET Downloads : IsFiniteSet(S) /\ Cardinality(S) \in Nat
BY VaultAssumption, FS_Subset, FS_CardinalityType

(* A download joins the counted ones by being counted.                      *)
LEMMA CountedStep ==
  ASSUME TypeInv, AnsweredIsDone, Next, NEW d \in Downloads, NEW f \in Files, IsCounted(d, f)'
  PROVE  IsCounted(d, f) \/ (on[d] = f /\ CountDownload(d))
<1>1. /\ pc \in [Procs -> Steps] /\ d \in Procs /\ d \in Requests
      /\ outcome \in [Requests -> Outcomes]
      /\ d \notin Workers \cup Revokes \cup Deletes
  BY VaultAssumption DEF TypeInv, TypeOK, Procs, Requests
<1>2. CASE outcome'[d] = "ok"
  BY <1>1, <1>2, AnswerStep DEF IsCounted, AnsweredIsDone, Respond
<1>3. CASE pc'[d] \in {"log", "lookup", "stat", "wipe", "unlink", "commit", "respond"}
  <2>1. CASE Acts(d)
    BY <1>1, <1>3, <2>1 DEF IsCounted, Acts, Step, UnknownToken, ReadLink, RequestDelete,
       RequestRevoke, ReadFile, ReadKeys, Admit, Refuse, ReadCiphertext, CannotDecrypt,
       CountDownload, LogDownload, BurnLookup, Stat, Wipe, Unlink, CommitDestruction, Revoke,
       LogRevoke, Respond, NextExpired, EndRun, LogExpire, StartRun, DownloadFails,
       LookupFails, RevokeFails,
       SecureDeleteFails, CommitFails, AfterLog, AfterBurn, Goto, Move, Finish, BurnThrows
  <2>2. CASE \E q \in Procs : q # d /\ Acts(q)
    BY <1>1, <1>3, <2>2, ActsAlone DEF Alone, IsCounted
  <2>3. CASE UNCHANGED <<pc, on, outcome>>
    BY <1>3, <2>3 DEF IsCounted
  <2>4. CASE ApiCrash
    BY <1>1, <1>3, <2>4 DEF ApiCrash, IsCounted
  <2>5. CASE WorkerCrash
    BY <1>1, <1>3, <2>5 DEF WorkerCrash, IsCounted
  <2> QED
    BY <2>1, <2>2, <2>3, <2>4, <2>5, ProcStep
<1> QED
  BY <1>2, <1>3 DEF IsCounted

(* There are never more counted downloads than the count says.              *)
LEMMA CountedInvStep == TypeInv /\ CountedInv /\ [Next]_vars => CountedInv'
<1> SUFFICES ASSUME TypeInv, CountedInv, [Next]_vars PROVE CountedInv'
  OBVIOUS
<1>1. CASE UNCHANGED vars
  BY <1>1 DEF CountedInv, AnsweredIsDone, Counted, IsCounted, vars, database, processes
<1>2. CASE Next
  <2>1. AnsweredIsDone'
    BY <1>2, AnswerStep DEF CountedInv, AnsweredIsDone
  <2>2. ASSUME NEW f \in Files PROVE Cardinality(Counted(f)') <= count'[f]
    <3>1. Counted(f) \in SUBSET Downloads /\ Counted(f)' \in SUBSET Downloads
      BY DEF Counted
    <3>2. Cardinality(Counted(f)) <= count[f] /\ count[f] \in Nat /\ count'[f] \in Nat
      BY <1>2, TypeStep DEF CountedInv, TypeInv, TypeOK
    <3>3. CASE Counted(f)' \subseteq Counted(f)
      <4>1. Cardinality(Counted(f)') <= Cardinality(Counted(f))
        BY <3>1, <3>3, DownloadSets, FS_Subset
      <4> QED
        BY <1>2, <3>1, <3>2, <4>1, CountGrows, DownloadSets
    <3>4. ASSUME NEW d \in Downloads, CountDownload(d), on[d] = f
          PROVE  Cardinality(Counted(f)') <= count'[f]
      <4>1. count'[f] = count[f] + 1
        BY <3>2, <3>4 DEF CountDownload, CountAfter, TypeInv, TypeOK
      <4>2. \A c \in Downloads : CountDownload(c) => c = d
        BY <3>4, ProcessSets DEF CountDownload, Move, Goto, TypeInv, TypeOK
      <4>3. Counted(f)' \subseteq Counted(f) \cup {d}
        BY <1>2, <4>2, CountedStep DEF CountedInv, Counted
      <4>4. IsFiniteSet(Counted(f) \cup {d}) /\ Cardinality(Counted(f) \cup {d}) <= Cardinality(Counted(f)) + 1
        BY <3>1, DownloadSets, FS_AddElement
      <4>5. Cardinality(Counted(f)') <= Cardinality(Counted(f) \cup {d})
        BY <4>3, <4>4, FS_Subset
      <4>6. Cardinality(Counted(f) \cup {d}) \in Nat
        BY <4>4, FS_CardinalityType
      <4> QED
        BY <3>1, <3>2, <4>1, <4>4, <4>5, <4>6, DownloadSets
    <3> QED
      BY <1>2, <3>3, <3>4, CountedStep DEF CountedInv, Counted
  <2> QED
    BY <2>1, <2>2 DEF CountedInv
<1> QED
  BY <1>1, <1>2

(* downloadFile counts with an atomic increment before it answers: there    *)
(* are never more answered downloads than downloadCount says.               *)
THEOREM AnswersCounted == Spec => []ServedIsCounted
<1>1. Spec => []TypeInv
  BY TypeInit, TypeStep, PTL DEF Spec
<1>2. Init => CountedInv
  <2> SUFFICES ASSUME Init PROVE CountedInv
    OBVIOUS
  <2>1. \A f \in Files : Counted(f) = {}
    BY VaultAssumption, ProcessSets DEF Init, Counted, IsCounted
  <2> QED
    <3>1. AnsweredIsDone
      BY DEF Init, AnsweredIsDone
    <3>2. \A f \in Files : Cardinality(Counted(f)) = 0 /\ count[f] = 0
      BY <2>1, FS_EmptySet DEF Init
    <3> QED
      BY <3>1, <3>2 DEF CountedInv
<1>3. TypeInv /\ CountedInv => ServedIsCounted
  <2> SUFFICES ASSUME TypeInv, CountedInv, NEW f \in Files PROVE Cardinality(Served(f)) <= count[f]
    BY DEF ServedIsCounted
  <2>1. Served(f) \subseteq Counted(f) /\ Counted(f) \in SUBSET Downloads /\ Served(f) \in SUBSET Downloads
    BY DEF Served, Counted, IsCounted
  <2>2. Cardinality(Served(f)) <= Cardinality(Counted(f))
    BY <2>1, DownloadSets, FS_Subset
  <2> QED
    BY <2>1, <2>2, DownloadSets DEF CountedInv, TypeInv, TypeOK
<1> QED
  BY <1>1, <1>2, <1>3, CountedInvStep, PTL DEF Spec

----------------------------------------------------------------------------
(* The audit trail.                                                         *)

(* A worker burns only what has expired and reports only what is gone; a    *)
(* revocation is reported once it is in force.                              *)
ExpiryHonest ==
  \A w \in Workers :
    /\ batch[w] \subseteq expired
    /\ pc[w] \notin {"idle", "loop"} => on[w] \in expired
    /\ pc[w] = "expire" => row[on[w]] = "deleted"

RevokeHonest == \A v \in Revokes : pc[v] = "logRevoke" => revoked[on[v]]

IsLogging(d, f) == pc[d] = "log" /\ on[d] = f

Logging(f) == {d \in Downloads : IsLogging(d, f)}

(* Downloads that are counted and have still to be recorded make up for the *)
(* difference between the two numbers.                                      *)
DownloadsCounted ==
  \A f \in Files : log[f]["DOWNLOAD"] + Cardinality(Logging(f)) <= count[f]

AuditInv == AuditTruthful /\ ExpiryHonest /\ RevokeHonest /\ DownloadsCounted

(* How a worker run comes by its batch, by its file and to reporting it.    *)
LEMMA WorkerStep ==
  ASSUME TypeInv, Next, NEW w \in Workers
  PROVE  /\ batch'[w] \subseteq batch[w] \/ batch'[w] \subseteq Pending
         /\ \/ pc'[w] \in {"idle", "loop"}
            \/ on'[w] = on[w] /\ pc[w] \notin {"idle", "loop"}
            \/ on'[w] \in batch[w] /\ pc'[w] = "lookup"
         /\ pc'[w] = "expire" => pc[w] = "expire" \/ BurnLookup(w) \/ CommitDestruction(w)
<1>1. /\ pc \in [Procs -> Steps] /\ w \in Procs /\ w \notin Requests
      /\ w \notin Downloads \cup Deletes \cup Revokes
      /\ on \in [Procs -> Files \cup {NoFile}]
      /\ batch \in [Workers -> SUBSET Files]
  BY VaultAssumption DEF TypeInv, TypeOK, Procs, Requests
<1>2. CASE Acts(w)
  <2>1. batch'[w] \subseteq batch[w] \/ batch'[w] \subseteq Pending
    BY <1>1, <1>2 DEF Acts, Step, UnknownToken, ReadLink, RequestDelete, RequestRevoke,
       ReadFile, ReadKeys, Admit, Refuse, ReadCiphertext, CannotDecrypt, CountDownload,
       LogDownload, BurnLookup, Stat, Wipe, Unlink, CommitDestruction, Revoke, LogRevoke,
       Respond, NextExpired, EndRun, LogExpire, StartRun, DownloadFails,
       LookupFails, RevokeFails, SecureDeleteFails,
       CommitFails, AfterLog, AfterBurn, Goto, Move, Finish, BurnThrows
  <2>2. \/ pc'[w] \in {"idle", "loop"}
        \/ on'[w] = on[w] /\ pc[w] \notin {"idle", "loop"}
        \/ on'[w] \in batch[w] /\ pc'[w] = "lookup"
    BY <1>1, <1>2 DEF Acts, Step, UnknownToken, ReadLink, RequestDelete, RequestRevoke,
       ReadFile, ReadKeys, Admit, Refuse, ReadCiphertext, CannotDecrypt, CountDownload,
       LogDownload, BurnLookup, Stat, Wipe, Unlink, CommitDestruction, Revoke, LogRevoke,
       Respond, NextExpired, EndRun, LogExpire, StartRun, DownloadFails,
       LookupFails, RevokeFails, SecureDeleteFails,
       CommitFails, AfterLog, AfterBurn, Goto, Move, Finish, BurnThrows
  <2>3. pc'[w] = "expire" => pc[w] = "expire" \/ BurnLookup(w) \/ CommitDestruction(w)
    BY <1>1, <1>2 DEF Acts, Step, UnknownToken, ReadLink, RequestDelete, RequestRevoke,
       ReadFile, ReadKeys, Admit, Refuse, ReadCiphertext, CannotDecrypt, CountDownload,
       LogDownload, BurnLookup, Stat, Wipe, Unlink, CommitDestruction, Revoke, LogRevoke,
       Respond, NextExpired, EndRun, LogExpire, StartRun, DownloadFails,
       LookupFails, RevokeFails, SecureDeleteFails,
       CommitFails, AfterLog, AfterBurn, Goto, Move, Finish, BurnThrows
  <2> QED
    BY <2>1, <2>2, <2>3
<1>3. CASE \E q \in Procs : q # w /\ Acts(q)
  BY <1>1, <1>3, ActsAlone DEF Alone
<1>4. CASE UNCHANGED <<pc, on, batch>>
  BY <1>4
<1>5. CASE ApiCrash
  BY <1>1, <1>5 DEF ApiCrash
<1>6. CASE WorkerCrash
  BY <1>1, <1>6 DEF WorkerCrash
<1> QED
  BY <1>1, <1>2, <1>3, <1>4, <1>5, <1>6, ProcStep

(* Only a revocation that was made is reported.                             *)
LEMMA RevokeStep ==
  ASSUME TypeInv, Next, NEW v \in Revokes, pc'[v] = "logRevoke"
  PROVE  /\ on'[v] = on[v]
         /\ pc[v] = "logRevoke" \/ Revoke(v)
<1>1. pc \in [Procs -> Steps] /\ v \in Procs /\ v \notin Workers \cup Downloads \cup Deletes
  BY VaultAssumption DEF TypeInv, TypeOK, Procs, Requests
<1>2. CASE Acts(v)
  BY <1>1, <1>2 DEF Acts, Step, UnknownToken, ReadLink, RequestDelete, RequestRevoke, ReadFile,
     ReadKeys, Admit, Refuse, ReadCiphertext, CannotDecrypt, CountDownload, LogDownload,
     BurnLookup, Stat, Wipe, Unlink, CommitDestruction, Revoke, LogRevoke, Respond, NextExpired,
     EndRun, LogExpire, StartRun, DownloadFails,
     LookupFails, RevokeFails, SecureDeleteFails, CommitFails, AfterLog,
     AfterBurn, Goto, Move, Finish, BurnThrows
<1>3. CASE \E q \in Procs : q # v /\ Acts(q)
  BY <1>1, <1>3, ActsAlone DEF Alone
<1>4. CASE UNCHANGED <<pc, on>>
  BY <1>4
<1>5. CASE ApiCrash
  BY <1>1, <1>5 DEF ApiCrash
<1>6. CASE WorkerCrash
  BY <1>1, <1>6 DEF WorkerCrash
<1> QED
  BY <1>1, <1>2, <1>3, <1>4, <1>5, <1>6, ProcStep

(* A download joins the ones to be recorded by being counted.               *)
LEMMA LoggingStep ==
  ASSUME TypeInv, Next, NEW d \in Downloads, NEW f \in Files, IsLogging(d, f)'
  PROVE  IsLogging(d, f) \/ (on[d] = f /\ CountDownload(d))
<1>1. pc \in [Procs -> Steps] /\ d \in Procs /\ d \notin Workers \cup Revokes \cup Deletes
  BY VaultAssumption DEF TypeInv, TypeOK, Procs, Requests
<1>2. CASE Acts(d)
  BY <1>1, <1>2 DEF IsLogging, Acts, Step, UnknownToken, ReadLink, RequestDelete, RequestRevoke,
     ReadFile, ReadKeys, Admit, Refuse, ReadCiphertext, CannotDecrypt, CountDownload,
     LogDownload, BurnLookup, Stat, Wipe, Unlink, CommitDestruction, Revoke, LogRevoke, Respond,
     NextExpired, EndRun, LogExpire, StartRun, DownloadFails,
     LookupFails, RevokeFails, SecureDeleteFails, CommitFails,
     AfterLog, AfterBurn, Goto, Move, Finish, BurnThrows
<1>3. CASE \E q \in Procs : q # d /\ Acts(q)
  BY <1>1, <1>3, ActsAlone DEF Alone, IsLogging
<1>4. CASE UNCHANGED <<pc, on>>
  BY <1>4 DEF IsLogging
<1>5. CASE ApiCrash
  BY <1>1, <1>5 DEF ApiCrash, IsLogging
<1>6. CASE WorkerCrash
  BY <1>1, <1>6 DEF WorkerCrash, IsLogging
<1> QED
  BY <1>1, <1>2, <1>3, <1>4, <1>5, <1>6, ProcStep

(* Worker runs and revocations report facts: kept by every step.            *)
LEMMA HonestStep ==
  ASSUME TypeInv, ExpiryHonest, RevokeHonest, Next
  PROVE  ExpiryHonest' /\ RevokeHonest'
<1> USE DEF TypeInv, TypeOK
<1>1. ASSUME NEW p \in Procs, pc[p] \notin {"idle", "done", "loop"}
      PROVE  on[p] \in Files /\ row[on[p]] # "none"
  BY <1>1 DEF Engaged
<1>2. ASSUME NEW w \in Workers PROVE batch'[w] \subseteq expired'
  BY WorkerStep, OnlyGrow DEF ExpiryHonest, Pending
<1>3. ASSUME NEW w \in Workers, pc'[w] \notin {"idle", "loop"} PROVE on'[w] \in expired'
  BY <1>3, WorkerStep, OnlyGrow DEF ExpiryHonest
<1>4. ASSUME NEW w \in Workers, pc'[w] = "expire" PROVE row'[on'[w]] = "deleted"
  <2>1. on'[w] = on[w] /\ pc[w] \notin {"idle", "loop"}
    BY <1>4, WorkerStep
  <2>2. CASE pc[w] = "expire"
    BY <1>1, <2>1, <2>2, ProcessSets, DeletedStays DEF ExpiryHonest
  <2>3. CASE BurnLookup(w)
    <3>1. row[on[w]] = "deleted" /\ on[w] \in Files
      BY <1>1, <1>4, <2>3, ProcessSets DEF BurnLookup, Move, Goto
    <3> QED
      BY <2>1, <3>1, DeletedStays
  <2>4. CASE CommitDestruction(w)
    BY <1>1, <2>1, <2>4, ProcessSets DEF CommitDestruction, RemoveRecords, Move
  <2> QED
    BY <1>4, <2>2, <2>3, <2>4, WorkerStep
<1>5. ASSUME NEW v \in Revokes, pc'[v] = "logRevoke" PROVE revoked'[on'[v]]
  <2>1. on'[v] = on[v] /\ (pc[v] = "logRevoke" \/ Revoke(v))
    BY <1>5, RevokeStep
  <2>2. pc[v] \in {"revoke", "logRevoke"}
    BY <2>1 DEF Revoke, Move
  <2>3. on[v] \in Files
    BY <1>1, <2>2, ProcessSets
  <2> QED
    BY <2>1, <2>3, DeletedStays DEF RevokeHonest, Revoke
<1> QED
  BY <1>2, <1>3, <1>4, <1>5 DEF ExpiryHonest, RevokeHonest

(* A download is recorded after it was counted, at most once.               *)
LEMMA DownloadsCountedStep ==
  ASSUME TypeInv, DownloadsCounted, Next, NEW f \in Files
  PROVE  log'[f]["DOWNLOAD"] + Cardinality(Logging(f)') <= count'[f]
<1>0. "DOWNLOAD" \in Events
  BY Constants
<1>1. /\ log[f]["DOWNLOAD"] \in Nat /\ count[f] \in Nat /\ count'[f] \in Nat
      /\ log'[f]["DOWNLOAD"] \in Nat
      /\ count'[f] >= count[f]
  BY <1>0, TypeStep, CountGrows DEF TypeInv, TypeOK
<1>2. Logging(f) \in SUBSET Downloads /\ Logging(f)' \in SUBSET Downloads
  BY DEF Logging
<1>3. /\ Cardinality(Logging(f)) \in Nat /\ Cardinality(Logging(f)') \in Nat
      /\ IsFiniteSet(Logging(f)) /\ IsFiniteSet(Logging(f)')
  BY <1>2, DownloadSets
<1>4. log[f]["DOWNLOAD"] + Cardinality(Logging(f)) <= count[f]
  BY DEF DownloadsCounted
<1>5. ASSUME NEW d \in Downloads, CountDownload(d), on[d] = f
      PROVE  log'[f]["DOWNLOAD"] + Cardinality(Logging(f)') <= count'[f]
  <2>1. count'[f] = count[f] + 1 /\ UNCHANGED log
    BY <1>5 DEF CountDownload, CountAfter, TypeInv, TypeOK
  <2>2. \A c \in Downloads : CountDownload(c) => c = d
    BY <1>5, ProcessSets DEF CountDownload, Move, Goto, TypeInv, TypeOK
  <2>3. Logging(f)' \subseteq Logging(f) \cup {d}
    BY <2>2, LoggingStep DEF Logging
  <2>4. /\ IsFiniteSet(Logging(f) \cup {d})
        /\ Cardinality(Logging(f) \cup {d}) <= Cardinality(Logging(f)) + 1
    BY <1>2, DownloadSets, FS_AddElement
  <2>5. Cardinality(Logging(f)') <= Cardinality(Logging(f) \cup {d})
    BY <2>3, <2>4, FS_Subset
  <2>6. Cardinality(Logging(f) \cup {d}) \in Nat
    BY <2>4, FS_CardinalityType
  <2> QED
    BY <1>1, <1>3, <1>4, <2>1, <2>4, <2>5, <2>6
<1>6. ASSUME NEW d \in Downloads, LogDownload(d), on[d] = f
      PROVE  log'[f]["DOWNLOAD"] + Cardinality(Logging(f)') <= count'[f]
  <2>1. log'[f]["DOWNLOAD"] \in {log[f]["DOWNLOAD"], log[f]["DOWNLOAD"] + 1}
    BY <1>0, <1>1, AuditStep
  <2>2. d \in Logging(f)
    BY <1>6 DEF LogDownload, Move, Logging, IsLogging
  <2>3. ~IsLogging(d, f)' /\ \A c \in Downloads : ~CountDownload(c)
    BY <1>6, ProcessSets DEF LogDownload, CountDownload, AfterLog, Move, Goto, IsLogging, TypeInv,
         TypeOK
  <2>4. Logging(f)' \subseteq Logging(f) \ {d}
    BY <2>3, LoggingStep DEF Logging
  <2>5. /\ IsFiniteSet(Logging(f) \ {d})
        /\ Cardinality(Logging(f) \ {d}) = Cardinality(Logging(f)) - 1
    BY <1>3, <2>2, FS_RemoveElement
  <2>6. Cardinality(Logging(f)') <= Cardinality(Logging(f) \ {d})
    BY <2>4, <2>5, FS_Subset
  <2> QED
    BY <1>1, <1>3, <1>4, <2>1, <2>5, <2>6
<1>7. CASE ~\E d \in Downloads : (CountDownload(d) \/ LogDownload(d)) /\ on[d] = f
  <2>1. log'[f]["DOWNLOAD"] = log[f]["DOWNLOAD"]
    BY <1>0, <1>7, AuditStep
  <2>2. Logging(f)' \subseteq Logging(f)
    BY <1>7, LoggingStep DEF Logging
  <2>3. Cardinality(Logging(f)') <= Cardinality(Logging(f))
    BY <1>3, <2>2, FS_Subset
  <2> QED
    BY <1>1, <1>3, <1>4, <2>1, <2>3
<1> QED
  BY <1>5, <1>6, <1>7

(* The invariant of the audit trail is kept by every step.                  *)
LEMMA AuditInvStep == TypeInv /\ AuditInv /\ [Next]_vars => AuditInv'
<1> SUFFICES ASSUME TypeInv, AuditInv, [Next]_vars PROVE AuditInv'
  OBVIOUS
<1>1. CASE UNCHANGED vars
  BY <1>1 DEF AuditInv, AuditTruthful, ExpiryHonest, RevokeHonest, DownloadsCounted, Logging,
       IsLogging,
     vars, database, processes
<1>2. CASE Next
  <2> USE <1>2
  <2>1. ExpiryHonest' /\ RevokeHonest'
    BY HonestStep DEF AuditInv
  <2>2. DownloadsCounted'
    BY DownloadsCountedStep DEF AuditInv, DownloadsCounted
  <2>3. {"BURN", "DELETE", "EXPIRE", "DOWNLOAD", "LINK_REVOKED"} \subseteq Events
    BY Constants
  <2>4. TypeInv'
    BY TypeStep
  <2>5. ASSUME NEW p \in Procs, pc[p] \notin {"idle", "done", "loop"}
        PROVE  on[p] \in Files
    BY <2>5 DEF TypeInv, Engaged
  <2>6. ASSUME NEW f \in Files
        PROVE  row'[f] = "deleted" <=> log'[f]["BURN"] + log'[f]["DELETE"] > 0
    <3>1. /\ log[f]["BURN"] \in Nat /\ log[f]["DELETE"] \in Nat
          /\ log'[f]["BURN"] \in Nat /\ log'[f]["DELETE"] \in Nat
      BY <2>3, <2>4 DEF TypeInv, TypeOK
    <3>2. row[f] = "deleted" <=> log[f]["BURN"] + log[f]["DELETE"] > 0
      BY DEF AuditInv, AuditTruthful
    <3>3. ASSUME NEW p \in Procs \ Revokes, CommitDestruction(p), on[p] = f
          PROVE  row'[f] = "deleted" /\ log'[f]["BURN"] + log'[f]["DELETE"] > 0
      <4>1. row'[f] = "deleted"
        BY <3>3 DEF CommitDestruction, RemoveRecords, TypeInv, TypeOK
      <4>2. PICK e \in {"BURN", "DELETE"} : Logged(f, e)
        BY <3>3 DEF CommitDestruction, RemoveRecords
      <4>3. log'[f][e] = log[f][e] + 1
        BY <2>3, <4>2, LogEffect DEF TypeInv, TypeOK
      <4> QED
        BY <3>1, <4>1, <4>3
    <3>4. CASE ~\E p \in Procs \ Revokes : CommitDestruction(p) /\ on[p] = f
      <4>1. log'[f]["BURN"] = log[f]["BURN"] /\ log'[f]["DELETE"] = log[f]["DELETE"]
        BY <2>3, <3>4, AuditStep
      <4>2. row'[f] = "deleted" <=> row[f] = "deleted"
        <5>1. ASSUME NEW p \in Procs \ Revokes, CommitDestruction(p) PROVE row'[f] = row[f]
          BY <3>4, <5>1 DEF CommitDestruction, RemoveRecords, TypeInv, TypeOK
        <5>2. ASSUME NEW g \in Files, InsertRecords(g)
              PROVE  row'[f] = "deleted" <=> row[f] = "deleted"
          BY <5>2 DEF InsertRecords, TypeInv, TypeOK, UploadOrder
        <5> QED
          BY <5>1, <5>2, RowStep DEF Revoke
      <4> QED
        BY <3>2, <4>1, <4>2
    <3> QED
      BY <3>3, <3>4
  <2>7. ASSUME NEW f \in Files, log'[f]["EXPIRE"] > 0 PROVE row'[f] = "deleted" /\ f \in expired'
    <3>1. CASE log[f]["EXPIRE"] > 0
      BY <3>1, DeletedStays, OnlyGrow DEF AuditInv, AuditTruthful
    <3>2. CASE \E w \in Workers : LogExpire(w) /\ on[w] = f
      BY <3>2, DeletedStays, OnlyGrow DEF AuditInv, ExpiryHonest, LogExpire, Move
    <3> QED
      BY <2>3, <2>7, <3>1, <3>2, AuditStep DEF TypeInv, TypeOK
  <2>8. ASSUME NEW f \in Files PROVE log'[f]["DOWNLOAD"] <= count'[f]
    <3>1. log'[f]["DOWNLOAD"] + Cardinality(Logging(f)') <= count'[f]
      BY <2>2 DEF DownloadsCounted
    <3>2. log'[f]["DOWNLOAD"] \in Nat /\ count'[f] \in Nat
      BY <2>3, <2>4 DEF TypeInv, TypeOK
    <3>3. Logging(f)' \in SUBSET Downloads
      BY DEF Logging
    <3>4. Cardinality(Logging(f)') \in Nat
      BY <3>3, DownloadSets
    <3> QED
      BY <3>1, <3>2, <3>4
  <2>9. ASSUME NEW f \in Files, log'[f]["LINK_REVOKED"] > 0 PROVE revoked'[f]
    <3>1. CASE log[f]["LINK_REVOKED"] > 0
      BY <3>1, DeletedStays DEF AuditInv, AuditTruthful
    <3>2. CASE \E v \in Revokes : LogRevoke(v) /\ on[v] = f
      BY <3>2, DeletedStays DEF AuditInv, RevokeHonest, LogRevoke, Move
    <3> QED
      BY <2>3, <2>9, <3>1, <3>2, AuditStep DEF TypeInv, TypeOK
  <2>10. AuditTruthful'
    BY <2>6, <2>7, <2>8, <2>9 DEF AuditTruthful
  <2> QED
    BY <2>1, <2>2, <2>10 DEF AuditInv
<1> QED
  BY <1>1, <1>2

(* The audit trail never claims what did not happen, although recordEvent   *)
(* swallows its errors and two burns of one file may overlap.               *)
THEOREM AuditIsTruthful == Spec => []AuditTruthful
<1>1. Spec => []TypeInv
  BY TypeInit, TypeStep, PTL DEF Spec
<1>2. Init => AuditInv
  <2> SUFFICES ASSUME Init PROVE AuditInv
    OBVIOUS
  <2>1. \A f \in Files : Logging(f) = {} /\ count[f] = 0 /\ row[f] = "none"
    BY ProcessSets DEF Init, Logging, IsLogging
  <2>2. \A f \in Files, e \in Events : log[f][e] = 0
    BY DEF Init
  <2>3. DownloadsCounted
    BY <2>1, <2>2, Constants, FS_EmptySet DEF DownloadsCounted
  <2>4. AuditTruthful
    BY <2>1, <2>2, Constants DEF AuditTruthful
  <2>5. ExpiryHonest /\ RevokeHonest
    BY ProcessSets DEF Init, ExpiryHonest, RevokeHonest
  <2> QED
    BY <2>3, <2>4, <2>5 DEF AuditInv
<1>3. AuditInv => AuditTruthful
  BY DEF AuditInv
<1> QED
  BY <1>1, <1>2, <1>3, AuditInvStep, PTL DEF Spec
=============================================================================
