-------------------------- MODULE FileVault_proofs --------------------------
(***************************************************************************)
(* Type correctness of FileVault, and the lemmas that the other proofs rest*)
(* on: what the control operators do, which actions change what, and that  *)
(* the step of one process leaves the others alone.  All of it holds for   *)
(* every set of files, requests and workers, every set of options and every*)
(* number of faults.                                                       *)
(***************************************************************************)
EXTENDS FileVault, TLAPS

(* A process that is at work is at work on an uploaded file.                *)
Engaged ==
  \A p \in Procs :
    pc[p] \notin {"idle", "done", "loop"} => on[p] \in Files /\ row[on[p]] # "none"

UploadOrder == \A f \in Files : row[f] = "none" <=> upload[f] # "done"

BatchUploaded == \A w \in Workers : \A f \in batch[w] : row[f] # "none"

TypeInv == TypeOK /\ Engaged /\ UploadOrder /\ BatchUploaded

ProcState ==
  /\ pc \in [Procs -> Steps]
  /\ outcome \in [Requests -> Outcomes]
  /\ snap \in [Downloads -> Snapshot]

----------------------------------------------------------------------------
(* What the control operators do to the variables they set.                 *)

(* A request that is answered stops, and nobody else moves.                 *)
LEMMA FinishEffect ==
  ASSUME ProcState, NEW r \in Requests, NEW answer \in Outcomes, Finish(r, answer)
  PROVE  /\ ProcState'
         /\ pc'[r] = "done" /\ outcome'[r] = answer
         /\ \A p \in Procs \ {r} : pc'[p] = pc[p]
         /\ \A q \in Requests \ {r} : outcome'[q] = outcome[q]
<1>1. pc' \in [Procs -> Steps]
  BY DEF ProcState, Finish, Goto, Steps, Procs
<1>2. outcome' \in [Requests -> Outcomes]
  BY DEF ProcState, Finish
<1>3. NoSnapshot \in Snapshot
  BY DEF NoSnapshot, Snapshot
<1>4. snap' \in [Downloads -> Snapshot]
  BY <1>3 DEF ProcState, Finish
<1> QED
  BY <1>1, <1>2, <1>4 DEF ProcState, Finish, Goto, Procs

(* A process that moves on leaves the others where they are.                *)
LEMMA GotoEffect ==
  ASSUME pc \in [Procs -> Steps], NEW p \in Procs, NEW to \in Steps, Goto(p, to)
  PROVE  /\ pc' \in [Procs -> Steps]
         /\ pc'[p] = to
         /\ \A q \in Procs \ {p} : pc'[q] = pc[q]
  BY DEF Goto

(* An audit event counts once, for its file and its type.                   *)
LEMMA LogEffect ==
  ASSUME log \in [Files -> [Events -> Nat]], NEW f \in Files, NEW e \in Events, Logged(f, e)
  PROVE  /\ log' \in [Files -> [Events -> Nat]]
         /\ log'[f][e] = log[f][e] + 1
         /\ \A g \in Files, x \in Events : g # f \/ x # e => log'[g][x] = log[g][x]
  BY DEF Logged

(* recordEvent adds its event or, by a fault, nothing.                      *)
LEMMA RecordEffect ==
  ASSUME log \in [Files -> [Events -> Nat]], faults \in 0..MaxFaults,
         NEW f \in Files, NEW e \in Events, RecordEvent(f, e)
  PROVE  /\ log' \in [Files -> [Events -> Nat]]
         /\ faults' \in 0..MaxFaults
         /\ log'[f][e] \in {log[f][e], log[f][e] + 1}
         /\ \A g \in Files, x \in Events : g # f \/ x # e => log'[g][x] = log[g][x]
  BY LogEffect, VaultAssumption DEF RecordEvent, Fault, NoFault

(* The three reads of findUnique keep what a download has read well typed.  *)
LEMMA ReadLinkEffect ==
  ASSUME snap \in [Downloads -> Snapshot], NEW d \in Downloads, NEW b \in BOOLEAN, NEW n \in Nat,
         snap' = [snap EXCEPT ![d].revoked = b, ![d].count = n]
  PROVE  snap' \in [Downloads -> Snapshot]
  BY DEF Snapshot

(* See ReadLinkEffect.                                                      *)
LEMMA ReadFileEffect ==
  ASSUME snap \in [Downloads -> Snapshot], NEW d \in Downloads, NEW b \in BOOLEAN,
         snap' = [snap EXCEPT ![d].deleted = b]
  PROVE  snap' \in [Downloads -> Snapshot]
  BY DEF Snapshot

(* See ReadLinkEffect.                                                      *)
LEMMA ReadKeysEffect ==
  ASSUME snap \in [Downloads -> Snapshot], NEW d \in Downloads, NEW b \in BOOLEAN,
         snap' = [snap EXCEPT ![d].key = b]
  PROVE  snap' \in [Downloads -> Snapshot]
  BY DEF Snapshot

(* The type invariant holds before the first request.                       *)
LEMMA TypeInit == Init => TypeInv
BY VaultAssumption DEF Init, TypeInv, TypeOK, Engaged, UploadOrder, BatchUploaded, Steps, Outcomes,
     NoSnapshot, Snapshot, Events, Procs

(* Who is a request and who is a process.                                   *)
LEMMA ProcessSets ==
  /\ Downloads \subseteq Requests /\ Deletes \subseteq Requests /\ Revokes \subseteq Requests
  /\ Requests \subseteq Procs /\ Workers \subseteq Procs
BY DEF Requests, Procs

(* The steps, events and answers that the actions name.                     *)
LEMMA Constants ==
  /\ {"idle", "file", "keys", "check", "read", "count", "log", "lookup", "stat", "wipe", "unlink",
      "commit", "respond", "revoke", "logRevoke", "loop", "expire", "done"} \subseteq Steps
  /\ {"UPLOAD", "DOWNLOAD", "BURN", "DELETE", "EXPIRE", "LINK_REVOKED", "FAIL_ATTEMPT"} \subseteq Events
  /\ {"ok", "TOKEN_NOT_FOUND", "FILE_NOT_FOUND", "FORBIDDEN", "INTEGRITY_CHECK_FAILED",
      "INTERNAL_ERROR", "CRASHED"} \subseteq Outcomes
BY DEF Steps, Events, Outcomes

(* Faults stay within their bound.                                          *)
LEMMA FaultEffect == ASSUME faults \in 0..MaxFaults, Fault PROVE faults' \in 0..MaxFaults
BY VaultAssumption DEF Fault

(* Every action keeps the type invariant.                                   *)
LEMMA TypeStep == TypeInv /\ [Next]_vars => TypeInv'
<1> SUFFICES ASSUME TypeInv, [Next]_vars PROVE TypeInv'
  OBVIOUS
<1> USE VaultAssumption, ProcessSets DEF TypeInv, TypeOK, Engaged, UploadOrder, BatchUploaded,
      ProcState, NoFault, database, processes, history, vars
<1>1. ASSUME NEW f \in Files, WriteCiphertext(f) PROVE TypeInv'
  BY <1>1, Constants, GotoEffect DEF WriteCiphertext, Move
<1>2. ASSUME NEW f \in Files, InsertRecords(f) PROVE TypeInv'
  <2>1. log' \in [Files -> [Events -> Nat]]
    BY <1>2, Constants, LogEffect DEF InsertRecords
  <2> QED
    BY <1>2, <2>1 DEF InsertRecords
<1>3. ASSUME NEW f \in Files, Lapse(f) PROVE TypeInv'
  BY <1>3, Constants, GotoEffect DEF Lapse, Move
<1>4. ASSUME NEW d \in Downloads, UnknownToken(d) PROVE TypeInv'
  <2>1. /\ Finish(d, "TOKEN_NOT_FOUND")
        /\ UNCHANGED <<database, log, blob, expired, upload, on, batch, history, faults>>
    BY <1>4 DEF UnknownToken
  <2>2. ProcState' /\ pc'[d] = "done" /\ \A p \in Procs \ {d} : pc'[p] = pc[p]
    BY <2>1, Constants, FinishEffect
  <2> QED
    BY <2>1, <2>2
<1>5. ASSUME NEW d \in Downloads, NEW f \in Files, ReadLink(d, f) PROVE TypeInv'
  <2>1. snap' \in [Downloads -> Snapshot]
    <3>1. revoked[f] \in BOOLEAN /\ count[f] \in Nat
      OBVIOUS
    <3>2. snap' = [snap EXCEPT ![d].revoked = revoked[f], ![d].count = count[f]]
      BY <1>5 DEF ReadLink
    <3> QED
      BY <3>1, <3>2, ReadLinkEffect
  <2>2. pc' \in [Procs -> Steps] /\ pc'[d] = "file" /\ \A p \in Procs \ {d} : pc'[p] = pc[p]
    BY <1>5, Constants, GotoEffect DEF ReadLink, Move
  <2>3. TypeOK'
    BY <1>5, <2>1, <2>2 DEF ReadLink
  <2>4. Engaged'
    BY <1>5, <2>1, <2>2 DEF ReadLink
  <2> QED
    BY <1>5, <2>3, <2>4 DEF ReadLink
<1>6. ASSUME NEW x \in Deletes, NEW f \in Files, NEW who \in Role, RequestDelete(x, f, who)
      PROVE  TypeInv'
  <2>1. CASE \E answer \in {"FILE_NOT_FOUND", "FORBIDDEN", "ok"} : Finish(x, answer)
    <3>1. ProcState' /\ pc'[x] = "done" /\ \A p \in Procs \ {x} : pc'[p] = pc[p]
      BY <2>1, Constants, FinishEffect
    <3>2. TypeOK'
      BY <1>6, <3>1 DEF RequestDelete
    <3>3. Engaged'
      BY <1>6, <3>1 DEF RequestDelete
    <3> QED
      BY <1>6, <3>2, <3>3 DEF RequestDelete
  <2>2. CASE row[f] = "live" /\ Goto(x, "stat") /\ UNCHANGED <<snap, outcome>>
    <3>1. pc' \in [Procs -> Steps] /\ pc'[x] = "stat" /\ \A p \in Procs \ {x} : pc'[p] = pc[p]
      BY <2>2, Constants, GotoEffect
    <3>2. TypeOK'
      BY <1>6, <2>2, <3>1 DEF RequestDelete
    <3>3. Engaged'
      BY <1>6, <2>2, <3>1 DEF RequestDelete
    <3> QED
      BY <1>6, <3>2, <3>3 DEF RequestDelete
  <2> QED
    BY <1>6, <2>1, <2>2 DEF RequestDelete
<1>7. ASSUME NEW v \in Revokes, NEW f \in Files, NEW who \in Role, RequestRevoke(v, f, who)
      PROVE  TypeInv'
  <2>1. CASE Finish(v, "FILE_NOT_FOUND")
    <3>1. ProcState' /\ pc'[v] = "done" /\ \A p \in Procs \ {v} : pc'[p] = pc[p]
      BY <2>1, Constants, FinishEffect
    <3> QED
      BY <1>7, <3>1 DEF RequestRevoke
  <2>2. CASE row[f] = "live" /\ Goto(v, "revoke") /\ UNCHANGED <<snap, outcome>>
    <3>1. pc' \in [Procs -> Steps] /\ pc'[v] = "revoke" /\ \A p \in Procs \ {v} : pc'[p] = pc[p]
      BY <2>2, Constants, GotoEffect
    <3>2. TypeOK'
      BY <1>7, <2>2, <3>1 DEF RequestRevoke
    <3>3. Engaged'
      BY <1>7, <2>2, <3>1 DEF RequestRevoke
    <3> QED
      BY <1>7, <3>2, <3>3 DEF RequestRevoke
  <2> QED
    BY <1>7, <2>1, <2>2 DEF RequestRevoke
<1>8. ASSUME NEW d \in Downloads, ReadFile(d) PROVE TypeInv'
  <2>1. /\ pc[d] \notin {"idle", "done", "loop"}
        /\ pc' \in [Procs -> Steps] /\ pc'[d] = "keys" /\ \A p \in Procs \ {d} : pc'[p] = pc[p]
    BY <1>8, Constants, GotoEffect DEF ReadFile, Move
  <2>2. snap' \in [Downloads -> Snapshot]
    <3>1. on[d] \in Files
      BY <2>1
    <3>2. /\ snap' = [snap EXCEPT ![d].deleted = (row[on[d]] = "deleted")]
          /\ (row[on[d]] = "deleted") \in BOOLEAN
      BY <1>8, <3>1 DEF ReadFile
    <3> QED
      BY <3>2, ReadFileEffect
  <2> QED
    BY <1>8, <2>1, <2>2 DEF ReadFile
<1>9. ASSUME NEW d \in Downloads, ReadKeys(d) PROVE TypeInv'
  <2>1. /\ pc[d] \notin {"idle", "done", "loop"}
        /\ pc' \in [Procs -> Steps] /\ pc'[d] = "check" /\ \A p \in Procs \ {d} : pc'[p] = pc[p]
    BY <1>9, Constants, GotoEffect DEF ReadKeys, Move
  <2>2. snap' \in [Downloads -> Snapshot]
    <3>1. on[d] \in Files
      BY <2>1
    <3>2. snap' = [snap EXCEPT ![d].key = key[on[d]]] /\ key[on[d]] \in BOOLEAN
      BY <1>9, <3>1 DEF ReadKeys
    <3> QED
      BY <3>2, ReadKeysEffect
  <2> QED
    BY <1>9, <2>1, <2>2 DEF ReadKeys
<1>10. ASSUME NEW d \in Downloads, Admit(d) PROVE TypeInv'
  <2>1. /\ pc[d] \notin {"idle", "done", "loop"}
        /\ pc' \in [Procs -> Steps] /\ pc'[d] \in {"read"} /\ \A q \in Procs \ {d} : pc'[q] = pc[q]
    BY <1>10, Constants, GotoEffect DEF Admit, Move
  <2> QED
    BY <1>10, <2>1 DEF Admit
<1>11. ASSUME NEW d \in Downloads, Refuse(d) PROVE TypeInv'
  <2>1. PICK passwordOk \in BOOLEAN : Finish(d, Verdict(d, passwordOk))
    BY <1>11 DEF Refuse
  <2>2. Verdict(d, passwordOk) \in Outcomes
    BY DEF Verdict, Outcomes
  <2>3. ProcState' /\ pc'[d] = "done" /\ \A p \in Procs \ {d} : pc'[p] = pc[p]
    BY <2>1, <2>2, FinishEffect
  <2>4. on[d] \in Files
    BY <1>11 DEF Refuse
  <2>5. log' \in [Files -> [Events -> Nat]] /\ faults' \in 0..MaxFaults
    BY <1>11, <2>4, Constants, RecordEffect DEF Refuse
  <2> QED
    BY <1>11, <2>3, <2>5 DEF Refuse
<1>12. ASSUME NEW d \in Downloads, ReadCiphertext(d) PROVE TypeInv'
  <2>1. /\ pc[d] \notin {"idle", "done", "loop"}
        /\ pc' \in [Procs -> Steps] /\ pc'[d] \in {"count"} /\ \A q \in Procs \ {d} : pc'[q] = pc[q]
    BY <1>12, Constants, GotoEffect DEF ReadCiphertext, Move
  <2> QED
    BY <1>12, <2>1 DEF ReadCiphertext
<1>13. ASSUME NEW d \in Downloads, CannotDecrypt(d) PROVE TypeInv'
  <2>1. PICK answer \in {"INTERNAL_ERROR", "INTEGRITY_CHECK_FAILED", "FILE_NOT_FOUND"} : Finish(d, answer)
    BY <1>13 DEF CannotDecrypt
  <2>2. ProcState' /\ pc'[d] = "done" /\ \A p \in Procs \ {d} : pc'[p] = pc[p]
    BY <2>1, Constants, FinishEffect
  <2> QED
    BY <1>13, <2>2 DEF CannotDecrypt
<1>14. ASSUME NEW d \in Downloads, CountDownload(d) PROVE TypeInv'
  <2>1. /\ pc[d] \notin {"idle", "done", "loop"}
        /\ pc' \in [Procs -> Steps] /\ pc'[d] \in {"log"} /\ \A q \in Procs \ {d} : pc'[q] = pc[q]
    BY <1>14, Constants, GotoEffect DEF CountDownload, Move
  <2>2. count' \in [Files -> Nat]
    BY <1>14, <2>1 DEF CountDownload, CountAfter
  <2> QED
    BY <1>14, <2>1, <2>2 DEF CountDownload
<1>15. ASSUME NEW d \in Downloads, LogDownload(d) PROVE TypeInv'
  <2>1. /\ pc[d] \notin {"idle", "done", "loop"}
        /\ pc' \in [Procs -> Steps] /\ pc'[d] \in {"lookup", "respond"}
        /\ \A q \in Procs \ {d} : pc'[q] = pc[q]
    BY <1>15, Constants, GotoEffect DEF LogDownload, Move, AfterLog
  <2>2. log' \in [Files -> [Events -> Nat]] /\ faults' \in 0..MaxFaults
    BY <1>15, <2>1, Constants, RecordEffect DEF LogDownload
  <2> QED
    BY <1>15, <2>1, <2>2 DEF LogDownload
<1>16. ASSUME NEW p \in Downloads \cup Workers, BurnLookup(p) PROVE TypeInv'
  <2>1. /\ pc[p] \notin {"idle", "done", "loop"}
        /\ pc' \in [Procs -> Steps] /\ pc'[p] \in {"stat", "expire", "respond"}
        /\ \A q \in Procs \ {p} : pc'[q] = pc[q]
    BY <1>16, Constants, GotoEffect DEF BurnLookup, Move, AfterBurn
  <2> QED
    BY <1>16, <2>1 DEF BurnLookup
<1>17. ASSUME NEW p \in Procs \ Revokes, Stat(p) PROVE TypeInv'
  <2>1. /\ pc[p] \notin {"idle", "done", "loop"}
        /\ pc' \in [Procs -> Steps] /\ pc'[p] \in {"commit", "wipe"}
        /\ \A q \in Procs \ {p} : pc'[q] = pc[q]
    BY <1>17, Constants, GotoEffect DEF Stat, Move
  <2> QED
    BY <1>17, <2>1 DEF Stat
<1>18. ASSUME NEW p \in Procs \ Revokes, Wipe(p) PROVE TypeInv'
  <2>1. /\ pc[p] \notin {"idle", "done", "loop"}
        /\ pc' \in [Procs -> Steps] /\ pc'[p] \in {"unlink"}
        /\ \A q \in Procs \ {p} : pc'[q] = pc[q]
    BY <1>18, Constants, GotoEffect DEF Wipe, Move
  <2> QED
    BY <1>18, <2>1 DEF Wipe
<1>19. ASSUME NEW p \in Procs \ Revokes, Unlink(p) PROVE TypeInv'
  <2>1. /\ pc[p] \notin {"idle", "done", "loop"}
        /\ pc' \in [Procs -> Steps] /\ pc'[p] \in {"commit"}
        /\ \A q \in Procs \ {p} : pc'[q] = pc[q]
    BY <1>19, Constants, GotoEffect DEF Unlink, Move
  <2> QED
    BY <1>19, <2>1 DEF Unlink
<1>20. ASSUME NEW p \in Procs \ Revokes, CommitDestruction(p) PROVE TypeInv'
  <2>1. /\ pc[p] \notin {"idle", "done", "loop"}
        /\ pc' \in [Procs -> Steps] /\ pc'[p] \in {"expire", "respond"}
        /\ \A q \in Procs \ {p} : pc'[q] = pc[q]
    BY <1>20, Constants, GotoEffect DEF CommitDestruction, Move, AfterBurn
  <2>2. log' \in [Files -> [Events -> Nat]]
    BY <1>20, <2>1, Constants, LogEffect DEF CommitDestruction, RemoveRecords
  <2> QED
    BY <1>20, <2>1, <2>2 DEF CommitDestruction, RemoveRecords
<1>21. ASSUME NEW v \in Revokes, Revoke(v) PROVE TypeInv'
  <2>1. /\ pc[v] \notin {"idle", "done", "loop"}
        /\ pc' \in [Procs -> Steps] /\ pc'[v] \in {"logRevoke"}
        /\ \A q \in Procs \ {v} : pc'[q] = pc[q]
    BY <1>21, Constants, GotoEffect DEF Revoke, Move
  <2> QED
    BY <1>21, <2>1 DEF Revoke
<1>22. ASSUME NEW v \in Revokes, LogRevoke(v) PROVE TypeInv'
  <2>1. /\ pc[v] \notin {"idle", "done", "loop"}
        /\ pc' \in [Procs -> Steps] /\ pc'[v] \in {"respond"}
        /\ \A q \in Procs \ {v} : pc'[q] = pc[q]
    BY <1>22, Constants, GotoEffect DEF LogRevoke, Move
  <2>2. log' \in [Files -> [Events -> Nat]] /\ faults' \in 0..MaxFaults
    BY <1>22, <2>1, Constants, RecordEffect DEF LogRevoke
  <2> QED
    BY <1>22, <2>1, <2>2 DEF LogRevoke
<1>23. ASSUME NEW r \in Requests, Respond(r) PROVE TypeInv'
  <2>1. /\ Finish(r, "ok")
        /\ UNCHANGED <<database, log, blob, expired, upload, on, batch, history, faults>>
    BY <1>23 DEF Respond
  <2>2. ProcState' /\ pc'[r] = "done" /\ \A p \in Procs \ {r} : pc'[p] = pc[p]
    BY <2>1, Constants, FinishEffect
  <2> QED
    BY <2>1, <2>2
<1>24. ASSUME NEW w \in Workers, NextExpired(w) PROVE TypeInv'
  <2>1. pc' \in [Procs -> Steps] /\ pc'[w] = "lookup" /\ \A q \in Procs \ {w} : pc'[q] = pc[q]
    BY <1>24, Constants, GotoEffect DEF NextExpired, Move
  <2>2. PICK f \in batch[w] : /\ on' = [on EXCEPT ![w] = f]
                              /\ batch' = [batch EXCEPT ![w] = @ \ {f}]
    BY <1>24 DEF NextExpired
  <2>3. TypeOK'
    BY <1>24, <2>1, <2>2 DEF NextExpired
  <2>4. f \in Files /\ row[f] # "none"
    BY <2>2
  <2>5. Engaged'
    BY <1>24, <2>1, <2>2, <2>4 DEF NextExpired
  <2>6. BatchUploaded'
    BY <1>24, <2>2 DEF NextExpired
  <2> QED
    BY <1>24, <2>3, <2>5, <2>6 DEF NextExpired
<1>25. ASSUME NEW w \in Workers, EndRun(w) PROVE TypeInv'
  <2>1. pc' \in [Procs -> Steps] /\ pc'[w] = "idle" /\ \A q \in Procs \ {w} : pc'[q] = pc[q]
    BY <1>25, Constants, GotoEffect DEF EndRun, Move
  <2>2. TypeOK'
    BY <1>25, <2>1 DEF EndRun
  <2>3. Engaged'
    BY <1>25, <2>1 DEF EndRun
  <2> QED
    BY <1>25, <2>2, <2>3 DEF EndRun
<1>26. ASSUME NEW w \in Workers, LogExpire(w) PROVE TypeInv'
  <2>1. /\ pc[w] \notin {"idle", "done", "loop"}
        /\ pc' \in [Procs -> Steps] /\ pc'[w] \in {"loop"} /\ \A q \in Procs \ {w} : pc'[q] = pc[q]
    BY <1>26, Constants, GotoEffect DEF LogExpire, Move
  <2>2. log' \in [Files -> [Events -> Nat]] /\ faults' \in 0..MaxFaults
    BY <1>26, <2>1, Constants, RecordEffect DEF LogExpire
  <2> QED
    BY <1>26, <2>1, <2>2 DEF LogExpire
<1>27. ASSUME NEW w \in Workers, StartRun(w) PROVE TypeInv'
  <2>1. pc' \in [Procs -> Steps] /\ pc'[w] = "loop" /\ \A q \in Procs \ {w} : pc'[q] = pc[q]
    BY <1>27, Constants, GotoEffect DEF StartRun, Move
  <2>2. PICK B \in SUBSET Pending : batch' = [batch EXCEPT ![w] = B]
    BY <1>27 DEF StartRun
  <2> QED
    BY <1>27, <2>1, <2>2 DEF StartRun, Pending
<1>28. ASSUME NEW f \in Files, UploadFails(f) PROVE TypeInv'
  <2>1. blob' \in [Files -> {"absent", "cipher", "wiped"}]
    <3>1. blob' = blob \/ blob' = [blob EXCEPT ![f] = "wiped"]
      BY <1>28 DEF UploadFails
    <3> QED
      BY <3>1
  <2>2. faults' \in 0..MaxFaults
    BY <1>28, FaultEffect DEF UploadFails
  <2> QED
    BY <1>28, <2>1, <2>2 DEF UploadFails
<1>29. ASSUME NEW d \in Downloads, DownloadFails(d) PROVE TypeInv'
  <2>1. ProcState' /\ pc'[d] = "done" /\ \A p \in Procs \ {d} : pc'[p] = pc[p]
    BY <1>29, Constants, FinishEffect DEF DownloadFails
  <2> QED
    BY <1>29, <2>1, FaultEffect DEF DownloadFails
<1>30. ASSUME NEW p \in Procs \ Revokes, SecureDeleteFails(p) PROVE TypeInv'
  <2>1. /\ pc[p] \notin {"idle", "done", "loop"}
        /\ pc' \in [Procs -> Steps] /\ pc'[p] \in {"commit"}
        /\ \A q \in Procs \ {p} : pc'[q] = pc[q]
    BY <1>30, Constants, GotoEffect DEF SecureDeleteFails, Move
  <2> QED
    BY <1>30, <2>1, FaultEffect DEF SecureDeleteFails
<1>31. ASSUME NEW p \in Procs \ Revokes, CommitFails(p) PROVE TypeInv'
  <2>1. pc[p] = "commit" /\ BurnThrows(p)
    BY <1>31 DEF CommitFails
  <2>2. p \in Requests \/ p \in Workers
    BY DEF Procs
  <2>3. ProcState' /\ pc'[p] \in {"done", "loop"} /\ \A q \in Procs \ {p} : pc'[q] = pc[q]
    BY <2>1, <2>2, Constants, FinishEffect, GotoEffect DEF BurnThrows
  <2>4. TypeOK'
    BY <1>31, <2>3, FaultEffect DEF CommitFails
  <2>5. Engaged'
    BY <1>31, <2>3 DEF CommitFails
  <2> QED
    BY <1>31, <2>4, <2>5 DEF CommitFails
<1>32. ASSUME ApiCrash PROVE TypeInv'
  <2>1. /\ pc' \in [Procs -> Steps]
        /\ \A p \in Procs : pc'[p] \in {"done", pc[p]}
    BY <1>32, Constants DEF ApiCrash
  <2>2. snap' \in [Downloads -> Snapshot] /\ outcome' \in [Requests -> Outcomes]
    BY <1>32, Constants DEF ApiCrash, NoSnapshot, Snapshot
  <2> QED
    BY <1>32, <2>1, <2>2, FaultEffect DEF ApiCrash, CutShort
<1>33. ASSUME WorkerCrash PROVE TypeInv'
  <2>1. pc' \in [Procs -> Steps]
    BY <1>33, Constants DEF WorkerCrash
  <2> QED
    BY <1>33, <2>1, FaultEffect DEF WorkerCrash, CutShort
<1>34. CASE UNCHANGED vars
  BY <1>34
<1>35. ASSUME NEW p \in Downloads \cup Workers, LookupFails(p) PROVE TypeInv'
  <2>1. pc[p] = "lookup" /\ BurnThrows(p) /\ p \in Procs /\ (p \in Requests \/ p \in Workers)
    BY <1>35 DEF LookupFails, Procs, Requests
  <2>2. ProcState' /\ pc'[p] \in {"done", "loop"} /\ \A q \in Procs \ {p} : pc'[q] = pc[q]
    BY <2>1, Constants, FinishEffect, GotoEffect DEF BurnThrows
  <2>3. TypeOK'
    BY <1>35, <2>2, FaultEffect DEF LookupFails
  <2>4. Engaged'
    BY <1>35, <2>1, <2>2 DEF LookupFails
  <2> QED
    BY <1>35, <2>3, <2>4 DEF LookupFails
<1>36. ASSUME NEW v \in Revokes, RevokeFails(v) PROVE TypeInv'
  <2>1. ProcState' /\ pc'[v] = "done" /\ \A p \in Procs \ {v} : pc'[p] = pc[p]
    BY <1>36, Constants, FinishEffect DEF RevokeFails
  <2> QED
    BY <1>36, <2>1, FaultEffect DEF RevokeFails
<1> QED
  BY <1>1, <1>2, <1>3, <1>4, <1>5, <1>6, <1>7, <1>8, <1>9, <1>10, <1>11, <1>12, <1>13, <1>14, <1>15,
     <1>16, <1>17, <1>18, <1>19, <1>20, <1>21, <1>22, <1>23, <1>24, <1>25, <1>26, <1>27, <1>28, <1>29,
     <1>30, <1>31, <1>32, <1>33, <1>34, <1>35, <1>36 DEF Next, Arrive, Step, Fail

(* Type correctness: whatever uploads, downloads, deletions, revocations,   *)
(* worker runs, crashes and lost writes do, in any number and any order,    *)
(* every variable keeps its type; the download count never goes negative    *)
(* and the audit trail names only known events.                             *)
THEOREM TypeCorrect == Spec => []TypeOK
<1>1. Spec => []TypeInv
  BY TypeInit, TypeStep, PTL DEF Spec
<1>2. TypeInv => TypeOK
  BY DEF TypeInv
<1> QED
  BY <1>1, <1>2, PTL

----------------------------------------------------------------------------
(* Frames: which actions change what.                                       *)

(* The records of a file change by upload, by destruction, by revocation.   *)
LEMMA RowStep ==
  Next => \/ UNCHANGED <<row, key, revoked>>
          \/ \E f \in Files : InsertRecords(f)
          \/ \E p \in Procs \ Revokes : CommitDestruction(p)
          \/ \E v \in Revokes : Revoke(v)
BY DEF Next, Arrive, Step, Fail, database, WriteCiphertext, Lapse, UploadFails, UnknownToken,
     ReadLink, RequestDelete, RequestRevoke, ReadFile, ReadKeys, Admit, Refuse, ReadCiphertext,
     CannotDecrypt, CountDownload, LogDownload, BurnLookup, Stat, Wipe, Unlink, LogRevoke,
     Respond, NextExpired, EndRun, LogExpire, StartRun, DownloadFails,
     LookupFails, RevokeFails, SecureDeleteFails,
     CommitFails, ApiCrash, WorkerCrash

(* The ciphertext changes by upload and by secureDelete.                    *)
LEMMA BlobStep ==
  Next => \/ UNCHANGED blob
          \/ \E f \in Files : WriteCiphertext(f) \/ UploadFails(f)
          \/ \E p \in Procs \ Revokes : Wipe(p) \/ Unlink(p)
BY DEF Next, Arrive, Step, Fail, InsertRecords, Lapse, UnknownToken, ReadLink, RequestDelete,
     RequestRevoke, ReadFile, ReadKeys, Admit, Refuse, ReadCiphertext, CannotDecrypt,
     CountDownload, LogDownload, BurnLookup, Stat, CommitDestruction, Revoke, LogRevoke,
     Respond, NextExpired, EndRun, LogExpire, StartRun, DownloadFails,
     LookupFails, RevokeFails, SecureDeleteFails,
     CommitFails, ApiCrash, WorkerCrash

(* Who writes to the audit trail.                                           *)
LEMMA LogStep ==
  Next => \/ UNCHANGED log
          \/ \E f \in Files : InsertRecords(f)
          \/ \E d \in Downloads : Refuse(d) \/ LogDownload(d)
          \/ \E p \in Procs \ Revokes : CommitDestruction(p)
          \/ \E v \in Revokes : LogRevoke(v)
          \/ \E w \in Workers : LogExpire(w)
BY DEF Next, Arrive, Step, Fail, WriteCiphertext, Lapse, UploadFails, UnknownToken, ReadLink,
     RequestDelete, RequestRevoke, ReadFile, ReadKeys, Admit, ReadCiphertext, CannotDecrypt,
     CountDownload, BurnLookup, Stat, Wipe, Unlink, Revoke, Respond, NextExpired, EndRun,
     StartRun, DownloadFails,
     LookupFails, RevokeFails, SecureDeleteFails, CommitFails, ApiCrash, WorkerCrash

(* Only a download counts.                                                  *)
LEMMA CountStep == Next => UNCHANGED count \/ \E d \in Downloads : CountDownload(d)
BY DEF Next, Arrive, Step, Fail, database, WriteCiphertext, InsertRecords, Lapse, UploadFails,
     UnknownToken, ReadLink, RequestDelete, RequestRevoke, ReadFile, ReadKeys, Admit, Refuse,
     ReadCiphertext, CannotDecrypt, LogDownload, BurnLookup, Stat, Wipe, Unlink,
     CommitDestruction, Revoke, LogRevoke, Respond, NextExpired, EndRun, LogExpire, StartRun,
     DownloadFails, LookupFails, RevokeFails, SecureDeleteFails, CommitFails, ApiCrash, WorkerCrash

(* Nobody changes what an uploader asked for.                               *)
LEMMA OptsStep == Next => UNCHANGED opts
BY DEF Next, Arrive, Step, Fail, database, WriteCiphertext, InsertRecords, Lapse, UploadFails,
     UnknownToken, ReadLink, RequestDelete, RequestRevoke, ReadFile, ReadKeys, Admit, Refuse,
     ReadCiphertext, CannotDecrypt, CountDownload, LogDownload, BurnLookup, Stat, Wipe, Unlink,
     CommitDestruction, Revoke, LogRevoke, Respond, NextExpired, EndRun, LogExpire, StartRun,
     DownloadFails, LookupFails, RevokeFails, SecureDeleteFails, CommitFails, ApiCrash, WorkerCrash

(* What becomes of an upload.                                               *)
LEMMA UploadStep ==
  Next => \/ UNCHANGED upload
          \/ \E f \in Files : WriteCiphertext(f) \/ InsertRecords(f) \/ UploadFails(f)
          \/ ApiCrash
BY DEF Next, Arrive, Step, Fail, processes, Lapse, UnknownToken, ReadLink, RequestDelete,
     RequestRevoke, ReadFile, ReadKeys, Admit, Refuse, ReadCiphertext, CannotDecrypt,
     CountDownload, LogDownload, BurnLookup, Stat, Wipe, Unlink, CommitDestruction, Revoke,
     LogRevoke, Respond, NextExpired, EndRun, LogExpire, StartRun, DownloadFails,
     LookupFails, RevokeFails,
     SecureDeleteFails, CommitFails, WorkerCrash

(* Expiry and the two histories of failure are for good.                    *)
LEMMA OnlyGrow == Next => expired \subseteq expired' /\ leaked \subseteq leaked' /\ spoiled \subseteq spoiled'
BY DEF Next, Arrive, Step, Fail, history, WriteCiphertext, InsertRecords, Lapse, UploadFails,
     UnknownToken, ReadLink, RequestDelete, RequestRevoke, ReadFile, ReadKeys, Admit, Refuse,
     ReadCiphertext, CannotDecrypt, CountDownload, LogDownload, BurnLookup, Stat, Wipe, Unlink,
     CommitDestruction, Revoke, LogRevoke, Respond, NextExpired, EndRun, LogExpire, StartRun,
     DownloadFails, LookupFails, RevokeFails, SecureDeleteFails, CommitFails, ApiCrash, WorkerCrash

Acts(p) ==
  \/ Step(p)
  \/ p \in Workers /\ StartRun(p)
  \/ p \in Downloads /\ (UnknownToken(p) \/ DownloadFails(p) \/ \E f \in Files : ReadLink(p, f))
  \/ p \in Deletes /\ \E f \in Files, who \in Role : RequestDelete(p, f, who)
  \/ p \in Revokes /\ \E f \in Files, who \in Role : RequestRevoke(p, f, who)
  \/ p \in Downloads \cup Workers /\ LookupFails(p)
  \/ p \in Revokes /\ RevokeFails(p)
  \/ p \notin Revokes /\ (SecureDeleteFails(p) \/ CommitFails(p))

Alone(p) ==
  /\ \A q \in Procs \ {p} : pc'[q] = pc[q] /\ on'[q] = on[q]
  /\ \A r \in Requests \ {p} : outcome'[r] = outcome[r]
  /\ \A w \in Workers \ {p} : batch'[w] = batch[w]
  /\ \A d \in Downloads \ {p} : snap'[d] = snap[d]

(* Every step is one of an upload or of time, of one process, or a crash.   *)
LEMMA ProcStep ==
  Next => \/ /\ UNCHANGED <<pc, on, outcome, batch>>
             /\ \E f \in Files :
                  WriteCiphertext(f) \/ InsertRecords(f) \/ Lapse(f) \/ UploadFails(f)
          \/ \E p \in Procs : Acts(p)
          \/ ApiCrash
          \/ WorkerCrash
BY DEF Next, Arrive, Fail, Acts, WriteCiphertext, Lapse, InsertRecords, UploadFails, Procs,
     Requests, processes

(* The step of one process leaves the local state of all others alone.      *)
LEMMA ActsAlone ==
  ASSUME TypeInv, NEW p \in Procs, Acts(p)
  PROVE  Alone(p)
<1>1. /\ pc \in [Procs -> Steps] /\ on \in [Procs -> Files \cup {NoFile}]
      /\ outcome \in [Requests -> Outcomes] /\ batch \in [Workers -> SUBSET Files]
      /\ snap \in [Downloads -> Snapshot]
  BY DEF TypeInv, TypeOK
<1> USE DEF Acts, Step, Move, BurnThrows, UnknownToken, ReadLink, RequestDelete, RequestRevoke,
     ReadFile, ReadKeys, Admit, Refuse,
      ReadCiphertext, CannotDecrypt, CountDownload, LogDownload, BurnLookup, Stat, Wipe, Unlink,
      CommitDestruction, Revoke, LogRevoke, Respond, NextExpired, EndRun, LogExpire, StartRun,
      DownloadFails, LookupFails, RevokeFails, SecureDeleteFails, CommitFails
<1>2. \/ UNCHANGED on
      \/ \E f : on' = [on EXCEPT ![p] = f]
  OBVIOUS
<1>3. \/ UNCHANGED batch
      \/ \E B : batch' = [batch EXCEPT ![p] = B]
  OBVIOUS
<1>4. \/ \E to : Goto(p, to) /\ UNCHANGED outcome
      \/ \E answer : Finish(p, answer)
  OBVIOUS
<1>5. \/ UNCHANGED snap
      \/ \E f \in Files : snap' = [snap EXCEPT ![p].revoked = revoked[f], ![p].count = count[f]]
      \/ \E b : snap' = [snap EXCEPT ![p].deleted = b]
      \/ \E b : snap' = [snap EXCEPT ![p].key = b]
      \/ \E answer : Finish(p, answer)
  OBVIOUS
<1> HIDE DEF Acts, Step, Move, BurnThrows, UnknownToken, ReadLink, RequestDelete, RequestRevoke,
     ReadFile, ReadKeys, Admit, Refuse,
      ReadCiphertext, CannotDecrypt, CountDownload, LogDownload, BurnLookup, Stat, Wipe, Unlink,
      CommitDestruction, Revoke, LogRevoke, Respond, NextExpired, EndRun, LogExpire, StartRun,
      DownloadFails, LookupFails, RevokeFails, SecureDeleteFails, CommitFails
<1>6. \A q \in Procs \ {p} : pc'[q] = pc[q] /\ on'[q] = on[q]
  BY <1>1, <1>2, <1>4 DEF Finish, Goto
<1>7. \A r \in Requests \ {p} : outcome'[r] = outcome[r]
  BY <1>1, <1>4 DEF Finish
<1>8. \A d \in Downloads \ {p} : snap'[d] = snap[d]
  BY <1>1, <1>5 DEF Finish
<1>9. \A w \in Workers \ {p} : batch'[w] = batch[w]
  BY <1>1, <1>3
<1> QED
  BY <1>6, <1>7, <1>8, <1>9 DEF Alone

(* No event is ever removed, and each one has its cause.                    *)
LEMMA AuditStep ==
  ASSUME TypeInv, Next, NEW f \in Files, NEW e \in Events
  PROVE  \/ log'[f][e] = log[f][e]
         \/ /\ log'[f][e] = log[f][e] + 1
            /\ \/ e \in {"UPLOAD", "FAIL_ATTEMPT"}
               \/ e = "DOWNLOAD" /\ \E d \in Downloads : LogDownload(d) /\ on[d] = f
               \/ e \in {"BURN", "DELETE"} /\ \E p \in Procs \ Revokes : CommitDestruction(p) /\ on[p] = f
               \/ e = "LINK_REVOKED" /\ \E v \in Revokes : LogRevoke(v) /\ on[v] = f
               \/ e = "EXPIRE" /\ \E w \in Workers : LogExpire(w) /\ on[w] = f
<1> USE DEF TypeInv, TypeOK
<1>1. ASSUME NEW g \in Files, NEW x \in Events, Logged(g, x)
      PROVE  log'[f][e] = log[f][e] \/ (g = f /\ x = e /\ log'[f][e] = log[f][e] + 1)
  BY <1>1, LogEffect
<1>2. ASSUME NEW g \in Files, NEW x \in Events, RecordEvent(g, x)
      PROVE  log'[f][e] = log[f][e] \/ (g = f /\ x = e /\ log'[f][e] = log[f][e] + 1)
  BY <1>1, <1>2 DEF RecordEvent
<1>3. CASE \E g \in Files : InsertRecords(g)
  BY <1>1, <1>3, Constants DEF InsertRecords
<1>4. ASSUME NEW p \in Procs, pc[p] \notin {"idle", "done", "loop"} PROVE on[p] \in Files
  BY <1>4 DEF Engaged
<1>5. CASE \E d \in Downloads : Refuse(d)
  BY <1>2, <1>4, <1>5, Constants, ProcessSets DEF Refuse
<1>6. CASE \E d \in Downloads : LogDownload(d)
  BY <1>2, <1>4, <1>6, Constants, ProcessSets DEF LogDownload, Move
<1>7. CASE \E p \in Procs \ Revokes : CommitDestruction(p)
  <2>1. PICK p \in Procs \ Revokes : CommitDestruction(p)
    BY <1>7
  <2>2. on[p] \in Files /\ \E x \in {"BURN", "DELETE"} : Logged(on[p], x)
    BY <1>4, <2>1 DEF CommitDestruction, RemoveRecords, Move
  <2> QED
    BY <1>1, <2>1, <2>2, Constants
<1>8. CASE \E v \in Revokes : LogRevoke(v)
  BY <1>2, <1>4, <1>8, Constants, ProcessSets DEF LogRevoke, Move
<1>9. CASE \E w \in Workers : LogExpire(w)
  BY <1>2, <1>4, <1>9, Constants, ProcessSets DEF LogExpire, Move
<1> QED
  BY <1>3, <1>5, <1>6, <1>7, <1>8, <1>9, LogStep

(* Who gets to unlink or to commit a destruction.                           *)
LEMMA WipingStep ==
  ASSUME TypeInv, Next, NEW p \in Procs, pc'[p] \in {"unlink", "commit"}
  PROVE  /\ on'[p] = on[p]
         /\ \/ pc[p] = pc'[p]
            \/ Wipe(p) \/ Stat(p) \/ SecureDeleteFails(p) \/ Unlink(p)
<1>1. pc \in [Procs -> Steps] /\ on \in [Procs -> Files \cup {NoFile}]
  BY DEF TypeInv, TypeOK
<1>2. CASE Acts(p)
  BY <1>1, <1>2 DEF Acts, Step, UnknownToken, ReadLink, RequestDelete, RequestRevoke, ReadFile,
       ReadKeys,
     Admit, Refuse, ReadCiphertext, CannotDecrypt, CountDownload, LogDownload, AfterLog, BurnLookup,
     AfterBurn, Stat, Wipe, Unlink, SecureDeleteFails, Revoke, LogRevoke, Respond, NextExpired, EndRun,
     LogExpire, StartRun, DownloadFails,
     LookupFails, RevokeFails, CommitFails, CommitDestruction, Goto, Move, Finish, BurnThrows
<1>3. CASE \E q \in Procs : q # p /\ Acts(q)
  BY <1>3, ActsAlone DEF Alone
<1>4. CASE UNCHANGED <<pc, on>>
  BY <1>4
<1>5. CASE ApiCrash
  BY <1>1, <1>5 DEF ApiCrash
<1>6. CASE WorkerCrash
  BY <1>1, <1>6 DEF WorkerCrash
<1> QED
  BY <1>2, <1>3, <1>4, <1>5, <1>6, ProcStep
=============================================================================
