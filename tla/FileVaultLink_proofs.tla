------------------------ MODULE FileVaultLink_proofs ------------------------
(***************************************************************************)
(* FileVault implements ShareLink; and where it does not keep what its      *)
(* documentation says, how far it strays (module Overlap).                 *)
(***************************************************************************)
EXTENDS FileVaultSafety_proofs, Overlap

----------------------------------------------------------------------------
(* Grants.                                                                  *)

(* A request that arrived in vain reads, or will read, why.                 *)
Hopeless(d) ==
  \/ snap[d].revoked
  \/ on[d] \in expired
  \/ LimitReached(on[d], snap[d].count)
  \/ row[on[d]] = "deleted" /\ (pc[d] = "file" \/ snap[d].deleted)

Rightful(d) ==
  /\ pc[d] = "idle" => d \notin granted
  /\ pc[d] \in {"read", "count", "log", "lookup", "stat", "wipe", "unlink", "commit", "respond"} =>
       d \in granted
  /\ pc[d] \in {"file", "keys", "check"} => d \in granted \/ Hopeless(d)

GrantInv == \A d \in Downloads : Rightful(d)

(* Only arriving is granted.                                                *)
LEMMA GrantedStep ==
  Next => UNCHANGED granted \/ \E d \in Downloads, f \in Files : ReadLink(d, f)
BY DEF Next, Arrive, Step, Fail, history, WriteCiphertext, InsertRecords, Lapse, UploadFails,
   UnknownToken, RequestDelete, RequestRevoke, ReadFile, ReadKeys, Admit, Refuse,
   ReadCiphertext, CannotDecrypt, CountDownload, LogDownload, BurnLookup, Stat, Wipe, Unlink,
   CommitDestruction, Revoke, LogRevoke, Respond, NextExpired, EndRun, LogExpire, StartRun,
   DownloadFails, LookupFails, RevokeFails, SecureDeleteFails, CommitFails, ApiCrash, WorkerCrash

(* The rightfulness of one download survives every step.                    *)
LEMMA RightfulStep ==
  ASSUME TypeInv, Next, NEW d \in Downloads, Rightful(d)
  PROVE  Rightful(d)'
<1>1. /\ pc \in [Procs -> Steps] /\ d \in Procs /\ d \in Requests
      /\ d \notin Workers \cup Revokes \cup Deletes
      /\ on \in [Procs -> Files \cup {NoFile}] /\ snap \in [Downloads -> Snapshot]
  BY VaultAssumption DEF TypeInv, TypeOK, Procs, Requests
<1>2. UNCHANGED opts /\ expired \subseteq expired'
  BY OptsStep, OnlyGrow
<1>3. \A f \in Files : row[f] = "deleted" => row'[f] = "deleted"
  BY DeletedStays
<1>4. pc[d] \notin {"idle", "done", "loop"} => on[d] \in Files
  BY <1>1 DEF TypeInv, Engaged
<1>5. ASSUME pc'[d] = pc[d], on'[d] = on[d], snap'[d] = snap[d], d \in granted' <=> d \in granted
      PROVE  Rightful(d)'
  BY <1>2, <1>3, <1>4, <1>5 DEF Rightful, Hopeless, LimitReached, MaxDownloads
<1>6. CASE Acts(d)
  <2>1. CASE \E f \in Files : ReadLink(d, f)
    <3>1. PICK f \in Files : ReadLink(d, f)
      BY <2>1
    <3>2. /\ pc'[d] = "file" /\ on'[d] = f
          /\ snap'[d].revoked = revoked[f] /\ snap'[d].count = count[f]
      BY <1>1, <3>1 DEF ReadLink, Move, Goto, Snapshot
    <3>3. Available(f) => d \in granted'
      BY <3>1 DEF ReadLink
    <3>4. UNCHANGED <<row, expired>> /\ row[f] \in {"live", "deleted"}
      BY <3>1 DEF ReadLink, database, TypeInv, TypeOK
    <3> QED
      BY <1>2, <3>2, <3>3, <3>4 DEF Rightful, Hopeless, Available, LimitReached, MaxDownloads
  <2>2. CASE ReadFile(d)
    <3>1. /\ pc[d] = "file" /\ pc'[d] = "keys" /\ on'[d] = on[d]
          /\ snap'[d].deleted = (row[on[d]] = "deleted")
          /\ snap'[d].revoked = snap[d].revoked /\ snap'[d].count = snap[d].count
          /\ UNCHANGED <<granted, row>>
      BY <1>1, <2>2 DEF ReadFile, Move, Goto, Snapshot, database, history
    <3> QED
      BY <1>2, <3>1 DEF Rightful, Hopeless, LimitReached, MaxDownloads
  <2>3. CASE ReadKeys(d)
    <3>1. /\ pc[d] = "keys" /\ pc'[d] = "check" /\ on'[d] = on[d]
          /\ snap'[d].deleted = snap[d].deleted
          /\ snap'[d].revoked = snap[d].revoked /\ snap'[d].count = snap[d].count
          /\ UNCHANGED <<granted, row>>
      BY <1>1, <2>3 DEF ReadKeys, Move, Goto, Snapshot, database, history
    <3> QED
      BY <1>2, <3>1 DEF Rightful, Hopeless, LimitReached, MaxDownloads
  <2>4. CASE Admit(d)
    <3>1. pc[d] = "check" /\ pc'[d] = "read" /\ UNCHANGED granted
      BY <1>1, <2>4 DEF Admit, Move, Goto, history
    <3>2. PICK passwordOk \in BOOLEAN : Verdict(d, passwordOk) = "none"
      BY <2>4 DEF Admit
    <3>3. ~Hopeless(d)
      BY <3>1, <3>2 DEF Verdict, Hopeless
    <3> QED
      BY <3>1, <3>3 DEF Rightful
  <2>5. CASE ~(ReadFile(d) \/ ReadKeys(d) \/ Admit(d) \/ \E f \in Files : ReadLink(d, f))
    <3>1. UNCHANGED granted
      BY <1>6, <2>5 DEF Acts, Step, UnknownToken, ReadLink, RequestDelete, RequestRevoke,
         ReadFile, ReadKeys, Admit, Refuse, ReadCiphertext, CannotDecrypt, CountDownload,
         LogDownload, BurnLookup, Stat, Wipe, Unlink, CommitDestruction, Revoke, LogRevoke,
         Respond, NextExpired, EndRun, LogExpire, StartRun, DownloadFails,
         LookupFails, RevokeFails, SecureDeleteFails,
         CommitFails, AfterLog, AfterBurn, Goto, Move, Finish, BurnThrows, history
    <3>2. \/ pc'[d] = "done"
          \/ /\ pc[d] \in {"read", "count", "log", "lookup", "stat", "wipe", "unlink", "commit"}
             /\ pc'[d] \in {"count", "log", "lookup", "stat", "wipe", "unlink", "commit", "respond"}
      BY <1>1, <1>6, <2>5 DEF Acts, Step, UnknownToken, ReadLink, RequestDelete, RequestRevoke,
         ReadFile, ReadKeys, Admit, Refuse, ReadCiphertext, CannotDecrypt, CountDownload,
         LogDownload, BurnLookup, Stat, Wipe, Unlink, CommitDestruction, Revoke, LogRevoke,
         Respond, NextExpired, EndRun, LogExpire, StartRun, DownloadFails,
         LookupFails, RevokeFails, SecureDeleteFails,
         CommitFails, AfterLog, AfterBurn, Goto, Move, Finish, BurnThrows
    <3> QED
      BY <3>1, <3>2 DEF Rightful
  <2> QED
    BY <2>1, <2>2, <2>3, <2>4, <2>5
<1>7. CASE \E q \in Procs : q # d /\ Acts(q)
  <2>1. PICK q \in Procs : q # d /\ Acts(q)
    BY <1>7
  <2>2. pc'[d] = pc[d] /\ on'[d] = on[d] /\ snap'[d] = snap[d]
    BY <1>1, <2>1, ActsAlone DEF Alone
  <2>3. ASSUME NEW c \in Downloads, NEW f \in Files, ReadLink(c, f) PROVE c # d
    BY <1>1, <2>2, <2>3 DEF ReadLink, Move, Goto
  <2>4. d \in granted' <=> d \in granted
    BY <2>3, GrantedStep DEF ReadLink
  <2> QED
    BY <1>5, <2>2, <2>4
<1>8. CASE \E f \in Files : WriteCiphertext(f) \/ InsertRecords(f) \/ Lapse(f) \/ UploadFails(f)
  BY <1>5, <1>8 DEF WriteCiphertext, InsertRecords, Lapse, UploadFails, processes, history
<1>9. CASE ApiCrash
  BY <1>1, <1>9 DEF ApiCrash, Active, Rightful
<1>10. CASE WorkerCrash
  BY <1>1, <1>5, <1>10 DEF WorkerCrash
<1> QED
  BY <1>6, <1>7, <1>8, <1>9, <1>10, ProcStep

(* A download gets past the checks only if it was granted at its arrival.   *)
LEMMA GrantInvStep == TypeInv /\ GrantInv /\ [Next]_vars => GrantInv'
<1> SUFFICES ASSUME TypeInv, GrantInv, [Next]_vars PROVE GrantInv'
  OBVIOUS
<1>1. CASE Next
  BY <1>1, RightfulStep DEF GrantInv
<1>2. CASE UNCHANGED vars
  BY <1>2 DEF GrantInv, Rightful, Hopeless, LimitReached, MaxDownloads, vars, database, processes,
       history
<1> QED
  BY <1>1, <1>2

----------------------------------------------------------------------------
(* The abstract state.                                                      *)

Links == [f \in Files |-> LinkState(f)]

OneTimes == {f \in Files : row[f] # "none" /\ OneTime(f)}

Grants == [d \in Downloads |-> IF Granted(d) THEN on[d] ELSE NoFile]

Delivered == {d \in Downloads : outcome[d] = "ok"}

(* A link never reopens.                                                    *)
LEMMA LinkMoves ==
  ASSUME TypeInv, Next, NEW f \in Files
  PROVE  \/ LinkState(f)' = LinkState(f)
         \/ LinkState(f) = "open" /\ LinkState(f)' = "closed"
         \/ LinkState(f) = "unborn" /\ LinkState(f)' \in {"open", "closed"}
<1>1. UNCHANGED opts /\ expired \subseteq expired' /\ count'[f] >= count[f]
  BY OptsStep, OnlyGrow, CountGrows
<1>2. /\ row[f] = "deleted" => row'[f] = "deleted"
      /\ row[f] # "none" => row'[f] # "none"
      /\ revoked[f] => revoked'[f]
      /\ row[f] \in {"none", "live", "deleted"} /\ row'[f] \in {"none", "live", "deleted"}
      /\ count[f] \in Nat /\ count'[f] \in Nat
      /\ opts[f] \in Option
  BY DeletedStays, TypeStep DEF TypeInv, TypeOK
<1>3. MaxDownloads(f) \in Int /\ MaxDownloads(f)' = MaxDownloads(f)
  BY <1>1, <1>2, VaultAssumption DEF MaxDownloads, Option
<1>4. LimitReached(f, count[f]) => LimitReached(f, count[f])'
  BY <1>1, <1>2, <1>3 DEF LimitReached
<1>5. row[f] # "none" /\ ~Available(f) => ~Available(f)'
  BY <1>1, <1>2, <1>4 DEF Available
<1>6. LinkState(f) = "unborn" \/ LinkState(f)' # "unborn"
  BY <1>2 DEF LinkState
<1>7. LinkState(f) = "closed" => LinkState(f)' = "closed"
  BY <1>2, <1>5 DEF LinkState
<1>8. LinkState(f) \in {"unborn", "open", "closed"} /\ LinkState(f)' \in {"unborn", "open", "closed"}
  BY DEF LinkState
<1> QED
  BY <1>6, <1>7, <1>8

(* A step that leaves the tables and expiry alone leaves the links alone.   *)
LEMMA LinksSame ==
  ASSUME UNCHANGED <<row, opts, revoked, count, expired>>
  PROVE  Links' = Links /\ OneTimes' = OneTimes
<1>1. \A f \in Files : LinkState(f)' = LinkState(f)
  BY DEF LinkState, Available, LimitReached, MaxDownloads
<1> QED
  BY <1>1 DEF Links, OneTimes, OneTime

(* A step that leaves files, answers and histories alone leaves the grants alone. *)
LEMMA GrantsSame ==
  ASSUME UNCHANGED granted,
         \A d \in Downloads : /\ on'[d] = on[d] /\ outcome'[d] = outcome[d]
                              /\ pc'[d] = "done" <=> pc[d] = "done"
  PROVE  Grants' = Grants /\ Delivered' = Delivered
<1>1. \A d \in Downloads : Granted(d)' = Granted(d) /\ on'[d] = on[d]
  BY DEF Granted
<1> QED
  BY <1>1 DEF Grants, Delivered

(* A step that closes, at most, the link of f.                              *)
LEMMA ClosesAtMost ==
  ASSUME TypeInv, Next, NEW f \in Files, row[f] # "none",
         \A g \in Files \ {f} : LinkState(g)' = LinkState(g),
         OneTimes' = OneTimes, Grants' = Grants, Delivered' = Delivered
  PROVE  Promise!Close(f) \/ UNCHANGED <<Links, OneTimes, Grants, Delivered>>
<1>1. LinkState(f) # "unborn"
  BY DEF LinkState
<1>2. CASE LinkState(f)' = LinkState(f)
  BY <1>2 DEF Links
<1>3. CASE LinkState(f) = "open" /\ LinkState(f)' = "closed"
  <2>1. Links[f] = "open"
    BY <1>3 DEF Links
  <2>2. Links' = [Links EXCEPT ![f] = "closed"]
    BY <1>3 DEF Links
  <2> QED
    BY <2>1, <2>2 DEF Promise!Close, Links, OneTimes, Grants, Delivered
<1> QED
  BY <1>1, <1>2, <1>3, LinkMoves

(* Initial states map to initial states.                                    *)
LEMMA LinkInit == Init => Promise!Init
<1> SUFFICES ASSUME Init PROVE Promise!Init
  OBVIOUS
<1>1. \A f \in Files : LinkState(f) = "unborn" /\ row[f] = "none"
  BY DEF Init, LinkState
<1>2. \A d \in Downloads : ~Granted(d) /\ outcome[d] # "ok"
  BY ProcessSets DEF Init, Granted
<1> QED
  BY <1>1, <1>2 DEF Promise!Init

AbstractStep == Promise!Next \/ UNCHANGED <<Links, OneTimes, Grants, Delivered>>

(* Uploading, and the passing of time.                                      *)
LEMMA UploadRefines ==
  ASSUME TypeInv, Next, NEW f \in Files,
         WriteCiphertext(f) \/ InsertRecords(f) \/ Lapse(f) \/ UploadFails(f)
  PROVE  AbstractStep
<1>1. Grants' = Grants /\ Delivered' = Delivered
  <2>1. UNCHANGED <<pc, on, outcome, granted>>
    BY DEF WriteCiphertext, InsertRecords, Lapse, UploadFails, processes, history
  <2> QED
    BY <2>1, GrantsSame
<1>2. CASE WriteCiphertext(f) \/ UploadFails(f)
  BY <1>1, <1>2, LinksSame DEF AbstractStep, WriteCiphertext, UploadFails, database
<1>3. CASE InsertRecords(f)
  <2>1. /\ row[f] = "none" /\ row'[f] = "live"
        /\ \A g \in Files \ {f} : row'[g] = row[g]
        /\ UNCHANGED <<opts, revoked, count, expired>>
    BY <1>3 DEF InsertRecords, TypeInv, TypeOK, UploadOrder
  <2>2. \A g \in Files \ {f} : LinkState(g)' = LinkState(g)
    BY <2>1 DEF LinkState, Available, LimitReached, MaxDownloads
  <2>3. LinkState(f) = "unborn" /\ LinkState(f)' \in {"open", "closed"}
    BY <2>1 DEF LinkState
  <2>4. Links[f] = "unborn" /\ Links' = [Links EXCEPT ![f] = LinkState(f)']
    BY <2>2, <2>3 DEF Links
  <2>5. OneTimes' \in {OneTimes, OneTimes \cup {f}}
    BY <2>1 DEF OneTimes, OneTime
  <2>6. Promise!Offer(f)
    BY <1>1, <2>3, <2>4, <2>5 DEF Promise!Offer, Links, OneTimes, Grants, Delivered
  <2> QED
    BY <2>6 DEF AbstractStep, Promise!Next
<1>4. CASE Lapse(f)
  <2>1. row[f] # "none" /\ UNCHANGED database /\ expired' = expired \cup {f}
    BY <1>4 DEF Lapse
  <2>2. \A g \in Files \ {f} : LinkState(g)' = LinkState(g)
    BY <2>1 DEF LinkState, Available, LimitReached, MaxDownloads, database
  <2>3. OneTimes' = OneTimes
    BY <2>1 DEF OneTimes, OneTime, database
  <2> QED
    BY <1>1, <2>1, <2>2, <2>3, ClosesAtMost DEF AbstractStep, Promise!Next
<1> QED
  BY <1>2, <1>3, <1>4

(* The steps that may close a link.                                         *)
Closing(p) ==
  \/ p \notin Revokes /\ CommitDestruction(p)
  \/ p \in Downloads /\ CountDownload(p)
  \/ p \in Revokes /\ Revoke(p)

(* Destroying, counting and revoking close a link, or change nothing above. *)
LEMMA ClosingRefines ==
  ASSUME TypeInv, Next, NEW p \in Procs, Closing(p)
  PROVE  AbstractStep
<1>1. on[p] \in Files /\ row[on[p]] # "none"
  BY DEF Closing, CommitDestruction, CountDownload, Revoke, Move, TypeInv, Engaged
<1>2. Grants' = Grants /\ Delivered' = Delivered
  <2>1. UNCHANGED <<on, outcome, granted>>
    BY DEF Closing, CommitDestruction, CountDownload, Revoke, history
  <2>2. \A d \in Downloads : pc'[d] = "done" <=> pc[d] = "done"
    BY ProcessSets DEF Closing, CommitDestruction, CountDownload, Revoke, Move, Goto, AfterBurn,
       TypeInv, TypeOK
  <2> QED
    BY <2>1, <2>2, GrantsSame
<1>3. UNCHANGED <<opts, expired>>
  BY DEF Closing, CommitDestruction, CountDownload, Revoke
<1>4. \A g \in Files \ {on[p]} : row'[g] = row[g] /\ revoked'[g] = revoked[g] /\ count'[g] = count[g]
  BY DEF Closing, CommitDestruction, RemoveRecords, CountDownload, Revoke, TypeInv, TypeOK
<1>5. \A g \in Files \ {on[p]} : LinkState(g)' = LinkState(g)
  BY <1>3, <1>4 DEF LinkState, Available, LimitReached, MaxDownloads
<1>6. row'[on[p]] # "none"
  BY <1>1, DeletedStays
<1>7. OneTimes' = OneTimes
  BY <1>1, <1>3, <1>4, <1>6 DEF OneTimes, OneTime
<1> QED
  BY <1>1, <1>2, <1>5, <1>7, ClosesAtMost DEF AbstractStep, Promise!Next

(* Arriving at an open link is Grant, at a closed one a stutter.            *)
LEMMA ArrivalRefines ==
  ASSUME TypeInv, GrantInv, Next, NEW d \in Downloads, NEW f \in Files, ReadLink(d, f)
  PROVE  AbstractStep
<1>1. Links' = Links /\ OneTimes' = OneTimes
  BY LinksSame DEF ReadLink, database
<1>2. /\ pc[d] = "idle" /\ pc'[d] = "file" /\ on'[d] = f /\ d \notin granted
      /\ UNCHANGED outcome
      /\ \A c \in Downloads \ {d} : pc'[c] = pc[c] /\ on'[c] = on[c]
  BY ProcessSets DEF ReadLink, Move, Goto, TypeInv, TypeOK, GrantInv, Rightful
<1>3. Delivered' = Delivered
  BY <1>2 DEF Delivered
<1>4. granted' = IF Available(f) THEN granted \cup {d} ELSE granted
  BY DEF ReadLink
<1>5. \A c \in Downloads \ {d} : Granted(c)' = Granted(c)
  BY <1>2, <1>4 DEF Granted
<1>6. ~Granted(d)
  BY <1>2 DEF Granted
<1>7. CASE Available(f)
  <2>1. Granted(d)'
    BY <1>2, <1>4, <1>7 DEF Granted
  <2>2. Grants' = [Grants EXCEPT ![d] = f] /\ Grants[d] = NoFile
    BY <1>2, <1>5, <1>6, <2>1 DEF Grants
  <2>3. Links[f] = "open"
    BY <1>7 DEF Links, LinkState, Available
  <2>4. Promise!Grant(d, f)
    BY <1>1, <1>3, <2>2, <2>3 DEF Promise!Grant, Links, OneTimes, Grants, Delivered
  <2> QED
    BY <2>4 DEF AbstractStep, Promise!Next
<1>8. CASE ~Available(f)
  <2>1. ~Granted(d)'
    BY <1>2, <1>4, <1>8 DEF Granted
  <2>2. Grants' = Grants
    BY <1>2, <1>5, <1>6, <2>1 DEF Grants
  <2> QED
    BY <1>1, <1>3, <2>2 DEF AbstractStep
<1> QED
  BY <1>7, <1>8

(* Answering is Deliver.                                                    *)
LEMMA AnswerRefines ==
  ASSUME TypeInv, GrantInv, OneTimeInv, Next, NEW d \in Downloads, Respond(d)
  PROVE  AbstractStep
<1>1. Links' = Links /\ OneTimes' = OneTimes
  BY LinksSame DEF Respond, database
<1>2. /\ pc[d] = "respond" /\ pc'[d] = "done" /\ outcome'[d] = "ok" /\ d \in granted
      /\ UNCHANGED <<on, granted>>
      /\ \A c \in Downloads \ {d} : pc'[c] = pc[c] /\ outcome'[c] = outcome[c]
  BY ProcessSets DEF Respond, Finish, Goto, TypeInv, TypeOK, GrantInv, Rightful, history
<1>3. on[d] \in Files /\ row[on[d]] # "none"
  BY <1>2, ProcessSets DEF TypeInv, Engaged
<1>4. \A c \in Downloads : Granted(c)' = Granted(c)
  BY <1>2 DEF Granted
<1>5. Grants' = Grants /\ Grants[d] = on[d]
  BY <1>2, <1>4 DEF Grants, Granted
<1>6. Delivered' = Delivered \cup {d}
  BY <1>2 DEF Delivered
<1>7. on[d] \in OneTimes => Links[on[d]] = "closed"
  BY <1>2, <1>3 DEF OneTimes, Links, LinkState, Available, OneTimeInv, OneTimeReady
<1>8. on[d] # NoFile
  BY <1>3, VaultAssumption
<1>9. Promise!Deliver(d)
  BY <1>1, <1>5, <1>6, <1>7, <1>8 DEF Promise!Deliver, Links, OneTimes, Grants, Delivered
<1> QED
  BY <1>9 DEF AbstractStep, Promise!Next

(* Requests that fail, alone or all at once.                                *)
LEMMA WithdrawalRefines ==
  ASSUME TypeInv, NEW D \in SUBSET Downloads,
         UNCHANGED <<row, opts, revoked, count, expired, granted>>,
         \A d \in D : outcome[d] # "ok" /\ outcome'[d] # "ok" /\ pc'[d] = "done",
         \A d \in Downloads \ D : /\ on'[d] = on[d] /\ outcome'[d] = outcome[d]
                                  /\ pc'[d] = "done" <=> pc[d] = "done"
  PROVE  AbstractStep
<1>1. Links' = Links /\ OneTimes' = OneTimes
  BY LinksSame
<1>2. Delivered' = Delivered /\ D \cap Delivered = {}
  BY DEF Delivered
<1>3. Grants' = [d \in Downloads |-> IF d \in D THEN NoFile ELSE Grants[d]]
  <2>1. \A d \in D : ~Granted(d)'
    BY DEF Granted
  <2>2. \A d \in Downloads \ D : Granted(d)' = Granted(d) /\ on'[d] = on[d]
    BY DEF Granted
  <2> QED
    BY <2>1, <2>2 DEF Grants
<1>4. Promise!Withdraw(D)
  BY <1>1, <1>2, <1>3 DEF Promise!Withdraw, Links, OneTimes, Grants, Delivered
<1> QED
  BY <1>4 DEF AbstractStep, Promise!Next

(* What a request or a worker run does apart from that.                     *)
LEMMA QuietRefines ==
  ASSUME TypeInv, OneTimeInv, Next, NEW p \in Procs, Acts(p), ~Closing(p),
         \A d \in Downloads : d = p => ~Respond(d) /\ \A f \in Files : ~ReadLink(d, f)
  PROVE  AbstractStep
<1>1. UNCHANGED <<row, opts, revoked, count, expired, granted>>
  BY ZenonT(60)
     DEF Closing, Acts, Step, UnknownToken, ReadLink, RequestDelete, RequestRevoke, ReadFile, ReadKeys,
     Admit, Refuse, ReadCiphertext, CannotDecrypt, CountDownload, LogDownload,
     BurnLookup, Stat, Wipe, Unlink, CommitDestruction, Revoke, LogRevoke, Respond, NextExpired,
     EndRun, LogExpire, StartRun, DownloadFails,
     LookupFails, RevokeFails, SecureDeleteFails, CommitFails, AfterLog,
     AfterBurn, Goto, Move, Finish, BurnThrows, database, history
<1>2. Alone(p)
  BY ActsAlone
<1>3. CASE p \in Downloads
  <2>1. /\ pc \in [Procs -> Steps] /\ outcome \in [Requests -> Outcomes]
        /\ p \in Requests /\ p \notin Workers \cup Revokes \cup Deletes
    BY <1>3, VaultAssumption DEF TypeInv, TypeOK, Requests
  <2>2. \A passwordOk \in BOOLEAN : Verdict(p, passwordOk) # "ok"
    BY DEF Verdict
  <2>3. \/ pc[p] # "done" /\ pc'[p] = "done" /\ outcome'[p] # "ok"
        \/ on'[p] = on[p] /\ outcome'[p] = outcome[p] /\ pc'[p] # "done" /\ pc[p] # "done"
    BY <1>3, <2>1, <2>2, ZenonT(60) DEF Closing, Acts, Step, UnknownToken, ReadLink, RequestDelete,
       RequestRevoke, ReadFile, ReadKeys, Admit, Refuse, ReadCiphertext, CannotDecrypt,
       CountDownload, LogDownload, BurnLookup, Stat, Wipe, Unlink, CommitDestruction, Revoke,
       LogRevoke, Respond, NextExpired, EndRun, LogExpire, StartRun, DownloadFails,
       LookupFails, RevokeFails,
       SecureDeleteFails, CommitFails, AfterLog, AfterBurn, Goto, Move, Finish, BurnThrows
  <2>4. \A d \in Downloads \ {p} : pc'[d] = pc[d] /\ on'[d] = on[d] /\ outcome'[d] = outcome[d]
    BY <1>2, ProcessSets DEF Alone
  <2>5. CASE pc[p] # "done" /\ pc'[p] = "done" /\ outcome'[p] # "ok"
    <3>1. outcome[p] # "ok"
      BY <2>1, <2>5 DEF OneTimeInv, AnsweredIsDone
    <3> QED
      BY <1>1, <1>3, <2>4, <2>5, <3>1, WithdrawalRefines
  <2>6. CASE on'[p] = on[p] /\ outcome'[p] = outcome[p] /\ pc'[p] # "done" /\ pc[p] # "done"
    BY <1>1, <2>4, <2>6, GrantsSame, LinksSame DEF AbstractStep
  <2> QED
    BY <2>3, <2>5, <2>6
<1>4. CASE p \notin Downloads
  <2>1. \A d \in Downloads : pc'[d] = pc[d] /\ on'[d] = on[d] /\ outcome'[d] = outcome[d]
    BY <1>2, <1>4, ProcessSets DEF Alone
  <2> QED
    BY <1>1, <2>1, GrantsSame, LinksSame DEF AbstractStep
<1> QED
  BY <1>3, <1>4

(* A crash of the API withdraws every request under way.                    *)
LEMMA CrashRefines ==
  ASSUME TypeInv, OneTimeInv, Next, ApiCrash \/ WorkerCrash
  PROVE  AbstractStep
<1>1. UNCHANGED <<row, opts, revoked, count, expired, granted>>
  BY DEF ApiCrash, WorkerCrash, database
<1>2. \A d \in Downloads : d \in Requests /\ d \in Procs /\ d \notin Workers
  BY VaultAssumption DEF Requests, Procs
<1>3. CASE ApiCrash
  <2> DEFINE D == {d \in Downloads : Active(d)}
  <2>1. \A d \in D : outcome[d] # "ok" /\ outcome'[d] # "ok" /\ pc'[d] = "done"
    BY <1>2, <1>3 DEF ApiCrash, Active, OneTimeInv, AnsweredIsDone
  <2>2. \A d \in Downloads \ D : on'[d] = on[d] /\ outcome'[d] = outcome[d] /\ pc'[d] = pc[d]
    BY <1>2, <1>3 DEF ApiCrash
  <2>3. D \in SUBSET Downloads
    OBVIOUS
  <2> HIDE DEF D
  <2> QED
    BY <1>1, <2>1, <2>2, <2>3, WithdrawalRefines
<1>4. CASE WorkerCrash
  <2>1. \A d \in Downloads : on'[d] = on[d] /\ outcome'[d] = outcome[d] /\ pc'[d] = pc[d]
    BY <1>2, <1>4 DEF WorkerCrash
  <2> QED
    BY <1>1, <2>1, GrantsSame, LinksSame DEF AbstractStep
<1> QED
  BY <1>3, <1>4

(* Every step maps to a step of ShareLink or to a stutter.                  *)
LEMMA LinkStep == TypeInv /\ OneTimeInv /\ GrantInv /\ [Next]_vars => [Promise!Next]_(Promise!vars)
<1> SUFFICES ASSUME TypeInv, OneTimeInv, GrantInv, [Next]_vars PROVE AbstractStep
  BY DEF AbstractStep, Promise!vars, Links, OneTimes, Grants, Delivered
<1>1. CASE UNCHANGED vars
  BY <1>1, LinksSame, GrantsSame DEF AbstractStep, vars, database, processes, history
<1>2. CASE Next
  <2>1. ASSUME NEW p \in Procs, Acts(p) PROVE AbstractStep
    <3>1. CASE p \in Downloads /\ \E f \in Files : ReadLink(p, f)
      BY <1>2, <3>1, ArrivalRefines
    <3>2. CASE p \in Downloads /\ Respond(p)
      BY <1>2, <3>2, AnswerRefines
    <3>3. CASE Closing(p)
      BY <1>2, <2>1, <3>3, ClosingRefines
    <3>4. CASE /\ ~Closing(p)
               /\ \A d \in Downloads : d = p => ~Respond(d) /\ \A f \in Files : ~ReadLink(d, f)
      BY <1>2, <2>1, <3>4, QuietRefines
    <3> QED
      BY <3>1, <3>2, <3>3, <3>4
  <2> QED
    BY <1>2, <2>1, ProcStep, UploadRefines, CrashRefines
<1> QED
  BY <1>1, <1>2

(* FileVault implements ShareLink: every answered download was granted at   *)
(* the instant it read its link, while the link was live, unrevoked,        *)
(* unexpired and below its limit; links never reopen, and a one-time link   *)
(* is closed before it delivers.                                            *)
THEOREM LinkPromiseKept == Spec => KeepsLinkPromise
<1>1. Spec => []TypeInv
  BY TypeInit, TypeStep, PTL DEF Spec
<1>2. Spec => []OneTimeInv
  BY <1>1, OneTimeInit, OneTimeStep, PTL DEF Spec
<1>3. Init => GrantInv
  BY ProcessSets DEF Init, GrantInv, Rightful
<1>4. Spec => []GrantInv
  BY <1>1, <1>3, GrantInvStep, PTL DEF Spec
<1> QED
  BY <1>1, <1>2, <1>4, LinkInit, LinkStep, PTL DEF Spec, Promise!Spec, KeepsLinkPromise

----------------------------------------------------------------------------
(* Overlaps.                                                                *)

(* What happens to a finite set that loses an element.                      *)
LEMMA Shrinks ==
  ASSUME NEW S, IsFiniteSet(S), NEW x \in S, NEW T, T \subseteq S \ {x}
  PROVE  Cardinality(S) \in Nat /\ Cardinality(T) \in Nat /\ Cardinality(T) < Cardinality(S)
<1>1. IsFiniteSet(S \ {x}) /\ Cardinality(S \ {x}) = Cardinality(S) - 1
  BY FS_RemoveElement
<1>2. IsFiniteSet(T) /\ Cardinality(T) <= Cardinality(S \ {x})
  BY <1>1, FS_Subset
<1> QED
  BY <1>1, <1>2, FS_CardinalityType

(* The sets that the history measures are finite.                           *)
LEMMA OverlapSets ==
  ASSUME NEW f \in Files
  PROVE  /\ IsFiniteSet(Downloading(f)) /\ IsFiniteSet(Destroying(f))
         /\ IsFiniteSet(Downloading(f)') /\ IsFiniteSet(Destroying(f)')
<1>1. IsFiniteSet(Downloads) /\ IsFiniteSet(Downloads \cup Deletes \cup Workers)
  BY VaultAssumption, OverlapAssumption, FS_Union
<1>2. /\ Downloading(f) \subseteq Downloads /\ Downloading(f)' \subseteq Downloads
      /\ Destroying(f) \subseteq Downloads \cup Deletes \cup Workers
      /\ Destroying(f)' \subseteq Downloads \cup Deletes \cup Workers
  BY DEF Downloading, Destroying, Procs, Requests
<1> QED
  BY <1>1, <1>2, FS_Subset

(* The history has seen what there is.                                      *)
Remembered ==
  /\ contended \in [Files -> Nat]
  /\ contested \in [Files -> Nat]
  /\ \A f \in Files :
       Cardinality(Downloading(f)) <= contended[f] /\ Cardinality(Destroying(f)) <= contested[f]

(* The history only grows, and takes in each new state.                     *)
LEMMA RememberedStep ==
  ASSUME Remembered, OverlapNext
  PROVE  /\ Remembered'
         /\ \A f \in Files : contended'[f] >= contended[f] /\ contested'[f] >= contested[f]
<1>1. \A f \in Files : Cardinality(Downloading(f)') \in Nat /\ Cardinality(Destroying(f)') \in Nat
  BY OverlapSets, FS_CardinalityType
<1>2. \A f \in Files :
        /\ contended'[f] = AtLeast(contended[f], Cardinality(Downloading(f)'))
        /\ contested'[f] = AtLeast(contested[f], Cardinality(Destroying(f)'))
  BY DEF OverlapNext
<1>3. \A f \in Files :
        /\ contended'[f] \in Nat /\ contested'[f] \in Nat
        /\ contended'[f] >= contended[f] /\ contested'[f] >= contested[f]
        /\ Cardinality(Downloading(f)') <= contended'[f]
        /\ Cardinality(Destroying(f)') <= contested'[f]
  BY <1>1, <1>2 DEF Remembered, AtLeast
<1>4. contended' \in [Files -> Nat] /\ contested' \in [Files -> Nat]
  BY <1>3 DEF OverlapNext
<1> QED
  BY <1>3, <1>4 DEF Remembered

(* The downloads of f that may still overrun its limit: they have read a    *)
(* count below it.                                                          *)
Contends(d, f) ==
  /\ on[d] = f
  /\ pc[d] \in {"file", "keys", "check", "read", "count"}
  /\ snap[d].count < MaxDownloads(f)

Contenders(f) == {d \in Downloads : Contends(d, f)}

(* Those that may still be counted fit into what is left of the bound.      *)
OverrunInv ==
  \A f \in Files :
    MaxDownloads(f) # -1 /\ count[f] > 0 /\ count[f] >= MaxDownloads(f) =>
      count[f] + Cardinality(Contenders(f)) < MaxDownloads(f) + contended[f]

(* A download becomes a contender only by reading a count below the limit.  *)
LEMMA ContenderStep ==
  ASSUME TypeInv, Next, NEW f \in Files, NEW d \in Downloads, Contends(d, f)'
  PROVE  Contends(d, f) \/ count[f] < MaxDownloads(f)
<1>1. /\ pc \in [Procs -> Steps] /\ d \in Procs /\ d \in Requests
      /\ d \notin Workers \cup Revokes \cup Deletes
      /\ on \in [Procs -> Files \cup {NoFile}] /\ snap \in [Downloads -> Snapshot]
  BY VaultAssumption DEF TypeInv, TypeOK, Procs, Requests
<1>2. MaxDownloads(f)' = MaxDownloads(f)
  BY OptsStep DEF MaxDownloads
<1>3. ASSUME pc'[d] = pc[d], on'[d] = on[d], snap'[d] = snap[d] PROVE Contends(d, f)
  BY <1>2, <1>3 DEF Contends
<1>4. CASE Acts(d)
  <2>1. CASE \E g \in Files : ReadLink(d, g)
    <3>1. PICK g \in Files : ReadLink(d, g)
      BY <2>1
    <3>2. on'[d] = g /\ snap'[d].count = count[g]
      BY <1>1, <3>1 DEF ReadLink, Snapshot
    <3> QED
      BY <1>2, <3>2 DEF Contends
  <2>2. CASE ReadFile(d) \/ ReadKeys(d)
    <3>1. /\ on'[d] = on[d] /\ pc[d] \in {"file", "keys"} /\ snap'[d].count = snap[d].count
      BY <1>1, <2>2 DEF ReadFile, ReadKeys, Move, Snapshot
    <3> QED
      BY <1>2, <3>1 DEF Contends
  <2>3. CASE ~(ReadFile(d) \/ ReadKeys(d) \/ \E g \in Files : ReadLink(d, g))
    <3>1. pc'[d] \in {"file", "keys", "check", "read", "count"}
      BY DEF Contends
    <3>2. /\ on'[d] = on[d] /\ snap'[d] = snap[d]
          /\ pc[d] \in {"file", "keys", "check", "read", "count"}
      BY <1>1, <1>4, <2>3, <3>1 DEF Acts, Step, UnknownToken, RequestDelete, RequestRevoke,
         Admit, Refuse, ReadCiphertext, CannotDecrypt, CountDownload,
         LogDownload, BurnLookup, Stat, Wipe, Unlink, CommitDestruction, Revoke, LogRevoke,
         Respond, NextExpired, EndRun, LogExpire, StartRun, DownloadFails,
         LookupFails, RevokeFails, SecureDeleteFails,
         CommitFails, AfterLog, AfterBurn, Goto, Move, Finish, BurnThrows
    <3> QED
      BY <1>2, <3>2 DEF Contends
  <2> QED
    BY <2>1, <2>2, <2>3
<1>5. CASE \E q \in Procs : q # d /\ Acts(q)
  BY <1>1, <1>3, <1>5, ActsAlone DEF Alone
<1>6. CASE \E g \in Files : WriteCiphertext(g) \/ InsertRecords(g) \/ Lapse(g) \/ UploadFails(g)
  BY <1>3, <1>6 DEF WriteCiphertext, InsertRecords, Lapse, UploadFails, processes
<1>7. CASE ApiCrash
  BY <1>1, <1>7 DEF ApiCrash, Active, Contends
<1>8. CASE WorkerCrash
  BY <1>1, <1>3, <1>8 DEF WorkerCrash
<1> QED
  BY <1>4, <1>5, <1>6, <1>7, <1>8, ProcStep

(* A counted download has been a contender, and is none any more.           *)
LEMMA CountingContender ==
  ASSUME TypeInv, BelowLimit, Next, NEW d \in Downloads, CountDownload(d), NEW f \in Files,
         on[d] = f, MaxDownloads(f) # -1
  PROVE  /\ count'[f] = count[f] + 1
         /\ d \in Contenders(f)
         /\ Contenders(f)' \subseteq Contenders(f) \ {d}
<1>1. /\ pc \in [Procs -> Steps] /\ on \in [Procs -> Files \cup {NoFile}]
      /\ snap \in [Downloads -> Snapshot] /\ count \in [Files -> Nat] /\ opts \in [Files -> Option]
      /\ \A c \in Downloads : c \in Procs
  BY ProcessSets DEF TypeInv, TypeOK
<1>2. MaxDownloads(f) \in Int /\ snap[d].count \in Nat
  BY <1>1, VaultAssumption DEF MaxDownloads, Option, Snapshot
<1>3. count'[f] = count[f] + 1 /\ pc'[d] = "log" /\ UNCHANGED <<on, snap, opts>>
  BY <1>1 DEF CountDownload, CountAfter, Move, Goto
<1>4. d \in Contenders(f)
  BY <1>2 DEF Contenders, Contends, BelowLimit, LimitReached, CountDownload, Move
<1>5. \A c \in Downloads \ {d} : pc'[c] = pc[c]
  BY <1>1 DEF CountDownload, Move, Goto
<1>6. Contenders(f)' \subseteq Contenders(f) \ {d}
  BY <1>3, <1>5 DEF Contenders, Contends, MaxDownloads
<1> QED
  BY <1>3, <1>4, <1>6

(* The bound survives every step.                                           *)
LEMMA OverrunStep ==
  ASSUME TypeInv, BelowLimit, Remembered, OverrunInv, OverlapNext
  PROVE  OverrunInv'
<1> SUFFICES ASSUME NEW f \in Files,
                    MaxDownloads(f)' # -1, count'[f] > 0, count'[f] >= MaxDownloads(f)'
             PROVE  count'[f] + Cardinality(Contenders(f)') < MaxDownloads(f)' + contended'[f]
  BY DEF OverrunInv
<1>1. Next
  BY DEF OverlapNext
<1>2. MaxDownloads(f)' = MaxDownloads(f)
  BY <1>1, OptsStep DEF MaxDownloads
<1>3. /\ count \in [Files -> Nat] /\ opts \in [Files -> Option] /\ on \in [Procs -> Files \cup {NoFile}]
      /\ \A d \in Downloads : d \in Procs
  BY ProcessSets DEF TypeInv, TypeOK
<1>4. MaxDownloads(f) \in Int
  BY <1>3, VaultAssumption DEF MaxDownloads, Option
<1>5. /\ contended'[f] >= contended[f] /\ contended[f] \in Nat /\ contended'[f] \in Nat
      /\ Cardinality(Downloading(f)) <= contended[f]
  BY RememberedStep DEF Remembered
<1>6. /\ Contenders(f) \subseteq Downloading(f)
      /\ IsFiniteSet(Downloading(f)) /\ IsFiniteSet(Contenders(f))
      /\ Cardinality(Contenders(f)) \in Nat
      /\ Cardinality(Contenders(f)) <= Cardinality(Downloading(f))
      /\ Cardinality(Downloading(f)) \in Nat
  <2>1. Contenders(f) \subseteq Downloading(f)
    BY DEF Contenders, Contends, Downloading
  <2> QED
    BY <2>1, OverlapSets, FS_Subset, FS_CardinalityType
<1>7. ASSUME NEW d \in Downloads, CountDownload(d), on[d] = f
      PROVE  count'[f] + Cardinality(Contenders(f)') < MaxDownloads(f) + contended'[f]
  <2>1. /\ count'[f] = count[f] + 1
        /\ d \in Contenders(f) /\ Contenders(f)' \subseteq Contenders(f) \ {d}
    BY <1>1, <1>2, <1>7, CountingContender
  <2>2. /\ Cardinality(Contenders(f)') \in Nat
        /\ Cardinality(Contenders(f)') < Cardinality(Contenders(f))
    BY <1>6, <2>1, Shrinks
  <2>3. MaxDownloads(f) > 0
    BY <1>4, <2>1 DEF Contenders, Contends, TypeInv, TypeOK, Snapshot
  <2>4. CASE count[f] >= MaxDownloads(f)
    BY <1>2, <1>3, <1>4, <1>5, <1>6, <2>1, <2>2, <2>3, <2>4 DEF OverrunInv
  <2>5. CASE count[f] < MaxDownloads(f)
    BY <1>3, <1>4, <1>5, <1>6, <2>1, <2>2, <2>5
  <2> QED
    BY <1>3, <1>4, <2>4, <2>5
<1>8. CASE count'[f] = count[f]
  <2>1. Contenders(f)' \subseteq Contenders(f)
    BY <1>1, <1>2, <1>3, <1>4, <1>8, ContenderStep DEF Contenders
  <2>2. Cardinality(Contenders(f)') <= Cardinality(Contenders(f)) /\ Cardinality(Contenders(f)') \in Nat
    BY <1>6, <2>1, FS_Subset, FS_CardinalityType
  <2> QED
    BY <1>2, <1>3, <1>4, <1>5, <1>6, <1>8, <2>2 DEF OverrunInv
<1>9. ASSUME NEW d \in Downloads, CountDownload(d), on[d] # f PROVE count'[f] = count[f]
  BY <1>3, <1>9 DEF CountDownload
<1> QED
  BY <1>1, <1>2, <1>7, <1>8, <1>9, CountStep

(* A process joins those that destroy f only while f is live.               *)
LEMMA DestroyerStep ==
  ASSUME TypeInv, Next, NEW f \in Files, NEW p \in Procs \ Revokes, p \in Destroying(f)'
  PROVE  p \in Destroying(f) \/ row[f] = "live"
<1>1. /\ pc \in [Procs -> Steps] /\ on \in [Procs -> Files \cup {NoFile}]
  BY DEF TypeInv, TypeOK
<1>2. on'[p] = f /\ pc'[p] \in {"stat", "wipe", "unlink", "commit"}
  BY DEF Destroying
<1>3. ASSUME pc'[p] = pc[p], on'[p] = on[p] PROVE p \in Destroying(f)
  BY <1>2, <1>3 DEF Destroying
<1>4. CASE Acts(p)
  <2>1. \/ on'[p] = on[p] /\ pc[p] \in {"stat", "wipe", "unlink", "commit"}
        \/ p \in Downloads \cup Workers /\ BurnLookup(p)
        \/ p \in Deletes /\ \E g \in Files, who \in Role : RequestDelete(p, g, who)
    BY <1>1, <1>2, <1>4 DEF Acts, Step, UnknownToken, ReadLink, RequestRevoke, ReadFile, ReadKeys,
       Admit, Refuse, ReadCiphertext, CannotDecrypt, CountDownload, LogDownload, Stat, Wipe, Unlink,
       CommitDestruction, Revoke, LogRevoke, Respond, NextExpired, EndRun, LogExpire, StartRun,
       DownloadFails,
       LookupFails, RevokeFails, SecureDeleteFails, CommitFails, AfterLog, AfterBurn, Goto, Move, Finish,
       BurnThrows
  <2>2. CASE BurnLookup(p)
    BY <1>1, <1>2, <2>2 DEF BurnLookup, Move, Goto, AfterBurn
  <2>3. ASSUME NEW g \in Files, NEW who \in Role, RequestDelete(p, g, who) PROVE row[f] = "live"
    BY <1>1, <1>2, <2>3 DEF RequestDelete, Finish, Goto
  <2> QED
    BY <1>2, <2>1, <2>2, <2>3 DEF Destroying
<1>5. CASE \E q \in Procs : q # p /\ Acts(q)
  BY <1>3, <1>5, ActsAlone DEF Alone
<1>6. CASE UNCHANGED <<pc, on>>
  BY <1>3, <1>6
<1>7. CASE ApiCrash
  BY <1>1, <1>2, <1>3, <1>7 DEF ApiCrash
<1>8. CASE WorkerCrash
  BY <1>1, <1>2, <1>3, <1>8 DEF WorkerCrash
<1> QED
  BY <1>4, <1>5, <1>6, <1>7, <1>8, ProcStep

Destructions(f) == log[f]["BURN"] + log[f]["DELETE"]

(* Once f is gone, those still at work on it fit into what is left of the   *)
(* bound.                                                                   *)
DestructionsInv ==
  \A f \in Files :
    row[f] = "deleted" => Destructions(f) + Cardinality(Destroying(f)) <= contested[f]

(* A transaction records one destruction, and its process is done with it.  *)
LEMMA RecordingDestroyer ==
  ASSUME TypeInv, Next, NEW p \in Procs \ Revokes, CommitDestruction(p), NEW f \in Files, on[p] = f
  PROVE  /\ Destructions(f)' = Destructions(f) + 1
         /\ p \in Destroying(f)
         /\ Destroying(f)' \subseteq Destroying(f) \ {p}
<1>1. /\ pc \in [Procs -> Steps] /\ log \in [Files -> [Events -> Nat]]
      /\ {"BURN", "DELETE"} \subseteq Events
  BY Constants DEF TypeInv, TypeOK
<1>2. PICK e \in {"BURN", "DELETE"} : Logged(f, e)
  BY DEF CommitDestruction, RemoveRecords
<1>3. /\ log'[f][e] = log[f][e] + 1
      /\ \A x \in Events : x # e => log'[f][x] = log[f][x]
  BY <1>1, <1>2, LogEffect
<1>4. Destructions(f)' = Destructions(f) + 1
  <2>1. log[f]["BURN"] \in Nat /\ log[f]["DELETE"] \in Nat
    BY <1>1
  <2> QED
    BY <1>1, <1>3, <2>1 DEF Destructions
<1>5. pc[p] = "commit" /\ pc'[p] = AfterBurn(p) /\ UNCHANGED on
  BY <1>1 DEF CommitDestruction, Move, Goto
<1>6. \A q \in Procs \ {p} : pc'[q] = pc[q]
  BY <1>1 DEF CommitDestruction, Move, Goto
<1>7. Destroying(f)' \subseteq Destroying(f) \ {p}
  BY <1>5, <1>6 DEF Destroying, AfterBurn
<1> QED
  BY <1>4, <1>5, <1>7 DEF Destroying

(* Without a transaction on f nothing is recorded of it, and f stays.       *)
LEMMA NothingDestroyed ==
  ASSUME TypeInv, Next, NEW f \in Files,
         \A p \in Procs \ Revokes : CommitDestruction(p) => on[p] # f
  PROVE  Destructions(f)' = Destructions(f) /\ (row'[f] = "deleted" => row[f] = "deleted")
<1>1. {"BURN", "DELETE"} \subseteq Events
  BY Constants
<1>2. log'[f]["BURN"] = log[f]["BURN"] /\ log'[f]["DELETE"] = log[f]["DELETE"]
  BY <1>1, AuditStep
<1>3. row'[f] = "deleted" => row[f] = "deleted"
  BY RowStep DEF TypeInv, TypeOK, InsertRecords, CommitDestruction, RemoveRecords, Revoke
<1> QED
  BY <1>2, <1>3 DEF Destructions

(* The bound survives every step.                                           *)
LEMMA DestructionsStep ==
  ASSUME TypeInv, AuditTruthful, Remembered, DestructionsInv, OverlapNext
  PROVE  DestructionsInv'
<1> SUFFICES ASSUME NEW f \in Files, row'[f] = "deleted"
             PROVE  Destructions(f)' + Cardinality(Destroying(f)') <= contested'[f]
  BY DEF DestructionsInv
<1>1. Next
  BY DEF OverlapNext
<1>2. /\ contested'[f] >= contested[f] /\ contested[f] \in Nat /\ contested'[f] \in Nat
      /\ Cardinality(Destroying(f)) <= contested[f]
  BY RememberedStep DEF Remembered
<1>3. /\ IsFiniteSet(Destroying(f)) /\ IsFiniteSet(Destroying(f)')
      /\ Cardinality(Destroying(f)) \in Nat /\ Cardinality(Destroying(f)') \in Nat
  BY OverlapSets, FS_CardinalityType
<1>4. log[f]["BURN"] \in Nat /\ log[f]["DELETE"] \in Nat
  BY Constants DEF TypeInv, TypeOK
<1>5. Destructions(f) \in Nat /\ (row[f] # "deleted" => Destructions(f) = 0)
  BY <1>4 DEF AuditTruthful, Destructions
<1>6. ASSUME NEW p \in Procs \ Revokes, CommitDestruction(p), on[p] = f
      PROVE  Destructions(f)' + Cardinality(Destroying(f)') <= contested'[f]
  <2>1. /\ Destructions(f)' = Destructions(f) + 1
        /\ p \in Destroying(f) /\ Destroying(f)' \subseteq Destroying(f) \ {p}
    BY <1>1, <1>6, RecordingDestroyer
  <2>2. Cardinality(Destroying(f)') < Cardinality(Destroying(f))
    BY <1>3, <2>1, Shrinks
  <2>3. Destructions(f) + Cardinality(Destroying(f)) <= contested[f]
    BY <1>2, <1>3, <1>5 DEF DestructionsInv
  <2> QED
    BY <1>2, <1>3, <1>5, <2>1, <2>2, <2>3
<1>7. CASE \A p \in Procs \ Revokes : CommitDestruction(p) => on[p] # f
  <2>1. Destructions(f)' = Destructions(f) /\ row[f] = "deleted"
    BY <1>1, <1>7, NothingDestroyed
  <2>2. Destroying(f)' \subseteq Destroying(f)
    <3>1. Destroying(f)' \subseteq Procs \ Revokes
      BY DEF Destroying
    <3> QED
      BY <1>1, <2>1, <3>1, DestroyerStep
  <2>3. Cardinality(Destroying(f)') <= Cardinality(Destroying(f))
    BY <1>3, <2>2, FS_Subset
  <2>4. Destructions(f) + Cardinality(Destroying(f)) <= contested[f]
    BY <2>1 DEF DestructionsInv
  <2> QED
    BY <1>2, <1>3, <1>5, <2>1, <2>3, <2>4
<1> QED
  BY <1>6, <1>7

(* The history adds nothing to what FileVault can do.                       *)
LEMMA OverlapIsVault == OverlapSpec => Spec
<1>1. OverlapInit => Init
  BY DEF OverlapInit
<1>2. [OverlapNext]_<<vars, overlap>> => [Next]_vars
  BY DEF OverlapNext
<1> QED
  BY <1>1, <1>2, PTL DEF OverlapSpec, Spec

(* Nothing is under way at first.                                           *)
LEMMA OverlapStart == OverlapInit => Remembered /\ OverrunInv /\ DestructionsInv
<1> SUFFICES ASSUME OverlapInit PROVE Remembered /\ OverrunInv /\ DestructionsInv
  OBVIOUS
<1>1. \A f \in Files : Downloading(f) = {} /\ Destroying(f) = {}
  BY ProcessSets DEF OverlapInit, Init, Downloading, Destroying
<1>2. \A f \in Files : Cardinality(Downloading(f)) = 0 /\ Cardinality(Destroying(f)) = 0
  BY <1>1, FS_EmptySet
<1> QED
  BY <1>2 DEF OverlapInit, Init, Remembered, OverrunInv, DestructionsInv

(* What always holds of the history.                                        *)
LEMMA OverlapAlways == OverlapSpec => [](TypeInv /\ Remembered /\ OverrunInv /\ DestructionsInv)
<1>1. Spec => []TypeInv
  BY TypeInit, TypeStep, PTL DEF Spec
<1>2. Init => BelowLimit
  BY ProcessSets DEF Init, BelowLimit
<1>3. Spec => []BelowLimit
  BY <1>1, <1>2, LimitStep, PTL DEF Spec
<1>4. /\ TypeInv /\ BelowLimit /\ AuditTruthful
      /\ Remembered /\ OverrunInv /\ DestructionsInv
      /\ [OverlapNext]_<<vars, overlap>>
      => Remembered' /\ OverrunInv' /\ DestructionsInv'
  <2>1. CASE OverlapNext
    BY <2>1, RememberedStep, OverrunStep, DestructionsStep
  <2>2. CASE UNCHANGED <<vars, overlap>>
    BY <2>2 DEF vars, overlap, database, processes, Remembered, OverrunInv, DestructionsInv,
       Downloading, Destroying, Contenders, Contends, MaxDownloads, Destructions
  <2> QED
    BY <2>1, <2>2
<1>5. OverlapSpec => []TypeInv /\ []BelowLimit /\ []AuditTruthful
  BY <1>1, <1>3, OverlapIsVault, AuditIsTruthful
<1> QED
  BY <1>4, <1>5, OverlapStart, PTL DEF OverlapSpec

(* downloadFile checks the limit on a count it has read before, and counts  *)
(* later: with k downloads of a file under way at once, at most k - 1 too   *)
(* many are counted, for any number of requests, in any order.              *)
THEOREM OverrunIsBounded == OverlapSpec => []OverrunBounded
<1>1. TypeInv /\ Remembered /\ OverrunInv => OverrunBounded
  <2> SUFFICES ASSUME TypeInv, Remembered, OverrunInv, NEW f \in Files,
                      MaxDownloads(f) # -1, count[f] > 0
               PROVE  count[f] < MaxDownloads(f) + contended[f]
    BY DEF OverrunBounded
  <2>1. count[f] \in Nat /\ contended[f] \in Nat /\ opts[f] \in Option
    BY DEF TypeInv, TypeOK, Remembered
  <2>2. MaxDownloads(f) \in Int
    BY <2>1, VaultAssumption DEF MaxDownloads, Option
  <2>3. Cardinality(Contenders(f)) \in Nat
    BY DownloadSets DEF Contenders
  <2> QED
    BY <2>1, <2>2, <2>3 DEF OverrunInv
<1> QED
  BY <1>1, OverlapAlways, PTL

(* burnFile and deleteFile do not look at isDeleted again in their          *)
(* transaction: a file is recorded as destroyed at most as often as burns   *)
(* and deletions of it were under way at once.                              *)
THEOREM DestructionsAreBounded == OverlapSpec => []DestructionsBounded
<1>1. TypeInv /\ AuditTruthful /\ Remembered /\ DestructionsInv => DestructionsBounded
  <2> SUFFICES ASSUME TypeInv, AuditTruthful, Remembered, DestructionsInv, NEW f \in Files
               PROVE  log[f]["BURN"] + log[f]["DELETE"] <= contested[f]
    BY DEF DestructionsBounded
  <2>1. log[f]["BURN"] \in Nat /\ log[f]["DELETE"] \in Nat
    BY Constants DEF TypeInv, TypeOK
  <2>2. contested[f] \in Nat /\ Cardinality(Destroying(f)) \in Nat
    BY OverlapSets, FS_CardinalityType DEF Remembered
  <2> QED
    BY <2>1, <2>2 DEF DestructionsInv, Destructions, AuditTruthful
<1>2. OverlapSpec => []AuditTruthful
  BY OverlapIsVault, AuditIsTruthful
<1> QED
  BY <1>1, <1>2, OverlapAlways, PTL
=============================================================================
