------------------------- MODULE UploadForm_proofs --------------------------
(***************************************************************************)
(* The inductive invariant of the upload page, for any number of attempts  *)
(* and faults; MCPages_proofs has the theorems that rest on it.            *)
(***************************************************************************)
EXTENDS MCPages, TLAPS

----------------------------------------------------------------------------
(* The inductive invariant.                                                 *)

(* At most one upload is waited for, and only while uploading says so; none *)
(* is when a link is on display.                                            *)
Waiting ==
  \A a \in Upload!Attempts : attempt[a] = "waiting" =>
    /\ uploading
    /\ result = Nothing
    /\ \A b \in Upload!Attempts : attempt[b] = "waiting" => b = a

(* Attempts are used in their order.                                        *)
Order ==
  \A a, b \in Upload!Attempts : a < b /\ attempt[b] # "unused" => attempt[a] # "unused"

(* A file that is in the form and was sent before is waited for, or its     *)
(* upload failed; it is the last that was sent.                             *)
Unsent ==
  form.file # Nothing /\ ~fresh =>
    \E a \in Upload!Attempts :
      /\ attempt[a] \in {"waiting", "failed"}
      /\ \A b \in Upload!Attempts : b > a => attempt[b] = "unused"

UploadInv ==
  /\ Upload!TypeOK
  /\ Upload!PresetIsSent
  /\ Upload!OnceMeansOne
  /\ Waiting
  /\ Order
  /\ Unsent
  /\ Upload!RepeatsFollowAnError

LEMMA UploadBounds == MaxFaults \in Nat /\ MaxUploads \in Nat
  BY BrowserAssumption

LEMMA UploadInit == ASSUME Upload!Init PROVE UploadInv
<1>1. Upload!TypeOK
  <2>1. form \in Upload!Forms /\ option \in Upload!Presets \cup {"custom"}
    BY DEF Upload!Init, Upload!Defaults, Upload!Forms, Upload!Durations,
       Upload!Presets, Upload!MaxDownloads
  <2>2. faults \in 0..MaxFaults
    BY UploadBounds DEF Upload!Init
  <2>. QED BY <2>1, <2>2 DEF Upload!Init, Upload!TypeOK
<1>2. Upload!PresetIsSent /\ Upload!OnceMeansOne /\ Unsent
  BY DEF Upload!Init, Upload!Defaults, Upload!PresetIsSent, Upload!OnceMeansOne, Unsent
<1>3. Waiting /\ Order /\ Upload!RepeatsFollowAnError
  BY DEF Upload!Init, Waiting, Order, Upload!RepeatsFollowAnError
<1>. QED BY <1>1, <1>2, <1>3 DEF UploadInv

LEMMA SelectFileKeeps ==
  ASSUME NEW file \in {"small", "huge"}, UploadInv, Upload!SelectFile(file)
  PROVE  UploadInv'
<1>1. Upload!TypeOK'
  BY DEF UploadInv, Upload!TypeOK, Upload!SelectFile, Upload!Forms
<1>2. Upload!PresetIsSent'
  BY DEF UploadInv, Upload!SelectFile, Upload!PresetIsSent
<1>3. Upload!OnceMeansOne'
  BY DEF UploadInv, Upload!SelectFile, Upload!OnceMeansOne
<1>4. Waiting'
  BY DEF UploadInv, Upload!SelectFile, Waiting
<1>5. Order'
  BY DEF UploadInv, Upload!SelectFile, Order
<1>6. Unsent'
  BY DEF Upload!SelectFile, Unsent
<1>7. Upload!RepeatsFollowAnError'
  BY DEF UploadInv, Upload!SelectFile, Upload!RepeatsFollowAnError
<1>. QED BY <1>1, <1>2, <1>3, <1>4, <1>5, <1>6, <1>7 DEF UploadInv

LEMMA RemoveFileKeeps ==
  ASSUME UploadInv, Upload!RemoveFile
  PROVE  UploadInv'
<1>1. Upload!TypeOK'
  BY DEF UploadInv, Upload!TypeOK, Upload!RemoveFile, Upload!Edit, Upload!Forms
<1>2. Upload!PresetIsSent'
  BY DEF UploadInv, Upload!RemoveFile, Upload!Edit, Upload!PresetIsSent
<1>3. Upload!OnceMeansOne'
  BY DEF UploadInv, Upload!RemoveFile, Upload!Edit, Upload!OnceMeansOne
<1>4. Waiting'
  BY DEF UploadInv, Upload!RemoveFile, Upload!Edit, Waiting
<1>5. Order'
  BY DEF UploadInv, Upload!RemoveFile, Upload!Edit, Order
<1>6. Unsent'
  BY DEF Upload!RemoveFile, Upload!Edit, Unsent
<1>7. Upload!RepeatsFollowAnError'
  BY DEF UploadInv, Upload!RemoveFile, Upload!Edit, Upload!RepeatsFollowAnError
<1>. QED BY <1>1, <1>2, <1>3, <1>4, <1>5, <1>6, <1>7 DEF UploadInv

LEMMA ChooseExpiryKeeps ==
  ASSUME NEW choice \in Upload!Presets \cup {"custom"}, UploadInv,
         Upload!ChooseExpiry(choice)
  PROVE  UploadInv'
<1>1. Upload!TypeOK'
  BY DEF UploadInv, Upload!TypeOK, Upload!ChooseExpiry, Upload!Edit, Upload!Forms,
     Upload!Durations
<1>2. Upload!PresetIsSent'
  BY DEF Upload!ChooseExpiry, Upload!Edit, Upload!PresetIsSent
<1>3. Upload!OnceMeansOne'
  BY DEF UploadInv, Upload!ChooseExpiry, Upload!Edit, Upload!OnceMeansOne
<1>4. Waiting'
  BY DEF UploadInv, Upload!ChooseExpiry, Upload!Edit, Waiting
<1>5. Order'
  BY DEF UploadInv, Upload!ChooseExpiry, Upload!Edit, Order
<1>6. Unsent'
  BY DEF UploadInv, Upload!ChooseExpiry, Upload!Edit, Unsent
<1>7. Upload!RepeatsFollowAnError'
  BY DEF UploadInv, Upload!ChooseExpiry, Upload!Edit, Upload!RepeatsFollowAnError
<1>. QED BY <1>1, <1>2, <1>3, <1>4, <1>5, <1>6, <1>7 DEF UploadInv

LEMMA TypeExpiryKeeps ==
  ASSUME NEW duration \in {"odd", "bad"}, UploadInv, Upload!TypeExpiry(duration)
  PROVE  UploadInv'
<1>1. Upload!TypeOK'
  BY DEF UploadInv, Upload!TypeOK, Upload!TypeExpiry, Upload!Edit, Upload!Forms,
     Upload!Durations
<1>2. Upload!PresetIsSent'
  BY DEF Upload!TypeExpiry, Upload!PresetIsSent
<1>3. Upload!OnceMeansOne'
  BY DEF UploadInv, Upload!TypeExpiry, Upload!Edit, Upload!OnceMeansOne
<1>4. Waiting'
  BY DEF UploadInv, Upload!TypeExpiry, Upload!Edit, Waiting
<1>5. Order'
  BY DEF UploadInv, Upload!TypeExpiry, Upload!Edit, Order
<1>6. Unsent'
  BY DEF UploadInv, Upload!TypeExpiry, Upload!Edit, Unsent
<1>7. Upload!RepeatsFollowAnError'
  BY DEF UploadInv, Upload!TypeExpiry, Upload!Edit, Upload!RepeatsFollowAnError
<1>. QED BY <1>1, <1>2, <1>3, <1>4, <1>5, <1>6, <1>7 DEF UploadInv

LEMMA ToggleOnceKeeps ==
  ASSUME UploadInv, Upload!ToggleOnce
  PROVE  UploadInv'
<1>1. Upload!TypeOK'
  BY DEF UploadInv, Upload!TypeOK, Upload!ToggleOnce, Upload!Edit, Upload!Forms,
     Upload!MaxDownloads
<1>2. Upload!PresetIsSent'
  BY DEF UploadInv, Upload!ToggleOnce, Upload!Edit, Upload!PresetIsSent
<1>3. Upload!OnceMeansOne'
  BY DEF UploadInv, Upload!ToggleOnce, Upload!Edit, Upload!OnceMeansOne
<1>4. Waiting'
  BY DEF UploadInv, Upload!ToggleOnce, Upload!Edit, Waiting
<1>5. Order'
  BY DEF UploadInv, Upload!ToggleOnce, Upload!Edit, Order
<1>6. Unsent'
  BY DEF UploadInv, Upload!ToggleOnce, Upload!Edit, Unsent
<1>7. Upload!RepeatsFollowAnError'
  BY DEF UploadInv, Upload!ToggleOnce, Upload!Edit, Upload!RepeatsFollowAnError
<1>. QED BY <1>1, <1>2, <1>3, <1>4, <1>5, <1>6, <1>7 DEF UploadInv

LEMMA TypeMaxKeeps ==
  ASSUME NEW max \in Upload!MaxDownloads, UploadInv, Upload!TypeMax(max)
  PROVE  UploadInv'
<1>1. Upload!TypeOK'
  BY DEF UploadInv, Upload!TypeOK, Upload!TypeMax, Upload!Edit, Upload!Forms
<1>2. Upload!PresetIsSent'
  BY DEF UploadInv, Upload!TypeMax, Upload!Edit, Upload!PresetIsSent
<1>3. Upload!OnceMeansOne'
  BY DEF Upload!TypeMax, Upload!Edit, Upload!OnceMeansOne
<1>4. Waiting'
  BY DEF UploadInv, Upload!TypeMax, Upload!Edit, Waiting
<1>5. Order'
  BY DEF UploadInv, Upload!TypeMax, Upload!Edit, Order
<1>6. Unsent'
  BY DEF UploadInv, Upload!TypeMax, Upload!Edit, Unsent
<1>7. Upload!RepeatsFollowAnError'
  BY DEF UploadInv, Upload!TypeMax, Upload!Edit, Upload!RepeatsFollowAnError
<1>. QED BY <1>1, <1>2, <1>3, <1>4, <1>5, <1>6, <1>7 DEF UploadInv

LEMMA UploadSubmitKeeps ==
  ASSUME NEW a \in Upload!Attempts, UploadInv, Upload!Submit(a)
  PROVE  UploadInv'
<1>1. Upload!TypeOK'
  BY DEF UploadInv, Upload!TypeOK, Upload!Submit
<1>2. Upload!PresetIsSent'
  BY DEF UploadInv, Upload!Submit, Upload!PresetIsSent
<1>3. Upload!OnceMeansOne'
  BY DEF UploadInv, Upload!Submit, Upload!OnceMeansOne
<1>4. Waiting'
  BY DEF UploadInv, Upload!Submit, Upload!CanSubmit, Upload!ShowsForm, Waiting
<1>5. Order'
  BY DEF Upload!Submit, Order, Upload!Attempts
<1>6. Unsent'
  BY DEF UploadInv, Upload!TypeOK, Upload!Submit, Unsent, Upload!Attempts
<1>7. Upload!RepeatsFollowAnError'
  BY UploadBounds DEF UploadInv, Upload!Submit, Upload!CanSubmit, Waiting, Unsent,
     Upload!RepeatsFollowAnError, Upload!Attempts
<1>. QED BY <1>1, <1>2, <1>3, <1>4, <1>5, <1>6, <1>7 DEF UploadInv

LEMMA AnswerUploadKeeps ==
  ASSUME NEW a \in Upload!Attempts, NEW answer \in {"stored", "refused"}, UploadInv,
         Upload!AnswerUpload(a, answer)
  PROVE  UploadInv'
<1>1. Upload!TypeOK'
  BY DEF UploadInv, Upload!TypeOK, Upload!AnswerUpload, Upload!page
<1>2. Upload!PresetIsSent'
  BY DEF UploadInv, Upload!AnswerUpload, Upload!page, Upload!PresetIsSent
<1>3. Upload!OnceMeansOne'
  BY DEF UploadInv, Upload!AnswerUpload, Upload!page, Upload!OnceMeansOne
<1>4. Waiting'
  BY DEF UploadInv, Upload!AnswerUpload, Upload!page, Waiting
<1>5. Order'
  BY DEF UploadInv, Upload!AnswerUpload, Order
<1>6. Unsent'
  BY DEF UploadInv, Upload!AnswerUpload, Upload!page, Unsent
<1>7. Upload!RepeatsFollowAnError'
  BY DEF UploadInv, Upload!AnswerUpload, Upload!RepeatsFollowAnError
<1>. QED BY <1>1, <1>2, <1>3, <1>4, <1>5, <1>6, <1>7 DEF UploadInv

LEMMA UploadSucceedKeeps ==
  ASSUME NEW a \in Upload!Attempts, UploadInv, Upload!Succeed(a)
  PROVE  UploadInv'
<1>1. Upload!TypeOK'
  BY DEF UploadInv, Upload!TypeOK, Upload!Succeed, Upload!ResetForm,
     Upload!ResetOption, Upload!Defaults, Upload!Forms, Upload!Durations,
     Upload!Presets, Upload!MaxDownloads
<1>2. Upload!PresetIsSent'
  BY DEF Upload!Succeed, Upload!ResetForm, Upload!ResetOption, Upload!Defaults,
     Upload!PresetIsSent
<1>3. Upload!OnceMeansOne'
  BY DEF Upload!Succeed, Upload!ResetForm, Upload!Defaults, Upload!OnceMeansOne
<1>4. Waiting'
  BY DEF UploadInv, Upload!TypeOK, Upload!Succeed, Waiting
<1>5. Order'
  BY DEF UploadInv, Upload!Succeed, Order
<1>6. Unsent'
  BY DEF Upload!Succeed, Upload!ResetForm, Upload!Defaults, Unsent
<1>7. Upload!RepeatsFollowAnError'
  BY DEF UploadInv, Upload!Succeed, Upload!RepeatsFollowAnError
<1>. QED BY <1>1, <1>2, <1>3, <1>4, <1>5, <1>6, <1>7 DEF UploadInv

LEMMA RefusedKeeps ==
  ASSUME NEW a \in Upload!Attempts, UploadInv, Upload!Refused(a)
  PROVE  UploadInv'
<1>1. Upload!TypeOK'
  BY DEF UploadInv, Upload!TypeOK, Upload!Refused, Upload!ReportFailure
<1>2. Upload!PresetIsSent'
  BY DEF UploadInv, Upload!Refused, Upload!ReportFailure, Upload!PresetIsSent
<1>3. Upload!OnceMeansOne'
  BY DEF UploadInv, Upload!Refused, Upload!ReportFailure, Upload!OnceMeansOne
<1>4. Waiting'
  BY DEF UploadInv, Upload!TypeOK, Upload!Refused, Upload!ReportFailure, Waiting
<1>5. Order'
  BY DEF UploadInv, Upload!Refused, Upload!ReportFailure, Order
<1>6. Unsent'
  BY DEF UploadInv, Upload!Refused, Upload!ReportFailure, Unsent
<1>7. Upload!RepeatsFollowAnError'
  BY DEF UploadInv, Upload!Refused, Upload!ReportFailure, Upload!RepeatsFollowAnError
<1>. QED BY <1>1, <1>2, <1>3, <1>4, <1>5, <1>6, <1>7 DEF UploadInv

LEMMA GiveUpKeeps ==
  ASSUME NEW a \in Upload!Attempts, UploadInv, Upload!GiveUp(a)
  PROVE  UploadInv'
<1>1. Upload!TypeOK'
  <2>1. faults' \in 0..MaxFaults
    BY UploadBounds DEF UploadInv, Upload!TypeOK, Upload!GiveUp, Upload!Fault
  <2>. QED BY <2>1 DEF UploadInv, Upload!TypeOK, Upload!GiveUp, Upload!ReportFailure
<1>2. Upload!PresetIsSent'
  BY DEF UploadInv, Upload!GiveUp, Upload!ReportFailure, Upload!PresetIsSent
<1>3. Upload!OnceMeansOne'
  BY DEF UploadInv, Upload!GiveUp, Upload!ReportFailure, Upload!OnceMeansOne
<1>4. Waiting'
  BY DEF UploadInv, Upload!TypeOK, Upload!GiveUp, Upload!ReportFailure, Waiting
<1>5. Order'
  BY DEF UploadInv, Upload!GiveUp, Upload!ReportFailure, Order
<1>6. Unsent'
  BY DEF UploadInv, Upload!GiveUp, Upload!ReportFailure, Unsent
<1>7. Upload!RepeatsFollowAnError'
  BY DEF UploadInv, Upload!GiveUp, Upload!ReportFailure, Upload!RepeatsFollowAnError
<1>. QED BY <1>1, <1>2, <1>3, <1>4, <1>5, <1>6, <1>7 DEF UploadInv

LEMMA DismissKeeps ==
  ASSUME UploadInv, Upload!Dismiss
  PROVE  UploadInv'
<1>1. Upload!TypeOK'
  BY DEF UploadInv, Upload!TypeOK, Upload!Dismiss, Upload!ResetForm,
     Upload!ResetOption, Upload!Defaults, Upload!Forms, Upload!Durations,
     Upload!Presets, Upload!MaxDownloads
<1>2. Upload!PresetIsSent'
  BY DEF Upload!Dismiss, Upload!ResetForm, Upload!ResetOption, Upload!Defaults,
     Upload!PresetIsSent
<1>3. Upload!OnceMeansOne'
  BY DEF Upload!Dismiss, Upload!ResetForm, Upload!Defaults, Upload!OnceMeansOne
<1>4. Waiting'
  BY DEF UploadInv, Upload!Dismiss, Waiting
<1>5. Order'
  BY DEF UploadInv, Upload!Dismiss, Order
<1>6. Unsent'
  BY DEF Upload!Dismiss, Upload!ResetForm, Upload!Defaults, Unsent
<1>7. Upload!RepeatsFollowAnError'
  BY DEF UploadInv, Upload!Dismiss, Upload!RepeatsFollowAnError
<1>. QED BY <1>1, <1>2, <1>3, <1>4, <1>5, <1>6, <1>7 DEF UploadInv

LEMMA LeaveKeeps ==
  ASSUME UploadInv, Upload!Leave
  PROVE  UploadInv'
<1>1. Upload!TypeOK'
  BY DEF UploadInv, Upload!TypeOK, Upload!Leave, Upload!Defaults, Upload!Forms,
     Upload!Durations, Upload!Presets, Upload!MaxDownloads
<1>2. Upload!PresetIsSent'
  BY DEF Upload!Leave, Upload!Defaults, Upload!PresetIsSent
<1>3. Upload!OnceMeansOne'
  BY DEF Upload!Leave, Upload!Defaults, Upload!OnceMeansOne
<1>4. Waiting'
  BY DEF Upload!Leave, Waiting
<1>5. Order'
  BY DEF UploadInv, Upload!Leave, Order
<1>6. Unsent'
  BY DEF Upload!Leave, Upload!Defaults, Unsent
<1>7. Upload!RepeatsFollowAnError'
  BY UploadBounds DEF UploadInv, Upload!TypeOK, Upload!Leave,
     Upload!RepeatsFollowAnError, Upload!Attempts
<1>. QED BY <1>1, <1>2, <1>3, <1>4, <1>5, <1>6, <1>7 DEF UploadInv

LEMMA ReturnKeeps ==
  ASSUME UploadInv, Upload!Return
  PROVE  UploadInv'
<1>1. Upload!TypeOK'
  BY DEF UploadInv, Upload!TypeOK, Upload!Return, Upload!page
<1>2. Upload!PresetIsSent'
  BY DEF UploadInv, Upload!Return, Upload!page, Upload!PresetIsSent
<1>3. Upload!OnceMeansOne'
  BY DEF UploadInv, Upload!Return, Upload!page, Upload!OnceMeansOne
<1>4. Waiting'
  BY DEF UploadInv, Upload!Return, Upload!page, Waiting
<1>5. Order'
  BY DEF UploadInv, Upload!Return, Order
<1>6. Unsent'
  BY DEF UploadInv, Upload!Return, Upload!page, Unsent
<1>7. Upload!RepeatsFollowAnError'
  BY DEF UploadInv, Upload!Return, Upload!RepeatsFollowAnError
<1>. QED BY <1>1, <1>2, <1>3, <1>4, <1>5, <1>6, <1>7 DEF UploadInv

LEMMA UploadNext == ASSUME UploadInv, Upload!Next PROVE UploadInv'
<1>1. CASE \/ Upload!RemoveFile \/ Upload!ToggleOnce \/ Upload!Dismiss \/ Upload!Leave
           \/ Upload!Return
  BY <1>1, RemoveFileKeeps, ToggleOnceKeeps, DismissKeeps, LeaveKeeps, ReturnKeeps
<1>2. ASSUME NEW file \in {"small", "huge"}, Upload!SelectFile(file) PROVE UploadInv'
  BY <1>2, SelectFileKeeps
<1>3. ASSUME NEW choice \in Upload!Presets \cup {"custom"},
             Upload!ChooseExpiry(choice)
      PROVE  UploadInv'
  BY <1>3, ChooseExpiryKeeps
<1>4. ASSUME NEW duration \in {"odd", "bad"},
             Upload!TypeExpiry(duration)
      PROVE  UploadInv'
  BY <1>4, TypeExpiryKeeps
<1>5. ASSUME NEW max \in Upload!MaxDownloads, Upload!TypeMax(max) PROVE UploadInv'
  BY <1>5, TypeMaxKeeps
<1>6. ASSUME NEW a \in Upload!Attempts,
             Upload!Submit(a) \/ Upload!Succeed(a) \/ Upload!Refused(a) \/ Upload!GiveUp(a)
      PROVE  UploadInv'
  BY <1>6, UploadSubmitKeeps, UploadSucceedKeeps, RefusedKeeps, GiveUpKeeps
<1>7. ASSUME NEW a \in Upload!Attempts, NEW answer \in {"stored", "refused"},
             Upload!AnswerUpload(a, answer)
      PROVE  UploadInv'
  BY <1>7, AnswerUploadKeeps
<1>. QED BY <1>1, <1>2, <1>3, <1>4, <1>5, <1>6, <1>7 DEF Upload!Next

LEMMA UploadElse ==
  ASSUME UploadInv, UNCHANGED upload, faults' \in 0..MaxFaults
  PROVE  UploadInv'
  BY DEF upload, UploadInv, Upload!TypeOK, Upload!PresetIsSent, Upload!OnceMeansOne,
     Waiting, Order, Unsent, Upload!RepeatsFollowAnError
=============================================================================
