----------------------------- MODULE UploadForm -----------------------------
(***************************************************************************)
(* The upload page (app/upload/page.tsx) and the route it posts to.  The   *)
(* form stays live while an upload is on its way; the page gives an upload *)
(* up after 30 seconds, whatever becomes of it on the server, and the user *)
(* may leave before it is answered.                                        *)
(***************************************************************************)
EXTENDS Browser

VARIABLES
  form,      \* the values of useForm
  option,    \* selectedExpiryOption
  uploading,
  result,    \* the attempt whose share link is on display, or Nothing
  error,     \* whether the page shows an error
  mounted,
  attempt,   \* what the page made of each upload it sent
  reply,     \* what the server made of it
  fresh,     \* a file was selected since the last upload was sent
  repeats,   \* the attempts that sent a file again
  faults

page == <<form, option, uploading, result, error>>

vars == <<page, mounted, attempt, reply, fresh, repeats, faults>>

Attempts == 1..MaxUploads

(* The presets stand for the five of EXPIRY_OPTIONS; "odd" is a legal       *)
(* custom duration and "bad" an illegal one.                                *)
Presets == {"hour", "day"}

Durations == Presets \cup {"odd", "bad"}

(* "unset" is an empty field, which is sent as 1.                           *)
MaxDownloads == {"one", "some", "unset", "zero"}

(* "huge" is a file of more than MAX_FILE_SIZE.  The burn toggle and the    *)
(* password are sent as they are, and left out.                             *)
Forms ==
  [file : {Nothing, "small", "huge"}, expires : Durations,
   max : MaxDownloads, once : BOOLEAN]

TypeOK ==
  /\ form \in Forms
  /\ option \in Presets \cup {"custom"}
  /\ uploading \in BOOLEAN /\ error \in BOOLEAN /\ mounted \in BOOLEAN
  /\ result \in Attempts \cup {Nothing}
  /\ attempt \in [Attempts -> {"unused", "waiting", "linked", "failed", "dropped"}]
  /\ reply \in [Attempts -> {"none", "working", "stored", "refused"}]
  /\ fresh \in BOOLEAN
  /\ repeats \subseteq Attempts
  /\ faults \in 0..MaxFaults

(* The defaultValues, which reset() restores.                               *)
Defaults == [file |-> Nothing, expires |-> "hour", max |-> "one", once |-> FALSE]

Init ==
  /\ form = Defaults
  /\ option = "hour"
  /\ uploading = FALSE /\ error = FALSE /\ mounted = TRUE
  /\ result = Nothing
  /\ attempt = [a \in Attempts |-> "unused"]
  /\ reply = [a \in Attempts |-> "none"]
  /\ fresh = FALSE
  /\ repeats = {}
  /\ faults = 0

Fault == faults < MaxFaults /\ faults' = faults + 1

----------------------------------------------------------------------------
(* Filling in the form.                                                     *)

(* The form is on display until an upload succeeds; it is never disabled.   *)
ShowsForm == mounted /\ result = Nothing

ShowsLink == mounted /\ result # Nothing

(* handleFileSelect, by dropping or by browsing.                            *)
SelectFile(file) ==
  /\ ShowsForm
  /\ form' = [form EXCEPT !.file = file]
  /\ result' = Nothing
  /\ error' = FALSE
  /\ fresh' = TRUE
  /\ UNCHANGED <<option, uploading, mounted, attempt, reply, repeats, faults>>

Edit(values) ==
  /\ ShowsForm
  /\ form' = values
  /\ UNCHANGED <<uploading, result, error, mounted, attempt, reply, fresh, repeats, faults>>

RemoveFile ==
  /\ form.file # Nothing
  /\ Edit([form EXCEPT !.file = Nothing])
  /\ UNCHANGED option

(* handleExpiryOptionChange                                                 *)
ChooseExpiry(choice) ==
  /\ option' = choice
  /\ Edit(IF choice = "custom" THEN form ELSE [form EXCEPT !.expires = choice])

(* handleCustomExpiryChange; the field is there for "Custom" only.          *)
TypeExpiry(duration) ==
  /\ option = "custom"
  /\ Edit([form EXCEPT !.expires = duration])
  /\ UNCHANGED option

(* Mutant of ToggleOnce: the effect on downloadOnce is missing.             *)
ToggleAlone ==
  /\ Edit([form EXCEPT !.once = ~@])
  /\ UNCHANGED option

(* The toggle, and the effect that follows the render.                      *)
ToggleOnce ==
  /\ Edit([form EXCEPT !.once = ~@, !.max = IF form.once THEN @ ELSE "one"])
  /\ UNCHANGED option

TypeMax(max) ==
  /\ ~form.once
  /\ Edit([form EXCEPT !.max = max])
  /\ UNCHANGED option

----------------------------------------------------------------------------
(* Uploading.                                                               *)

(* uploadSchema of lib/schemas.ts                                           *)
Valid == form.file # "huge" /\ form.expires # "bad" /\ form.max # "zero"

(* The button is disabled during an upload.                                 *)
CanSubmit == form.file # Nothing /\ ~uploading

(* onSubmit, up to the await.                                               *)
Submit(a) ==
  /\ ShowsForm /\ CanSubmit /\ Valid
  /\ \A b \in Attempts : attempt[b] = "unused" <=> b >= a
  /\ attempt' = [attempt EXCEPT ![a] = "waiting"]
  /\ reply' = [reply EXCEPT ![a] = "working"]
  /\ uploading' = TRUE
  /\ error' = FALSE
  /\ fresh' = FALSE
  /\ repeats' = IF fresh THEN repeats ELSE repeats \cup {a}
  /\ UNCHANGED <<form, option, result, mounted, faults>>

(* POST /upload stores the file, unless authenticate, the rate limiter,     *)
(* multer, the schema or uploadFile refuses it.                             *)
AnswerUpload(a, answer) ==
  /\ reply[a] = "working"
  /\ reply' = [reply EXCEPT ![a] = answer]
  /\ UNCHANGED <<page, mounted, attempt, fresh, repeats, faults>>

(* Mutant of ResetForm: the file stays.                                     *)
ResetButFile == [Defaults EXCEPT !.file = form.file]

ResetForm == Defaults

ResetOption == "hour"

(* The link is shown, and the form is reset, also if it was edited since.   *)
Succeed(a) ==
  /\ attempt[a] = "waiting" /\ reply[a] = "stored"
  /\ attempt' = [attempt EXCEPT ![a] = "linked"]
  /\ result' = a
  /\ form' = ResetForm
  /\ option' = ResetOption
  /\ uploading' = FALSE
  /\ UNCHANGED <<error, mounted, reply, fresh, repeats, faults>>

ReportFailure(a) ==
  /\ attempt[a] = "waiting"
  /\ attempt' = [attempt EXCEPT ![a] = "failed"]
  /\ error' = TRUE
  /\ uploading' = FALSE
  /\ UNCHANGED <<form, option, result, mounted, reply, fresh, repeats>>

(* The form keeps its values when the upload is refused.                    *)
Refused(a) == reply[a] = "refused" /\ ReportFailure(a) /\ UNCHANGED faults

(* No answer for 30 seconds, or a network error; the server works on.       *)
GiveUp(a) == Fault /\ ReportFailure(a)

(* handleReset, "Upload Another File".                                      *)
Dismiss ==
  /\ ShowsLink
  /\ form' = ResetForm
  /\ option' = ResetOption
  /\ result' = Nothing
  /\ error' = FALSE
  /\ UNCHANGED <<uploading, mounted, attempt, reply, fresh, repeats, faults>>

(* The user goes to another page: the upload is not aborted, and nobody is  *)
(* left to show its link.                                                   *)
Leave ==
  /\ mounted
  /\ mounted' = FALSE
  /\ attempt' = [a \in Attempts |-> IF attempt[a] = "waiting" THEN "dropped" ELSE attempt[a]]
  /\ form' = Defaults /\ option' = "hour"
  /\ uploading' = FALSE /\ error' = FALSE /\ result' = Nothing
  /\ fresh' = FALSE
  /\ UNCHANGED <<reply, repeats, faults>>

Return ==
  /\ ~mounted
  /\ mounted' = TRUE
  /\ UNCHANGED <<page, attempt, reply, fresh, repeats, faults>>

----------------------------------------------------------------------------
Next ==
  \/ RemoveFile \/ ToggleOnce \/ Dismiss \/ Leave \/ Return
  \/ \E file \in {"small", "huge"} : SelectFile(file)
  \/ \E choice \in Presets \cup {"custom"} : ChooseExpiry(choice)
  \/ \E duration \in {"odd", "bad"} : TypeExpiry(duration)
  \/ \E max \in MaxDownloads : TypeMax(max)
  \/ \E a \in Attempts :
       \/ Submit(a) \/ Succeed(a) \/ Refused(a) \/ GiveUp(a)
       \/ \E answer \in {"stored", "refused"} : AnswerUpload(a, answer)

Spec == Init /\ [][Next]_vars

----------------------------------------------------------------------------
(* Properties.                                                              *)

(* The preset on display is the expiry that is sent, however often the form *)
(* was edited, sent, reset or left: two states hold the same choice.        *)
PresetIsSent == option # "custom" => form.expires = option

(* A file to be downloaded once is sent with maxDownloads 1.                *)
OnceMeansOne == form.once => form.max = "one"

(* A file is sent again without being selected again only after the page    *)
(* has reported that the upload failed.                                     *)
RepeatsFollowAnError ==
  \A a \in repeats : a > 1 /\ attempt[a - 1] = "failed"

(* A share link, once on display, gives way to nothing but the user's own   *)
(* choice: no later answer replaces it.                                     *)
LinkStays ==
  [][result # Nothing /\ result' # result =>
       result' = Nothing /\ (~mounted' \/ form' = Defaults)]_vars
=============================================================================
