----------------------------- MODULE SharePage ------------------------------
(***************************************************************************)
(* The page a recipient downloads from (app/share/[token]/page.tsx), and   *)
(* the rate limiter before the route it calls (middleware/rateLimiter.ts). *)
(* The download itself is the subject of FileVault; here the route answers *)
(* as the state of the link allows.                                        *)
(***************************************************************************)
EXTENDS Browser, Sequences

VARIABLES
  link,    \* "open", "locked" by a password, or "gone" for one of five reasons
  phase,   \* of SharePageState
  retry,   \* the error on display can be retried
  request, \* of the page: its answer once the server has it
  now,     \* the clock
  hits,    \* the requests counted for the recipient's address
  began,   \* when their window began
  granted, \* when the limiter has let one pass, in order
  faults

limiter == <<now, hits, began, granted>>

vars == <<link, phase, retry, request, limiter, faults>>

(* What the server answers; every other error, a lost answer included, is   *)
(* "FAILED".                                                                *)
Terminal == {"GONE"}

Answers == {"FILE", "INVALID_SHARE_PASSWORD", "RATE_LIMIT_EXCEEDED", "FAILED"} \cup Terminal

Times == 0..Horizon

TypeOK ==
  /\ link \in {"open", "locked", "gone"}
  /\ phase \in {"ready", "password-required", "downloading", "success", "error"}
  /\ retry \in BOOLEAN
  /\ request \in {"none", "bare", "password"} \cup Answers
  /\ now \in Times /\ began \in Times
  /\ hits \in 0..MaxRequests + 1
  /\ granted \in Seq(Times)
  /\ faults \in 0..MaxFaults

Init ==
  /\ link \in {"open", "locked", "gone"}
  /\ phase = "ready"
  /\ retry = FALSE
  /\ request = "none"
  /\ now = 0 /\ hits = 0 /\ began = 0
  /\ granted = <<>>
  /\ faults = 0

Fault == faults < MaxFaults /\ faults' = faults + 1

----------------------------------------------------------------------------
(* The limiter: express-rate-limit with its store in memory, whose window   *)
(* of an address begins with the first request after the last has ended.    *)

Expired == hits = 0 \/ now >= began + Window

Counted == IF Expired THEN 1 ELSE hits + 1

(* Mutant of Refuses: one request too many.                                 *)
RefusesLate == Counted > MaxRequests + 1

Refuses == Counted > MaxRequests

(* A request is counted, also one that is refused, as far as it matters.    *)
Count ==
  /\ hits' = IF Counted > MaxRequests THEN MaxRequests + 1 ELSE Counted
  /\ began' = IF Expired THEN now ELSE began
  /\ granted' = IF Refuses THEN granted ELSE Append(granted, now)
  /\ UNCHANGED now

Tick ==
  /\ now < Horizon
  /\ now' = now + 1
  /\ UNCHANGED <<link, phase, retry, request, hits, began, granted, faults>>

(* A request of another page or tab from the same address.                  *)
OtherRequest ==
  /\ Count
  /\ UNCHANGED <<link, phase, retry, request, faults>>

----------------------------------------------------------------------------
(* The route.                                                               *)

(* The link expires, is revoked or used up.                                 *)
LinkEnds ==
  /\ Fault
  /\ link # "gone"
  /\ link' = "gone"
  /\ UNCHANGED <<phase, retry, request, limiter>>

(* What downloadFile makes of the link and the password.                    *)
Outcomes ==
  CASE link = "gone" -> Terminal
    [] link = "locked" /\ request = "bare" -> {"INVALID_SHARE_PASSWORD"}
    [] link = "locked" -> {"INVALID_SHARE_PASSWORD", "FILE"}
    [] OTHER -> {"FILE"}

(* GET /share/:token.  The download may have been the last.                 *)
AnswerDownload ==
  /\ request \in {"bare", "password"}
  /\ Count
  /\ IF Refuses THEN request' = "RATE_LIMIT_EXCEEDED" /\ UNCHANGED link
     ELSE /\ request' \in Outcomes
          /\ IF request' = "FILE" THEN link' \in {link, "gone"} ELSE UNCHANGED link
  /\ UNCHANGED <<phase, retry, faults>>

(* The network fails, or the server with an error of its own.               *)
LoseDownload ==
  /\ Fault
  /\ request # "none"
  /\ request' = "FAILED"
  /\ UNCHANGED <<link, phase, retry, limiter>>

----------------------------------------------------------------------------
(* The page.                                                                *)

(* handleDownload, up to the await.                                         *)
StartDownload(kind) ==
  /\ phase' = "downloading"
  /\ request' = kind
  /\ UNCHANGED <<link, retry, limiter, faults>>

HandleInitialDownload == phase = "ready" /\ StartDownload("bare")

HandlePasswordSubmit == phase = "password-required" /\ StartDownload("password")

(* getApiError: with responseType "blob" the body of an error is a Blob, in *)
(* which no error code is found, so every answer gives the same code.       *)
ErrorCode(answer) == "UNKNOWN_ERROR"

(* The rest of handleDownload.                                              *)
Return ==
  /\ request \in Answers
  /\ request' = "none"
  /\ LET code == ErrorCode(request)
     IN  CASE request = "FILE" -> phase' = "success" /\ UNCHANGED retry
           [] request # "FILE" /\ code = "INVALID_SHARE_PASSWORD" ->
                phase' = "password-required" /\ UNCHANGED retry
           [] OTHER -> phase' = "error" /\ retry' = (code \notin Terminal)
  /\ UNCHANGED <<link, limiter, faults>>

HandleRetry ==
  /\ phase = "error"
  /\ retry
  /\ phase' = "ready"
  /\ UNCHANGED <<link, retry, request, limiter, faults>>

----------------------------------------------------------------------------
Next ==
  \/ Tick \/ OtherRequest \/ LinkEnds
  \/ AnswerDownload \/ LoseDownload
  \/ HandleInitialDownload \/ HandlePasswordSubmit \/ Return \/ HandleRetry

Spec == Init /\ [][Next]_vars

----------------------------------------------------------------------------
(* Properties.                                                              *)

(* A window is fixed, so that the end of one and the start of the next may  *)
(* meet; yet never more than 2 * max - 1 requests pass within windowMs, the *)
(* refused ones, which are counted too, notwithstanding.                    *)
BurstBound ==
  \A i \in 1..Len(granted) :
    LET j == i + 2 * MaxRequests - 1
    IN  j <= Len(granted) => granted[j] >= granted[i] + Window

(* requirements.md 8.4: when the server asks for a password, so does the    *)
(* page.                                                                    *)
PasswordIsAsked ==
  [][request = "INVALID_SHARE_PASSWORD" /\ request' = "none" =>
       phase' = "password-required"]_vars
=============================================================================
