----------------------------- MODULE ShareLink -----------------------------
(***************************************************************************)
(* What a share link promises, with the database, the disk and the expiry  *)
(* worker left out.  A file is offered once; its link is open until it is   *)
(* closed for good (by a deletion, a burn, a revocation, its expiry or its *)
(* download limit).  A request is granted only while the link is open, and *)
(* only a granted request is ever answered with the plaintext.  A one-time *)
(* file is answered only once its link is closed.                           *)
(*                                                                         *)
(* The backend keeps this promise although every request is a dozen        *)
(* asynchronous steps: FileVault!KeepsLinkPromise is the refinement.        *)
(***************************************************************************)

CONSTANTS
  Files,       \* the files users share, one link each
  Downloads,   \* the requests made with a link's token
  NoFile       \* not a file

VARIABLES
  link,        \* link[f]: "unborn", "open" or "closed"
  oneTime,     \* the files that must be destroyed by their first download
  grant,       \* grant[d]: the file request d may be answered with
  delivered    \* the requests answered with a plaintext

vars == <<link, oneTime, grant, delivered>>

TypeOK ==
  /\ link \in [Files -> {"unborn", "open", "closed"}]
  /\ oneTime \subseteq Files
  /\ grant \in [Downloads -> Files \cup {NoFile}]
  /\ delivered \subseteq Downloads

Init ==
  /\ link = [f \in Files |-> "unborn"]
  /\ oneTime = {}
  /\ grant = [d \in Downloads |-> NoFile]
  /\ delivered = {}

(* A file uploaded with a limit of zero downloads is closed from the start. *)
Offer(f) ==
  /\ link[f] = "unborn"
  /\ \E state \in {"open", "closed"} : link' = [link EXCEPT ![f] = state]
  /\ oneTime' \in {oneTime, oneTime \cup {f}}
  /\ UNCHANGED <<grant, delivered>>

Close(f) ==
  /\ link[f] = "open"
  /\ link' = [link EXCEPT ![f] = "closed"]
  /\ UNCHANGED <<oneTime, grant, delivered>>

Grant(d, f) ==
  /\ link[f] = "open"
  /\ grant[d] = NoFile
  /\ grant' = [grant EXCEPT ![d] = f]
  /\ UNCHANGED <<link, oneTime, delivered>>

(* Any set of requests may fail at once: the server can stop.               *)
Withdraw(D) ==
  /\ D \cap delivered = {}
  /\ grant' = [d \in Downloads |-> IF d \in D THEN NoFile ELSE grant[d]]
  /\ UNCHANGED <<link, oneTime, delivered>>

Deliver(d) ==
  /\ grant[d] # NoFile
  /\ grant[d] \in oneTime => link[grant[d]] = "closed"
  /\ delivered' = delivered \cup {d}
  /\ UNCHANGED <<link, oneTime, grant>>

Next ==
  \/ \E f \in Files : Offer(f) \/ Close(f)
  \/ \E d \in Downloads, f \in Files : Grant(d, f)
  \/ \E D \in SUBSET Downloads : Withdraw(D)
  \/ \E d \in Downloads : Deliver(d)

Spec == Init /\ [][Next]_vars
=============================================================================
