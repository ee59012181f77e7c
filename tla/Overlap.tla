------------------------------- MODULE Overlap -------------------------------
(***************************************************************************)
(* How far the races of FileVault can go.  Nothing in the code keeps two   *)
(* downloads from passing the same limit, or two burns from destroying the *)
(* same file, but only operations that overlap can do it: the damage is    *)
(* bounded by how many of them are under way at once.                      *)
(*                                                                         *)
(* The specification is FileVault's, with two history variables that       *)
(* remember the greatest number there ever was of each.                    *)
(***************************************************************************)
EXTENDS FileVault

VARIABLES
  contended,  \* of each file: the most downloads under way at once
  contested   \* of each file: the most destructions under way at once

ASSUME OverlapAssumption == IsFiniteSet(Deletes) /\ IsFiniteSet(Workers)

overlap == <<contended, contested>>

(* The downloads of f between the two lines of downloadFile that race: the  *)
(* reading of downloadCount and its increment.                              *)
Downloading(f) ==
  {d \in Downloads : on[d] = f /\ pc[d] \in {"file", "keys", "check", "read", "count"}}

(* The burns and deletions of f between their look at isDeleted and their   *)
(* transaction.                                                             *)
Destroying(f) ==
  {p \in Procs \ Revokes : on[p] = f /\ pc[p] \in {"stat", "wipe", "unlink", "commit"}}

AtLeast(m, n) == IF m < n THEN n ELSE m

OverlapInit ==
  /\ Init
  /\ contended = [f \in Files |-> 0]
  /\ contested = [f \in Files |-> 0]

OverlapNext ==
  /\ Next
  /\ contended' = [f \in Files |-> AtLeast(contended[f], Cardinality(Downloading(f)'))]
  /\ contested' = [f \in Files |-> AtLeast(contested[f], Cardinality(Destroying(f)'))]

OverlapSpec == OverlapInit /\ [][OverlapNext]_<<vars, overlap>>

----------------------------------------------------------------------------
(* Properties.                                                              *)

(* What is left of maxDownloads, whose check and increment do not look at   *)
(* the row together: when at most k downloads of a file are ever under way  *)
(* at once, at most k - 1 more are counted than the limit allows, however   *)
(* many requests there are and however they interleave.                     *)
OverrunBounded ==
  \A f \in Files :
    MaxDownloads(f) # -1 /\ count[f] > 0 => count[f] < MaxDownloads(f) + contended[f]

(* What is left of idempotence of burnFile: a file is recorded as destroyed *)
(* no more often than destructions of it were under way at once.  One that  *)
(* begins after the records are gone adds nothing, nor does one that failed *)
(* and is repeated.                                                         *)
DestructionsBounded ==
  \A f \in Files : log[f]["BURN"] + log[f]["DELETE"] <= contested[f]
=============================================================================
