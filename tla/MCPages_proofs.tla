--------------------------- MODULE MCPages_proofs ---------------------------
(***************************************************************************)
(* What the run of the pages shows of their safety, proved for every value *)
(* of the constants.  Each page has an inductive invariant over its own    *)
(* variables, which a step of another page leaves alone; that of the       *)
(* upload page and of the login pages is in a module of its own.           *)
(***************************************************************************)
EXTENDS UploadForm_proofs, AuthPages_proofs, Integers, Sequences, FiniteSetTheorems, TLAPS

----------------------------------------------------------------------------
(* The query cache.                                                         *)

(* An answer is only there when the server has given it.                    *)
Whole(q, Data) ==
  /\ q \in Queries(Data)
  /\ q.answer # Nothing => q.fetch = "read"

(* What the cache takes for fresh, now or with the answer on its way, is    *)
(* one of the data in good.                                                 *)
Brings(q, good) == q.answer # Nothing /\ ~q.late => q.answer \in good

Fresh(q, good) == q.data # Nothing /\ q.valid /\ ~q.dated => q.data \in good

LEMMA FetchIsFresh ==
  ASSUME NEW Data, NEW good, NEW q, Whole(q, Data)
  PROVE  /\ Whole(Fetch(q), Data) /\ Brings(Fetch(q), good)
         /\ Fresh(q, good) => Fresh(Fetch(q), good)
  BY DEF Whole, Queries, Fetches, Brings, Fresh, Fetch

LEMMA MountIsFresh ==
  ASSUME NEW Data, NEW good, NEW q, Whole(q, Data)
  PROVE  /\ Whole(Mount(q), Data)
         /\ Brings(q, good) => Brings(Mount(q), good)
         /\ Fresh(q, good) => Fresh(Mount(q), good)
  BY FetchIsFresh DEF Mount

LEMMA InvalidateIsFresh ==
  ASSUME NEW Data, NEW good, NEW q, Whole(q, Data), NEW observed
  PROVE  LET r == Invalidate(q, observed)
         IN  Whole(r, Data) /\ Brings(r, good) /\ Fresh(r, good)
<1>1. Whole([q EXCEPT !.valid = FALSE], Data)
  BY DEF Whole, Queries
<1>2. CASE observed /\ (q.data # Nothing \/ q.fetch = "idle")
  BY <1>1, <1>2, FetchIsFresh DEF Invalidate, Fresh, Whole, Queries
<1>3. CASE ~(observed /\ (q.data # Nothing \/ q.fetch = "idle"))
  BY <1>3 DEF Invalidate, Whole, Queries, Brings, Fresh
<1>. QED BY <1>2, <1>3

LEMMA FailIsFresh ==
  ASSUME NEW Data, NEW good, NEW q, Whole(q, Data)
  PROVE  /\ Whole(Fail(q), Data) /\ Brings(Fail(q), good)
         /\ Fresh(q, good) => Fresh(Fail(q), good)
  BY DEF Whole, Queries, Fetches, Brings, Fresh, Fail, Cancel

LEMMA LossIsFresh ==
  ASSUME NEW Data, NEW good, NEW q, Whole(q, Data), NEW r \in Losses(q)
  PROVE  Whole(r, Data) /\ Brings(r, good) /\ (Fresh(q, good) => Fresh(r, good))
<1>1. Whole(Fail(q), Data) /\ Brings(Fail(q), good)
      /\ (Fresh(q, good) => Fresh(Fail(q), good))
  BY FailIsFresh
<1>2. Whole(Fail(Fail(q)), Data) /\ Brings(Fail(Fail(q)), good)
      /\ (Fresh(q, good) => Fresh(Fail(Fail(q)), good))
  BY <1>1, FailIsFresh
<1>. QED BY <1>1, <1>2 DEF Losses

LEMMA TakeIsFresh ==
  ASSUME NEW Data, NEW good, NEW q, Whole(q, Data)
  PROVE  /\ Whole(Take(q), Data) /\ Brings(Take(q), good)
         /\ Brings(q, good) => Fresh(Take(q), good)
  BY DEF Whole, Queries, Fetches, Brings, Fresh, Take, NoQuery

LEMMA ReadIsFresh ==
  ASSUME NEW Data, NEW good, NEW q, Whole(q, Data), NEW d \in Data
  PROVE  /\ Whole(Read(q, d), Data)
         /\ d \in good => Brings(Read(q, d), good)
         /\ Fresh(q, good) => Fresh(Read(q, d), good)
  BY DEF Whole, Queries, Fetches, Brings, Fresh, Read

LEMMA NoQueryIsFresh ==
  ASSUME NEW Data, NEW good
  PROVE  Whole(NoQuery, Data) /\ Brings(NoQuery, good) /\ Fresh(NoQuery, good)
  BY DEF Whole, Queries, Fetches, Brings, Fresh, NoQuery

----------------------------------------------------------------------------
(* The dashboard and the details page.                                       *)

(* The queries of these pages are queries of the cache.                     *)
LEMMA PagesCache ==
  /\ \A q : Pages!Mount(q) = Mount(q) /\ Pages!Take(q) = Take(q) /\ Pages!Cancel(q) = Cancel(q)
  /\ \A q : Pages!Losses(q) = Losses(q) /\ Pages!Fail(q) = Fail(q)
  /\ \A q, d : Pages!Read(q, d) = Read(q, d) /\ Pages!Invalidate(q, d) = Invalidate(q, d)
  /\ \A q, d : Pages!SetData(q, d) = SetData(q, d)
  /\ Pages!NoQuery = NoQuery
  BY DEF Pages!Fetch, Fetch, Pages!Mount, Mount, Pages!Take, Take, Pages!Losses,
       Losses,
     Pages!Read, Read, Pages!Invalidate, Invalidate, Pages!NoQuery, NoQuery,
     Pages!Fail, Fail, Pages!Cancel, Cancel, Pages!SetData, SetData

(* The lists that show no file whose deletion was confirmed, and every file *)
(* that the server has.                                                     *)
Truth ==
  {d \in Pages!Rows :
     \A f \in Files :
       /\ f \in told => d[f] = "absent"
       /\ d[f] = "absent" => stored[f] = "deleted"}

(* The mutations under way; one of them is the dashboard's.                 *)
OpenJobs ==
  [kind : Pages!Kinds, file : Files, from : {"dashboard", "details"},
   phase : {"sent", "done", "failed"}, before : Pages!Rows \cup {Nothing}]

Rolling == \E j \in Pages!Started : jobs[j] \in OpenJobs /\ jobs[j].from = "dashboard"

(* A deletion that was carried out, and the more one that was confirmed, is *)
(* one that the server knows of.                                            *)
StoredInv ==
  /\ stored \in [Files -> {"active", "revoked", "expired", "deleted"}]
  /\ told \subseteq Files
  /\ \A f \in told : stored[f] = "deleted"

JobsInv ==
  /\ modal \in Pages!Kinds \cup {"none"}
  /\ jobs \in [Pages!Started -> Pages!Job \cup {Nothing}]
  /\ \A j \in Pages!Started :
       jobs[j] \in OpenJobs /\ jobs[j].phase = "done" /\ jobs[j].kind = "delete" =>
         stored[jobs[j].file] = "deleted"

(* While a mutation of the dashboard is under way its optimistic change may *)
(* be in the list; the mark that the last of them leaves clears it away.    *)
ListInv ==
  /\ Whole(list, Pages!Rows)
  /\ Brings(list, Truth)
  /\ ~Rolling => Fresh(list, Truth)

(* A confirmed deletion has marked the details wherever they came from.     *)
DetailsInv ==
  /\ DOMAIN details = Opened
  /\ \A f \in Opened :
       /\ Whole(details[f], Pages!Row)
       /\ f \in told => Brings(details[f], {}) /\ Fresh(details[f], {})

PagesInv == StoredInv /\ JobsInv /\ ListInv /\ DetailsInv

LEMMA OpenJob ==
  ASSUME PagesInv, NEW j \in Pages!Started, NEW turn \in {"sent", "done", "failed"},
         Pages!InPhase(j, turn)
  PROVE  jobs[j] \in OpenJobs
  BY DEF PagesInv, JobsInv, OpenJobs, Pages!InPhase, Pages!Job

LEMMA PagesInit == ASSUME Pages!Init PROVE PagesInv
<1>1. StoredInv
  BY DEF Pages!Init, StoredInv
<1>2. JobsInv
  BY PagesAssumption DEF Pages!Init, JobsInv, OpenJobs, Pages!Job, Pages!Kinds
<1>3. ListInv
  BY PagesCache, NoQueryIsFresh DEF Pages!Init, ListInv
<1>4. DetailsInv
  BY PagesCache, NoQueryIsFresh DEF Pages!Init, DetailsInv
<1>. QED BY <1>1, <1>2, <1>3, <1>4 DEF PagesInv

(* What stays as it is stays true when files are deleted.                   *)
LEMMA ListStays ==
  ASSUME PagesInv, StoredInv', UNCHANGED <<list, told>>,
         \A f \in Files : stored[f] = "deleted" => stored'[f] = "deleted",
         Rolling => Rolling'
  PROVE  ListInv'
<1>1. Truth \subseteq Truth'
  BY DEF Truth, PagesInv, StoredInv
<1>. QED BY <1>1 DEF PagesInv, ListInv, Whole, Brings, Fresh

LEMMA DetailsStay == ASSUME PagesInv, UNCHANGED <<details, told>> PROVE DetailsInv'
  BY DEF PagesInv, DetailsInv, Whole, Brings, Fresh

LEMMA JobsStay ==
  ASSUME PagesInv, StoredInv', UNCHANGED jobs, modal' \in Pages!Kinds \cup {"none"},
         \A f \in Files : stored[f] = "deleted" => stored'[f] = "deleted"
  PROVE  JobsInv' /\ (Rolling => Rolling')
  BY DEF PagesInv, JobsInv, OpenJobs, Rolling

(* A mutation goes on to another phase.                                     *)
LEMMA JobTurns ==
  ASSUME PagesInv, StoredInv', UNCHANGED modal,
         \A f \in Files : stored[f] = "deleted" => stored'[f] = "deleted",
         NEW j \in Pages!Started, jobs[j] \in OpenJobs,
         NEW turn \in {"done", "failed"}, Pages!Phase(j, turn),
         turn = "done" /\ jobs[j].kind = "delete" => stored'[jobs[j].file] = "deleted"
  PROVE  JobsInv' /\ (Rolling => Rolling')
<1>1. jobs' = [jobs EXCEPT ![j].phase = turn]
  BY DEF Pages!Phase
<1>2. /\ jobs'[j] = [jobs[j] EXCEPT !.phase = turn]
      /\ \A i \in Pages!Started \ {j} : jobs'[i] = jobs[i]
  BY <1>1 DEF PagesInv, JobsInv
<1>3. jobs'[j] \in OpenJobs /\ jobs'[j].from = jobs[j].from /\ jobs'[j].phase = turn
      /\ jobs'[j].kind = jobs[j].kind /\ jobs'[j].file = jobs[j].file
  BY <1>2 DEF OpenJobs
<1>4. jobs' \in [Pages!Started -> Pages!Job \cup {Nothing}]
  BY <1>1, <1>2, <1>3 DEF PagesInv, JobsInv, OpenJobs, Pages!Job
<1>5. JobsInv'
  <2>1. ASSUME NEW i \in Pages!Started, jobs'[i] \in OpenJobs, jobs'[i].phase = "done",
               jobs'[i].kind = "delete"
        PROVE  stored'[jobs'[i].file] = "deleted"
    <3>1. CASE i = j
      BY <1>3, <2>1, <3>1
    <3>2. CASE i # j
      <4>1. jobs[i].file \in Files /\ stored[jobs[i].file] = "deleted"
        BY <1>2, <2>1, <3>2 DEF PagesInv, JobsInv, OpenJobs
      <4>. QED BY <1>2, <3>2, <4>1
    <3>. QED BY <3>1, <3>2
  <2>. QED BY <1>4, <2>1 DEF JobsInv, OpenJobs, PagesInv
<1>6. Rolling => Rolling'
  BY <1>2, <1>3 DEF Rolling, OpenJobs
<1>. QED BY <1>5, <1>6

(* A mutation is over, and both queries are marked.                         *)
LEMMA JobEnds ==
  ASSUME PagesInv, NEW j \in Pages!Started, jobs[j] \in OpenJobs, Pages!Finish(j),
         UNCHANGED stored, modal' \in Pages!Kinds \cup {"none"}
  PROVE  JobsInv' /\ (jobs[j].from # "dashboard" => (Rolling => Rolling'))
<1>1. jobs' = [jobs EXCEPT ![j] = [kind |-> jobs[j].kind, phase |-> "over"]]
  BY DEF Pages!Finish
<1>2. /\ jobs'[j] = [kind |-> jobs[j].kind, phase |-> "over"]
      /\ \A i \in Pages!Started \ {j} : jobs'[i] = jobs[i]
  BY <1>1 DEF PagesInv, JobsInv
<1>3. jobs'[j] \in Pages!Job /\ jobs'[j] \notin OpenJobs
  BY <1>2 DEF OpenJobs, Pages!Job
<1>4. jobs' \in [Pages!Started -> Pages!Job \cup {Nothing}]
  BY <1>1, <1>2, <1>3 DEF PagesInv, JobsInv
<1>5. JobsInv'
  BY <1>2, <1>3, <1>4 DEF PagesInv, JobsInv, OpenJobs
<1>. QED BY <1>2, <1>3, <1>5 DEF Rolling, OpenJobs

LEMMA Outdating ==
  ASSUME PagesInv, NEW lst, Whole(lst, Pages!Rows),
         list' \in {Pages!Outdated(lst), Mount(Pages!Outdated(lst))},
         DOMAIN details' = Opened,
         \A f \in Opened :
           details'[f] \in {Pages!OutdatedDetails[f], Mount(Pages!OutdatedDetails[f])}
  PROVE  ListInv' /\ DetailsInv'
<1>1. Pages!Outdated(lst) = Invalidate(lst, place = "dashboard")
  BY PagesCache DEF Pages!Outdated
<1>2. Whole(list', Pages!Rows) /\ Brings(list', Truth') /\ Fresh(list', Truth')
  BY <1>1, InvalidateIsFresh, MountIsFresh
<1>3. ASSUME NEW f \in Opened
      PROVE  Whole(details'[f], Pages!Row) /\ Brings(details'[f], {}) /\ Fresh(details'[f], {})
  <2>1. Pages!OutdatedDetails[f] = Invalidate(details[f], place = f)
    BY PagesCache DEF Pages!OutdatedDetails
  <2>2. Whole(Pages!OutdatedDetails[f], Pages!Row)
        /\ Brings(Pages!OutdatedDetails[f], {})
        /\ Fresh(Pages!OutdatedDetails[f], {})
    <3>1. Whole(details[f], Pages!Row)
      BY DEF PagesInv, DetailsInv
    <3>. QED BY <2>1, <3>1, InvalidateIsFresh
  <2>3. Whole(Mount(Pages!OutdatedDetails[f]), Pages!Row)
        /\ Brings(Mount(Pages!OutdatedDetails[f]), {})
        /\ Fresh(Mount(Pages!OutdatedDetails[f]), {})
    BY <2>2, MountIsFresh
  <2>. QED BY <2>2, <2>3
<1>4. ListInv'
  BY <1>2 DEF ListInv
<1>5. DetailsInv'
  BY <1>3 DEF DetailsInv
<1>. QED BY <1>4, <1>5

(* The other steps of the list, and those of the details.                   *)
LEMMA ListSteps ==
  ASSUME PagesInv, UNCHANGED <<stored, told, jobs>>,
         Whole(list', Pages!Rows), Brings(list', Truth), ~Rolling => Fresh(list', Truth)
  PROVE  ListInv'
  BY DEF ListInv, Rolling, Truth, Whole, Brings, Fresh, OpenJobs

LEMMA DetailsStep ==
  ASSUME PagesInv, UNCHANGED told, NEW f \in Opened, NEW q, Whole(q, Pages!Row),
         f \in told => Brings(q, {}) /\ Fresh(q, {}),
         details' = [details EXCEPT ![f] = q]
  PROVE  DetailsInv'
<1>1. details'[f] = q /\ \A g \in Opened \ {f} : details'[g] = details[g]
  BY DEF PagesInv, DetailsInv
<1>2. DOMAIN details' = Opened
  BY DEF PagesInv, DetailsInv
<1>. QED BY <1>1, <1>2 DEF PagesInv, DetailsInv

LEMMA AllStay ==
  ASSUME PagesInv, UNCHANGED <<stored, list, details, jobs, told>>,
         modal' \in Pages!Kinds \cup {"none"}
  PROVE  PagesInv'
<1>1. StoredInv'
  BY DEF PagesInv, StoredInv
<1>. QED BY <1>1, ListStays, DetailsStay, JobsStay DEF PagesInv, StoredInv

(* What the server does.                                                    *)
LEMMA ServerSteps ==
  ASSUME PagesInv,
         \/ \E f \in Files : Pages!Lapse(f)
         \/ Pages!AnswerList
         \/ \E f \in Opened : Pages!AnswerDetails(f)
         \/ \E j \in Pages!Started : Pages!AnswerDelete(j) \/ Pages!AnswerRevoke(j)
  PROVE  PagesInv'
<1>1. ASSUME NEW f \in Files, Pages!Lapse(f) PROVE PagesInv'
  <2>1. stored[f] # "deleted" /\ UNCHANGED <<list, details, jobs, modal, told>>
    BY <1>1 DEF Pages!Lapse, Pages!cache, Pages!screen
  <2>2. PICK s \in {"expired", "deleted"} : stored' = [stored EXCEPT ![f] = s]
    BY <1>1 DEF Pages!Lapse
  <2>3. StoredInv' /\ \A g \in Files : stored[g] = "deleted" => stored'[g] = "deleted"
    BY <2>1, <2>2 DEF PagesInv, StoredInv
  <2>4. modal' \in Pages!Kinds \cup {"none"}
    BY <2>1 DEF PagesInv, JobsInv
  <2>. QED BY <2>1, <2>3, <2>4, ListStays, DetailsStay, JobsStay DEF PagesInv
<1>2. CASE Pages!AnswerList
  <2> DEFINE d == [f \in Files |-> Pages!Listed(f)]
  <2>1. list' = Read(list, d) /\ UNCHANGED <<stored, details, jobs, modal, told>>
    BY <1>2, PagesCache DEF Pages!AnswerList, Pages!screen
  <2>2. d \in Truth /\ d \in Pages!Rows
    BY DEF Pages!Listed, Truth, Pages!Rows, Pages!Row, PagesInv, StoredInv
  <2>3. Whole(list', Pages!Rows) /\ Brings(list', Truth)
        /\ (~Rolling => Fresh(list', Truth))
    <3>. HIDE DEF d
    <3>. QED BY <2>1, <2>2, ReadIsFresh DEF PagesInv, ListInv
  <2>4. StoredInv' /\ modal' \in Pages!Kinds \cup {"none"}
    BY <2>1 DEF PagesInv, StoredInv, JobsInv
  <2>. QED BY <2>1, <2>3, <2>4, ListSteps, DetailsStay, JobsStay DEF PagesInv,
       StoredInv
<1>3. ASSUME NEW f \in Opened, Pages!AnswerDetails(f) PROVE PagesInv'
  <2>1. UNCHANGED <<stored, list, jobs, modal, told>>
    BY <1>3 DEF Pages!AnswerDetails, Pages!screen
  <2>2. f \in Files /\ Whole(details[f], Pages!Row)
        /\ (f \in told => Brings(details[f], {}) /\ Fresh(details[f], {}))
    BY BrowserAssumption DEF PagesInv, DetailsInv
  <2>3. ASSUME Pages!Listed(f) = "absent" PROVE DetailsInv'
    <3>1. details' = [details EXCEPT ![f] = Fail(details[f])]
      BY <1>3, <2>3, PagesCache DEF Pages!AnswerDetails
    <3>2. Whole(Fail(details[f]), Pages!Row)
          /\ (f \in told => Brings(Fail(details[f]), {}) /\ Fresh(Fail(details[f]), {}))
      BY <2>2, FailIsFresh
    <3>. QED BY <2>1, <3>1, <3>2, DetailsStep
  <2>4. ASSUME Pages!Listed(f) # "absent" PROVE DetailsInv'
    <3>1. details' = [details EXCEPT ![f] = Read(details[f], Pages!Listed(f))]
      BY <1>3, <2>4, PagesCache DEF Pages!AnswerDetails
    <3>2. f \notin told /\ Pages!Listed(f) \in Pages!Row
      BY <2>2, <2>4 DEF Pages!Listed, Pages!Row, PagesInv, StoredInv
    <3>3. Whole(Read(details[f], Pages!Listed(f)), Pages!Row)
      BY <2>2, <3>2, ReadIsFresh
    <3>. QED BY <2>1, <3>1, <3>2, <3>3, DetailsStep
  <2>5. DetailsInv'
    BY <2>3, <2>4
  <2>6. StoredInv' /\ modal' \in Pages!Kinds \cup {"none"}
    BY <2>1 DEF PagesInv, StoredInv, JobsInv
  <2>. QED BY <2>1, <2>5, <2>6, ListStays, JobsStay DEF PagesInv, StoredInv
<1>4. ASSUME NEW j \in Pages!Started, Pages!AnswerDelete(j) PROVE PagesInv'
  <2>1. /\ jobs[j] \in OpenJobs /\ UNCHANGED <<list, details, modal, told>>
        /\ stored' = [stored EXCEPT ![jobs[j].file] = "deleted"]
        /\ Pages!Phase(j, "done")
    BY <1>4, OpenJob DEF Pages!AnswerDelete, Pages!cache, Pages!screen
  <2>2. jobs[j].file \in Files
    BY <2>1 DEF OpenJobs
  <2>3. StoredInv' /\ \A g \in Files : stored[g] = "deleted" \/ g = jobs[j].file =>
             stored'[g] = "deleted"
    BY <2>1, <2>2 DEF PagesInv, StoredInv
  <2>4. JobsInv' /\ (Rolling => Rolling')
    BY <2>1, <2>2, <2>3, JobTurns
  <2>. QED BY <2>1, <2>3, <2>4, ListStays, DetailsStay DEF PagesInv
<1>5. ASSUME NEW j \in Pages!Started, Pages!AnswerRevoke(j) PROVE PagesInv'
  <2>1. /\ jobs[j] \in OpenJobs /\ UNCHANGED <<list, details, modal, told>>
        /\ jobs[j].kind = "revoke"
        /\ Pages!Phase(j, "done") \/ Pages!Phase(j, "failed")
    BY <1>5, OpenJob DEF Pages!AnswerRevoke, Pages!cache, Pages!screen
  <2>2. jobs[j].file \in Files
    BY <2>1 DEF OpenJobs
  <2>3. stored' = stored \/ (stored[jobs[j].file] = "active"
                             /\ stored' = [stored EXCEPT ![jobs[j].file] = "revoked"])
    BY <1>5 DEF Pages!AnswerRevoke
  <2>4. StoredInv' /\ \A g \in Files : stored[g] = "deleted" => stored'[g] = "deleted"
    BY <2>1, <2>2, <2>3 DEF PagesInv, StoredInv
  <2>5. JobsInv' /\ (Rolling => Rolling')
    BY <2>1, <2>4, JobTurns
  <2>. QED BY <2>1, <2>4, <2>5, ListStays, DetailsStay DEF PagesInv
<1>. QED BY <1>1, <1>2, <1>3, <1>4, <1>5

LEMMA LoseKeeps == ASSUME PagesInv, Pages!Lose PROVE PagesInv'
<1>1. UNCHANGED <<stored, modal, told>>
  BY DEF Pages!Lose, Pages!screen
<1>2. StoredInv' /\ modal' \in Pages!Kinds \cup {"none"}
  BY <1>1 DEF PagesInv, StoredInv, JobsInv
<1>3. ASSUME list' \in Losses(list), UNCHANGED <<details, jobs>> PROVE PagesInv'
  <2>1. Whole(list', Pages!Rows) /\ Brings(list', Truth)
        /\ (~Rolling => Fresh(list', Truth))
    BY <1>3, LossIsFresh DEF PagesInv, ListInv
  <2>. QED BY <1>1, <1>2, <1>3, <2>1, ListSteps, DetailsStay, JobsStay DEF PagesInv,
       StoredInv
<1>4. ASSUME NEW f \in Opened, NEW q \in Losses(details[f]),
             details' = [details EXCEPT ![f] = q], UNCHANGED <<list, jobs>>
      PROVE  PagesInv'
  <2>1. Whole(details[f], Pages!Row) /\ (f \in told => Fresh(details[f], {}))
    BY DEF PagesInv, DetailsInv
  <2>2. Whole(q, Pages!Row) /\ (f \in told => Brings(q, {}) /\ Fresh(q, {}))
    BY <2>1, LossIsFresh
  <2>3. DetailsInv'
    BY <1>1, <1>4, <2>2, DetailsStep
  <2>. QED BY <1>1, <1>2, <1>4, <2>3, ListStays, JobsStay DEF PagesInv, StoredInv
<1>5. ASSUME NEW j \in Pages!Started, Pages!InPhase(j, "sent") \/ Pages!InPhase(j, "done"),
             Pages!Phase(j, "failed"), UNCHANGED <<list, details>>
      PROVE  PagesInv'
  <2>1. jobs[j] \in OpenJobs
    BY <1>5, OpenJob
  <2>2. JobsInv' /\ (Rolling => Rolling')
    BY <1>1, <1>2, <1>5, <2>1, JobTurns
  <2>. QED BY <1>1, <1>2, <1>5, <2>2, ListStays, DetailsStay DEF PagesInv
<1>6. \/ list' \in Losses(list) /\ UNCHANGED <<details, jobs>>
      \/ \E f \in Opened : \E q \in Losses(details[f]) :
           details' = [details EXCEPT ![f] = q] /\ UNCHANGED <<list, jobs>>
      \/ \E j \in Pages!Started :
           /\ Pages!InPhase(j, "sent") \/ Pages!InPhase(j, "done")
           /\ Pages!Phase(j, "failed") /\ UNCHANGED <<list, details>>
  BY PagesCache DEF Pages!Lose, Pages!cache
<1>. QED BY <1>3, <1>4, <1>5, <1>6

LEMMA AgeKeeps == ASSUME PagesInv, Pages!Age PROVE PagesInv'
<1>1. UNCHANGED <<stored, jobs, modal, told>>
  BY DEF Pages!Age, Pages!screen
<1>2. StoredInv' /\ modal' \in Pages!Kinds \cup {"none"}
  BY <1>1 DEF PagesInv, StoredInv, JobsInv
<1>3. ASSUME list' = [list EXCEPT !.valid = FALSE], UNCHANGED details
      PROVE  PagesInv'
  <2>1. Whole(list', Pages!Rows) /\ Brings(list', Truth)
        /\ (~Rolling => Fresh(list', Truth))
    BY <1>3 DEF PagesInv, ListInv, Whole, Queries, Brings, Fresh
  <2>. QED BY <1>1, <1>2, <1>3, <2>1, ListSteps, DetailsStay, JobsStay DEF PagesInv,
       StoredInv
<1>4. ASSUME NEW f \in Opened, details' = [details EXCEPT ![f].valid = FALSE], UNCHANGED list
      PROVE  PagesInv'
  <2> DEFINE q == [details[f] EXCEPT !.valid = FALSE]
  <2>1. Whole(details[f], Pages!Row) /\ (f \in told => Brings(details[f], {}))
    BY DEF PagesInv, DetailsInv
  <2>2. Whole(q, Pages!Row) /\ (f \in told => Brings(q, {}) /\ Fresh(q, {}))
    BY <2>1 DEF Whole, Queries, Brings, Fresh
  <2>3. details' = [details EXCEPT ![f] = q]
    BY <1>4
  <2>4. DetailsInv'
    BY <1>1, <2>2, <2>3, DetailsStep
  <2>. QED BY <1>1, <1>2, <1>4, <2>4, ListStays, JobsStay DEF PagesInv, StoredInv
<1>. QED BY <1>3, <1>4 DEF Pages!Age

LEMMA ReceiveKeeps ==
  ASSUME PagesInv, Pages!ReceiveList \/ \E f \in Opened : Pages!ReceiveDetails(f)
  PROVE  PagesInv'
<1>1. UNCHANGED <<stored, jobs, modal, told>>
  BY DEF Pages!ReceiveList, Pages!ReceiveDetails, Pages!screen
<1>2. StoredInv' /\ modal' \in Pages!Kinds \cup {"none"}
  BY <1>1 DEF PagesInv, StoredInv, JobsInv
<1>3. ASSUME list' = Take(list), UNCHANGED details PROVE PagesInv'
  <2>1. Whole(list', Pages!Rows) /\ Brings(list', Truth)
        /\ (~Rolling => Fresh(list', Truth))
    BY <1>3, TakeIsFresh DEF PagesInv, ListInv
  <2>. QED BY <1>1, <1>2, <1>3, <2>1, ListSteps, DetailsStay, JobsStay DEF PagesInv,
       StoredInv
<1>4. ASSUME NEW f \in Opened, details' = [details EXCEPT ![f] = Take(details[f])], UNCHANGED list
      PROVE  PagesInv'
  <2>1. Whole(details[f], Pages!Row) /\ (f \in told => Brings(details[f], {}))
    BY DEF PagesInv, DetailsInv
  <2>2. Whole(Take(details[f]), Pages!Row)
        /\ (f \in told => Brings(Take(details[f]), {}) /\ Fresh(Take(details[f]), {}))
    BY <2>1, TakeIsFresh
  <2>3. DetailsInv'
    BY <1>1, <1>4, <2>2, DetailsStep
  <2>. QED BY <1>1, <1>2, <1>4, <2>3, ListStays, JobsStay DEF PagesInv, StoredInv
<1>. QED BY <1>3, <1>4, PagesCache DEF Pages!ReceiveList, Pages!ReceiveDetails

LEMMA VisitKeeps == ASSUME PagesInv, NEW page, Pages!Visit(page) PROVE PagesInv'
<1>1. /\ UNCHANGED <<stored, jobs, told>> /\ modal' = "none"
      /\ list' \in {list, Mount(list)}
      /\ details' = [f \in Opened |-> IF f = page THEN Mount(details[f]) ELSE details[f]]
  BY PagesCache DEF Pages!Visit, Pages!Arrive
<1>2. Whole(list', Pages!Rows) /\ Brings(list', Truth)
      /\ (~Rolling => Fresh(list', Truth))
  BY <1>1, MountIsFresh DEF PagesInv, ListInv
<1>3. ASSUME NEW f \in Opened
      PROVE  /\ Whole(details'[f], Pages!Row)
             /\ f \in told => Brings(details'[f], {}) /\ Fresh(details'[f], {})
  <2>1. Whole(details[f], Pages!Row)
        /\ (f \in told => Brings(details[f], {}) /\ Fresh(details[f], {}))
    BY DEF PagesInv, DetailsInv
  <2>2. details'[f] \in {details[f], Mount(details[f])}
    BY <1>1
  <2>. QED BY <2>1, <2>2, MountIsFresh
<1>4. DetailsInv'
  BY <1>1, <1>3 DEF DetailsInv
<1>5. StoredInv' /\ modal' \in Pages!Kinds \cup {"none"}
  BY <1>1 DEF PagesInv, StoredInv
<1>. QED BY <1>1, <1>2, <1>4, <1>5, ListSteps, JobsStay DEF PagesInv, StoredInv

LEMMA JobStarts ==
  ASSUME PagesInv, StoredInv', UNCHANGED <<stored, told>>, modal' \in Pages!Kinds \cup {"none"},
         NEW kind \in Pages!Kinds, NEW f \in Files, NEW from \in {"dashboard", "details"},
         NEW before \in Pages!Rows \cup {Nothing}, Pages!Start(kind, f, from, before)
  PROVE  JobsInv' /\ (Rolling => Rolling') /\ (from = "dashboard" => Rolling')
<1>. DEFINE job ==
       [kind |-> kind, file |-> f, from |-> from, phase |-> "sent", before |-> before]
<1>1. PICK j \in Pages!Started : jobs' = [jobs EXCEPT ![j] = job]
                                /\ \A i \in Pages!Started : jobs[i] = Nothing <=> i >= j
  BY DEF Pages!Start
<1>2. jobs[j] = Nothing /\ jobs'[j] = job
      /\ \A i \in Pages!Started \ {j} : jobs'[i] = jobs[i]
  BY <1>1, BrowserAssumption DEF PagesInv, JobsInv, Pages!Started
<1>3. job \in OpenJobs /\ job \in Pages!Job /\ Nothing \notin OpenJobs
  BY PagesAssumption DEF OpenJobs, Pages!Job
<1>4. jobs' \in [Pages!Started -> Pages!Job \cup {Nothing}]
  BY <1>1, <1>3 DEF PagesInv, JobsInv
<1>5. JobsInv'
  BY <1>2, <1>4 DEF PagesInv, JobsInv, OpenJobs
<1>. QED BY <1>2, <1>3, <1>5 DEF Rolling, OpenJobs

LEMMA MutateRowKeeps ==
  ASSUME PagesInv, NEW f \in Files, NEW kind \in Pages!Kinds, Pages!MutateRow(kind, f)
  PROVE  PagesInv'
<1>1. /\ UNCHANGED <<stored, details, modal, told>>
      /\ Pages!Start(kind, f, "dashboard", list.data)
      /\ list' = SetData(Cancel(list), Pages!Optimistic(kind, f))
      /\ f \in Pages!Shown
  BY PagesCache DEF Pages!MutateRow, Pages!CanDeleteRow, Pages!CanRevokeRow,
       Pages!ShowsLink
<1>2. Whole(list, Pages!Rows) /\ list.data \in Pages!Rows
  BY <1>1 DEF PagesInv, ListInv, Whole, Queries, Pages!Shown
<1>3. Pages!Optimistic(kind, f) \in Pages!Rows
  BY <1>2 DEF Pages!Optimistic, Pages!Rows, Pages!Row
<1>4. Whole(list', Pages!Rows) /\ Brings(list', Truth')
  BY <1>1, <1>2, <1>3 DEF Whole, Queries, Fetches, Brings, SetData, Cancel
<1>5. StoredInv' /\ modal' \in Pages!Kinds \cup {"none"}
  BY <1>1 DEF PagesInv, StoredInv, JobsInv
<1>6. JobsInv' /\ Rolling'
  BY <1>1, <1>2, <1>5, JobStarts
<1>7. DetailsInv'
  BY <1>1, DetailsStay
<1>. QED BY <1>4, <1>5, <1>6, <1>7 DEF PagesInv, ListInv

LEMMA MutateFileKeeps ==
  ASSUME PagesInv, NEW f \in Opened, Pages!MutateFile(f)
  PROVE  PagesInv'
<1>1. /\ UNCHANGED <<stored, list, details, modal, told>>
      /\ modal # "none" /\ Pages!Start(modal, f, "details", Nothing)
  BY DEF Pages!MutateFile, Pages!cache, Pages!screen
<1>2. StoredInv' /\ modal' \in Pages!Kinds \cup {"none"} /\ modal \in Pages!Kinds
      /\ f \in Files
  BY <1>1, BrowserAssumption DEF PagesInv, StoredInv, JobsInv
<1>3. JobsInv' /\ (Rolling => Rolling')
  BY <1>1, <1>2, JobStarts
<1>. QED BY <1>1, <1>2, <1>3, ListStays, DetailsStay DEF PagesInv

(* The callbacks of a mutation, and the handler that awaited it.            *)
LEMMA SettleKeeps ==
  ASSUME PagesInv, NEW j \in Pages!Started, Pages!Settle(j)
  PROVE  PagesInv'
<1>1. jobs[j] \in OpenJobs /\ UNCHANGED stored /\ Pages!Finish(j)
      /\ modal' \in Pages!Kinds \cup {"none"}
  BY OpenJob DEF Pages!Settle, Pages!RowSucceeds, Pages!RowFails,
       Pages!FileSucceeds,
     Pages!FileFails, Pages!screen, Pages!cache, Pages!Arrive, PagesInv, JobsInv
<1>2. JobsInv' /\ (jobs[j].from # "dashboard" => (Rolling => Rolling'))
  BY <1>1, JobEnds
<1>3. ASSUME Pages!RowSucceeds(j) \/ Pages!FileSucceeds(j) PROVE StoredInv'
  <2>1. jobs[j].phase = "done" /\ Pages!Confirm(j)
    BY <1>3 DEF Pages!RowSucceeds, Pages!FileSucceeds, Pages!InPhase
  <2>2. jobs[j].file \in Files /\ (jobs[j].kind = "delete" => stored[jobs[j].file] = "deleted")
    BY <1>1, <2>1 DEF PagesInv, JobsInv, OpenJobs
  <2>. QED BY <1>1, <2>1, <2>2 DEF Pages!Confirm, PagesInv, StoredInv
<1>4. ASSUME Pages!RowFails(j) \/ Pages!FileFails(j)
      PROVE  StoredInv' /\ UNCHANGED told
  BY <1>1, <1>4 DEF Pages!RowFails, Pages!FileFails, PagesInv, StoredInv
<1>5. ASSUME NEW lst, Whole(lst, Pages!Rows), StoredInv',
             list' \in {Pages!Outdated(lst), Mount(Pages!Outdated(lst))},
             \/ details' = Pages!OutdatedDetails
             \/ \E page : details' = [f \in Opened |-> IF f = page
                                                     THEN Mount(Pages!OutdatedDetails[f])
                                                     ELSE Pages!OutdatedDetails[f]]
      PROVE  PagesInv'
  <2>1. DOMAIN details' = Opened
        /\ \A f \in Opened :
             details'[f] \in {Pages!OutdatedDetails[f], Mount(Pages!OutdatedDetails[f])}
    BY <1>5 DEF Pages!OutdatedDetails
  <2>2. ListInv' /\ DetailsInv'
    BY <1>5, <2>1, Outdating
  <2>. QED BY <1>2, <1>5, <2>2 DEF PagesInv
<1>6. Whole(list, Pages!Rows)
  BY DEF PagesInv, ListInv
<1>7. CASE Pages!RowSucceeds(j)
  BY <1>3, <1>5, <1>6, <1>7 DEF Pages!RowSucceeds
<1>8. CASE Pages!RowFails(j)
  <2>1. Whole(SetData(list, jobs[j].before), Pages!Rows)
    BY <1>1, <1>6 DEF Whole, Queries, SetData, OpenJobs
  <2>. QED BY <1>4, <1>5, <1>8, <2>1, PagesCache DEF Pages!RowFails
<1>9. CASE Pages!FileSucceeds(j)
  <2>1. StoredInv'
    BY <1>3, <1>9
  <2>2. CASE jobs[j].kind = "delete" /\ place # "dashboard"
    <3>1. Pages!Arrive("dashboard", Pages!Outdated(list), Pages!OutdatedDetails)
      BY <1>9, <2>2 DEF Pages!FileSucceeds
    <3>2. list' = Mount(Pages!Outdated(list))
          /\ details' = [f \in Opened |-> IF f = "dashboard" THEN Mount(Pages!OutdatedDetails[f])
                                         ELSE Pages!OutdatedDetails[f]]
      BY <3>1, PagesCache DEF Pages!Arrive
    <3>. QED BY <1>5, <1>6, <2>1, <3>2
  <2>3. CASE ~(jobs[j].kind = "delete" /\ place # "dashboard")
    <3>1. list' = Pages!Outdated(list) /\ details' = Pages!OutdatedDetails
      BY <1>9, <2>3 DEF Pages!FileSucceeds
    <3>. QED BY <1>5, <1>6, <2>1, <3>1
  <2>. QED BY <2>2, <2>3
<1>10. CASE Pages!FileFails(j)
  <2>1. UNCHANGED <<list, details>> /\ jobs[j].from = "details"
    BY <1>10 DEF Pages!FileFails, Pages!cache
  <2>. QED BY <1>1, <1>2, <1>4, <1>10, <2>1, ListStays, DetailsStay DEF PagesInv
<1>. QED BY <1>7, <1>8, <1>9, <1>10 DEF Pages!Settle

LEMMA PagesNext == ASSUME PagesInv, Pages!Next PROVE PagesInv'
<1>1. CASE Pages!Answered
  BY <1>1, ServerSteps, ReceiveKeeps, SettleKeeps DEF Pages!Answered
<1>2. CASE Pages!Lose
  BY <1>2, LoseKeeps
<1>3. CASE Pages!Age
  BY <1>3, AgeKeeps
<1>4. CASE Pages!CloseModal \/ Pages!DismissAlert
  BY <1>4, AllStay DEF Pages!CloseModal, Pages!DismissAlert, Pages!cache, PagesInv,
       JobsInv
<1>5. ASSUME NEW page, Pages!Visit(page) PROVE PagesInv'
  BY <1>5, VisitKeeps
<1>6. ASSUME NEW f \in Files, Pages!Lapse(f) \/ \E kind \in Pages!Kinds : Pages!MutateRow(kind, f)
      PROVE  PagesInv'
  BY <1>6, ServerSteps, MutateRowKeeps
<1>7. ASSUME NEW f \in Opened, Pages!MutateFile(f) PROVE PagesInv'
  BY <1>7, MutateFileKeeps
<1>8. ASSUME NEW f \in Opened, NEW kind \in Pages!Kinds, Pages!OpenModal(f, kind)
      PROVE  PagesInv'
  BY <1>8, AllStay DEF Pages!OpenModal, Pages!cache
<1>. QED BY <1>1, <1>2, <1>3, <1>4, <1>5, <1>6, <1>7, <1>8 DEF Pages!Next

LEMMA PagesElse == ASSUME PagesInv, UNCHANGED pages PROVE PagesInv'
  BY AllStay DEF pages, PagesInv, JobsInv

LEMMA PagesStep == ASSUME PagesInv, [Next]_vars PROVE PagesInv'
<1>1. CASE AtFiles(Pages!Next)
  BY <1>1, PagesNext DEF AtFiles
<1>2. Next /\ ~AtFiles(Pages!Next) => UNCHANGED pages
  BY DEF Next, AtFiles, AtUpload, AtAccount, AtShare, AtPanel, AtTables
<1>. QED BY <1>1, <1>2, PagesElse DEF vars

LEMMA PagesAlways == Spec => []PagesInv
<1>1. Init => PagesInv
  BY PagesInit DEF Init
<1>2. PagesInv /\ [Next]_vars => PagesInv'
  BY PagesStep
<1>. QED BY <1>1, <1>2, PTL DEF Spec

(* The dashboard, once its mutations have settled, shows the files there    *)
(* are: its optimistic updates and rollbacks leave no trace.                *)
THEOREM ListsAreTrue == Spec => []SettledListIsTrue
<1>1. ASSUME PagesInv, Pages!AllSettled, Pages!Quiet(list), NEW f \in Files
      PROVE  (f \in told => f \notin Pages!Shown) /\ (f \notin Pages!Shown => stored[f] = "deleted")
  <2>1. ~Rolling
    BY <1>1, PagesAssumption DEF Pages!AllSettled, Rolling, OpenJobs, Pages!Job
  <2>2. list.data \in Truth /\ list.data # Nothing
    BY <1>1, <2>1 DEF PagesInv, ListInv, Fresh, Pages!Quiet
  <2>. QED BY <2>2 DEF Truth, Pages!Shown
<1>2. PagesInv => SettledListIsTrue
  BY <1>1 DEF SettledListIsTrue, Pages!SettledListIsTrue
<1>. QED BY <1>2, PagesAlways, PTL

(* The details page does not show a file whose deletion was confirmed.      *)
THEOREM DetailsAreGone == Spec => []DeletedDetailsAreGone
<1>1. PagesInv => DeletedDetailsAreGone
  BY DEF PagesInv, DetailsInv, Fresh, DeletedDetailsAreGone,
       Pages!DeletedDetailsAreGone, Pages!Quiet
<1>. QED BY <1>1, PagesAlways, PTL

----------------------------------------------------------------------------
(* The tables.                                                              *)

(* Page key[2] of the table under filter key[1] has rows when there are n   *)
(* entries, or is the first.                                                *)
Holds(key, n) == key[2] = 1 \/ Paged!Matching(key[1], n) > Paged!Skip(key[2])

(* A reply to the query of a page is one the server could have given.       *)
Sound(key, rows, n) == rows.seen <= n /\ rows.counted <= n /\ Holds(key, rows.seen)

(* A page is only asked for when it has rows, or is the first.              *)
Founded(key, q, n) ==
  /\ q \in Paged!Queries(Paged!Replies)
  /\ q.data # Nothing \/ q.fetch # "idle" => Holds(key, n)
  /\ q.data # Nothing => Sound(key, q.data, n)
  /\ q.answer # Nothing => Sound(key, q.answer, n)

(* Every page in the cache, and the one the user is at, has or will have    *)
(* rows; entries only grow, so that this lasts.                             *)
PagedInv ==
  /\ entries \in 0..MaxEntries
  /\ filter \in Paged!Filters
  /\ number \in Paged!Numbers
  /\ Holds(Paged!Key, entries)
  /\ DOMAIN cache = Paged!Keys
  /\ \A k \in Paged!Keys : Founded(k, cache[k], entries)

LEMMA Sizes == PageSize \in Nat \ {0} /\ MaxEntries \in Nat
  BY BrowserAssumption

LEMMA MorePages ==
  ASSUME NEW num \in Nat \ {0}, NEW other \in Nat \ {0}, num <= other
  PROVE  Paged!Skip(num) \in Nat /\ Paged!Skip(num) <= Paged!Skip(other)
         /\ Paged!Skip(num + 1) = Paged!Skip(num) + PageSize
<1>. DEFINE a == num - 1
<1>. DEFINE d == other - num
<1>1. a \in Nat /\ d \in Nat /\ a * PageSize \in Nat /\ d * PageSize \in Nat
  BY Sizes
<1>2. (a + d) * PageSize = a * PageSize + d * PageSize
  BY <1>1, Sizes
<1>3. (a + 1) * PageSize = a * PageSize + PageSize
  BY <1>1, Sizes
<1>. HIDE DEF a, d
<1>4. a + d = other - 1 /\ a = num - 1 /\ num + 1 - 1 = a + 1
  BY DEF a, d
<1>. QED BY <1>1, <1>2, <1>3, <1>4, Sizes DEF Paged!Skip

(* Math.ceil: another page there is exactly when this one is full and more. *)
LEMMA MorePagesThan ==
  ASSUME NEW num \in Nat \ {0}, NEW total \in Nat
  PROVE  num < Paged!TotalPages(total) <=> total > Paged!Skip(num) + PageSize
<1>1. Paged!Skip(num) + PageSize = num * PageSize
  BY MorePages, Sizes DEF Paged!Skip
<1>2. num * PageSize \in Nat
  BY Sizes
<1>. DEFINE t == total + PageSize - 1
<1>. DEFINE p == t \div PageSize
<1>3. t \in Nat /\ p \in Nat /\ p * PageSize <= t /\ t < p * PageSize + PageSize
  BY Sizes
<1>4. num < p => num * PageSize + PageSize <= p * PageSize
  <2>. HAVE num < p
  <2>1. p - num - 1 \in Nat
    BY <1>3
  <2>2. (p - num - 1) * PageSize \in Nat
    BY <2>1, Sizes
  <2>3. (p - num - 1) * PageSize = p * PageSize - num * PageSize - PageSize
    BY <1>3, Sizes
  <2>. QED BY <1>2, <1>3, <2>2, <2>3, Sizes
<1>5. p <= num => p * PageSize <= num * PageSize
  <2>. HAVE p <= num
  <2>1. (num - p) * PageSize \in Nat
    BY <1>3, Sizes
  <2>2. (num - p) * PageSize = num * PageSize - p * PageSize
    BY <1>3, Sizes
  <2>. QED BY <1>2, <1>3, <2>1, <2>2, Sizes
<1>6. num < p <=> total > num * PageSize
  BY <1>2, <1>3, <1>4, <1>5, Sizes
<1>. QED BY <1>1, <1>6 DEF Paged!TotalPages

LEMMA MoreMatch ==
  ASSUME NEW fil \in Paged!Filters, NEW n \in Nat, NEW m \in Nat, n <= m
  PROVE  Paged!Matching(fil, n) \in Nat /\ Paged!Matching(fil, n) <= Paged!Matching(fil, m)
         /\ Paged!Matching(fil, n) <= n
  BY DEF Paged!Matching, Paged!Filters

LEMMA MoreHold ==
  ASSUME NEW k \in Paged!Keys, NEW n \in Nat, NEW m \in Nat, n <= m, Holds(k, n)
  PROVE  Holds(k, m)
<1>1. k[1] \in Paged!Filters /\ k[2] \in Nat \ {0}
  BY DEF Paged!Keys, Paged!Numbers
<1>2. Paged!Skip(k[2]) \in Nat
  BY <1>1, MorePages
<1>. QED BY <1>1, <1>2, MoreMatch DEF Holds

LEMMA MoreFounded ==
  ASSUME NEW k \in Paged!Keys, NEW q, NEW n \in Nat, NEW m \in Nat, n <= m, Founded(k, q, n)
  PROVE  Founded(k, q, m)
  BY MoreHold DEF Founded, Sound, Paged!Queries, Paged!Replies

(* What the operations of the cache keep.                                   *)
LEMMA FetchFounded ==
  ASSUME NEW k \in Paged!Keys, NEW q, NEW n \in Nat, Founded(k, q, n), Holds(k, n)
  PROVE  Founded(k, Paged!Fetch(q), n) /\ Founded(k, Paged!Mount(q), n)
  BY ZenonT(60) DEF Founded, Paged!Queries, Paged!Fetches, Paged!Fetch, Paged!Mount

LEMMA FailFounded ==
  ASSUME NEW k \in Paged!Keys, NEW q, NEW n \in Nat, Founded(k, q, n), q.fetch # "idle"
  PROVE  Founded(k, Paged!Fail(q), n)
  BY DEF Founded, Paged!Queries, Paged!Fetches, Paged!Fail, Paged!Cancel

LEMMA LossFounded ==
  ASSUME NEW k \in Paged!Keys, NEW q, NEW n \in Nat, Founded(k, q, n), q.fetch # "idle",
         NEW r \in Paged!Losses(q)
  PROVE  Founded(k, r, n)
<1>1. Founded(k, Paged!Fail(q), n)
  BY FailFounded
<1>2. CASE q.again
  BY <1>1, <1>2 DEF Paged!Losses
<1>3. CASE ~q.again
  <2>1. Paged!Fail(q).fetch # "idle"
    BY <1>3 DEF Founded, Paged!Queries, Paged!Fail
  <2>. QED BY <1>1, <1>3, <2>1, FailFounded DEF Paged!Losses
<1>. QED BY <1>2, <1>3

LEMMA TakeFounded ==
  ASSUME NEW k \in Paged!Keys, NEW q, NEW n \in Nat, Founded(k, q, n), q.fetch # "idle"
  PROVE  Founded(k, Paged!Take(q), n)
  BY DEF Founded, Paged!Queries, Paged!Fetches, Paged!Take, Paged!NoQuery

LEMMA ReadFounded ==
  ASSUME NEW k \in Paged!Keys, NEW q, NEW n \in Nat, Founded(k, q, n), q.fetch # "idle",
         NEW rows \in Paged!Replies, Sound(k, rows, n)
  PROVE  Founded(k, Paged!Read(q, rows), n)
  BY DEF Founded, Paged!Queries, Paged!Fetches, Paged!Read

(* One page of the cache changes.                                           *)
LEMMA OneChanges ==
  ASSUME PagedInv, NEW k \in Paged!Keys, NEW q, Founded(k, q, entries),
         cache' = [cache EXCEPT ![k] = q], UNCHANGED <<entries, filter, number>>
  PROVE  PagedInv'
  BY DEF PagedInv, Paged!Key

LEMMA GoToKeeps ==
  ASSUME PagedInv, NEW fil \in Paged!Filters, NEW num \in Paged!Numbers,
         Holds(<<fil, num>>, entries), Paged!GoTo(fil, num)
  PROVE  PagedInv'
<1>1. <<fil, num>> \in Paged!Keys
  BY DEF Paged!Keys
<1>2. Founded(<<fil, num>>, Paged!Mount(cache[<<fil, num>>]), entries)
  BY <1>1, FetchFounded, Sizes DEF PagedInv
<1>3. cache' = [cache EXCEPT ![<<fil, num>>] = Paged!Mount(cache[<<fil, num>>])]
  BY DEF Paged!GoTo
<1>4. \A k \in Paged!Keys : Founded(k, cache'[k], entries)
  BY <1>1, <1>2, <1>3 DEF PagedInv
<1>5. DOMAIN cache' = Paged!Keys
  BY <1>3 DEF PagedInv
<1>6. entries' = entries /\ filter' = fil /\ number' = num
  BY DEF Paged!GoTo
<1>. QED BY <1>4, <1>5, <1>6 DEF PagedInv, Paged!Key

LEMMA PagedInit == ASSUME Paged!Init PROVE PagedInv
<1>1. 1 \in Paged!Numbers
  BY Sizes DEF Paged!Numbers
<1>2. \A k \in Paged!Keys : Founded(k, Paged!NoQuery, entries)
  BY DEF Founded, Paged!NoQuery, Paged!Queries, Paged!Fetches
<1>3. DOMAIN cache = Paged!Keys /\ \A k \in Paged!Keys : Founded(k, cache[k], entries)
  BY <1>2 DEF Paged!Init
<1>4. Holds(Paged!Key, entries)
  BY DEF Paged!Init, Paged!Key, Holds
<1>. QED BY <1>1, <1>3, <1>4 DEF Paged!Init, PagedInv, Paged!Filters

LEMMA KeyIsKey == ASSUME PagedInv PROVE Paged!Key \in Paged!Keys /\ number \in Nat \ {0}
  BY DEF PagedInv, Paged!Key, Paged!Keys, Paged!Numbers

LEMMA ForwardKeeps == ASSUME PagedInv, Paged!Forward PROVE PagedInv'
<1>. DEFINE rows == cache[Paged!Key].data
<1>. DEFINE total == Paged!Matching(filter, rows.counted)
<1>1. rows \in Paged!Replies /\ rows.counted <= entries /\ rows.counted \in Nat
  BY KeyIsKey DEF Paged!Forward, Paged!CanNext, Paged!ShowsRows, Paged!Loaded,
       Paged!Current,
     PagedInv, Founded, Sound, Paged!Queries, Paged!Replies
<1>2. total \in Nat /\ total <= Paged!Matching(filter, entries) /\ total <= MaxEntries
  BY <1>1, MoreMatch, Sizes DEF PagedInv
<1>3. number < Paged!TotalPages(total)
  BY DEF Paged!Forward, Paged!CanNext, Paged!TotalOf, Paged!Current, Paged!Key
<1>4. total > Paged!Skip(number) + PageSize
  BY <1>2, <1>3, KeyIsKey, MorePagesThan
<1>5. number + 1 \in Paged!Numbers
  <2>1. number * PageSize < MaxEntries /\ number * PageSize \in Nat
    BY <1>2, <1>4, KeyIsKey, Sizes, MorePages DEF Paged!Skip
  <2>2. number <= MaxEntries \div PageSize
    BY <2>1, KeyIsKey, Sizes
  <2>. QED BY <2>2, KeyIsKey, Sizes DEF Paged!Numbers
<1>6. Holds(<<filter, number + 1>>, entries)
  BY <1>2, <1>4, KeyIsKey, MorePages, MoreMatch, Sizes DEF Holds, PagedInv
<1>. QED BY <1>5, <1>6, GoToKeeps DEF Paged!Forward, PagedInv

LEMMA BackKeeps == ASSUME PagedInv, Paged!Back PROVE PagedInv'
<1>1. number > 1
  BY DEF Paged!Back, Paged!CanPrevious
<1>2. number - 1 \in Paged!Numbers /\ number - 1 \in Nat \ {0}
  BY <1>1, Sizes DEF PagedInv, Paged!Numbers
<1>3. Paged!Skip(number - 1) \in Nat /\ Paged!Skip(number) \in Nat
      /\ Paged!Skip(number - 1) <= Paged!Skip(number)
  BY <1>2, KeyIsKey, MorePages
<1>4. Holds(<<filter, number - 1>>, entries)
  BY <1>1, <1>2, <1>3, MoreMatch DEF Holds, PagedInv, Paged!Key
<1>. QED BY <1>2, <1>4, GoToKeeps DEF Paged!Back, PagedInv

LEMMA PagedNext == ASSUME PagedInv, Paged!Next PROVE PagedInv'
<1>1. CASE Paged!Append
  BY <1>1, MoreHold, MoreFounded, KeyIsKey, Sizes DEF Paged!Append, PagedInv,
       Paged!Key
<1>2. CASE Paged!Forward
  BY <1>2, ForwardKeeps
<1>3. CASE Paged!Back
  BY <1>3, BackKeeps
<1>4. CASE Paged!Retry \/ Paged!Show
  <2>1. Founded(Paged!Key, Paged!Fetch(cache[Paged!Key]), entries)
        /\ Founded(Paged!Key, Paged!Mount(cache[Paged!Key]), entries)
    BY KeyIsKey, FetchFounded, Sizes DEF PagedInv
  <2>2. CASE Paged!Retry
    <3>1. cache' = [cache EXCEPT ![Paged!Key] = Paged!Fetch(cache[Paged!Key])]
      BY <2>2 DEF Paged!Retry
    <3>. QED BY <2>1, <2>2, <3>1, KeyIsKey, OneChanges DEF Paged!Retry
  <2>3. CASE Paged!Show
    <3>1. cache' = [cache EXCEPT ![Paged!Key] = Paged!Mount(cache[Paged!Key])]
      BY <2>3 DEF Paged!Show
    <3>. QED BY <2>1, <2>3, <3>1, KeyIsKey, OneChanges DEF Paged!Show
  <2>. QED BY <1>4, <2>2, <2>3
<1>5. CASE Paged!Hide
  BY <1>5 DEF Paged!Hide, PagedInv, Paged!Key
<1>6. CASE Paged!Leave
  BY <1>6, Sizes DEF Paged!Leave, PagedInv, Paged!Key, Paged!Filters, Paged!Numbers,
       Holds
<1>7. ASSUME NEW fil \in Paged!Filters, Paged!Apply(fil) PROVE PagedInv'
  <2>1. 1 \in Paged!Numbers /\ Holds(<<fil, 1>>, entries)
    BY Sizes DEF Paged!Numbers, Holds
  <2>. QED BY <1>7, <2>1, GoToKeeps DEF Paged!Apply
<1>8. ASSUME NEW k \in Paged!Keys, Paged!Answer(k) PROVE PagedInv'
  <2>1. entries \in Nat /\ entries' \in 0..MaxEntries /\ entries' \in Nat
        /\ entries <= entries'
    BY <1>8, Sizes DEF Paged!Answer, PagedInv
  <2>2. PICK rows \in Paged!Replies :
          /\ rows.seen \in {entries, entries'} /\ rows.counted \in {entries, entries'}
          /\ cache' = [cache EXCEPT ![k] = Paged!Read(cache[k], rows)]
    BY <1>8, <2>1 DEF Paged!Answer, Paged!Replies, PagedInv
  <2>3. Holds(k, entries)
    BY <1>8 DEF Paged!Answer, PagedInv, Founded
  <2>4. Sound(k, rows, entries')
    BY <2>1, <2>2, <2>3, MoreHold DEF Sound
  <2>5. \A key \in Paged!Keys : Founded(key, cache[key], entries')
    BY <2>1, MoreFounded DEF PagedInv
  <2>6. Founded(k, Paged!Read(cache[k], rows), entries')
    BY <1>8, <2>1, <2>4, <2>5, ReadFounded DEF Paged!Answer
  <2>7. Holds(Paged!Key, entries')
    BY <2>1, KeyIsKey, MoreHold DEF PagedInv
  <2>8. \A key \in Paged!Keys : Founded(key, cache'[key], entries')
    BY <2>2, <2>5, <2>6 DEF PagedInv
  <2>9. UNCHANGED <<filter, number>> /\ DOMAIN cache' = Paged!Keys
    BY <1>8, <2>2 DEF Paged!Answer, PagedInv
  <2>. QED BY <2>1, <2>7, <2>8, <2>9 DEF PagedInv, Paged!Key
<1>9. ASSUME NEW k \in Paged!Keys, Paged!Receive(k) PROVE PagedInv'
  <2>1. Founded(k, Paged!Take(cache[k]), entries)
    BY <1>9, TakeFounded, Sizes DEF PagedInv, Paged!Receive
  <2>2. cache' = [cache EXCEPT ![k] = Paged!Take(cache[k])]
    BY <1>9 DEF Paged!Receive
  <2>. QED BY <1>9, <2>1, <2>2, OneChanges DEF Paged!Receive
<1>10. ASSUME NEW k \in Paged!Keys, Paged!Lose(k) PROVE PagedInv'
  <2>1. \A q \in Paged!Losses(cache[k]) : Founded(k, q, entries)
    BY <1>10, LossFounded, Sizes DEF PagedInv, Paged!Lose
  <2>2. PICK q \in Paged!Losses(cache[k]) : cache' = [cache EXCEPT ![k] = q]
    BY <1>10 DEF Paged!Lose
  <2>. QED BY <1>10, <2>1, <2>2, OneChanges DEF Paged!Lose
<1>11. ASSUME NEW k \in Paged!Keys, Paged!Age(k) PROVE PagedInv'
  <2>1. Founded(k, [cache[k] EXCEPT !.valid = FALSE], entries)
    BY DEF PagedInv, Founded, Paged!Queries
  <2>. QED BY <1>11, <2>1, OneChanges DEF Paged!Age
<1>. QED BY <1>1, <1>2, <1>3, <1>4, <1>5, <1>6, <1>7, <1>8, <1>9, <1>10, <1>11 DEF
     Paged!Next

LEMMA PagedElse == ASSUME PagedInv, UNCHANGED paged PROVE PagedInv'
  BY DEF paged, PagedInv, Paged!Key

LEMMA PagedStep == ASSUME PagedInv, [Next]_vars PROVE PagedInv'
<1>1. CASE AtTables(Paged!Next)
  BY <1>1, PagedNext DEF AtTables
<1>2. Next /\ ~AtTables(Paged!Next) => UNCHANGED paged
  BY DEF Next, AtFiles, AtUpload, AtAccount, AtShare, AtPanel, AtTables
<1>. QED BY <1>1, <1>2, PagedElse DEF vars

LEMMA WhatIsShown ==
  ASSUME PagedInv, Paged!Current.data # Nothing
  PROVE  /\ Paged!Current.data \in Paged!Replies
         /\ Holds(Paged!Key, Paged!Current.data.seen)
  BY KeyIsKey DEF PagedInv, Founded, Sound, Paged!Queries, Paged!Current

(* The tables of the panel and of the audit page leave nobody at a page     *)
(* that has no rows and hence no button back, whatever is added meanwhile.  *)
THEOREM NobodyIsStranded == Spec => []NeverStranded
<1>1. Init => PagedInv
  BY PagedInit DEF Init
<1>2. PagedInv /\ [Next]_vars => PagedInv'
  BY PagedStep
<1>3. PagedInv => NeverStranded
  <2> SUFFICES ASSUME PagedInv, Paged!Current.data # Nothing, number > 1
               PROVE  Paged!RowsOf(Paged!Key, Paged!Current.data) > 0
    BY DEF NeverStranded, Paged!NeverStranded
  <2>1. Paged!Current.data.seen \in Nat /\ filter \in Paged!Filters
    BY WhatIsShown DEF Paged!Replies, PagedInv
  <2>2. Paged!Matching(filter, Paged!Current.data.seen) > Paged!Skip(number)
    BY WhatIsShown DEF Holds, Paged!Key
  <2>3. Paged!Matching(filter, Paged!Current.data.seen) \in Nat
        /\ Paged!Skip(number) \in Nat
    BY <2>1, KeyIsKey, MorePages, MoreMatch
  <2>. QED BY <2>2, <2>3, Sizes DEF Paged!RowsOf, Paged!Key
<1>. QED BY <1>1, <1>2, <1>3, PTL DEF Spec

(* Where the tables offer no further page the oldest entry is on display.   *)
THEOREM LastPagesAreLast == Spec => []LastPageIsLast
<1>1. Init => PagedInv
  BY PagedInit DEF Init
<1>2. PagedInv /\ [Next]_vars => PagedInv'
  BY PagedStep
<1>3. PagedInv => LastPageIsLast
  <2> DEFINE rows == Paged!Current.data
  <2> DEFINE seen == Paged!Matching(filter, rows.seen)
  <2> DEFINE total == Paged!Matching(filter, rows.counted)
  <2> SUFFICES ASSUME PagedInv, Paged!ShowsRows, ~Paged!CanNext, rows.counted >= rows.seen
               PROVE  Paged!Skip(number) + Paged!RowsOf(Paged!Key, rows) = seen
    BY DEF LastPageIsLast, Paged!LastPageIsLast
  <2>1. rows \in Paged!Replies
    BY WhatIsShown DEF Paged!ShowsRows, Paged!Loaded
  <2>2. rows.seen \in Nat /\ rows.counted \in Nat /\ filter \in Paged!Filters
    BY <2>1 DEF Paged!Replies, PagedInv
  <2>3. seen \in Nat /\ total \in Nat /\ seen <= total
    BY <2>2, MoreMatch
  <2>4. ~(number < Paged!TotalPages(total))
    BY DEF Paged!CanNext, Paged!TotalOf, Paged!Key
  <2>5. total <= Paged!Skip(number) + PageSize /\ Paged!Skip(number) \in Nat
    BY <2>3, <2>4, KeyIsKey, MorePagesThan, MorePages, Sizes
  <2>6. Paged!RowsOf(Paged!Key, rows) > 0
    BY DEF Paged!ShowsRows
  <2>. QED BY <2>3, <2>5, <2>6, Sizes DEF Paged!RowsOf, Paged!Key
<1>. QED BY <1>1, <1>2, <1>3, PTL DEF Spec

----------------------------------------------------------------------------
(* The admin panel.                                                         *)

(* The panel's queries are queries of the cache.                            *)
LEMMA PanelCache ==
  /\ \A q : Panel!Fetch(q) = Fetch(q) /\ Panel!Mount(q) = Mount(q) /\ Panel!Take(q) = Take(q)
  /\ \A q : Panel!Losses(q) = Losses(q)
  /\ \A q, d : Panel!Read(q, d) = Read(q, d) /\ Panel!Invalidate(q, d) = Invalidate(q, d)
  /\ Panel!NoQuery = NoQuery
  BY DEF Panel!Fetch, Fetch, Panel!Mount, Mount, Panel!Take, Take, Panel!Losses,
       Losses,
     Panel!Read, Read, Panel!Invalidate, Invalidate, Panel!NoQuery, NoQuery,
     Panel!Fail, Fail, Panel!Cancel, Cancel

(* The tables that tell of every deletion that was confirmed.               *)
Confirmed == {s \in [Files -> Panel!Statuses] : \A f \in promised : s[f] = "deleted"}

Deletions == [file : Files, phase : {"sent", "done", "failed", "over"}]

(* What was deleted stays so, and no answer that is older is taken for new. *)
PanelInv ==
  /\ status \in Confirmed
  /\ promised \subseteq Files
  /\ deletes \in [Panel!Started -> Deletions \cup {Nothing}]
  /\ dialog \in Files \cup {Nothing}
  /\ \A j \in Panel!Started : Panel!InPhase(j, "done") => status[deletes[j].file] = "deleted"
  /\ Whole(table, [Files -> Panel!Statuses])
  /\ Brings(table, Confirmed) /\ Fresh(table, Confirmed)

LEMMA PanelInit == ASSUME Panel!Init PROVE PanelInv
  BY PanelCache, NoQueryIsFresh DEF Panel!Init, PanelInv, Confirmed, Panel!Statuses,
       Panel!InPhase

LEMMA PanelNext == ASSUME PanelInv, Panel!Next PROVE PanelInv'
<1>1. ASSUME NEW f \in Files, Panel!Lapse(f) PROVE PanelInv'
  <2>1. status[f] # "deleted" /\ UNCHANGED <<table, dialog, deletes, promised>>
    BY <1>1 DEF Panel!Lapse
  <2>2. PICK s \in {"expired", "deleted"} : status' = [status EXCEPT ![f] = s]
    BY <1>1 DEF Panel!Lapse
  <2>3. status' \in Confirmed /\ Confirmed' = Confirmed
    BY <2>1, <2>2 DEF PanelInv, Confirmed, Panel!Statuses
  <2>4. \A g \in Files : status[g] = "deleted" => status'[g] = "deleted"
    BY <2>1, <2>2 DEF PanelInv, Confirmed
  <2>. QED BY <2>1, <2>3, <2>4 DEF PanelInv, Panel!InPhase, Deletions
<1>2. CASE Panel!AnswerTable
  <2>1. table' = Read(table, status) /\ UNCHANGED <<status, dialog, deletes, promised>>
    BY <1>2, PanelCache DEF Panel!AnswerTable
  <2>2. status \in [Files -> Panel!Statuses]
    BY DEF PanelInv, Confirmed
  <2>. QED BY <2>1, <2>2, ReadIsFresh DEF PanelInv, Confirmed, Panel!InPhase
<1>3. ASSUME NEW j \in Panel!Started, Panel!AnswerDelete(j) PROVE PanelInv'
  <2>1. /\ deletes[j] # Nothing /\ UNCHANGED <<table, dialog, promised>>
        /\ status' = [status EXCEPT ![deletes[j].file] = "deleted"]
        /\ deletes' = [deletes EXCEPT ![j].phase = "done"]
    BY <1>3 DEF Panel!AnswerDelete, Panel!InPhase, Panel!Turn
  <2>2. deletes[j].file \in Files
    BY <2>1 DEF PanelInv, Deletions
  <2>3. status' \in Confirmed /\ Confirmed' = Confirmed
    BY <2>1, <2>2 DEF PanelInv, Confirmed, Panel!Statuses
  <2>4. \A g \in Files : status[g] = "deleted" \/ g = deletes[j].file =>
             status'[g] = "deleted"
    BY <2>1, <2>2 DEF PanelInv, Confirmed
  <2>5. deletes'[j].file = deletes[j].file
        /\ \A i \in Panel!Started \ {j} : deletes'[i] = deletes[i]
    BY <2>1 DEF PanelInv
  <2>6. deletes' \in [Panel!Started -> Deletions \cup {Nothing}]
    BY <2>1 DEF PanelInv, Deletions
  <2>7. \A i \in Panel!Started : Panel!InPhase(i, "done")' =>
             status'[deletes'[i].file] = "deleted"
    BY <2>2, <2>4, <2>5 DEF PanelInv, Panel!InPhase, Deletions
  <2>. QED BY <2>1, <2>3, <2>6, <2>7 DEF PanelInv
<1>4. CASE Panel!Lose
  <2>1. UNCHANGED <<status, dialog, promised>>
    BY <1>4 DEF Panel!Lose
  <2>2. CASE table' \in Losses(table) /\ UNCHANGED deletes
    <3>1. Whole(table', [Files -> Panel!Statuses]) /\ Brings(table', Confirmed)
          /\ Fresh(table', Confirmed)
      BY <2>2, LossIsFresh DEF PanelInv
    <3>. QED BY <2>1, <2>2, <3>1 DEF PanelInv, Confirmed, Panel!InPhase
  <2>3. ASSUME NEW j \in Panel!Started, deletes[j] # Nothing,
               deletes' = [deletes EXCEPT ![j].phase = "failed"], UNCHANGED table
        PROVE  PanelInv'
    <3>1. deletes' \in [Panel!Started -> Deletions \cup {Nothing}]
      BY <2>3 DEF PanelInv, Deletions
    <3>2. deletes'[j].phase = "failed"
          /\ \A i \in Panel!Started \ {j} : deletes'[i] = deletes[i]
      BY <2>3 DEF PanelInv
    <3>3. \A i \in Panel!Started : Panel!InPhase(i, "done")' =>
               Panel!InPhase(i, "done") /\ i # j
      BY <3>2 DEF Panel!InPhase
    <3>. QED BY <2>1, <2>3, <3>1, <3>2, <3>3 DEF PanelInv, Confirmed
  <2>. QED BY <1>4, <2>2, <2>3, PanelCache DEF Panel!Lose, Panel!InPhase, Panel!Turn
<1>5. CASE Panel!OpenTab \/ Panel!ReceiveTable
  <2>1. /\ UNCHANGED <<status, dialog, deletes, promised>>
        /\ table' \in {Mount(table), Take(table)}
    BY <1>5, PanelCache DEF Panel!OpenTab, Panel!ReceiveTable
  <2>2. Whole(table', [Files -> Panel!Statuses]) /\ Brings(table', Confirmed)
        /\ Fresh(table', Confirmed)
    BY <2>1, MountIsFresh, TakeIsFresh DEF PanelInv
  <2>. QED BY <2>1, <2>2 DEF PanelInv, Confirmed, Panel!InPhase
<1>6. ASSUME dialog' \in Files \cup {Nothing}, UNCHANGED <<status, table, deletes, promised>>
      PROVE  PanelInv'
  BY <1>6 DEF PanelInv, Confirmed, Panel!InPhase
<1>7. ASSUME NEW f \in Files, Panel!Ask(f) PROVE PanelInv'
  BY <1>6, <1>7 DEF Panel!Ask
<1>8. CASE Panel!CloseTab \/ Panel!CancelDialog \/ Panel!DismissNotice
  BY <1>6, <1>8 DEF Panel!CloseTab, Panel!CancelDialog, Panel!DismissNotice,
       PanelInv
<1>9. CASE Panel!Confirm
  <2>1. PICK j \in Panel!Started : deletes' = [deletes EXCEPT ![j] = [file |-> dialog, phase |-> "sent"]]
    BY <1>9 DEF Panel!Confirm
  <2>2. dialog \in Files /\ UNCHANGED <<status, table, dialog, promised>>
    BY <1>9 DEF Panel!Confirm, PanelInv
  <2>3. deletes' \in [Panel!Started -> Deletions \cup {Nothing}]
    BY <2>1, <2>2 DEF PanelInv, Deletions
  <2>4. deletes'[j].phase = "sent"
        /\ \A i \in Panel!Started \ {j} : deletes'[i] = deletes[i]
    BY <2>1 DEF PanelInv
  <2>5. \A i \in Panel!Started : Panel!InPhase(i, "done")' =>
             Panel!InPhase(i, "done") /\ i # j
    BY <2>4 DEF Panel!InPhase
  <2>. QED BY <2>2, <2>3, <2>4, <2>5 DEF PanelInv, Confirmed
<1>10. ASSUME NEW j \in Panel!Started, Panel!Succeed(j) PROVE PanelInv'
  <2>1. /\ status' = status /\ dialog' = Nothing
        /\ promised' = promised \cup {deletes[j].file}
        /\ deletes' = [deletes EXCEPT ![j].phase = "over"]
        /\ deletes[j] # Nothing /\ status[deletes[j].file] = "deleted"
    BY <1>10 DEF Panel!Succeed, Panel!Turn, Panel!InPhase, PanelInv
  <2>2. deletes[j].file \in Files /\ promised' \subseteq Files
    BY <2>1 DEF PanelInv, Deletions
  <2>3. status \in Confirmed'
    BY <2>1, <2>2 DEF PanelInv, Confirmed
  <2>4. table' = Invalidate(Invalidate(table, tab), tab)
    BY <1>10, PanelCache DEF Panel!Succeed, Panel!Outdated
  <2>5. Whole(Invalidate(table, tab), [Files -> Panel!Statuses])
    BY InvalidateIsFresh DEF PanelInv
  <2>6. Whole(table', [Files -> Panel!Statuses]) /\ Brings(table', Confirmed')
        /\ Fresh(table', Confirmed')
    BY <2>4, <2>5, InvalidateIsFresh
  <2>7. deletes' \in [Panel!Started -> Deletions \cup {Nothing}]
    BY <2>1 DEF PanelInv, Deletions
  <2>8. deletes'[j].phase = "over"
        /\ \A i \in Panel!Started \ {j} : deletes'[i] = deletes[i]
    BY <2>1 DEF PanelInv
  <2>9. \A i \in Panel!Started : Panel!InPhase(i, "done")' =>
             Panel!InPhase(i, "done") /\ i # j
    BY <2>8 DEF Panel!InPhase
  <2>. QED BY <2>1, <2>2, <2>3, <2>6, <2>7, <2>8, <2>9 DEF PanelInv
<1>11. ASSUME NEW j \in Panel!Started, Panel!ReportFailure(j) PROVE PanelInv'
  <2>1. /\ UNCHANGED <<status, table, promised>> /\ dialog' = Nothing
        /\ deletes' = [deletes EXCEPT ![j].phase = "over"] /\ deletes[j] # Nothing
    BY <1>11 DEF Panel!ReportFailure, Panel!Turn, Panel!InPhase
  <2>2. deletes' \in [Panel!Started -> Deletions \cup {Nothing}]
    BY <2>1 DEF PanelInv, Deletions
  <2>3. deletes'[j].phase = "over"
        /\ \A i \in Panel!Started \ {j} : deletes'[i] = deletes[i]
    BY <2>1 DEF PanelInv
  <2>4. \A i \in Panel!Started : Panel!InPhase(i, "done")' =>
             Panel!InPhase(i, "done") /\ i # j
    BY <2>3 DEF Panel!InPhase
  <2>. QED BY <2>1, <2>2, <2>3, <2>4 DEF PanelInv, Confirmed
<1>. QED BY <1>1, <1>2, <1>3, <1>4, <1>5, <1>7, <1>8, <1>9, <1>10, <1>11 DEF
     Panel!Next

LEMMA PanelElse == ASSUME PanelInv, UNCHANGED panel PROVE PanelInv'
  BY DEF panel, PanelInv, Confirmed, Panel!InPhase

LEMMA PanelStep == ASSUME PanelInv, [Next]_vars PROVE PanelInv'
<1>1. CASE AtPanel(Panel!Next)
  BY <1>1, PanelNext DEF AtPanel
<1>2. Next /\ ~AtPanel(Panel!Next) => UNCHANGED panel
  BY DEF Next, AtFiles, AtUpload, AtAccount, AtShare, AtPanel, AtTables
<1>. QED BY <1>1, <1>2, PanelElse DEF vars

(* The admin's file table, once its deletions are over, shows as deleted    *)
(* what was deleted.                                                        *)
THEOREM DeletionsShow == Spec => []DeletedShowsDeleted
<1>1. Init => PanelInv
  BY PanelInit DEF Init
<1>2. PanelInv /\ [Next]_vars => PanelInv'
  BY PanelStep
<1>3. PanelInv => DeletedShowsDeleted
  BY DEF PanelInv, Fresh, Confirmed, DeletedShowsDeleted, Panel!DeletedShowsDeleted,
       Panel!Quiet
<1>. QED BY <1>1, <1>2, <1>3, PTL DEF Spec

----------------------------------------------------------------------------
(* The rate limiter.                                                        *)

(* The requests let pass in the window under way.                           *)
Passed == IF hits > MaxRequests THEN MaxRequests ELSE hits

(* The first of them, which began the window.                               *)
Opener == Len(granted) - Passed + 1

ShareTypes ==
  /\ now \in Nat /\ began \in Nat
  /\ hits \in 0..MaxRequests + 1
  /\ granted \in Seq(Nat)

(* The times are in order; the window under way began with the first        *)
(* request it let pass; whatever was let pass max requests before that one  *)
(* was so windowMs earlier.                                                 *)
Windows ==
  /\ IF hits = 0 THEN granted = <<>> ELSE Passed <= Len(granted) /\ granted[Opener] = began
  /\ \A i \in 1..Len(granted) : granted[i] <= now
  /\ \A i, j \in 1..Len(granted) : i <= j => granted[i] <= granted[j]
  /\ \A i \in 1..Len(granted) : i + MaxRequests <= Opener => granted[i] + Window <= began

ShareInv == ShareTypes /\ Windows /\ BurstBound

LEMMA ShareInit == ASSUME Share!Init PROVE ShareInv
  BY BrowserAssumption DEF Share!Init, ShareInv, ShareTypes, Windows, BurstBound,
       Share!BurstBound

LEMMA CountKeeps == ASSUME ShareInv, Share!Count PROVE ShareInv'
<1>0. MaxRequests \in Nat \ {0} /\ Window \in Nat \ {0}
  BY BrowserAssumption
<1>1. CASE Share!Refuses
  <2>1. granted' = granted /\ began' = began /\ hits' = MaxRequests + 1 /\ now' = now
    BY <1>0, <1>1 DEF Share!Count, Share!Refuses, Share!Counted, Share!Expired
  <2>2. hits >= MaxRequests
    BY <1>0, <1>1 DEF ShareInv, ShareTypes, Share!Refuses, Share!Counted
  <2>3. Passed' = Passed /\ Passed = MaxRequests /\ Opener' = Opener
    BY <1>0, <2>1, <2>2 DEF Passed, Opener, ShareInv, ShareTypes
  <2>. QED BY <1>0, <2>1, <2>2, <2>3 DEF ShareInv, ShareTypes, Windows, BurstBound,
       Share!BurstBound
<1>2. CASE ~Share!Refuses
  <2> DEFINE n == Len(granted)
  <2>1. granted' = Append(granted, now) /\ now' = now
    BY <1>2 DEF Share!Count
  <2>2. Len(granted') = n + 1 /\ granted'[n + 1] = now
        /\ \A i \in 1..n : granted'[i] = granted[i]
    BY <2>1 DEF ShareInv, ShareTypes
  <2>3. CASE Share!Expired
    <3>1. hits' = 1 /\ began' = now /\ Passed' = 1 /\ Opener' = n + 1
      BY <1>0, <1>2, <2>2, <2>3 DEF Share!Count, Share!Refuses, Share!Counted,
           Passed, Opener
    <3>2. ASSUME NEW i \in 1..n, i + MaxRequests <= n + 1
          PROVE  granted[i] + Window <= now
      <4>1. hits # 0 /\ now >= began + Window
        BY <1>0, <2>3, <3>2 DEF Share!Expired, ShareInv, ShareTypes, Windows
      <4>2. Opener \in 1..n /\ i <= Opener /\ granted[Opener] = began
        BY <1>0, <3>2, <4>1 DEF Opener, Passed, ShareInv, ShareTypes, Windows
      <4>3. granted[i] <= began /\ granted[i] \in Nat
        BY <4>2 DEF ShareInv, ShareTypes, Windows
      <4>. QED BY <1>0, <4>1, <4>3 DEF ShareInv, ShareTypes
    <3>3. ShareTypes'
      BY <1>0, <2>1, <3>1 DEF ShareInv, ShareTypes
    <3>4. Windows'
      BY <1>0, <2>1, <2>2, <3>1, <3>2 DEF ShareInv, ShareTypes, Windows
    <3>5. BurstBound'
      <4> SUFFICES ASSUME NEW i \in 1..n + 1, i + 2 * MaxRequests - 1 <= n + 1
                   PROVE  granted'[i + 2 * MaxRequests - 1] >= granted'[i] + Window
        BY <1>0, <2>2 DEF BurstBound, Share!BurstBound
      <4>1. i \in 1..n
        BY <1>0 DEF ShareInv, ShareTypes
      <4>2. CASE i + 2 * MaxRequests - 1 <= n
        <5>1. i + 2 * MaxRequests - 1 \in 1..n
          BY <1>0, <4>1, <4>2 DEF ShareInv, ShareTypes
        <5>. QED BY <2>2, <4>1, <4>2, <5>1 DEF ShareInv, BurstBound,
             Share!BurstBound
      <4>3. CASE i + 2 * MaxRequests - 1 = n + 1
        BY <1>0, <2>2, <3>2, <4>1, <4>3, SMTT(30) DEF ShareInv, ShareTypes
      <4>. QED BY <1>0, <4>2, <4>3, SMTT(30) DEF ShareInv, ShareTypes
    <3>. QED BY <3>3, <3>4, <3>5 DEF ShareInv
  <2>4. CASE ~Share!Expired
    <3>1. hits' = hits + 1 /\ began' = began /\ Passed = hits /\ Passed' = hits + 1
          /\ Opener' = Opener
      BY <1>0, <1>2, <2>2, <2>4 DEF ShareInv, ShareTypes, Share!Count,
           Share!Refuses, Share!Counted, Passed, Opener
    <3>2. Opener \in 1..n /\ granted[Opener] = began /\ began <= now
      BY <1>0, <1>2, <2>4, <3>1, SMTT(30) DEF Opener, Passed, ShareInv, ShareTypes, Windows,
           Share!Expired
    <3>3. ShareTypes'
      <4>1. hits' \in 0..MaxRequests + 1
        BY <1>0, <1>2, <2>4, <3>1 DEF ShareInv, ShareTypes, Share!Refuses,
             Share!Counted
      <4>. QED BY <2>1, <3>1, <4>1 DEF ShareInv, ShareTypes
    <3>4. Windows'
      BY <1>0, <2>1, <2>2, <3>1, <3>2 DEF ShareInv, ShareTypes, Windows
    <3>5. ASSUME NEW i \in 1..n, i + 2 * MaxRequests - 1 = n + 1
          PROVE  granted[i] + Window <= now
      <4>1. i + MaxRequests <= Opener
        BY <1>0, <1>2, <2>4, <3>1, <3>5
        DEF Opener, ShareInv, ShareTypes, Share!Refuses, Share!Counted
      <4>. QED BY <1>0, <3>2, <4>1 DEF ShareInv, ShareTypes, Windows
    <3>6. BurstBound'
      <4> SUFFICES ASSUME NEW i \in 1..n + 1, i + 2 * MaxRequests - 1 <= n + 1
                   PROVE  granted'[i + 2 * MaxRequests - 1] >= granted'[i] + Window
        BY <1>0, <2>2 DEF BurstBound, Share!BurstBound
      <4>1. i \in 1..n
        BY <1>0 DEF ShareInv, ShareTypes
      <4>2. CASE i + 2 * MaxRequests - 1 <= n
        <5>1. i + 2 * MaxRequests - 1 \in 1..n
          BY <1>0, <4>1, <4>2 DEF ShareInv, ShareTypes
        <5>. QED BY <2>2, <4>1, <4>2, <5>1 DEF ShareInv, BurstBound,
             Share!BurstBound
      <4>3. CASE i + 2 * MaxRequests - 1 = n + 1
        BY <1>0, <2>2, <3>2, <3>5, <4>1, <4>3 DEF ShareInv, ShareTypes
      <4>. QED BY <1>0, <4>2, <4>3 DEF ShareInv, ShareTypes
    <3>. QED BY <3>3, <3>4, <3>6 DEF ShareInv
  <2>. QED BY <2>3, <2>4
<1>. QED BY <1>1, <1>2

LEMMA ShareNext == ASSUME ShareInv, Share!Next PROVE ShareInv'
<1>1. CASE Share!Count
  BY <1>1, CountKeeps
<1>2. CASE now' \in {now, now + 1} /\ UNCHANGED <<hits, began, granted>>
  <2>1. Passed' = Passed /\ Opener' = Opener
    BY <1>2 DEF Passed, Opener
  <2>. QED BY <1>2, <2>1 DEF ShareInv, ShareTypes, Windows, BurstBound,
       Share!BurstBound
<1>3. Share!Count \/ (now' \in {now, now + 1} /\ UNCHANGED <<hits, began, granted>>)
  BY DEF Share!Next, Share!Tick, Share!OtherRequest, Share!LinkEnds,
       Share!AnswerDownload,
     Share!LoseDownload, Share!HandleInitialDownload, Share!HandlePasswordSubmit,
     Share!StartDownload, Share!Return, Share!HandleRetry, Share!limiter
<1>. QED BY <1>1, <1>2, <1>3

LEMMA ShareElse == ASSUME ShareInv, UNCHANGED share PROVE ShareInv'
  BY DEF share, ShareInv, ShareTypes, Windows, Passed, Opener, BurstBound,
       Share!BurstBound

LEMMA ShareStep == ASSUME ShareInv, [Next]_vars PROVE ShareInv'
<1>1. CASE AtShare(Share!Next)
  BY <1>1, ShareNext DEF AtShare
<1>2. Next /\ ~AtShare(Share!Next) => UNCHANGED share
  BY DEF Next, AtFiles, AtUpload, AtAccount, AtTables, AtPanel, AtShare
<1>. QED BY <1>1, <1>2, ShareElse DEF vars

(* The rate limiter lets at most 2 * max - 1 requests pass within windowMs. *)
THEOREM BurstsAreBounded == Spec => []BurstBound
<1>1. Init => ShareInv
  BY ShareInit DEF Init
<1>2. ShareInv /\ [Next]_vars => ShareInv'
  BY ShareStep
<1>3. ShareInv => BurstBound
  BY DEF ShareInv
<1>. QED BY <1>1, <1>2, <1>3, PTL DEF Spec

----------------------------------------------------------------------------
(* The types, and the whole.                                                *)

(* The mutations there have been are some of those there may be.            *)
LEMMA SinceWhen ==
  Pages!Cardinality({j \in Pages!Started : jobs[j] # Nothing}) \in 0..MaxJobs
<1>1. MaxJobs \in Nat
  BY BrowserAssumption
<1>2. IsFiniteSet(1..MaxJobs) /\ Cardinality(1..MaxJobs) = MaxJobs
  BY <1>1, FS_Interval
<1>3. {j \in Pages!Started : jobs[j] # Nothing} \subseteq 1..MaxJobs
  BY DEF Pages!Started
<1>4. \A S : Pages!Cardinality(S) = Cardinality(S)
  BY DEF Pages!Cardinality, Cardinality
<1>. QED BY <1>1, <1>2, <1>3, <1>4, FS_Subset, FS_CardinalityType

LEMMA PagesTypes == ASSUME PagesInv, Pages!TypeOK, Pages!Next PROVE Pages!TypeOK'
<1>1. PagesInv'
  BY PagesNext
<1>2. faults' = faults \/ Pages!Fault
  BY DEF Pages!Next, Pages!Answered, Pages!AnswerList, Pages!ReceiveList,
     Pages!AnswerDetails, Pages!ReceiveDetails, Pages!AnswerDelete, Pages!AnswerRevoke,
     Pages!Settle, Pages!RowSucceeds, Pages!RowFails, Pages!FileSucceeds,
     Pages!FileFails, Pages!Lose, Pages!Age, Pages!CloseModal, Pages!DismissAlert,
     Pages!Visit, Pages!Lapse, Pages!MutateRow, Pages!MutateFile, Pages!OpenModal
<1>3. faults' \in 0..MaxFaults
  BY <1>2, BrowserAssumption DEF Pages!Fault, Pages!TypeOK
<1>4. \/ UNCHANGED <<place, since>>
      \/ \E page \in {"dashboard", "elsewhere"} \cup Opened :
           \E lst, dts : Pages!Arrive(page, lst, dts)
  BY DEF Pages!Next, Pages!Answered, Pages!AnswerList, Pages!ReceiveList,
     Pages!AnswerDetails, Pages!ReceiveDetails, Pages!AnswerDelete, Pages!AnswerRevoke,
     Pages!Settle, Pages!RowSucceeds, Pages!RowFails, Pages!FileSucceeds,
     Pages!FileFails, Pages!Lose, Pages!Age, Pages!CloseModal, Pages!DismissAlert,
     Pages!Visit, Pages!Lapse, Pages!MutateRow, Pages!MutateFile, Pages!OpenModal,
     Pages!screen
<1>5. place' \in {"dashboard", "elsewhere"} \cup Opened /\ since' \in 0..MaxJobs
  BY <1>4, SinceWhen DEF Pages!Arrive, Pages!TypeOK
<1>6. alerts' \subseteq Pages!Kinds
  <2>1. ASSUME NEW j \in Pages!Started, Pages!Settle(j) PROVE alerts' \subseteq Pages!Kinds
    <3>1. CASE Pages!RowFails(j)
      <4>1. jobs[j].kind \in Pages!Kinds
        BY <3>1, OpenJob DEF Pages!RowFails, OpenJobs
      <4>. QED BY <3>1, <4>1 DEF Pages!RowFails, Pages!TypeOK
    <3>. QED BY <2>1, <3>1 DEF Pages!Settle, Pages!RowSucceeds, Pages!FileSucceeds,
         Pages!FileFails, Pages!Arrive, Pages!TypeOK, Pages!screen
  <2>2. (\E j \in Pages!Started : Pages!Settle(j)) \/ alerts' \subseteq alerts
    BY DEF Pages!Next, Pages!Answered, Pages!AnswerList, Pages!ReceiveList,
       Pages!AnswerDetails, Pages!ReceiveDetails, Pages!AnswerDelete, Pages!AnswerRevoke,
       Pages!Lose, Pages!Age, Pages!CloseModal, Pages!DismissAlert,
       Pages!Visit, Pages!Arrive, Pages!Lapse, Pages!MutateRow, Pages!MutateFile, Pages!OpenModal,
       Pages!screen
  <2>. QED BY <2>1, <2>2 DEF Pages!TypeOK
<1>7. \A Data : Pages!Queries(Data) = Queries(Data)
  BY DEF Pages!Queries, Queries, Pages!Fetches, Fetches
<1>8. details' = [f \in Opened |-> details'[f]]
  BY DEF Pages!TypeOK, Pages!Next, Pages!Answered, Pages!AnswerList, Pages!ReceiveList,
     Pages!AnswerDetails, Pages!ReceiveDetails, Pages!AnswerDelete, Pages!AnswerRevoke,
     Pages!Settle, Pages!RowSucceeds, Pages!RowFails, Pages!FileSucceeds,
     Pages!FileFails, Pages!Lose, Pages!Age, Pages!CloseModal, Pages!DismissAlert,
     Pages!Visit, Pages!Arrive, Pages!Lapse, Pages!MutateRow, Pages!MutateFile, Pages!OpenModal,
     Pages!OutdatedDetails, Pages!cache
<1>. QED BY <1>1, <1>3, <1>5, <1>6, <1>7, <1>8
     DEF Pages!TypeOK, PagesInv, StoredInv, JobsInv, ListInv, DetailsInv, Whole

LEMMA PagedTypes == ASSUME PagedInv, Paged!TypeOK, Paged!Next PROVE Paged!TypeOK'
<1>1. PagedInv'
  BY PagedNext
<1>2. faults' = faults \/ Paged!Fault
  BY DEF Paged!Next, Paged!Append, Paged!Forward, Paged!Back, Paged!Retry, Paged!Show,
     Paged!Hide, Paged!Leave, Paged!Apply, Paged!GoTo, Paged!Answer, Paged!Receive,
     Paged!Lose, Paged!Age
<1>3. faults' \in 0..MaxFaults
  BY <1>2, BrowserAssumption DEF Paged!Fault, Paged!TypeOK
<1>4. view' = view /\ shown' \in BOOLEAN
  BY DEF Paged!Next, Paged!Append, Paged!Forward, Paged!Back, Paged!Retry, Paged!Show,
     Paged!Hide, Paged!Leave, Paged!Apply, Paged!GoTo, Paged!Answer, Paged!Receive,
     Paged!Lose, Paged!Age, Paged!TypeOK
<1>5. cache' \in [Paged!Keys -> Paged!Queries(Paged!Replies)]
  <2>1. cache' = [k \in Paged!Keys |-> cache'[k]]
    BY DEF Paged!TypeOK, Paged!Next, Paged!Append, Paged!Forward, Paged!Back, Paged!Retry,
       Paged!Show, Paged!Hide, Paged!Leave, Paged!Apply, Paged!GoTo, Paged!Answer,
       Paged!Receive, Paged!Lose, Paged!Age
  <2>2. \A k \in Paged!Keys : cache'[k] \in Paged!Queries(Paged!Replies)
    BY <1>1 DEF PagedInv, Founded, Paged!Queries, Paged!Replies, Paged!Keys, Paged!Numbers
  <2>. QED BY <2>1, <2>2
<1>. QED BY <1>1, <1>3, <1>4, <1>5 DEF PagedInv, Paged!TypeOK

LEMMA PanelTypes == ASSUME PanelInv, Panel!TypeOK, Panel!Next PROVE Panel!TypeOK'
<1>1. PanelInv'
  BY PanelNext
<1>2. faults' = faults \/ Panel!Fault
  BY DEF Panel!Next, Panel!AnswerTable, Panel!ReceiveTable, Panel!Lose, Panel!OpenTab,
     Panel!CloseTab, Panel!CancelDialog, Panel!Confirm, Panel!DismissNotice, Panel!Lapse,
     Panel!Ask, Panel!AnswerDelete, Panel!Succeed, Panel!ReportFailure
<1>3. faults' \in 0..MaxFaults
  BY <1>2, BrowserAssumption DEF Panel!Fault, Panel!TypeOK
<1>4. tab' \in BOOLEAN /\ notices' \subseteq {"success", "error"}
  BY DEF Panel!Next, Panel!AnswerTable, Panel!ReceiveTable, Panel!Lose, Panel!OpenTab,
     Panel!CloseTab, Panel!CancelDialog, Panel!Confirm, Panel!DismissNotice, Panel!Lapse,
     Panel!Ask, Panel!AnswerDelete, Panel!Succeed, Panel!ReportFailure, Panel!TypeOK
<1>5. \A Data : Panel!Queries(Data) = Queries(Data)
  BY DEF Panel!Queries, Queries, Panel!Fetches, Fetches
<1>. QED BY <1>1, <1>3, <1>4, <1>5
     DEF PanelInv, Panel!TypeOK, Whole, Confirmed, Deletions

LEMMA ShareTyped == ASSUME ShareInv, Share!TypeOK, Share!Next PROVE Share!TypeOK'
<1>1. ShareInv'
  BY ShareNext
<1>2. faults' = faults \/ Share!Fault
  BY DEF Share!Next, Share!Tick, Share!OtherRequest, Share!LinkEnds, Share!AnswerDownload,
     Share!LoseDownload, Share!HandleInitialDownload, Share!HandlePasswordSubmit,
     Share!StartDownload, Share!Return, Share!HandleRetry
<1>3. faults' \in 0..MaxFaults
  BY <1>2, BrowserAssumption DEF Share!Fault, Share!TypeOK
<1>4. /\ link' \in {"open", "locked", "gone"}
      /\ phase' \in {"ready", "password-required", "downloading", "success", "error"}
      /\ retry' \in BOOLEAN
      /\ request' \in {"none", "bare", "password"} \cup Share!Answers
  BY DEF Share!Next, Share!Tick, Share!OtherRequest, Share!LinkEnds, Share!AnswerDownload,
     Share!LoseDownload, Share!HandleInitialDownload, Share!HandlePasswordSubmit,
     Share!StartDownload, Share!Return, Share!HandleRetry, Share!TypeOK, Share!Answers,
     Share!Outcomes, Share!Terminal
<1>5. now' \in Share!Times
  BY BrowserAssumption
  DEF Share!Next, Share!Tick, Share!OtherRequest, Share!LinkEnds, Share!AnswerDownload,
     Share!LoseDownload, Share!HandleInitialDownload, Share!HandlePasswordSubmit,
     Share!StartDownload, Share!Return, Share!HandleRetry, Share!TypeOK, Share!Times,
     Share!Count, Share!limiter
<1>6. began' \in Share!Times /\ granted' \in Seq(Share!Times)
  BY
  DEF Share!Next, Share!Tick, Share!OtherRequest, Share!LinkEnds, Share!AnswerDownload,
     Share!LoseDownload, Share!HandleInitialDownload, Share!HandlePasswordSubmit,
     Share!StartDownload, Share!Return, Share!HandleRetry, Share!TypeOK,
     Share!Count, Share!limiter
<1>. QED BY <1>1, <1>3, <1>4, <1>5, <1>6 DEF ShareInv, ShareTypes, Share!TypeOK

(* The invariant of the whole.                                              *)
EveryInv ==
  /\ PagesInv /\ UploadInv /\ AccountInv /\ PagedInv /\ PanelInv /\ ShareInv
  /\ TypeOK

LEMMA EveryInit == ASSUME Init PROVE EveryInv
<1>1. UploadInv /\ AccountInv
  BY UploadInit, AccountInit DEF Init
<1>2. PagesInv /\ PagedInv /\ PanelInv /\ ShareInv
  BY PagesInit, PagedInit, PanelInit, ShareInit DEF Init
<1>3. Pages!TypeOK
  <2>1. list = Pages!NoQuery /\ details = [f \in Opened |-> Pages!NoQuery] /\ faults = 0
    BY DEF Init, Pages!Init
  <2>2. \A Data : Pages!NoQuery \in Pages!Queries(Data)
    BY DEF Pages!NoQuery, Pages!Queries, Pages!Fetches
  <2>. QED BY <2>1, <2>2, BrowserAssumption DEF Init, Pages!Init, Pages!TypeOK, Pages!Kinds
<1>4. Paged!TypeOK
  <2>1. \A Data : Paged!NoQuery \in Paged!Queries(Data)
    BY DEF Paged!NoQuery, Paged!Queries, Paged!Fetches
  <2>2. cache = [k \in Paged!Keys |-> Paged!NoQuery] /\ faults = 0 /\ shown = FALSE
        /\ view \in Paged!Views
    BY DEF Init, Paged!Init
  <2>3. faults \in 0..MaxFaults
    BY <2>2, BrowserAssumption
  <2>. QED BY <1>2, <2>1, <2>2, <2>3 DEF PagedInv, Paged!TypeOK
<1>5. Panel!TypeOK
  <2>1. \A Data : Panel!NoQuery \in Panel!Queries(Data)
    BY DEF Panel!NoQuery, Panel!Queries, Panel!Fetches
  <2>2. table = Panel!NoQuery /\ faults = 0 /\ tab \in BOOLEAN /\ notices = {}
    BY DEF Init, Panel!Init
  <2>3. faults \in 0..MaxFaults
    BY <2>2, BrowserAssumption
  <2>. QED BY <1>2, <2>1, <2>2, <2>3 DEF PanelInv, Panel!TypeOK, Deletions, Confirmed
<1>6. Share!TypeOK
  <2>1. granted = <<>> /\ now = 0 /\ began = 0 /\ faults = 0
    BY DEF Init, Share!Init
  <2>2. granted \in Seq(Share!Times)
    BY <2>1
  <2>3. now \in Share!Times /\ began \in Share!Times /\ faults \in 0..MaxFaults
    BY <2>1, BrowserAssumption DEF Share!Times
  <2>. QED BY <1>2, <2>2, <2>3 DEF Init, Share!Init, Share!TypeOK, ShareInv, ShareTypes
<1>. QED BY <1>1, <1>2, <1>3, <1>4, <1>5, <1>6 DEF EveryInv, TypeOK, UploadInv, AccountInv

(* What is typed stays typed when another page takes a step.                *)
LEMMA TypesElse ==
  ASSUME TypeOK, faults' \in 0..MaxFaults
  PROVE  /\ UNCHANGED pages => Pages!TypeOK'
         /\ UNCHANGED paged => Paged!TypeOK'
         /\ UNCHANGED panel => Panel!TypeOK'
         /\ UNCHANGED share => Share!TypeOK'
<1>1. UNCHANGED pages => Pages!TypeOK'
  BY DEF TypeOK, pages, Pages!TypeOK
<1>2. UNCHANGED paged => Paged!TypeOK'
  BY DEF TypeOK, paged, Paged!TypeOK
<1>3. UNCHANGED panel => Panel!TypeOK'
  BY DEF TypeOK, panel, Panel!TypeOK
<1>4. UNCHANGED share => Share!TypeOK'
  BY DEF TypeOK, share, Share!TypeOK
<1>. QED BY <1>1, <1>2, <1>3, <1>4

LEMMA FaultsTyped ==
  ASSUME TypeOK
  PROVE  faults \in 0..MaxFaults
  BY DEF TypeOK, Pages!TypeOK

LEMMA EveryStep == ASSUME EveryInv, [Next]_vars PROVE EveryInv'
<1>1. PagesInv' /\ PagedInv' /\ PanelInv' /\ ShareInv'
  BY PagesStep, PagedStep, PanelStep, ShareStep DEF EveryInv
<1>2. CASE UNCHANGED vars
  <2>1. faults' \in 0..MaxFaults
    BY <1>2, FaultsTyped DEF vars, EveryInv
  <2>. QED BY <1>1, <1>2, <2>1, UploadElse, AccountElse, TypesElse
       DEF vars, EveryInv, TypeOK, UploadInv, AccountInv
<1>3. CASE AtFiles(Pages!Next)
  <2>1. Pages!TypeOK' /\ faults' \in 0..MaxFaults
    BY <1>3, PagesTypes DEF AtFiles, EveryInv, TypeOK, Pages!TypeOK
  <2>. QED BY <1>1, <1>3, <2>1, UploadElse, AccountElse, TypesElse
       DEF AtFiles, EveryInv, TypeOK, UploadInv, AccountInv
<1>4. CASE AtUpload(Upload!Next)
  <2>1. UploadInv' /\ faults' \in 0..MaxFaults
    BY <1>4, UploadNext DEF AtUpload, EveryInv, UploadInv, Upload!TypeOK
  <2>. QED BY <1>1, <1>4, <2>1, AccountElse, TypesElse
       DEF AtUpload, EveryInv, TypeOK, UploadInv, AccountInv
<1>5. CASE AtAccount(Account!Next)
  <2>1. AccountInv' /\ faults' \in 0..MaxFaults
    BY <1>5, AccountNext DEF AtAccount, EveryInv, AccountInv, Account!TypeOK
  <2>. QED BY <1>1, <1>5, <2>1, UploadElse, TypesElse
       DEF AtAccount, EveryInv, TypeOK, UploadInv, AccountInv
<1>6. CASE AtTables(Paged!Next)
  <2>1. Paged!TypeOK' /\ faults' \in 0..MaxFaults
    BY <1>6, PagedTypes DEF AtTables, EveryInv, TypeOK, Paged!TypeOK
  <2>. QED BY <1>1, <1>6, <2>1, UploadElse, AccountElse, TypesElse
       DEF AtTables, EveryInv, TypeOK, UploadInv, AccountInv
<1>7. CASE AtPanel(Panel!Next)
  <2>1. Panel!TypeOK' /\ faults' \in 0..MaxFaults
    BY <1>7, PanelTypes DEF AtPanel, EveryInv, TypeOK, Panel!TypeOK
  <2>. QED BY <1>1, <1>7, <2>1, UploadElse, AccountElse, TypesElse
       DEF AtPanel, EveryInv, TypeOK, UploadInv, AccountInv
<1>8. CASE AtShare(Share!Next)
  <2>1. Share!TypeOK' /\ faults' \in 0..MaxFaults
    BY <1>8, ShareTyped DEF AtShare, EveryInv, TypeOK, Share!TypeOK
  <2>. QED BY <1>1, <1>8, <2>1, UploadElse, AccountElse, TypesElse
       DEF AtShare, EveryInv, TypeOK, UploadInv, AccountInv
<1>. QED BY <1>2, <1>3, <1>4, <1>5, <1>6, <1>7, <1>8 DEF Next

LEMMA Everywhere == Spec => []EveryInv
<1>1. Init => EveryInv
  BY EveryInit
<1>2. EveryInv /\ [Next]_vars => EveryInv'
  BY EveryStep
<1>. QED BY <1>1, <1>2, PTL DEF Spec

----------------------------------------------------------------------------
(* The properties of the upload page and of the login pages, and the types. *)

(* Every variable of every page keeps its type.                             *)
THEOREM TypeCorrect == Spec => []TypeOK
<1>1. EveryInv => TypeOK
  BY DEF EveryInv
<1>. QED BY <1>1, Everywhere, PTL

(* The expiry preset on display is the one that is sent.                    *)
THEOREM PresetsAreSent == Spec => []PresetIsSent
<1>1. EveryInv => PresetIsSent
  BY DEF EveryInv, UploadInv, PresetIsSent
<1>. QED BY <1>1, Everywhere, PTL

(* A file to be downloaded once is sent with maxDownloads 1.                *)
THEOREM OnceIsOne == Spec => []OnceMeansOne
<1>1. EveryInv => OnceMeansOne
  BY DEF EveryInv, UploadInv, OnceMeansOne
<1>. QED BY <1>1, Everywhere, PTL

(* A file is sent again only after its upload was reported as failed.       *)
THEOREM RepeatsAreRetries == Spec => []RepeatsFollowAnError
<1>1. EveryInv => RepeatsFollowAnError
  BY DEF EveryInv, UploadInv, RepeatsFollowAnError
<1>. QED BY <1>1, Everywhere, PTL

(* A share link on display gives way to the user's own choice only: the one *)
(* action that shows a link finds none on display, since the attempt it     *)
(* ends was waited for.                                                     *)
THEOREM LinksStay == Spec => LinkStays
<1> DEFINE Kept ==
      result # Nothing /\ result' # result =>
        result' = Nothing /\ (~mounted' \/ form' = Upload!Defaults)
<1>1. ASSUME UploadInv, Upload!Next PROVE Kept
  <2>1. CASE Upload!RemoveFile \/ Upload!ToggleOnce \/ Upload!Return
    BY <2>1 DEF Upload!RemoveFile, Upload!ToggleOnce, Upload!Return, Upload!Edit, Upload!page
  <2>2. CASE Upload!Dismiss \/ Upload!Leave
    BY <2>2 DEF Upload!Dismiss, Upload!Leave, Upload!ResetForm
  <2>3. ASSUME NEW file \in {"small", "huge"}, Upload!SelectFile(file) PROVE Kept
    BY <2>3 DEF Upload!SelectFile, Upload!ShowsForm
  <2>4. ASSUME NEW choice \in Upload!Presets \cup {"custom"}, Upload!ChooseExpiry(choice)
        PROVE  Kept
    BY <2>4 DEF Upload!ChooseExpiry, Upload!Edit
  <2>5. ASSUME NEW duration \in {"odd", "bad"}, Upload!TypeExpiry(duration) PROVE Kept
    BY <2>5 DEF Upload!TypeExpiry, Upload!Edit
  <2>6. ASSUME NEW max \in Upload!MaxDownloads, Upload!TypeMax(max) PROVE Kept
    BY <2>6 DEF Upload!TypeMax, Upload!Edit
  <2>7. ASSUME NEW a \in Upload!Attempts, Upload!Submit(a) \/ Upload!Refused(a) \/ Upload!GiveUp(a)
        PROVE  Kept
    BY <2>7 DEF Upload!Submit, Upload!Refused, Upload!GiveUp, Upload!ReportFailure
  <2>8. ASSUME NEW a \in Upload!Attempts, Upload!Succeed(a) PROVE Kept
    BY <1>1, <2>8 DEF Upload!Succeed, UploadInv, Waiting
  <2>9. ASSUME NEW a \in Upload!Attempts, NEW answer \in {"stored", "refused"},
               Upload!AnswerUpload(a, answer)
        PROVE  Kept
    BY <2>9 DEF Upload!AnswerUpload, Upload!page
  <2>. QED BY <1>1, <2>1, <2>2, <2>3, <2>4, <2>5, <2>6, <2>7, <2>8, <2>9 DEF Upload!Next
<1>2. [Next]_vars => AtUpload(Upload!Next) \/ result' = result
  BY DEF Next, vars, upload, AtFiles, AtUpload, AtAccount, AtTables, AtPanel, AtShare
<1>3. EveryInv /\ [Next]_vars => [Kept]_(Upload!vars)
  BY <1>1, <1>2 DEF EveryInv, AtUpload
<1>. QED BY <1>3, Everywhere, PTL DEF Spec, LinkStays, Upload!LinkStays

(* After a confirmed logout the tab knows no user until a session begins:   *)
(* onSettled drops the answer that was on its way, and the server has no    *)
(* other to give.                                                           *)
THEOREM LogoutsStick == Spec => []LogoutSticks
<1>1. EveryInv => LogoutSticks
  BY DEF EveryInv, AccountInv, NoUserOnTheWay, LogoutSticks, Account!LogoutSticks
<1>. QED BY <1>1, Everywhere, PTL

(* No guard misses its turn: a known user at a form is on his way to        *)
(* another page.                                                            *)
THEOREM FormsAreForStrangers == Spec => []NoFormForUser
<1>1. EveryInv => NoFormForUser
  BY DEF EveryInv, AccountInv, SentOn, NoFormForUser, Account!NoFormForUser
<1>. QED BY <1>1, Everywhere, PTL
=============================================================================
