---------------------- MODULE ProductionRuntimeProofs ----------------------
(***************************************************************************)
(* Theorems about ProductionRuntime, for any number of callers, workers,   *)
(* keys and jobs, any limits and any number of crashes.                    *)
(*                                                                         *)
(* One inductive invariant carries them all: IInv says where the file of   *)
(* every job is relative to the local variables of the callers, of the     *)
(* workers and of open() that are about to touch it.  The lemmas show that *)
(* each actor's steps preserve each part of it: first the types, then the  *)
(* local variables, then the places of the files.  Two invariants stand on *)
(* it: RunningOwned, that nothing is left in running/ without an owner,    *)
(* and PrunesBeyond, that what a prune has listed stays beyond the limit.  *)
(***************************************************************************)
EXTENDS ProductionRuntime, FiniteSetTheorems, WellFoundedInduction, TLAPS

-----------------------------------------------------------------------------
(* Operators of the model *)

\* The first entry of a non-empty listing is an entry of the listing.
LEMMA OldestInListing ==
  ASSUME NEW S, S \subseteq Jobs, S # {}
  PROVE  Oldest(S) \in S
<1>1. S \subseteq Nat
  BY LimitsAssumption DEF Jobs, LimitsAssumption
<1>2. PICK m \in S : \A i \in S : <<i, m>> \notin OpToRel(<, Nat)
  BY <1>1, NatLessThanWellFounded, WFMin, Zenon
<1>3. \A i \in S : ~(i < m)
  BY <1>1, <1>2, Zenon DEF OpToRel
<1>4. \A i \in S : m <= i
  BY <1>1, <1>3
<1> QED BY <1>4 DEF Oldest

\* The records the code writes are records.
LEMMA SettledRecords ==
  ASSUME NEW r \in Record
  PROVE  Succeeded(r) \in Record /\ Cancelled(r) \in Record
<1>1. Succeeded(r) \in Record
  BY DEF Record, Succeeded, Status, TerminalStatus
<1>2. Cancelled(r) \in Record
  BY DEF Record, Cancelled, Status, TerminalStatus
<1> QED BY <1>1, <1>2

LEMMA RecordUpdates ==
  ASSUME NEW r \in Record, NEW s \in Status, NEW e \in BOOLEAN
  PROVE  /\ [r EXCEPT !.status = s, !.error = e] \in Record
         /\ [r EXCEPT !.status = s, !.result = e] \in Record
         /\ [r EXCEPT !.status = s, !.error = e, !.attempts = @ + 1] \in Record
<1>1. [r EXCEPT !.status = s, !.error = e] \in Record
  BY DEF Record
<1>2. [r EXCEPT !.status = s, !.result = e] \in Record
  BY DEF Record
<1>3. [r EXCEPT !.status = s, !.error = e, !.attempts = @ + 1] \in Record
  <2> DEFINE n == r.attempts + 1
  <2>1. n \in Nat
    BY DEF Record
  <2> HIDE DEF n
  <2>2. [r EXCEPT !.status = s, !.error = e, !.attempts = n] \in Record
    BY <2>1 DEF Record
  <2> QED BY <2>2 DEF n
<1> QED BY <1>1, <1>2, <1>3

LEMMA NewRecordIsRecord == \A k \in Keys : NewRecord(k) \in Record
  BY DEF Record, NewRecord, Status

-----------------------------------------------------------------------------
(* The inductive invariant *)

Nowhere(j) == ~InQueue(j) /\ ~InRunning(j) /\ ~InTerminal(j)
Submitting(c, j) == cpc[c] \in {"submit_queue", "submit_hit"} /\ cjob[c] = j

\* Local variables hold a job, a record or a listing wherever they are used.
LocalsDefined ==
  /\ \A c \in Clients :
       /\ cpc[c] \notin {"idle", "submit_lookup", "prune", "prune_remove"}
            => cjob[c] \in Jobs
       /\ cpc[c] \in {"submit_lookup", "submit_queue", "submit_hit", "cancel_write"}
            => crec[c] \in Record
       /\ cpc[c] = "prune_remove" => clist[c] # {}
  /\ \A w \in Workers :
       /\ wpc[w] \in Claiming \cup {"unmark"} => wjob[w] \in Jobs
       /\ wpc[w] \in Claiming \ {"claimed"} => wrec[w] \in Record
       /\ wpc[w] = "claim" => wlist[w] # {}
  /\ mpc \in {"recover", "recover_move", "open_remove", "prune_remove"}
       => mlist # {}

\* An id is used for one submission, and has no file before that ends.
IdsAreFresh ==
  /\ \A j \in Jobs : j >= nextId => Nowhere(j)
  /\ \A c \in Clients, j \in Jobs : Submitting(c, j) =>
       /\ j < nextId /\ Nowhere(j)
       /\ \A d \in Clients \ {c} : ~Submitting(d, j)

\* A job a cancel() has taken out of queue/ is not coming back.
WithdrawnForGood ==
  \A j \in Jobs : Withdrawing(j) =>
    /\ j < nextId /\ ~InQueue(j) /\ ~InRunning(j)
    /\ \A c \in Clients : ~Submitting(c, j)

\* Workers run in drain() only, and a claimed job has one owner.
ClaimsHeld ==
  /\ \A w \in Workers : wpc[w] # "idle" => mpc = "drain"
  /\ \A w \in Workers, j \in Jobs : Owns(w, j) =>
       /\ InRunning(j)
       /\ \A v \in Workers \ {w} : ~Owns(v, j)

\* Recovery works on files that are there.
RecoveryListed ==
  mpc \in {"recover", "recover_move"} => \A j \in mlist : InRunning(j)

IInv ==
  /\ TypeOK
  /\ LocalsDefined
  /\ OneFilePerJob
  /\ IdsAreFresh
  /\ WithdrawnForGood
  /\ ClaimsHeld
  /\ RecoveryListed
  /\ NoRecoveryConflict

-----------------------------------------------------------------------------
(* The steps of the callers *)

LEMMA CallType ==
  ASSUME TypeOK, NEW c \in Clients, Call(c)
  PROVE  TypeOK'
<1>1. ASSUME NEW k \in Keys, SubmitCheck(c, k)
      PROVE  TypeOK'
  <2>1. NewRecord(k) \in Record
    BY NewRecordIsRecord
  <2> QED BY <2>1, <1>1 DEF TypeOK, Call, SubmitCheck, ClientAt, ClientPC, shared, wvars, mvars
<1>2. ASSUME NEW j \in Jobs, CancelCheck(c, j)
      PROVE  TypeOK'
  BY <1>2 DEF TypeOK, Call, CancelCheck, ClientAt, ClientPC, shared, wvars, mvars
<1> QED BY <1>1, <1>2 DEF Call

LEMMA ClientType ==
  ASSUME TypeOK, LocalsDefined, NEW c \in Clients, ClientStep(c)
  PROVE  TypeOK'
<1> USE DEF TypeOK, ClientStep, ClientAt, ClientReturns, ClientPC, shared, wvars, mvars
<1>1. CASE SubmitLookup(c)
  <2>1. crec[c] \in Record /\ Succeeded(crec[c]) \in Record
    BY <1>1, SettledRecords DEF SubmitLookup, LocalsDefined
  <2>2. nextId + 1 \in 1..(MaxJobs + 1)
    BY <1>1, LimitsAssumption DEF SubmitLookup, Jobs, LimitsAssumption
  <2> QED BY <1>1, <2>1, <2>2 DEF SubmitLookup
<1>2. CASE SubmitQueue(c)
  BY <1>2 DEF SubmitQueue, LocalsDefined
<1>3. CASE SubmitHit(c)
  BY <1>3 DEF SubmitHit, LocalsDefined
<1>4. CASE CancelRead(c)
  <2>1. terminal[cjob[c]] # None => Cancelled(terminal[cjob[c]]) \in Record
    BY <1>4, SettledRecords DEF CancelRead, LocalsDefined
  <2> QED BY <1>4, <2>1 DEF CancelRead, LocalsDefined
<1>5. CASE GetLook(c)
  BY <1>5 DEF GetLook, LocalsDefined
<1>6. CASE SubmitPrune(c)
  <2>1. Victims \in SUBSET Jobs
    BY DEF Victims, Present
  <2> QED BY <1>6, <2>1 DEF SubmitPrune
<1>7. CASE SubmitPruneRemove(c)
  <2>1. StillToRemove(clist[c]) \in SUBSET Jobs
    BY DEF StillToRemove
  <2> QED BY <1>7, <2>1 DEF SubmitPruneRemove, RemoveOldest
<1>8. CASE CancelRename(c) \/ CancelRenameMissed(c) \/ CancelWrite(c)
  BY <1>8 DEF CancelRename, CancelRenameMissed, CancelWrite, LocalsDefined
<1>9. CASE CancelMark(c) \/ CancelSignal(c)
  BY <1>9 DEF CancelMark, CancelSignal, LocalsDefined
<1>10. CASE GetRead(c) \/ CancelUnmark(c)
  BY <1>10 DEF GetRead, CancelUnmark, LocalsDefined
<1> QED BY <1>1, <1>2, <1>3, <1>4, <1>5, <1>6, <1>7, <1>8, <1>9, <1>10

LEMMA WorkerType ==
  ASSUME TypeOK, LocalsDefined, ClaimsHeld, NEW w \in Workers, WorkerStep(w)
  PROVE  TypeOK'
<1> USE DEF TypeOK, WorkerStep, WorkerAt, WorkerAgain, WorkerPC, Claiming,
        disk, files, memory, cvars, mvars
<1>1. wpc[w] \in Claiming => wjob[w] \in Jobs /\ running[wjob[w]] \in Record
  BY DEF LocalsDefined, ClaimsHeld, Owns, InRunning
<1>2. wpc[w] \in Claiming \ {"claimed"} => wrec[w] \in Record
  BY DEF LocalsDefined
<1>3. CASE ClaimScan(w)
  <2>1. Present(queue) \in SUBSET Jobs
    BY DEF Present
  <2> QED BY <1>3, <2>1 DEF ClaimScan
<1>4. CASE ClaimRename(w) \/ ClaimRenameMissed(w)
  <2>1. Oldest(wlist[w]) \in Jobs
    BY <1>4, OldestInListing DEF ClaimRename, ClaimRenameMissed, LocalsDefined
  <2>2. CASE ClaimRename(w)
    <3>1. queue[Oldest(wlist[w])] \in Record
      BY <2>1, <2>2 DEF ClaimRename
    <3> QED BY <2>1, <2>2, <3>1 DEF ClaimRename
  <2>3. CASE ClaimRenameMissed(w)
    BY <2>1, <2>3 DEF ClaimRenameMissed
  <2> QED BY <1>4, <2>2, <2>3
<1>5. CASE ClaimWrite(w)
  <2>1. [running[wjob[w]] EXCEPT !.status = "running", !.error = FALSE,
                                 !.attempts = @ + 1] \in Record
    BY <1>1, <1>5, RecordUpdates DEF ClaimWrite, Status
  <2> QED BY <1>1, <1>5, <2>1 DEF ClaimWrite
<1>6. CASE LookupHit(w) \/ WriteCache(w)
  <2>1. Succeeded(wrec[w]) \in Record /\ wrec[w].key \in Keys
    BY <1>2, <1>6, SettledRecords DEF LookupHit, WriteCache, Record
  <2> QED BY <1>1, <1>6, <2>1 DEF LookupHit, WriteCache
<1>7. CASE LookupMiss(w) \/ Register(w) \/ CheckMarker(w) \/ Unregister(w)
  BY <1>7 DEF LookupMiss, Register, CheckMarker, Unregister
<1>8. CASE Execute(w)
  BY <1>1, <1>2, <1>8 DEF Execute
<1>9. CASE DecideCancelled(w)
  <2>1. Cancelled(wrec[w]) \in Record
    BY <1>2, <1>9, SettledRecords DEF DecideCancelled
  <2> QED BY <1>1, <1>9, <2>1 DEF DecideCancelled
<1>10. CASE DecideOutcome(w)
  <2>1. \A t \in Status, e \in BOOLEAN :
           [wrec[w] EXCEPT !.status = t, !.error = e] \in Record
    BY <1>2, <1>10, RecordUpdates DEF DecideOutcome
  <2>2. wrec[w] \in Record
    BY <1>2, <1>10 DEF DecideOutcome
  <2> QED BY <1>1, <1>10, <2>1, <2>2 DEF DecideOutcome, Status, TerminalStatus
<1>11. CASE Publish(w)
  BY <1>1, <1>2, <1>11 DEF Publish
<1>12. CASE Requeue(w)
  BY <1>1, <1>12 DEF Requeue
<1>13. CASE Finish(w)
  <2>1. terminal' \in [Jobs -> Record \cup {None}] /\ running' \in [Jobs -> Record \cup {None}]
    BY <1>1, <1>13 DEF Finish
  <2>2. wpc' \in [Workers -> WorkerPC] /\ wjob' \in [Workers -> Jobs \cup {NoJob}]
        /\ wrec' \in [Workers -> Record \cup {None}]
        /\ wout' \in [Workers -> Outcomes \cup {"none"}]
    BY <1>1, <1>13 DEF Finish
  <2> QED BY <1>13, <2>1, <2>2 DEF Finish
<1>14. CASE Unmark(w)
  BY <1>14 DEF Unmark
<1> QED BY <1>3, <1>4, <1>5, <1>6, <1>7, <1>8, <1>9, <1>10, <1>11, <1>12, <1>13, <1>14

LEMMA MainType ==
  ASSUME TypeOK, LocalsDefined, RecoveryListed, MainStep
  PROVE  TypeOK'
<1> USE DEF TypeOK, MainStep, Drain, Open, Prune, MainPC, files, memory, wvars, cvars
<1>1. mpc \in {"recover", "recover_move"} =>
        /\ Oldest(mlist) \in Jobs
        /\ running[Oldest(mlist)] \in Record
  BY OldestInListing DEF LocalsDefined, RecoveryListed, InRunning
<1>2. CASE StartDrain \/ DrainJoin
  BY <1>2 DEF StartDrain, DrainJoin, WorkerPC
<1>3. CASE OpenList
  BY <1>3 DEF OpenList, Present
<1>4. CASE RecoverWrite
  <2> DEFINE j == Oldest(mlist)
             r == [running[j] EXCEPT !.status = "queued", !.result = FALSE]
  <2>1. r \in Record
    BY <1>1, <1>4, RecordUpdates DEF RecoverWrite, Status
  <2>2. running' = [running EXCEPT ![j] = r]
    BY <1>1, <1>4 DEF RecoverWrite
  <2> QED BY <1>1, <1>4, <2>1, <2>2 DEF RecoverWrite
<1>5. CASE RecoverMove
  BY <1>1, <1>5 DEF RecoverMove
<1>6. CASE MainPrune
  BY <1>6 DEF MainPrune, Victims, Present
<1>7. CASE MainPruneRemove
  BY <1>7 DEF MainPruneRemove, RemoveOldest, StillToRemove
<1> QED BY <1>2, <1>3, <1>4, <1>5, <1>6, <1>7

-----------------------------------------------------------------------------
(* Local variables *)

LEMMA CallLocals ==
  ASSUME TypeOK, LocalsDefined, NEW c \in Clients, Call(c)
  PROVE  LocalsDefined'
<1>1. ASSUME NEW k \in Keys, SubmitCheck(c, k)
      PROVE  LocalsDefined'
  <2>1. NewRecord(k) \in Record
    BY NewRecordIsRecord
  <2> QED BY <1>1, <2>1 DEF TypeOK, LocalsDefined, Call, SubmitCheck, ClientAt, wvars, mvars
<1>2. ASSUME NEW j \in Jobs, CancelCheck(c, j)
      PROVE  LocalsDefined'
  BY <1>2 DEF TypeOK, LocalsDefined, Call, CancelCheck, ClientAt, wvars, mvars
<1> QED BY <1>1, <1>2 DEF Call

LEMMA ClientLocals ==
  ASSUME TypeOK, LocalsDefined, NEW c \in Clients, ClientStep(c)
  PROVE  LocalsDefined'
<1> USE DEF TypeOK, LocalsDefined, ClientStep, ClientAt, ClientReturns, wvars, mvars
<1>1. CASE SubmitLookup(c)
  <2>1. crec[c] \in Record /\ Succeeded(crec[c]) \in Record
    BY <1>1, SettledRecords DEF SubmitLookup
  <2> QED BY <1>1, <2>1 DEF SubmitLookup
<1>2. CASE SubmitQueue(c) \/ SubmitHit(c)
  BY <1>2 DEF SubmitQueue, SubmitHit
<1>3. CASE SubmitPrune(c)
  BY <1>3 DEF SubmitPrune
<1>4. CASE SubmitPruneRemove(c)
  BY <1>4 DEF SubmitPruneRemove
<1>5. CASE CancelRename(c) \/ CancelRenameMissed(c) \/ CancelWrite(c)
  BY <1>5 DEF CancelRename, CancelRenameMissed, CancelWrite
<1>6. CASE CancelRead(c)
  <2>1. terminal[cjob[c]] # None => Cancelled(terminal[cjob[c]]) \in Record
    BY <1>6, SettledRecords DEF CancelRead
  <2> QED BY <1>6, <2>1 DEF CancelRead
<1>7. CASE CancelMark(c) \/ CancelSignal(c) \/ CancelUnmark(c)
  BY <1>7 DEF CancelMark, CancelSignal, CancelUnmark
<1>8. CASE GetLook(c) \/ GetRead(c)
  BY <1>8 DEF GetLook, GetRead
<1> QED BY <1>1, <1>2, <1>3, <1>4, <1>5, <1>6, <1>7, <1>8

LEMMA WorkerLocals ==
  ASSUME TypeOK, LocalsDefined, ClaimsHeld, NEW w \in Workers, WorkerStep(w)
  PROVE  LocalsDefined'
<1> USE DEF TypeOK, LocalsDefined, WorkerStep, WorkerAt, WorkerAgain, Claiming,
        cvars, mvars
<1>1. CASE ClaimScan(w) \/ ClaimRenameMissed(w)
  BY <1>1 DEF ClaimScan, ClaimRenameMissed
<1>2. CASE ClaimRename(w)
  <2>1. Oldest(wlist[w]) \in Jobs
    BY <1>2, OldestInListing DEF ClaimRename
  <2> QED BY <1>2, <2>1 DEF ClaimRename
<1>3. CASE ClaimWrite(w)
  <2>1. running[wjob[w]] \in Record
    BY <1>3 DEF ClaimWrite, ClaimsHeld, Owns, InRunning
  <2>2. [running[wjob[w]] EXCEPT !.status = "running", !.error = FALSE,
                                 !.attempts = @ + 1] \in Record
    BY <2>1, RecordUpdates DEF Status
  <2> QED BY <1>3, <2>2 DEF ClaimWrite
<1>4. CASE LookupHit(w) \/ WriteCache(w)
  <2>1. Succeeded(wrec[w]) \in Record
    BY <1>4, SettledRecords DEF LookupHit, WriteCache
  <2> QED BY <1>4, <2>1 DEF LookupHit, WriteCache
<1>5. CASE DecideCancelled(w)
  <2>1. Cancelled(wrec[w]) \in Record
    BY <1>5, SettledRecords DEF DecideCancelled
  <2> QED BY <1>5, <2>1 DEF DecideCancelled
<1>6. CASE DecideOutcome(w)
  <2>1. \A t \in Status, e \in BOOLEAN :
           [wrec[w] EXCEPT !.status = t, !.error = e] \in Record
    BY <1>6, RecordUpdates DEF DecideOutcome
  <2> QED BY <1>6, <2>1 DEF DecideOutcome, Status, TerminalStatus
<1>7. CASE LookupMiss(w) \/ Register(w) \/ CheckMarker(w) \/ Execute(w) \/ Unregister(w)
  BY <1>7 DEF LookupMiss, Register, CheckMarker, Execute, Unregister
<1>8. CASE Publish(w) \/ Requeue(w) \/ Finish(w) \/ Unmark(w)
  BY <1>8 DEF Publish, Requeue, Finish, Unmark
<1> QED BY <1>1, <1>2, <1>3, <1>4, <1>5, <1>6, <1>7, <1>8

LEMMA MainLocals ==
  ASSUME TypeOK, LocalsDefined, ClaimsHeld, MainStep
  PROVE  LocalsDefined'
<1> USE DEF TypeOK, LocalsDefined, MainStep, Drain, Open, Prune, Claiming, wvars, cvars
<1>1. CASE StartDrain
  BY <1>1 DEF StartDrain
<1>2. CASE DrainJoin
  BY <1>2 DEF DrainJoin
<1>3. CASE OpenList \/ RecoverWrite \/ RecoverMove
  BY <1>3, OldestInListing DEF OpenList, RecoverWrite, RecoverMove
<1>4. CASE MainPrune
  BY <1>4 DEF MainPrune
<1>5. CASE MainPruneRemove
  BY <1>5 DEF MainPruneRemove
<1> QED BY <1>1, <1>2, <1>3, <1>4, <1>5

-----------------------------------------------------------------------------
(* Files and claims *)

\* Callers only add a file for an id of their own, take a queued file away, and
\* rewrite a withdrawn one.
LEMMA ClientFiles ==
  ASSUME TypeOK, LocalsDefined, OneFilePerJob, IdsAreFresh, WithdrawnForGood,
         NEW c \in Clients, Call(c) \/ ClientStep(c)
  PROVE  OneFilePerJob' /\ IdsAreFresh' /\ WithdrawnForGood'
<1> USE DEF TypeOK, InQueue, InRunning, InTerminal, Submitting, Withdrawing, Nowhere,
        Call, ClientStep, ClientAt, ClientReturns, shared
<1>1. CASE Call(c)
  BY <1>1 DEF OneFilePerJob, IdsAreFresh, WithdrawnForGood, SubmitCheck, CancelCheck
<1>2. CASE SubmitLookup(c)
  <2>1. nextId \in Jobs /\ nextId \in Int /\ Jobs \subseteq Int
    BY <1>2 DEF SubmitLookup, LocalsDefined, Jobs
  <2>2. OneFilePerJob'
    BY <1>2, <2>1, NoneAssumption DEF SubmitLookup, OneFilePerJob, IdsAreFresh, WithdrawnForGood
  <2>3. IdsAreFresh'
    BY <1>2, <2>1 DEF SubmitLookup, IdsAreFresh, WithdrawnForGood
  <2>4. WithdrawnForGood'
    BY <1>2, <2>1, NoneAssumption DEF SubmitLookup, OneFilePerJob, IdsAreFresh, WithdrawnForGood
  <2> QED BY <2>2, <2>3, <2>4
<1>3. CASE SubmitQueue(c)
  <2>1. /\ cjob[c] \in Jobs /\ crec[c] \in Record
        /\ nextId \in Int /\ Jobs \subseteq Int
    BY <1>3 DEF SubmitQueue, LocalsDefined, Jobs
  <2>2. OneFilePerJob'
    BY <1>3, <2>1, NoneAssumption DEF SubmitQueue, OneFilePerJob, IdsAreFresh, WithdrawnForGood
  <2>3. IdsAreFresh'
    BY <1>3, <2>1 DEF SubmitQueue, IdsAreFresh, WithdrawnForGood
  <2>4. WithdrawnForGood'
    BY <1>3, <2>1, NoneAssumption DEF SubmitQueue, OneFilePerJob, IdsAreFresh, WithdrawnForGood
  <2> QED BY <2>2, <2>3, <2>4
<1>4. CASE SubmitHit(c)
  <2>1. /\ cjob[c] \in Jobs /\ crec[c] \in Record
        /\ nextId \in Int /\ Jobs \subseteq Int
    BY <1>4 DEF SubmitHit, LocalsDefined, Jobs
  <2>2. OneFilePerJob'
    BY <1>4, <2>1, NoneAssumption DEF SubmitHit, OneFilePerJob, IdsAreFresh, WithdrawnForGood
  <2>3. IdsAreFresh'
    BY <1>4, <2>1 DEF SubmitHit, IdsAreFresh, WithdrawnForGood
  <2>4. WithdrawnForGood'
    BY <1>4, <2>1, NoneAssumption DEF SubmitHit, OneFilePerJob, IdsAreFresh, WithdrawnForGood
  <2> QED BY <2>2, <2>3, <2>4
<1>5. CASE SubmitPrune(c)
  BY <1>5 DEF OneFilePerJob, IdsAreFresh, WithdrawnForGood, SubmitPrune
<1>6. CASE SubmitPruneRemove(c)
  BY <1>6 DEF OneFilePerJob, IdsAreFresh, WithdrawnForGood, SubmitPruneRemove, RemoveOldest
<1>7. CASE CancelRename(c)
  <2>1. /\ cjob[c] \in Jobs /\ queue[cjob[c]] \in Record
        /\ nextId \in Int /\ Jobs \subseteq Int
    BY <1>7 DEF CancelRename, LocalsDefined, Jobs
  <2>2. OneFilePerJob'
    BY <1>7, <2>1, NoneAssumption DEF CancelRename, OneFilePerJob, IdsAreFresh, WithdrawnForGood
  <2>3. IdsAreFresh'
    BY <1>7, <2>1 DEF CancelRename, IdsAreFresh, WithdrawnForGood
  <2>4. WithdrawnForGood'
    BY <1>7, <2>1, NoneAssumption DEF CancelRename, OneFilePerJob, IdsAreFresh, WithdrawnForGood
  <2> QED BY <2>2, <2>3, <2>4
<1>8. CASE CancelRenameMissed(c) \/ CancelRead(c)
  BY <1>8 DEF OneFilePerJob, IdsAreFresh, WithdrawnForGood, CancelRenameMissed, CancelRead
<1>9. CASE CancelWrite(c)
  <2>1. /\ cjob[c] \in Jobs /\ crec[c] \in Record
        /\ nextId \in Int /\ Jobs \subseteq Int
    BY <1>9 DEF CancelWrite, LocalsDefined, Jobs
  <2>2. OneFilePerJob'
    BY <1>9, <2>1, NoneAssumption DEF CancelWrite, OneFilePerJob, IdsAreFresh, WithdrawnForGood
  <2>3. IdsAreFresh'
    BY <1>9, <2>1 DEF CancelWrite, IdsAreFresh, WithdrawnForGood
  <2>4. WithdrawnForGood'
    BY <1>9, <2>1, NoneAssumption DEF CancelWrite, OneFilePerJob, IdsAreFresh, WithdrawnForGood
  <2> QED BY <2>2, <2>3, <2>4
<1>10. CASE CancelMark(c) \/ CancelSignal(c)
  BY <1>10 DEF OneFilePerJob, IdsAreFresh, WithdrawnForGood, CancelMark, CancelSignal
<1>11. CASE GetLook(c) \/ GetRead(c) \/ CancelUnmark(c)
  BY <1>11 DEF OneFilePerJob, IdsAreFresh, WithdrawnForGood, GetLook, GetRead, CancelUnmark
<1> QED BY <1>1, <1>2, <1>3, <1>4, <1>5, <1>6, <1>7, <1>8, <1>9, <1>10, <1>11

\* A worker moves the files of the job it owns, or claims one from queue/.
LEMMA WorkerFiles ==
  ASSUME TypeOK, LocalsDefined, OneFilePerJob, IdsAreFresh, WithdrawnForGood,
         ClaimsHeld, NEW w \in Workers, WorkerStep(w)
  PROVE  OneFilePerJob' /\ IdsAreFresh' /\ WithdrawnForGood' /\ ClaimsHeld'
<1> USE DEF TypeOK, InQueue, InRunning, InTerminal, Submitting, Withdrawing, Nowhere,
        Owns, Claiming, WorkerStep, WorkerAt, WorkerAgain, files, disk, memory,
        cvars, mvars
<1>1. wpc[w] \in Claiming =>
        /\ wjob[w] \in Jobs /\ running[wjob[w]] \in Record
        /\ wpc[w] # "claimed" => wrec[w] \in Record
  BY DEF LocalsDefined, ClaimsHeld
<1>2. wpc[w] = "claim" => Oldest(wlist[w]) \in Jobs
  BY OldestInListing DEF LocalsDefined
<1>3. CASE ClaimRename(w)
  <2>1. OneFilePerJob'
    BY <1>1, <1>2, <1>3, NoneAssumption DEF ClaimRename, OneFilePerJob
  <2>2. IdsAreFresh'
    BY <1>1, <1>2, <1>3, NoneAssumption DEF ClaimRename, IdsAreFresh
  <2>3. WithdrawnForGood'
    BY <1>1, <1>2, <1>3, NoneAssumption DEF ClaimRename, WithdrawnForGood
  <2>4. ClaimsHeld'
    BY <1>1, <1>2, <1>3, NoneAssumption DEF ClaimRename, ClaimsHeld, OneFilePerJob
  <2> QED BY <2>1, <2>2, <2>3, <2>4
<1>4. CASE ClaimWrite(w)
  <2> DEFINE j == wjob[w]
             r == [running[j] EXCEPT !.status = "running", !.error = FALSE,
                                     !.attempts = @ + 1]
  <2>1. r \in Record
    BY <1>1, <1>4, RecordUpdates DEF ClaimWrite, Status
  <2>2. /\ running' = [running EXCEPT ![j] = r] /\ UNCHANGED <<queue, terminal>>
        /\ WorkerAt(w, "lookup", j, r, "none")
    BY <1>4 DEF ClaimWrite
  <2> HIDE DEF r
  <2>3. \A i \in Jobs : running'[i] # None <=> running[i] # None
    BY <1>1, <1>4, <2>1, <2>2, NoneAssumption DEF ClaimWrite
  <2>4. OneFilePerJob' /\ IdsAreFresh' /\ WithdrawnForGood'
    BY <1>4, <2>2, <2>3 DEF OneFilePerJob, IdsAreFresh, WithdrawnForGood
  <2>5. ClaimsHeld'
    BY <1>4, <2>2, <2>3 DEF ClaimWrite, ClaimsHeld
  <2> QED BY <2>4, <2>5
<1>5. CASE Publish(w)
  <2>1. OneFilePerJob'
    BY <1>1, <1>2, <1>5, NoneAssumption DEF Publish, OneFilePerJob
  <2>2. IdsAreFresh'
    BY <1>1, <1>2, <1>5, NoneAssumption DEF Publish, IdsAreFresh
  <2>3. WithdrawnForGood'
    BY <1>1, <1>2, <1>5, NoneAssumption DEF Publish, WithdrawnForGood
  <2>4. ClaimsHeld'
    BY <1>1, <1>2, <1>5, NoneAssumption DEF Publish, ClaimsHeld, OneFilePerJob
  <2> QED BY <2>1, <2>2, <2>3, <2>4
<1>6. CASE Requeue(w)
  <2>1. OneFilePerJob'
    BY <1>1, <1>2, <1>6, NoneAssumption DEF Requeue, OneFilePerJob
  <2>2. IdsAreFresh'
    BY <1>1, <1>2, <1>6, NoneAssumption DEF Requeue, IdsAreFresh
  <2>3. WithdrawnForGood'
    BY <1>1, <1>2, <1>6, NoneAssumption DEF Requeue, WithdrawnForGood
  <2>4. ClaimsHeld'
    BY <1>1, <1>2, <1>6, NoneAssumption DEF Requeue, ClaimsHeld, OneFilePerJob
  <2> QED BY <2>1, <2>2, <2>3, <2>4
<1>7. CASE Finish(w)
  <2>1. OneFilePerJob'
    BY <1>1, <1>2, <1>7, NoneAssumption DEF Finish, OneFilePerJob
  <2>2. IdsAreFresh'
    BY <1>1, <1>2, <1>7, NoneAssumption DEF Finish, IdsAreFresh
  <2>3. WithdrawnForGood'
    BY <1>1, <1>2, <1>7, NoneAssumption DEF Finish, WithdrawnForGood
  <2>4. ClaimsHeld'
    BY <1>1, <1>2, <1>7, NoneAssumption DEF Finish, ClaimsHeld, OneFilePerJob
  <2> QED BY <2>1, <2>2, <2>3, <2>4
<1>8. CASE ClaimScan(w) \/ ClaimRenameMissed(w)
  <2>1. OneFilePerJob' /\ IdsAreFresh' /\ WithdrawnForGood'
    BY <1>8 DEF ClaimScan, ClaimRenameMissed, OneFilePerJob, IdsAreFresh, WithdrawnForGood
  <2>2. ClaimsHeld'
    BY <1>1, <1>8 DEF ClaimScan, ClaimRenameMissed, ClaimsHeld
  <2> QED BY <2>1, <2>2
<1>9. CASE LookupHit(w) \/ LookupMiss(w) \/ WriteCache(w)
  <2>1. OneFilePerJob' /\ IdsAreFresh' /\ WithdrawnForGood'
    BY <1>9 DEF LookupHit, LookupMiss, WriteCache, OneFilePerJob, IdsAreFresh, WithdrawnForGood
  <2>2. ClaimsHeld'
    BY <1>1, <1>9 DEF LookupHit, LookupMiss, WriteCache, ClaimsHeld
  <2> QED BY <2>1, <2>2
<1>10. CASE Register(w) \/ CheckMarker(w) \/ Execute(w) \/ Unregister(w)
  <2>1. OneFilePerJob' /\ IdsAreFresh' /\ WithdrawnForGood'
    BY <1>10 DEF Register, CheckMarker, Execute, Unregister, OneFilePerJob, IdsAreFresh, WithdrawnForGood
  <2>2. ClaimsHeld'
    BY <1>1, <1>10 DEF Register, CheckMarker, Execute, Unregister, ClaimsHeld
  <2> QED BY <2>1, <2>2
<1>11. CASE DecideCancelled(w) \/ DecideOutcome(w)
  <2>1. OneFilePerJob' /\ IdsAreFresh' /\ WithdrawnForGood'
    BY <1>11 DEF DecideCancelled, DecideOutcome, OneFilePerJob, IdsAreFresh, WithdrawnForGood
  <2>2. ClaimsHeld'
    BY <1>1, <1>11 DEF DecideCancelled, DecideOutcome, ClaimsHeld
  <2> QED BY <2>1, <2>2
<1>12. CASE Unmark(w)
  <2>1. OneFilePerJob' /\ IdsAreFresh' /\ WithdrawnForGood'
    BY <1>12 DEF Unmark, OneFilePerJob, IdsAreFresh, WithdrawnForGood
  <2>2. ClaimsHeld'
    BY <1>1, <1>12 DEF Unmark, ClaimsHeld
  <2> QED BY <2>1, <2>2
<1> QED BY <1>3, <1>4, <1>5, <1>6, <1>7, <1>8, <1>9, <1>10, <1>11, <1>12

\* Recovery takes the files it has listed from running/ to queue/, and finds none
\* of them in queue/ already.
LEMMA MainFiles ==
  ASSUME TypeOK, LocalsDefined, OneFilePerJob, IdsAreFresh, WithdrawnForGood,
         ClaimsHeld, RecoveryListed, NoRecoveryConflict, MainStep
  PROVE  /\ OneFilePerJob' /\ IdsAreFresh' /\ WithdrawnForGood' /\ ClaimsHeld'
         /\ RecoveryListed' /\ NoRecoveryConflict'
<1> USE DEF TypeOK, InQueue, InRunning, InTerminal, Submitting, Withdrawing, Nowhere,
        Owns, Claiming, MainStep, Drain, Open, Prune, files, memory, wvars, cvars
<1>1. mpc \in {"recover", "recover_move"} =>
        /\ Oldest(mlist) \in Jobs /\ Oldest(mlist) \in mlist
        /\ running[Oldest(mlist)] \in Record /\ queue[Oldest(mlist)] = None
  BY OldestInListing DEF LocalsDefined, RecoveryListed, OneFilePerJob
<1>2. CASE StartDrain \/ DrainJoin
  <2>1. OneFilePerJob' /\ IdsAreFresh' /\ WithdrawnForGood'
    BY <1>2 DEF StartDrain, DrainJoin, OneFilePerJob, IdsAreFresh, WithdrawnForGood
  <2>2. ClaimsHeld' /\ RecoveryListed' /\ NoRecoveryConflict'
    BY <1>2 DEF StartDrain, DrainJoin, ClaimsHeld, RecoveryListed, NoRecoveryConflict
  <2> QED BY <2>1, <2>2
<1>3. CASE OpenList
  <2>1. OneFilePerJob' /\ IdsAreFresh' /\ WithdrawnForGood' /\ ClaimsHeld'
    BY <1>3 DEF OpenList, OneFilePerJob, IdsAreFresh, WithdrawnForGood, ClaimsHeld
  <2>2. RecoveryListed' /\ NoRecoveryConflict'
    BY <1>3 DEF OpenList, Present, RecoveryListed, NoRecoveryConflict
  <2> QED BY <2>1, <2>2
<1>4. CASE RecoverWrite
  <2> DEFINE j == Oldest(mlist)
             r == [running[j] EXCEPT !.status = "queued", !.result = FALSE]
  <2>1. r \in Record
    BY <1>1, <1>4, RecordUpdates DEF RecoverWrite, Status
  <2>2. running' = [running EXCEPT ![j] = r]
    BY <1>1, <1>4 DEF RecoverWrite
  <2> HIDE DEF r
  <2>3. /\ queue' = queue /\ terminal' = terminal
        /\ \A i \in Jobs : running'[i] # None <=> running[i] # None
    <3>1. running[j] # None /\ r # None
      BY <1>1, <1>4, <2>1, NoneAssumption DEF RecoverWrite
    <3>2. queue' = queue /\ terminal' = terminal
      BY <1>4 DEF RecoverWrite
    <3> QED BY <2>2, <3>1, <3>2
  <2>4. OneFilePerJob' /\ IdsAreFresh' /\ WithdrawnForGood' /\ ClaimsHeld'
    BY <1>4, <2>3 DEF RecoverWrite, OneFilePerJob, IdsAreFresh, WithdrawnForGood, ClaimsHeld
  <2>5. RecoveryListed' /\ NoRecoveryConflict'
    BY <1>1, <1>4, <2>3 DEF RecoverWrite, RecoveryListed, NoRecoveryConflict
  <2> QED BY <2>4, <2>5
<1>5. CASE RecoverMove
  <2>1. OneFilePerJob'
    BY <1>1, <1>5, NoneAssumption DEF RecoverMove, OneFilePerJob
  <2>2. IdsAreFresh'
    BY <1>1, <1>5, NoneAssumption DEF RecoverMove, IdsAreFresh
  <2>3. WithdrawnForGood'
    BY <1>1, <1>5, NoneAssumption DEF RecoverMove, WithdrawnForGood
  <2>4. ClaimsHeld' /\ RecoveryListed' /\ NoRecoveryConflict'
    BY <1>1, <1>5, NoneAssumption DEF RecoverMove, ClaimsHeld, RecoveryListed, NoRecoveryConflict
  <2> QED BY <2>1, <2>2, <2>3, <2>4
<1>6. CASE MainPrune
  <2>1. OneFilePerJob' /\ IdsAreFresh' /\ WithdrawnForGood'
    BY <1>6 DEF MainPrune, OneFilePerJob, IdsAreFresh, WithdrawnForGood
  <2>2. ClaimsHeld' /\ RecoveryListed' /\ NoRecoveryConflict'
    BY <1>6 DEF MainPrune, ClaimsHeld, RecoveryListed, NoRecoveryConflict
  <2> QED BY <2>1, <2>2
<1>7. CASE MainPruneRemove
  <2>1. OneFilePerJob' /\ IdsAreFresh' /\ WithdrawnForGood'
    BY <1>7 DEF MainPruneRemove, RemoveOldest, OneFilePerJob, IdsAreFresh, WithdrawnForGood
  <2>2. ClaimsHeld' /\ RecoveryListed' /\ NoRecoveryConflict'
    BY <1>7 DEF MainPruneRemove, ClaimsHeld, RecoveryListed, NoRecoveryConflict
  <2> QED BY <2>1, <2>2
<1> QED BY <1>2, <1>3, <1>4, <1>5, <1>6, <1>7

-----------------------------------------------------------------------------
(* The invariant *)

LEMMA InitInv == Init => IInv
<1> SUFFICES ASSUME Init PROVE IInv
  OBVIOUS
<1>1. TypeOK
  BY LimitsAssumption DEF Init, TypeOK, ClientPC, WorkerPC, MainPC, LimitsAssumption
<1>2. OneFilePerJob /\ IdsAreFresh /\ WithdrawnForGood
  BY DEF Init, OneFilePerJob, IdsAreFresh, WithdrawnForGood, InQueue, InRunning,
         InTerminal, Nowhere, Submitting, Withdrawing
<1>3. LocalsDefined /\ ClaimsHeld /\ RecoveryListed /\ NoRecoveryConflict
  BY DEF Init, LocalsDefined, ClaimsHeld, RecoveryListed, NoRecoveryConflict, Owns, Claiming
<1> QED BY <1>1, <1>2, <1>3 DEF IInv

LEMMA StepInv == IInv /\ [Next]_vars => IInv'
<1> SUFFICES ASSUME IInv, [Next]_vars PROVE IInv'
  OBVIOUS
<1> USE DEF IInv
<1>1. ASSUME NEW c \in Clients, Call(c) \/ ClientStep(c)
      PROVE  IInv'
  <2>1. TypeOK' /\ LocalsDefined'
    BY <1>1, CallType, ClientType, CallLocals, ClientLocals
  <2>2. OneFilePerJob' /\ IdsAreFresh' /\ WithdrawnForGood'
    BY <1>1, ClientFiles
  <2>3. ClaimsHeld' /\ RecoveryListed' /\ NoRecoveryConflict'
    BY <1>1 DEF Call, ClientStep, wvars, mvars, ClaimsHeld, RecoveryListed,
                NoRecoveryConflict, Owns, InRunning
  <2> QED BY <2>1, <2>2, <2>3
<1>2. ASSUME NEW w \in Workers, WorkerStep(w)
      PROVE  IInv'
  <2>1. TypeOK' /\ LocalsDefined'
    BY <1>2, WorkerType, WorkerLocals
  <2>2. OneFilePerJob' /\ IdsAreFresh' /\ WithdrawnForGood' /\ ClaimsHeld'
    BY <1>2, WorkerFiles
  <2>3. mpc = "drain" /\ mpc' = mpc
    BY <1>2 DEF ClaimsHeld, WorkerStep, mvars, ClaimScan, ClaimRename, ClaimRenameMissed,
       ClaimWrite, LookupHit, LookupMiss, Register, CheckMarker, Execute, Unregister,
       DecideCancelled, DecideOutcome, WriteCache, Publish, Requeue, Finish, Unmark
  <2>4. RecoveryListed' /\ NoRecoveryConflict'
    BY <2>3 DEF RecoveryListed, NoRecoveryConflict
  <2> QED BY <2>1, <2>2, <2>4
<1>3. CASE MainStep
  BY <1>3, MainType, MainLocals, MainFiles
<1>4. CASE Crash
  <2>1. TypeOK'
    BY <1>4, LimitsAssumption DEF Crash, TypeOK, disk, files, ClientPC, WorkerPC, MainPC,
       LimitsAssumption
  <2>2. OneFilePerJob' /\ IdsAreFresh' /\ WithdrawnForGood'
    BY <1>4 DEF Crash, disk, files, OneFilePerJob, IdsAreFresh, WithdrawnForGood, InQueue,
       InRunning, InTerminal, Nowhere, Submitting, Withdrawing
  <2>3. LocalsDefined' /\ ClaimsHeld' /\ RecoveryListed' /\ NoRecoveryConflict'
    BY <1>4 DEF Crash, LocalsDefined, ClaimsHeld, RecoveryListed, NoRecoveryConflict, Owns,
       Claiming
  <2> QED BY <2>1, <2>2, <2>3
<1>5. CASE UNCHANGED vars
  BY <1>5 DEF vars, disk, files, memory, wvars, cvars, mvars, TypeOK, LocalsDefined,
     OneFilePerJob, IdsAreFresh, WithdrawnForGood, ClaimsHeld, RecoveryListed,
     NoRecoveryConflict, InQueue, InRunning, InTerminal, Nowhere, Submitting, Withdrawing,
     Owns
<1> QED BY <1>1, <1>2, <1>3, <1>4, <1>5 DEF Next

LEMMA Invariant == Spec => []IInv
BY InitInv, StepInv, PTL DEF Spec

-----------------------------------------------------------------------------
(* Running jobs and callers *)

\* Callers are under way in an open process only.
CallersUp == \A c \in Clients : cpc[c] # "idle" => Recovered

\* A file in running/ has a worker, or the recovery that will take it back.
RunningOwned ==
  /\ mpc \in {"recover", "recover_move"} => Present(running) \subseteq mlist
  /\ Recovered => \A j \in Jobs : InRunning(j) => \E w \in Workers : Owns(w, j)

LEMMA OwnedInit == Init => CallersUp /\ RunningOwned
  BY DEF Init, CallersUp, RunningOwned, InRunning

LEMMA ClientOwned ==
  ASSUME IInv, CallersUp, RunningOwned, NEW c \in Clients, Call(c) \/ ClientStep(c)
  PROVE  CallersUp' /\ RunningOwned' /\ Recovered /\ Recovered'
<1> USE DEF Recovered
<1>1. UNCHANGED <<running, wvars, mvars>>
  BY DEF Call, ClientStep
<1>2. Recovered
  <2>1. CASE Call(c)
    BY <2>1 DEF Call, SubmitCheck, CancelCheck, Up
  <2>2. CASE ClientStep(c)
    <3>1. cpc[c] # "idle"
      BY <2>2 DEF ClientStep, SubmitLookup, SubmitQueue, SubmitHit, SubmitPrune,
         SubmitPruneRemove, CancelRename, CancelRenameMissed, CancelRead, CancelWrite,
         CancelMark, CancelSignal, GetLook, GetRead, CancelUnmark
    <3> QED BY <3>1 DEF CallersUp
  <2> QED BY <2>1, <2>2
<1>3. CallersUp' /\ Recovered'
  BY <1>1, <1>2 DEF CallersUp, mvars
<1>4. RunningOwned'
  BY <1>1 DEF RunningOwned, Owns, InRunning, Present, wvars, mvars
<1> QED BY <1>2, <1>3, <1>4

LEMMA WorkerOwned ==
  ASSUME IInv, CallersUp, RunningOwned, NEW w \in Workers, WorkerStep(w)
  PROVE  CallersUp' /\ RunningOwned' /\ mpc = "drain" /\ mpc' = "drain"
<1> USE DEF IInv, TypeOK
<1>1. mpc = "drain" /\ mpc' = "drain"
  BY DEF ClaimsHeld, WorkerStep, mvars, ClaimScan, ClaimRename, ClaimRenameMissed,
     ClaimWrite, LookupHit, LookupMiss, Register, CheckMarker, Execute, Unregister,
     DecideCancelled, DecideOutcome, WriteCache, Publish, Requeue, Finish, Unmark
<1>2. CallersUp'
  BY <1>1 DEF CallersUp, Recovered, WorkerStep, cvars
<1>3. ASSUME NEW j \in Jobs, InRunning(j)'
      PROVE  \E v \in Workers : Owns(v, j)'
  <2> USE DEF WorkerStep, WorkerAt, WorkerAgain, InRunning, Owns, Claiming, disk, files
  <2>1. InRunning(j) => \E v \in Workers : Owns(v, j)
    BY <1>1 DEF RunningOwned, Recovered
  <2>2. wpc[w] \in Claiming => wjob[w] \in Jobs
    BY DEF LocalsDefined
  <2>3. wpc[w] = "claim" => Oldest(wlist[w]) \in Jobs
    BY OldestInListing DEF LocalsDefined
  <2>4. CASE ClaimRename(w)
    BY <1>3, <2>1, <2>3, <2>4 DEF ClaimRename
  <2>5. CASE Requeue(w) \/ Finish(w)
    BY <1>3, <2>1, <2>2, <2>5 DEF Requeue, Finish
  <2>6. CASE ClaimWrite(w) \/ Publish(w)
    <3>1. InRunning(wjob[w])
      BY <2>2, <2>6 DEF ClaimWrite, Publish, ClaimsHeld
    <3>2. InRunning(j)
      BY <1>3, <2>2, <2>6, <3>1 DEF ClaimWrite, Publish
    <3> QED BY <2>1, <2>6, <3>2 DEF ClaimWrite, Publish
  <2>7. CASE ClaimScan(w) \/ ClaimRenameMissed(w) \/ Unmark(w)
    BY <1>3, <2>1, <2>7 DEF ClaimScan, ClaimRenameMissed, Unmark
  <2>8. CASE LookupHit(w) \/ LookupMiss(w) \/ Register(w) \/ CheckMarker(w)
    BY <1>3, <2>1, <2>8 DEF LookupHit, LookupMiss, Register, CheckMarker
  <2>9. CASE Execute(w) \/ Unregister(w) \/ DecideCancelled(w) \/ DecideOutcome(w) \/ WriteCache(w)
    BY <1>3, <2>1, <2>9 DEF Execute, Unregister, DecideCancelled, DecideOutcome, WriteCache
  <2> QED BY <2>4, <2>5, <2>6, <2>7, <2>8, <2>9
<1>4. RunningOwned'
  BY <1>1, <1>3 DEF RunningOwned
<1> QED BY <1>1, <1>2, <1>4

LEMMA MainOwned ==
  ASSUME IInv, CallersUp, RunningOwned, MainStep
  PROVE  CallersUp' /\ RunningOwned'
<1> USE DEF IInv, TypeOK, MainStep, Drain, Open, Prune, Recovered, InRunning, Present, files,
        wvars, cvars
<1>1. mpc \in {"recover", "recover_move"} => Oldest(mlist) \in Jobs
  BY OldestInListing DEF LocalsDefined
<1>2. mpc = "ready" => \A j \in Jobs : ~InRunning(j)
  BY DEF RunningOwned, ClaimsHeld, Owns, Claiming
<1>3. CASE StartDrain
  BY <1>2, <1>3 DEF StartDrain, CallersUp, RunningOwned
<1>4. CASE DrainJoin
  <2>1. \A j \in Jobs : ~InRunning(j)
    BY <1>4 DEF DrainJoin, RunningOwned, Owns, Claiming
  <2> QED BY <1>4, <2>1 DEF DrainJoin, CallersUp, RunningOwned
<1>5. CASE OpenList
  BY <1>5 DEF OpenList, CallersUp, RunningOwned
<1>6. CASE RecoverWrite
  <2>1. \A j \in Jobs : j # Oldest(mlist) => running'[j] = running[j]
    BY <1>1, <1>6 DEF RecoverWrite
  <2>2. Oldest(mlist) \in mlist
    BY <1>6, OldestInListing DEF RecoverWrite, LocalsDefined
  <2> QED BY <1>6, <2>1, <2>2 DEF RecoverWrite, CallersUp, RunningOwned
<1>7. CASE RecoverMove
  BY <1>1, <1>7 DEF RecoverMove, CallersUp, RunningOwned
<1>8. CASE MainPrune \/ MainPruneRemove
  BY <1>8 DEF MainPrune, MainPruneRemove, CallersUp, RunningOwned, Owns
<1> QED BY <1>3, <1>4, <1>5, <1>6, <1>7, <1>8

LEMMA StepOwned ==
  IInv /\ CallersUp /\ RunningOwned /\ [Next]_vars => CallersUp' /\ RunningOwned'
<1>1. Crash => CallersUp' /\ RunningOwned'
  BY DEF Crash, CallersUp, RunningOwned, Recovered
<1>2. CallersUp /\ RunningOwned /\ UNCHANGED vars => CallersUp' /\ RunningOwned'
  BY DEF vars, disk, files, wvars, cvars, mvars, CallersUp, RunningOwned, Recovered, Present,
     InRunning, Owns
<1> QED BY <1>1, <1>2, ClientOwned, WorkerOwned, MainOwned DEF Next

-----------------------------------------------------------------------------
(* Pruning *)

\* What a prune has listed is beyond the limit and stays so, although other
\* prunes remove files that are newer than it.
Newer(i) == {k \in Present(terminal) : k > i}
Beyond(S) == \A i \in S : Cardinality(Newer(i)) >= MaxRetained
PrunesBeyond ==
  /\ \A c \in Clients : cpc[c] = "prune_remove" => Beyond(clist[c])
  /\ mpc \in {"open_remove", "prune_remove"} => Beyond(mlist)

\* A larger directory has at least as many files.
LEMMA MoreFiles ==
  ASSUME NEW S, NEW T, S \subseteq T, T \subseteq Jobs
  PROVE  Cardinality(S) \in Nat /\ Cardinality(T) \in Nat /\ Cardinality(S) <= Cardinality(T)
<1>1. IsFiniteSet(Jobs)
  BY LimitsAssumption, FS_Interval DEF Jobs, LimitsAssumption
<1>2. IsFiniteSet(T)
  BY <1>1, FS_Subset
<1>3. IsFiniteSet(S) /\ Cardinality(S) <= Cardinality(T)
  BY <1>2, FS_Subset
<1> QED BY <1>2, <1>3, FS_CardinalityType

\* The steps that remove no file of terminal/.
LEMMA BeyondGrows ==
  ASSUME NEW S, Beyond(S), Present(terminal) \subseteq Present(terminal)'
  PROVE  \A i \in S : Cardinality(Newer(i)') >= MaxRetained
<1> SUFFICES ASSUME NEW i \in S PROVE Cardinality(Newer(i)') >= MaxRetained
  OBVIOUS
<1>1. Newer(i) \subseteq Newer(i)' /\ Newer(i)' \subseteq Jobs
  BY DEF Newer, Present
<1>2. Cardinality(Newer(i)) >= MaxRetained
  BY DEF Beyond
<1>3. Cardinality(Newer(i)) \in Nat /\ Cardinality(Newer(i)') \in Nat
      /\ Cardinality(Newer(i)) <= Cardinality(Newer(i)')
  BY <1>1, MoreFiles
<1> QED BY <1>2, <1>3, LimitsAssumption DEF LimitsAssumption

\* The removal of a file that is beyond the limit: what is newer than it stays,
\* and is newer than all that is older.
LEMMA BeyondStays ==
  ASSUME NEW S, S \subseteq Jobs, Beyond(S), NEW T, T \subseteq Jobs, T # {}, Beyond(T),
         TypeOK, RemoveOldest(T)
  PROVE  /\ \A i \in S : Cardinality(Newer(i)') >= MaxRetained
         /\ Cardinality(Present(terminal)') >= MaxRetained
<1> DEFINE k == Oldest(T)
<1>1. k \in T /\ k \in Jobs
  BY OldestInListing
<1> HIDE DEF k
<1>2. Jobs \subseteq Int
  BY DEF Jobs
<1>3. \A i \in Jobs : i # k => terminal'[i] = terminal[i]
  BY <1>1 DEF RemoveOldest, TypeOK, k
<1>4. Newer(k) \subseteq Present(terminal)' /\ Newer(k) = Newer(k)'
  <2>1. terminal'[k] = None
    BY <1>1 DEF RemoveOldest, TypeOK, k
  <2>2. \A x \in Jobs : x > k => x # k
    BY <1>1, <1>2
  <2> QED BY <1>1, <1>3, <2>1, <2>2 DEF Newer, Present
<1>5. Cardinality(Newer(k)) >= MaxRetained
  BY <1>1 DEF Beyond
<1>6. ASSUME NEW N, Newer(k) \subseteq N, N \subseteq Jobs PROVE Cardinality(N) >= MaxRetained
  <2>1. /\ Cardinality(Newer(k)) \in Nat /\ Cardinality(N) \in Nat
        /\ Cardinality(Newer(k)) <= Cardinality(N)
    BY <1>6, MoreFiles
  <2> QED BY <1>5, <2>1, LimitsAssumption DEF LimitsAssumption
<1>7. ASSUME NEW i \in S PROVE Cardinality(Newer(i)') >= MaxRetained
  <2>1. i \in Int /\ k \in Int /\ Newer(i)' \subseteq Jobs
    BY <1>1, <1>2, <1>7 DEF Newer, Present
  <2>2. CASE i < k
    <3>1. \A x \in Jobs : x > k => x > i
      BY <1>2, <2>1, <2>2
    <3>2. Newer(k)' \subseteq Newer(i)'
      BY <3>1 DEF Newer, Present
    <3> QED BY <1>4, <1>6, <2>1, <3>2
  <2>3. CASE i >= k
    <3>1. \A x \in Jobs : x > i => x # k
      BY <1>2, <2>1, <2>3
    <3>2. Newer(i) = Newer(i)'
      BY <1>3, <3>1 DEF Newer, Present
    <3> QED BY <1>7, <3>2 DEF Beyond
  <2> QED BY <2>1, <2>2, <2>3
<1>8. Present(terminal)' \subseteq Jobs
  BY DEF Present
<1> QED BY <1>4, <1>6, <1>7, <1>8 DEF Beyond

\* What prune_terminal lists is beyond the limit.
LEMMA VictimsBeyond == Beyond(Victims) /\ Victims \subseteq Jobs
  BY DEF Beyond, Victims, Newer, Present

\* The steps of prune_terminal: a listing, or a removal that a prune has listed.
PruneStep ==
  \/ \E c \in Clients : ClientStep(c) /\ (SubmitPrune(c) \/ SubmitPruneRemove(c))
  \/ MainStep /\ (MainPrune \/ MainPruneRemove)

LEMMA OnlyPrunesRemove ==
  ASSUME IInv, Next, ~PruneStep
  PROVE  Present(terminal) \subseteq Present(terminal)'
<1> USE DEF IInv, TypeOK, Present, files, disk
<1>1. ASSUME NEW c \in Clients, Call(c) \/ ClientStep(c)
      PROVE  Present(terminal) \subseteq Present(terminal)'
  <2>1. cpc[c] \in {"submit_hit", "cancel_write"} => crec[c] # None
    BY NoneAssumption DEF LocalsDefined
  <2>2. CASE SubmitHit(c) \/ CancelRename(c) \/ CancelWrite(c)
    BY <2>1, <2>2 DEF SubmitHit, CancelRename, CancelWrite
  <2>3. CASE ~(SubmitHit(c) \/ CancelRename(c) \/ CancelWrite(c))
    <3>1. terminal' = terminal
      BY <1>1, <2>3 DEF PruneStep, Call, ClientStep, SubmitCheck, CancelCheck, SubmitLookup,
         SubmitQueue, CancelRenameMissed, CancelRead, CancelMark, CancelSignal, GetLook,
         GetRead, CancelUnmark, shared
    <3> QED BY <3>1
  <2> QED BY <2>2, <2>3
<1>2. ASSUME NEW w \in Workers, WorkerStep(w)
      PROVE  Present(terminal) \subseteq Present(terminal)'
  <2>1. CASE Finish(w)
    <3>1. running[wjob[w]] # None
      BY <2>1 DEF Finish, ClaimsHeld, Owns, Claiming, InRunning, LocalsDefined
    <3> QED BY <2>1, <3>1 DEF Finish
  <2>2. CASE ~Finish(w)
    <3>1. terminal' = terminal
      BY <1>2, <2>2 DEF WorkerStep, ClaimScan, ClaimRename, ClaimRenameMissed, ClaimWrite,
         LookupHit, LookupMiss, Register, CheckMarker, Execute, Unregister, DecideCancelled,
         DecideOutcome, WriteCache, Publish, Requeue, Unmark
    <3> QED BY <3>1
  <2> QED BY <2>1, <2>2
<1>3. CASE MainStep
  <2>1. terminal' = terminal
    BY <1>3 DEF PruneStep, MainStep, Drain, Open, Prune, StartDrain, DrainJoin, OpenList,
       RecoverWrite, RecoverMove
  <2> QED BY <2>1
<1>4. CASE Crash
  BY <1>4 DEF Crash
<1> QED BY <1>1, <1>2, <1>3, <1>4 DEF Next

LEMMA PruneInit == Init => PrunesBeyond
  BY DEF Init, PrunesBeyond

\* A removal leaves the limit, and the listings of the other prunes beyond it.
LEMMA StepPrunes ==
  ASSUME IInv, PrunesBeyond, Next
  PROVE  /\ PrunesBeyond'
         /\ \A j \in Jobs : (InTerminal(j) /\ ~InTerminal(j)') =>
              Cardinality(Present(terminal)') >= MaxRetained
<1> USE DEF IInv, TypeOK
<1>1. CASE ~PruneStep
  <2>1. Present(terminal) \subseteq Present(terminal)'
    BY <1>1, OnlyPrunesRemove
  <2>2. PrunesBeyond'
    <3>1. ASSUME NEW c \in Clients, cpc'[c] = "prune_remove"
          PROVE  cpc[c] = "prune_remove" /\ clist'[c] = clist[c]
      <4>1. ASSUME NEW d \in Clients, Call(d) \/ ClientStep(d)
            PROVE  cpc[c] = "prune_remove" /\ clist'[c] = clist[c]
        BY <1>1, <3>1, <4>1 DEF PruneStep, Call, ClientStep, ClientAt, ClientReturns,
           SubmitCheck, CancelCheck, SubmitLookup, SubmitQueue, SubmitHit, CancelRename,
           CancelRenameMissed, CancelRead, CancelWrite, CancelMark, CancelSignal, GetLook,
           GetRead, CancelUnmark
      <4>2. ASSUME UNCHANGED cvars
            PROVE  cpc[c] = "prune_remove" /\ clist'[c] = clist[c]
        BY <3>1, <4>2 DEF cvars
      <4>3. ~Crash
        BY <3>1 DEF Crash
      <4> QED BY <4>1, <4>2, <4>3 DEF Next, WorkerStep, MainStep
    <3>2. mpc' \in {"open_remove", "prune_remove"} => mpc' = mpc /\ mlist' = mlist
      BY <1>1 DEF PruneStep, Next, Call, ClientStep, WorkerStep, MainStep, Crash, Drain, Open,
         Prune, StartDrain, DrainJoin, OpenList, RecoverWrite, RecoverMove, mvars
    <3> QED BY <2>1, <3>1, <3>2, BeyondGrows DEF PrunesBeyond, Beyond
  <2> QED BY <2>1, <2>2 DEF Present, InTerminal
<1>2. ASSUME UNCHANGED terminal
      PROVE  \A S : Beyond(S) => \A i \in S : Cardinality(Newer(i)') >= MaxRetained
  BY <1>2 DEF Beyond, Newer, Present
<1>3. ASSUME NEW T, T \subseteq Jobs, T # {}, Beyond(T), RemoveOldest(T)
      PROVE  /\ \A S : S \subseteq Jobs /\ Beyond(S) =>
                         \A i \in S : Cardinality(Newer(i)') >= MaxRetained
             /\ Cardinality(Present(terminal)') >= MaxRetained
  BY <1>3, BeyondStays
<1>4. ASSUME NEW c \in Clients, SubmitPrune(c), ClientStep(c)
      PROVE  PrunesBeyond' /\ terminal' = terminal
  <2>1. terminal' = terminal /\ UNCHANGED mvars
    BY <1>4 DEF SubmitPrune, ClientStep, shared
  <2>2. \A i \in Victims : Cardinality(Newer(i)') >= MaxRetained
    BY <1>2, <2>1, VictimsBeyond
  <2>3. /\ clist'[c] = Victims
        /\ \A d \in Clients \ {c} : cpc'[d] = cpc[d] /\ clist'[d] = clist[d]
    BY <1>4 DEF SubmitPrune
  <2> QED BY <1>2, <2>1, <2>2, <2>3 DEF PrunesBeyond, Beyond, mvars
<1>5. ASSUME NEW c \in Clients, SubmitPruneRemove(c), ClientStep(c)
      PROVE  PrunesBeyond' /\ Cardinality(Present(terminal)') >= MaxRetained
  <2>1. /\ clist[c] \subseteq Jobs /\ clist[c] # {} /\ Beyond(clist[c]) /\ RemoveOldest(clist[c])
    BY <1>5 DEF SubmitPruneRemove, LocalsDefined, PrunesBeyond
  <2>2. /\ clist'[c] \subseteq clist[c] /\ UNCHANGED mvars
        /\ \A d \in Clients \ {c} : cpc'[d] = cpc[d] /\ clist'[d] = clist[d]
    BY <1>5 DEF SubmitPruneRemove, StillToRemove, ClientStep
  <2> QED BY <1>3, <1>5, <2>1, <2>2 DEF PrunesBeyond, Beyond, mvars, SubmitPruneRemove
<1>6. CASE MainStep /\ MainPrune
  <2>1. terminal' = terminal /\ UNCHANGED cvars /\ mlist' = Victims
    BY <1>6 DEF MainPrune, MainStep, files
  <2>2. \A i \in Victims : Cardinality(Newer(i)') >= MaxRetained
    BY <1>2, <2>1, VictimsBeyond
  <2>3. PrunesBeyond'
    BY <1>2, <2>1, <2>2 DEF PrunesBeyond, Beyond, cvars
  <2> QED BY <2>1, <2>3 DEF InTerminal
<1>7. CASE MainStep /\ MainPruneRemove
  <2>1. mlist \subseteq Jobs /\ mlist # {} /\ Beyond(mlist) /\ RemoveOldest(mlist)
    BY <1>7 DEF MainPruneRemove, LocalsDefined, PrunesBeyond
  <2>2. mlist' \subseteq mlist /\ UNCHANGED cvars
    BY <1>7 DEF MainPruneRemove, StillToRemove, MainStep
  <2> QED BY <1>3, <2>1, <2>2 DEF PrunesBeyond, Beyond, cvars
<1> QED BY <1>1, <1>4, <1>5, <1>6, <1>7 DEF PruneStep, InTerminal

LEMMA PruneInvariant == Spec => [](IInv /\ PrunesBeyond)
<1>1. PrunesBeyond /\ UNCHANGED vars => PrunesBeyond'
  BY DEF vars, disk, files, cvars, mvars, PrunesBeyond, Beyond, Newer, Present
<1>2. IInv /\ PrunesBeyond /\ [Next]_vars => (IInv /\ PrunesBeyond)'
  BY <1>1, StepInv, StepPrunes
<1> QED BY <1>2, InitInv, PruneInit, PTL DEF Spec

-----------------------------------------------------------------------------
(* The theorems *)

\* Every file and every local variable holds what its type in the code says.
THEOREM TypeCorrect == Spec => []TypeOK
BY Invariant, PTL DEF IInv

\* No job ever has a file in two of queue/, running/ and terminal/, although the
\* renames of callers, workers and recovery interleave and any of them can be cut
\* short by a crash.
THEOREM FilesExclusive == Spec => []OneFilePerJob
BY Invariant, PTL DEF IInv

\* A rename is enough of a lock: the worker that renamed a job into running/ is
\* its only owner until it moves it on, and its file is there all the time.
THEOREM ClaimsExclusive == Spec => []ExclusiveClaim
<1>1. IInv => ExclusiveClaim
  BY DEF IInv, LocalsDefined, ClaimsHeld, ExclusiveClaim, Owns, Claiming
<1> QED BY <1>1, Invariant, PTL

\* The branch of recover_incomplete that gives up is dead code: open() never
\* finds a job in queue/ and in running/ at once.
THEOREM RecoveryNeverConflicts == Spec => []NoRecoveryConflict
BY Invariant, PTL DEF IInv

\* However many prunes work from listings of different ages, a removal leaves at
\* least max_retained_terminal_jobs records.
THEOREM PruneRetains == Spec => PruneKeepsRetained
<1>1. IInv /\ PrunesBeyond /\ [Next]_vars =>
        [\A j \in Jobs : (InTerminal(j) /\ ~InTerminal(j)') =>
           Cardinality(Present(terminal)') >= MaxRetained]_vars
  BY StepPrunes
<1> QED BY <1>1, PruneInvariant, PTL DEF Spec, PruneKeepsRetained

============================================================================
