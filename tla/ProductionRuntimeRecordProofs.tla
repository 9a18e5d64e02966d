------------------ MODULE ProductionRuntimeRecordProofs ------------------
(***************************************************************************)
(* Theorems about the contents of the files of ProductionRuntime: what     *)
(* ProductionRuntimeProofs says about where the files are is taken from    *)
(* there (IInv), what the records in them say is added here (RecordInv).   *)
(*                                                                         *)
(* A record is sound if its fields fit together, a success is cached and   *)
(* its attempts are within the limit; it is claimable if claim_next may    *)
(* count one more attempt.  The first section says what each update of a   *)
(* record in the code makes of the two; afterwards they are opaque.        *)
(*                                                                         *)
(* With RunsShown (until its end is published, running/ shows the run of   *)
(* the worker that owns it) and CallersShow (what the callers are about to *)
(* write) the two are LifeInv, under which every step of the file protocol *)
(* is a step of JobLifecycle; what a caller sees of an ended job and what  *)
(* drain() leaves follow from it too.                                      *)
(***************************************************************************)
EXTENDS ProductionRuntimeProofs, MCProductionRuntime

-----------------------------------------------------------------------------
(* Records *)

Sound(r, cached, n) ==
  /\ Coherent(r)
  /\ r.status = "succeeded" => r.key \in cached
  /\ r.attempts <= MaxAttempts + n

Claimable(r, n) ==
  /\ r.status = "queued" /\ r.result = FALSE
  /\ r.attempts < MaxAttempts + n

\* More cached results and more crashes only make more records sound.
LEMMA SoundMonotone ==
  ASSUME NEW r \in Record, NEW m \in Nat, NEW n \in Nat, m <= n, NEW C, NEW D, C \subseteq D
  PROVE  /\ Sound(r, C, m) => Sound(r, D, n)
         /\ Claimable(r, m) => Claimable(r, n)
  BY LimitsAssumption DEF Sound, Claimable, Record, LimitsAssumption

LEMMA ClaimableIsSound ==
  ASSUME NEW r \in Record, NEW n \in Nat, NEW C, Claimable(r, n)
  PROVE  Sound(r, C, n)
  BY LimitsAssumption DEF Sound, Claimable, Coherent, Record, LimitsAssumption

\* submit
LEMMA NewRecordIsClaimable ==
  ASSUME NEW k \in Keys, NEW n \in Nat
  PROVE  Claimable(NewRecord(k), n)
  BY LimitsAssumption DEF Claimable, NewRecord, LimitsAssumption

\* a cache hit and the end of a successful run
LEMMA SucceededIsSound ==
  ASSUME NEW r \in Record, NEW n \in Nat, NEW C, Sound(r, C, n), r.key \in C
  PROVE  Sound(Succeeded(r), C, n) /\ Succeeded(r).status = "succeeded"
  BY DEF Sound, Coherent, Succeeded, Record

LEMMA CancelledIsSound ==
  ASSUME NEW r \in Record, NEW n \in Nat, NEW C, Sound(r, C, n)
  PROVE  Sound(Cancelled(r), C, n) /\ Cancelled(r).status = "cancelled"
  BY DEF Sound, Coherent, Cancelled, Record

\* claim_next
LEMMA ClaimedIsSound ==
  ASSUME NEW r \in Record, NEW n \in Nat, NEW C, Claimable(r, n)
  PROVE  LET s == [r EXCEPT !.status = "running", !.error = FALSE, !.attempts = @ + 1]
         IN  Sound(s, C, n) /\ s.status = "running"
<1> DEFINE a == r.attempts + 1
           s == [r EXCEPT !.status = "running", !.error = FALSE, !.attempts = a]
<1>1. a <= MaxAttempts + n
  BY LimitsAssumption DEF Claimable, Record, LimitsAssumption
<1> HIDE DEF a
<1>2. /\ s.status = "running" /\ s.error = FALSE /\ s.attempts = a
      /\ s.result = r.result /\ s.key = r.key
  BY DEF Record
<1>3. r.result = FALSE
  BY DEF Claimable
<1> HIDE DEF s
<1>4. Sound(s, C, n) /\ s.status = "running"
  BY <1>1, <1>2, <1>3 DEF Sound, Coherent
<1> QED BY <1>4 DEF s, a

\* the three ends of a run without a result
LEMMA EndedIsSound ==
  ASSUME NEW r \in Record, NEW n \in Nat, NEW C, Sound(r, C, n), r.status = "running"
  PROVE  /\ r.attempts < MaxAttempts =>
              Claimable([r EXCEPT !.status = "queued", !.error = TRUE], n)
         /\ Sound([r EXCEPT !.status = "cancelled", !.error = FALSE], C, n)
         /\ Sound([r EXCEPT !.status = "failed", !.error = TRUE], C, n)
<1>1. /\ r.result = FALSE /\ r.attempts \in Nat /\ r.attempts <= MaxAttempts + n
      /\ MaxAttempts \in Nat
  BY LimitsAssumption DEF Sound, Coherent, Record, LimitsAssumption
<1>2. ASSUME NEW t \in {"queued", "cancelled", "failed"}, NEW e \in BOOLEAN
      PROVE  LET s == [r EXCEPT !.status = t, !.error = e]
             IN  s.status = t /\ s.error = e /\ s.result = FALSE /\ s.attempts = r.attempts
  BY <1>1 DEF Record
<1> QED BY <1>1, <1>2 DEF Sound, Coherent, Claimable

\* recover_incomplete
LEMMA RecoveredIsClaimable ==
  ASSUME NEW r \in Record, NEW n \in Nat, r.attempts < MaxAttempts + n
  PROVE  Claimable([r EXCEPT !.status = "queued", !.result = FALSE], n)
  BY DEF Claimable, Record

LEMMA SoundBeforeCrash ==
  ASSUME NEW r \in Record, NEW n \in Nat, NEW C, Sound(r, C, n)
  PROVE  r.attempts < MaxAttempts + (n + 1)
  BY LimitsAssumption DEF Sound, Record, LimitsAssumption

-----------------------------------------------------------------------------
(* The inductive invariant *)

\* What is in queue/ can be claimed, what is elsewhere is sound.
FilesSound ==
  \A j \in Jobs :
    /\ queue[j] # None => Claimable(queue[j], crashes)
    /\ running[j] # None => Sound(running[j], cache, crashes)
    /\ terminal[j] # None => Sound(terminal[j], cache, crashes)

\* The local record of a worker: it runs, then it is settled or to be requeued,
\* then it is what running/ says.
RunningPC == {"lookup", "register", "check", "execute", "unregister", "decide", "store"}
WorkerSound(w) ==
  /\ wpc[w] = "claimed" => Claimable(running[wjob[w]], crashes)
  /\ wpc[w] \in RunningPC => wrec[w].status = "running" /\ Sound(wrec[w], cache, crashes)
  /\ wpc[w] \in {"publish", "move"} =>
       /\ Sound(wrec[w], cache, crashes)
       /\ wrec[w].status = "queued" => Claimable(wrec[w], crashes)
  /\ wpc[w] = "move" => running[wjob[w]] = wrec[w]
WorkersSound == \A w \in Workers : WorkerSound(w)

\* The local record of a caller, and the record it has withdrawn alone.
WithdrawnBy(c, j) == cpc[c] \in {"cancel_read", "cancel_write"} /\ cjob[c] = j
ClientSound(c) ==
  /\ cpc[c] \in {"submit_lookup", "submit_queue"} => Claimable(crec[c], crashes)
  /\ cpc[c] \in {"submit_hit", "cancel_write"} => Sound(crec[c], cache, crashes)
  /\ \A j \in Jobs : WithdrawnBy(c, j) =>
       /\ terminal[j] # None => terminal[j].status = "queued"
       /\ \A d \in Clients \ {c} : ~WithdrawnBy(d, j)
ClientsSound == \A c \in Clients : ClientSound(c)

\* The crash that open() recovers from has given every running job an attempt.
RecoverySound ==
  /\ mpc \in {"down", "recover", "recover_move"} =>
       \A j \in Jobs : running[j] # None => running[j].attempts < MaxAttempts + crashes
  /\ mpc = "recover_move" => Claimable(running[Oldest(mlist)], crashes)

RecordInv == FilesSound /\ WorkersSound /\ ClientsSound /\ RecoverySound

LEMMA InitRecords == Init => RecordInv
  BY DEF Init, RecordInv, FilesSound, WorkersSound, WorkerSound, RunningPC, ClientsSound,
         ClientSound, WithdrawnBy, RecoverySound

-----------------------------------------------------------------------------
(* The steps of the callers *)

\* Callers do not touch what workers and recovery rely on.
LEMMA ClientKeeps ==
  ASSUME RecordInv, NEW c \in Clients, Call(c) \/ ClientStep(c)
  PROVE  WorkersSound' /\ RecoverySound'
<1>1. UNCHANGED <<running, cache, wvars, mvars, crashes>>
  BY DEF Call, ClientStep
<1>2. WorkersSound'
  BY <1>1 DEF RecordInv, WorkersSound, WorkerSound, wvars
<1>3. RecoverySound'
  BY <1>1 DEF RecordInv, RecoverySound, mvars
<1> QED BY <1>2, <1>3

LEMMA CallRecords ==
  ASSUME IInv, RecordInv, NEW c \in Clients, Call(c)
  PROVE  FilesSound' /\ ClientsSound'
<1> USE DEF IInv, TypeOK, RecordInv, Call, ClientAt, shared
<1>1. FilesSound'
  BY DEF FilesSound, SubmitCheck, CancelCheck
<1>2. ASSUME NEW k \in Keys, SubmitCheck(c, k) PROVE ClientsSound'
  <2>1. Claimable(NewRecord(k), crashes) /\ crashes \in Nat
    BY NewRecordIsClaimable, LimitsAssumption DEF LimitsAssumption
  <2> QED BY <1>2, <2>1 DEF SubmitCheck, ClientsSound, ClientSound, WithdrawnBy
<1>3. ASSUME NEW j \in Jobs, CancelCheck(c, j) PROVE ClientsSound'
  BY <1>3 DEF CancelCheck, ClientsSound, ClientSound, WithdrawnBy
<1> QED BY <1>1, <1>2, <1>3

LEMMA ClientRecords ==
  ASSUME IInv, RecordInv, NEW c \in Clients, ClientStep(c)
  PROVE  FilesSound' /\ ClientsSound'
<1> USE DEF IInv, TypeOK, RecordInv, ClientStep, ClientAt, ClientReturns, shared
<1>0. crashes \in Nat
  BY LimitsAssumption DEF LimitsAssumption
<1>1. CASE SubmitLookup(c)
  <2>1. crec[c] \in Record /\ Claimable(crec[c], crashes)
    BY <1>1 DEF SubmitLookup, LocalsDefined, ClientsSound, ClientSound
  <2>2. crec[c].key \in cache => Sound(Succeeded(crec[c]), cache, crashes)
    BY <1>0, <2>1, ClaimableIsSound, SucceededIsSound
  <2> QED BY <1>1, <2>1, <2>2
          DEF SubmitLookup, FilesSound, ClientsSound, ClientSound, WithdrawnBy
<1>2. CASE SubmitQueue(c)
  <2>1. cjob[c] \in Jobs /\ Claimable(crec[c], crashes)
    BY <1>2 DEF SubmitQueue, LocalsDefined, ClientsSound, ClientSound
  <2> QED BY <1>2, <2>1 DEF SubmitQueue, FilesSound, ClientsSound, ClientSound, WithdrawnBy
<1>3. CASE SubmitHit(c)
  <2>1. /\ cjob[c] \in Jobs /\ Sound(crec[c], cache, crashes)
        /\ \A d \in Clients : ~WithdrawnBy(d, cjob[c])
    BY <1>3 DEF SubmitHit, LocalsDefined, ClientsSound, ClientSound, WithdrawnForGood,
       Withdrawing, WithdrawnBy, Submitting
  <2>2. FilesSound'
    BY <1>3, <2>1 DEF SubmitHit, FilesSound
  <2>3. ClientsSound'
    BY <1>3, <2>1 DEF SubmitHit, ClientsSound, ClientSound, WithdrawnBy
  <2> QED BY <2>2, <2>3
<1>4. CASE SubmitPrune(c)
  BY <1>4 DEF SubmitPrune, FilesSound, ClientsSound, ClientSound, WithdrawnBy
<1>5. CASE SubmitPruneRemove(c)
  BY <1>5 DEF SubmitPruneRemove, RemoveOldest, FilesSound, ClientsSound, ClientSound, WithdrawnBy
<1>6. CASE CancelRename(c)
  <2> DEFINE j == cjob[c]
  <2>1. /\ j \in Jobs /\ queue[j] \in Record /\ Claimable(queue[j], crashes)
        /\ \A d \in Clients : ~WithdrawnBy(d, j)
    BY <1>6 DEF CancelRename, LocalsDefined, FilesSound, WithdrawnForGood, Withdrawing,
       WithdrawnBy, InQueue
  <2>2. Sound(queue[j], cache, crashes) /\ queue[j].status = "queued"
    BY <1>0, <2>1, ClaimableIsSound DEF Claimable
  <2>3. FilesSound'
    BY <1>6, <2>1, <2>2 DEF CancelRename, FilesSound
  <2>4. ClientsSound'
    BY <1>6, <2>1, <2>2 DEF CancelRename, ClientsSound, ClientSound, WithdrawnBy
  <2> QED BY <2>3, <2>4
<1>7. CASE CancelRenameMissed(c)
  BY <1>7 DEF CancelRenameMissed, FilesSound, ClientsSound, ClientSound, WithdrawnBy
<1>8. CASE CancelRead(c)
  <2> DEFINE j == cjob[c]
  <2>1. j \in Jobs
    BY <1>8 DEF CancelRead, LocalsDefined
  <2>2. terminal[j] # None => Sound(Cancelled(terminal[j]), cache, crashes)
    BY <1>0, <2>1, CancelledIsSound DEF FilesSound
  <2> HIDE DEF j
  <2>3. ClientsSound'
    BY <1>8, <2>2 DEF j, CancelRead, ClientsSound, ClientSound, WithdrawnBy
  <2> QED BY <1>8, <2>3 DEF CancelRead, FilesSound
<1>9. CASE CancelWrite(c)
  <2>1. /\ cjob[c] \in Jobs /\ Sound(crec[c], cache, crashes)
        /\ \A d \in Clients \ {c} : ~WithdrawnBy(d, cjob[c])
    BY <1>9 DEF CancelWrite, LocalsDefined, ClientsSound, ClientSound, WithdrawnBy
  <2>2. FilesSound'
    BY <1>9, <2>1 DEF CancelWrite, FilesSound
  <2>3. ClientsSound'
    BY <1>9, <2>1 DEF CancelWrite, ClientsSound, ClientSound, WithdrawnBy
  <2> QED BY <2>2, <2>3
<1>10. CASE CancelMark(c) \/ CancelSignal(c)
  BY <1>10 DEF CancelMark, CancelSignal, FilesSound, ClientsSound, ClientSound, WithdrawnBy
<1>11. CASE GetLook(c) \/ GetRead(c) \/ CancelUnmark(c)
  BY <1>11 DEF GetLook, GetRead, CancelUnmark, FilesSound, ClientsSound, ClientSound, WithdrawnBy
<1> QED BY <1>1, <1>2, <1>3, <1>4, <1>5, <1>6, <1>7, <1>8, <1>9, <1>10, <1>11

-----------------------------------------------------------------------------
(* The steps of the workers *)

\* A step that leaves the files of the other workers' jobs alone leaves them sound.
LEMMA OtherWorkers ==
  ASSUME IInv, RecordInv, NEW w \in Workers, NEW i,
         \A v \in Workers \ {w} : /\ wpc'[v] = wpc[v] /\ wjob'[v] = wjob[v]
                                  /\ wrec'[v] = wrec[v] /\ ~Owns(v, i),
         \A j \in Jobs \ {i} : running'[j] = running[j],
         cache \subseteq cache', crashes' = crashes
  PROVE  \A v \in Workers \ {w} : WorkerSound(v)'
<1> SUFFICES ASSUME NEW v \in Workers \ {w} PROVE WorkerSound(v)'
  OBVIOUS
<1>1. WorkerSound(v) /\ crashes \in Nat
  BY LimitsAssumption DEF RecordInv, WorkersSound, IInv, TypeOK, LimitsAssumption
<1>2. wpc[v] \in Claiming => wjob[v] \in Jobs /\ running'[wjob[v]] = running[wjob[v]]
  BY DEF IInv, LocalsDefined, Owns
<1>3. wpc[v] \in RunningPC \cup {"publish", "move"} =>
        (Sound(wrec[v], cache, crashes) => Sound(wrec[v], cache', crashes))
  BY <1>1, SoundMonotone DEF IInv, LocalsDefined, RunningPC, Claiming
<1> QED BY <1>1, <1>2, <1>3 DEF WorkerSound, RunningPC, Claiming

\* Callers and recovery are not disturbed by workers: a withdrawn job is not running.
LEMMA WorkerKeeps ==
  ASSUME IInv, RecordInv, NEW w \in Workers, WorkerStep(w)
  PROVE  ClientsSound' /\ RecoverySound'
<1>1. UNCHANGED <<cvars, mvars, crashes>> /\ crashes \in Nat
  BY LimitsAssumption DEF WorkerStep, IInv, TypeOK, LimitsAssumption
<1>2. mpc = "drain"
  BY DEF IInv, ClaimsHeld, WorkerStep, ClaimScan, ClaimRename, ClaimRenameMissed,
     ClaimWrite, LookupHit, LookupMiss, Register, CheckMarker, Execute, Unregister,
     DecideCancelled, DecideOutcome, WriteCache, Publish, Requeue, Finish, Unmark
<1>3. RecoverySound'
  BY <1>1, <1>2 DEF RecoverySound, mvars
<1>4. cache \subseteq cache'
  BY DEF WorkerStep, ClaimScan, ClaimRename, ClaimRenameMissed, ClaimWrite, LookupHit,
     LookupMiss, Register, CheckMarker, Execute, Unregister, DecideCancelled,
     DecideOutcome, WriteCache, Publish, Requeue, Finish, Unmark, disk, files
<1>5. ASSUME NEW c \in Clients, NEW j \in Jobs, WithdrawnBy(c, j)
      PROVE  terminal'[j] = terminal[j]
  <2>1. running[j] = None
    BY <1>5 DEF WithdrawnBy, IInv, WithdrawnForGood, Withdrawing, InRunning
  <2>2. CASE Finish(w)
    <3>1. wjob[w] # j
      BY <2>1, <2>2 DEF Finish, IInv, ClaimsHeld, Owns, Claiming, InRunning
    <3> QED BY <2>2, <3>1 DEF Finish, IInv, TypeOK
  <2>3. CASE ~Finish(w)
    BY <2>3 DEF WorkerStep, ClaimScan, ClaimRename, ClaimRenameMissed, ClaimWrite, LookupHit,
       LookupMiss, Register, CheckMarker, Execute, Unregister, DecideCancelled,
       DecideOutcome, WriteCache, Publish, Requeue, Unmark, disk, files
  <2> QED BY <2>2, <2>3
<1>6. ASSUME NEW c \in Clients PROVE ClientSound(c)'
  <2>1. ClientSound(c)
    BY DEF RecordInv, ClientsSound
  <2>2. cpc[c] \in {"submit_hit", "cancel_write"} =>
          (Sound(crec[c], cache, crashes) => Sound(crec[c], cache', crashes))
    BY <1>1, <1>4, SoundMonotone DEF IInv, LocalsDefined
  <2> QED BY <1>1, <1>5, <2>1, <2>2 DEF ClientSound, WithdrawnBy, cvars
<1> QED BY <1>3, <1>6 DEF ClientsSound

LEMMA WorkerRecords ==
  ASSUME IInv, RecordInv, NEW w \in Workers, WorkerStep(w)
  PROVE  FilesSound' /\ WorkersSound'
<1> USE DEF IInv, TypeOK, RecordInv, WorkerStep, WorkerAt, WorkerAgain, disk, files
<1>0. crashes \in Nat /\ crashes' = crashes
  BY LimitsAssumption DEF LimitsAssumption
<1>1. wpc[w] \in Claiming =>
        /\ wjob[w] \in Jobs /\ running[wjob[w]] \in Record
        /\ \A v \in Workers \ {w} : ~Owns(v, wjob[w])
        /\ wpc[w] # "claimed" => wrec[w] \in Record
  BY DEF LocalsDefined, ClaimsHeld, Owns, InRunning
<1>2. WorkerSound(w)
  BY DEF WorkersSound
<1>3. ASSUME NEW i, \A v \in Workers \ {w} : ~Owns(v, i), WorkerSound(w)',
             \A v \in Workers \ {w} : /\ wpc'[v] = wpc[v] /\ wjob'[v] = wjob[v]
                                      /\ wrec'[v] = wrec[v],
             \A j \in Jobs \ {i} : running'[j] = running[j],
             cache \subseteq cache'
      PROVE  WorkersSound'
  <2>1. \A v \in Workers \ {w} : WorkerSound(v)'
    BY <1>0, <1>3, OtherWorkers
  <2> QED BY <1>3, <2>1 DEF WorkersSound
<1>4. CASE ClaimScan(w) \/ ClaimRenameMissed(w)
  <2>1. FilesSound'
    BY <1>4 DEF ClaimScan, ClaimRenameMissed, FilesSound
  <2>2. WorkerSound(w)'
    BY <1>4 DEF ClaimScan, ClaimRenameMissed, WorkerSound, RunningPC
  <2>3. \A v \in Workers \ {w} : ~Owns(v, NoJob)
    BY DEF LocalsDefined, Owns, NoJob, Jobs
  <2> QED BY <1>3, <1>4, <2>1, <2>2, <2>3 DEF ClaimScan, ClaimRenameMissed
<1>5. CASE ClaimRename(w)
  <2> DEFINE j == Oldest(wlist[w])
  <2>1. j \in Jobs
    BY <1>5, OldestInListing DEF ClaimRename, LocalsDefined
  <2> HIDE DEF j
  <2>2. Claimable(queue[j], crashes) /\ queue[j] \in Record /\ running[j] = None
    BY <1>5, <2>1 DEF j, ClaimRename, FilesSound, OneFilePerJob, InQueue, InRunning
  <2>3. Sound(queue[j], cache, crashes)
    BY <1>0, <2>2, ClaimableIsSound
  <2>4. FilesSound'
    BY <1>5, <2>1, <2>2, <2>3 DEF j, ClaimRename, FilesSound
  <2>5. WorkerSound(w)'
    BY <1>5, <2>1, <2>2 DEF j, ClaimRename, WorkerSound, RunningPC
  <2>6. \A v \in Workers \ {w} : ~Owns(v, j)
    BY <2>1, <2>2 DEF ClaimsHeld, InRunning
  <2>7. \A i \in Jobs \ {j} : running'[i] = running[i]
    BY <1>5 DEF j, ClaimRename
  <2> QED BY <1>3, <1>5, <2>4, <2>5, <2>6, <2>7 DEF ClaimRename
<1>6. CASE ClaimWrite(w)
  <2> DEFINE j == wjob[w]
             r == [running[j] EXCEPT !.status = "running", !.error = FALSE,
                                     !.attempts = @ + 1]
  <2>1. Sound(r, cache, crashes) /\ r.status = "running"
    BY <1>0, <1>1, <1>2, <1>6, ClaimedIsSound DEF ClaimWrite, WorkerSound, Claiming
  <2>2. /\ running' = [running EXCEPT ![j] = r] /\ UNCHANGED <<queue, terminal, cache>>
        /\ WorkerAt(w, "lookup", j, r, "none")
    BY <1>6 DEF ClaimWrite
  <2> HIDE DEF r
  <2>3. FilesSound'
    BY <1>0, <1>1, <1>6, <2>1, <2>2 DEF FilesSound
  <2>4. WorkerSound(w)'
    BY <1>0, <2>1, <2>2 DEF WorkerSound, RunningPC
  <2>5. \A v \in Workers \ {w} : ~Owns(v, j)
    BY <1>1, <1>6 DEF ClaimWrite, Claiming
  <2> QED BY <1>3, <2>2, <2>3, <2>4, <2>5
\* Steps that only look and change their local record.
<1>7. ASSUME wpc[w] \in Claiming, UNCHANGED <<files, cache>>, WorkerSound(w)',
             \A v \in Workers \ {w} : /\ wpc'[v] = wpc[v] /\ wjob'[v] = wjob[v]
                                      /\ wrec'[v] = wrec[v]
      PROVE  FilesSound' /\ WorkersSound'
  <2>1. FilesSound'
    BY <1>0, <1>7 DEF FilesSound
  <2> QED BY <1>1, <1>3, <1>7, <2>1
<1>8. CASE LookupHit(w)
  <2>1. /\ Sound(Succeeded(wrec[w]), cache, crashes)
        /\ Succeeded(wrec[w]).status = "succeeded"
    BY <1>0, <1>1, <1>2, <1>8, SucceededIsSound
       DEF LookupHit, WorkerSound, RunningPC, Claiming
  <2>2. WorkerSound(w)'
    BY <1>0, <1>8, <2>1 DEF LookupHit, WorkerSound, RunningPC
  <2> QED BY <1>7, <1>8, <2>2 DEF LookupHit, Claiming
<1>9. CASE LookupMiss(w) \/ Register(w) \/ CheckMarker(w) \/ Execute(w) \/ Unregister(w)
  <2>1. WorkerSound(w)'
    BY <1>0, <1>2, <1>9
       DEF LookupMiss, Register, CheckMarker, Execute, Unregister, WorkerSound, RunningPC
  <2> QED BY <1>7, <1>9, <2>1
          DEF LookupMiss, Register, CheckMarker, Execute, Unregister, Claiming
<1>10. CASE DecideCancelled(w)
  <2>1. /\ Sound(Cancelled(wrec[w]), cache, crashes)
        /\ Cancelled(wrec[w]).status = "cancelled"
    BY <1>0, <1>1, <1>2, <1>10, CancelledIsSound
       DEF DecideCancelled, WorkerSound, RunningPC, Claiming
  <2>2. WorkerSound(w)'
    BY <1>0, <1>10, <2>1 DEF DecideCancelled, WorkerSound, RunningPC
  <2> QED BY <1>7, <1>10, <2>2 DEF DecideCancelled, Claiming
<1>11. CASE WriteCache(w)
  <2>1. /\ wrec[w] \in Record /\ Sound(wrec[w], cache', crashes)
        /\ wrec[w].key \in cache' /\ cache \subseteq cache'
    BY <1>0, <1>1, <1>2, <1>11, SoundMonotone DEF WriteCache, WorkerSound, RunningPC, Claiming
  <2>2. /\ Sound(Succeeded(wrec[w]), cache', crashes)
        /\ Succeeded(wrec[w]).status = "succeeded"
    BY <1>0, <2>1, SucceededIsSound
  <2>3. FilesSound'
    BY <1>0, <1>11, <2>1, SoundMonotone DEF WriteCache, FilesSound
  <2>4. WorkerSound(w)'
    BY <1>0, <1>11, <2>2 DEF WriteCache, WorkerSound, RunningPC
  <2>5. \A v \in Workers \ {w} : ~Owns(v, wjob[w])
    BY <1>1, <1>11 DEF WriteCache, Claiming
  <2> QED BY <1>3, <1>11, <2>1, <2>3, <2>4, <2>5 DEF WriteCache
<1>12. CASE Unmark(w)
  <2>1. FilesSound'
    BY <1>0, <1>12 DEF Unmark, FilesSound
  <2>2. WorkerSound(w)'
    BY <1>12 DEF Unmark, WorkerSound, RunningPC
  <2>3. \A v \in Workers \ {w} : ~Owns(v, NoJob)
    BY DEF LocalsDefined, Owns, NoJob, Jobs
  <2> QED BY <1>3, <1>12, <2>1, <2>2, <2>3 DEF Unmark
<1>13. CASE DecideOutcome(w)
  <2> DEFINE r == wrec[w]
             ended(t, e) == [r EXCEPT !.status = t, !.error = e]
  <2>1. r \in Record /\ Sound(r, cache, crashes) /\ r.status = "running"
    BY <1>1, <1>2, <1>13 DEF DecideOutcome, WorkerSound, RunningPC, Claiming
  <2>2. /\ MayRetry(w) => Claimable(ended("queued", TRUE), crashes)
        /\ Sound(ended("cancelled", FALSE), cache, crashes)
        /\ Sound(ended("failed", TRUE), cache, crashes)
        /\ \A t \in {"queued", "cancelled", "failed"}, e \in BOOLEAN :
             ended(t, e) \in Record /\ ended(t, e).status = t
    BY <1>0, <2>1, EndedIsSound DEF MayRetry, Record, Status, TerminalStatus
  <2>3. MayRetry(w) => Sound(ended("queued", TRUE), cache, crashes)
    BY <1>0, <2>2, ClaimableIsSound
  <2>4. \/ /\ wpc'[w] = "store" /\ wrec'[w] = r
        \/ /\ wpc'[w] = "publish"
           /\ \/ MayRetry(w) /\ wrec'[w] = ended("queued", TRUE)
              \/ wrec'[w] = ended("cancelled", FALSE)
              \/ wrec'[w] = ended("failed", TRUE)
    <3>1. wpc' = [wpc EXCEPT ![w] = IF wout[w] = "ok" THEN "store" ELSE "publish"]
      BY <1>13 DEF DecideOutcome
    <3>2. CASE wout[w] = "ok"
      BY <1>13, <3>1, <3>2 DEF DecideOutcome, MayRetry
    <3>3. CASE MayRetry(w)
      BY <1>13, <3>1, <3>3 DEF DecideOutcome, MayRetry
    <3>4. CASE wout[w] = "cancelled"
      BY <1>13, <3>1, <3>4 DEF DecideOutcome, MayRetry
    <3>5. CASE wout[w] \notin {"ok", "cancelled"} /\ ~MayRetry(w)
      BY <1>13, <3>1, <3>5 DEF DecideOutcome
    <3> QED BY <3>2, <3>3, <3>4, <3>5
  <2> HIDE DEF ended
  <2>5. WorkerSound(w)'
    BY <1>0, <1>13, <2>1, <2>2, <2>3, <2>4 DEF DecideOutcome, WorkerSound, RunningPC
  <2> QED BY <1>7, <1>13, <2>5 DEF DecideOutcome, Claiming
<1>14. CASE Publish(w)
  <2>1. /\ wjob[w] \in Jobs /\ Sound(wrec[w], cache, crashes)
        /\ \A v \in Workers \ {w} : ~Owns(v, wjob[w])
    BY <1>1, <1>2, <1>14 DEF Publish, WorkerSound, Claiming
  <2>2. FilesSound'
    BY <1>0, <1>14, <2>1 DEF Publish, FilesSound
  <2>3. WorkerSound(w)'
    BY <1>0, <1>2, <1>14, <2>1 DEF Publish, WorkerSound, RunningPC
  <2> QED BY <1>3, <1>14, <2>1, <2>2, <2>3 DEF Publish
<1>15. CASE Requeue(w) \/ Finish(w)
  <2>1. /\ wjob[w] \in Jobs /\ running[wjob[w]] = wrec[w]
        /\ Sound(wrec[w], cache, crashes)
        /\ wrec[w].status = "queued" => Claimable(wrec[w], crashes)
        /\ \A v \in Workers \ {w} : ~Owns(v, wjob[w])
    BY <1>1, <1>2, <1>15 DEF Requeue, Finish, WorkerSound, Claiming
  <2>2. FilesSound'
    BY <1>0, <1>15, <2>1 DEF Requeue, Finish, FilesSound
  <2>3. WorkerSound(w)'
    BY <1>15 DEF Requeue, Finish, WorkerSound, RunningPC
  <2>4. /\ \A v \in Workers \ {w} : /\ wpc'[v] = wpc[v] /\ wjob'[v] = wjob[v]
                                     /\ wrec'[v] = wrec[v]
        /\ \A j \in Jobs \ {wjob[w]} : running'[j] = running[j]
        /\ cache' = cache
    BY <1>15 DEF Requeue, Finish
  <2> QED BY <1>3, <2>1, <2>2, <2>3, <2>4
<1> QED BY <1>4, <1>5, <1>6, <1>8, <1>9, <1>10, <1>11, <1>12, <1>13, <1>14, <1>15

-----------------------------------------------------------------------------
(* The steps of open(), drain() and the crash *)

LEMMA MainRecords ==
  ASSUME IInv, RecordInv, MainStep
  PROVE  RecordInv'
<1> USE DEF IInv, TypeOK, RecordInv, MainStep, Drain, Open, Prune, files, wvars, cvars, memory
<1>0. crashes \in Nat /\ UNCHANGED <<cache, crashes, cvars>>
  BY LimitsAssumption DEF LimitsAssumption
<1>1. mpc \in {"recover", "recover_move"} =>
        /\ Oldest(mlist) \in Jobs /\ running[Oldest(mlist)] \in Record
        /\ \A w \in Workers : wpc[w] = "idle"
  BY OldestInListing DEF LocalsDefined, RecoveryListed, InRunning, ClaimsHeld
<1>2. CASE StartDrain \/ DrainJoin
  <2>1. FilesSound' /\ ClientsSound' /\ RecoverySound'
    BY <1>0, <1>2 DEF StartDrain, DrainJoin, FilesSound, ClientsSound, ClientSound,
       WithdrawnBy, RecoverySound
  <2>2. \A w \in Workers : wpc'[w] \in {"scan", "idle"}
    BY <1>2 DEF StartDrain, DrainJoin
  <2> QED BY <2>1, <2>2 DEF WorkersSound, WorkerSound, RunningPC
<1>3. CASE OpenList
  <2>1. FilesSound' /\ ClientsSound' /\ WorkersSound'
    BY <1>0, <1>3 DEF OpenList, FilesSound, ClientsSound, ClientSound, WithdrawnBy,
       WorkersSound, WorkerSound
  <2>2. RecoverySound'
    BY <1>0, <1>3 DEF OpenList, RecoverySound
  <2> QED BY <2>1, <2>2
<1>4. CASE RecoverWrite
  <2> DEFINE j == Oldest(mlist)
             r == [running[j] EXCEPT !.status = "queued", !.result = FALSE]
  <2>0. j \in Jobs /\ mpc = "recover" /\ mpc' \in {"recover_move", "conflict"}
    BY <1>1, <1>4 DEF RecoverWrite
  <2>1. running[j].attempts < MaxAttempts + crashes
    BY <1>1, <1>4, NoneAssumption DEF RecoverWrite, RecoverySound
  <2>2. Claimable(r, crashes) /\ r \in Record
    BY <1>0, <1>1, <1>4, <2>1, RecoveredIsClaimable, RecordUpdates DEF RecoverWrite, Status
  <2>3. Sound(r, cache, crashes) /\ r.attempts < MaxAttempts + crashes
    BY <1>0, <2>2, ClaimableIsSound DEF Claimable
  <2>4. running' = [running EXCEPT ![j] = r] /\ UNCHANGED <<queue, terminal, wvars, mlist>>
    BY <1>1, <1>4 DEF RecoverWrite
  <2> HIDE DEF r
  <2>5. FilesSound'
    BY <1>0, <2>0, <2>3, <2>4 DEF FilesSound
  <2>6. ClientsSound'
    BY <1>0, <2>4 DEF ClientsSound, ClientSound, WithdrawnBy
  <2>7. WorkersSound'
    BY <1>1, <1>4, <2>4 DEF RecoverWrite, WorkersSound, WorkerSound, RunningPC
  <2>8. RecoverySound'
    BY <1>0, <2>0, <2>2, <2>3, <2>4 DEF RecoverySound
  <2> QED BY <2>5, <2>6, <2>7, <2>8
<1>5. CASE RecoverMove
  <2> DEFINE j == Oldest(mlist)
  <2>1. j \in Jobs /\ Claimable(running[j], crashes)
    BY <1>1, <1>5 DEF RecoverMove, RecoverySound
  <2> HIDE DEF j
  <2>2. /\ queue' = [queue EXCEPT ![j] = running[j]]
        /\ running' = [running EXCEPT ![j] = None]
        /\ UNCHANGED <<terminal, wvars>> /\ mpc' \in {"open_prune", "recover"}
    BY <1>5 DEF j, RecoverMove
  <2>3. FilesSound'
    BY <1>0, <2>1, <2>2 DEF FilesSound
  <2>4. ClientsSound'
    BY <1>0, <2>2 DEF ClientsSound, ClientSound, WithdrawnBy
  <2>5. WorkersSound'
    BY <1>1, <1>5, <2>2 DEF RecoverMove, WorkersSound, WorkerSound, RunningPC
  <2>6. RecoverySound'
    BY <1>0, <1>5, <2>1, <2>2 DEF RecoverMove, RecoverySound
  <2> QED BY <2>3, <2>4, <2>5, <2>6
<1>6. CASE MainPrune \/ MainPruneRemove
  <2>1. /\ UNCHANGED <<queue, running, wvars>>
        /\ \A i \in Jobs : terminal'[i] \in {terminal[i], None}
        /\ mpc' \notin {"down", "recover", "recover_move"}
    BY <1>6 DEF MainPrune, MainPruneRemove, RemoveOldest
  <2>2. FilesSound' /\ ClientsSound'
    BY <1>0, <2>1 DEF FilesSound, ClientsSound, ClientSound, WithdrawnBy
  <2>3. WorkersSound' /\ RecoverySound'
    BY <1>0, <2>1 DEF WorkersSound, WorkerSound, RecoverySound
  <2> QED BY <2>2, <2>3
<1> QED BY <1>2, <1>3, <1>4, <1>5, <1>6

\* A crash costs the local variables and allows one more attempt.
LEMMA CrashRecords ==
  ASSUME IInv, RecordInv, Crash
  PROVE  RecordInv'
<1> USE DEF IInv, TypeOK, RecordInv, Crash, disk, files
<1>1. crashes \in Nat /\ crashes' = crashes + 1 /\ UNCHANGED <<files, cache>>
  BY LimitsAssumption DEF LimitsAssumption
<1>2. FilesSound'
  <2> SUFFICES ASSUME NEW j \in Jobs
               PROVE  /\ queue[j] # None => Claimable(queue[j], crashes + 1)
                      /\ running[j] # None => Sound(running[j], cache, crashes + 1)
                      /\ terminal[j] # None => Sound(terminal[j], cache, crashes + 1)
    BY <1>1 DEF FilesSound
  <2>1. \A r \in Record :
          /\ Sound(r, cache, crashes) => Sound(r, cache, crashes + 1)
          /\ Claimable(r, crashes) => Claimable(r, crashes + 1)
    <3>1. crashes + 1 \in Nat /\ crashes <= crashes + 1
      BY <1>1
    <3> QED BY <1>1, <3>1, SoundMonotone
  <2> QED BY <2>1 DEF FilesSound
<1>3. RecoverySound'
  <2>1. \A j \in Jobs : running[j] # None =>
          running[j].attempts < MaxAttempts + (crashes + 1)
    BY <1>1, SoundBeforeCrash DEF FilesSound
  <2> QED BY <1>1, <2>1 DEF RecoverySound
<1>4. WorkersSound' /\ ClientsSound'
  BY DEF WorkersSound, WorkerSound, RunningPC, ClientsSound, ClientSound, WithdrawnBy
<1> QED BY <1>2, <1>3, <1>4

LEMMA StepRecords == IInv /\ RecordInv /\ [Next]_vars => RecordInv'
<1> SUFFICES ASSUME IInv, RecordInv, [Next]_vars PROVE RecordInv'
  OBVIOUS
<1>1. ASSUME NEW c \in Clients, Call(c) \/ ClientStep(c) PROVE RecordInv'
  BY <1>1, ClientKeeps, CallRecords, ClientRecords DEF RecordInv
<1>2. ASSUME NEW w \in Workers, WorkerStep(w) PROVE RecordInv'
  BY <1>2, WorkerKeeps, WorkerRecords DEF RecordInv
<1>3. CASE UNCHANGED vars
  BY <1>3 DEF vars, disk, files, memory, wvars, cvars, mvars, RecordInv, FilesSound,
     WorkersSound, WorkerSound, ClientsSound, ClientSound, WithdrawnBy, RecoverySound
<1> QED BY <1>1, <1>2, <1>3, MainRecords, CrashRecords DEF Next

LEMMA RecordInvariant == Spec => [](IInv /\ RecordInv)
<1>1. IInv /\ RecordInv /\ [Next]_vars => (IInv /\ RecordInv)'
  BY StepInv, StepRecords
<1> QED BY <1>1, InitInv, InitRecords, PTL DEF Spec

-----------------------------------------------------------------------------
(* What is stored *)

\* Whatever is in a file is sound.
LEMMA StoredIsSound ==
  ASSUME IInv, RecordInv, NEW j \in Jobs, NEW r \in {queue[j], running[j], terminal[j]} \ {None}
  PROVE  Sound(r, cache, crashes)
<1>1. crashes \in Nat
  BY LimitsAssumption DEF IInv, TypeOK, LimitsAssumption
<1>2. queue[j] # None => Sound(queue[j], cache, crashes)
  BY <1>1, ClaimableIsSound DEF IInv, TypeOK, RecordInv, FilesSound
<1> QED BY <1>2 DEF RecordInv, FilesSound

\* No step rewrites a settled record or brings its job back to queue/ or running/.
LEMMA SettledStays ==
  ASSUME IInv, RecordInv, Next, NEW j \in Jobs,
         terminal[j] # None, terminal[j].status \in TerminalStatus
  PROVE  /\ terminal'[j] \in {terminal[j], None}
         /\ queue'[j] = None /\ running'[j] = None
<1> USE DEF IInv, TypeOK, files, disk
<1>1. queue[j] = None /\ running[j] = None
  BY DEF OneFilePerJob, InQueue, InRunning, InTerminal
<1>2. ASSUME NEW c \in Clients, Call(c) \/ ClientStep(c)
      PROVE  /\ terminal'[j] \in {terminal[j], None}
             /\ queue'[j] = None /\ running'[j] = None
  <2>1. ~Submitting(c, j)
    BY DEF IdsAreFresh, Nowhere, InTerminal
  <2>2. ~WithdrawnBy(c, j)
    BY DEF RecordInv, ClientsSound, ClientSound, TerminalStatus
  <2>3. running'[j] = None
    BY <1>1, <1>2 DEF Call, ClientStep
  <2>4. CASE Call(c)
    BY <1>1, <2>3, <2>4 DEF Call, SubmitCheck, CancelCheck, shared
  <2>5. CASE SubmitQueue(c) \/ SubmitHit(c) \/ CancelRename(c) \/ CancelWrite(c)
    BY <1>1, <2>1, <2>2, <2>3, <2>5 DEF SubmitQueue, SubmitHit, CancelRename, CancelWrite,
       Submitting, WithdrawnBy, LocalsDefined
  <2>6. CASE SubmitPruneRemove(c)
    BY <1>1, <2>3, <2>6 DEF SubmitPruneRemove, RemoveOldest
  <2>7. CASE \/ SubmitLookup(c) \/ SubmitPrune(c) \/ CancelRenameMissed(c) \/ CancelRead(c)
             \/ CancelMark(c) \/ CancelSignal(c) \/ GetLook(c) \/ GetRead(c) \/ CancelUnmark(c)
    BY <1>1, <2>3, <2>7 DEF SubmitLookup, SubmitPrune, CancelRenameMissed, CancelRead,
       CancelMark, CancelSignal, GetLook, GetRead, CancelUnmark, shared
  <2> QED BY <1>2, <2>4, <2>5, <2>6, <2>7 DEF ClientStep
<1>3. ASSUME NEW w \in Workers, WorkerStep(w)
      PROVE  /\ terminal'[j] \in {terminal[j], None}
             /\ queue'[j] = None /\ running'[j] = None
  <2>1. wpc[w] \in Claiming => wjob[w] # j
    BY <1>1 DEF ClaimsHeld, LocalsDefined, Owns, InRunning
  <2>2. CASE ClaimRename(w)
    BY <1>1, <2>2 DEF ClaimRename
  <2>3. CASE ClaimWrite(w) \/ Publish(w) \/ Requeue(w) \/ Finish(w)
    BY <1>1, <2>1, <2>3 DEF ClaimWrite, Publish, Requeue, Finish, Claiming
  <2>4. CASE ~(ClaimRename(w) \/ ClaimWrite(w) \/ Publish(w) \/ Requeue(w) \/ Finish(w))
    BY <1>1, <1>3, <2>4 DEF WorkerStep, ClaimScan, ClaimRenameMissed, LookupHit, LookupMiss,
       Register, CheckMarker, Execute, Unregister, DecideCancelled, DecideOutcome,
       WriteCache, Unmark
  <2> QED BY <2>2, <2>3, <2>4
<1>4. CASE MainStep
  <2>1. mpc \in {"recover", "recover_move"} => Oldest(mlist) # j
    BY <1>1, OldestInListing DEF LocalsDefined, RecoveryListed, InRunning
  <2>2. CASE RecoverWrite \/ RecoverMove
    BY <1>1, <2>1, <2>2 DEF RecoverWrite, RecoverMove
  <2>3. CASE StartDrain \/ DrainJoin \/ OpenList \/ MainPrune \/ MainPruneRemove
    BY <1>1, <2>3 DEF StartDrain, DrainJoin, OpenList, MainPrune, MainPruneRemove, RemoveOldest
  <2> QED BY <1>4, <2>2, <2>3 DEF MainStep, Drain, Open, Prune
<1>5. CASE Crash
  BY <1>1, <1>5 DEF Crash
<1> QED BY <1>2, <1>3, <1>4, <1>5 DEF Next

-----------------------------------------------------------------------------
(* Runs and their files *)

\* Until a worker publishes the end of its run, running/ shows the run; what it
\* publishes is an end, or a retry that the limit allows.
RunShown(w) ==
  /\ wpc[w] \in RunningPC \cup {"publish"} =>
       /\ running[wjob[w]].status = "running"
       /\ running[wjob[w]].attempts = wrec[w].attempts
       /\ running[wjob[w]].key = wrec[w].key
  /\ wpc[w] \in {"publish", "move"} =>
       /\ wrec[w].status \in TerminalStatus \cup {"queued"}
       /\ wrec[w].status = "queued" => wrec[w].attempts < MaxAttempts
RunsShown == \A w \in Workers : RunShown(w)

\* The records that callers are about to write.
CallersShow ==
  \A c \in Clients :
    /\ cpc[c] \in {"submit_lookup", "submit_queue"} => crec[c].attempts = 0
    /\ cpc[c] = "submit_hit" => crec[c].status = "succeeded"
    /\ cpc[c] = "cancel_write" => crec[c].status = "cancelled"

LEMMA ShownInit == Init => RunsShown /\ CallersShow
  BY DEF Init, RunsShown, RunShown, CallersShow, RunningPC

LEMMA CallerShows ==
  ASSUME IInv, CallersShow, NEW c \in Clients, Call(c) \/ ClientStep(c)
  PROVE  CallersShow'
<1> USE DEF IInv, TypeOK, ClientAt, ClientReturns, CallersShow
<1>1. ASSUME NEW k \in Keys, SubmitCheck(c, k) PROVE CallersShow'
  BY <1>1 DEF SubmitCheck, NewRecord
<1>2. ASSUME NEW j \in Jobs, CancelCheck(c, j) PROVE CallersShow'
  BY <1>2 DEF CancelCheck
<1>3. CASE SubmitLookup(c)
  <2>1. Succeeded(crec[c]).status = "succeeded"
    BY <1>3 DEF SubmitLookup, LocalsDefined, Succeeded, Record
  <2> QED BY <1>3, <2>1 DEF SubmitLookup
<1>4. CASE CancelRead(c)
  <2>1. terminal[cjob[c]] # None => Cancelled(terminal[cjob[c]]).status = "cancelled"
    BY <1>4 DEF CancelRead, LocalsDefined, Cancelled, Record
  <2> QED BY <1>4, <2>1 DEF CancelRead
<1>5. CASE SubmitQueue(c) \/ SubmitHit(c) \/ SubmitPrune(c) \/ SubmitPruneRemove(c)
  BY <1>5 DEF SubmitQueue, SubmitHit, SubmitPrune, SubmitPruneRemove
<1>6. CASE CancelRename(c) \/ CancelRenameMissed(c) \/ CancelWrite(c) \/ CancelMark(c)
  BY <1>6 DEF CancelRename, CancelRenameMissed, CancelWrite, CancelMark
<1>7. CASE CancelSignal(c) \/ GetLook(c) \/ GetRead(c) \/ CancelUnmark(c)
  BY <1>7 DEF CancelSignal, GetLook, GetRead, CancelUnmark
<1> QED BY <1>1, <1>2, <1>3, <1>4, <1>5, <1>6, <1>7 DEF Call, ClientStep

\* A step of one worker leaves the runs of the others shown.
LEMMA OthersShown ==
  ASSUME IInv, RunsShown, NEW w \in Workers, NEW i,
         \A v \in Workers \ {w} : /\ wpc'[v] = wpc[v] /\ wjob'[v] = wjob[v]
                                  /\ wrec'[v] = wrec[v] /\ ~Owns(v, i),
         \A j \in Jobs \ {i} : running'[j] = running[j],
         RunShown(w)'
  PROVE  RunsShown'
<1>1. ASSUME NEW v \in Workers \ {w} PROVE RunShown(v)'
  <2>1. wpc[v] \in Claiming => wjob[v] \in Jobs /\ running'[wjob[v]] = running[wjob[v]]
    BY DEF IInv, LocalsDefined, Owns
  <2>2. RunShown(v)
    BY DEF RunsShown
  <2> QED BY <2>1, <2>2 DEF RunShown, RunningPC, Claiming
<1> QED BY <1>1 DEF RunsShown

LEMMA WorkerShows ==
  ASSUME IInv, RecordInv, RunsShown, NEW w \in Workers, WorkerStep(w)
  PROVE  RunsShown'
<1> USE DEF IInv, TypeOK, WorkerStep, WorkerAt, WorkerAgain, Claiming, RunningPC, disk, files
<1>1. wpc[w] \in Claiming =>
        /\ wjob[w] \in Jobs /\ running[wjob[w]] \in Record
        /\ \A v \in Workers \ {w} : ~Owns(v, wjob[w])
        /\ wpc[w] # "claimed" => wrec[w] \in Record
  BY DEF LocalsDefined, ClaimsHeld, Owns, InRunning
<1>2. WorkerSound(w) /\ RunShown(w)
  BY DEF RecordInv, WorkersSound, RunsShown
<1>3. \A v \in Workers \ {w} : wpc'[v] = wpc[v] /\ wjob'[v] = wjob[v] /\ wrec'[v] = wrec[v]
  BY DEF ClaimScan, ClaimRename, ClaimRenameMissed, ClaimWrite, LookupHit, LookupMiss,
     Register, CheckMarker, Execute, Unregister, DecideCancelled, DecideOutcome, WriteCache,
     Publish, Requeue, Finish, Unmark
<1>4. CASE ClaimRename(w)
  <2> DEFINE j == Oldest(wlist[w])
  <2>1. j \in Jobs /\ \A v \in Workers : ~Owns(v, j)
    BY <1>4, OldestInListing DEF ClaimRename, LocalsDefined, ClaimsHeld, OneFilePerJob,
       InQueue, InRunning
  <2>2. \A i \in Jobs \ {j} : running'[i] = running[i]
    BY <1>4 DEF ClaimRename
  <2>3. RunShown(w)'
    BY <1>4 DEF ClaimRename, RunShown
  <2> HIDE DEF j
  <2> QED BY <1>3, <2>1, <2>2, <2>3, OthersShown
<1>5. CASE ClaimWrite(w)
  <2> DEFINE a == running[wjob[w]].attempts + 1
             r == [running[wjob[w]] EXCEPT !.status = "running", !.error = FALSE,
                                           !.attempts = a]
  <2>1. running' = [running EXCEPT ![wjob[w]] = r] /\ wrec'[w] = r /\ wpc'[w] = "lookup"
        /\ wjob'[w] = wjob[w]
    BY <1>1, <1>5 DEF ClaimWrite
  <2>2. r.status = "running"
    BY <1>1, <1>5 DEF ClaimWrite, Record
  <2> HIDE DEF r
  <2>3. RunShown(w)'
    BY <1>1, <1>5, <2>1, <2>2 DEF ClaimWrite, RunShown
  <2>4. \A j \in Jobs \ {wjob[w]} : running'[j] = running[j]
    BY <2>1
  <2> QED BY <1>1, <1>3, <1>5, <2>3, <2>4, OthersShown DEF ClaimWrite
<1>6. ASSUME running' = running, RunShown(w)' PROVE RunsShown'
  <2>1. \A v \in Workers \ {w} : ~Owns(v, NoJob)
    BY DEF LocalsDefined, Owns, Jobs, NoJob
  <2> QED BY <1>3, <1>6, <2>1, OthersShown
<1>7. CASE ClaimScan(w) \/ ClaimRenameMissed(w) \/ Unmark(w)
  <2>1. running' = running /\ RunShown(w)'
    BY <1>7 DEF ClaimScan, ClaimRenameMissed, Unmark, RunShown
  <2> QED BY <1>6, <2>1
<1>8. CASE LookupMiss(w) \/ Register(w) \/ CheckMarker(w) \/ Execute(w) \/ Unregister(w)
  <2>1. running' = running /\ wjob'[w] = wjob[w] /\ wrec'[w] = wrec[w]
    BY <1>8 DEF LookupMiss, Register, CheckMarker, Execute, Unregister
  <2>2. wpc[w] \in RunningPC /\ wpc'[w] \in RunningPC
    BY <1>8 DEF LookupMiss, Register, CheckMarker, Execute, Unregister
  <2>3. RunShown(w)'
    BY <1>2, <2>1, <2>2 DEF RunShown
  <2> QED BY <1>6, <2>1, <2>3
<1>9. CASE LookupHit(w) \/ WriteCache(w) \/ DecideCancelled(w)
  <2>1. /\ running' = running /\ wjob'[w] = wjob[w] /\ wpc'[w] = "publish"
        /\ wrec'[w] \in {Succeeded(wrec[w]), Cancelled(wrec[w])} /\ wpc[w] \in RunningPC
    BY <1>1, <1>9 DEF LookupHit, WriteCache, DecideCancelled
  <2>2. wrec'[w].status \in TerminalStatus /\ wrec'[w].attempts = wrec[w].attempts
        /\ wrec'[w].key = wrec[w].key
    BY <1>1, <2>1 DEF Succeeded, Cancelled, Record, TerminalStatus
  <2>3. RunShown(w)'
    BY <1>2, <2>1, <2>2 DEF RunShown, TerminalStatus
  <2> QED BY <1>6, <2>1, <2>3
<1>10. CASE DecideOutcome(w)
  <2>1. /\ running' = running /\ wjob'[w] = wjob[w] /\ wpc'[w] \in {"store", "publish"}
        /\ wpc[w] = "decide"
    BY <1>1, <1>10 DEF DecideOutcome
  <2>2. wrec'[w].attempts = wrec[w].attempts /\ wrec'[w].key = wrec[w].key
    BY <1>1, <1>10 DEF DecideOutcome, Record
  <2>3. wpc'[w] = "publish" =>
          /\ wrec'[w].status \in TerminalStatus \cup {"queued"}
          /\ wrec'[w].status = "queued" => wrec[w].attempts < MaxAttempts
    BY <1>1, <1>10 DEF DecideOutcome, MayRetry, Record, TerminalStatus
  <2>4. RunShown(w)'
    BY <1>2, <2>1, <2>2, <2>3 DEF RunShown
  <2> QED BY <1>6, <2>1, <2>4
<1>11. CASE Publish(w)
  <2>1. RunShown(w)'
    BY <1>2, <1>11 DEF Publish, RunShown
  <2>2. wpc[w] \in Claiming /\ \A j \in Jobs \ {wjob[w]} : running'[j] = running[j]
    BY <1>11 DEF Publish
  <2> QED BY <1>1, <1>3, <2>1, <2>2, OthersShown
<1>12. CASE Requeue(w) \/ Finish(w)
  <2>1. RunShown(w)'
    BY <1>12 DEF Requeue, Finish, RunShown
  <2>2. wpc[w] \in Claiming /\ \A j \in Jobs \ {wjob[w]} : running'[j] = running[j]
    BY <1>12 DEF Requeue, Finish
  <2> QED BY <1>1, <1>3, <2>1, <2>2, OthersShown
<1> QED BY <1>4, <1>5, <1>7, <1>8, <1>9, <1>10, <1>11, <1>12

LEMMA StepShows ==
  IInv /\ RecordInv /\ RunsShown /\ CallersShow /\ [Next]_vars => RunsShown' /\ CallersShow'
<1> SUFFICES ASSUME IInv, RecordInv, RunsShown, CallersShow, [Next]_vars
             PROVE  RunsShown' /\ CallersShow'
  OBVIOUS
<1>1. ASSUME NEW c \in Clients, Call(c) \/ ClientStep(c) PROVE RunsShown' /\ CallersShow'
  <2>1. RunsShown'
    BY <1>1 DEF Call, ClientStep, wvars, RunsShown, RunShown
  <2> QED BY <1>1, <2>1, CallerShows
<1>2. ASSUME NEW w \in Workers, WorkerStep(w) PROVE RunsShown' /\ CallersShow'
  <2>1. CallersShow'
    BY <1>2 DEF WorkerStep, cvars, CallersShow
  <2> QED BY <1>2, <2>1, WorkerShows
<1>3. CASE MainStep
  <2>1. CallersShow'
    BY <1>3 DEF MainStep, cvars, CallersShow
  <2>2. RunsShown'
    <3>1. \A w \in Workers : wpc'[w] \in RunningPC \cup {"publish", "move"} =>
            mpc = "drain" /\ UNCHANGED <<running, wvars>>
      BY <1>3 DEF MainStep, Drain, Open, Prune, StartDrain, DrainJoin, OpenList, RecoverWrite,
         RecoverMove, MainPrune, MainPruneRemove, IInv, TypeOK, ClaimsHeld, RunningPC, wvars, files
    <3> QED BY <3>1 DEF RunsShown, RunShown, wvars
  <2> QED BY <2>1, <2>2
<1>4. CASE Crash
  BY <1>4 DEF Crash, RunsShown, RunShown, CallersShow, RunningPC
<1>5. CASE UNCHANGED vars
  BY <1>5 DEF vars, disk, files, wvars, cvars, RunsShown, RunShown, CallersShow
<1> QED BY <1>1, <1>2, <1>3, <1>4, <1>5 DEF Next

-----------------------------------------------------------------------------
(* The refinement of JobLifecycle *)

LifeInv == /\ IInv /\ RecordInv
           /\ CallersUp /\ RunningOwned
           /\ RunsShown /\ CallersShow

LifeStep == Lifecycle!Next \/ UNCHANGED Lifecycle!vars

\* The abstract state of one job.
Entry(j) ==
  IF InQueue(j) THEN Lifecycle!Live("queued", queue[j].attempts, queue[j].key)
  ELSE IF InRunning(j)
  THEN Lifecycle!Live(IF running[j].status = "queued" THEN "queued" ELSE "running",
                      running[j].attempts, running[j].key)
  ELSE IF Withdrawing(j) THEN Lifecycle!Ended("withdrawn")
  ELSE IF ~InTerminal(j) THEN Lifecycle!Ended("absent")
  ELSE IF terminal[j].status \in TerminalStatus THEN Lifecycle!Ended(terminal[j].status)
  ELSE Lifecycle!Ended("stuck")

LEMMA JobEntries == AbstractJob = [j \in Jobs |-> Entry(j)]
  BY DEF AbstractJob, Entry, Lifecycle!Live, Lifecycle!Ended

LEMMA JobEntriesNext == AbstractJob' = [j \in Jobs |-> Entry(j)']
  BY DEF AbstractJob, Entry, Lifecycle!Live, Lifecycle!Ended

LEMMA EntryKept ==
  ASSUME NEW j, queue'[j] = queue[j], running'[j] = running[j], terminal'[j] = terminal[j],
         Withdrawing(j)' <=> Withdrawing(j)
  PROVE  Entry(j)' = Entry(j)
  BY DEF Entry, InQueue, InRunning, InTerminal

\* A step that keeps the state of every job, and one that changes one job's.
LEMMA LifeStutters ==
  ASSUME \A j \in Jobs : Entry(j)' = Entry(j), Recovered' = Recovered, cache' = cache
  PROVE  LifeStep
<1>1. AbstractJob' = AbstractJob
  BY JobEntries, JobEntriesNext
<1> QED BY <1>1 DEF LifeStep, Lifecycle!vars

LEMMA JobBecomes ==
  ASSUME NEW j \in Jobs, NEW r, Entry(j)' = r, \A i \in Jobs \ {j} : Entry(i)' = Entry(i)
  PROVE  Lifecycle!Become(j, r)
<1>1. AbstractJob' = [AbstractJob EXCEPT ![j] = r]
  BY JobEntries, JobEntriesNext
<1> QED BY <1>1 DEF Lifecycle!Become

LEMMA JobIs ==
  ASSUME NEW j \in Jobs
  PROVE  /\ AbstractJob[j] = Entry(j)
         /\ \A s : Lifecycle!Is(j, s) <=> Entry(j).state = s
  BY JobEntries DEF Lifecycle!Is

LEMMA LifeInit == Init => Lifecycle!Init
<1> SUFFICES ASSUME Init PROVE Lifecycle!Init
  OBVIOUS
<1>1. \A j \in Jobs : Entry(j) = Lifecycle!Ended("absent")
  BY DEF Init, Entry, InQueue, InRunning, InTerminal, Withdrawing
<1> QED BY <1>1, JobEntries DEF Init, Recovered, Lifecycle!Init

\* Removing a file from terminal/ forgets a settled job; it does nothing to one
\* whose cancellation is still being recorded, and nothing when it comes late.
LEMMA RemovalForgets ==
  ASSUME LifeInv, NEW T, T \subseteq Jobs, T # {}, RemoveOldest(T),
         UNCHANGED <<queue, running, cache>>, Recovered' = Recovered,
         \A j \in Jobs : Withdrawing(j)' <=> Withdrawing(j)
  PROVE  LifeStep
<1> USE DEF LifeInv, IInv, TypeOK
<1> DEFINE k == Oldest(T)
<1>1. k \in Jobs /\ terminal'[k] = None /\ \A i \in Jobs \ {k} : terminal'[i] = terminal[i]
  BY OldestInListing DEF RemoveOldest
<1> HIDE DEF k
<1>2. \A i \in Jobs \ {k} : Entry(i)' = Entry(i)
  BY <1>1, EntryKept
<1>3. CASE InQueue(k) \/ InRunning(k) \/ Withdrawing(k) \/ ~InTerminal(k)
  <2>1. Entry(k)' = Entry(k)
    BY <1>1, <1>3 DEF Entry, InQueue, InRunning, InTerminal
  <2> QED BY <1>2, <2>1, LifeStutters
<1>4. CASE ~InQueue(k) /\ ~InRunning(k) /\ ~Withdrawing(k) /\ InTerminal(k)
  <2>1. Entry(k).state \in TerminalStatus \cup {"stuck"}
    BY <1>4 DEF Entry, Lifecycle!Ended, Lifecycle!Live
  <2>2. Entry(k)' = Lifecycle!Ended("absent")
    BY <1>1, <1>4 DEF Entry, InQueue, InRunning, InTerminal
  <2>3. Lifecycle!Become(k, Lifecycle!Ended("absent"))
    BY <1>1, <1>2, <2>2, JobBecomes
  <2>4. Lifecycle!Forget(k)
    BY <1>1, <2>1, <2>3, JobIs DEF Lifecycle!Forget, Lifecycle!Final, TerminalStatus
  <2> QED BY <1>1, <2>4 DEF LifeStep, Lifecycle!Next
<1> QED BY <1>3, <1>4

\* A caller's step moves the files of its own job only.
LEMMA WithdrawingKept ==
  ASSUME NEW c \in Clients, TypeOK, cjob' \in [Clients -> Jobs \cup {NoJob}],
         \A d \in Clients \ {c} : cpc'[d] = cpc[d] /\ cjob'[d] = cjob[d],
         NEW j, WithdrawnBy(c, j)' <=> WithdrawnBy(c, j)
  PROVE  Withdrawing(j)' <=> Withdrawing(j)
  BY DEF Withdrawing, WithdrawnBy

LEMMA ClientLife ==
  ASSUME LifeInv, NEW c \in Clients, Call(c) \/ ClientStep(c)
  PROVE  LifeStep
<1> USE DEF LifeInv, IInv, TypeOK
<1>1. UNCHANGED <<running, cache>> /\ Recovered /\ Recovered'
  <2>1. UNCHANGED <<running, cache>>
    BY DEF Call, ClientStep
  <2> QED BY <2>1, ClientOwned
<1>2. \A d \in Clients \ {c} : cpc'[d] = cpc[d] /\ cjob'[d] = cjob[d]
  BY DEF Call, ClientStep, ClientAt, ClientReturns, SubmitCheck, CancelCheck, SubmitLookup,
     SubmitQueue, SubmitHit, SubmitPrune, SubmitPruneRemove, CancelRename, CancelRenameMissed,
     CancelRead, CancelWrite, CancelMark, CancelSignal, GetLook, GetRead, CancelUnmark
<1>3. cjob' \in [Clients -> Jobs \cup {NoJob}]
  BY CallType, ClientType
<1>4. ASSUME NEW j, WithdrawnBy(c, j)' <=> WithdrawnBy(c, j)
      PROVE  Withdrawing(j)' <=> Withdrawing(j)
  BY <1>2, <1>3, <1>4, WithdrawingKept
<1>5. ASSUME UNCHANGED <<queue, terminal>>, \A j \in Jobs : WithdrawnBy(c, j)' <=> WithdrawnBy(c, j)
      PROVE  LifeStep
  <2>1. \A j \in Jobs : Entry(j)' = Entry(j)
    BY <1>1, <1>4, <1>5, EntryKept
  <2> QED BY <1>1, <2>1, LifeStutters
<1>6. ASSUME NEW k \in Jobs, \A j \in Jobs \ {k} : /\ WithdrawnBy(c, j)' <=> WithdrawnBy(c, j)
                                                  /\ queue'[j] = queue[j] /\ terminal'[j] = terminal[j]
      PROVE  \A j \in Jobs \ {k} : Entry(j)' = Entry(j)
  BY <1>1, <1>4, <1>6, EntryKept
<1>7. CASE Call(c)
  <2>1. UNCHANGED <<queue, terminal>> /\ \A j \in Jobs : ~WithdrawnBy(c, j) /\ ~WithdrawnBy(c, j)'
    BY <1>7 DEF Call, SubmitCheck, CancelCheck, ClientAt, shared, WithdrawnBy
  <2> QED BY <1>5, <2>1
<1>8. CASE SubmitLookup(c) \/ SubmitPrune(c) \/ CancelRenameMissed(c) \/ CancelMark(c)
  <2>1. UNCHANGED <<queue, terminal>> /\ \A j \in Jobs : ~WithdrawnBy(c, j) /\ ~WithdrawnBy(c, j)'
    BY <1>8 DEF SubmitLookup, SubmitPrune, CancelRenameMissed, CancelMark, ClientAt, shared, WithdrawnBy
  <2> QED BY <1>5, <2>1
<1>9. CASE CancelSignal(c) \/ GetLook(c) \/ GetRead(c) \/ CancelUnmark(c)
  <2>1. UNCHANGED <<queue, terminal>> /\ \A j \in Jobs : ~WithdrawnBy(c, j) /\ ~WithdrawnBy(c, j)'
    BY <1>9 DEF CancelSignal, GetLook, GetRead, CancelUnmark, ClientAt, ClientReturns, shared, WithdrawnBy
  <2> QED BY <1>5, <2>1
<1>10. CASE SubmitQueue(c)
  <2>0. PICK k \in Jobs : k = cjob[c]
    BY <1>10 DEF SubmitQueue, LocalsDefined
  <2>1. /\ Nowhere(k) /\ ~Withdrawing(k)
        /\ crec[c] \in Record /\ crec[c].attempts = 0 /\ crec[c].key \in Keys
    BY <2>0, <1>10 DEF SubmitQueue, LocalsDefined, IdsAreFresh, Submitting, WithdrawnForGood,
       CallersShow, Record
  <2>2. Entry(k).state = "absent"
    BY <2>1 DEF Entry, Nowhere, Lifecycle!Ended, Lifecycle!Live
  <2>3. Entry(k)' = Lifecycle!Live("queued", 0, crec[c].key)
    BY <2>0, <1>10, <2>1, NoneAssumption DEF SubmitQueue, Entry, InQueue
  <2>4. \A j \in Jobs \ {k} : Entry(j)' = Entry(j)
    BY <1>6, <2>0, <1>10, <2>1 DEF SubmitQueue, ClientReturns, ClientAt, WithdrawnBy
  <2>5. Lifecycle!Become(k, Lifecycle!Live("queued", 0, crec[c].key))
    BY <2>1, <2>3, <2>4, JobBecomes
  <2>6. Lifecycle!Submit(k, crec[c].key)
    BY <1>1, <2>1, <2>2, <2>5, JobIs DEF Lifecycle!Submit
  <2> QED BY <2>1, <2>6 DEF LifeStep, Lifecycle!Next
<1>11. CASE SubmitHit(c)
  <2>0. PICK k \in Jobs : k = cjob[c]
    BY <1>11 DEF SubmitHit, LocalsDefined
  <2>1. /\ Nowhere(k) /\ ~Withdrawing(k)
        /\ crec[c] \in Record /\ crec[c].status = "succeeded" /\ crec[c].key \in Keys
        /\ crec[c].key \in cache
    BY <2>0, <1>11 DEF SubmitHit, LocalsDefined, IdsAreFresh, Submitting, WithdrawnForGood,
       CallersShow, Record, RecordInv, ClientsSound, ClientSound, Sound
  <2>2. Entry(k).state = "absent"
    BY <2>1 DEF Entry, Nowhere, Lifecycle!Ended, Lifecycle!Live
  <2>3. ~Withdrawing(k)'
    BY <1>2, <1>3, <2>0, <1>11, <2>1 DEF SubmitHit, ClientAt, Withdrawing, Jobs, NoJob
  <2>4. Entry(k)' = Lifecycle!Ended("succeeded")
    BY <1>1, <2>0, <1>11, <2>1, <2>3, NoneAssumption
       DEF SubmitHit, Entry, Nowhere, InQueue, InRunning, InTerminal, TerminalStatus
  <2>5. \A j \in Jobs \ {k} : Entry(j)' = Entry(j)
    BY <1>6, <2>0, <1>11, <2>1 DEF SubmitHit, ClientAt, WithdrawnBy
  <2>6. Lifecycle!Become(k, Lifecycle!Ended("succeeded"))
    BY <2>1, <2>4, <2>5, JobBecomes
  <2>7. Lifecycle!SubmitCached(k, crec[c].key)
    BY <1>1, <2>1, <2>2, <2>6, JobIs DEF Lifecycle!SubmitCached
  <2> QED BY <2>1, <2>7 DEF LifeStep, Lifecycle!Next
<1>12. CASE SubmitPruneRemove(c)
  <2>1. /\ clist[c] \subseteq Jobs /\ clist[c] # {} /\ RemoveOldest(clist[c])
        /\ queue' = queue /\ \A j \in Jobs : ~WithdrawnBy(c, j) /\ ~WithdrawnBy(c, j)'
    BY <1>12 DEF SubmitPruneRemove, LocalsDefined, WithdrawnBy
  <2> QED BY <1>1, <1>4, <2>1, RemovalForgets
<1>13. CASE CancelRename(c)
  <2>0. PICK k \in Jobs : k = cjob[c]
    BY <1>13 DEF CancelRename, LocalsDefined
  <2>1. /\ InQueue(k) /\ ~InRunning(k)
    BY <2>0, <1>13 DEF CancelRename, LocalsDefined, OneFilePerJob, InQueue
  <2>2. Entry(k).state = "queued"
    BY <2>1 DEF Entry, Lifecycle!Live
  <2>3. Withdrawing(k)' /\ ~InQueue(k)' /\ ~InRunning(k)'
    BY <1>1, <2>0, <1>13, <2>1 DEF CancelRename, ClientAt, Withdrawing, InQueue, InRunning
  <2>4. Entry(k)' = Lifecycle!Ended("withdrawn")
    BY <2>3 DEF Entry
  <2>5. \A j \in Jobs \ {k} : Entry(j)' = Entry(j)
    BY <1>6, <2>0, <1>13, <2>1 DEF CancelRename, ClientAt, WithdrawnBy
  <2>6. Lifecycle!Become(k, Lifecycle!Ended("withdrawn"))
    BY <2>1, <2>4, <2>5, JobBecomes
  <2>7. Lifecycle!Withdraw(k)
    BY <1>1, <2>1, <2>2, <2>6, JobIs DEF Lifecycle!Withdraw
  <2> QED BY <2>1, <2>7 DEF LifeStep, Lifecycle!Next
<1>14. CASE CancelRead(c)
  <2>1. CASE terminal[cjob[c]] # None
    <3>1. UNCHANGED <<queue, terminal>> /\ \A j \in Jobs : WithdrawnBy(c, j)' <=> WithdrawnBy(c, j)
      BY <1>14, <2>1 DEF CancelRead, ClientAt, shared, WithdrawnBy
    <3> QED BY <1>5, <3>1
  <2>2. CASE terminal[cjob[c]] = None
    <3>0. PICK k \in Jobs : k = cjob[c]
      BY <1>14 DEF CancelRead, LocalsDefined
    <3>1. /\ WithdrawnBy(c, k) /\ Withdrawing(k) /\ ~InQueue(k) /\ ~InRunning(k)
          /\ \A d \in Clients \ {c} : ~WithdrawnBy(d, k)
      BY <3>0, <1>14 DEF CancelRead, LocalsDefined, WithdrawnForGood, Withdrawing, WithdrawnBy,
         RecordInv, ClientsSound, ClientSound
    <3>2. Entry(k).state = "withdrawn"
      BY <3>1 DEF Entry, Lifecycle!Ended, Lifecycle!Live
    <3>3. UNCHANGED <<queue, terminal>> /\ \A j \in Jobs : ~WithdrawnBy(c, j)'
      BY <1>14, <2>2 DEF CancelRead, ClientAt, ClientReturns, shared, WithdrawnBy
    <3>4. ~Withdrawing(k)'
      BY <1>2, <3>1, <3>3 DEF Withdrawing, WithdrawnBy
    <3>5. Entry(k)' = Lifecycle!Ended("absent")
      BY <1>1, <2>2, <3>0, <3>1, <3>3, <3>4 DEF Entry, InQueue, InRunning, InTerminal
    <3>6. \A j \in Jobs \ {k} : Entry(j)' = Entry(j)
      BY <1>6, <3>1, <3>3 DEF WithdrawnBy
    <3>7. Lifecycle!Become(k, Lifecycle!Ended("absent"))
      BY <3>1, <3>5, <3>6, JobBecomes
    <3>8. Lifecycle!Record(k)
      BY <1>1, <3>1, <3>2, <3>7, JobIs DEF Lifecycle!Record
    <3> QED BY <3>1, <3>8 DEF LifeStep, Lifecycle!Next
  <2> QED BY <2>1, <2>2
<1>15. CASE CancelWrite(c)
  <2>0. PICK k \in Jobs : k = cjob[c]
    BY <1>15 DEF CancelWrite, LocalsDefined
  <2>1. /\ WithdrawnBy(c, k) /\ Withdrawing(k) /\ ~InQueue(k) /\ ~InRunning(k)
        /\ \A d \in Clients \ {c} : ~WithdrawnBy(d, k)
        /\ crec[c] \in Record /\ crec[c].status = "cancelled"
    BY <2>0, <1>15 DEF CancelWrite, LocalsDefined, WithdrawnForGood, Withdrawing, WithdrawnBy,
       RecordInv, ClientsSound, ClientSound, CallersShow
  <2>2. Entry(k).state = "withdrawn"
    BY <2>1 DEF Entry, Lifecycle!Ended, Lifecycle!Live
  <2>3. queue' = queue /\ terminal' = [terminal EXCEPT ![k] = crec[c]]
        /\ \A j \in Jobs : ~WithdrawnBy(c, j)'
    BY <2>0, <1>15 DEF CancelWrite, ClientAt, ClientReturns, WithdrawnBy
  <2>4. ~Withdrawing(k)'
    BY <1>2, <2>1, <2>3 DEF Withdrawing, WithdrawnBy
  <2>5. Entry(k)' = Lifecycle!Ended("cancelled")
    BY <1>1, <2>1, <2>3, <2>4, NoneAssumption
       DEF Entry, InQueue, InRunning, InTerminal, TerminalStatus
  <2>6. \A j \in Jobs \ {k} : Entry(j)' = Entry(j)
    BY <1>6, <2>1, <2>3 DEF WithdrawnBy
  <2>7. Lifecycle!Become(k, Lifecycle!Ended("cancelled"))
    BY <2>1, <2>5, <2>6, JobBecomes
  <2>8. Lifecycle!Record(k)
    BY <1>1, <2>1, <2>2, <2>7, JobIs DEF Lifecycle!Record
  <2> QED BY <2>1, <2>8 DEF LifeStep, Lifecycle!Next
<1> QED BY <1>7, <1>8, <1>9, <1>10, <1>11, <1>12, <1>13, <1>14, <1>15 DEF ClientStep

LEMMA WorkerLife ==
  ASSUME LifeInv, NEW w \in Workers, WorkerStep(w)
  PROVE  LifeStep
<1> USE DEF LifeInv, IInv, TypeOK, disk, files
<1>1. Recovered /\ Recovered' /\ UNCHANGED cvars
  BY WorkerOwned DEF Recovered, WorkerStep
<1>2. \A j \in Jobs : Withdrawing(j)' <=> Withdrawing(j)
  BY <1>1 DEF Withdrawing, cvars
<1>3. wpc[w] \in Claiming =>
        /\ wjob[w] \in Jobs /\ running[wjob[w]] \in Record
        /\ InRunning(wjob[w]) /\ ~InQueue(wjob[w]) /\ ~Withdrawing(wjob[w])
        /\ wpc[w] # "claimed" => wrec[w] \in Record
  BY DEF LocalsDefined, ClaimsHeld, Owns, InRunning, OneFilePerJob, WithdrawnForGood
<1>4. WorkerSound(w) /\ RunShown(w)
  BY DEF RecordInv, WorkersSound, RunsShown
<1>5. ASSUME UNCHANGED <<files, cache>> PROVE LifeStep
  <2>1. \A j \in Jobs : Entry(j)' = Entry(j)
    BY <1>2, <1>5, EntryKept
  <2> QED BY <1>1, <1>5, <2>1, LifeStutters
<1>6. ASSUME NEW k \in Jobs, \A j \in Jobs \ {k} : /\ queue'[j] = queue[j]
                                                  /\ running'[j] = running[j]
                                                  /\ terminal'[j] = terminal[j]
      PROVE  \A j \in Jobs \ {k} : Entry(j)' = Entry(j)
  BY <1>2, <1>6, EntryKept
<1>7. CASE \/ ClaimScan(w) \/ ClaimRenameMissed(w) \/ LookupHit(w) \/ LookupMiss(w)
           \/ Register(w) \/ CheckMarker(w) \/ Execute(w) \/ Unregister(w)
           \/ DecideCancelled(w) \/ DecideOutcome(w) \/ Unmark(w)
  BY <1>5, <1>7 DEF ClaimScan, ClaimRenameMissed, LookupHit, LookupMiss, Register, CheckMarker,
     Execute, Unregister, DecideCancelled, DecideOutcome, Unmark
<1>8. CASE ClaimRename(w)
  <2>1. PICK k \in Jobs : k = Oldest(wlist[w])
    BY <1>8, OldestInListing DEF ClaimRename, LocalsDefined
  <2>2. queue[k] # None /\ queue[k].status = "queued"
    BY <1>8, <2>1 DEF ClaimRename, RecordInv, FilesSound, Claimable
  <2>3. /\ queue' = [queue EXCEPT ![k] = None] /\ running' = [running EXCEPT ![k] = queue[k]]
        /\ UNCHANGED <<terminal, cache>>
    BY <1>8, <2>1 DEF ClaimRename
  <2>4. Entry(k)' = Entry(k)
    BY <2>2, <2>3 DEF Entry, InQueue, InRunning
  <2>5. \A j \in Jobs \ {k} : Entry(j)' = Entry(j)
    BY <1>6, <2>3
  <2> QED BY <1>1, <2>3, <2>4, <2>5, LifeStutters
<1>9. CASE ClaimWrite(w)
  <2>0. PICK k \in Jobs : k = wjob[w]
    BY <1>3, <1>9 DEF ClaimWrite, Claiming
  <2>1. /\ InRunning(k) /\ ~InQueue(k) /\ running[k] \in Record
        /\ running[k].status = "queued"
    BY <1>3, <1>4, <1>9, <2>0 DEF ClaimWrite, WorkerSound, Claiming, Claimable
  <2>2. Entry(k) = Lifecycle!Live("queued", running[k].attempts, running[k].key)
    BY <2>1 DEF Entry
  <2> DEFINE n == running[k].attempts + 1
             r == [running[k] EXCEPT !.status = "running", !.error = FALSE, !.attempts = n]
  <2>3. n \in Nat
    BY <2>1 DEF Record
  <2> HIDE DEF n
  <2>4. r \in Record /\ r.status = "running" /\ r.attempts = n /\ r.key = running[k].key
    BY <2>1, <2>3 DEF Record, Status
  <2>5. running' = [running EXCEPT ![k] = r] /\ UNCHANGED <<queue, terminal, cache>>
    BY <1>9, <2>0 DEF ClaimWrite, n
  <2> HIDE DEF r
  <2>6. running'[k] = r /\ r # None /\ queue'[k] = None
    BY <2>1, <2>4, <2>5, NoneAssumption DEF InQueue
  <2>7. Entry(k)' = Lifecycle!Live("running", n, running[k].key)
    BY <2>4, <2>6 DEF Entry, InQueue, InRunning
  <2>8. \A j \in Jobs \ {k} : Entry(j)' = Entry(j)
    BY <1>6, <2>5
  <2>9. Lifecycle!Become(k, Lifecycle!Live("running", n, running[k].key))
    BY <2>7, <2>8, JobBecomes
  <2>10. /\ Lifecycle!Is(k, "queued") /\ AbstractJob[k].attempts + 1 = n
         /\ AbstractJob[k].key = running[k].key
    BY <2>2, JobIs DEF Lifecycle!Live, n
  <2>11. Lifecycle!Claim(k)
    BY <1>1, <2>5, <2>9, <2>10 DEF Lifecycle!Claim
  <2> QED BY <2>11 DEF LifeStep, Lifecycle!Next
<1>10. CASE WriteCache(w)
  <2>0. PICK k \in Jobs : k = wjob[w]
    BY <1>3, <1>10 DEF WriteCache, Claiming
  <2>1. Entry(k) = Lifecycle!Live("running", running[k].attempts, wrec[w].key)
    BY <1>3, <1>4, <1>10, <2>0 DEF WriteCache, RunShown, RunningPC, Claiming, Entry
  <2>2. \A j \in Jobs : Entry(j)' = Entry(j)
    BY <1>2, <1>10, EntryKept DEF WriteCache
  <2>3. AbstractJob' = AbstractJob
    BY <2>2, JobEntries, JobEntriesNext
  <2>4. Lifecycle!Is(k, "running") /\ AbstractJob[k].key = wrec[w].key
    BY <2>1, JobIs DEF Lifecycle!Live
  <2>5. Lifecycle!StoreResult(k)
    BY <1>1, <1>10, <2>3, <2>4 DEF WriteCache, Lifecycle!StoreResult
  <2> QED BY <2>5 DEF LifeStep, Lifecycle!Next
<1>11. CASE Publish(w)
  <2>0. PICK k \in Jobs : k = wjob[w]
    BY <1>3, <1>11 DEF Publish, Claiming
  <2>1. /\ InRunning(k) /\ ~InQueue(k) /\ running[k] \in Record /\ wrec[w] \in Record
        /\ running[k].status = "running" /\ running[k].attempts = wrec[w].attempts
        /\ running[k].key = wrec[w].key
        /\ wrec[w].status = "queued" => wrec[w].attempts < MaxAttempts
    BY <1>3, <1>4, <1>11, <2>0 DEF Publish, RunShown, Claiming
  <2>2. Entry(k) = Lifecycle!Live("running", running[k].attempts, running[k].key)
    BY <2>1 DEF Entry
  <2>3. running' = [running EXCEPT ![k] = wrec[w]] /\ UNCHANGED <<queue, terminal, cache>>
    BY <1>11, <2>0 DEF Publish
  <2>4. running'[k] = wrec[w] /\ wrec[w] # None /\ queue'[k] = None
    BY <2>1, <2>3, NoneAssumption DEF InQueue
  <2>5. \A j \in Jobs \ {k} : Entry(j)' = Entry(j)
    BY <1>6, <2>3
  <2>6. CASE wrec[w].status = "queued"
    <3>1. Entry(k)' = Lifecycle!Live("queued", running[k].attempts, running[k].key)
      BY <2>1, <2>4, <2>6 DEF Entry, InQueue, InRunning
    <3>2. Lifecycle!Become(k, Lifecycle!Live("queued", running[k].attempts, running[k].key))
      BY <2>5, <3>1, JobBecomes
    <3>3. /\ Lifecycle!Is(k, "running") /\ AbstractJob[k].attempts = running[k].attempts
          /\ AbstractJob[k].key = running[k].key
      BY <2>2, JobIs DEF Lifecycle!Live
    <3>4. Lifecycle!Retry(k)
      BY <1>1, <2>1, <2>3, <2>6, <3>2, <3>3 DEF Lifecycle!Retry
    <3> QED BY <3>4 DEF LifeStep, Lifecycle!Next
  <2>7. CASE wrec[w].status # "queued"
    <3>1. Entry(k)' = Entry(k)
      BY <2>1, <2>2, <2>4, <2>7 DEF Entry, InQueue, InRunning
    <3> QED BY <1>1, <2>3, <2>5, <3>1, LifeStutters
  <2> QED BY <2>6, <2>7
<1>12. CASE Requeue(w)
  <2>0. PICK k \in Jobs : k = wjob[w]
    BY <1>3, <1>12 DEF Requeue, Claiming
  <2>1. /\ InRunning(k) /\ ~InQueue(k) /\ running[k].status = "queued"
    BY <1>3, <1>4, <1>12, <2>0 DEF Requeue, WorkerSound, Claiming
  <2>2. /\ queue' = [queue EXCEPT ![k] = running[k]] /\ UNCHANGED <<terminal, cache>>
        /\ running' = [running EXCEPT ![k] = None]
    BY <1>12, <2>0 DEF Requeue
  <2>3. Entry(k)' = Entry(k)
    BY <2>1, <2>2 DEF Entry, InQueue, InRunning
  <2>4. \A j \in Jobs \ {k} : Entry(j)' = Entry(j)
    BY <1>6, <2>2
  <2> QED BY <1>1, <2>2, <2>3, <2>4, LifeStutters
<1>13. CASE Finish(w)
  <2>0. PICK k \in Jobs : k = wjob[w]
    BY <1>3, <1>13 DEF Finish, Claiming
  <2>1. /\ InRunning(k) /\ ~InQueue(k) /\ ~Withdrawing(k) /\ running[k] = wrec[w]
        /\ running[k].status \in TerminalStatus /\ running[k].status # "queued"
        /\ running[k].status = "succeeded" => running[k].key \in cache
    BY <1>3, <1>4, <1>13, <2>0 DEF Finish, WorkerSound, RunShown, Claiming, Sound, TerminalStatus
  <2>2. Entry(k) = Lifecycle!Live("running", running[k].attempts, running[k].key)
    BY <2>1 DEF Entry
  <2>3. /\ terminal' = [terminal EXCEPT ![k] = running[k]] /\ UNCHANGED <<queue, cache>>
        /\ running' = [running EXCEPT ![k] = None]
    BY <1>13, <2>0 DEF Finish
  <2>4. Entry(k)' = Lifecycle!Ended(running[k].status)
    BY <1>2, <2>1, <2>3 DEF Entry, InQueue, InRunning, InTerminal
  <2>5. \A j \in Jobs \ {k} : Entry(j)' = Entry(j)
    BY <1>6, <2>3
  <2>6. Lifecycle!Become(k, Lifecycle!Ended(running[k].status))
    BY <2>4, <2>5, JobBecomes
  <2>7. Lifecycle!Is(k, "running") /\ AbstractJob[k].key = running[k].key
    BY <2>2, JobIs DEF Lifecycle!Live
  <2>8. Lifecycle!Finish(k, running[k].status)
    BY <1>1, <2>1, <2>3, <2>6, <2>7 DEF Lifecycle!Finish
  <2> QED BY <2>1, <2>8 DEF LifeStep, Lifecycle!Next, Lifecycle!Final, TerminalStatus
<1> QED BY <1>7, <1>8, <1>9, <1>10, <1>11, <1>12, <1>13 DEF WorkerStep

\* open(): a running job that is listed goes back to queued; when the last one
\* has gone, nothing runs and the process is open again.
LEMMA MainLife ==
  ASSUME LifeInv, MainStep
  PROVE  LifeStep
<1> USE DEF LifeInv, IInv, TypeOK, MainStep, Drain, Open, Prune, files
<1>1. UNCHANGED <<cvars, cache>>
  OBVIOUS
<1>2. \A j \in Jobs : Withdrawing(j)' <=> Withdrawing(j)
  BY <1>1 DEF Withdrawing, cvars
<1>3. ASSUME NEW k \in Jobs, \A j \in Jobs \ {k} : /\ queue'[j] = queue[j]
                                                  /\ running'[j] = running[j]
                                                  /\ terminal'[j] = terminal[j]
      PROVE  \A j \in Jobs \ {k} : Entry(j)' = Entry(j)
  BY <1>2, <1>3, EntryKept
<1>4. ASSUME UNCHANGED <<queue, running, terminal>>
      PROVE  \A j \in Jobs : Entry(j)' = Entry(j)
  BY <1>2, <1>4, EntryKept
<1>5. ASSUME ~Recovered, Recovered', \A j \in Jobs : Entry(j)' = Entry(j),
             \A j \in Jobs : Entry(j).state # "running"
      PROVE  LifeStep
  <2>1. AbstractJob' = AbstractJob
    BY <1>5, JobEntries, JobEntriesNext
  <2>2. \A j \in Jobs : ~Lifecycle!Is(j, "running")
    BY <1>5, JobIs
  <2>3. Lifecycle!Open
    BY <1>1, <1>5, <2>1, <2>2 DEF Lifecycle!Open, Recovered
  <2> QED BY <2>3 DEF LifeStep, Lifecycle!Next
<1>6. ASSUME NEW j \in Jobs, ~InRunning(j) \/ running[j].status = "queued"
      PROVE  Entry(j).state # "running"
  BY <1>6 DEF Entry, Lifecycle!Live, Lifecycle!Ended, TerminalStatus
<1>7. CASE StartDrain \/ DrainJoin \/ MainPrune
  <2>1. UNCHANGED <<queue, running, terminal>> /\ Recovered' = Recovered
    BY <1>7 DEF StartDrain, DrainJoin, MainPrune, Recovered
  <2> QED BY <1>1, <1>4, <2>1, LifeStutters
<1>8. CASE OpenList
  <2>1. UNCHANGED <<queue, running, terminal>> /\ ~Recovered
    BY <1>8 DEF OpenList, Recovered
  <2>2. CASE Present(running) = {}
    <3>1. Recovered' /\ \A j \in Jobs : ~InRunning(j)
      BY <1>8, <2>2 DEF OpenList, Recovered, Present, InRunning
    <3> QED BY <1>4, <1>5, <1>6, <2>1, <3>1
  <2>3. CASE Present(running) # {}
    <3>1. ~Recovered'
      BY <1>8, <2>3 DEF OpenList, Recovered
    <3> QED BY <1>1, <1>4, <2>1, <3>1, LifeStutters DEF Recovered
  <2> QED BY <2>2, <2>3
<1>9. CASE RecoverWrite
  <2>1. PICK k \in Jobs : k = Oldest(mlist) /\ k \in mlist
    BY <1>9, OldestInListing DEF RecoverWrite, LocalsDefined
  <2>2. /\ InRunning(k) /\ ~InQueue(k) /\ running[k] \in Record /\ ~Recovered /\ ~Recovered'
    BY <1>9, <2>1 DEF RecoverWrite, RecoveryListed, OneFilePerJob, InRunning, Recovered
  <2> DEFINE r == [running[k] EXCEPT !.status = "queued", !.result = FALSE]
  <2>3. running' = [running EXCEPT ![k] = r] /\ UNCHANGED <<queue, terminal>>
    BY <1>9, <2>1 DEF RecoverWrite
  <2>4. /\ r \in Record /\ r.status = "queued" /\ r.attempts = running[k].attempts
        /\ r.key = running[k].key
    BY <2>2 DEF Record, Status
  <2> HIDE DEF r
  <2>5. running'[k] = r /\ r # None /\ queue'[k] = None
    BY <2>2, <2>3, <2>4, NoneAssumption DEF InQueue
  <2>6. Entry(k)' = Lifecycle!Live("queued", running[k].attempts, running[k].key)
    BY <2>4, <2>5 DEF Entry, InQueue, InRunning
  <2>7. \A j \in Jobs \ {k} : Entry(j)' = Entry(j)
    BY <1>3, <2>3
  <2>8. CASE running[k].status = "queued"
    <3>1. Entry(k)' = Entry(k)
      BY <2>2, <2>6, <2>8 DEF Entry
    <3> QED BY <1>1, <2>2, <2>7, <3>1, LifeStutters DEF Recovered
  <2>9. CASE running[k].status # "queued"
    <3>1. Entry(k) = Lifecycle!Live("running", running[k].attempts, running[k].key)
      BY <2>2, <2>9 DEF Entry
    <3>2. Lifecycle!Become(k, Lifecycle!Live("queued", running[k].attempts, running[k].key))
      BY <2>6, <2>7, JobBecomes
    <3>3. /\ Lifecycle!Is(k, "running") /\ AbstractJob[k].attempts = running[k].attempts
          /\ AbstractJob[k].key = running[k].key
      BY <3>1, JobIs DEF Lifecycle!Live
    <3>4. Lifecycle!Recover(k)
      BY <1>1, <2>2, <3>2, <3>3 DEF Lifecycle!Recover, Recovered
    <3> QED BY <3>4 DEF LifeStep, Lifecycle!Next
  <2> QED BY <2>8, <2>9
<1>10. CASE RecoverMove
  <2>1. PICK k \in Jobs : k = Oldest(mlist) /\ k \in mlist
    BY <1>10, OldestInListing DEF RecoverMove, LocalsDefined
  <2>2. /\ InRunning(k) /\ ~InQueue(k) /\ running[k].status = "queued" /\ ~Recovered
    BY <1>10, <2>1 DEF RecoverMove, RecoveryListed, OneFilePerJob, Recovered, RecordInv,
       RecoverySound, Claimable
  <2>3. /\ queue' = [queue EXCEPT ![k] = running[k]] /\ terminal' = terminal
        /\ running' = [running EXCEPT ![k] = None]
        /\ mpc' = IF mlist = {k} THEN "open_prune" ELSE "recover"
    BY <1>10, <2>1 DEF RecoverMove
  <2>4. Entry(k)' = Entry(k)
    BY <2>2, <2>3 DEF Entry, InQueue, InRunning
  <2>5. \A j \in Jobs \ {k} : Entry(j)' = Entry(j)
    BY <1>3, <2>3
  <2>6. CASE mlist = {k}
    <3>1. \A j \in Jobs : ~InRunning(j) \/ running[j].status = "queued"
      BY <1>10, <2>2, <2>6 DEF RecoverMove, RunningOwned, Present, InRunning
    <3>2. Recovered'
      BY <2>3, <2>6 DEF Recovered
    <3> QED BY <1>5, <1>6, <2>2, <2>4, <2>5, <3>1, <3>2
  <2>7. CASE mlist # {k}
    <3>1. ~Recovered'
      BY <2>3, <2>7 DEF Recovered
    <3> QED BY <1>1, <2>2, <2>4, <2>5, <3>1, LifeStutters DEF Recovered
  <2> QED BY <2>6, <2>7
<1>11. CASE MainPruneRemove
  <2>1. mlist \subseteq Jobs /\ mlist # {} /\ RemoveOldest(mlist) /\ Recovered' = Recovered
    BY <1>11 DEF MainPruneRemove, LocalsDefined, Recovered
  <2>2. UNCHANGED <<queue, running, cache>>
    BY <1>1, <1>11 DEF MainPruneRemove
  <2> QED BY <1>2, <2>1, <2>2, RemovalForgets
<1> QED BY <1>7, <1>8, <1>9, <1>10, <1>11

\* What a crash interrupts is stuck or gone if it was being cancelled, and is
\* where it was otherwise.
LEMMA CrashLife ==
  ASSUME LifeInv, Crash
  PROVE  LifeStep
<1> USE DEF LifeInv, IInv, TypeOK, Crash, disk, files
<1>1. UNCHANGED <<files, cache>> /\ ~Recovered' /\ \A j \in Jobs : ~Withdrawing(j)'
  BY DEF Withdrawing, Recovered
<1>2. ASSUME NEW j \in Jobs, Withdrawing(j)
      PROVE  /\ Entry(j).state = "withdrawn"
             /\ Entry(j)' = Lifecycle!Ended(IF InTerminal(j) THEN "stuck" ELSE "absent")
  <2>1. ~InQueue(j) /\ ~InRunning(j)
    BY <1>2 DEF WithdrawnForGood
  <2>2. InTerminal(j) => terminal[j].status = "queued"
    BY <1>2 DEF Withdrawing, RecordInv, ClientsSound, ClientSound, WithdrawnBy, InTerminal
  <2>3. Entry(j) = Lifecycle!Ended("withdrawn")
    BY <1>2, <2>1 DEF Entry
  <2>4. ~InQueue(j)' /\ ~InRunning(j)' /\ (InTerminal(j)' <=> InTerminal(j)) /\ terminal'[j] = terminal[j]
    BY <1>1, <2>1 DEF InQueue, InRunning, InTerminal
  <2>5. "queued" \notin TerminalStatus
    BY DEF TerminalStatus
  <2>6. Entry(j)' = Lifecycle!Ended(IF InTerminal(j) THEN "stuck" ELSE "absent")
    BY <1>1, <2>2, <2>4, <2>5 DEF Entry
  <2> QED BY <2>3, <2>6 DEF Lifecycle!Ended, Lifecycle!Live
<1>3. ASSUME NEW j \in Jobs, ~Withdrawing(j)
      PROVE  Entry(j).state # "withdrawn" /\ Entry(j)' = Entry(j)
  <2>1. Entry(j)' = Entry(j)
    BY <1>1, <1>3, EntryKept
  <2> QED BY <1>3, <2>1 DEF Entry, Lifecycle!Ended, Lifecycle!Live, TerminalStatus
<1> DEFINE lost == {j \in Jobs : ~InTerminal(j)}
<1>4. AbstractJob' = [j \in Jobs |-> IF ~Lifecycle!Is(j, "withdrawn") THEN AbstractJob[j]
                        ELSE Lifecycle!Ended(IF j \in lost THEN "absent" ELSE "stuck")]
  <2>1. ASSUME NEW j \in Jobs
        PROVE  Entry(j)' = IF ~Lifecycle!Is(j, "withdrawn") THEN AbstractJob[j]
                           ELSE Lifecycle!Ended(IF j \in lost THEN "absent" ELSE "stuck")
    BY <1>2, <1>3, JobIs
  <2> QED BY <2>1, JobEntriesNext
<1> HIDE DEF lost
<1>5. lost \in SUBSET Jobs
  BY DEF lost
<1>6. Lifecycle!Crash
  BY <1>1, <1>4, <1>5 DEF Lifecycle!Crash, Recovered
<1> QED BY <1>6 DEF LifeStep, Lifecycle!Next

LEMMA LifeInvariant == Spec => []LifeInv
<1>1. LifeInv /\ [Next]_vars => LifeInv'
  BY StepInv, StepRecords, StepOwned, StepShows DEF LifeInv
<1>2. Init => LifeInv
  BY InitInv, InitRecords, OwnedInit, ShownInit DEF LifeInv
<1> QED BY <1>1, <1>2, PTL DEF Spec

-----------------------------------------------------------------------------
(* What a caller sees *)

\* Only recovery takes back an end that a worker has published in running/.
LEMMA VisibleEnds ==
  ASSUME LifeInv, Next, mpc # "recover", NEW j \in Jobs, Visible(j) \in TerminalStatus
  PROVE  Visible(j)' \in {Visible(j), "absent"}
<1> USE DEF LifeInv, IInv, TypeOK, InQueue, InRunning, InTerminal, files, disk
<1>1. queue[j] = None
  BY DEF RecordInv, FilesSound, Claimable, Visible, TerminalStatus
<1>2. CASE running[j] = None
  <2>1. terminal[j] # None /\ terminal[j].status \in TerminalStatus
    BY <1>1, <1>2 DEF Visible, TerminalStatus
  <2> QED BY <1>1, <1>2, <2>1, SettledStays DEF Visible
<1>3. CASE running[j] # None
  <2>1. running[j].status \in TerminalStatus
    BY <1>1, <1>3 DEF Visible
  <2>2. ASSUME queue'[j] = None, running'[j] = running[j]
        PROVE  Visible(j)' = Visible(j)
    BY <1>1, <1>3, <2>2 DEF Visible
  <2>3. ASSUME NEW c \in Clients, Call(c) \/ ClientStep(c)
        PROVE  queue'[j] = None /\ running'[j] = running[j]
    <3>1. ~Submitting(c, j)
      BY <1>3 DEF IdsAreFresh, Nowhere
    <3>2. running' = running
      BY <2>3 DEF Call, ClientStep
    <3>3. CASE SubmitQueue(c) \/ CancelRename(c)
      BY <1>1, <3>1, <3>2, <3>3 DEF SubmitQueue, CancelRename, Submitting, LocalsDefined
    <3>4. CASE ~(SubmitQueue(c) \/ CancelRename(c))
      BY <1>1, <2>3, <3>4 DEF Call, ClientStep, SubmitCheck, CancelCheck, SubmitLookup,
         SubmitHit, SubmitPrune, SubmitPruneRemove, CancelRenameMissed, CancelRead, CancelWrite,
         CancelMark, CancelSignal, GetLook, GetRead, CancelUnmark, shared
    <3> QED BY <3>2, <3>3, <3>4
  <2>4. ASSUME NEW w \in Workers, WorkerStep(w)
        PROVE  Visible(j)' = Visible(j)
    <3>1. WorkerSound(w) /\ RunShown(w) /\ (wpc[w] \in Claiming => wjob[w] \in Jobs)
      BY DEF RecordInv, WorkersSound, RunsShown, LocalsDefined
    <3>2. CASE ClaimRename(w)
      BY <1>1, <2>2, <3>2 DEF ClaimRename
    <3>3. CASE ClaimWrite(w) \/ Publish(w) \/ Requeue(w)
      <4>1. wjob[w] \in Jobs /\ wjob[w] # j
        BY <2>1, <3>1, <3>3 DEF ClaimWrite, Publish, Requeue, WorkerSound, RunShown, Claimable,
           Claiming, TerminalStatus
      <4> QED BY <1>1, <2>2, <3>3, <4>1 DEF ClaimWrite, Publish, Requeue
    <3>4. CASE Finish(w)
      <4>1. CASE wjob[w] = j
        <5>1. queue'[j] = None /\ running'[j] = None /\ terminal'[j] = running[j]
          BY <1>1, <3>4, <4>1 DEF Finish
        <5> QED BY <1>1, <1>3, <5>1 DEF Visible
      <4>2. CASE wjob[w] # j
        BY <1>1, <2>2, <3>1, <3>4, <4>2 DEF Finish, Claiming
      <4> QED BY <4>1, <4>2
    <3>5. CASE ~(ClaimRename(w) \/ ClaimWrite(w) \/ Publish(w) \/ Requeue(w) \/ Finish(w))
      BY <1>1, <2>2, <2>4, <3>5 DEF WorkerStep, ClaimScan, ClaimRenameMissed, LookupHit,
         LookupMiss, Register, CheckMarker, Execute, Unregister, DecideCancelled,
         DecideOutcome, WriteCache, Unmark
    <3> QED BY <3>2, <3>3, <3>4, <3>5
  <2>5. CASE MainStep
    <3>1. CASE RecoverMove
      <4>1. Oldest(mlist) # j
        BY <2>1, <3>1 DEF RecoverMove, RecordInv, RecoverySound, Claimable, TerminalStatus
      <4> QED BY <1>1, <2>2, <3>1, <4>1 DEF RecoverMove
    <3>2. CASE ~RecoverMove
      BY <1>1, <2>2, <2>5, <3>2 DEF MainStep, Drain, Open, Prune, StartDrain, DrainJoin,
         OpenList, RecoverWrite, MainPrune, MainPruneRemove
    <3> QED BY <3>1, <3>2
  <2>6. CASE Crash
    BY <1>1, <2>2, <2>6 DEF Crash
  <2> QED BY <2>2, <2>3, <2>4, <2>5, <2>6 DEF Next
<1> QED BY <1>2, <1>3

\* Without a crash there is nothing to recover.
LEMMA DownAfterCrash == Spec => [](~Recovered => crashes > 0)
<1>1. Init => (~Recovered => crashes > 0)
  BY DEF Init, Recovered
<1>2. IInv /\ (~Recovered => crashes > 0) /\ [Next]_vars => (~Recovered => crashes > 0)'
  <2> SUFFICES ASSUME IInv, ~Recovered => crashes > 0, [Next]_vars
               PROVE  ~Recovered' => crashes' > 0
    OBVIOUS
  <2>1. CASE Crash
    BY <2>1, LimitsAssumption DEF Crash, IInv, TypeOK, LimitsAssumption
  <2>2. CASE MainStep
    BY <2>2 DEF MainStep, Drain, Open, Prune, StartDrain, DrainJoin, OpenList, RecoverWrite,
       RecoverMove, MainPrune, MainPruneRemove, Recovered
  <2>3. ASSUME UNCHANGED <<mvars, crashes>> PROVE ~Recovered' => crashes' > 0
    BY <2>3 DEF Recovered, mvars
  <2> QED BY <2>1, <2>2, <2>3 DEF Next, Call, ClientStep, WorkerStep, vars
<1> QED BY <1>1, <1>2, Invariant, PTL DEF Spec

-----------------------------------------------------------------------------
(* Draining *)

\* Somebody will still look at j: a worker that is about to list queue/, has j on
\* its list, or lists queue/ again after the job it has now.
StillAtWork(w, j) ==
  \/ wpc[w] \in Claiming \cup {"scan", "unmark"}
  \/ wpc[w] = "claim" /\ j \in wlist[w]

\* The jobs on disk when drain() was called: no submission brings them back, and
\* none is in queue/ without a worker that will still look at it.
DueWatched ==
  /\ due \subseteq Jobs
  /\ \A j \in due : j < nextId /\ \A c \in Clients : ~Submitting(c, j)
  /\ mpc = "drain" => \A j \in due : InQueue(j) => \E w \in Workers : StillAtWork(w, j)
  /\ mpc = "prune" => \A j \in due : ~InQueue(j)

LEMMA ClientDue ==
  ASSUME LifeInv, DueWatched, NEW c \in Clients, Call(c) \/ ClientStep(c), due' = due
  PROVE  DueWatched'
<1> USE DEF LifeInv, IInv, TypeOK
<1>1. UNCHANGED <<wvars, mvars>>
  BY DEF Call, ClientStep
<1>2. nextId' \in {nextId, nextId + 1} /\ \A d \in Clients \ {c} : cpc'[d] = cpc[d] /\ cjob'[d] = cjob[d]
  BY DEF Call, ClientStep, ClientAt, ClientReturns, SubmitCheck, CancelCheck, SubmitLookup,
     SubmitQueue, SubmitHit, SubmitPrune, SubmitPruneRemove, CancelRename, CancelRenameMissed,
     CancelRead, CancelWrite, CancelMark, CancelSignal, GetLook, GetRead, CancelUnmark
<1>3. ASSUME NEW j \in due PROVE ~Submitting(c, j)'
  <2>1. j < nextId /\ ~Submitting(c, j) /\ j \in Int /\ nextId \in Int
    BY <1>3 DEF DueWatched, Jobs
  <2>2. CASE SubmitLookup(c)
    BY <2>1, <2>2 DEF SubmitLookup, ClientAt, Submitting
  <2>3. CASE ~SubmitLookup(c)
    BY <2>1, <2>3 DEF Submitting, Call, ClientStep, ClientAt, ClientReturns, SubmitCheck,
       CancelCheck, SubmitQueue, SubmitHit, SubmitPrune, SubmitPruneRemove, CancelRename,
       CancelRenameMissed, CancelRead, CancelWrite, CancelMark, CancelSignal, GetLook, GetRead,
       CancelUnmark
  <2> QED BY <2>2, <2>3
<1>4. ASSUME NEW j \in due, InQueue(j)' PROVE InQueue(j)
  <2>1. j \in Jobs /\ ~Submitting(c, j)
    BY <1>4 DEF DueWatched
  <2>2. CASE SubmitQueue(c) \/ CancelRename(c)
    BY <1>4, <2>1, <2>2 DEF SubmitQueue, CancelRename, InQueue, Submitting, LocalsDefined
  <2>3. CASE ~(SubmitQueue(c) \/ CancelRename(c))
    BY <1>4, <2>3 DEF InQueue, Call, ClientStep, SubmitCheck, CancelCheck, SubmitLookup,
       SubmitHit, SubmitPrune, SubmitPruneRemove, CancelRenameMissed, CancelRead, CancelWrite,
       CancelMark, CancelSignal, GetLook, GetRead, CancelUnmark, shared
  <2> QED BY <2>2, <2>3
<1>5. \A j \in due : j < nextId' /\ \A d \in Clients : ~Submitting(d, j)'
  <2>1. \A j \in due : j < nextId'
    BY <1>2 DEF DueWatched, Jobs
  <2>2. \A j \in due : \A d \in Clients \ {c} : ~Submitting(d, j)'
    BY <1>2 DEF DueWatched, Submitting
  <2> QED BY <1>3, <2>1, <2>2
<1> QED BY <1>1, <1>4, <1>5 DEF DueWatched, StillAtWork, wvars, mvars

LEMMA WorkerDue ==
  ASSUME LifeInv, DueWatched, NEW w \in Workers, WorkerStep(w), due' = due
  PROVE  DueWatched'
<1> USE DEF LifeInv, IInv, TypeOK, WorkerStep, WorkerAt, WorkerAgain
<1>1. mpc = "drain" /\ mpc' = "drain" /\ UNCHANGED <<cvars, nextId>>
  BY WorkerOwned
<1>2. ASSUME NEW j \in due, InQueue(j)'
      PROVE  \E v \in Workers : StillAtWork(v, j)'
  <2>1. j \in Jobs /\ (InQueue(j) => \E v \in Workers : StillAtWork(v, j))
    BY <1>1, <1>2 DEF DueWatched
  <2>2. wpc[w] = "claim" => Oldest(wlist[w]) \in Jobs
    BY OldestInListing DEF LocalsDefined
  <2>3. CASE ClaimScan(w)
    BY <1>2, <2>1, <2>3 DEF ClaimScan, StillAtWork, InQueue, Present, disk, files
  <2>4. CASE ClaimRename(w)
    BY <2>4 DEF ClaimRename, StillAtWork, Claiming
  <2>5. CASE ClaimRenameMissed(w)
    BY <1>2, <2>1, <2>2, <2>5 DEF ClaimRenameMissed, StillAtWork, InQueue, disk, files, Claiming
  <2>6. CASE Requeue(w) \/ Finish(w) \/ Unmark(w)
    BY <2>6 DEF Requeue, Finish, Unmark, StillAtWork
  <2>7. CASE \/ ClaimWrite(w) \/ LookupHit(w) \/ LookupMiss(w) \/ Register(w) \/ CheckMarker(w)
             \/ Execute(w) \/ Unregister(w) \/ DecideCancelled(w) \/ DecideOutcome(w)
             \/ WriteCache(w) \/ Publish(w)
    <3>1. wpc'[w] \in Claiming
      BY <2>7 DEF ClaimWrite, LookupHit, LookupMiss, Register, CheckMarker, Execute, Unregister,
         DecideCancelled, DecideOutcome, WriteCache, Publish, Claiming
    <3> QED BY <3>1 DEF StillAtWork
  <2> QED BY <2>3, <2>4, <2>5, <2>6, <2>7
<1> QED BY <1>1, <1>2 DEF DueWatched, Submitting, cvars

\* drain() is called with every worker at work, and joins them when none is.
LEMMA MainDue ==
  ASSUME LifeInv, DueWatched, MainStep,
         due' = IF mpc = "ready" /\ mpc' = "drain"
                THEN Present(queue) \cup Present(running) ELSE due
  PROVE  DueWatched'
<1> USE DEF LifeInv, IInv, TypeOK, MainStep, Drain, Open, Prune
<1>1. UNCHANGED <<cvars, nextId>>
  OBVIOUS
<1>2. CASE StartDrain
  <2>1. due' = Present(queue) \cup Present(running)
    BY <1>2 DEF StartDrain
  <2>2. \A j \in due' : j \in Jobs /\ ~Nowhere(j)
    BY <2>1 DEF Present, Nowhere, InQueue, InRunning
  <2>3. \A j \in due' : j < nextId /\ \A c \in Clients : ~Submitting(c, j)
    BY <2>2 DEF IdsAreFresh, Jobs
  <2>4. \A j \in due', w \in Workers : StillAtWork(w, j)'
    BY <1>2 DEF StartDrain, StillAtWork
  <2>5. \E w \in Workers : TRUE
    BY LimitsAssumption DEF LimitsAssumption
  <2> QED BY <1>1, <1>2, <2>2, <2>3, <2>4, <2>5 DEF StartDrain, DueWatched, Submitting, cvars
<1>3. CASE DrainJoin
  <2>1. \A j \in due : ~InQueue(j)
    BY <1>3 DEF DrainJoin, DueWatched, StillAtWork, Claiming
  <2> QED BY <1>1, <1>3, <2>1 DEF DrainJoin, DueWatched, Submitting, cvars, InQueue, files
<1>4. CASE OpenList \/ RecoverWrite \/ RecoverMove
  <2>1. due' = due /\ mpc' \notin {"drain", "prune"}
    BY <1>4 DEF OpenList, RecoverWrite, RecoverMove
  <2> QED BY <1>1, <2>1 DEF DueWatched, Submitting, cvars
<1>5. CASE MainPrune \/ MainPruneRemove
  <2>1. due' = due /\ mpc' \notin {"drain", "prune"}
    BY <1>5 DEF MainPrune, MainPruneRemove
  <2> QED BY <1>1, <2>1 DEF DueWatched, Submitting, cvars
<1> QED BY <1>2, <1>3, <1>4, <1>5

LEMMA StepDue ==
  LifeInv /\ DueWatched /\ [MCNext]_<<vars, due>> => DueWatched'
<1> SUFFICES ASSUME LifeInv, DueWatched, [MCNext]_<<vars, due>> PROVE DueWatched'
  OBVIOUS
<1>1. ASSUME NEW c \in Clients, Call(c) \/ ClientStep(c), MCNext PROVE DueWatched'
  BY <1>1, ClientDue DEF MCNext, Call, ClientStep, mvars
<1>2. ASSUME NEW w \in Workers, WorkerStep(w), MCNext PROVE DueWatched'
  BY <1>2, WorkerDue DEF MCNext, WorkerStep, mvars
<1>3. CASE MainStep /\ MCNext
  BY <1>3, MainDue DEF MCNext, Unsettled
<1>4. CASE Crash /\ MCNext
  BY <1>4 DEF MCNext, Crash, DueWatched, Submitting
<1>5. CASE UNCHANGED <<vars, due>>
  BY <1>5 DEF vars, disk, files, wvars, cvars, mvars, DueWatched, Submitting, StillAtWork, InQueue
<1> QED BY <1>1, <1>2, <1>3, <1>4, <1>5 DEF MCNext, Next

-----------------------------------------------------------------------------
(* The theorems *)

\* Retry, recovery, cancel and settlement together keep status, result and error
\* of every stored snapshot consistent.
THEOREM SnapshotsCoherent == Spec => []SnapshotCoherent
<1>1. IInv /\ RecordInv => SnapshotCoherent
  BY StoredIsSound DEF SnapshotCoherent, Sound
<1> QED BY <1>1, RecordInvariant, PTL

\* A job recorded as succeeded has its result in the cache, across crashes.
THEOREM SuccessesCached == Spec => []SucceededIsCached
<1>1. IInv /\ RecordInv => SucceededIsCached
  BY StoredIsSound DEF SucceededIsCached, Sound
<1> QED BY <1>1, RecordInvariant, PTL

\* No job is claimed more often than its limit and the crashes allow.
THEOREM AttemptsAreBounded == Spec => []AttemptsBounded
<1>1. IInv /\ RecordInv => AttemptsBounded
  BY StoredIsSound DEF AttemptsBounded, Sound
<1> QED BY <1>1, RecordInvariant, PTL

\* A settled job keeps its status until it is pruned, and never runs again.
THEOREM SettledJobsStay == Spec => SettledIsFinal
<1>1. IInv /\ RecordInv /\ [Next]_vars =>
        [\A j \in Jobs :
           (InTerminal(j) /\ terminal[j].status \in TerminalStatus) =>
             /\ terminal'[j] \in {terminal[j], None}
             /\ queue'[j] = None /\ running'[j] = None]_vars
  BY SettledStays DEF InTerminal
<1> QED BY <1>1, RecordInvariant, PTL DEF Spec, SettledIsFinal

\* The file protocol implements the life cycle of a job: whatever callers,
\* workers, prunes, crashes and recovery do to the files, a job only makes the
\* moves that JobLifecycle allows.
THEOREM LifecycleImplemented == Spec => ImplementsLifecycle
<1>1. LifeInv /\ [Next]_vars => [Lifecycle!Next]_(Lifecycle!vars)
  <2>1. LifeInv /\ UNCHANGED vars => UNCHANGED Lifecycle!vars
    BY DEF vars, disk, files, cvars, mvars, Lifecycle!vars, AbstractJob, Recovered, InQueue,
       InRunning, InTerminal, Withdrawing
  <2> QED BY <2>1, ClientLife, WorkerLife, MainLife, CrashLife DEF Next, LifeStep
<1>2. Spec => [][Lifecycle!Next]_(Lifecycle!vars)
  BY <1>1, LifeInvariant, PTL DEF Spec
<1>3. Spec => Lifecycle!Init
  BY LifeInit DEF Spec
<1> QED BY <1>2, <1>3, PTL DEF ImplementsLifecycle, Lifecycle!Spec

\* Whatever a caller has seen a job end as stays what it sees, until a restart
\* that finds the end published and not yet settled in terminal/.
THEOREM VisibleUntilRecovery ==
  Spec => [][mpc # "recover" =>
               \A j \in Jobs : Visible(j) \in TerminalStatus =>
                 Visible(j)' \in {Visible(j), "absent"}]_vars
<1>1. LifeInv /\ [Next]_vars =>
        [mpc # "recover" =>
           \A j \in Jobs : Visible(j) \in TerminalStatus =>
             Visible(j)' \in {Visible(j), "absent"}]_vars
  BY VisibleEnds
<1> QED BY <1>1, LifeInvariant, PTL DEF Spec

\* Where no process ever dies, an end that a caller has seen is never taken back.
\* After a crash it may be: recovery requeues a job whose end was published in
\* running/ and not yet moved to terminal/.
THEOREM VisibleEndsStay == (MaxCrashes = 0) /\ Spec => VisibleTerminalIsFinal
<1> SUFFICES ASSUME MaxCrashes = 0 PROVE Spec => VisibleTerminalIsFinal
  OBVIOUS
<1>1. IInv /\ (~Recovered => crashes > 0) => mpc # "recover"
  BY LimitsAssumption DEF IInv, TypeOK, Recovered, LimitsAssumption
<1>2. LifeInv /\ (~Recovered => crashes > 0) /\ [Next]_vars =>
        [\A j \in Jobs : Visible(j) \in TerminalStatus =>
           Visible(j)' \in {Visible(j), "absent"}]_vars
  BY <1>1, VisibleEnds DEF LifeInv
<1> QED BY <1>2, LifeInvariant, DownAfterCrash, PTL DEF Spec, VisibleTerminalIsFinal

\* When drain() returns, every job that was on disk when it was called is out of
\* queue/ and running/, although a worker stops as soon as its own listing, which
\* may be old, is used up.
THEOREM DrainSettles == MCSpec => []DrainLeavesNothingBehind
<1>1. MCSpec => Spec
  <2>1. [MCNext]_<<vars, due>> => [Next]_vars
    BY DEF MCNext
  <2> QED BY <2>1, PTL DEF MCSpec, MCInit, Spec
<1>2. Init /\ due = {} => DueWatched
  BY DEF Init, DueWatched
<1>3. MCSpec => []DueWatched
  BY <1>1, <1>2, StepDue, LifeInvariant, PTL DEF MCSpec, MCInit
<1>4. LifeInv /\ DueWatched => DrainLeavesNothingBehind
  BY DEF LifeInv, IInv, ClaimsHeld, RunningOwned, Recovered, Owns, Claiming, DueWatched,
     DrainLeavesNothingBehind
<1> QED BY <1>1, <1>3, <1>4, LifeInvariant, PTL

==========================================================================
