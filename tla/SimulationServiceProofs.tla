---------------------- MODULE SimulationServiceProofs ----------------------
(***************************************************************************)
(* Theorems about SimulationService, for any number of jobs and streams    *)
(* and any limits.                                                         *)
(*                                                                         *)
(* IInv is the conjunction of all safety invariants of the module with two *)
(* that say where local variables are defined.  The job table is dealt     *)
(* with first, then the two cardinalities, then the event channels.        *)
(***************************************************************************)
EXTENDS SimulationService, SequenceTheorems, FiniteSetTheorems, TLAPS

-----------------------------------------------------------------------------
(* The inductive invariant *)

TableType ==
  /\ entry \in [Jobs -> Status \cup {None}]
  /\ cancelled \in [Jobs -> BOOLEAN]
  /\ pc \in [Jobs -> TaskPC]
  /\ out \in [Jobs -> Outcomes \cup {None}]

ChannelType ==
  /\ spc \in [Streams -> StreamPC]
  /\ sjob \in [Streams -> Jobs \cup {None}]
  /\ inbox \in [Streams -> Seq(Status)]
  /\ lag \in [Streams -> BOOLEAN]
  /\ event \in [Streams -> Status \cup {None}]
  /\ seen \in [Streams -> Status \cup {None}]
  /\ lost \in [Streams -> BOOLEAN]

\* What a task knows of its job, and what a job without a task is.
TasksDefined ==
  \A j \in Jobs :
    /\ pc[j] \in {"none", "refused"} => entry[j] = None
    /\ pc[j] = "finish_early" => cancelled[j]
    /\ pc[j] \in {"release", "recheck", "finish"} => out[j] \in Outcomes
    /\ out[j] = "cancelled" => cancelled[j]

\* A stream listens to a job that has been submitted, from an empty channel on,
\* and its local variables hold snapshots where they are used.
StreamsDefined ==
  \A s \in Streams :
    /\ spc[s] = "none" => inbox[s] = <<>>
    /\ spc[s] \in {"first", "recv", "send"} =>
         sjob[s] \in Jobs /\ pc[sjob[s]] \notin {"none", "refused"}
    /\ spc[s] \in {"first", "send"} => event[s] \in Status
    /\ spc[s] = "recv" => seen[s] \in Status

TableInv == TableType /\ TasksDefined /\ ActiveJobsRetained /\ CancelWins
ChannelInv ==
  ChannelType /\ StreamsDefined /\ StreamCaughtUp /\ StreamEndsWithTerminal

IInv == TableInv /\ PermitsConserved /\ RetentionBounded /\ ChannelInv

-----------------------------------------------------------------------------
(* The job table *)

\* A status is never mistaken for a missing entry.
LEMMA StatusIsNotNone == None \notin Status /\ Terminal \subseteq Status
  BY NoneAssumption DEF Status

\* What finish_* records, by the outcome of the simulation.
LEMMA FinalStatus ==
  ASSUME NEW j \in Jobs, out[j] \in Outcomes, out[j] = "cancelled" => cancelled[j]
  PROVE  /\ Final(j) \in Terminal
         /\ Final(j) = "cancelled" => cancelled[j]
         /\ cancelled[j] => \/ Final(j) = "cancelled"
                            \/ Final(j) = "failed" /\ out[j] = "panic"
<1>1. CASE out[j] = "ok"
  BY <1>1 DEF Final, Terminal
<1>2. CASE out[j] = "error"
  BY <1>2 DEF Final, Terminal
<1>3. CASE out[j] = "cancelled"
  BY <1>3 DEF Final, Terminal
<1>4. CASE out[j] = "panic"
  BY <1>4 DEF Final, Terminal
<1> QED BY <1>1, <1>2, <1>3, <1>4 DEF Outcomes

\* Retention keeps or removes, and removes finished jobs only.
LEMMA PrunedEntries ==
  ASSUME TableType, NEW j \in Jobs
  PROVE  /\ Pruned \in [Jobs -> Status \cup {None}]
         /\ Pruned[j] \in {entry[j], None}
         /\ ~IsTerminal(j) => Pruned[j] = entry[j]
<1>1. j \in Prunable => IsTerminal(j)
  BY DEF Prunable
<1>2. Pruned[j] = IF j \in Prunable THEN None ELSE entry[j]
  BY DEF Pruned
<1>3. Pruned \in [Jobs -> Status \cup {None}]
  BY DEF Pruned, TableType
<1> QED BY <1>1, <1>2, <1>3

LEMMA TableInit == Init => TableInv
<1> SUFFICES ASSUME Init PROVE TableInv
  OBVIOUS
<1> QED BY StatusIsNotNone DEF Init, TableInv, TableType, TaskPC, TasksDefined,
      ActiveJobsRetained, IsTerminal, CancelWins, Terminal

\* The steps of requests and tasks preserve what is known of the table.
LEMMA SubmitTable ==
  ASSUME TableInv, NEW j \in Jobs, Submit(j)
  PROVE  TableInv'
<1> USE StatusIsNotNone DEF TableInv
<1>1. /\ pc[j] = "none" /\ entry[j] = None
      /\ UNCHANGED <<cancelled, out>>
  BY DEF Submit, TasksDefined
<1>2. \A i \in Jobs : /\ Pruned[i] \in {entry[i], None}
                      /\ ~IsTerminal(i) => Pruned[i] = entry[i]
  BY PrunedEntries
<1>3. Pruned \in [Jobs -> Status \cup {None}]
  BY PrunedEntries, <1>1
<1> HIDE DEF Pruned
<1>4. \/ /\ entry' = [Pruned EXCEPT ![j] = "queued"]
         /\ pc' = [pc EXCEPT ![j] = "acquire"]
      \/ /\ entry' = Pruned
         /\ pc' = [pc EXCEPT ![j] = "refused"]
  BY DEF Submit
<1>5. TableType'
  BY <1>1, <1>3, <1>4 DEF TableType, TaskPC, Status
<1>6. \A i \in Jobs \ {j} :
        /\ pc'[i] = pc[i]
        /\ entry'[i] \in {entry[i], None}
        /\ ~IsTerminal(i) => entry'[i] = entry[i]
  BY <1>2, <1>3, <1>4 DEF TableType
<1>7. \/ pc'[j] = "acquire" /\ entry'[j] = "queued"
      \/ pc'[j] = "refused" /\ entry'[j] = None
  BY <1>1, <1>2, <1>3, <1>4 DEF TableType
<1>8. TasksDefined'
  BY <1>1, <1>6, <1>7 DEF TasksDefined
<1>9. ActiveJobsRetained'
  BY <1>6, <1>7 DEF ActiveJobsRetained, IsTerminal, Terminal, Status
<1>10. CancelWins'
  BY <1>1, <1>6, <1>7 DEF CancelWins, IsTerminal, Terminal
<1> QED BY <1>5, <1>8, <1>9, <1>10

LEMMA CancelTable ==
  ASSUME TableInv, NEW j \in Jobs, Cancel(j)
  PROVE  TableInv'
<1> USE StatusIsNotNone DEF TableInv
<1>1. /\ entry[j] # None /\ ~IsTerminal(j)
      /\ cancelled' = [cancelled EXCEPT ![j] = TRUE]
      /\ entry' = [entry EXCEPT ![j] = "cancelling"]
      /\ UNCHANGED <<pc, out>>
  BY DEF Cancel, SetStatus
<1>2. TableType'
  BY <1>1 DEF TableType, Status
<1>3. TasksDefined'
  BY <1>1 DEF TasksDefined, TableType
<1>4. ActiveJobsRetained'
  BY <1>1 DEF ActiveJobsRetained, TableType, IsTerminal, Terminal, Status
<1>5. CancelWins'
  BY <1>1 DEF CancelWins, TableType, IsTerminal, Terminal
<1> QED BY <1>2, <1>3, <1>4, <1>5

\* One lemma for all steps of run_job: what each does to its own job.
LEMMA TaskEffect ==
  ASSUME TableInv, NEW j \in Jobs, RunJob(j)
  PROVE  /\ cancelled' = cancelled
         /\ pc' \in [Jobs -> TaskPC] /\ out' \in [Jobs -> Outcomes \cup {None}]
         /\ entry' \in [Jobs -> Status \cup {None}]
         /\ \A i \in Jobs \ {j} :
              pc'[i] = pc[i] /\ out'[i] = out[i] /\ entry'[i] = entry[i]
         /\ pc[j] \notin {"none", "refused", "done"}
         /\ pc'[j] \notin {"none", "refused"}
         /\ pc'[j] = "finish_early" => cancelled[j]
         /\ pc'[j] \in {"release", "recheck", "finish"} => out'[j] \in Outcomes
         /\ out'[j] = "cancelled" => cancelled[j]
         /\ \/ /\ entry'[j] \in {entry[j], "running"} /\ ~IsTerminal(j) /\ entry[j] # None
               /\ pc'[j] \notin {"drop_early", "done"}
            \/ /\ pc'[j] \in {"drop_early", "done"}
               /\ entry'[j] \in Terminal
               /\ entry'[j] = "cancelled" => cancelled[j]
               /\ cancelled[j] => \/ entry'[j] = "cancelled"
                                  \/ entry'[j] = "failed" /\ out'[j] = "panic"
            \/ /\ pc[j] = "drop_early" /\ pc'[j] = "done"
               /\ entry'[j] = entry[j] /\ out'[j] = out[j]
<1> USE StatusIsNotNone DEF TableInv, TableType, TaskPC, Task
<1>0. \/ pc[j] \in {"none", "refused", "drop_early", "done"}
      \/ entry[j] # None /\ ~IsTerminal(j)
  BY DEF ActiveJobsRetained
<1>1. CASE Acquire(j)
  BY <1>0, <1>1 DEF Acquire, TasksDefined
<1>2. CASE Check(j)
  BY <1>0, <1>2 DEF Check, TasksDefined
<1>3. CASE FinishEarly(j)
  BY <1>0, <1>3 DEF FinishEarly, SetStatus, TasksDefined, Terminal, Status
<1>4. CASE DropEarly(j)
  BY <1>0, <1>4 DEF DropEarly, TasksDefined
<1>5. CASE Start(j)
  BY <1>0, <1>5 DEF Start, SetStatus, TasksDefined, Status
<1>6. CASE Execute(j)
  BY <1>0, <1>6 DEF Execute, TasksDefined
<1>7. CASE Release(j)
  BY <1>0, <1>7 DEF Release, TasksDefined
<1>8. CASE Recheck(j)
  BY <1>0, <1>8 DEF Recheck, TasksDefined, Outcomes
<1>9. CASE Finish(j)
  <2>1. /\ Final(j) \in Terminal
        /\ Final(j) = "cancelled" => cancelled[j]
        /\ cancelled[j] => \/ Final(j) = "cancelled"
                           \/ Final(j) = "failed" /\ out[j] = "panic"
    BY <1>9, FinalStatus DEF Finish, TasksDefined
  <2> HIDE DEF Final
  <2> QED BY <1>0, <1>9, <2>1 DEF Finish, SetStatus, TasksDefined
<1> QED BY <1>1, <1>2, <1>3, <1>4, <1>5, <1>6, <1>7, <1>8, <1>9 DEF RunJob

LEMMA TaskTable ==
  ASSUME TableInv, NEW j \in Jobs, RunJob(j)
  PROVE  TableInv'
<1> USE StatusIsNotNone DEF TableInv
<1>1. TableType'
  BY TaskEffect DEF TableType
<1>2. TasksDefined'
  BY TaskEffect DEF TasksDefined
<1>3. ActiveJobsRetained'
  BY TaskEffect DEF ActiveJobsRetained, IsTerminal, Terminal, Status
<1>4. CancelWins'
  BY TaskEffect DEF CancelWins, ActiveJobsRetained, IsTerminal, Terminal
<1> QED BY <1>1, <1>2, <1>3, <1>4

LEMMA StreamKeepsTable ==
  ASSUME NEW s \in Streams, StreamJob(s)
  PROVE  UNCHANGED tvars
  BY DEF StreamJob, SendFirst, Send, Sent, SendFails, Lagged, Receive

LEMMA SubscribeKeepsTable ==
  ASSUME NEW s \in Streams, NEW j \in Jobs, Subscribe(s, j)
  PROVE  UNCHANGED tvars
  BY DEF Subscribe

LEMMA IdleTable ==
  ASSUME TableInv, UNCHANGED tvars
  PROVE  TableInv'
  BY DEF tvars, TableInv, TableType, TasksDefined, ActiveJobsRetained, CancelWins,
     IsTerminal

LEMMA TableStep == TableInv /\ [Next]_vars => TableInv'
<1> SUFFICES ASSUME TableInv, [Next]_vars PROVE TableInv'
  OBVIOUS
<1>1. CASE UNCHANGED vars
  BY <1>1, IdleTable DEF vars
<1>2. ASSUME NEW j \in Jobs, Submit(j) PROVE TableInv'
  BY <1>2, SubmitTable
<1>3. ASSUME NEW j \in Jobs, Cancel(j) PROVE TableInv'
  BY <1>3, CancelTable
<1>4. ASSUME NEW j \in Jobs, NEW s \in Streams, Subscribe(s, j) PROVE TableInv'
  BY <1>4, SubscribeKeepsTable, IdleTable
<1>5. ASSUME NEW j \in Jobs, RunJob(j) PROVE TableInv'
  BY <1>5, TaskTable
<1>6. ASSUME NEW s \in Streams, StreamJob(s) PROVE TableInv'
  BY <1>6, StreamKeepsTable, IdleTable
<1> QED BY <1>1, <1>2, <1>3, <1>4, <1>5, <1>6 DEF Next, Request

-----------------------------------------------------------------------------
(* Permits and retention *)

Held == {j \in Jobs : pc[j] \in Holding}

LEMMA JobsFinite ==
  \A S \in SUBSET Jobs : IsFiniteSet(S) /\ Cardinality(S) \in Nat
<1>1. IsFiniteSet(Jobs)
  BY FS_Interval, LimitsAssumption DEF Jobs, LimitsAssumption
<1> QED BY <1>1, FS_Subset, FS_CardinalityType

\* The permits in use are those of the tasks between the gate and its release.
LEMMA PermitsInit == Init => PermitsConserved
<1> SUFFICES ASSUME Init PROVE PermitsConserved
  OBVIOUS
<1>1. {j \in Jobs : pc[j] \in Holding} = {}
  BY DEF Init, Holding
<1>2. Cardinality({j \in Jobs : pc[j] \in Holding}) = 0
  BY <1>1, FS_EmptySet
<1>3. permits = MaxConcurrent /\ MaxConcurrent \in Nat
  BY LimitsAssumption DEF Init, LimitsAssumption
<1> QED BY <1>2, <1>3 DEF PermitsConserved

LEMMA PermitsKept ==
  ASSUME PermitsConserved, permits' = permits,
         \A i \in Jobs : pc'[i] \in Holding <=> pc[i] \in Holding
  PROVE  PermitsConserved'
<1>1. {j \in Jobs : pc'[j] \in Holding} = {j \in Jobs : pc[j] \in Holding}
  OBVIOUS
<1> QED BY <1>1 DEF PermitsConserved

LEMMA PermitTaken ==
  ASSUME TableType, PermitsConserved, permits \in Nat, NEW j \in Jobs, Acquire(j)
  PROVE  PermitsConserved'
<1>1. Held' = Held \cup {j} /\ j \notin Held
  BY DEF Held, Holding, Acquire, Task, TableType
<1>2. IsFiniteSet(Held) /\ Cardinality(Held) \in Nat
  BY JobsFinite DEF Held
<1>3. Cardinality(Held') = Cardinality(Held) + 1
  BY <1>1, <1>2, FS_AddElement
<1>4. permits' = permits - 1
  BY DEF Acquire
<1>5. MaxConcurrent \in Nat
  BY LimitsAssumption DEF LimitsAssumption
<1> QED BY <1>2, <1>3, <1>4, <1>5 DEF PermitsConserved, Held

LEMMA PermitReturned ==
  ASSUME TableType, PermitsConserved, permits \in Nat,
         NEW j \in Jobs, Release(j) \/ DropEarly(j)
  PROVE  PermitsConserved'
<1>1. Held' = Held \ {j} /\ j \in Held
  BY DEF Held, Holding, Release, DropEarly, Task, TableType
<1>2. IsFiniteSet(Held) /\ Cardinality(Held) \in Nat
  BY JobsFinite DEF Held
<1>3. Cardinality(Held') = Cardinality(Held) - 1
  BY <1>1, <1>2, FS_RemoveElement
<1>4. permits' = permits + 1
  BY DEF Release, DropEarly
<1>5. MaxConcurrent \in Nat
  BY LimitsAssumption DEF LimitsAssumption
<1> QED BY <1>2, <1>3, <1>4, <1>5 DEF PermitsConserved, Held

\* The type of the permits goes with their conservation: nothing below zero is
\* taken, and nothing above the limit returned.
PermitsInv == PermitsConserved /\ permits \in Nat

LEMMA PermitsStep == TableInv /\ PermitsInv /\ [Next]_vars => PermitsInv'
<1> SUFFICES ASSUME TableInv, PermitsInv, [Next]_vars PROVE PermitsInv'
  OBVIOUS
<1>0. TableType
  BY DEF TableInv
<1>1. ASSUME NEW j \in Jobs, Acquire(j) PROVE PermitsInv'
  <2>1. permits' \in Nat
    BY <1>1 DEF Acquire, PermitsInv
  <2> QED BY <1>0, <1>1, <2>1, PermitTaken DEF PermitsInv
<1>2. ASSUME NEW j \in Jobs, Release(j) \/ DropEarly(j) PROVE PermitsInv'
  <2>1. permits' \in Nat
    BY <1>2 DEF Release, DropEarly, PermitsInv
  <2> QED BY <1>0, <1>2, <2>1, PermitReturned DEF PermitsInv
<1>3. ASSUME permits' = permits,
             \A i \in Jobs : pc'[i] \in Holding <=> pc[i] \in Holding
      PROVE  PermitsInv'
  BY <1>3, PermitsKept DEF PermitsInv
<1>4. CASE UNCHANGED vars
  BY <1>3, <1>4 DEF vars, tvars
<1>5. ASSUME NEW j \in Jobs, Submit(j) PROVE PermitsInv'
  BY <1>0, <1>3, <1>5 DEF Submit, TableType, Holding
<1>6. ASSUME NEW j \in Jobs, Cancel(j) PROVE PermitsInv'
  BY <1>3, <1>6 DEF Cancel
<1>7. ASSUME NEW j \in Jobs, NEW s \in Streams, Subscribe(s, j) PROVE PermitsInv'
  BY <1>3, <1>7 DEF Subscribe, tvars
<1>8. ASSUME NEW s \in Streams, StreamJob(s) PROVE PermitsInv'
  BY <1>3, <1>8, StreamKeepsTable DEF tvars
<1>9. ASSUME NEW j \in Jobs,
             \/ Check(j) \/ FinishEarly(j) \/ Start(j) \/ Execute(j)
             \/ Recheck(j) \/ Finish(j)
      PROVE  PermitsInv'
  BY <1>0, <1>3, <1>9
     DEF Check, FinishEarly, Start, Execute, Recheck, Finish, Task, TableType, Holding
<1> QED BY <1>1, <1>2, <1>4, <1>5, <1>6, <1>7, <1>8, <1>9 DEF Next, Request, RunJob

\* The table grows in submit_job only, and there only if retention has made room.
LEMMA RetentionInit == Init => RetentionBounded
<1> SUFFICES ASSUME Init PROVE RetentionBounded
  OBVIOUS
<1>1. Table = {}
  BY DEF Init, Table
<1>2. MaxRetained \in Nat
  BY LimitsAssumption DEF LimitsAssumption
<1> QED BY <1>1, <1>2, FS_EmptySet DEF RetentionBounded

LEMMA TableShrinks ==
  ASSUME RetentionBounded, \A i \in Jobs : entry[i] = None => entry'[i] = None
  PROVE  RetentionBounded'
<1>1. Table' \subseteq Table
  BY DEF Table
<1>2. IsFiniteSet(Table) /\ Cardinality(Table) \in Nat
  BY JobsFinite DEF Table
<1>3. Cardinality(Table') <= Cardinality(Table) /\ Cardinality(Table') \in Nat
  BY <1>1, <1>2, FS_Subset, FS_CardinalityType
<1>4. MaxRetained \in Nat
  BY LimitsAssumption DEF LimitsAssumption
<1> QED BY <1>2, <1>3, <1>4 DEF RetentionBounded

LEMMA SubmitRetention ==
  ASSUME TableInv, RetentionBounded, NEW j \in Jobs, Submit(j)
  PROVE  RetentionBounded'
<1> DEFINE kept == Table \ Prunable
<1>0. TableType
  BY DEF TableInv
<1>1. CASE ~HasRoom
  BY <1>0, <1>1, PrunedEntries, TableShrinks DEF Submit
<1>2. CASE HasRoom
  <2>1. Cardinality(kept) < MaxRetained
    BY <1>2 DEF HasRoom
  <2>2. entry' = [Pruned EXCEPT ![j] = "queued"]
    BY <1>2 DEF Submit
  <2>3. \A i \in Jobs \ {j} : entry'[i] # None => i \in Table /\ i \notin Prunable
    BY <2>2 DEF Pruned, Table
  <2>4. Table' \subseteq kept \cup {j}
    BY <2>3 DEF Table
  <2> HIDE DEF kept
  <2>5. kept \in SUBSET Jobs /\ kept \cup {j} \in SUBSET Jobs
    BY DEF kept, Table
  <2>6. /\ IsFiniteSet(kept) /\ Cardinality(kept) \in Nat
        /\ IsFiniteSet(kept \cup {j}) /\ Cardinality(kept \cup {j}) \in Nat
    BY <2>5, JobsFinite
  <2>7. Cardinality(kept \cup {j}) <= Cardinality(kept) + 1
    BY <2>6, FS_AddElement
  <2>8. Cardinality(Table') <= Cardinality(kept \cup {j}) /\ Cardinality(Table') \in Nat
    BY <2>4, <2>6, FS_Subset, FS_CardinalityType
  <2>9. MaxRetained \in Nat
    BY LimitsAssumption DEF LimitsAssumption
  <2> QED BY <2>1, <2>6, <2>7, <2>8, <2>9 DEF RetentionBounded
<1> QED BY <1>1, <1>2

LEMMA RetentionStep ==
  TableInv /\ RetentionBounded /\ [Next]_vars => RetentionBounded'
<1> SUFFICES ASSUME TableInv, RetentionBounded, [Next]_vars PROVE RetentionBounded'
  OBVIOUS
<1>1. ASSUME entry' = entry PROVE RetentionBounded'
  BY <1>1, TableShrinks
<1>2. CASE UNCHANGED vars
  BY <1>1, <1>2 DEF vars, tvars
<1>3. ASSUME NEW j \in Jobs, Submit(j) PROVE RetentionBounded'
  BY <1>3, SubmitRetention
<1>4. ASSUME NEW j \in Jobs, Cancel(j) PROVE RetentionBounded'
  BY <1>4, TableShrinks DEF Cancel, SetStatus, TableInv, TableType
<1>5. ASSUME NEW j \in Jobs, NEW s \in Streams, Subscribe(s, j) PROVE RetentionBounded'
  BY <1>1, <1>5 DEF Subscribe, tvars
<1>6. ASSUME NEW j \in Jobs, RunJob(j) PROVE RetentionBounded'
  <2>1. \A i \in Jobs : entry[i] = None => entry'[i] = None
    BY <1>6, StatusIsNotNone
       DEF TableInv, TableType, RunJob, Acquire, Check, FinishEarly, DropEarly, Start,
           Execute, Release, Recheck, Finish, SetStatus
  <2> QED BY <2>1, TableShrinks
<1>7. ASSUME NEW s \in Streams, StreamJob(s) PROVE RetentionBounded'
  BY <1>1, <1>7, StreamKeepsTable DEF tvars
<1> QED BY <1>2, <1>3, <1>4, <1>5, <1>6, <1>7 DEF Next, Request

-----------------------------------------------------------------------------
(* Event channels *)

\* What sending to and reading from a bounded channel does to its last event.
LEMMA ChannelPush ==
  ASSUME NEW q \in Seq(Status), NEW e \in Status
  PROVE  /\ Append(q, e) \in Seq(Status) /\ Append(q, e) # <<>>
         /\ Append(q, e)[Len(Append(q, e))] = e
         /\ q # <<>> => Tail(q) \in Seq(Status)
<1>1. /\ Append(q, e) \in Seq(Status) /\ Len(Append(q, e)) = Len(q) + 1
      /\ Append(q, e)[Len(q) + 1] = e /\ Len(q) \in Nat
  BY AppendProperties, LenProperties
<1>2. Append(q, e) # <<>>
  BY <1>1, EmptySeq
<1> QED BY <1>1, <1>2, HeadTailProperties

LEMMA ChannelPop ==
  ASSUME NEW q \in Seq(Status), q # <<>>
  PROVE  /\ Head(q) \in Status /\ Tail(q) \in Seq(Status)
         /\ Tail(q) # <<>> => Tail(q)[Len(Tail(q))] = q[Len(q)]
         /\ Tail(q) = <<>> => Head(q) = q[Len(q)]
<1>1. /\ Head(q) \in Status /\ Tail(q) \in Seq(Status)
      /\ Len(Tail(q)) = Len(q) - 1 /\ Len(q) \in Nat \ {0}
      /\ \A i \in 1..Len(Tail(q)) : Tail(q)[i] = q[i + 1]
  BY HeadTailProperties, EmptySeq
<1>2. ASSUME Tail(q) # <<>> PROVE Tail(q)[Len(Tail(q))] = q[Len(q)]
  <2>1. Len(Tail(q)) \in 1..Len(Tail(q))
    BY <1>1, <1>2, EmptySeq
  <2>2. Len(Tail(q)) + 1 = Len(q)
    BY <1>1
  <2> QED BY <1>1, <2>1, <2>2
<1>3. ASSUME Tail(q) = <<>> PROVE Head(q) = q[Len(q)]
  <2>1. Len(q) = 1
    BY <1>1, <1>3, EmptySeq
  <2> QED BY <2>1
<1> QED BY <1>1, <1>2, <1>3

\* publish puts the event last in every channel of the job, touches no other.
LEMMA PublishEffect ==
  ASSUME ChannelType, NEW j \in Jobs, NEW e \in Status, Publish(j, e)
  PROVE  /\ inbox' \in [Streams -> Seq(Status)]
         /\ lag' \in [Streams -> BOOLEAN]
         /\ \A s \in Streams :
              IF Listening(s, j) THEN inbox'[s] # <<>> /\ inbox'[s][Len(inbox'[s])] = e
              ELSE inbox'[s] = inbox[s]
<1> DEFINE box(s) ==
      IF ~Listening(s, j) THEN inbox[s]
      ELSE IF Len(inbox[s]) < Capacity THEN Append(inbox[s], e)
      ELSE Append(Tail(inbox[s]), e)
<1>1. inbox' = [s \in Streams |-> box(s)]
  BY DEF Publish
<1>2. ASSUME NEW s \in Streams
      PROVE  /\ box(s) \in Seq(Status)
             /\ IF Listening(s, j) THEN box(s) # <<>> /\ box(s)[Len(box(s))] = e
                ELSE box(s) = inbox[s]
  <2> DEFINE q == inbox[s]
  <2>1. q \in Seq(Status)
    BY DEF ChannelType
  <2>2. Len(q) < Capacity \/ q # <<>>
    BY LimitsAssumption, EmptySeq DEF LimitsAssumption
  <2>3. CASE Len(q) < Capacity
    BY <2>1, <2>3, ChannelPush
  <2>4. CASE ~(Len(q) < Capacity)
    <3>1. Tail(q) \in Seq(Status)
      BY <2>1, <2>2, <2>4, HeadTailProperties
    <3>2. CASE Listening(s, j)
      <4>1. box(s) = Append(Tail(q), e)
        BY <2>4, <3>2
      <4> QED BY <3>1, <3>2, <4>1, ChannelPush
    <3>3. CASE ~Listening(s, j)
      BY <2>1, <3>3
    <3> QED BY <3>2, <3>3
  <2> QED BY <2>3, <2>4
<1> HIDE DEF box
<1>3. \A s \in Streams : inbox'[s] = box(s)
  BY <1>1
<1>4. lag' \in [Streams -> BOOLEAN]
  BY DEF Publish, ChannelType
<1> QED BY <1>1, <1>2, <1>3, <1>4

LEMMA ChannelInit == Init => ChannelInv
<1> SUFFICES ASSUME Init PROVE ChannelInv
  OBVIOUS
<1>1. ChannelType
  BY EmptySeq DEF Init, ChannelType, StreamPC
<1>2. \A s \in Streams : spc[s] = "none" /\ inbox[s] = <<>>
  BY DEF Init
<1> QED BY <1>1, <1>2 DEF ChannelInv, StreamsDefined, StreamCaughtUp, StreamEndsWithTerminal

\* A stream is not disturbed by a step of the table, if its channel and the
\* status of its job stay as they are, if the job is pruned, or if the channel
\* ends with the new status afterwards.
Undisturbed(s) ==
  /\ inbox'[s] = inbox[s]
  /\ Listening(s, sjob[s]) =>
       \/ entry'[sjob[s]] = entry[sjob[s]]
       \/ IsTerminal(sjob[s]) /\ entry'[sjob[s]] = None
Notified(s) ==
  /\ Listening(s, sjob[s])
  /\ inbox'[s] # <<>> /\ inbox'[s][Len(inbox'[s])] = entry'[sjob[s]]

LEMMA ChannelKept ==
  ASSUME ChannelInv, UNCHANGED svars,
         inbox' \in [Streams -> Seq(Status)], lag' \in [Streams -> BOOLEAN],
         \A i \in Jobs : pc[i] \notin {"none", "refused"} => pc'[i] \notin {"none", "refused"},
         \A s \in Streams : Undisturbed(s) \/ Notified(s)
  PROVE  ChannelInv'
<1> USE DEF ChannelInv, svars
<1>1. ChannelType'
  BY DEF ChannelType
<1>2. StreamsDefined'
  BY DEF StreamsDefined, Undisturbed, Notified, Listening
<1>3. StreamEndsWithTerminal'
  BY DEF StreamEndsWithTerminal
<1>4. ASSUME NEW s \in Streams, spc'[s] \in {"first", "recv", "send"}
      PROVE  \/ Newest(s)' = entry'[sjob'[s]]
             \/ entry'[sjob'[s]] = None /\ Newest(s)' \in Terminal
  <2>1. CASE Notified(s)
    BY <2>1 DEF Notified, Newest
  <2>2. CASE Undisturbed(s)
    <3>1. Newest(s)' = Newest(s)
      BY <2>2 DEF Undisturbed, Newest
    <3>2. \/ Newest(s) = entry[sjob[s]]
          \/ entry[sjob[s]] = None /\ Newest(s) \in Terminal
      BY <1>4 DEF StreamCaughtUp
    <3> QED BY <1>4, <2>2, <3>1, <3>2 DEF Undisturbed, Listening, IsTerminal
  <2> QED BY <2>1, <2>2
<1>5. StreamCaughtUp'
  BY <1>4 DEF StreamCaughtUp
<1> QED BY <1>1, <1>2, <1>3, <1>5

\* A status change notifies the streams of its job and no other.
LEMMA StatusNotifies ==
  ASSUME ChannelInv, TableType, NEW j \in Jobs, NEW st \in Status, SetStatus(j, st)
  PROVE  /\ inbox' \in [Streams -> Seq(Status)] /\ lag' \in [Streams -> BOOLEAN]
         /\ \A s \in Streams : Undisturbed(s) \/ Notified(s)
<1>0. ChannelType
  BY DEF ChannelInv
<1>1. CASE entry[j] = None
  BY <1>0, <1>1 DEF SetStatus, Unpublished, ChannelType, Undisturbed
<1>2. CASE entry[j] # None
  <2>1. entry' = [entry EXCEPT ![j] = st] /\ Publish(j, st)
    BY <1>2 DEF SetStatus
  <2>2. /\ inbox' \in [Streams -> Seq(Status)] /\ lag' \in [Streams -> BOOLEAN]
        /\ \A s \in Streams :
             IF Listening(s, j) THEN inbox'[s] # <<>> /\ inbox'[s][Len(inbox'[s])] = st
             ELSE inbox'[s] = inbox[s]
    BY <1>0, <2>1, PublishEffect
  <2>3. ASSUME NEW s \in Streams PROVE Undisturbed(s) \/ Notified(s)
    <3>1. CASE Listening(s, j)
      BY <2>1, <2>2, <3>1 DEF Notified, Listening, TableType
    <3>2. CASE ~Listening(s, j)
      BY <2>1, <2>2, <3>2 DEF Undisturbed, Listening, TableType
    <3> QED BY <3>1, <3>2
  <2> QED BY <2>2, <2>3
<1> QED BY <1>1, <1>2

LEMMA TaskChannel ==
  ASSUME TableInv, ChannelInv, NEW j \in Jobs, RunJob(j)
  PROVE  ChannelInv'
<1>0. TableType /\ ChannelType
  BY DEF TableInv, ChannelInv
<1>1. \A i \in Jobs :
        pc[i] \notin {"none", "refused"} => pc'[i] \notin {"none", "refused"}
  BY TaskEffect
<1>2. UNCHANGED svars
  BY DEF RunJob, Acquire, Check, FinishEarly, DropEarly, Start, Execute, Release,
         Recheck, Finish, svars
<1>3. CASE FinishEarly(j)
  BY <1>0, <1>1, <1>2, <1>3, StatusNotifies, ChannelKept DEF FinishEarly, Status, Terminal
<1>4. CASE Start(j)
  BY <1>0, <1>1, <1>2, <1>4, StatusNotifies, ChannelKept DEF Start, Status
<1>5. CASE Finish(j)
  <2>1. Final(j) \in Status
    BY <1>5, FinalStatus DEF Finish, Task, TableInv, TasksDefined, Status
  <2>2. SetStatus(j, Final(j))
    BY <1>5 DEF Finish
  <2> QED BY <1>0, <1>1, <1>2, <2>1, <2>2, StatusNotifies, ChannelKept
<1>6. CASE Acquire(j) \/ Check(j) \/ DropEarly(j) \/ Execute(j) \/ Release(j) \/ Recheck(j)
  <2>1. UNCHANGED <<entry, inbox, lag>>
    BY <1>6 DEF Acquire, Check, DropEarly, Execute, Release, Recheck, Unpublished
  <2>2. \A s \in Streams : Undisturbed(s)
    BY <2>1 DEF Undisturbed
  <2> QED BY <1>0, <1>1, <1>2, <2>1, <2>2, ChannelKept DEF ChannelType
<1> QED BY <1>3, <1>4, <1>5, <1>6 DEF RunJob

LEMMA CancelChannel ==
  ASSUME TableInv, ChannelInv, NEW j \in Jobs, Cancel(j)
  PROVE  ChannelInv'
<1>1. SetStatus(j, "cancelling") /\ UNCHANGED <<pc, svars>>
  BY DEF Cancel
<1> QED BY <1>1, StatusNotifies, ChannelKept DEF TableInv, Status

\* Submitting may remove finished jobs, and never brings back the job of a stream.
LEMMA SubmitChannel ==
  ASSUME TableInv, ChannelInv, NEW j \in Jobs, Submit(j)
  PROVE  ChannelInv'
<1>0. TableType /\ ChannelType /\ StreamsDefined
  BY DEF TableInv, ChannelInv
<1>1. UNCHANGED <<inbox, lag, svars>> /\ pc[j] = "none"
  BY DEF Submit, Unpublished
<1>2. \A i \in Jobs :
        /\ pc[i] \notin {"none", "refused"} => pc'[i] \notin {"none", "refused"}
        /\ i # j => entry'[i] = Pruned[i]
  BY <1>0, PrunedEntries DEF Submit, TableType
<1>3. ASSUME NEW s \in Streams PROVE Undisturbed(s)
  <2>1. CASE ~Listening(s, sjob[s])
    BY <1>1, <2>1 DEF Undisturbed
  <2>2. CASE Listening(s, sjob[s])
    <3>1. sjob[s] \in Jobs /\ sjob[s] # j
      BY <1>0, <1>1, <2>2 DEF StreamsDefined, Listening
    <3>2. \/ Pruned[sjob[s]] = entry[sjob[s]]
          \/ IsTerminal(sjob[s]) /\ Pruned[sjob[s]] = None
      BY <1>0, <3>1, PrunedEntries
    <3> QED BY <1>1, <1>2, <3>1, <3>2 DEF Undisturbed
  <2> QED BY <2>1, <2>2
<1> QED BY <1>0, <1>1, <1>2, <1>3, ChannelKept DEF ChannelType

\* A stream starts with the snapshot that belongs to its empty channel.
LEMMA SubscribeChannel ==
  ASSUME TableInv, ChannelInv, NEW s \in Streams, NEW j \in Jobs, Subscribe(s, j)
  PROVE  ChannelInv'
<1> USE DEF ChannelInv
<1>1. /\ entry[j] # None /\ spc[s] = "none" /\ spc' = [spc EXCEPT ![s] = "first"]
      /\ sjob' = [sjob EXCEPT ![s] = j] /\ event' = [event EXCEPT ![s] = entry[j]]
      /\ UNCHANGED <<entry, pc, seen, lost, inbox, lag>>
  BY DEF Subscribe, Stream, Unpublished, tvars
<1>2. entry[j] \in Status /\ pc[j] \notin {"none", "refused"} /\ inbox[s] = <<>>
  BY <1>1 DEF TableInv, TableType, TasksDefined, StreamsDefined
<1>3. ChannelType'
  BY <1>1, <1>2 DEF ChannelType, StreamPC
<1>4. StreamsDefined'
  BY <1>1, <1>2 DEF StreamsDefined, ChannelType
<1>5. StreamCaughtUp'
  BY <1>1, <1>2 DEF StreamCaughtUp, ChannelType, Newest
<1>6. StreamEndsWithTerminal'
  BY <1>1 DEF StreamEndsWithTerminal, ChannelType
<1> QED BY <1>3, <1>4, <1>5, <1>6

\* What a step of stream_job does to its stream: the newest snapshot it has or
\* will have stays the same while it goes on, and it ends with a terminal one.
\* The case of RecvError::Closed cannot happen, but needs the invariant for that.
LEMMA StreamEffect ==
  ASSUME TableInv, ChannelInv, NEW s \in Streams, StreamJob(s)
  PROVE  /\ ChannelType'
         /\ UNCHANGED <<entry, pc, sjob>>
         /\ \A r \in Streams \ {s} :
              /\ spc'[r] = spc[r] /\ inbox'[r] = inbox[r] /\ event'[r] = event[r]
              /\ seen'[r] = seen[r] /\ lost'[r] = lost[r]
         /\ spc[s] \in {"first", "recv", "send"}
         /\ \/ spc'[s] = "recv" /\ seen'[s] \in Status /\ Newest(s)' = Newest(s)
            \/ spc'[s] = "send" /\ event'[s] \in Status /\ Newest(s)' = Newest(s)
            \/ spc'[s] = "ended" /\ (lost'[s] \/ seen'[s] \in Terminal)
<1> USE DEF Stream, Unpublished, tvars, ChannelType, StreamPC, ChannelInv
<1>1. CASE SendFirst(s) \/ Send(s)
  <2>1. event[s] \in Status
    BY <1>1 DEF SendFirst, Send, StreamsDefined
  <2>2. /\ spc[s] \in {"first", "send"}
        /\ spc' = [spc EXCEPT ![s] = IF event[s] \in Terminal THEN "ended" ELSE "recv"]
        /\ seen' = [seen EXCEPT ![s] = event[s]]
        /\ UNCHANGED <<entry, pc, sjob, event, lost, inbox, lag>>
    BY <1>1 DEF SendFirst, Send, Sent
  <2> QED BY <2>1, <2>2 DEF Newest
<1>2. CASE SendFails(s)
  BY <1>2 DEF SendFails
<1>3. CASE Lagged(s)
  BY <1>3 DEF Lagged, Newest, StreamsDefined
<1>4. CASE Receive(s) /\ inbox[s] # <<>>
  <2>1. /\ inbox[s] # <<>> /\ spc[s] = "recv" /\ spc' = [spc EXCEPT ![s] = "send"]
        /\ event' = [event EXCEPT ![s] = Head(inbox[s])]
        /\ inbox' = [inbox EXCEPT ![s] = Tail(inbox[s])]
        /\ UNCHANGED <<entry, pc, sjob, lag, seen, lost>>
    BY <1>4 DEF Receive
  <2> DEFINE q == inbox[s]
  <2>2. /\ Head(q) \in Status /\ Tail(q) \in Seq(Status)
        /\ Tail(q) # <<>> => Tail(q)[Len(Tail(q))] = q[Len(q)]
        /\ Tail(q) = <<>> => Head(q) = q[Len(q)]
    BY <2>1, ChannelPop
  <2>3. inbox'[s] = Tail(q) /\ event'[s] = Head(q) /\ spc'[s] = "send"
    BY <2>1
  <2>4. Newest(s)' = Newest(s)
    BY <2>1, <2>2, <2>3 DEF Newest
  <2>5. inbox' \in [Streams -> Seq(Status)] /\ event' \in [Streams -> Status \cup {None}]
    BY <2>1, <2>2
  <2> QED BY <2>1, <2>2, <2>3, <2>4, <2>5
<1>5. CASE Receive(s) /\ inbox[s] = <<>>
  <2>1. /\ inbox[s] = <<>> /\ spc[s] = "recv" /\ entry[sjob[s]] = None
        /\ spc' = [spc EXCEPT ![s] = "ended"]
        /\ UNCHANGED <<entry, pc, sjob, inbox, lag, event, seen, lost>>
    BY <1>5 DEF Receive
  <2>2. seen[s] \in Status /\ Newest(s) = seen[s]
    BY <2>1 DEF StreamsDefined, Newest
  <2>3. seen[s] \in Terminal
    BY <2>1, <2>2, StatusIsNotNone DEF StreamCaughtUp
  <2> QED BY <2>1, <2>3
<1> QED BY <1>1, <1>2, <1>3, <1>4, <1>5 DEF StreamJob

LEMMA StreamChannel ==
  ASSUME TableInv, ChannelInv, NEW s \in Streams, StreamJob(s)
  PROVE  ChannelInv'
<1> USE DEF ChannelInv
<1>1. ChannelType'
  BY StreamEffect
<1>2. StreamsDefined'
  BY StreamEffect DEF StreamsDefined
<1>3. \A r \in Streams \ {s} : Newest(r)' = Newest(r)
  BY StreamEffect DEF Newest
<1>4. StreamCaughtUp'
  <2> SUFFICES ASSUME NEW r \in Streams, spc'[r] \in {"first", "recv", "send"}
               PROVE  \/ Newest(r)' = entry'[sjob'[r]]
                      \/ entry'[sjob'[r]] = None /\ Newest(r)' \in Terminal
    BY DEF StreamCaughtUp
  <2>1. Newest(r)' = Newest(r) /\ spc[r] \in {"first", "recv", "send"}
    BY <1>3, StreamEffect
  <2>2. \/ Newest(r) = entry[sjob[r]]
        \/ entry[sjob[r]] = None /\ Newest(r) \in Terminal
    BY <2>1 DEF StreamCaughtUp
  <2>3. entry' = entry /\ sjob' = sjob
    BY StreamEffect
  <2> QED BY <2>1, <2>2, <2>3
<1>5. StreamEndsWithTerminal'
  BY StreamEffect DEF StreamEndsWithTerminal
<1> QED BY <1>1, <1>2, <1>4, <1>5

LEMMA ChannelStep == TableInv /\ ChannelInv /\ [Next]_vars => ChannelInv'
<1> SUFFICES ASSUME TableInv, ChannelInv, [Next]_vars PROVE ChannelInv'
  OBVIOUS
<1>1. CASE UNCHANGED vars
  <2>1. \A s \in Streams : Undisturbed(s)
    BY <1>1 DEF vars, tvars, Undisturbed
  <2> QED BY <1>1, <2>1, ChannelKept DEF vars, tvars, ChannelInv, ChannelType
<1>2. ASSUME NEW j \in Jobs, Submit(j) PROVE ChannelInv'
  BY <1>2, SubmitChannel
<1>3. ASSUME NEW j \in Jobs, Cancel(j) PROVE ChannelInv'
  BY <1>3, CancelChannel
<1>4. ASSUME NEW j \in Jobs, NEW s \in Streams, Subscribe(s, j) PROVE ChannelInv'
  BY <1>4, SubscribeChannel
<1>5. ASSUME NEW j \in Jobs, RunJob(j) PROVE ChannelInv'
  BY <1>5, TaskChannel
<1>6. ASSUME NEW s \in Streams, StreamJob(s) PROVE ChannelInv'
  BY <1>6, StreamChannel
<1> QED BY <1>1, <1>2, <1>3, <1>4, <1>5, <1>6 DEF Next, Request

-----------------------------------------------------------------------------
(* The theorems *)

LEMMA InitInv == Init => IInv /\ permits \in Nat
  BY TableInit, PermitsInit, RetentionInit, ChannelInit, LimitsAssumption
     DEF IInv, Init, LimitsAssumption

LEMMA StepInv == IInv /\ permits \in Nat /\ [Next]_vars => (IInv /\ permits \in Nat)'
  BY TableStep, PermitsStep, RetentionStep, ChannelStep DEF IInv, PermitsInv

LEMMA Invariance == Spec => [](IInv /\ permits \in Nat)
  BY InitInv, StepInv, PTL DEF Spec

\* Types of the table, the permits and the channels: permits stay between zero
\* and max_concurrent_jobs because they are conserved.
THEOREM TypeCorrect == Spec => []TypeOK
<1>1. IInv /\ permits \in Nat => TypeOK
  <2> SUFFICES ASSUME IInv, permits \in Nat PROVE TypeOK
    OBVIOUS
  <2>1. Cardinality({j \in Jobs : pc[j] \in Holding}) \in Nat
    BY JobsFinite
  <2>2. permits \in 0..MaxConcurrent
    BY <2>1, LimitsAssumption DEF IInv, PermitsConserved, LimitsAssumption
  <2> QED BY <2>2 DEF IInv, TableInv, TableType, ChannelInv, ChannelType, TypeOK
<1> QED BY <1>1, Invariance, PTL

\* run_job returns every permit exactly once.
THEOREM PermitsAreConserved == Spec => []PermitsConserved
  BY Invariance, PTL DEF IInv

\* submit_job and prune_terminal_jobs keep the table within max_retained_jobs.
THEOREM RetentionIsBounded == Spec => []RetentionBounded
  BY Invariance, PTL DEF IInv

\* prune_terminal_jobs never removes a job that still runs.
THEOREM ActiveJobsAreRetained == Spec => []ActiveJobsRetained
  BY Invariance, PTL DEF IInv, TableInv

\* A cancel that was answered decides how the job ends, unless its engine panics.
THEOREM CancelsWin == Spec => []CancelWins
  BY Invariance, PTL DEF IInv, TableInv

\* A subscriber can always still learn the current status of its job.
THEOREM StreamsCatchUp == Spec => []StreamCaughtUp
  BY Invariance, PTL DEF IInv, ChannelInv

\* stream_job stops on its own only after the terminal snapshot.
THEOREM StreamsEndWithTerminal == Spec => []StreamEndsWithTerminal
  BY Invariance, PTL DEF IInv, ChannelInv

\* Terminal statuses are final, as an action property.
THEOREM TerminalIsFinal == Spec => TerminalOnce
<1>1. IInv /\ [Next]_vars =>
        [\A j \in Jobs :
           /\ IsTerminal(j) => entry'[j] \in {entry[j], None}
           /\ (pc[j] # "none" /\ entry[j] = None) => entry'[j] = None]_vars
  <2> SUFFICES ASSUME IInv, Next, NEW j \in Jobs
               PROVE  /\ IsTerminal(j) => entry'[j] \in {entry[j], None}
                      /\ (pc[j] # "none" /\ entry[j] = None) => entry'[j] = None
    OBVIOUS
  <2>0. TableInv /\ TableType
    BY DEF IInv, TableInv
  <2>1. ASSUME NEW i \in Jobs, Submit(i)
        PROVE  entry'[j] \in {entry[j], None} \/ (i = j /\ pc[j] = "none" /\ entry[j] = None)
    <3>1. Pruned \in [Jobs -> Status \cup {None}] /\ Pruned[j] \in {entry[j], None}
      BY <2>0, PrunedEntries
    <3> QED BY <2>0, <2>1, <3>1 DEF Submit, TableInv, TasksDefined
  <2>2. ASSUME NEW i \in Jobs, Cancel(i)
        PROVE  entry'[j] = entry[j] \/ (entry[j] # None /\ ~IsTerminal(j))
    BY <2>0, <2>2 DEF Cancel, SetStatus, TableType
  <2>3. ASSUME NEW i \in Jobs, RunJob(i)
        PROVE  entry'[j] = entry[j] \/ (entry[j] # None /\ ~IsTerminal(j))
    <3>1. CASE i # j
      BY <2>0, <2>3, <3>1, TaskEffect
    <3>2. CASE i = j
      <4>1. pc[j] \in {"drop_early", "done"} \/ (entry[j] # None /\ ~IsTerminal(j))
        BY <2>0, <2>3, <3>2, TaskEffect DEF TableInv, ActiveJobsRetained
      <4>2. pc[j] = "drop_early" => entry'[j] = entry[j]
        BY <2>3, <3>2 DEF RunJob, Task, Acquire, Check, FinishEarly, DropEarly, Start,
             Execute, Release, Recheck, Finish
      <4> QED BY <2>0, <2>3, <3>2, <4>1, <4>2, TaskEffect
    <3> QED BY <3>1, <3>2
  <2>4. ASSUME NEW s \in Streams, StreamJob(s) PROVE entry' = entry
    BY <2>4, StreamKeepsTable DEF tvars
  <2>5. ASSUME NEW s \in Streams, NEW i \in Jobs, Subscribe(s, i) PROVE entry' = entry
    BY <2>5 DEF Subscribe, tvars
  <2> QED BY <2>1, <2>2, <2>3, <2>4, <2>5, StatusIsNotNone DEF Next, Request, IsTerminal
<1> QED BY <1>1, Invariance, PTL DEF Spec, TerminalOnce
============================================================================
