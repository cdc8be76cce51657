--------------------------- MODULE LifecycleProofs ---------------------------
(* Theorems about the lifecycle database, for any jobs, processes and leases. *)
EXTENDS Lifecycle, TLAPS

USE DEF Active, Ended, JobStates

\* What IInv says of one job: its row r, the processes W that acted in its
\* generation, the expiries G promised to each process, at time t.
RowInv(r, W, G, t) ==
  /\ \A p \in Procs : G[p] > t => /\ r.state \in Active
                                  /\ r.owner = p
                                  /\ r.until = G[p]
  /\ r.attempts = r.gen
  /\ r.attempts <= r.budget
  /\ r.state = "queued" => r.attempts < r.budget
  /\ r.state \in Active => r.owner \in Procs /\ r.until > 0 /\ r.error = "none"
  /\ r.state \notin Active => r.until = 0
  /\ r.state \in {"absent", "queued"} => r.owner = NoProc /\ r.error = "none"
  /\ r.state \in {"failed", "stalled"} => r.owner \in Procs
  /\ r.evidence <=> r.state = "completed"
  /\ r.ended <=> r.state \in Ended
  /\ r.budget = 0 <=> r.state = "absent"
  /\ r.state \in Active \cup {"failed", "stalled"} => W = {r.owner}
  /\ \A p, q \in W : p = q

JobInv(j) == RowInv(job[j], workers[j], grant[j], clock)

\* A step of one job leaves time and every other job alone.
Frame(j) ==
  /\ clock' = clock
  /\ \A i \in Jobs \ {j} : /\ job'[i] = job[i]
                           /\ workers'[i] = workers[i]
                           /\ grant'[i] = grant[i]

LEMMA IInvParts == IInv <=> TypeOK /\ \A j \in Jobs : JobInv(j)
  BY DEF IInv, JobInv, RowInv, PromiseKept, BudgetRespected, RowConsistent,
         WorkersKnown, OneWorkerPerGeneration

LEMMA IInvPartsNext == IInv' <=> TypeOK' /\ \A j \in Jobs : JobInv(j)'
  BY DEF IInv, JobInv, RowInv, PromiseKept, BudgetRespected, RowConsistent,
         WorkersKnown, OneWorkerPerGeneration

\* A step of one job preserves the invariant if it does so for that job.
LEMMA OneJobStep ==
  ASSUME IInv, NEW j \in Jobs, TypeOK', Frame(j), JobInv(j)'
  PROVE  IInv'
<1>1. ASSUME NEW i \in Jobs, i # j
      PROVE  JobInv(i)'
  <2>1. JobInv(i)
    BY IInvParts
  <2> QED
    BY <2>1, <1>1 DEF Frame, JobInv
<1> QED
  BY <1>1, IInvPartsNext

LEMMA TypeInit == Init => IInv
<1> SUFFICES ASSUME Init PROVE IInv
  OBVIOUS
<1>1. NoJob \in Job /\ NoIntentRow \in Intent
  BY DEF NoJob, NoIntentRow, Job, Intent, IntentStates
<1>2. TypeOK
  BY <1>1 DEF Init, TypeOK
<1>3. ASSUME NEW j \in Jobs PROVE JobInv(j)
  BY ConstantsAssumption DEF Init, JobInv, RowInv, NoJob
<1> QED
  BY <1>2, <1>3, IInvParts

\* What a keyed transition of job j does to the tables.
LEMMA TransitionEffect ==
  ASSUME TypeOK, NEW j \in Jobs, NEW k \in Keys \cup {NoKey}, NEW F,
         NEW row \in Job, NEW p \in Procs \cup {NoProc}, NEW g \in Nat,
         Transition(j, k, F, row, p, g)
  PROVE  /\ job[j].state \in F
         /\ job' \in [Jobs -> Job]
         /\ job'[j] = row
         /\ \A i \in Jobs \ {j} : job'[i] = job[i]
         /\ log' \subseteq LogEntry
         /\ clock' = clock
         /\ intent' \in [Intents -> Intent]
<1>1. job[j].state \in JobStates /\ row.state \in JobStates
  BY DEF TypeOK, Job
<1>2. log' \subseteq LogEntry
  BY <1>1 DEF Transition, Record, TypeOK, LogEntry
<1> QED
  BY <1>2 DEF Transition, TypeOK

\* A time the caller read, and the expiry it computes from it, are numbers.
LEMMA ClockTypes ==
  ASSUME TypeOK, NEW now \in Clocks, NEW d \in LeaseTimes
  PROVE  /\ now \in Nat \ {0} /\ now <= clock
         /\ now + d \in Nat /\ now + d > 0
  BY ConstantsAssumption DEF TypeOK, Clocks

LEMMA ClockIsPast ==
  ASSUME TypeOK, NEW now \in Clocks
  PROVE  now \in Nat \ {0} /\ now <= clock
  BY DEF TypeOK, Clocks

LEMMA EnqueueStep ==
  ASSUME IInv, NEW j \in Jobs, NEW i \in Intents \cup {NoIntent},
         NEW b \in Budgets, EnqueueJob(j, i, b)
  PROVE  IInv'
<1>1. TypeOK /\ JobInv(j) /\ b \in Nat \ {0}
  BY IInvParts, ConstantsAssumption
<1>2. job'[j] = [NoJob EXCEPT !.state = "queued", !.intent = i, !.budget = b]
  BY <1>1 DEF EnqueueJob, TypeOK
<1>3. job'[j] \in Job
  <2>1. NoJob \in Job
    BY DEF NoJob, Job
  <2> QED
    BY <1>1, <1>2, <2>1 DEF Job
<1>4. TypeOK'
  BY <1>1, <1>2, <1>3 DEF EnqueueJob, TypeOK
<1>5. Frame(j)
  BY <1>1 DEF EnqueueJob, Frame, TypeOK
<1>6. JobInv(j)'
  BY <1>1, <1>2 DEF EnqueueJob, JobInv, RowInv, NoJob, TypeOK
<1> QED
  BY <1>4, <1>5, <1>6, OneJobStep

\* A keyed transition of job j preserves the invariant when the new row, the
\* new set of workers and the new promises agree with each other.
LEMMA MoveStep ==
  ASSUME IInv, NEW j \in Jobs, NEW k \in Keys \cup {NoKey}, NEW F,
         NEW row \in Job, NEW p \in Procs, NEW g \in Nat,
         NEW W \in SUBSET Procs, NEW G \in [Procs -> Nat],
         Transition(j, k, F, row, p, g),
         workers' = [workers EXCEPT ![j] = W],
         grant' = [grant EXCEPT ![j] = G],
         RowInv(row, W, G, clock)
  PROVE  IInv'
<1>1. TypeOK
  BY IInvParts
<1>2. /\ job' \in [Jobs -> Job]
      /\ job'[j] = row
      /\ \A i \in Jobs \ {j} : job'[i] = job[i]
      /\ log' \subseteq LogEntry
      /\ clock' = clock
      /\ intent' \in [Intents -> Intent]
  BY <1>1, TransitionEffect
<1>3. workers'[j] = W /\ grant'[j] = G
  BY <1>1 DEF TypeOK
<1>4. TypeOK'
  BY <1>1, <1>2 DEF TypeOK
<1>5. Frame(j)
  BY <1>1, <1>2 DEF Frame, TypeOK
<1>6. JobInv(j)'
  BY <1>2, <1>3 DEF JobInv
<1> QED
  BY <1>4, <1>5, <1>6, OneJobStep

\* Both histories can be read as updates of one job, touched or not.
LEMMA Histories ==
  ASSUME TypeOK, NEW j \in Jobs, NEW p \in Procs, NEW t \in Nat
  PROVE  /\ Acts(j, p) => workers' = [workers EXCEPT ![j] = workers[j] \cup {p}]
         /\ UNCHANGED workers => workers' = [workers EXCEPT ![j] = workers[j]]
         /\ Granted(j, p, t) =>
              grant' = [grant EXCEPT ![j] = [grant[j] EXCEPT ![p] = t]]
         /\ UNCHANGED grant => grant' = [grant EXCEPT ![j] = grant[j]]
         /\ workers[j] \cup {p} \in SUBSET Procs
         /\ workers[j] \in SUBSET Procs
         /\ [grant[j] EXCEPT ![p] = t] \in [Procs -> Nat]
         /\ grant[j] \in [Procs -> Nat]
  BY DEF Acts, Granted, TypeOK

LEMMA StartStep ==
  ASSUME IInv, NEW j \in Jobs, NEW p \in Procs, NEW k \in Keys \cup {NoKey},
         NEW now \in Clocks, NEW d \in LeaseTimes, StartJob(j, p, k, now, d)
  PROVE  IInv'
<1> DEFINE row == [job[j] EXCEPT !.state = "running", !.owner = p,
                     !.until = now + d, !.gen = @ + 1, !.attempts = @ + 1,
                     !.error = "none", !.evidence = FALSE, !.ended = FALSE]
<1>1. TypeOK /\ JobInv(j)
  BY IInvParts
<1>2. now + d \in Nat /\ now + d > 0
  BY <1>1, ClockTypes
<1>3. job[j] \in Job
  BY <1>1 DEF TypeOK
<1>4. job[j].gen + 1 \in Nat /\ job[j].attempts + 1 \in Nat
  BY <1>3 DEF Job
<1>5. row \in Job
  BY <1>2, <1>3, <1>4 DEF Job
<1> DEFINE G == [grant[j] EXCEPT ![p] = now + d]
<1>6. Transition(j, k, {"queued"}, row, p, job[j].gen + 1)
  BY DEF StartJob
<1>7. job[j].state = "queued"
  BY <1>6 DEF Transition
<1>8. workers' = [workers EXCEPT ![j] = {p}] /\ grant' = [grant EXCEPT ![j] = G]
  BY DEF StartJob, Granted
<1>9. G \in [Procs -> Nat] /\ {p} \in SUBSET Procs
  BY <1>1, <1>2, Histories
<1>10. ASSUME NEW q \in Procs, G[q] > clock
       PROVE  q = p /\ G[q] = now + d
  BY <1>1, <1>7, <1>10 DEF JobInv, RowInv, TypeOK
<1>11. RowInv(row, {p}, G, clock)
  <2>1. job[j].attempts = job[j].gen /\ job[j].attempts < job[j].budget
    BY <1>1, <1>7 DEF JobInv, RowInv
  <2> HIDE DEF G
  <2> QED
    BY <1>2, <1>3, <1>10, <2>1 DEF RowInv, Job
<1> HIDE DEF row, G
<1> QED
  BY <1>4, <1>5, <1>6, <1>8, <1>9, <1>11, MoveStep

\* While p holds the job, p alone acted and p alone may hold a promise.
LEMMA HolderAlone ==
  ASSUME IInv, NEW j \in Jobs, NEW p \in Procs, job[j].owner = p,
         job[j].state \in Active
  PROVE  /\ workers[j] \cup {p} = {p}
         /\ \A q \in Procs : grant[j][q] > clock => q = p
         /\ \A t \in Nat, q \in Procs :
              [grant[j] EXCEPT ![p] = t][q] > clock => q = p
<1>1. TypeOK /\ JobInv(j)
  BY IInvParts
<1> QED
  BY <1>1 DEF JobInv, RowInv, TypeOK

LEMMA HeartbeatStep ==
  ASSUME IInv, NEW j \in Jobs, NEW p \in Procs, NEW g \in Nat,
         NEW now \in Clocks, NEW d \in LeaseTimes, Heartbeat(j, p, g, now, d)
  PROVE  IInv'
<1> DEFINE G == [grant[j] EXCEPT ![p] = now + d]
<1>1. TypeOK /\ JobInv(j)
  BY IInvParts
<1>2. now + d \in Nat /\ now + d > 0
  BY <1>1, ClockTypes
<1>3. job[j] \in Job /\ job[j].state \in Active /\ job[j].owner = p
  BY <1>1 DEF Heartbeat, HoldsFresh, Holds, TypeOK
<1>4. job' = [job EXCEPT ![j] = [job[j] EXCEPT !.until = now + d]]
  BY DEF Heartbeat
<1>5. /\ [job[j] EXCEPT !.until = now + d] \in Job
      /\ job'[j] = [job[j] EXCEPT !.until = now + d]
  BY <1>1, <1>2, <1>3, <1>4 DEF Job, TypeOK
<1>6. /\ workers' = [workers EXCEPT ![j] = {p}] /\ {p} \in SUBSET Procs
      /\ grant' = [grant EXCEPT ![j] = G] /\ G \in [Procs -> Nat]
  BY <1>1, <1>2, <1>3, Histories, HolderAlone DEF Heartbeat
<1>7. TypeOK'
  BY <1>1, <1>4, <1>5, <1>6 DEF Heartbeat, TypeOK
<1>8. Frame(j)
  BY <1>1, <1>4, <1>6 DEF Heartbeat, Frame, TypeOK
<1>9. JobInv(j)'
  <2>1. \A q \in Procs : G[q] > clock => q = p /\ G[q] = now + d
    BY <1>1, <1>2, <1>3, HolderAlone DEF TypeOK
  <2>2. workers'[j] = {p} /\ grant'[j] = G /\ clock' = clock
    BY <1>1, <1>6 DEF TypeOK, Heartbeat
  <2> HIDE DEF G
  <2> QED
    BY <1>1, <1>2, <1>3, <1>5, <2>1, <2>2 DEF JobInv, RowInv, Job
<1> QED
  BY <1>7, <1>8, <1>9, OneJobStep

\* The fence of a worker's call: p is the recorded owner.
LEMMA FenceMeansOwner ==
  ASSUME NEW j, NEW p, NEW g, NEW now, HoldsFresh(j, p, g, now)
  PROVE  job[j].owner = p
  BY DEF HoldsFresh, Holds

LEMMA CheckpointStep ==
  ASSUME IInv, NEW j \in Jobs, NEW p \in Procs, NEW g \in Nat,
         NEW k \in Keys \cup {NoKey}, NEW now \in Clocks,
         CheckpointJob(j, p, g, k, now)
  PROVE  IInv'
<1> DEFINE row == [job[j] EXCEPT !.state = "checkpointed"]
<1>1. TypeOK /\ JobInv(j)
  BY IInvParts
<1>2. /\ Transition(j, k, {"running"}, row, p, g)
      /\ job[j].state = "running" /\ job[j].owner = p
  BY FenceMeansOwner DEF CheckpointJob, Transition
<1>3. job[j] \in Job /\ row \in Job
  <2>1. job[j] \in Job
    BY <1>1 DEF TypeOK
  <2> QED
    BY <2>1 DEF Job
<1>4. /\ workers' = [workers EXCEPT ![j] = {p}] /\ {p} \in SUBSET Procs
      /\ grant' = [grant EXCEPT ![j] = grant[j]] /\ grant[j] \in [Procs -> Nat]
  BY <1>1, <1>2, Histories, HolderAlone DEF CheckpointJob
<1>5. RowInv(row, {p}, grant[j], clock)
  BY <1>1, <1>2, <1>3 DEF JobInv, RowInv, Job
<1> QED
  BY <1>2, <1>3, <1>4, <1>5, MoveStep

LEMMA VerificationStep ==
  ASSUME IInv, NEW j \in Jobs, NEW p \in Procs, NEW g \in Nat,
         NEW k \in Keys \cup {NoKey}, NEW now \in Clocks,
         BeginVerification(j, p, g, k, now)
  PROVE  IInv'
<1> DEFINE row == [job[j] EXCEPT !.state = "verifying"]
<1>1. TypeOK /\ JobInv(j)
  BY IInvParts
<1>2. /\ Transition(j, k, {"running", "checkpointed"}, row, p, g)
      /\ job[j].state \in Active /\ job[j].owner = p
  BY FenceMeansOwner DEF BeginVerification, Transition
<1>3. job[j] \in Job /\ row \in Job
  <2>1. job[j] \in Job
    BY <1>1 DEF TypeOK
  <2> QED
    BY <2>1 DEF Job
<1>4. /\ workers' = [workers EXCEPT ![j] = {p}] /\ {p} \in SUBSET Procs
      /\ grant' = [grant EXCEPT ![j] = grant[j]] /\ grant[j] \in [Procs -> Nat]
  BY <1>1, <1>2, Histories, HolderAlone DEF BeginVerification
<1>5. RowInv(row, {p}, grant[j], clock)
  BY <1>1, <1>2, <1>3 DEF JobInv, RowInv, Job
<1> QED
  BY <1>2, <1>3, <1>4, <1>5, MoveStep

LEMMA ResumeStep ==
  ASSUME IInv, NEW j \in Jobs, NEW p \in Procs, NEW g \in Nat,
         NEW k \in Keys \cup {NoKey}, NEW now \in Clocks,
         NEW d \in LeaseTimes, ResumeJob(j, p, g, k, now, d)
  PROVE  IInv'
<1> DEFINE row == [job[j] EXCEPT !.state = "running", !.until = now + d]
           G == [grant[j] EXCEPT ![p] = now + d]
<1>1. TypeOK /\ JobInv(j)
  BY IInvParts
<1>2. /\ Transition(j, k, {"checkpointed"}, row, p, g)
      /\ job[j].state = "checkpointed" /\ job[j].owner = p
  BY FenceMeansOwner DEF ResumeJob, Transition
<1>3. now + d \in Nat /\ now + d > 0
  BY <1>1, ClockTypes
<1>4. job[j] \in Job /\ row \in Job
  <2>1. job[j] \in Job
    BY <1>1 DEF TypeOK
  <2> QED
    BY <2>1, <1>3 DEF Job
<1>5. /\ workers' = [workers EXCEPT ![j] = {p}] /\ {p} \in SUBSET Procs
      /\ grant' = [grant EXCEPT ![j] = G] /\ G \in [Procs -> Nat]
  BY <1>1, <1>2, <1>3, Histories, HolderAlone DEF ResumeJob
<1>6. RowInv(row, {p}, G, clock)
  <2>1. \A q \in Procs : G[q] > clock => q = p /\ G[q] = now + d
    BY <1>1, <1>2, <1>3, HolderAlone DEF TypeOK
  <2> HIDE DEF G
  <2> QED
    BY <1>1, <1>2, <1>3, <1>4, <2>1 DEF JobInv, RowInv, Job
<1> HIDE DEF row, G
<1> QED
  BY <1>2, <1>4, <1>5, <1>6, MoveStep

LEMMA CompleteStep ==
  ASSUME IInv, NEW j \in Jobs, NEW p \in Procs, NEW g \in Nat,
         NEW k \in Keys \cup {NoKey}, NEW now \in Clocks,
         CompleteJob(j, p, g, k, now)
  PROVE  IInv'
<1> DEFINE row == [job[j] EXCEPT !.state = "completed", !.evidence = TRUE,
                     !.owner = NoProc, !.until = 0, !.ended = TRUE]
           G == [grant[j] EXCEPT ![p] = 0]
<1>1. TypeOK /\ JobInv(j)
  BY IInvParts
<1>2. /\ Transition(j, k, {"verifying"}, row, p, g)
      /\ job[j].state = "verifying" /\ job[j].owner = p
  BY FenceMeansOwner DEF CompleteJob, Transition
<1>3. job[j] \in Job /\ row \in Job
  <2>1. job[j] \in Job
    BY <1>1 DEF TypeOK
  <2> QED
    BY <2>1 DEF Job
<1>4. /\ workers' = [workers EXCEPT ![j] = {p}] /\ {p} \in SUBSET Procs
      /\ grant' = [grant EXCEPT ![j] = G] /\ G \in [Procs -> Nat]
  BY <1>1, <1>2, Histories, HolderAlone DEF CompleteJob
<1>5. RowInv(row, {p}, G, clock)
  <2>1. \A q \in Procs : ~(G[q] > clock)
    BY <1>1, <1>2, HolderAlone DEF TypeOK
  <2> HIDE DEF G
  <2> QED
    BY <1>1, <1>2, <1>3, <2>1 DEF JobInv, RowInv, Job
<1> HIDE DEF row, G
<1> QED
  BY <1>2, <1>3, <1>4, <1>5, MoveStep

LEMMA FailStep ==
  ASSUME IInv, NEW j \in Jobs, NEW p \in Procs, NEW g \in Nat,
         NEW k \in Keys \cup {NoKey}, NEW now \in Clocks,
         FailJob(j, p, g, k, now)
  PROVE  IInv'
<1> DEFINE row == [job[j] EXCEPT !.state = "failed", !.error = "reported",
                     !.until = 0, !.ended = TRUE]
           G == [grant[j] EXCEPT ![p] = 0]
<1>1. TypeOK /\ JobInv(j)
  BY IInvParts
<1>2. /\ Transition(j, k, Active, row, p, g)
      /\ job[j].state \in Active /\ job[j].owner = p
  BY FenceMeansOwner DEF FailJob, Transition
<1>3. job[j] \in Job /\ row \in Job
  <2>1. job[j] \in Job
    BY <1>1 DEF TypeOK
  <2> QED
    BY <2>1 DEF Job
<1>4. /\ workers' = [workers EXCEPT ![j] = {p}] /\ {p} \in SUBSET Procs
      /\ grant' = [grant EXCEPT ![j] = G] /\ G \in [Procs -> Nat]
  BY <1>1, <1>2, Histories, HolderAlone DEF FailJob
<1>5. RowInv(row, {p}, G, clock)
  <2>1. \A q \in Procs : ~(G[q] > clock)
    BY <1>1, <1>2, HolderAlone DEF TypeOK
  <2> HIDE DEF G
  <2> QED
    BY <1>1, <1>2, <1>3, <2>1 DEF JobInv, RowInv, Job
<1> HIDE DEF row, G
<1> QED
  BY <1>2, <1>3, <1>4, <1>5, MoveStep

LEMMA RetryStep ==
  ASSUME IInv, NEW j \in Jobs, NEW p \in Procs, NEW g \in Nat,
         NEW k \in Keys \cup {NoKey}, RetryJob(j, p, g, k)
  PROVE  IInv'
<1> DEFINE row == [job[j] EXCEPT !.state = "queued", !.owner = NoProc,
                     !.until = 0, !.error = "none", !.evidence = FALSE,
                     !.ended = FALSE]
<1>1. TypeOK /\ JobInv(j)
  BY IInvParts
<1>2. /\ Transition(j, k, {"failed", "stalled"}, row, p, g)
      /\ job[j].state \in {"failed", "stalled"}
      /\ job[j].attempts < job[j].budget
  BY DEF RetryJob, Transition
<1>3. job[j] \in Job /\ row \in Job
  <2>1. job[j] \in Job
    BY <1>1 DEF TypeOK
  <2> QED
    BY <2>1 DEF Job
<1>4. /\ workers' = [workers EXCEPT ![j] = workers[j]]
      /\ workers[j] \in SUBSET Procs
      /\ grant' = [grant EXCEPT ![j] = grant[j]] /\ grant[j] \in [Procs -> Nat]
  BY <1>1, Histories DEF RetryJob
<1>5. RowInv(row, workers[j], grant[j], clock)
  BY <1>1, <1>2, <1>3 DEF JobInv, RowInv, Job
<1> QED
  BY <1>2, <1>3, <1>4, <1>5, MoveStep

LEMMA CancelStep ==
  ASSUME IInv, NEW j \in Jobs, NEW p \in Procs, NEW g \in Nat,
         NEW k \in Keys \cup {NoKey}, NEW now \in Clocks,
         CancelJob(j, p, g, k, now)
  PROVE  IInv'
<1> DEFINE row == [job[j] EXCEPT !.state = "cancelled", !.owner = NoProc,
                     !.until = 0, !.ended = TRUE]
           G == [grant[j] EXCEPT ![p] = 0]
<1>1. TypeOK /\ JobInv(j)
  BY IInvParts
<1>2. Transition(j, k, JobStates \ {"absent", "completed", "cancelled"},
                 row, p, g)
  BY DEF CancelJob
<1>3. job[j] \in Job /\ row \in Job
  <2>1. job[j] \in Job
    BY <1>1 DEF TypeOK
  <2> QED
    BY <2>1 DEF Job
<1>4. CASE job[j].state \in Active
  <2>1. job[j].owner = p /\ job[j].state # "completed"
    BY <1>2, <1>4, FenceMeansOwner DEF CancelJob
  <2>2. /\ workers' = [workers EXCEPT ![j] = {p}] /\ {p} \in SUBSET Procs
        /\ grant' = [grant EXCEPT ![j] = G] /\ G \in [Procs -> Nat]
    BY <1>1, <1>4, <2>1, Histories, HolderAlone DEF CancelJob
  <2>3. RowInv(row, {p}, G, clock)
    <3>1. \A q \in Procs : ~(G[q] > clock)
      BY <1>1, <1>4, <2>1, HolderAlone DEF TypeOK
    <3> HIDE DEF G
    <3> QED
      BY <1>1, <1>3, <1>4, <2>1, <3>1 DEF JobInv, RowInv, Job
  <2> HIDE DEF row, G
  <2> QED
    BY <1>2, <1>3, <2>2, <2>3, MoveStep
<1>5. CASE job[j].state \notin Active
  <2>1. /\ workers' = [workers EXCEPT ![j] = workers[j]]
        /\ workers[j] \in SUBSET Procs
        /\ grant' = [grant EXCEPT ![j] = grant[j]]
        /\ grant[j] \in [Procs -> Nat]
    BY <1>1, <1>5, Histories DEF CancelJob
  <2>2. job[j].state \notin {"completed", "absent"}
    BY <1>2 DEF Transition
  <2>3. RowInv(row, workers[j], grant[j], clock)
    BY <1>1, <1>3, <1>5, <2>2 DEF JobInv, RowInv, Job
  <2> QED
    BY <1>2, <1>3, <2>1, <2>3, MoveStep
<1> QED
  BY <1>4, <1>5

LEMMA DetectStep ==
  ASSUME IInv, NEW now \in Clocks, DetectStaleJobs(now)
  PROVE  IInv'
<1>1. TypeOK /\ now <= clock /\ now \in Nat /\ clock \in Nat
  BY IInvParts, ClockIsPast DEF TypeOK
<1>2. UNCHANGED <<clock, intent, log, workers, grant>>
  BY DEF DetectStaleJobs
<1>3. ASSUME NEW j \in Jobs
      PROVE  job'[j] \in Job /\ JobInv(j)'
  <2>1. JobInv(j) /\ job[j] \in Job /\ grant[j] \in [Procs -> Nat]
    BY <1>1, IInvParts DEF TypeOK
  <2>2. CASE Expired(j, now)
    <3>1. /\ job'[j] = [job[j] EXCEPT !.state = "stalled", !.until = 0,
                                      !.error = "lease_expired"]
          /\ job[j].state \in Active /\ job[j].until <= now
      BY <2>2 DEF DetectStaleJobs, Expired
    <3>2. job'[j] \in Job
      <4>1. job[j] \in Job
        BY <2>1
      <4>2. [job[j] EXCEPT !.state = "stalled", !.until = 0,
                           !.error = "lease_expired"] \in Job
        BY <4>1 DEF Job
      <4> QED
        BY <3>1, <4>2
    <3>3. \A p \in Procs : ~(grant[j][p] > clock)
      BY <1>1, <2>1, <3>1 DEF JobInv, RowInv, Job
    <3> QED
      BY <1>2, <2>1, <3>1, <3>2, <3>3 DEF JobInv, RowInv, Job
  <2>3. CASE ~Expired(j, now)
    <3>1. job'[j] = job[j]
      BY <2>3 DEF DetectStaleJobs
    <3> QED
      BY <1>2, <2>1, <3>1 DEF JobInv
  <2> QED
    BY <2>2, <2>3
<1>4. TypeOK'
  BY <1>1, <1>2, <1>3 DEF TypeOK, DetectStaleJobs
<1> QED
  BY <1>3, <1>4, IInvPartsNext

LEMMA TickStep == IInv /\ Tick => IInv'
<1> SUFFICES ASSUME IInv, Tick PROVE IInv'
  OBVIOUS
<1>1. TypeOK /\ TypeOK'
  BY IInvParts DEF Tick, TypeOK
<1>2. ASSUME NEW j \in Jobs PROVE JobInv(j)'
  <2>1. JobInv(j) /\ grant[j] \in [Procs -> Nat] /\ clock \in Nat
    BY <1>1, IInvParts DEF TypeOK
  <2> QED
    BY <2>1 DEF JobInv, RowInv, Tick
<1> QED
  BY <1>1, <1>2, IInvPartsNext

LEMMA IntentStep ==
  ASSUME IInv, NEW i \in Intents,
         \/ \E c \in Contents : CaptureIntent(i, c)
         \/ \E s \in IntentStates, k \in Keys \cup {NoKey} :
              AdvanceIntent(i, s, k)
  PROVE  IInv'
<1>1. TypeOK
  BY IInvParts
<1>2. TypeOK'
  <2>1. CASE \E c \in Contents : CaptureIntent(i, c)
    BY <1>1, <2>1 DEF CaptureIntent, TypeOK, Intent, IntentStates
  <2>2. ASSUME NEW s \in IntentStates, NEW k \in Keys \cup {NoKey},
               AdvanceIntent(i, s, k)
        PROVE  TypeOK'
    <3>1. intent[i] \in Intent
      BY <1>1 DEF TypeOK
    <3>2. (intent[i].ended \/ s \in {"done", "cancelled"}) \in BOOLEAN
      OBVIOUS
    <3>3. intent'[i] \in Intent /\ intent' \in [Intents -> Intent]
      BY <1>1, <2>2, <3>1, <3>2 DEF AdvanceIntent, TypeOK, Intent
    <3>4. log' \subseteq LogEntry
      <4>1. intent[i].state \in IntentStates /\ log \subseteq LogEntry
        BY <1>1, <3>1 DEF TypeOK, Intent
      <4>2. Record(i, k, intent[i].state, s, NoProc, 0)
        BY <2>2 DEF AdvanceIntent
      <4> QED
        BY <4>1, <4>2 DEF Record, LogEntry
    <3> QED
      BY <1>1, <2>2, <3>3, <3>4 DEF AdvanceIntent, TypeOK
  <2> QED
    BY <2>1, <2>2
<1>3. UNCHANGED <<clock, job, workers, grant>>
  BY DEF CaptureIntent, AdvanceIntent
<1> QED
  BY <1>2, <1>3, IInvParts, IInvPartsNext DEF JobInv

LEMMA WorkerInv ==
  ASSUME IInv, NEW j \in Jobs, NEW p \in Procs, NEW g \in Nat,
         NEW k \in Keys \cup {NoKey}, NEW now \in Clocks,
         WorkerStep(j, p, g, k, now)
  PROVE  IInv'
<1>1. CASE CheckpointJob(j, p, g, k, now)
  BY <1>1, CheckpointStep
<1>2. CASE BeginVerification(j, p, g, k, now)
  BY <1>2, VerificationStep
<1>3. CASE CompleteJob(j, p, g, k, now)
  BY <1>3, CompleteStep
<1>4. CASE FailJob(j, p, g, k, now)
  BY <1>4, FailStep
<1>5. CASE RetryJob(j, p, g, k)
  BY <1>5, RetryStep
<1>6. ASSUME NEW d \in LeaseTimes, Heartbeat(j, p, g, now, d)
      PROVE  IInv'
  BY <1>6, HeartbeatStep
<1>7. ASSUME NEW d \in LeaseTimes, ResumeJob(j, p, g, k, now, d)
      PROVE  IInv'
  BY <1>7, ResumeStep
<1> QED
  BY <1>1, <1>2, <1>3, <1>4, <1>5, <1>6, <1>7 DEF WorkerStep

LEMMA IInvStep == IInv /\ [Next]_vars => IInv'
<1> SUFFICES ASSUME IInv, [Next]_vars PROVE IInv'
  OBVIOUS
<1>1. ASSUME NEW j \in Jobs PROVE Generations(j) \cup {0} \subseteq Nat
  BY IInvParts DEF TypeOK, Job, Generations
<1>2. ASSUME NEW i \in Intents, NEW c \in Contents, CaptureIntent(i, c)
      PROVE  IInv'
  BY <1>2, IntentStep
<1>3. ASSUME NEW i \in Intents, NEW s \in IntentStates,
             NEW k \in Keys \cup {NoKey}, AdvanceIntent(i, s, k)
      PROVE  IInv'
  BY <1>3, IntentStep
<1>4. ASSUME NEW j \in Jobs, NEW i \in Intents \cup {NoIntent},
             NEW b \in Budgets, EnqueueJob(j, i, b)
      PROVE  IInv'
  BY <1>4, EnqueueStep
<1>5. ASSUME NEW j \in Jobs, NEW p \in Procs, NEW k \in Keys \cup {NoKey},
             NEW now \in Clocks,
             \/ \E d \in LeaseTimes : StartJob(j, p, k, now, d)
             \/ \E g \in Generations(j) : WorkerStep(j, p, g, k, now)
             \/ \E g \in Generations(j) \cup {0} : CancelJob(j, p, g, k, now)
      PROVE  IInv'
  BY <1>1, <1>5, StartStep, WorkerInv, CancelStep
<1>6. ASSUME NEW now \in Clocks, DetectStaleJobs(now) PROVE IInv'
  BY <1>6, DetectStep
<1>7. CASE Tick
  BY <1>7, TickStep
<1>8. CASE UNCHANGED vars
  BY <1>8, IInvParts, IInvPartsNext
     DEF vars, TypeOK, JobInv
<1> QED
  BY <1>2, <1>3, <1>4, <1>5, <1>6, <1>7, <1>8 DEF Next

\* The inductive invariant holds in every reachable state.
THEOREM InvariantHolds == Spec => []IInv
<1>1. Init => IInv
  BY TypeInit
<1>2. IInv /\ [Next]_vars => IInv'
  BY IInvStep
<1> QED
  BY <1>1, <1>2, PTL DEF Spec

\* Type correctness, for any number of jobs, intents and processes.
THEOREM TypeCorrect == Spec => []TypeOK
<1>1. IInv => TypeOK
  BY DEF IInv
<1> QED
  BY <1>1, InvariantHolds, PTL

\* Two processes never hold unexpired leases on one job, whatever the lag
\* between reading the clock and getting the write lock.
THEOREM LeaseExclusion == Spec => []ExclusiveLease
<1>1. IInv => ExclusiveLease
  BY DEF IInv, PromiseKept, ExclusiveLease
<1> QED
  BY <1>1, InvariantHolds, PTL

\* Each generation of a job is worked on by the process it was given to only.
THEOREM GenerationFencing == Spec => []OneWorkerPerGeneration
<1>1. IInv => OneWorkerPerGeneration
  BY DEF IInv
<1> QED
  BY <1>1, InvariantHolds, PTL

\* start_job never exceeds max_attempts although it never reads it.
THEOREM AttemptsBounded == Spec => []BudgetRespected
<1>1. IInv => BudgetRespected
  BY DEF IInv
<1> QED
  BY <1>1, InvariantHolds, PTL

\* lease_until is never taken away early: while a promise made by start_job,
\* heartbeat or resume_job runs, the table records it and its owner.
THEOREM PromisesKept == Spec => []PromiseKept
<1>1. IInv => PromiseKept
  BY DEF IInv
<1> QED
  BY <1>1, InvariantHolds, PTL

\* The columns of a job agree with its state on every path of the job table.
THEOREM RowsAgree == Spec => []RowConsistent
<1>1. IInv => RowConsistent
  BY DEF IInv
<1> QED
  BY <1>1, InvariantHolds, PTL

-----------------------------------------------------------------------------
\* A transition of job i changes job j only if it is i and in a from-state.
LEMMA TransitionTouches ==
  ASSUME TypeOK, NEW i \in Jobs, NEW j \in Jobs, NEW k, NEW F, NEW row,
         NEW p, NEW g, Transition(i, k, F, row, p, g), job[j].state \notin F
  PROVE  job'[j] = job[j]
  BY DEF Transition, TypeOK

LEMMA VerdictStep ==
  ASSUME IInv, [Next]_vars, NEW j \in Jobs,
         job[j].state \in {"completed", "cancelled"}
  PROVE  job'[j] = job[j]
<1>1. TypeOK
  BY DEF IInv
<1>2. ASSUME NEW i \in Jobs, NEW p \in Procs, NEW k \in Keys \cup {NoKey},
             NEW now \in Clocks, NEW g, WorkerStep(i, p, g, k, now)
      PROVE  job'[j] = job[j]
  <2>1. CASE CheckpointJob(i, p, g, k, now)
    BY <1>1, <2>1, TransitionTouches DEF CheckpointJob
  <2>2. CASE BeginVerification(i, p, g, k, now)
    BY <1>1, <2>2, TransitionTouches DEF BeginVerification
  <2>3. CASE CompleteJob(i, p, g, k, now)
    BY <1>1, <2>3, TransitionTouches DEF CompleteJob
  <2>4. CASE FailJob(i, p, g, k, now)
    BY <1>1, <2>4, TransitionTouches DEF FailJob
  <2>5. CASE RetryJob(i, p, g, k)
    BY <1>1, <2>5, TransitionTouches DEF RetryJob
  <2>6. ASSUME NEW d \in LeaseTimes, ResumeJob(i, p, g, k, now, d)
        PROVE  job'[j] = job[j]
    BY <1>1, <2>6, TransitionTouches DEF ResumeJob
  <2>7. ASSUME NEW d \in LeaseTimes, Heartbeat(i, p, g, now, d)
        PROVE  job'[j] = job[j]
    BY <1>1, <2>7 DEF Heartbeat, TypeOK
  <2> QED
    BY <1>2, <2>1, <2>2, <2>3, <2>4, <2>5, <2>6, <2>7 DEF WorkerStep
<1>3. ASSUME NEW i \in Jobs, NEW p \in Procs, NEW k \in Keys \cup {NoKey},
             NEW now \in Clocks, NEW d \in LeaseTimes,
             StartJob(i, p, k, now, d)
      PROVE  job'[j] = job[j]
  BY <1>1, <1>3, TransitionTouches DEF StartJob
<1>4. ASSUME NEW i \in Jobs, NEW p \in Procs, NEW k \in Keys \cup {NoKey},
             NEW now \in Clocks, NEW g, CancelJob(i, p, g, k, now)
      PROVE  job'[j] = job[j]
  BY <1>1, <1>4, TransitionTouches DEF CancelJob
<1>5. ASSUME NEW i \in Jobs, NEW x \in Intents \cup {NoIntent},
             NEW b \in Budgets, EnqueueJob(i, x, b)
      PROVE  job'[j] = job[j]
  BY <1>1, <1>5 DEF EnqueueJob, TypeOK
<1>6. ASSUME NEW now \in Clocks, DetectStaleJobs(now)
      PROVE  job'[j] = job[j]
  BY <1>6 DEF DetectStaleJobs, Expired
<1>7. ASSUME NEW i \in Intents,
             \/ \E c \in Contents : CaptureIntent(i, c)
             \/ \E s \in IntentStates, k \in Keys \cup {NoKey} :
                  AdvanceIntent(i, s, k)
      PROVE  job'[j] = job[j]
  BY <1>7 DEF CaptureIntent, AdvanceIntent
<1>8. CASE Tick \/ UNCHANGED vars
  BY <1>8 DEF Tick, vars
<1> QED
  BY <1>2, <1>3, <1>4, <1>5, <1>6, <1>7, <1>8 DEF Next

\* No call ever changes a completed or cancelled job again.
THEOREM VerdictsAreFinal == Spec => VerdictFinal
<1>1. IInv /\ [Next]_vars =>
        [\A j \in Jobs : job[j].state \in {"completed", "cancelled"} =>
                           job'[j] = job[j]]_vars
  BY VerdictStep
<1> QED
  BY <1>1, InvariantHolds, PTL DEF Spec, VerdictFinal

-----------------------------------------------------------------------------
(* Intents. *)

\* The terminal mark of an intent agrees with its state.
IntentConsistent ==
  \A i \in Intents : intent[i].ended <=> intent[i].state \in {"done", "cancelled"}

IntentMoved(i) ==
  /\ ~intent[i].ended
  /\ \/ IntentRank(intent'[i].state) = IntentRank(intent[i].state) + 1
     \/ intent'[i].state = "cancelled"
  /\ intent'[i].ended <=> intent'[i].state \in {"done", "cancelled"}
  /\ intent[i].state # "absent" => intent'[i].content = intent[i].content

\* An intent stays as it is or takes one step.
LEMMA OneIntentStep ==
  ASSUME IInv, IntentConsistent, [Next]_vars, NEW i \in Intents
  PROVE  intent'[i] = intent[i] \/ IntentMoved(i)
<1>1. intent \in [Intents -> Intent]
  BY IInvParts DEF TypeOK
<1>2. ASSUME NEW x \in Intents, NEW c \in Contents, CaptureIntent(x, c)
      PROVE  intent'[i] = intent[i] \/ IntentMoved(i)
  BY <1>1, <1>2 DEF CaptureIntent, IntentMoved, IntentRank, IntentConsistent
<1>3. ASSUME NEW x \in Intents, NEW s \in IntentStates,
             NEW k \in Keys \cup {NoKey}, AdvanceIntent(x, s, k)
      PROVE  intent'[i] = intent[i] \/ IntentMoved(i)
  <2>1. CASE x # i
    BY <1>1, <1>3, <2>1 DEF AdvanceIntent
  <2>2. CASE x = i
    <3>1. /\ intent'[i].state = s /\ intent'[i].content = intent[i].content
          /\ intent'[i].ended = (intent[i].ended \/ s \in {"done", "cancelled"})
          /\ s \in IntentMoves(intent[i].state)
      BY <1>1, <1>3, <2>2 DEF AdvanceIntent, Intent
    <3>2. /\ intent[i].state \in {"captured", "clarified", "approved", "planned"}
          /\ \/ IntentRank(s) = IntentRank(intent[i].state) + 1
             \/ s = "cancelled"
      BY <3>1 DEF IntentMoves, IntentRank
    <3>3. ~intent[i].ended
      BY <3>2 DEF IntentConsistent
    <3> QED
      BY <3>1, <3>2, <3>3 DEF IntentMoved
  <2> QED
    BY <2>1, <2>2
<1>4. ASSUME NEW j \in Jobs, NEW p \in Procs, NEW k \in Keys \cup {NoKey},
             NEW now \in Clocks, NEW g,
             \/ \E d \in LeaseTimes : StartJob(j, p, k, now, d)
             \/ WorkerStep(j, p, g, k, now) \/ CancelJob(j, p, g, k, now)
      PROVE  intent' = intent
  BY <1>4 DEF StartJob, WorkerStep, CancelJob, CheckpointJob, BeginVerification,
              CompleteJob, FailJob, RetryJob, Heartbeat, ResumeJob, Transition
<1>5. ASSUME NEW j \in Jobs, NEW x \in Intents \cup {NoIntent}, NEW b \in Budgets,
             EnqueueJob(j, x, b)
      PROVE  intent' = intent
  BY <1>5 DEF EnqueueJob
<1>6. ASSUME NEW now \in Clocks, DetectStaleJobs(now) PROVE intent' = intent
  BY <1>6 DEF DetectStaleJobs
<1>7. CASE Tick \/ UNCHANGED vars
  BY <1>7 DEF Tick, vars
<1> QED
  BY <1>2, <1>3, <1>4, <1>5, <1>6, <1>7 DEF Next

\* Whatever keys are replayed, an intent moves one edge of INTENT_TRANSITIONS
\* at a time (or is cancelled) and never moves again once it has ended.
THEOREM IntentsMoveStepwise == Spec => IntentStepwise
<1>1. Init => IntentConsistent
  BY DEF Init, NoIntentRow, IntentConsistent
<1>2. IInv /\ IntentConsistent /\ [Next]_vars => IntentConsistent'
  BY OneIntentStep DEF IntentConsistent, IntentMoved
<1>3. IInv /\ IntentConsistent /\ [Next]_vars =>
        [\A i \in Intents : intent'[i] # intent[i] =>
           /\ ~intent[i].ended
           /\ \/ IntentRank(intent'[i].state) = IntentRank(intent[i].state) + 1
              \/ intent'[i].state = "cancelled"
           /\ intent'[i].ended <=> intent'[i].state \in {"done", "cancelled"}
           /\ intent[i].state # "absent" =>
                intent'[i].content = intent[i].content]_vars
  BY OneIntentStep DEF IntentMoved
<1> QED
  BY <1>1, <1>2, <1>3, InvariantHolds, PTL DEF Spec, IntentStepwise

-----------------------------------------------------------------------------
(* The refinement: each call is one abstract step of its job, or none. *)

\* How the abstract variables follow a step that changes one row.
LEMMA RowView ==
  ASSUME NEW j \in Jobs, NEW row, job'[j] = row,
         \A i \in Jobs \ {j} : job'[i] = job[i]
  PROVE  /\ [i \in Jobs |-> job'[i].budget] =
              [[i \in Jobs |-> job[i].budget] EXCEPT ![j] = row.budget]
         /\ [i \in Jobs |-> job'[i].gen] =
              [[i \in Jobs |-> job[i].gen] EXCEPT ![j] = row.gen]
         /\ [i \in Jobs |-> Holding(job'[i])] =
              [[i \in Jobs |-> Holding(job[i])] EXCEPT ![j] = Holding(row)]
         /\ [i \in Jobs |-> Verdict(job'[i])] =
              [[i \in Jobs |-> Verdict(job[i])] EXCEPT ![j] = Verdict(row)]
  OBVIOUS

\* A step that keeps what every row shows is invisible.
LEMMA Invisible ==
  ASSUME \A i \in Jobs : /\ job'[i].budget = job[i].budget
                         /\ job'[i].gen = job[i].gen
                         /\ Holding(job'[i]) = Holding(job[i])
                         /\ Verdict(job'[i]) = Verdict(job[i])
  PROVE  UNCHANGED Abstract!fvars
  BY DEF Abstract!fvars

\* The jobs of S stop being held and nothing else shows.
LEMMA Released ==
  ASSUME NEW S \in SUBSET Jobs,
         \A i \in Jobs \ S : job'[i] = job[i],
         \A i \in S : /\ job'[i].budget = job[i].budget
                      /\ job'[i].gen = job[i].gen
                      /\ Verdict(job'[i]) = Verdict(job[i])
                      /\ Holding(job[i]) # NoProc
                      /\ Holding(job'[i]) = NoProc
  PROVE  Abstract!Next
<1>1. Abstract!Release(S)
  BY DEF Abstract!Release
<1> QED
  BY <1>1 DEF Abstract!Next

\* What a transition makes of its own row and of the others.
LEMMA TransitionRows ==
  ASSUME IInv, NEW j \in Jobs, NEW k, NEW F, NEW row, NEW p, NEW g,
         Transition(j, k, F, row, p, g)
  PROVE  /\ job'[j] = row
         /\ \A i \in Jobs \ {j} : job'[i] = job[i]
         /\ job[j].state \in F
         /\ job[j] \in Job
         /\ JobInv(j)
  BY IInvParts DEF Transition, TypeOK

LEMMA EnqueueView ==
  ASSUME IInv, NEW j \in Jobs, NEW i \in Intents \cup {NoIntent},
         NEW b \in Budgets, EnqueueJob(j, i, b)
  PROVE  Abstract!Next
<1> DEFINE row == [NoJob EXCEPT !.state = "queued", !.intent = i, !.budget = b]
<1>1. TypeOK /\ JobInv(j)
  BY IInvParts
<1>2. /\ job[j].state = "absent" /\ job'[j] = row
      /\ \A x \in Jobs \ {j} : job'[x] = job[x]
  BY <1>1 DEF EnqueueJob, TypeOK
<1>3. job[j].budget = 0 /\ job[j].gen = 0
  BY <1>1, <1>2 DEF JobInv, RowInv, TypeOK, Job
<1>4. /\ row.budget = b /\ row.gen = job[j].gen
      /\ Holding(row) = Holding(job[j]) /\ Verdict(row) = Verdict(job[j])
  BY <1>2, <1>3 DEF NoJob, Holding, Verdict
<1> HIDE DEF row
<1>5. Abstract!Post(j)
  BY <1>2, <1>3, <1>4, RowView DEF Abstract!Post
<1> QED
  BY <1>5 DEF Abstract!Next

LEMMA StartView ==
  ASSUME IInv, NEW j \in Jobs, NEW p \in Procs, NEW k, NEW now, NEW d,
         StartJob(j, p, k, now, d)
  PROVE  Abstract!Next
<1> DEFINE row == [job[j] EXCEPT !.state = "running", !.owner = p,
                     !.until = now + d, !.gen = @ + 1, !.attempts = @ + 1,
                     !.error = "none", !.evidence = FALSE, !.ended = FALSE]
<1>1. Transition(j, k, {"queued"}, row, p, job[j].gen + 1)
  BY DEF StartJob
<1>2. /\ job'[j] = row /\ \A i \in Jobs \ {j} : job'[i] = job[i]
      /\ job[j].state = "queued" /\ job[j] \in Job /\ JobInv(j)
  BY <1>1, TransitionRows
<1>3. /\ row.budget = job[j].budget /\ row.gen = job[j].gen + 1
      /\ row.state = "running" /\ row.owner = p
  BY <1>2 DEF Job
<1>4. /\ Holding(job[j]) = NoProc /\ Holding(row) = p
      /\ Verdict(row) = "open" /\ Verdict(job[j]) = "open"
  BY <1>2, <1>3 DEF Holding, Verdict
<1>5. job[j].gen < job[j].budget
  BY <1>2 DEF JobInv, RowInv
<1> HIDE DEF row
<1>6. Abstract!Take(j, p)
  <2>1. [i \in Jobs |-> job'[i].gen] =
          [[i \in Jobs |-> job[i].gen] EXCEPT ![j] = job[j].gen + 1]
    BY <1>2, <1>3, RowView
  <2>2. [i \in Jobs |-> Holding(job'[i])] =
          [[i \in Jobs |-> Holding(job[i])] EXCEPT ![j] = p]
    BY <1>2, <1>4, RowView
  <2>3. /\ [i \in Jobs |-> job'[i].budget] = [i \in Jobs |-> job[i].budget]
        /\ [i \in Jobs |-> Verdict(job'[i])] =
             [i \in Jobs |-> Verdict(job[i])]
    BY <1>2, <1>3, <1>4
  <2> QED
    BY <1>4, <1>5, <2>1, <2>2, <2>3 DEF Abstract!Take
<1> QED
  BY <1>6 DEF Abstract!Next

\* Checkpoint, resume, verification and heartbeat keep the job in its hands.
LEMMA ActiveView ==
  ASSUME IInv, NEW j \in Jobs, NEW row, job'[j] = row,
         \A i \in Jobs \ {j} : job'[i] = job[i],
         job[j].state \in Active, row.state \in Active,
         row.owner = job[j].owner, row.gen = job[j].gen,
         row.budget = job[j].budget
  PROVE  UNCHANGED Abstract!fvars
<1>1. Holding(row) = Holding(job[j]) /\ Verdict(row) = Verdict(job[j])
  BY DEF Holding, Verdict
<1> QED
  BY <1>1, Invisible

LEMMA CheckpointView ==
  ASSUME IInv, NEW j \in Jobs, NEW p, NEW g, NEW k, NEW now,
         CheckpointJob(j, p, g, k, now)
  PROVE  UNCHANGED Abstract!fvars
<1> DEFINE row == [job[j] EXCEPT !.state = "checkpointed"]
<1>1. Transition(j, k, {"running"}, row, p, g)
  BY DEF CheckpointJob
<1>2. /\ job'[j] = row /\ \A i \in Jobs \ {j} : job'[i] = job[i]
      /\ job[j].state \in Active /\ job[j] \in Job
  BY <1>1, TransitionRows
<1>3. /\ row.state = "checkpointed" /\ row.owner = job[j].owner
      /\ row.gen = job[j].gen /\ row.budget = job[j].budget
  BY <1>2 DEF Job
<1> HIDE DEF row
<1> QED
  BY <1>2, <1>3, ActiveView

LEMMA VerificationView ==
  ASSUME IInv, NEW j \in Jobs, NEW p, NEW g, NEW k, NEW now,
         BeginVerification(j, p, g, k, now)
  PROVE  UNCHANGED Abstract!fvars
<1> DEFINE row == [job[j] EXCEPT !.state = "verifying"]
<1>1. Transition(j, k, {"running", "checkpointed"}, row, p, g)
  BY DEF BeginVerification
<1>2. /\ job'[j] = row /\ \A i \in Jobs \ {j} : job'[i] = job[i]
      /\ job[j].state \in Active /\ job[j] \in Job
  BY <1>1, TransitionRows
<1>3. /\ row.state = "verifying" /\ row.owner = job[j].owner
      /\ row.gen = job[j].gen /\ row.budget = job[j].budget
  BY <1>2 DEF Job
<1> HIDE DEF row
<1> QED
  BY <1>2, <1>3, ActiveView

LEMMA ResumeView ==
  ASSUME IInv, NEW j \in Jobs, NEW p, NEW g, NEW k, NEW now, NEW d,
         ResumeJob(j, p, g, k, now, d)
  PROVE  UNCHANGED Abstract!fvars
<1> DEFINE row == [job[j] EXCEPT !.state = "running", !.until = now + d]
<1>1. Transition(j, k, {"checkpointed"}, row, p, g)
  BY DEF ResumeJob
<1>2. /\ job'[j] = row /\ \A i \in Jobs \ {j} : job'[i] = job[i]
      /\ job[j].state \in Active /\ job[j] \in Job
  BY <1>1, TransitionRows
<1>3. /\ row.state = "running" /\ row.owner = job[j].owner
      /\ row.gen = job[j].gen /\ row.budget = job[j].budget
  BY <1>2 DEF Job
<1> HIDE DEF row
<1> QED
  BY <1>2, <1>3, ActiveView

LEMMA HeartbeatView ==
  ASSUME IInv, NEW j \in Jobs, NEW p, NEW g, NEW now, NEW d,
         Heartbeat(j, p, g, now, d)
  PROVE  UNCHANGED Abstract!fvars
<1> DEFINE row == [job[j] EXCEPT !.until = now + d]
<1>1. TypeOK
  BY IInvParts
<1>2. /\ job'[j] = row /\ \A i \in Jobs \ {j} : job'[i] = job[i]
      /\ job[j].state \in Active /\ job[j] \in Job
  BY <1>1 DEF Heartbeat, TypeOK
<1>3. /\ row.state = job[j].state /\ row.owner = job[j].owner
      /\ row.gen = job[j].gen /\ row.budget = job[j].budget
  BY <1>2 DEF Job
<1> HIDE DEF row
<1> QED
  BY <1>2, <1>3, ActiveView

LEMMA CompleteView ==
  ASSUME IInv, NEW j \in Jobs, NEW p, NEW g, NEW k, NEW now,
         CompleteJob(j, p, g, k, now)
  PROVE  Abstract!Next
<1> DEFINE row == [job[j] EXCEPT !.state = "completed", !.evidence = TRUE,
                     !.owner = NoProc, !.until = 0, !.ended = TRUE]
<1>1. Transition(j, k, {"verifying"}, row, p, g)
  BY DEF CompleteJob
<1>2. /\ job'[j] = row /\ \A i \in Jobs \ {j} : job'[i] = job[i]
      /\ job[j].state = "verifying" /\ job[j] \in Job /\ JobInv(j)
  BY <1>1, TransitionRows
<1>3. /\ row.budget = job[j].budget /\ row.gen = job[j].gen
      /\ row.state = "completed"
  BY <1>2 DEF Job
<1>4. /\ Holding(job[j]) # NoProc /\ Holding(row) = NoProc
      /\ Verdict(row) = "done"
  BY <1>2, <1>3, ConstantsAssumption DEF Holding, Verdict, JobInv, RowInv
<1> HIDE DEF row
<1>5. Abstract!Finish(j)
  <2>1. [i \in Jobs |-> Verdict(job'[i])] =
          [[i \in Jobs |-> Verdict(job[i])] EXCEPT ![j] = "done"]
    BY <1>2, <1>4, RowView
  <2>2. [i \in Jobs |-> Holding(job'[i])] =
          [[i \in Jobs |-> Holding(job[i])] EXCEPT ![j] = NoProc]
    BY <1>2, <1>4, RowView
  <2>3. /\ [i \in Jobs |-> job'[i].budget] = [i \in Jobs |-> job[i].budget]
        /\ [i \in Jobs |-> job'[i].gen] = [i \in Jobs |-> job[i].gen]
    BY <1>2, <1>3
  <2> QED
    BY <1>4, <2>1, <2>2, <2>3 DEF Abstract!Finish
<1> QED
  BY <1>5 DEF Abstract!Next

LEMMA CancelView ==
  ASSUME IInv, NEW j \in Jobs, NEW p, NEW g, NEW k, NEW now,
         CancelJob(j, p, g, k, now)
  PROVE  Abstract!Next
<1> DEFINE row == [job[j] EXCEPT !.state = "cancelled", !.owner = NoProc,
                     !.until = 0, !.ended = TRUE]
<1>1. Transition(j, k, JobStates \ {"absent", "completed", "cancelled"},
                 row, p, g)
  BY DEF CancelJob
<1>2. /\ job'[j] = row /\ \A i \in Jobs \ {j} : job'[i] = job[i]
      /\ job[j].state \notin {"absent", "completed", "cancelled"}
      /\ job[j] \in Job /\ JobInv(j)
  BY <1>1, TransitionRows
<1>3. /\ row.budget = job[j].budget /\ row.gen = job[j].gen
      /\ row.state = "cancelled" /\ job[j].budget > 0
  BY <1>2 DEF Job, JobInv, RowInv
<1>4. /\ Verdict(job[j]) = "open" /\ Holding(row) = NoProc
      /\ Verdict(row) = "dropped"
  BY <1>2, <1>3 DEF Holding, Verdict
<1> HIDE DEF row
<1>5. Abstract!Drop(j)
  <2>1. [i \in Jobs |-> Verdict(job'[i])] =
          [[i \in Jobs |-> Verdict(job[i])] EXCEPT ![j] = "dropped"]
    BY <1>2, <1>4, RowView
  <2>2. [i \in Jobs |-> Holding(job'[i])] =
          [[i \in Jobs |-> Holding(job[i])] EXCEPT ![j] = NoProc]
    BY <1>2, <1>4, RowView
  <2>3. /\ [i \in Jobs |-> job'[i].budget] = [i \in Jobs |-> job[i].budget]
        /\ [i \in Jobs |-> job'[i].gen] = [i \in Jobs |-> job[i].gen]
    BY <1>2, <1>3
  <2> QED
    BY <1>3, <1>4, <2>1, <2>2, <2>3 DEF Abstract!Drop
<1> QED
  BY <1>5 DEF Abstract!Next

LEMMA FailView ==
  ASSUME IInv, NEW j \in Jobs, NEW p, NEW g, NEW k, NEW now,
         FailJob(j, p, g, k, now)
  PROVE  Abstract!Next
<1> DEFINE row == [job[j] EXCEPT !.state = "failed", !.error = "reported",
                     !.until = 0, !.ended = TRUE]
<1>1. Transition(j, k, Active, row, p, g)
  BY DEF FailJob
<1>2. /\ job'[j] = row /\ \A i \in Jobs \ {j} : job'[i] = job[i]
      /\ job[j].state \in Active /\ job[j] \in Job /\ JobInv(j)
  BY <1>1, TransitionRows
<1>3. /\ row.budget = job[j].budget /\ row.gen = job[j].gen
      /\ row.state = "failed"
  BY <1>2 DEF Job
<1>4. /\ Verdict(row) = Verdict(job[j]) /\ Holding(row) = NoProc
      /\ Holding(job[j]) # NoProc
  BY <1>2, <1>3, ConstantsAssumption DEF Holding, Verdict, JobInv, RowInv
<1> HIDE DEF row
<1>5. {j} \in SUBSET Jobs
  OBVIOUS
<1> QED
  BY <1>2, <1>3, <1>4, <1>5, Released

LEMMA RetryView ==
  ASSUME IInv, NEW j \in Jobs, NEW p, NEW g, NEW k, RetryJob(j, p, g, k)
  PROVE  UNCHANGED Abstract!fvars
<1> DEFINE row == [job[j] EXCEPT !.state = "queued", !.owner = NoProc,
                     !.until = 0, !.error = "none", !.evidence = FALSE,
                     !.ended = FALSE]
<1>1. Transition(j, k, {"failed", "stalled"}, row, p, g)
  BY DEF RetryJob
<1>2. /\ job'[j] = row /\ \A i \in Jobs \ {j} : job'[i] = job[i]
      /\ job[j].state \in {"failed", "stalled"} /\ job[j] \in Job
  BY <1>1, TransitionRows
<1>3. /\ row.budget = job[j].budget /\ row.gen = job[j].gen
      /\ row.state = "queued"
  BY <1>2 DEF Job
<1>4. Verdict(row) = Verdict(job[j]) /\ Holding(row) = Holding(job[j])
  BY <1>2, <1>3 DEF Holding, Verdict
<1> HIDE DEF row
<1> QED
  BY <1>2, <1>3, <1>4, Invisible

LEMMA DetectView ==
  ASSUME IInv, NEW now, DetectStaleJobs(now)
  PROVE  Abstract!Next
<1> DEFINE S == {j \in Jobs : Expired(j, now)}
<1>1. \A i \in Jobs \ S : job'[i] = job[i]
  BY DEF DetectStaleJobs
<1>2. ASSUME NEW i \in S
      PROVE  /\ job'[i].budget = job[i].budget
             /\ job'[i].gen = job[i].gen
             /\ Verdict(job'[i]) = Verdict(job[i])
             /\ Holding(job[i]) # NoProc
             /\ Holding(job'[i]) = NoProc
  <2>1. job[i] \in Job /\ JobInv(i)
    BY IInvParts DEF TypeOK
  <2>2. /\ job'[i] = [job[i] EXCEPT !.state = "stalled", !.until = 0,
                                    !.error = "lease_expired"]
        /\ job[i].state \in Active
    BY DEF DetectStaleJobs, Expired
  <2>3. /\ job'[i].budget = job[i].budget /\ job'[i].gen = job[i].gen
        /\ job'[i].state = "stalled"
    BY <2>1, <2>2 DEF Job
  <2> QED
    BY <2>1, <2>2, <2>3, ConstantsAssumption
       DEF Holding, Verdict, JobInv, RowInv
<1>3. S \in SUBSET Jobs
  OBVIOUS
<1> HIDE DEF S
<1> QED
  BY <1>1, <1>2, <1>3, Released

LEMMA WorkerView ==
  ASSUME IInv, NEW j \in Jobs, NEW p, NEW g, NEW k, NEW now,
         WorkerStep(j, p, g, k, now)
  PROVE  Abstract!Next \/ UNCHANGED Abstract!fvars
<1>1. CASE CheckpointJob(j, p, g, k, now)
  BY <1>1, CheckpointView
<1>2. CASE BeginVerification(j, p, g, k, now)
  BY <1>2, VerificationView
<1>3. CASE CompleteJob(j, p, g, k, now)
  BY <1>3, CompleteView
<1>4. CASE FailJob(j, p, g, k, now)
  BY <1>4, FailView
<1>5. CASE RetryJob(j, p, g, k)
  BY <1>5, RetryView
<1>6. ASSUME NEW d \in LeaseTimes, Heartbeat(j, p, g, now, d)
      PROVE  UNCHANGED Abstract!fvars
  BY <1>6, HeartbeatView
<1>7. ASSUME NEW d \in LeaseTimes, ResumeJob(j, p, g, k, now, d)
      PROVE  UNCHANGED Abstract!fvars
  BY <1>7, ResumeView
<1> QED
  BY <1>1, <1>2, <1>3, <1>4, <1>5, <1>6, <1>7 DEF WorkerStep

LEMMA NextView ==
  IInv /\ [Next]_vars => [Abstract!Next]_(Abstract!fvars)
<1> SUFFICES ASSUME IInv, [Next]_vars
             PROVE  Abstract!Next \/ UNCHANGED Abstract!fvars
  OBVIOUS
<1>1. ASSUME NEW j \in Jobs, NEW i \in Intents \cup {NoIntent},
             NEW b \in Budgets, EnqueueJob(j, i, b)
      PROVE  Abstract!Next
  BY <1>1, EnqueueView
<1>2. ASSUME NEW j \in Jobs, NEW p \in Procs, NEW k \in Keys \cup {NoKey},
             NEW now \in Clocks, NEW d \in LeaseTimes,
             StartJob(j, p, k, now, d)
      PROVE  Abstract!Next
  BY <1>2, StartView
<1>3. ASSUME NEW j \in Jobs, NEW p \in Procs, NEW k \in Keys \cup {NoKey},
             NEW now \in Clocks, NEW g, WorkerStep(j, p, g, k, now)
      PROVE  Abstract!Next \/ UNCHANGED Abstract!fvars
  BY <1>3, WorkerView
<1>4. ASSUME NEW j \in Jobs, NEW p \in Procs, NEW k \in Keys \cup {NoKey},
             NEW now \in Clocks, NEW g, CancelJob(j, p, g, k, now)
      PROVE  Abstract!Next
  BY <1>4, CancelView
<1>5. ASSUME NEW now \in Clocks, DetectStaleJobs(now) PROVE Abstract!Next
  BY <1>5, DetectView
<1>6. ASSUME job' = job PROVE UNCHANGED Abstract!fvars
  BY <1>6, Invisible
<1>7. ASSUME NEW i \in Intents,
             \/ \E c \in Contents : CaptureIntent(i, c)
             \/ \E s \in IntentStates, k \in Keys \cup {NoKey} :
                  AdvanceIntent(i, s, k)
      PROVE  job' = job
  BY <1>7 DEF CaptureIntent, AdvanceIntent
<1>8. ASSUME Tick \/ UNCHANGED vars PROVE job' = job
  BY <1>8 DEF Tick, vars
<1> QED
  BY <1>1, <1>2, <1>3, <1>4, <1>5, <1>6, <1>7, <1>8 DEF Next

LEMMA InitView == Init => Abstract!Init
  BY DEF Init, NoJob, Holding, Verdict, Abstract!Init

\* The job table is an implementation of FencedWork: one holder at a time, a
\* new epoch for each, never more epochs than allowed, and final verdicts.
THEOREM Implements == Spec => FencedWork
<1>1. Init => Abstract!Init
  BY InitView
<1>2. IInv /\ [Next]_vars => [Abstract!Next]_(Abstract!fvars)
  BY NextView
<1> QED
  BY <1>1, <1>2, InvariantHolds, PTL DEF Spec, FencedWork, Abstract!Spec
=============================================================================
