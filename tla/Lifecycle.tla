------------------------------ MODULE Lifecycle ------------------------------
(***************************************************************************)
(* The lifecycle database (lifecycle.py): intents, jobs with leases, and   *)
(* the table of keyed transitions.  Every public method of LifecycleStore  *)
(* runs in one BEGIN IMMEDIATE transaction, so it is one action here; a    *)
(* call that raises, replays or repeats leaves the database as it was and  *)
(* is a stuttering step.                                                   *)
(*                                                                         *)
(* What is not atomic is the clock: a method reads it first and only then  *)
(* waits (up to busy_timeout) for the write lock.  An action therefore     *)
(* uses a time "now" that may lag behind the real "clock" by MaxLag.       *)
(*                                                                         *)
(* Each process uses an owner label of its own, so the label is the        *)
(* process.  Lease generations are public (every job result shows them):   *)
(* a call may quote any generation issued so far.                          *)
(***************************************************************************)
EXTENDS Naturals

CONSTANTS Jobs, Intents,    \* rows, each named by its creation key
          Procs,            \* processes that call the store
          Keys, NoKey,      \* transition keys; NoKey: the call carries none
          NoProc, NoIntent,
          Contents,         \* what the content hash of an intent tells apart
          LeaseTimes,       \* lease_seconds
          Budgets,          \* max_attempts
          MaxTime, MaxLag   \* bounds of the model

ASSUME ConstantsAssumption ==
  /\ LeaseTimes \subseteq Nat \ {0}
  /\ Budgets \subseteq Nat \ {0}
  /\ MaxTime \in Nat
  /\ MaxLag \in Nat
  /\ NoProc \notin Procs
  /\ NoKey \notin Keys
  /\ NoIntent \notin Intents
  /\ Jobs \cap Intents = {}

VARIABLES clock,    \* wall clock, in units of the leases
          job,      \* table lifecycle_jobs
          intent,   \* table lifecycle_intents
          log,      \* table lifecycle_transitions, with the call's by and gen
          workers,  \* history: who acted on the job in its current generation
          grant     \* history: the expiry last promised to each process

vars == <<clock, job, intent, log, workers, grant>>

Active == {"running", "checkpointed", "verifying"}
Ended == {"completed", "failed", "cancelled"}
JobStates == {"absent", "queued", "stalled"} \cup Active \cup Ended
IntentStates ==
  {"absent", "captured", "clarified", "approved", "planned", "done", "cancelled"}

\* Wrong variant: approval can be skipped.
IntentMovesSkip(s) ==
  CASE s = "captured"  -> {"clarified", "approved", "cancelled"}
    [] s = "clarified" -> {"approved", "cancelled"}
    [] s = "approved"  -> {"planned", "cancelled"}
    [] s = "planned"   -> {"done", "cancelled"}
    [] OTHER           -> {}

IntentMoves(s) ==
  CASE s = "captured"  -> {"clarified", "cancelled"}
    [] s = "clarified" -> {"approved", "cancelled"}
    [] s = "approved"  -> {"planned", "cancelled"}
    [] s = "planned"   -> {"done", "cancelled"}
    [] OTHER           -> {}

NoJob == [state |-> "absent", intent |-> NoIntent, owner |-> NoProc,
          until |-> 0, gen |-> 0, attempts |-> 0, budget |-> 0,
          evidence |-> FALSE, error |-> "none", ended |-> FALSE]
NoIntentRow == [state |-> "absent", content |-> NoIntent, ended |-> FALSE]

Job == [state : JobStates, intent : Intents \cup {NoIntent},
        owner : Procs \cup {NoProc}, until : Nat, gen : Nat, attempts : Nat,
        budget : Nat, evidence : BOOLEAN,
        error : {"none", "reported", "lease_expired"}, ended : BOOLEAN]
Intent == [state : IntentStates, content : Contents \cup {NoIntent},
           ended : BOOLEAN]
LogEntry == [entity : Jobs \cup Intents, key : Keys,
             from : JobStates \cup IntentStates,
             to : JobStates \cup IntentStates,
             by : Procs \cup {NoProc}, gen : Nat]

Init == /\ clock = 1
        /\ job = [j \in Jobs |-> NoJob]
        /\ intent = [i \in Intents |-> NoIntentRow]
        /\ log = {}
        /\ workers = [j \in Jobs |-> {}]
        /\ grant = [j \in Jobs |-> [p \in Procs |-> 0]]
-----------------------------------------------------------------------------
(* The steps every transition shares *)

\* A call's own reading of the clock, taken before it got the write lock.
Clocks == {t \in 1..clock : clock <= t + MaxLag}

\* Wrong variant: the owner is not compared.
HoldsAnyOwner(j, p, g) == job[j].gen = g
Holds(j, p, g) == job[j].owner = p /\ job[j].gen = g
Fresh(j, now) == job[j].until > now
HoldsFresh(j, p, g, now) == Holds(j, p, g) /\ Fresh(j, now)


Replayed(e, k) == \E t \in log : t.entity = e /\ t.key = k

Record(e, k, from, to, p, g) ==
  log' = log \cup {[entity |-> e, key |-> x, from |-> from, to |-> to,
                    by |-> p, gen |-> g] : x \in {k} \ {NoKey}}

\* _transition_job after its fence: a replayed key or a wrong state ends it.
Transition(j, k, from, row, p, g) ==
  /\ ~Replayed(j, k)
  /\ job[j].state \in from
  /\ job' = [job EXCEPT ![j] = row]
  /\ Record(j, k, job[j].state, row.state, p, g)
  /\ UNCHANGED <<clock, intent>>

Acts(j, p) == workers' = [workers EXCEPT ![j] = @ \cup {p}]
Granted(j, p, t) == grant' = [grant EXCEPT ![j][p] = t]
-----------------------------------------------------------------------------
(* Intents *)

CaptureIntent(i, c) ==
  /\ intent[i].state = "absent"
  /\ intent' = [intent EXCEPT
       ![i] = [state |-> "captured", content |-> c, ended |-> FALSE]]
  /\ UNCHANGED <<clock, job, log, workers, grant>>

\* advance_intent and, with s = "cancelled", cancel_intent.
AdvanceIntent(i, s, k) ==
  /\ ~Replayed(i, k)
  /\ s \in IntentMoves(intent[i].state)
  /\ intent' = [intent EXCEPT ![i].state = s,
                              ![i].ended = @ \/ s \in {"done", "cancelled"}]
  /\ Record(i, k, intent[i].state, s, NoProc, 0)
  /\ UNCHANGED <<clock, job, workers, grant>>
-----------------------------------------------------------------------------
(* Jobs *)

EnqueueJob(j, i, b) ==
  /\ job[j].state = "absent"
  /\ i # NoIntent => intent[i].state # "absent"
  /\ job' = [job EXCEPT ![j] = [NoJob EXCEPT !.state = "queued",
                                             !.intent = i, !.budget = b]]
  /\ UNCHANGED <<clock, intent, log, workers, grant>>

\* Wrong variant: the detector's verdict need not be retried first.
StartStalledJob(j, p, k, now, d) ==
  /\ Transition(j, k, {"queued", "stalled"},
       [job[j] EXCEPT !.state = "running", !.owner = p, !.until = now + d,
                      !.gen = @ + 1, !.attempts = @ + 1, !.error = "none",
                      !.evidence = FALSE, !.ended = FALSE], p, job[j].gen + 1)
  /\ workers' = [workers EXCEPT ![j] = {p}]
  /\ Granted(j, p, now + d)

\* No fence and no budget test: retry_job alone guards the budget.
StartJob(j, p, k, now, d) ==
  /\ Transition(j, k, {"queued"},
       [job[j] EXCEPT !.state = "running", !.owner = p, !.until = now + d,
                      !.gen = @ + 1, !.attempts = @ + 1, !.error = "none",
                      !.evidence = FALSE, !.ended = FALSE], p, job[j].gen + 1)
  /\ workers' = [workers EXCEPT ![j] = {p}]
  /\ Granted(j, p, now + d)

Heartbeat(j, p, g, now, d) ==
  /\ job[j].state \in Active
  /\ HoldsFresh(j, p, g, now)
  /\ job' = [job EXCEPT ![j].until = now + d]
  /\ Acts(j, p)
  /\ Granted(j, p, now + d)
  /\ UNCHANGED <<clock, intent, log>>

CheckpointJob(j, p, g, k, now) ==
  /\ HoldsFresh(j, p, g, now)
  /\ Transition(j, k, {"running"},
       [job[j] EXCEPT !.state = "checkpointed"], p, g)
  /\ Acts(j, p)
  /\ UNCHANGED grant

ResumeJob(j, p, g, k, now, d) ==
  /\ HoldsFresh(j, p, g, now)
  /\ Transition(j, k, {"checkpointed"},
       [job[j] EXCEPT !.state = "running", !.until = now + d], p, g)
  /\ Acts(j, p)
  /\ Granted(j, p, now + d)

BeginVerification(j, p, g, k, now) ==
  /\ HoldsFresh(j, p, g, now)
  /\ Transition(j, k, {"running", "checkpointed"},
       [job[j] EXCEPT !.state = "verifying"], p, g)
  /\ Acts(j, p)
  /\ UNCHANGED grant

\* Evidence is validated non-empty before the transaction.
CompleteJob(j, p, g, k, now) ==
  /\ HoldsFresh(j, p, g, now)
  /\ Transition(j, k, {"verifying"},
       [job[j] EXCEPT !.state = "completed", !.evidence = TRUE,
                      !.owner = NoProc, !.until = 0, !.ended = TRUE], p, g)
  /\ Acts(j, p)
  /\ Granted(j, p, 0)

\* Wrong variant: the lease is left on the failed job.
FailJobLeased(j, p, g, k, now) ==
  /\ HoldsFresh(j, p, g, now)
  /\ Transition(j, k, Active,
       [job[j] EXCEPT !.state = "failed", !.error = "reported",
                      !.ended = TRUE], p, g)
  /\ Acts(j, p)
  /\ Granted(j, p, 0)

FailJob(j, p, g, k, now) ==
  /\ HoldsFresh(j, p, g, now)
  /\ Transition(j, k, Active,
       [job[j] EXCEPT !.state = "failed", !.error = "reported",
                      !.until = 0, !.ended = TRUE], p, g)
  /\ Acts(j, p)
  /\ Granted(j, p, 0)

RetryJob(j, p, g, k) ==
  /\ Holds(j, p, g)
  /\ job[j].attempts < job[j].budget
  /\ Transition(j, k, {"failed", "stalled"},
       [job[j] EXCEPT !.state = "queued", !.owner = NoProc, !.until = 0,
                      !.error = "none", !.evidence = FALSE,
                      !.ended = FALSE], p, g)
  /\ UNCHANGED <<workers, grant>>

\* The fence applies only while the job is active; p and g are optional else.
CancelJob(j, p, g, k, now) ==
  /\ job[j].state \in Active => HoldsFresh(j, p, g, now)
  /\ Transition(j, k, JobStates \ {"absent", "completed", "cancelled"},
       [job[j] EXCEPT !.state = "cancelled", !.owner = NoProc, !.until = 0,
                      !.ended = TRUE], p, g)
  /\ IF job[j].state \in Active
     THEN Acts(j, p) /\ Granted(j, p, 0)
     ELSE UNCHANGED <<workers, grant>>

\* Wrong variant: a lease about to run out counts as expired.
ExpiredSoon(j, now) == job[j].state \in Active /\ 0 < job[j].until
                                               /\ job[j].until <= now + 1

\* Wrong variant: jobs under verification are forgotten.
ExpiredUnverified(j, now) == job[j].state \in Active \ {"verifying"}
                             /\ 0 < job[j].until /\ job[j].until <= now

Expired(j, now) == job[j].state \in Active /\ 0 < job[j].until
                                           /\ job[j].until <= now

\* One transaction stalls every expired job it sees.
DetectStaleJobs(now) ==
  /\ \E j \in Jobs : Expired(j, now)
  /\ job' = [j \in Jobs |->
       IF Expired(j, now)
       THEN [job[j] EXCEPT !.state = "stalled", !.until = 0,
                           !.error = "lease_expired"]
       ELSE job[j]]
  /\ UNCHANGED <<clock, intent, log, workers, grant>>

Tick == /\ clock < MaxTime
        /\ clock' = clock + 1
        /\ UNCHANGED <<job, intent, log, workers, grant>>
-----------------------------------------------------------------------------
Generations(j) == 1..job[j].gen

WorkerStep(j, p, g, k, now) ==
  \/ CheckpointJob(j, p, g, k, now)
  \/ BeginVerification(j, p, g, k, now)
  \/ CompleteJob(j, p, g, k, now)
  \/ FailJob(j, p, g, k, now)
  \/ RetryJob(j, p, g, k)
  \/ \E d \in LeaseTimes : \/ Heartbeat(j, p, g, now, d)
                           \/ ResumeJob(j, p, g, k, now, d)

Next ==
  \/ \E i \in Intents, c \in Contents : CaptureIntent(i, c)
  \/ \E i \in Intents, s \in IntentStates, k \in Keys \cup {NoKey} :
       AdvanceIntent(i, s, k)
  \/ \E j \in Jobs, i \in Intents \cup {NoIntent}, b \in Budgets :
       EnqueueJob(j, i, b)
  \/ \E j \in Jobs, p \in Procs, k \in Keys \cup {NoKey}, now \in Clocks :
       \/ \E d \in LeaseTimes : StartJob(j, p, k, now, d)
       \/ \E g \in Generations(j) : WorkerStep(j, p, g, k, now)
       \/ \E g \in Generations(j) \cup {0} : CancelJob(j, p, g, k, now)
  \/ \E now \in Clocks : DetectStaleJobs(now)
  \/ Tick

Spec == Init /\ [][Next]_vars

\* The detector is run again and again (the CLI's "lifecycle stale") with the
\* time of day; no process is obliged to go on with its work.
FairSpec == Spec /\ WF_vars(Tick) /\ WF_vars(DetectStaleJobs(clock))
-----------------------------------------------------------------------------
(* Properties *)

\* Every variable keeps its type.
TypeOK == /\ clock \in Nat \ {0}
          /\ job \in [Jobs -> Job]
          /\ intent \in [Intents -> Intent]
          /\ log \subseteq LogEntry
          /\ workers \in [Jobs -> SUBSET Procs]
          /\ grant \in [Jobs -> [Procs -> Nat]]

\* No two processes ever hold unexpired leases on the same job: neither a late
\* reading of the clock nor a detector, retry or cancel in between lets
\* start_job hand a job out while a promise made earlier still runs.
ExclusiveLease ==
  \A j \in Jobs : \A p, q \in Procs :
    grant[j][p] > clock /\ grant[j][q] > clock => p = q

\* A lease that was promised and still runs is the one the table records, so
\* the worker it was promised to can go on working (lease_until is never
\* taken away early from under a live worker).
PromiseKept ==
  \A j \in Jobs, p \in Procs :
    grant[j][p] > clock =>
      /\ job[j].state \in Active
      /\ job[j].owner = p
      /\ job[j].until = grant[j][p]

\* Within one lease generation only the process start_job gave it to moves the
\* job: a worker whose job was stalled and restarted elsewhere changes nothing.
OneWorkerPerGeneration ==
  \A j \in Jobs : \A p, q \in workers[j] : p = q

\* start_job spends an attempt without looking at max_attempts; the bound holds
\* because a job never gets back to "queued" with its budget spent.
BudgetRespected ==
  \A j \in Jobs :
    /\ job[j].attempts = job[j].gen
    /\ job[j].attempts <= job[j].budget
    /\ job[j].state = "queued" => job[j].attempts < job[j].budget

\* The columns agree with the state whatever path led to it: an active job has
\* an owner and a lease the stale detector can see, every other job has none
\* to expire, evidence exists exactly when completed, terminal_at exactly when
\* the state is terminal, and a retried or restarted job carries no trace of
\* the attempt before.
RowConsistent ==
  \A j \in Jobs :
    LET r == job[j] IN
    /\ r.state \in Active => /\ r.owner \in Procs
                             /\ r.until > 0
                             /\ r.error = "none"
    /\ r.state \notin Active => r.until = 0
    /\ r.state \in {"absent", "queued"} => r.owner = NoProc /\ r.error = "none"
    /\ r.state \in {"failed", "stalled"} => r.owner \in Procs
    /\ r.evidence <=> r.state = "completed"
    /\ r.ended <=> r.state \in Ended
    /\ r.budget = 0 <=> r.state = "absent"

\* A verdict is final: no call changes a completed or a cancelled job again.
VerdictFinal ==
  [][\A j \in Jobs : job[j].state \in {"completed", "cancelled"} =>
                       job'[j] = job[j]]_vars

\* An intent is done only after a human's approval and the planning that
\* follows it: each step is one edge of INTENT_TRANSITIONS and an ended intent
\* never moves, whatever keys are replayed.
IntentRank(s) == CASE s = "absent" -> 0 [] s = "captured" -> 1
                   [] s = "clarified" -> 2 [] s = "approved" -> 3
                   [] s = "planned" -> 4 [] OTHER -> 5
IntentStepwise ==
  [][\A i \in Intents : intent'[i] # intent[i] =>
       /\ ~intent[i].ended
       /\ \/ IntentRank(intent'[i].state) = IntentRank(intent[i].state) + 1
          \/ intent'[i].state = "cancelled"
       /\ intent'[i].ended <=> intent'[i].state \in {"done", "cancelled"}
       /\ intent[i].state # "absent" => intent'[i].content = intent[i].content]_vars

\* An active job for which every promise of a lease has run out.
Silent(j) == job[j].state \in Active /\ \A p \in Procs : grant[j][p] <= clock

\* A job whose worker went silent is stalled (or ended) in the end, whatever state
\* it was left in and whatever its columns say: the detector's query finds every
\* active job that nobody was promised any longer.
ExpiredIsReaped == \A j \in Jobs : Silent(j) ~> ~Silent(j)

\* What the proofs need besides: while a lease (or its remains) names an owner,
\* that owner is the only one who acted in the current generation.
WorkersKnown ==
  \A j \in Jobs :
    job[j].state \in Active \cup {"failed", "stalled"} =>
      workers[j] = {job[j].owner}

IInv == /\ TypeOK
        /\ PromiseKept
        /\ BudgetRespected
        /\ RowConsistent
        /\ WorkersKnown
        /\ OneWorkerPerGeneration

\* The job table implements FencedWork: a job is held while it is active.
Holding(r) == IF r.state \in Active THEN r.owner ELSE NoProc
Verdict(r) == CASE r.state = "completed" -> "done"
                [] r.state = "cancelled" -> "dropped"
                [] OTHER -> "open"
Abstract == INSTANCE FencedWork WITH
  limit <- [j \in Jobs |-> job[j].budget],
  epoch <- [j \in Jobs |-> job[j].gen],
  holder <- [j \in Jobs |-> Holding(job[j])],
  verdict <- [j \in Jobs |-> Verdict(job[j])]
FencedWork == Abstract!Spec

\* lifecycle.py:7 - "any transition carrying an idempotency_key replays as a
\* no-op": the same call, repeated at once with the same arguments, gets past
\* the lease fence that _transition_job evaluates before it looks up the key.
FencedMoves == JobStates \ {"cancelled"}
ReplayIsNoOp ==
  \A t \in log :
    t.entity \in Jobs /\ t.to \in FencedMoves /\ t.from # "queued" =>
      IF t.to = "queued" THEN Holds(t.entity, t.by, t.gen)
                         ELSE HoldsFresh(t.entity, t.by, t.gen, clock)

\* README.md:70 - "Every active-state mutation ... atomically checks
\* freshness": no worker's call changes an active job whose lease has run out.
FreshWhenMutated ==
  [][\A j \in Jobs :
       job[j].state \in Active /\ job'[j] # job[j] /\ job'[j].state # "stalled"
         => job[j].until > clock]_vars
=============================================================================
