------------------------------ MODULE DreamSweep ------------------------------
(***************************************************************************)
(* A Dream sweep (dreaming/runner.py) against its SQLite state             *)
(* (dreaming/store.py), the artifact files (dreaming/artifacts.py) and the *)
(* lifecycle database.  A sweeper is a process that runs _execute: it      *)
(* takes the lease, recovers what a dead sweeper left, reads one batch of  *)
(* sessions, and commits and publishes what the model found in it.  Every  *)
(* transaction and every file move is one step; between two steps the      *)
(* process may die (Crash) or the next call may raise (Raise).             *)
(*                                                                         *)
(* Every run that is not a dry run has one round: run_sweep and            *)
(* run_extended both call _execute with max_rounds=1.  A lease is never    *)
(* taken from a live process, so its owner and generation are the process  *)
(* that holds it, and the row of a dead process is as free as a released   *)
(* one.  External sync of published imports is not part of this module.    *)
(***************************************************************************)
EXTENDS Integers, FiniteSets

CONSTANTS Sweepers,
          Sources,     \* sessions of the configured profiles
          MaxVer,      \* bound: messages a session grows to
          Claims,      \* candidate identities the model may propose
          Wordings,    \* claim variants of one identity
          Insights,
          Scores,      \* what the fingerprint tells apart of a score
          MaxRuns,     \* bound: runs started
          MaxFaults,   \* bound: crashes and raised exceptions
          RetainRuns, RetainReports,
          None

Runs == 1..MaxRuns
Refs == Sources \X (1..MaxVer)        \* one message of one session
Keys == Refs \cup Wordings            \* rows of evidence and candidate_claims
Classes == {"dream", "act", "defer"}  \* act: context_inbox, actionable
Kinds == {"report", "import"}

ASSUME SweepAssumption ==
  /\ {MaxRuns, MaxFaults} \subseteq Nat
  /\ {MaxVer, RetainRuns, RetainReports} \subseteq Nat \ {0}
  /\ None \notin Sweepers \cup Claims
  /\ Refs \cap Wordings = {}

VARIABLES ver,        \* messages each session holds now
          db,         \* the Dream database
          fs,         \* staging directory, published files, DREAMS.md markers
          intents,    \* candidates captured in the lifecycle database
          lease,      \* the live process that holds "dream-sweep"
          pc, my,     \* where each sweeper is, and its local variables
          faults,     \* faults left
          committed   \* history: what each committed run read and touched

vars == <<ver, db, fs, intents, lease, pc, my, faults, committed>>

Decision == [cand : Claims, class : Classes, score : Scores,
             refs : SUBSET Refs]
Fingerprint == [decs : SUBSET Decision, ins : SUBSET Insights]
NoFingerprint == [decs |-> {}, ins |-> {}]
NoCand == [first |-> 0, last |-> 0, reinf |-> 0, class |-> "open",
           state |-> "not_requested"]
Fresh == [run |-> 0, read |-> [s \in Sources |-> 0], cited |-> {},
          decs |-> {}, ins |-> {}, rest |-> {}, at |-> None]

Steps == {"idle", "recover", "mark", "report", "dreams", "import", "ack",
          "stage", "staged", "begin", "scan", "light", "rem", "artifacts",
          "stageImport", "commit", "noop", "finish", "prune", "pruneReports",
          "undo", "undoRows", "fail", "release"}

TypeOK ==
  /\ ver \in [Sources -> 1..MaxVer]
  /\ db.run \in [Runs -> {"none", "running", "complete", "failed", "pruned"}]
  /\ db.source \in [Sources -> [status : {"new", "pending", "complete"},
                                fp : 0..MaxVer]]
  /\ db.cand \in [Claims -> [first : 0..MaxRuns, last : 0..MaxRuns,
                             reinf : 0..MaxRuns, class : Classes \cup {"open"},
                             state : {"not_requested", "outbox_pending",
                                      "locally_published"}]]
  /\ db.row \in [Claims -> [Keys -> 0..MaxRuns]]
  /\ db.ins \in [Insights -> 0..MaxRuns]
  /\ \A r \in Runs : /\ db.pub[r].status \in {"none", "pending", "published"}
                     /\ db.pub[r].fp.ins \subseteq Insights
                     /\ \A d \in db.pub[r].fp.decs : d \in Decision
  /\ db.reported \subseteq Runs
  /\ db.outbox \in [Claims -> {"none", "pending", "staged"}]
  /\ fs.staged \subseteq Runs \X Kinds
  /\ fs.final \subseteq Runs \X Kinds
  /\ intents \subseteq Claims
  /\ lease \in Sweepers \cup {None}
  /\ pc \in [Sweepers -> Steps]
  /\ \A p \in Sweepers : my[p].run \in 0..MaxRuns
  /\ faults \in 0..MaxFaults
  /\ DOMAIN committed \subseteq Runs

Init ==
  /\ ver = [s \in Sources |-> 1]
  /\ db = [run |-> [r \in Runs |-> "none"],
           source |-> [s \in Sources |-> [status |-> "new", fp |-> 0]],
           cand |-> [c \in Claims |-> NoCand],
           row |-> [c \in Claims |-> [k \in Keys |-> 0]],
           ins |-> [i \in Insights |-> 0],
           pub |-> [r \in Runs |-> [status |-> "none", fp |-> NoFingerprint]],
           reported |-> {},
           outbox |-> [c \in Claims |-> "none"]]
  /\ fs = [staged |-> {}, final |-> {}, dreams |-> {}]
  /\ intents = {}
  /\ lease = None
  /\ pc = [p \in Sweepers |-> "idle"]
  /\ my = [p \in Sweepers |-> Fresh]
  /\ faults = MaxFaults
  /\ committed = [r \in {} |-> 0]

-----------------------------------------------------------------------------
(* The database: what the transactions read and write.                     *)

\* Wrong variant: a running run is abandoned though its publication is pending.
AllRunning == {r \in Runs : db.run[r] = "running"}

Abandoned == {r \in Runs : db.run[r] = "running" /\ db.pub[r].status # "pending"}
Pending == {r \in Runs : db.pub[r].status = "pending"}
Oldest == CHOOSE r \in Pending : \A q \in Pending : r <= q
ToStage == {c \in Claims : db.outbox[c] = "pending"}
Eligible == {s \in Sources : ~ (/\ db.source[s].status = "complete"
                                /\ db.source[s].fp = ver[s])}
Reported(fp) == \E r \in db.reported : db.pub[r].fp = fp

\* Wrong variant: insights of the run are kept.
UndoneButInsights(r) ==
  [db EXCEPT
     !.row = [c \in Claims |-> [k \in Keys |-> IF @[c][k] = r THEN 0 ELSE @[c][k]]],
     !.cand = [c \in Claims |-> IF @[c].first = r THEN NoCand ELSE @[c]]]

\* DELETE every row the run inserted, and the candidates it saw first.
Undone(r) ==
  [db EXCEPT
     !.row = [c \in Claims |-> [k \in Keys |-> IF @[c][k] = r THEN 0 ELSE @[c][k]]],
     !.cand = [c \in Claims |-> IF @[c].first = r THEN NoCand ELSE @[c]],
     !.ins = [i \in Insights |-> IF @[i] = r THEN 0 ELSE @[i]]]

\* Wrong variant: the run that found a candidate reinforces it too.
TouchedFirst(r) ==
  {c \in Claims : db.cand[c].first # 0 /\ \E k \in Keys : db.row[c][k] = r}

\* Candidates of earlier runs for which this run has new rows.
Touched(r) ==
  {c \in Claims : /\ db.cand[c].first \notin {0, r}
                  /\ \E k \in Keys : db.row[c][k] = r}

Reinforced(r) ==
  [c \in Claims |-> IF c \in Touched(r)
                    THEN [db.cand[c] EXCEPT !.reinf = @ + 1, !.last = r]
                    ELSE db.cand[c]]

\* What both commits do to the candidate rows of their decisions; only a
\* publication moves publication_state.
Decided(cands, decs, publish) ==
  [c \in Claims |->
     IF \E d \in decs : d.cand = c
     THEN LET d == CHOOSE x \in decs : x.cand = c
          IN [cands[c] EXCEPT
                !.class = d.class,
                !.state = IF ~ publish THEN @
                          ELSE IF d.class = "dream" THEN "outbox_pending"
                          ELSE "not_requested"]
     ELSE cands[c]]

\* _queue_decision_staging: INSERT OR IGNORE, so a staged row stays staged.
Queued(decs) ==
  [c \in Claims |->
     IF db.outbox[c] = "none" /\ \E d \in decs : d.cand = c /\ d.class = "act"
     THEN "pending" ELSE db.outbox[c]]

\* Wrong variant: the checkpoint takes the session as it is by now.
CommittedLatest(r, p, publish) ==
  [db EXCEPT
     !.cand = Decided(Reinforced(r), my[p].decs, publish),
     !.outbox = Queued(my[p].decs),
     !.ins = [i \in Insights |-> IF i \in my[p].ins THEN r ELSE @[i]],
     !.source = [s \in Sources |-> IF my[p].read[s] = 0 THEN @[s]
                                   ELSE [status |-> "complete", fp |-> ver[s]]]]

\* The part the two commits share.
Committed(r, p, publish) ==
  [db EXCEPT
     !.cand = Decided(Reinforced(r), my[p].decs, publish),
     !.outbox = Queued(my[p].decs),
     !.ins = [i \in Insights |-> IF i \in my[p].ins THEN r ELSE @[i]],
     !.source = [s \in Sources |-> IF my[p].read[s] = 0 THEN @[s]
                                   ELSE [@[s] EXCEPT !.status = "complete"]]]

Logged(r, p) ==
  [q \in DOMAIN committed \cup {r} |->
     IF q = r
     THEN [read |-> my[p].read, touched |-> Touched(r),
           acts |-> {d.cand : d \in {x \in my[p].decs : x.class = "act"}}]
     ELSE committed[q]]

-----------------------------------------------------------------------------
(* One sweep.                                                              *)

Go(p, from, to) == pc[p] = from /\ pc' = [pc EXCEPT ![p] = to]

Acquire(p) ==
  /\ Go(p, "idle", "recover")
  /\ lease = None
  /\ lease' = p
  /\ UNCHANGED <<ver, db, fs, intents, my, faults, committed>>

\* rollback_abandoned_mutations: one transaction per abandoned run ...
Rollback(p) ==
  /\ Go(p, "recover", "mark")
  /\ \E r \in Abandoned : /\ db' = Undone(r)
                          /\ my' = [my EXCEPT ![p].run = r]
  /\ UNCHANGED <<ver, fs, intents, lease, faults, committed>>

\* ... and another that marks it failed.
MarkAbandoned(p) ==
  /\ Go(p, "mark", "recover")
  /\ db' = [db EXCEPT !.run[my[p].run] = "failed"]
  /\ my' = [my EXCEPT ![p].run = 0]
  /\ UNCHANGED <<ver, fs, intents, lease, faults, committed>>

\* Wrong variant: staged files of committed publications are removed too.
CleanAllStaging(p) ==
  /\ Go(p, "recover", "report")
  /\ Abandoned = {}
  /\ fs' = [fs EXCEPT !.staged = {}]
  /\ UNCHANGED <<ver, db, intents, lease, my, faults, committed>>

CleanStaging(p) ==
  /\ Go(p, "recover", "report")
  /\ Abandoned = {}
  /\ fs' = [fs EXCEPT !.staged = {f \in @ : f[1] \in Pending}]
  /\ UNCHANGED <<ver, db, intents, lease, my, faults, committed>>

\* _publish_one: an artifact already in place is accepted, a staged one moved.
Move(r, kind) ==
  /\ <<r, kind>> \in fs.staged \cup fs.final
  /\ fs' = [fs EXCEPT !.staged = @ \ {<<r, kind>>},
                      !.final = @ \cup {<<r, kind>>}]

\* _reconcile_publications: adopt under the fence, then publish_files.
\* Wrong variant: the import is moved first.
PublishImportFirst(p) ==
  /\ Go(p, "report", "dreams")
  /\ Pending # {}
  /\ lease = p
  /\ Move(Oldest, "import")
  /\ UNCHANGED <<ver, db, intents, lease, my, faults, committed>>

PublishReport(p) ==
  /\ Go(p, "report", "dreams")
  /\ Pending # {}
  /\ lease = p
  /\ Move(Oldest, "report")
  /\ UNCHANGED <<ver, db, intents, lease, my, faults, committed>>

UpdateDreams(p) ==
  /\ Go(p, "dreams", "import")
  /\ fs' = [fs EXCEPT !.dreams = @ \cup {db.pub[Oldest].fp}]
  /\ UNCHANGED <<ver, db, intents, lease, my, faults, committed>>

PublishImport(p) ==
  /\ Go(p, "import", "ack")
  /\ Move(Oldest, "import")
  /\ UNCHANGED <<ver, db, intents, lease, my, faults, committed>>

\* mark_publication_published.
Acknowledge(p) ==
  /\ Go(p, "ack", "report")
  /\ lease = p
  /\ LET r == Oldest
         dream == {d.cand : d \in {x \in db.pub[r].fp.decs : x.class = "dream"}}
     IN db' = [db EXCEPT
                 !.pub[r].status = "published",
                 !.run[r] = "complete",
                 !.cand = [c \in Claims |->
                             IF c \in dream /\ @[c].first # 0
                             THEN [@[c] EXCEPT !.state = "locally_published"]
                             ELSE @[c]]]
  /\ UNCHANGED <<ver, fs, intents, lease, my, faults, committed>>

\* Wrong variant: recovery leaves the outbox to the next publishing run.
ListStagingOwn(p) ==
  /\ Go(p, "report", "stage")
  /\ Pending = {}
  /\ my' = [my EXCEPT ![p].rest = IF my[p].run = 0 THEN {} ELSE ToStage]
  /\ UNCHANGED <<ver, db, fs, intents, lease, faults, committed>>

\* Nothing is left to publish: _reconcile_staging lists the outbox.
ListStaging(p) ==
  /\ Go(p, "report", "stage")
  /\ Pending = {}
  /\ my' = [my EXCEPT ![p].rest = ToStage]
  /\ UNCHANGED <<ver, db, fs, intents, lease, faults, committed>>

\* Wrong variant: the row is marked before the intent is captured.
MarkThenCapture(p) ==
  /\ Go(p, "stage", "staged")
  /\ \E c \in my[p].rest : /\ db' = [db EXCEPT !.outbox[c] = "staged"]
                           /\ my' = [my EXCEPT ![p].at = c,
                                               ![p].rest = @ \ {c}]
  /\ UNCHANGED <<ver, fs, intents, lease, faults, committed>>

CaptureIntent(p) ==
  /\ Go(p, "stage", "staged")
  /\ \E c \in my[p].rest : /\ intents' = intents \cup {c}
                           /\ my' = [my EXCEPT ![p].at = c,
                                               ![p].rest = @ \ {c}]
  /\ UNCHANGED <<ver, db, fs, lease, faults, committed>>

MarkStaged(p) ==
  /\ Go(p, "staged", "stage")
  /\ db' = [db EXCEPT !.outbox[my[p].at] = "staged"]
  /\ UNCHANGED <<ver, fs, intents, lease, my, faults, committed>>

\* The lifecycle or the Dream database refuses: the row stays pending and the
\* loop goes on with the next one.
StagingFails(p) ==
  /\ faults > 0
  /\ faults' = faults - 1
  /\ \/ /\ pc[p] = "stage"
        /\ \E c \in my[p].rest : my' = [my EXCEPT ![p].rest = @ \ {c}]
     \/ /\ pc[p] = "staged"
        /\ UNCHANGED my
  /\ pc' = [pc EXCEPT ![p] = "stage"]
  /\ UNCHANGED <<ver, db, fs, intents, lease, committed>>

StagingDone(p) ==
  /\ Go(p, "stage", IF my[p].run = 0 THEN "begin" ELSE "finish")
  /\ my[p].rest = {}
  /\ UNCHANGED <<ver, db, fs, intents, lease, my, faults, committed>>

\* start_run.  When the bound on runs is used up the sweep only recovered.
Begin(p) ==
  /\ pc[p] = "begin"
  /\ LET unused == {r \in Runs : db.run[r] = "none"}
     IN IF unused = {}
        THEN /\ pc' = [pc EXCEPT ![p] = "release"]
             /\ UNCHANGED <<db, my>>
        ELSE LET r == CHOOSE x \in unused : \A q \in unused : x <= q
             IN /\ pc' = [pc EXCEPT ![p] = "scan"]
                /\ db' = [db EXCEPT !.run[r] = "running"]
                /\ my' = [my EXCEPT ![p].run = r]
  /\ UNCHANGED <<ver, fs, intents, lease, faults, committed>>

\* _scan, register_sources of everything eligible, and the choice of a batch.
Scan(p) ==
  /\ pc[p] = "scan"
  /\ IF Eligible = {}
     THEN /\ pc' = [pc EXCEPT ![p] = "finish"]
          /\ UNCHANGED <<db, my>>
     ELSE /\ pc' = [pc EXCEPT ![p] = "light"]
          /\ db' = [db EXCEPT !.source =
                      [s \in Sources |->
                         IF s \in Eligible
                         THEN [status |-> IF @[s].fp = ver[s] THEN @[s].status
                                          ELSE "pending",
                               fp |-> ver[s]]
                         ELSE @[s]]]
          /\ \E batch \in SUBSET Eligible \ {{}} :
               my' = [my EXCEPT ![p].read =
                        [s \in Sources |-> IF s \in batch THEN ver[s] ELSE 0]]
  /\ UNCHANGED <<ver, fs, intents, lease, faults, committed>>

\* Light: upsert_candidate for each claim the model proposes, with one wording
\* and the messages it cites.  One transaction per claim; a crash between two
\* of them leaves what a smaller answer would.
Light(p) ==
  /\ Go(p, "light", "rem")
  /\ LET r == my[p].run
         catalog == {k \in Refs : k[2] <= my[p].read[k[1]]}
     IN \E cites \in [Claims -> SUBSET catalog], word \in [Claims -> Wordings] :
          LET cited == {c \in Claims : cites[c] # {}} IN
          /\ db' = [db EXCEPT
                      !.cand = [c \in Claims |->
                                  IF c \in cited /\ @[c].first = 0
                                  THEN [NoCand EXCEPT !.first = r, !.last = r,
                                                      !.reinf = 1]
                                  ELSE @[c]],
                      !.row = [c \in Claims |-> [k \in Keys |->
                                 IF c \in cited /\ @[c][k] = 0
                                    /\ k \in cites[c] \cup {word[c]}
                                 THEN r ELSE @[c][k]]]]
          /\ my' = [my EXCEPT ![p].cited = cited]
  /\ UNCHANGED <<ver, fs, intents, lease, faults, committed>>

\* REM and Deep: upsert_insight (ON CONFLICT DO NOTHING), then a class for
\* every cited candidate over all the evidence it now has.  Its score also falls
\* with the time since it was last reinforced, so any score may come out.
RemDeep(p) ==
  /\ Go(p, "rem", "artifacts")
  /\ \E found \in SUBSET Insights, class \in [my[p].cited -> Classes],
        score \in [my[p].cited -> Scores] :
       /\ db' = [db EXCEPT !.ins = [i \in Insights |->
                   IF i \in found /\ @[i] = 0 THEN my[p].run ELSE @[i]]]
       /\ my' = [my EXCEPT
                   ![p].ins = found,
                   ![p].decs =
                     {[cand |-> c, class |-> class[c], score |-> score[c],
                       refs |-> {k \in Refs : db.row[c][k] # 0}] :
                        c \in my[p].cited}]
  /\ UNCHANGED <<ver, fs, intents, lease, faults, committed>>

NewFingerprint(p) == [decs |-> my[p].decs, ins |-> my[p].ins]

\* A fingerprint already reported makes the round a no-op; otherwise the
\* report and then the import are written to the staging directory.
StageReport(p) ==
  /\ pc[p] = "artifacts"
  /\ IF Reported(NewFingerprint(p))
     THEN /\ pc' = [pc EXCEPT ![p] = "noop"]
          /\ UNCHANGED fs
     ELSE /\ pc' = [pc EXCEPT ![p] = "stageImport"]
          /\ fs' = [fs EXCEPT !.staged = @ \cup {<<my[p].run, "report">>}]
  /\ UNCHANGED <<ver, db, intents, lease, my, faults, committed>>

StageImport(p) ==
  /\ Go(p, "stageImport", "commit")
  /\ fs' = [fs EXCEPT !.staged = @ \cup {<<my[p].run, "import">>}]
  /\ UNCHANGED <<ver, db, intents, lease, my, faults, committed>>

CommitPublication(p) ==
  /\ Go(p, "commit", "report")
  /\ lease = p
  /\ LET r == my[p].run
         fp == NewFingerprint(p)
     IN /\ db' = [Committed(r, p, TRUE) EXCEPT
                    !.pub[r] = [status |-> "pending", fp |-> fp],
                    !.reported = {q \in @ : db.pub[q].fp # fp} \cup {r}]
        /\ committed' = Logged(r, p)
  /\ UNCHANGED <<ver, fs, intents, lease, my, faults>>

CommitNoop(p) ==
  /\ Go(p, "noop", "stage")
  /\ lease = p
  /\ db' = Committed(my[p].run, p, FALSE)
  /\ committed' = Logged(my[p].run, p)
  /\ my' = [my EXCEPT ![p].rest = {c \in Claims : db'.outbox[c] = "pending"}]
  /\ UNCHANGED <<ver, fs, intents, lease, faults>>

Finish(p) ==
  /\ Go(p, "finish", "prune")
  /\ db' = [db EXCEPT !.run[my[p].run] = "complete"]
  /\ UNCHANGED <<ver, fs, intents, lease, my, faults, committed>>

\* The rows older than the newest n of a set of runs.
Stale(set, n) == {r \in set : Cardinality({q \in set : q > r}) >= n}

\* prune: old runs with their insights, and the deferred candidates (with
\* their evidence, not their wordings) that such a run touched last.
PruneRuns(p) ==
  /\ Go(p, "prune", "pruneReports")
  /\ LET stale == Stale({r \in Runs : db.run[r] \notin {"none", "pruned"}},
                        RetainRuns)
         gone == {c \in Claims : /\ db.cand[c].last \in stale
                                 /\ db.cand[c].class = "defer"}
     IN db' = [db EXCEPT
                 !.run = [r \in Runs |-> IF r \in stale THEN "pruned" ELSE @[r]],
                 !.ins = [i \in Insights |-> IF @[i] \in stale THEN 0 ELSE @[i]],
                 !.cand = [c \in Claims |-> IF c \in gone THEN NoCand ELSE @[c]],
                 !.row = [c \in Claims |-> [k \in Keys |->
                            IF c \in gone /\ k \in Refs THEN 0 ELSE @[c][k]]]]
  /\ UNCHANGED <<ver, fs, intents, lease, my, faults, committed>>

\* prune_reports, and the report files of the rows it removed.
PruneReports(p) ==
  /\ Go(p, "pruneReports", "release")
  /\ LET stale == Stale(db.reported, RetainReports)
     IN /\ db' = [db EXCEPT !.reported = @ \ stale]
        /\ fs' = [fs EXCEPT !.final = @ \ (stale \X {"report"})]
  /\ UNCHANGED <<ver, intents, lease, my, faults, committed>>

-----------------------------------------------------------------------------
(* The ways out: exception handlers and release.                           *)

CleanStaged(p) ==
  /\ Go(p, "undo", "undoRows")
  /\ fs' = [fs EXCEPT !.staged = {f \in @ : f[1] # my[p].run}]
  /\ UNCHANGED <<ver, db, intents, lease, my, faults, committed>>

UndoRows(p) ==
  /\ Go(p, "undoRows", "fail")
  /\ db' = Undone(my[p].run)
  /\ UNCHANGED <<ver, fs, intents, lease, my, faults, committed>>

\* finish_run with status failed or deadline_reached.
FinishFailed(p) ==
  /\ Go(p, "fail", "release")
  /\ db' = [db EXCEPT !.run[my[p].run] = "failed"]
  /\ UNCHANGED <<ver, fs, intents, lease, my, faults, committed>>

\* Wrong variant: the lease stays with the live process.
ReleaseNot(p) ==
  /\ Go(p, "release", "idle")
  /\ my' = [my EXCEPT ![p] = Fresh]
  /\ UNCHANGED <<ver, db, fs, intents, lease, faults, committed>>

Release(p) ==
  /\ Go(p, "release", "idle")
  /\ lease' = IF lease = p THEN None ELSE lease
  /\ my' = [my EXCEPT ![p] = Fresh]
  /\ UNCHANGED <<ver, db, fs, intents, faults, committed>>

\* Where an exception (a deadline, a full disk, a locked database) raised in
\* the step the sweeper is about to take leads: the except and finally clauses
\* of _execute.
Handler(p) ==
  LET run == my[p].run IN
  CASE pc[p] \in {"recover", "mark", "ack", "undoRows", "fail"} -> "release"
    [] pc[p] \in {"report", "dreams", "import", "stage", "staged"} ->
         IF run = 0 THEN "release" ELSE "fail"
    [] pc[p] \in {"scan", "light", "rem", "artifacts", "stageImport", "commit",
                  "noop"} -> "undo"
    [] pc[p] \in {"finish", "prune", "pruneReports"} ->
         IF db.pub[run].status # "none" THEN "release"
         ELSE IF run \in DOMAIN committed THEN "fail"
         ELSE "undo"

Raise(p) ==
  /\ faults > 0
  /\ faults' = faults - 1
  /\ pc[p] \notin {"idle", "begin", "undo", "release"}
  /\ pc' = [pc EXCEPT ![p] = Handler(p)]
  /\ UNCHANGED <<ver, db, fs, intents, lease, my, committed>>

\* The process dies: its locals are gone and nobody lives behind its lease.
Crash(p) ==
  /\ faults > 0
  /\ faults' = faults - 1
  /\ pc[p] # "idle"
  /\ pc' = [pc EXCEPT ![p] = "idle"]
  /\ my' = [my EXCEPT ![p] = Fresh]
  /\ lease' = IF lease = p THEN None ELSE lease
  /\ UNCHANGED <<ver, db, fs, intents, committed>>

\* A conversation goes on.
Grow(s) ==
  /\ ver[s] < MaxVer
  /\ ver' = [ver EXCEPT ![s] = @ + 1]
  /\ UNCHANGED <<db, fs, intents, lease, pc, my, faults, committed>>

Step(p) ==
  \/ Acquire(p) \/ Rollback(p) \/ MarkAbandoned(p) \/ CleanStaging(p)
  \/ PublishReport(p) \/ UpdateDreams(p) \/ PublishImport(p) \/ Acknowledge(p)
  \/ ListStaging(p) \/ CaptureIntent(p) \/ MarkStaged(p) \/ StagingDone(p)
  \/ Begin(p) \/ Scan(p) \/ Light(p) \/ RemDeep(p)
  \/ StageReport(p) \/ StageImport(p) \/ CommitPublication(p) \/ CommitNoop(p)
  \/ Finish(p) \/ PruneRuns(p) \/ PruneReports(p)
  \/ CleanStaged(p) \/ UndoRows(p) \/ FinishFailed(p) \/ Release(p)

Next ==
  \/ \E p \in Sweepers : Step(p) \/ StagingFails(p) \/ Raise(p) \/ Crash(p)
  \/ \E s \in Sources : Grow(s)

Spec == Init /\ [][Next]_vars

\* A sweep is started again and again and, once started, runs.
FairSpec == Spec /\ \A p \in Sweepers : WF_vars(Step(p))

-----------------------------------------------------------------------------
(* Properties.                                                             *)

Working(p) == pc[p] # "idle"

\* Only one sweeper is ever past acquire_lease, and it holds the lease.
OneSweeper ==
  \A p, q \in Sweepers :
    Working(p) => /\ lease = p
                  /\ Working(q) => p = q

\* The watched import is the last thing to appear: its run is committed, its
\* DREAMS.md entry is written and its report is in place (until retention
\* takes the report).  publish_files, whatever crashed in between.
ImportLast ==
  \A r \in Runs : <<r, "import">> \in fs.final =>
    /\ r \in DOMAIN committed
    /\ db.pub[r].fp \in fs.dreams
    /\ <<r, "report">> \in fs.final \/ r \notin db.reported

\* A committed publication can always be finished: its artifacts are staged or
\* already in place, whatever a recovery cleaned up.  One that cannot blocks
\* every later sweep.
PublicationIsWhole ==
  \A r \in Pending, k \in Kinds : <<r, k>> \in fs.staged \cup fs.final

\* No sweep starts a run over an unfinished publication, so there is never
\* more than one, and it belongs to the newest run.
OnePending ==
  \A r \in Pending, q \in Runs : q > r => db.run[q] = "none"

\* While a sweep reads sessions, every row and staged file is a committed
\* run's or its own: what failed and dead sweeps wrote is gone.
NoResidue ==
  \A p \in Sweepers :
    pc[p] \in {"scan", "light", "rem", "artifacts", "stageImport", "commit",
               "noop", "finish"} =>
      LET known == DOMAIN committed \cup {0, my[p].run}
      IN /\ \A c \in Claims : /\ db.cand[c].first \in known
                              /\ \A k \in Keys : db.row[c][k] \in known
         /\ \A i \in Insights : db.ins[i] \in known
         /\ \A f \in fs.staged : f[1] \in Pending \cup {my[p].run}

\* Reinforcement counts the committed runs that brought something new, each
\* once: no failed, recovered or repeated run inflates it.
ReinforcedOnce ==
  \A c \in Claims : db.cand[c].first # 0 =>
    db.cand[c].reinf = 1 + Cardinality({r \in DOMAIN committed :
                              r > db.cand[c].first /\ c \in committed[r].touched})

\* A session counts as done only up to what a committed run read of it: what
\* it grew by during a run, or a failed run read, is read later.
CheckpointIsHonest ==
  \A s \in Sources : db.source[s].status = "complete" =>
    \E r \in DOMAIN committed : committed[r].read[s] = db.source[s].fp

\* Candidate intents and the outbox agree across two databases: an intent was
\* queued by a committed decision, and what is marked staged was captured.
OutboxIsHonest ==
  \A c \in Claims :
    /\ c \in intents => db.outbox[c] # "none"
    /\ db.outbox[c] = "staged" => c \in intents
    /\ db.outbox[c] # "none" <=> \E r \in DOMAIN committed : c \in committed[r].acts

Pruning == \E p \in Sweepers : pc[p] = "prune" /\ pc'[p] = "pruneReports"

\* Evidence of a published run is never lost but to retention: no rollback and
\* no recovery reaches it.
PublishedEvidenceStays ==
  [][\A c \in Claims, k \in Keys :
       LET r == db.row[c][k]
       IN r # 0 /\ db.pub[r].status # "none" /\ ~ Pruning
          => db'.row[c][k] = r]_vars

\* Rollback removes only uncommitted rows (docstring of rollback_run_mutations,
\* store.py:1528): a row of a committed run goes only to retention.
RollbackSparesCommitted ==
  [][/\ \A c \in Claims, k \in Keys :
          db.row[c][k] \in DOMAIN committed /\ ~ Pruning => db'.row[c][k] # 0
     /\ \A i \in Insights :
          db.ins[i] \in DOMAIN committed /\ ~ Pruning => db'.ins[i] # 0]_vars

\* Bookkeeping trouble after the import is in place does not mark its run as
\* failed (comment in _execute, runner.py:565).
PublishedIsNotFailed ==
  \A r \in Runs : db.pub[r].status = "published" => db.run[r] # "failed"

\* Once faults stop, a committed publication is published ...
PublicationDelivered ==
  \A r \in Runs : (r \in Pending) ~> (db.pub[r].status = "published")

\* ... and a queued intent reaches the lifecycle database.
IntentDelivered ==
  \A c \in Claims : (c \in ToStage) ~> (c \in intents)
=============================================================================
