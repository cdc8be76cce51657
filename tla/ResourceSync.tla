---------------------------- MODULE ResourceSync ----------------------------
(***************************************************************************)
(* The generic OpenViking sync: sync.py over state.py, scanner.py and      *)
(* ov_adapter.py. Syncs are processes that scan one source, record what    *)
(* they saw, claim rows for upload and record the results; every method of *)
(* State is one SQLite transaction, every ov command one step. Files       *)
(* change, scans are interrupted, commands fail, syncs die and claims run  *)
(* out while all of this goes on. A text is a version number: an edit      *)
(* never brings an earlier text back. A manifest may wait for OpenViking   *)
(* to index what it uploads or not (wait_for_indexing).                    *)
(***************************************************************************)
EXTENDS Naturals, FiniteSets

CONSTANTS Syncs,        \* sync processes
          Resources,    \* files of the source, each with its row
          MaxVersion,   \* bound: texts a file has in turn
          MaxFaults,    \* bound: interruptions, failed commands, deaths
          Concurrency,  \* manifest.concurrency: rows of one batch
          Waiting,      \* values of wait_for_indexing the manifest may have
          Nobody        \* the lease_owner NULL

ASSUME SyncAssumption ==
    /\ Nobody \notin Syncs
    /\ MaxVersion \in Nat \ {0} /\ MaxFaults \in Nat /\ Concurrency \in Nat \ {0}
    /\ IsFiniteSet(Resources)
    /\ Waiting \subseteq BOOLEAN /\ Waiting # {}

Gone == 0                              \* no file, no text
Versions == 1..MaxVersion
Statuses == {"none", "pending", "in_progress", "synced", "failed", "deleted"}

\* The states of one upload of a batch; "none" when r is not in the batch.
Uploads == {"none", "stat", "rm", "write", "add", "tag", "ok", "failed"}

VARIABLES disk,     \* the file's text, or Gone
          version,  \* the last text the file had
          rows,     \* table resources
          remote,   \* what OpenViking holds: its text, its sha256 tag, and
                    \* whether it is locked, that is, still indexing
          syncs,    \* program counter and locals of each sync
          faults

vars == <<disk, version, rows, remote, syncs, faults>>

Row == [status: Statuses, sha: 0..MaxVersion, uri: BOOLEAN,
        owner: Syncs \cup {Nobody}, lapsed: BOOLEAN]
NoRow == [status |-> "none", sha |-> Gone, uri |-> FALSE,
          owner |-> Nobody, lapsed |-> FALSE]

\* sha and uri are the claimed row's; old says that since then a scan gave
\* the row another text or another sync claimed it (history).
Job == [at: Uploads, sha: 0..MaxVersion, uri: BOOLEAN, old: BOOLEAN]
NoJob == [at |-> "none", sha |-> Gone, uri |-> FALSE, old |-> FALSE]

Sync == [pc: {"idle", "list", "read", "missing", "upsert", "claim", "work", "mark", "giveup"},
         listed: SUBSET Resources, seen: [Resources -> 0..MaxVersion],
         done: SUBSET Resources, job: [Resources -> Job], waits: BOOLEAN]
Idle == [pc |-> "idle", listed |-> {}, seen |-> [r \in Resources |-> Gone],
         done |-> {}, job |-> [r \in Resources |-> NoJob], waits |-> TRUE]

Absent == [text |-> Gone, tag |-> Gone, locked |-> FALSE]

Init ==
    /\ disk \in [Resources -> {Gone, 1}]
    /\ version = disk
    /\ rows = [r \in Resources |-> NoRow]
    /\ remote = [r \in Resources |-> Absent]
    /\ syncs = [p \in Syncs |-> Idle]
    /\ faults = 0

At(p, pc) == syncs[p].pc = pc
Goto(p, pc) == syncs' = [syncs EXCEPT ![p].pc = pc]
Fault == faults < MaxFaults /\ faults' = faults + 1

-----------------------------------------------------------------------------
(* Files change by themselves. *)

Edit(r) ==
    /\ version[r] < MaxVersion
    /\ version' = [version EXCEPT ![r] = @ + 1]
    /\ disk' = [disk EXCEPT ![r] = version[r] + 1]
    /\ UNCHANGED <<rows, remote, syncs, faults>>

Delete(r) ==
    /\ disk[r] # Gone /\ version[r] < MaxVersion
    /\ disk' = [disk EXCEPT ![r] = Gone]
    /\ UNCHANGED <<version, rows, remote, syncs, faults>>

-----------------------------------------------------------------------------
(* scan_source and its three outcomes *)

Start(p) ==
    /\ At(p, "idle")
    /\ \E waits \in Waiting : syncs' = [syncs EXCEPT ![p] = [Idle EXCEPT !.pc = "list", !.waits = waits]]
    /\ UNCHANGED <<disk, version, rows, remote, faults>>

ListFiles(p) ==
    /\ At(p, "list")
    /\ syncs' = [syncs EXCEPT ![p].pc = "read",
                              ![p].listed = {r \in Resources : disk[r] # Gone}]
    /\ UNCHANGED <<disk, version, rows, remote, faults>>

\* An interrupted listing (twice InterruptedError) is returned as an empty one.
ListInterrupted(p) ==
    /\ At(p, "list") /\ Fault
    /\ Goto(p, "upsert")
    /\ UNCHANGED <<disk, version, rows, remote>>

RootMissing(p) ==
    /\ At(p, "list") /\ Fault
    /\ Goto(p, "missing")
    /\ UNCHANGED <<disk, version, rows, remote>>

ReadFiles(p) ==
    /\ At(p, "read")
    /\ syncs' = [syncs EXCEPT ![p].pc = "upsert",
                              ![p].seen = [r \in Resources |-> IF r \in syncs[p].listed THEN disk[r] ELSE Gone]]
    /\ UNCHANGED <<disk, version, rows, remote, faults>>

\* A file that is gone when it is opened raises FileNotFoundError out of the
\* scan, which sync_manifest takes for a missing root.
FileVanishes(p) ==
    /\ At(p, "read")
    /\ \E r \in syncs[p].listed : disk[r] = Gone
    /\ Goto(p, "missing")
    /\ UNCHANGED <<disk, version, rows, remote, faults>>

-----------------------------------------------------------------------------
(* State.upsert_scan and State.mark_source_missing *)

Tombstone(row) == [row EXCEPT !.status = "deleted", !.owner = Nobody, !.lapsed = FALSE]

\* Wrong variant: a row under way keeps its lease whatever its new text is.
RecordedLeased(row, s) ==
    [row EXCEPT !.status = IF row.status \in {"none", "failed", "deleted"} \/ row.sha # s
                           THEN "pending" ELSE @,
                !.sha = s]

\* Wrong variant: a tombstone comes back only with another text.
RecordedOnce(row, s) ==
    LET kept == row.sha = s /\ row.status = "in_progress"
    IN  [row EXCEPT !.status = IF row.status \in {"none", "failed"} \/ row.sha # s THEN "pending" ELSE @,
                    !.sha = s,
                    !.owner = IF kept THEN @ ELSE Nobody,
                    !.lapsed = IF kept THEN @ ELSE FALSE]

\* The row of a file the scan saw with text s.
Recorded(row, s) ==
    LET enqueue == row.status \in {"none", "failed", "deleted"} \/ row.sha # s
        kept == row.sha = s /\ row.status = "in_progress"
    IN  [row EXCEPT !.status = IF enqueue THEN "pending" ELSE @,
                    !.sha = s,
                    !.owner = IF kept THEN @ ELSE Nobody,
                    !.lapsed = IF kept THEN @ ELSE FALSE]

Scanned(row, s) ==
    IF s # Gone THEN Recorded(row, s)
    ELSE IF row.status \in {"none", "deleted"} THEN row ELSE Tombstone(row)

\* The syncs when the uploads of the given rows have become old.
Aged(outdated) ==
    [q \in Syncs |-> [syncs[q] EXCEPT !.job = [r \in Resources |->
        IF r \in outdated /\ @[r].at # "none" THEN [@[r] EXCEPT !.old = TRUE] ELSE @[r]]]]

UpsertScan(p) ==
    /\ At(p, "upsert")
    /\ rows' = [r \in Resources |-> Scanned(rows[r], syncs[p].seen[r])]
    /\ syncs' = [Aged({r \in Resources : rows'[r].sha # rows[r].sha})
                    EXCEPT ![p].pc = "claim", ![p].listed = {}, ![p].seen = Idle.seen]
    /\ UNCHANGED <<disk, version, remote, faults>>

MarkMissing(p) ==
    /\ At(p, "missing")
    /\ rows' = [r \in Resources |-> IF rows[r].status \in {"none", "deleted"} THEN rows[r]
                                    ELSE Tombstone(rows[r])]
    /\ syncs' = [syncs EXCEPT ![p].pc = "claim", ![p].listed = {}]
    /\ UNCHANGED <<disk, version, remote, faults>>

-----------------------------------------------------------------------------
(* State.claim_pending: claims that ran out become pending again, then a   *)
(* batch of what is pending or failed and was not in this sync's hands yet *)

Reset(row) ==
    IF row.status = "in_progress" /\ row.lapsed
    THEN [row EXCEPT !.status = "pending", !.owner = Nobody, !.lapsed = FALSE] ELSE row

Claimed(row, p) == [row EXCEPT !.status = "in_progress", !.owner = p, !.lapsed = FALSE]

\* The sync s with its next batch, or at its end when nothing is left for it.
Taking(s, batch) ==
    IF batch = {} THEN Idle
    ELSE [s EXCEPT !.pc = "work", !.done = @ \cup batch,
                   !.job = [r \in Resources |-> IF r \in batch
                       THEN [at |-> "stat", sha |-> rows[r].sha, uri |-> rows[r].uri, old |-> FALSE]
                       ELSE NoJob]]

Claim(p) ==
    /\ At(p, "claim")
    /\ LET reset == [r \in Resources |-> Reset(rows[r])]
           open == {r \in Resources \ syncs[p].done : reset[r].status \in {"pending", "failed"}}
       IN  \E batch \in SUBSET open :
              /\ Cardinality(batch) = IF Cardinality(open) < Concurrency THEN Cardinality(open) ELSE Concurrency
              /\ rows' = [r \in Resources |-> IF r \in batch THEN Claimed(reset[r], p) ELSE reset[r]]
              /\ syncs' = [Aged(batch) EXCEPT ![p] = Taking(@, batch)]
    /\ UNCHANGED <<disk, version, remote, faults>>

-----------------------------------------------------------------------------
(* OpenVikingAdapter.sync_resource: one upload of a batch. The uploads of  *)
(* a batch run side by side.                                               *)

JobAt(p, r, at) == At(p, "work") /\ syncs[p].job[r].at = at
JobTo(p, r, at) == syncs' = [syncs EXCEPT ![p].job[r].at = at]
Held(r) == remote[r].text # Gone

\* A resource that is still indexing passes for uploaded when the manifest
\* does not wait; one with the right tag that the row never knew is left from
\* an interrupted add.
Accepted(p, r) == ~syncs[p].waits /\ remote[r].locked
Resumed(p, r) == ~syncs[p].job[r].uri /\ remote[r].tag = syncs[p].job[r].sha

\* What stat says decides how the text gets there: what exists is written, or
\* removed and added (containers, PDF and DOCX), what does not is added. A
\* stat that fails says that nothing exists.
Stat(p, r) ==
    /\ JobAt(p, r, "stat")
    /\ \/ ~Held(r) /\ JobTo(p, r, "add") /\ UNCHANGED faults
       \/ Held(r) /\ Accepted(p, r) /\ JobTo(p, r, "ok") /\ UNCHANGED faults
       \/ /\ Held(r) /\ ~Accepted(p, r) /\ Resumed(p, r)
          /\ JobTo(p, r, "tag") /\ UNCHANGED faults
       \/ /\ Held(r) /\ ~Accepted(p, r) /\ ~Resumed(p, r)
          /\ \E at \in {"write", "rm"} : JobTo(p, r, at)
          /\ UNCHANGED faults
       \/ Held(r) /\ Fault /\ JobTo(p, r, "add")
    /\ UNCHANGED <<disk, version, rows, remote>>

Remove(p, r) ==
    /\ JobAt(p, r, "rm") /\ Held(r)
    /\ remote' = [remote EXCEPT ![r] = Absent]
    /\ JobTo(p, r, "add")
    /\ UNCHANGED <<disk, version, rows, faults>>

\* write and add read the file when they run, whatever was scanned. What they
\* leave indexing matters only to a manifest that does not wait.
Uploaded(p, r) == [remote EXCEPT ![r].text = disk[r], ![r].locked = ~syncs[p].waits]

Write(p, r) ==
    /\ JobAt(p, r, "write") /\ Held(r) /\ disk[r] # Gone
    /\ remote' = Uploaded(p, r)
    /\ JobTo(p, r, "tag")
    /\ UNCHANGED <<disk, version, rows, faults>>

\* _add_or_resume: a resource that is there already passes for added.
Add(p, r) ==
    /\ JobAt(p, r, "add")
    /\ IF Held(r) THEN UNCHANGED remote
       ELSE disk[r] # Gone /\ remote' = Uploaded(p, r)
    /\ JobTo(p, r, "tag")
    /\ UNCHANGED <<disk, version, rows, faults>>

\* set_tags_best_effort: a busy resource keeps the tags it had.
SetTags(p, r) ==
    /\ JobAt(p, r, "tag") /\ Held(r)
    /\ \E tag \in {syncs[p].job[r].sha, remote[r].tag} :
          remote' = [remote EXCEPT ![r].tag = tag]
    /\ JobTo(p, r, "ok")
    /\ UNCHANGED <<disk, version, rows, faults>>

\* A command fails because what it needs is gone, or for a reason of its own;
\* then it may have done its work all the same.
CommandFails(p, r) ==
    /\ \/ /\ JobAt(p, r, "write") /\ (~Held(r) \/ disk[r] = Gone)
          /\ UNCHANGED <<remote, faults>>
       \/ /\ JobAt(p, r, "add") /\ ~Held(r) /\ disk[r] = Gone
          /\ UNCHANGED <<remote, faults>>
       \/ /\ (JobAt(p, r, "rm") \/ JobAt(p, r, "tag")) /\ ~Held(r)
          /\ UNCHANGED <<remote, faults>>
       \/ /\ Fault
          /\ \E at \in {"rm", "write", "add", "tag"} : JobAt(p, r, at)
          /\ \/ UNCHANGED remote
             \/ JobAt(p, r, "rm") /\ remote' = [remote EXCEPT ![r] = Absent]
             \/ /\ JobAt(p, r, "write") \/ JobAt(p, r, "add")
                /\ disk[r] # Gone /\ remote' = Uploaded(p, r)
    /\ JobTo(p, r, "failed")
    /\ UNCHANGED <<disk, version, rows>>

-----------------------------------------------------------------------------
(* State.mark_synced and State.mark_failed, and the end of a batch *)

\* Wrong variant: the result is taken from any sync that has this text.
HoldsAnyOwner(p, r) ==
    rows[r].status = "in_progress" /\ rows[r].sha = syncs[p].job[r].sha

\* The fence of both: the claimed text, still in progress, still this owner.
Holds(p, r) ==
    /\ rows[r].status = "in_progress"
    /\ rows[r].sha = syncs[p].job[r].sha
    /\ rows[r].owner = p

Result(p, r, status) ==
    rows' = IF Holds(p, r)
            THEN [rows EXCEPT ![r].status = status, ![r].owner = Nobody, ![r].lapsed = FALSE,
                              ![r].uri = @ \/ status = "synced"]
            ELSE rows

MarkFailed(p, r) ==
    /\ \/ JobAt(p, r, "failed")
       \/ At(p, "giveup") /\ syncs[p].job[r].at = "ok"
    /\ Result(p, r, "failed")
    /\ JobTo(p, r, "none")
    /\ UNCHANGED <<disk, version, remote, faults>>

MarkSynced(p, r) ==
    /\ At(p, "mark") /\ syncs[p].job[r].at = "ok"
    /\ Result(p, r, "synced")
    /\ JobTo(p, r, "none")
    /\ UNCHANGED <<disk, version, remote, faults>>

\* adapter.wait() covers what was uploaded; its failure fails all of it. A
\* manifest that does not wait records what was accepted.
Wait(p) ==
    /\ At(p, "work")
    /\ \A r \in Resources : syncs[p].job[r].at \in {"none", "ok"}
    /\ \/ Goto(p, "mark") /\ UNCHANGED faults
       \/ syncs[p].waits /\ Fault /\ Goto(p, "giveup")
    /\ UNCHANGED <<disk, version, rows, remote>>

BatchDone(p) ==
    /\ At(p, "mark") \/ At(p, "giveup")
    /\ \A r \in Resources : syncs[p].job[r].at = "none"
    /\ Goto(p, "claim")
    /\ UNCHANGED <<disk, version, rows, remote, faults>>

-----------------------------------------------------------------------------
(* Time and death. The lease exceeds the longest chain of commands, so the *)
(* claim of a working sync runs out only when the machine sleeps: a fault. *)

Works(p, r) == ~At(p, "idle") /\ syncs[p].job[r].at # "none"

Lapse(r) ==
    /\ rows[r].status = "in_progress" /\ ~rows[r].lapsed
    /\ rows' = [rows EXCEPT ![r].lapsed = TRUE]
    /\ IF \E p \in Syncs : rows[r].owner = p /\ Works(p, r) THEN Fault ELSE UNCHANGED faults
    /\ UNCHANGED <<disk, version, remote, syncs>>

Indexed(r) ==
    /\ remote[r].locked
    /\ remote' = [remote EXCEPT ![r].locked = FALSE]
    /\ UNCHANGED <<disk, version, rows, syncs, faults>>

Die(p) ==
    /\ ~At(p, "idle") /\ Fault
    /\ syncs' = [syncs EXCEPT ![p] = Idle]
    /\ UNCHANGED <<disk, version, rows, remote>>

Upload(p, r) ==
    \/ Stat(p, r) \/ Remove(p, r) \/ Write(p, r) \/ Add(p, r) \/ SetTags(p, r)
    \/ CommandFails(p, r) \/ MarkFailed(p, r) \/ MarkSynced(p, r)

Step(p) ==
    \/ Start(p) \/ ListFiles(p) \/ ListInterrupted(p) \/ RootMissing(p)
    \/ ReadFiles(p) \/ FileVanishes(p) \/ UpsertScan(p) \/ MarkMissing(p)
    \/ Claim(p) \/ Wait(p) \/ BatchDone(p)
    \/ \E r \in Resources : Upload(p, r)

Next ==
    \/ \E r \in Resources : Edit(r) \/ Delete(r) \/ Lapse(r) \/ Indexed(r)
    \/ \E p \in Syncs : Step(p) \/ Die(p)

Spec == Init /\ [][Next]_vars

\* Syncs are started again and again and run; claims of the dead run out.
FairSpec ==
    /\ Spec
    /\ \A p \in Syncs : WF_vars(Step(p))
    /\ \A r \in Resources : WF_vars(Lapse(r))

-----------------------------------------------------------------------------
TypeOK ==
    /\ disk \in [Resources -> 0..MaxVersion]
    /\ version \in [Resources -> 0..MaxVersion]
    /\ rows \in [Resources -> Row]
    /\ \A r \in Resources : rows[r].owner # Nobody <=> rows[r].status = "in_progress"
    /\ remote \in [Resources -> [text: 0..MaxVersion, tag: 0..MaxVersion, locked: BOOLEAN]]
    /\ syncs \in [Syncs -> Sync]
    /\ faults \in 0..MaxFaults

\* Only the upload that claimed the row last, for the text recorded last,
\* decides what becomes of it: a late sync, or one whose claim ran out and was
\* taken over, neither vouches for a text it may not have sent nor fails one
\* that is being sent.
LatestClaimDecides ==
    [][\A p \in Syncs, r \in Resources :
          rows'[r] # rows[r] /\ syncs[p].job[r].at \in {"ok", "failed"} /\ syncs'[p].job[r].at = "none"
          => ~syncs[p].job[r].old]_vars

\* When files stop changing and faults end, whatever was failed, abandoned
\* or tombstoned by then, the table comes to say of every file that its last
\* text is synced and of every missing one that it is deleted.
Settled(r) == IF disk[r] = Gone THEN rows[r].status \in {"none", "deleted"}
              ELSE rows[r].status = "synced" /\ rows[r].sha = disk[r]
CatchesUp == <>[](\A r \in Resources : Settled(r))

\* A row becomes a tombstone only when its file is missing, or has been since
\* its text was recorded (README: "Missing source files or missing configured
\* roots are marked deleted").
TombstoneMeansMissing ==
    [][\A r \in Resources :
          rows'[r].status = "deleted" /\ rows[r].status # "deleted" => disk[r] # rows[r].sha]_vars

\* A row that becomes synced while its file still has the recorded text
\* describes what OpenViking holds (README: "Successful OpenViking writes
\* become synced").
SyncedMeansSent ==
    [][\A r \in Resources :
          /\ rows[r].status # "synced" /\ rows'[r].status = "synced"
          /\ rows[r].sha = disk[r]
          => remote[r].text = disk[r]]_vars
=============================================================================
