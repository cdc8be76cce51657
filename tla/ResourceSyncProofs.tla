------------------------- MODULE ResourceSyncProofs -------------------------
(***************************************************************************)
(* Proofs about ResourceSync, for any syncs, files, versions, batch sizes  *)
(* and faults: types, and that only the latest claim of a row decides what *)
(* becomes of it. The invariant says when a sync may still hold an upload, *)
(* and that an upload that has become old no longer owns its row.          *)
(***************************************************************************)
EXTENDS ResourceSync, TLAPS

Busy == {"work", "mark", "giveup"}
Programs == {"idle", "list", "read", "missing", "upsert", "claim"} \cup Busy

RowOK(row) == row \in Row /\ (row.owner # Nobody <=> row.status = "in_progress")

\* A sync has uploads only from the claim of a batch to the end of its marks.
Quiet(s) == s.pc \notin Busy => \A r \in Resources : s.job[r].at = "none"

\* An upload whose row was claimed again, or given another text, does not own it.
Fenced(p, r) ==
    syncs[p].job[r].at # "none" /\ syncs[p].job[r].old => rows[r].owner # p

IInv ==
    /\ TypeOK
    /\ \A p \in Syncs : Quiet(syncs[p])
    /\ \A p \in Syncs, r \in Resources : Fenced(p, r)

\* TypeOK without the syncs.
Store ==
    /\ disk \in [Resources -> 0..MaxVersion]
    /\ version \in [Resources -> 0..MaxVersion]
    /\ rows \in [Resources -> Row]
    /\ \A r \in Resources : RowOK(rows[r])
    /\ remote \in [Resources -> [text: 0..MaxVersion, tag: 0..MaxVersion, locked: BOOLEAN]]
    /\ faults \in 0..MaxFaults

LEMMA TypeParts == TypeOK <=> Store /\ syncs \in [Syncs -> Sync]
  BY DEF TypeOK, Store, RowOK

-----------------------------------------------------------------------------
(* Rows *)

\* A tombstone is a row without a lease.
LEMMA TombstoneRow ==
  ASSUME SyncAssumption, NEW row, RowOK(row)
  PROVE  /\ RowOK(Tombstone(row))
         /\ Tombstone(row).owner = Nobody
         /\ Tombstone(row).sha = row.sha
  BY DEF SyncAssumption, RowOK, Row, Tombstone, Statuses

\* A scan that gives a row another text takes the lease off it.
LEMMA ScannedRow ==
  ASSUME SyncAssumption, NEW row, RowOK(row), NEW s \in 0..MaxVersion
  PROVE  /\ RowOK(Scanned(row, s))
         /\ Scanned(row, s).owner \in {row.owner, Nobody}
         /\ Scanned(row, s).sha # row.sha => Scanned(row, s).owner = Nobody
<1>1. CASE s = Gone
  BY <1>1, TombstoneRow DEF Scanned
<1>2. CASE s # Gone
  <2>1. Scanned(row, s) = Recorded(row, s)
    BY <1>2 DEF Scanned
  <2>2. RowOK(Recorded(row, s))
    BY DEF SyncAssumption, RowOK, Row, Recorded, Statuses
  <2>3. /\ Recorded(row, s).owner \in {row.owner, Nobody}
        /\ Recorded(row, s).sha # row.sha => Recorded(row, s).owner = Nobody
    BY DEF RowOK, Row, Recorded
  <2> QED
    BY <2>1, <2>2, <2>3
<1> QED
  BY <1>1, <1>2

LEMMA ResetRow ==
  ASSUME SyncAssumption, NEW row, RowOK(row)
  PROVE  RowOK(Reset(row)) /\ Reset(row).owner \in {row.owner, Nobody}
  BY DEF SyncAssumption, RowOK, Row, Reset, Statuses

LEMMA ClaimedRow ==
  ASSUME SyncAssumption, NEW row, RowOK(row), NEW p \in Syncs
  PROVE  RowOK(Claimed(row, p)) /\ Claimed(row, p).owner = p
  BY DEF SyncAssumption, RowOK, Row, Claimed, Statuses

\* A result changes a row only if the upload still holds it, and then leaves
\* it without an owner.
LEMMA ResultRow ==
  ASSUME SyncAssumption, IInv, NEW p \in Syncs, NEW r \in Resources,
         NEW status \in {"failed", "synced"}, Result(p, r, status)
  PROVE  /\ rows' \in [Resources -> Row]
         /\ \A x \in Resources : RowOK(rows'[x]) /\ rows'[x].owner \in {rows[x].owner, Nobody}
         /\ \A x \in Resources : rows'[x] # rows[x] => x = r /\ rows[r].owner = p
<1> DEFINE new == [rows[r] EXCEPT !.status = status, !.owner = Nobody, !.lapsed = FALSE,
                                  !.uri = @ \/ status = "synced"]
<1>0. Store
  BY TypeParts DEF IInv
<1>1. RowOK(new) /\ new.owner = Nobody
  BY <1>0 DEF Store, SyncAssumption, RowOK, Row, Statuses
<1>2. CASE Holds(p, r)
  <2>1. rows' = [rows EXCEPT ![r] = new]
    BY <1>2 DEF Result
  <2>2. new \in Row
    BY <1>1 DEF RowOK
  <2>3. rows[r].owner = p
    BY <1>2 DEF Holds
  <2> QED
    BY <1>0, <1>1, <2>1, <2>2, <2>3 DEF Store
<1>3. CASE ~Holds(p, r)
  BY <1>0, <1>3 DEF Result, Store
<1> QED
  BY <1>2, <1>3

-----------------------------------------------------------------------------
(* Syncs *)

\* The step of p leaves the uploads of p no younger and those of others alone.
Moves(p) ==
    /\ syncs' \in [Syncs -> Sync]
    /\ \A q \in Syncs : q # p => syncs'[q] = syncs[q]
    /\ Quiet(syncs'[p])
    /\ \A r \in Resources :
          syncs'[p].job[r].at # "none" => /\ syncs[p].job[r].at # "none"
                                          /\ syncs'[p].job[r].old = syncs[p].job[r].old

\* Such a step keeps the invariant if it hands out no lease.
LEMMA MovesKeep ==
  ASSUME SyncAssumption, IInv, NEW p \in Syncs, Moves(p), Store',
         \A r \in Resources : rows'[r].owner \in {rows[r].owner, Nobody}
  PROVE  IInv'
<1>1. TypeOK'
  <2>1. syncs' \in [Syncs -> Sync]
    BY DEF Moves
  <2> QED
    BY <2>1 DEF TypeOK, Store, RowOK
<1>2. \A q \in Syncs : Quiet(syncs'[q])
  BY DEF Moves, IInv
<1>3. ASSUME NEW q \in Syncs, NEW r \in Resources, syncs'[q].job[r].at # "none", syncs'[q].job[r].old
      PROVE  rows'[r].owner # q
  <2>1. syncs[q].job[r].at # "none" /\ syncs[q].job[r].old
    BY <1>3 DEF Moves
  <2>2. rows[r].owner # q
    BY <2>1 DEF IInv, Fenced
  <2> QED
    BY <2>2 DEF SyncAssumption
<1> QED
  BY <1>1, <1>2, <1>3 DEF IInv, Fenced, Quiet

LEMMA GotoMoves ==
  ASSUME IInv, NEW p \in Syncs, NEW pc \in Programs, Goto(p, pc),
         pc \notin Busy => syncs[p].pc \notin Busy \/ \A r \in Resources : syncs[p].job[r].at = "none"
  PROVE  Moves(p)
<1> DEFINE s == [syncs[p] EXCEPT !.pc = pc]
<1>1. syncs \in [Syncs -> Sync] /\ Quiet(syncs[p])
  BY DEF IInv, TypeOK
<1>2. s \in Sync /\ s.job = syncs[p].job /\ s.pc = pc
  BY <1>1 DEF Sync, Programs, Busy
<1>3. syncs' = [syncs EXCEPT ![p] = s]
  BY DEF Goto
<1> HIDE DEF s
<1>4. syncs' \in [Syncs -> Sync] /\ syncs'[p] = s /\ \A q \in Syncs : q # p => syncs'[q] = syncs[q]
  BY <1>1, <1>2, <1>3
<1>5. Quiet(s)
  BY <1>1, <1>2 DEF Quiet
<1> QED
  BY <1>2, <1>4, <1>5 DEF Moves

\* A step of one upload, from and to a state other than "none", or to "none".
LEMMA JobMoves ==
  ASSUME IInv, NEW p \in Syncs, NEW r \in Resources, NEW at \in Uploads, JobTo(p, r, at),
         syncs[p].pc \in Busy, syncs[p].job[r].at # "none"
  PROVE  Moves(p) /\ syncs'[p].job[r].at = at
<1> DEFINE job == [syncs[p].job EXCEPT ![r].at = at]
           s == [syncs[p] EXCEPT !.job = job]
<1>1. syncs \in [Syncs -> Sync] /\ syncs[p].job \in [Resources -> Job]
  BY DEF IInv, TypeOK, Sync
<1>2. /\ job \in [Resources -> Job]
      /\ job[r].at = at /\ job[r].old = syncs[p].job[r].old
      /\ \A x \in Resources : x # r => job[x] = syncs[p].job[x]
  BY <1>1 DEF Job
<1>3. syncs' = [syncs EXCEPT ![p] = s]
  BY DEF JobTo
<1> HIDE DEF job
<1>4. s \in Sync /\ s.job = job /\ s.pc = syncs[p].pc
  BY <1>1, <1>2 DEF Sync
<1> HIDE DEF s
<1>5. syncs' \in [Syncs -> Sync] /\ syncs'[p] = s /\ \A q \in Syncs : q # p => syncs'[q] = syncs[q]
  BY <1>1, <1>3, <1>4
<1>6. Quiet(s)
  BY <1>4 DEF Quiet
<1> QED
  BY <1>2, <1>4, <1>5, <1>6 DEF Moves

LEMMA IdleMoves ==
  ASSUME IInv, NEW p \in Syncs, NEW s, s \in Sync, \A r \in Resources : s.job[r].at = "none",
         syncs' = [syncs EXCEPT ![p] = s]
  PROVE  Moves(p)
<1>1. syncs \in [Syncs -> Sync]
  BY DEF IInv, TypeOK
<1>2. syncs' \in [Syncs -> Sync] /\ syncs'[p] = s /\ \A q \in Syncs : q # p => syncs'[q] = syncs[q]
  BY <1>1
<1> QED
  BY <1>2 DEF Moves, Quiet

LEMMA IdleOK ==
  ASSUME SyncAssumption
  PROVE  Idle \in Sync /\ Idle.pc = "idle" /\ Idle.seen \in [Resources -> 0..MaxVersion]
         /\ \A r \in Resources : Idle.job[r].at = "none"
<1>1. NoJob \in Job /\ NoJob.at = "none"
  BY DEF SyncAssumption, NoJob, Job, Uploads, Gone
<1> QED
  BY <1>1 DEF SyncAssumption, Idle, Sync, Gone

-----------------------------------------------------------------------------
(* The steps *)

\* What no sync does: files change, claims run out, indexing ends.
LEMMA StillKeeps ==
  ASSUME IInv, UNCHANGED syncs, Store', \A r \in Resources : rows'[r].owner = rows[r].owner
  PROVE  IInv'
<1>1. TypeOK'
  BY DEF TypeOK, Store, RowOK, IInv
<1> QED
  BY <1>1 DEF IInv, Fenced, Quiet

LEMMA InitInv ==
  ASSUME SyncAssumption, Init
  PROVE  IInv
<1>1. NoRow \in Row /\ NoRow.owner = Nobody /\ NoRow.status # "in_progress"
  BY DEF SyncAssumption, NoRow, Row, Statuses, Gone
<1>2. Absent \in [text: 0..MaxVersion, tag: 0..MaxVersion, locked: BOOLEAN]
  BY DEF SyncAssumption, Absent, Gone
<1>3. syncs \in [Syncs -> Sync] /\ faults \in 0..MaxFaults
  BY IdleOK DEF Init, SyncAssumption
<1>4. disk \in [Resources -> 0..MaxVersion] /\ version \in [Resources -> 0..MaxVersion]
  BY DEF Init, SyncAssumption, Gone
<1>5. rows \in [Resources -> Row] /\ \A r \in Resources : rows[r].owner # Nobody <=> rows[r].status = "in_progress"
  BY <1>1 DEF Init
<1>6. remote \in [Resources -> [text: 0..MaxVersion, tag: 0..MaxVersion, locked: BOOLEAN]]
  BY <1>2 DEF Init
<1>7. TypeOK
  BY <1>3, <1>4, <1>5, <1>6 DEF TypeOK
<1> QED
  BY <1>7, IdleOK DEF IInv, Init, Quiet, Fenced

LEMMA EditInv ==
  ASSUME SyncAssumption, IInv, NEW r \in Resources, Edit(r)
  PROVE  IInv'
<1>1. Store
  BY TypeParts DEF IInv
<1>2. version[r] + 1 \in 0..MaxVersion
  BY <1>1 DEF Edit, Store, SyncAssumption
<1>3. Store'
  BY <1>1, <1>2 DEF Edit, Store
<1> QED
  BY <1>3, StillKeeps DEF Edit

LEMMA DeleteInv ==
  ASSUME SyncAssumption, IInv, NEW r \in Resources, Delete(r)
  PROVE  IInv'
<1>1. Store
  BY TypeParts DEF IInv
<1>2. Store'
  BY <1>1 DEF Delete, Store, SyncAssumption, Gone
<1> QED
  BY <1>2, StillKeeps DEF Delete

LEMMA FaultOK ==
  ASSUME SyncAssumption, Store, Fault \/ UNCHANGED faults
  PROVE  faults' \in 0..MaxFaults
  BY DEF SyncAssumption, Store, Fault

LEMMA LapseInv ==
  ASSUME SyncAssumption, IInv, NEW r \in Resources, Lapse(r)
  PROVE  IInv'
<1> DEFINE new == [rows[r] EXCEPT !.lapsed = TRUE]
<1>1. Store
  BY TypeParts DEF IInv
<1>2. RowOK(new) /\ new \in Row /\ new.owner = rows[r].owner
  BY <1>1 DEF Store, RowOK, Row
<1>3. rows' = [rows EXCEPT ![r] = new]
  BY DEF Lapse
<1> HIDE DEF new
<1>4. /\ rows' \in [Resources -> Row]
      /\ \A x \in Resources : RowOK(rows'[x]) /\ rows'[x].owner = rows[x].owner
  BY <1>1, <1>2, <1>3 DEF Store
<1>5. faults' \in 0..MaxFaults
  BY <1>1, FaultOK DEF Lapse
<1>6. Store'
  BY <1>1, <1>4, <1>5 DEF Lapse, Store
<1> QED
  BY <1>4, <1>6, StillKeeps DEF Lapse

Remote == [text: 0..MaxVersion, tag: 0..MaxVersion, locked: BOOLEAN]

\* One resource of OpenViking gets another state.
LEMMA RemoteOK ==
  ASSUME Store, NEW r \in Resources, NEW new \in Remote, remote' = [remote EXCEPT ![r] = new]
  PROVE  remote' \in [Resources -> Remote]
  BY DEF Store, Remote

LEMMA IndexedInv ==
  ASSUME SyncAssumption, IInv, NEW r \in Resources, Indexed(r)
  PROVE  IInv'
<1> DEFINE new == [remote[r] EXCEPT !.locked = FALSE]
<1>1. Store
  BY TypeParts DEF IInv
<1>2. new \in Remote
  BY <1>1 DEF Store, Remote
<1>3. remote' \in [Resources -> Remote]
  BY <1>1, <1>2, RemoteOK DEF Indexed
<1> HIDE DEF new
<1>4. Store'
  BY <1>1, <1>3 DEF Indexed, Store, Remote
<1> QED
  BY <1>4, StillKeeps DEF Indexed

LEMMA DieInv ==
  ASSUME SyncAssumption, IInv, NEW p \in Syncs, Die(p)
  PROVE  IInv'
<1>1. Store
  BY TypeParts DEF IInv
<1>2. Moves(p)
  BY IdleMoves, IdleOK DEF Die
<1>3. Store'
  BY <1>1, FaultOK DEF Die, Store
<1> QED
  BY <1>2, <1>3, MovesKeep DEF Die

LEMMA StartInv ==
  ASSUME SyncAssumption, IInv, NEW p \in Syncs, Start(p)
  PROVE  IInv'
<1>1. Store
  BY TypeParts DEF IInv
<1>2. PICK waits \in Waiting : syncs' = [syncs EXCEPT ![p] = [Idle EXCEPT !.pc = "list", !.waits = waits]]
  BY DEF Start
<1> DEFINE s == [Idle EXCEPT !.pc = "list", !.waits = waits]
<1>3. s \in Sync /\ s.job = Idle.job
  <2>1. waits \in BOOLEAN
    BY DEF SyncAssumption
  <2> QED
    BY <2>1, IdleOK DEF Sync
<1>4. \A r \in Resources : s.job[r].at = "none"
  BY <1>3, IdleOK
<1> HIDE DEF s
<1>5. Moves(p)
  BY <1>2, <1>3, <1>4, IdleMoves DEF s
<1>6. Store'
  BY <1>1 DEF Start, Store
<1> QED
  BY <1>5, <1>6, MovesKeep DEF Start

LEMMA ListFilesInv ==
  ASSUME SyncAssumption, IInv, NEW p \in Syncs, ListFiles(p)
  PROVE  IInv'
<1> DEFINE found == {r \in Resources : disk[r] # Gone}
           s == [syncs[p] EXCEPT !.pc = "read", !.listed = found]
<1>1. Store /\ syncs \in [Syncs -> Sync] /\ Quiet(syncs[p]) /\ syncs[p].pc = "list"
  BY TypeParts DEF IInv, ListFiles, At
<1>2. s \in Sync /\ s.job = syncs[p].job
  <2>1. syncs[p] \in Sync
    BY <1>1
  <2> QED
    BY <2>1 DEF Sync
<1>3. syncs' = [syncs EXCEPT ![p] = s]
  BY DEF ListFiles
<1>4. \A r \in Resources : s.job[r].at = "none"
  BY <1>1, <1>2 DEF Quiet, Busy
<1> HIDE DEF s
<1>5. Moves(p)
  BY <1>2, <1>3, <1>4, IdleMoves
<1>6. Store'
  BY <1>1 DEF ListFiles, Store
<1> QED
  BY <1>5, <1>6, MovesKeep DEF ListFiles

LEMMA ReadFilesInv ==
  ASSUME SyncAssumption, IInv, NEW p \in Syncs, ReadFiles(p)
  PROVE  IInv'
<1> DEFINE seen == [r \in Resources |-> IF r \in syncs[p].listed THEN disk[r] ELSE Gone]
           s == [syncs[p] EXCEPT !.pc = "upsert", !.seen = seen]
<1>1. Store /\ syncs \in [Syncs -> Sync] /\ Quiet(syncs[p]) /\ syncs[p].pc = "read"
  BY TypeParts DEF IInv, ReadFiles, At
<1>2. seen \in [Resources -> 0..MaxVersion]
  BY <1>1 DEF Store, SyncAssumption, Gone
<1>3. syncs' = [syncs EXCEPT ![p] = s]
  BY DEF ReadFiles
<1> HIDE DEF seen
<1>4. s \in Sync /\ s.job = syncs[p].job
  <2>1. syncs[p] \in Sync
    BY <1>1
  <2> QED
    BY <1>2, <2>1 DEF Sync
<1>5. \A r \in Resources : s.job[r].at = "none"
  BY <1>1, <1>4 DEF Quiet, Busy
<1> HIDE DEF s
<1>6. Moves(p)
  BY <1>3, <1>4, <1>5, IdleMoves
<1>7. Store'
  BY <1>1 DEF ReadFiles, Store
<1> QED
  BY <1>6, <1>7, MovesKeep DEF ReadFiles

\* The steps of a scan and of a batch that only move on.
LEMMA TurnInv ==
  ASSUME SyncAssumption, IInv, NEW p \in Syncs,
         ListInterrupted(p) \/ RootMissing(p) \/ FileVanishes(p) \/ Wait(p) \/ BatchDone(p)
  PROVE  IInv'
<1>1. Store
  BY TypeParts DEF IInv
<1>2. Moves(p) /\ UNCHANGED <<disk, version, rows, remote>> /\ (Fault \/ UNCHANGED faults)
  BY GotoMoves DEF ListInterrupted, RootMissing, FileVanishes, Wait, BatchDone, At, Programs, Busy
<1>3. Store'
  BY <1>1, <1>2, FaultOK DEF Store
<1> QED
  BY <1>2, <1>3, MovesKeep

\* A step of an upload on one resource of OpenViking.
LEMMA UploadKeeps ==
  ASSUME SyncAssumption, IInv, NEW p \in Syncs, NEW r \in Resources,
         NEW at \in Uploads, JobTo(p, r, at), syncs[p].pc = "work", syncs[p].job[r].at # "none",
         remote' \in [Resources -> Remote], Fault \/ UNCHANGED faults,
         UNCHANGED <<disk, version, rows>>
  PROVE  IInv'
<1>1. Store
  BY TypeParts DEF IInv
<1>2. Moves(p)
  BY JobMoves DEF Busy
<1>3. Store'
  BY <1>1, FaultOK DEF Store, Remote
<1> QED
  BY <1>2, <1>3, MovesKeep

LEMMA RemoteNow ==
  ASSUME SyncAssumption, IInv
  PROVE  /\ remote \in [Resources -> Remote] /\ Absent \in Remote
         /\ \A p \in Syncs, r \in Resources :
               /\ Uploaded(p, r) \in [Resources -> Remote]
               /\ syncs[p].job[r].sha \in 0..MaxVersion
<1>1. remote \in [Resources -> Remote] /\ Absent \in Remote
  BY DEF IInv, TypeOK, Remote, SyncAssumption, Absent, Gone
<1>2. ASSUME NEW p \in Syncs, NEW r \in Resources
      PROVE  /\ Uploaded(p, r) \in [Resources -> Remote]
             /\ syncs[p].job[r].sha \in 0..MaxVersion
  <2>1. syncs[p].waits \in BOOLEAN /\ syncs[p].job[r] \in Job
    BY DEF IInv, TypeOK, Sync
  <2>2. [remote[r] EXCEPT !.text = disk[r], !.locked = ~syncs[p].waits] \in Remote
    BY <1>1, <2>1 DEF IInv, TypeOK, Remote
  <2>3. Uploaded(p, r) = [remote EXCEPT ![r] = [remote[r] EXCEPT !.text = disk[r], !.locked = ~syncs[p].waits]]
    BY <1>1 DEF Uploaded, Remote
  <2>4. Uploaded(p, r) \in [Resources -> Remote]
    BY <1>1, <2>2, <2>3
  <2> QED
    BY <2>1, <2>4 DEF Job
<1> QED
  BY <1>1, <1>2

LEMMA StatInv ==
  ASSUME SyncAssumption, IInv, NEW p \in Syncs, NEW r \in Resources, Stat(p, r)
  PROVE  IInv'
<1>1. PICK at \in {"add", "ok", "tag", "write", "rm"} : JobTo(p, r, at)
  BY DEF Stat
<1>2. syncs[p].pc = "work" /\ syncs[p].job[r].at # "none" /\ (Fault \/ UNCHANGED faults)
  BY DEF Stat, JobAt, At
<1>3. at \in Uploads
  BY DEF Uploads
<1> QED
  BY <1>1, <1>2, <1>3, RemoteNow, UploadKeeps DEF Stat

LEMMA RemoveInv ==
  ASSUME SyncAssumption, IInv, NEW p \in Syncs, NEW r \in Resources, Remove(p, r)
  PROVE  IInv'
<1>1. remote' \in [Resources -> Remote]
  BY RemoteNow DEF Remove
<1> QED
  BY <1>1, UploadKeeps DEF Remove, JobAt, At, Uploads

LEMMA WriteInv ==
  ASSUME SyncAssumption, IInv, NEW p \in Syncs, NEW r \in Resources, Write(p, r) \/ Add(p, r)
  PROVE  IInv'
<1>1. remote' \in [Resources -> Remote]
  BY RemoteNow DEF Write, Add
<1> QED
  BY <1>1, UploadKeeps DEF Write, Add, JobAt, At, Uploads

LEMMA SetTagsInv ==
  ASSUME SyncAssumption, IInv, NEW p \in Syncs, NEW r \in Resources, SetTags(p, r)
  PROVE  IInv'
<1>1. PICK tag \in {syncs[p].job[r].sha, remote[r].tag} : remote' = [remote EXCEPT ![r].tag = tag]
  BY DEF SetTags
<1> DEFINE new == [remote[r] EXCEPT !.tag = tag]
<1>2. new \in Remote
  BY RemoteNow DEF Remote
<1>3. remote' = [remote EXCEPT ![r] = new]
  BY <1>1
<1> HIDE DEF new
<1>4. remote' \in [Resources -> Remote]
  BY <1>2, <1>3, RemoteNow
<1> QED
  BY <1>4, UploadKeeps DEF SetTags, JobAt, At, Uploads

LEMMA CommandFailsInv ==
  ASSUME SyncAssumption, IInv, NEW p \in Syncs, NEW r \in Resources, CommandFails(p, r)
  PROVE  IInv'
<1>1. \/ UNCHANGED remote
      \/ remote' = [remote EXCEPT ![r] = Absent]
      \/ remote' = Uploaded(p, r)
  BY DEF CommandFails
<1>2. remote' \in [Resources -> Remote]
  BY <1>1, RemoteNow
<1>3. syncs[p].pc = "work" /\ syncs[p].job[r].at # "none" /\ (Fault \/ UNCHANGED faults)
  BY DEF CommandFails, JobAt, At
<1> QED
  BY <1>2, <1>3, UploadKeeps DEF CommandFails, Uploads

LEMMA MarkInv ==
  ASSUME SyncAssumption, IInv, NEW p \in Syncs, NEW r \in Resources,
         MarkFailed(p, r) \/ MarkSynced(p, r)
  PROVE  IInv'
<1>1. Store
  BY TypeParts DEF IInv
<1>2. PICK status \in {"failed", "synced"} : Result(p, r, status)
  BY DEF MarkFailed, MarkSynced
<1>3. /\ rows' \in [Resources -> Row]
      /\ \A x \in Resources : RowOK(rows'[x]) /\ rows'[x].owner \in {rows[x].owner, Nobody}
  BY <1>2, ResultRow
<1>4. Moves(p)
  BY JobMoves DEF MarkFailed, MarkSynced, JobAt, At, Busy, Uploads
<1>5. Store'
  BY <1>1, <1>3 DEF Store, MarkFailed, MarkSynced
<1> QED
  BY <1>3, <1>4, <1>5, MovesKeep

-----------------------------------------------------------------------------
(* The two steps that change rows for every sync at once *)

LEMMA AgedSyncs ==
  ASSUME IInv, NEW outdated
  PROVE  /\ Aged(outdated) \in [Syncs -> Sync]
         /\ \A q \in Syncs : /\ Aged(outdated)[q].pc = syncs[q].pc
                             /\ Aged(outdated)[q].done = syncs[q].done
                             /\ \A r \in Resources :
                                   /\ Aged(outdated)[q].job[r].at = syncs[q].job[r].at
                                   /\ r \notin outdated => Aged(outdated)[q].job[r].old = syncs[q].job[r].old
<1> SUFFICES ASSUME NEW q \in Syncs
             PROVE  /\ Aged(outdated)[q] \in Sync
                    /\ Aged(outdated)[q].pc = syncs[q].pc
                    /\ Aged(outdated)[q].done = syncs[q].done
                    /\ \A r \in Resources :
                          /\ Aged(outdated)[q].job[r].at = syncs[q].job[r].at
                          /\ r \notin outdated => Aged(outdated)[q].job[r].old = syncs[q].job[r].old
  BY DEF Aged
<1> DEFINE job == [r \in Resources |-> IF r \in outdated /\ syncs[q].job[r].at # "none"
                                       THEN [syncs[q].job[r] EXCEPT !.old = TRUE] ELSE syncs[q].job[r]]
<1>1. syncs[q] \in Sync /\ syncs[q].job \in [Resources -> Job]
  BY DEF IInv, TypeOK, Sync
<1>2. ASSUME NEW r \in Resources
      PROVE  /\ job[r] \in Job /\ job[r].at = syncs[q].job[r].at
             /\ r \notin outdated => job[r].old = syncs[q].job[r].old
  BY <1>1 DEF Job
<1>3. job \in [Resources -> Job]
  BY <1>2
<1>4. Aged(outdated)[q] = [syncs[q] EXCEPT !.job = job]
  BY DEF Aged
<1> HIDE DEF job
<1> QED
  BY <1>1, <1>2, <1>3, <1>4 DEF Sync

LEMMA UpsertScanInv ==
  ASSUME SyncAssumption, IInv, NEW p \in Syncs, UpsertScan(p)
  PROVE  IInv'
<1> DEFINE outdated == {r \in Resources : rows'[r].sha # rows[r].sha}
           aged == Aged(outdated)
           s == [aged[p] EXCEPT !.pc = "claim", !.listed = {}, !.seen = Idle.seen]
<1>1. Store /\ syncs[p] \in Sync /\ Quiet(syncs[p]) /\ syncs[p].pc = "upsert"
  BY TypeParts DEF IInv, UpsertScan, At
<1>2. \A r \in Resources : /\ RowOK(rows'[r])
                           /\ rows'[r].owner \in {rows[r].owner, Nobody}
                           /\ r \in outdated => rows'[r].owner = Nobody
  <2>1. \A r \in Resources : rows'[r] = Scanned(rows[r], syncs[p].seen[r]) /\ syncs[p].seen[r] \in 0..MaxVersion
    BY <1>1 DEF UpsertScan, Sync
  <2>2. \A r \in Resources : RowOK(rows[r])
    BY <1>1 DEF Store
  <2>3. \A r \in Resources : LET row == Scanned(rows[r], syncs[p].seen[r]) IN
           /\ RowOK(row) /\ row.owner \in {rows[r].owner, Nobody}
           /\ row.sha # rows[r].sha => row.owner = Nobody
    BY <2>1, <2>2, ScannedRow
  <2> QED
    BY <2>1, <2>3
<1>3. rows' \in [Resources -> Row]
  BY <1>2 DEF UpsertScan, RowOK
<1>4. Store'
  BY <1>1, <1>2, <1>3 DEF Store, UpsertScan
<1> HIDE DEF outdated
<1>5. /\ aged \in [Syncs -> Sync]
      /\ \A q \in Syncs : /\ aged[q].pc = syncs[q].pc
                          /\ \A r \in Resources :
                                /\ aged[q].job[r].at = syncs[q].job[r].at
                                /\ r \notin outdated => aged[q].job[r].old = syncs[q].job[r].old
  BY AgedSyncs
<1>6. syncs' = [aged EXCEPT ![p] = s]
  BY DEF UpsertScan, outdated
<1> HIDE DEF aged
<1>7. s \in Sync /\ s.job = aged[p].job /\ s.pc = "claim"
  <2>1. aged[p] \in Sync /\ Idle.seen \in [Resources -> 0..MaxVersion]
    BY <1>5, IdleOK
  <2> HIDE DEF aged
  <2> QED
    BY <2>1 DEF Sync
<1> HIDE DEF s
<1>8. /\ syncs' \in [Syncs -> Sync]
      /\ syncs'[p].pc = "claim"
      /\ \A q \in Syncs : (q # p => syncs'[q].pc = syncs[q].pc) /\ syncs'[q].job = aged[q].job
  BY <1>5, <1>6, <1>7
<1>9. TypeOK'
  BY <1>4, <1>8 DEF TypeOK, Store, RowOK
<1>10. ASSUME NEW q \in Syncs
       PROVE  Quiet(syncs'[q])
  <2>1. syncs'[q].pc \notin Busy => syncs[q].pc \notin Busy
    BY <1>1, <1>8 DEF Busy
  <2> QED
    BY <1>5, <1>8, <2>1 DEF Quiet, IInv
<1>11. ASSUME NEW q \in Syncs, NEW r \in Resources, syncs'[q].job[r].at # "none", syncs'[q].job[r].old
       PROVE  rows'[r].owner # q
  <2>1. CASE r \in outdated
    BY <1>2, <2>1 DEF SyncAssumption
  <2>2. CASE r \notin outdated
    BY <1>2, <1>5, <1>8, <1>11, <2>2 DEF IInv, Fenced, SyncAssumption
  <2> QED
    BY <2>1, <2>2
<1> QED
  BY <1>9, <1>10, <1>11 DEF IInv, Fenced, Quiet

LEMMA ClaimInv ==
  ASSUME SyncAssumption, IInv, NEW p \in Syncs, Claim(p)
  PROVE  IInv'
<1> DEFINE reset == [r \in Resources |-> Reset(rows[r])]
<1>1. PICK batch \in SUBSET Resources :
        /\ rows' = [r \in Resources |-> IF r \in batch THEN Claimed(reset[r], p) ELSE reset[r]]
        /\ syncs' = [Aged(batch) EXCEPT ![p] = Taking(Aged(batch)[p], batch)]
  BY DEF Claim
<1>2. Store
  BY TypeParts DEF IInv
<1>3. \A r \in Resources : /\ RowOK(rows'[r])
                           /\ r \in batch => rows'[r].owner = p
                           /\ r \notin batch => rows'[r].owner \in {rows[r].owner, Nobody}
  <2>1. \A r \in Resources : RowOK(reset[r]) /\ reset[r].owner \in {rows[r].owner, Nobody}
    BY <1>2, ResetRow DEF Store
  <2> QED
    BY <1>1, <2>1, ClaimedRow
<1>4. rows' \in [Resources -> Row]
  BY <1>1, <1>3 DEF RowOK
<1>5. Store'
  BY <1>2, <1>3, <1>4 DEF Store, Claim
<1> DEFINE job == [r \in Resources |-> IF r \in batch
                     THEN [at |-> "stat", sha |-> rows[r].sha, uri |-> rows[r].uri, old |-> FALSE]
                     ELSE NoJob]
           aged == Aged(batch)
           s == Taking(aged[p], batch)
<1>6. job \in [Resources -> Job] /\ \A r \in Resources : job[r].at # "none" => ~job[r].old
  <2>1. \A r \in Resources : rows[r].sha \in 0..MaxVersion /\ rows[r].uri \in BOOLEAN
    BY <1>2 DEF Store, Row
  <2> QED
    BY <2>1 DEF Job, NoJob, Uploads, SyncAssumption, Gone
<1>7. /\ aged \in [Syncs -> Sync]
      /\ \A q \in Syncs : /\ aged[q].pc = syncs[q].pc
                          /\ \A r \in Resources :
                                /\ aged[q].job[r].at = syncs[q].job[r].at
                                /\ r \notin batch => aged[q].job[r].old = syncs[q].job[r].old
  BY AgedSyncs
<1>8. syncs' = [aged EXCEPT ![p] = s]
  BY <1>1
<1> HIDE DEF aged, job
<1>9. s \in Sync /\ Quiet(s) /\ \A r \in Resources : s.job[r].at # "none" => ~s.job[r].old
  <2>1. CASE batch = {}
    BY <2>1, IdleOK DEF Quiet, Taking
  <2>2. CASE batch # {}
    <3>1. s = [aged[p] EXCEPT !.pc = "work", !.done = @ \cup batch, !.job = job]
      BY <2>2 DEF Taking, job
    <3>2. s \in Sync /\ s.pc = "work" /\ s.job = job
      <4>1. aged[p] \in Sync /\ job \in [Resources -> Job] /\ batch \in SUBSET Resources
        BY <1>6, <1>7
      <4> HIDE DEF s, aged, job
      <4> QED
        BY <3>1, <4>1 DEF Sync
    <3> QED
      BY <1>6, <3>2 DEF Quiet, Busy
  <2> QED
    BY <2>1, <2>2
<1> HIDE DEF s
<1>10. /\ syncs' \in [Syncs -> Sync]
       /\ syncs'[p] = s
       /\ \A q \in Syncs : q # p => syncs'[q] = aged[q]
  BY <1>7, <1>8, <1>9
<1>11. TypeOK'
  BY <1>5, <1>10 DEF TypeOK, Store, RowOK
<1>12. ASSUME NEW q \in Syncs
       PROVE  Quiet(syncs'[q])
  BY <1>7, <1>9, <1>10 DEF Quiet, IInv
<1>13. ASSUME NEW q \in Syncs, NEW r \in Resources, syncs'[q].job[r].at # "none", syncs'[q].job[r].old
       PROVE  rows'[r].owner # q
  <2>1. q # p
    BY <1>9, <1>10, <1>13
  <2>2. CASE r \in batch
    BY <1>3, <2>1, <2>2
  <2>3. CASE r \notin batch
    BY <1>3, <1>7, <1>10, <1>13, <2>1, <2>3 DEF IInv, Fenced, SyncAssumption
  <2> QED
    BY <2>2, <2>3
<1> QED
  BY <1>11, <1>12, <1>13 DEF IInv, Fenced, Quiet

LEMMA MarkMissingInv ==
  ASSUME SyncAssumption, IInv, NEW p \in Syncs, MarkMissing(p)
  PROVE  IInv'
<1> DEFINE s == [syncs[p] EXCEPT !.pc = "claim", !.listed = {}]
<1>1. Store /\ syncs[p] \in Sync /\ Quiet(syncs[p]) /\ syncs[p].pc = "missing"
  BY TypeParts DEF IInv, MarkMissing, At
<1>2. \A r \in Resources : RowOK(rows'[r]) /\ rows'[r].owner \in {rows[r].owner, Nobody}
  BY <1>1, TombstoneRow DEF Store, MarkMissing
<1>3. rows' \in [Resources -> Row]
  BY <1>2 DEF MarkMissing, RowOK
<1>4. Store'
  BY <1>1, <1>2, <1>3 DEF Store, MarkMissing
<1>5. s \in Sync /\ s.job = syncs[p].job
  BY <1>1 DEF Sync
<1>6. syncs' = [syncs EXCEPT ![p] = s]
  BY DEF MarkMissing
<1>7. \A r \in Resources : s.job[r].at = "none"
  BY <1>1, <1>5 DEF Quiet, Busy
<1> HIDE DEF s
<1>8. Moves(p)
  BY <1>5, <1>6, <1>7, IdleMoves
<1> QED
  BY <1>2, <1>4, <1>8, MovesKeep

\* An upload ends with a change of its row only in the mark of its own sync,
\* which owns the row.
LEMMA EndsItself ==
  ASSUME SyncAssumption, IInv, [Next]_vars, NEW p \in Syncs, NEW r \in Resources,
         rows'[r] # rows[r], syncs[p].job[r].at \in {"ok", "failed"}, syncs'[p].job[r].at = "none"
  PROVE  rows[r].owner = p
<1>0. syncs[p].pc \in Busy /\ syncs \in [Syncs -> Sync]
  BY DEF IInv, Quiet, TypeOK
<1>1. ASSUME NEW q \in Syncs, NEW x \in Resources, MarkFailed(q, x) \/ MarkSynced(q, x)
      PROVE  rows[r].owner = p
  <2>1. PICK status \in {"failed", "synced"} : Result(q, x, status)
    BY <1>1 DEF MarkFailed, MarkSynced
  <2>2. x = r /\ rows[r].owner = q
    BY <2>1, ResultRow
  <2>3. q = p
    <3> SUFFICES ASSUME q # p PROVE FALSE
      OBVIOUS
    <3>1. JobTo(q, x, "none")
      BY <1>1 DEF MarkFailed, MarkSynced
    <3>2. syncs'[p] = syncs[p]
      BY <1>0, <3>1 DEF JobTo
    <3> QED
      BY <3>2
  <2> QED
    BY <2>2, <2>3
<1>2. ASSUME NEW q \in Syncs, UpsertScan(q) \/ Claim(q) \/ MarkMissing(q)
      PROVE  FALSE
  <2>1. q # p
    BY <1>0, <1>2 DEF UpsertScan, Claim, MarkMissing, At, Busy
  <2>2. syncs'[p].job[r].at = syncs[p].job[r].at
    <3>1. CASE UpsertScan(q)
      <4> DEFINE aged == Aged({x \in Resources : rows'[x].sha # rows[x].sha})
      <4>1. aged[p].job[r].at = syncs[p].job[r].at /\ aged \in [Syncs -> Sync]
        BY AgedSyncs
      <4>2. syncs' = [aged EXCEPT ![q].pc = "claim", ![q].listed = {}, ![q].seen = Idle.seen]
        BY <3>1 DEF UpsertScan
      <4> HIDE DEF aged
      <4>3. syncs'[p] = aged[p]
        BY <2>1, <4>1, <4>2
      <4> QED
        BY <4>1, <4>3
    <3>2. CASE Claim(q)
      BY <2>1, <3>2, AgedSyncs DEF Claim
    <3>3. CASE MarkMissing(q)
      BY <1>0, <2>1, <3>3 DEF MarkMissing
    <3> QED
      BY <1>2, <3>1, <3>2, <3>3
  <2> QED
    BY <2>2
<1>3. ASSUME NEW x \in Resources, Lapse(x)
      PROVE  FALSE
  BY <1>3 DEF Lapse
<1>4. ASSUME UNCHANGED rows
      PROVE  FALSE
  BY <1>4
<1>5. \/ UNCHANGED rows
      \/ \E x \in Resources : Lapse(x)
      \/ \E q \in Syncs : UpsertScan(q) \/ Claim(q) \/ MarkMissing(q)
      \/ \E q \in Syncs, x \in Resources : MarkFailed(q, x) \/ MarkSynced(q, x)
  <2>1. CASE UNCHANGED vars
    BY <2>1 DEF vars
  <2>2. CASE \E x \in Resources : Edit(x) \/ Delete(x) \/ Lapse(x) \/ Indexed(x)
    BY <2>2 DEF Edit, Delete, Indexed
  <2>3. ASSUME NEW q \in Syncs, Step(q) \/ Die(q)
        PROVE  \/ UNCHANGED rows
               \/ UpsertScan(q) \/ Claim(q) \/ MarkMissing(q)
               \/ \E x \in Resources : MarkFailed(q, x) \/ MarkSynced(q, x)
    <3>1. CASE \E x \in Resources : Upload(q, x)
      BY <3>1 DEF Upload, Stat, Remove, Write, Add, SetTags, CommandFails
    <3>2. CASE ~\E x \in Resources : Upload(q, x)
      BY <2>3, <3>2 DEF Step, Die, Start, ListFiles, ListInterrupted, RootMissing, ReadFiles,
                        FileVanishes, Wait, BatchDone
    <3> QED
      BY <3>1, <3>2
  <2> QED
    BY <2>1, <2>2, <2>3 DEF Next
<1> QED
  BY <1>1, <1>2, <1>3, <1>4, <1>5

-----------------------------------------------------------------------------
(* The theorems *)

LEMMA NextInv ==
  ASSUME SyncAssumption, IInv, [Next]_vars
  PROVE  IInv'
<1>1. CASE UNCHANGED vars
  BY <1>1 DEF vars, IInv, TypeOK, Fenced, Quiet
<1>2. CASE \E r \in Resources : Edit(r) \/ Delete(r) \/ Lapse(r) \/ Indexed(r)
  BY <1>2, EditInv, DeleteInv, LapseInv, IndexedInv
<1>3. ASSUME NEW p \in Syncs, Step(p) \/ Die(p)
      PROVE  IInv'
  <2>1. CASE \E r \in Resources : Upload(p, r)
    BY <2>1, StatInv, RemoveInv, WriteInv, SetTagsInv, CommandFailsInv, MarkInv DEF Upload
  <2>2. CASE Start(p) \/ ListFiles(p) \/ ReadFiles(p) \/ Die(p)
    BY <2>2, StartInv, ListFilesInv, ReadFilesInv, DieInv
  <2>3. CASE ListInterrupted(p) \/ RootMissing(p) \/ FileVanishes(p) \/ Wait(p) \/ BatchDone(p)
    BY <2>3, TurnInv
  <2>4. CASE UpsertScan(p) \/ Claim(p)
    BY <2>4, UpsertScanInv, ClaimInv
  <2>5. CASE MarkMissing(p)
    BY <2>5, MarkMissingInv
  <2> QED
    BY <1>3, <2>1, <2>2, <2>3, <2>4, <2>5 DEF Step
<1> QED
  BY <1>1, <1>2, <1>3 DEF Next

\* The invariant of ResourceSync, for any syncs, files, texts and faults.
THEOREM InvariantHolds == Spec => []IInv
<1>1. Init => IInv
  BY SyncAssumption, InitInv
<1>2. IInv /\ [Next]_vars => IInv'
  BY SyncAssumption, NextInv
<1> QED
  BY <1>1, <1>2, PTL DEF Spec

\* The types of the table, of OpenViking and of the syncs; a row has an owner
\* exactly while it is in progress.
THEOREM TypeCorrect == Spec => []TypeOK
<1>1. IInv => TypeOK
  BY DEF IInv
<1> QED
  BY <1>1, InvariantHolds, PTL

\* mark_synced and mark_failed (state.py) change a row only for the upload that
\* claimed it last, for the text recorded last, whoever else is late.
THEOREM LatestDecides == Spec => LatestClaimDecides
<1>1. ASSUME IInv, IInv', [Next]_vars, NEW p \in Syncs, NEW r \in Resources,
             rows'[r] # rows[r], syncs[p].job[r].at \in {"ok", "failed"}, syncs'[p].job[r].at = "none"
      PROVE  ~syncs[p].job[r].old
  <2>1. rows[r].owner = p
    BY <1>1, SyncAssumption, EndsItself
  <2> QED
    BY <1>1, <2>1 DEF IInv, Fenced
<1>2. IInv /\ IInv' /\ [Next]_vars =>
        [\A p \in Syncs, r \in Resources :
          rows'[r] # rows[r] /\ syncs[p].job[r].at \in {"ok", "failed"} /\ syncs'[p].job[r].at = "none"
          => ~syncs[p].job[r].old]_vars
  BY <1>1
<1> QED
  BY <1>2, InvariantHolds, PTL DEF Spec, LatestClaimDecides
=============================================================================
