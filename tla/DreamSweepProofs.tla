--------------------------- MODULE DreamSweepProofs ---------------------------
(***************************************************************************)
(* Theorems about DreamSweep, for any sweepers, sessions, claims, runs and *)
(* faults.  The invariant has four parts: the types (Typed), who works     *)
(* (Alone), what the database, the files and the history say of each other *)
(* (Data), and what holds at each step of the sweeper that works (Place).  *)
(***************************************************************************)
EXTENDS DreamSweep, FiniteSetTheorems, TLAPS

Candidate == [first : 0..MaxRuns, last : 0..MaxRuns, reinf : Nat,
              class : Classes \cup {"open"},
              state : {"not_requested", "outbox_pending", "locally_published"}]

Database ==
  [run : [Runs -> {"none", "running", "complete", "failed", "pruned"}],
   source : [Sources -> [status : {"new", "pending", "complete"}, fp : 0..MaxVer]],
   cand : [Claims -> Candidate],
   row : [Claims -> [Keys -> 0..MaxRuns]],
   ins : [Insights -> 0..MaxRuns],
   pub : [Runs -> [status : {"none", "pending", "published"}, fp : Fingerprint]],
   reported : SUBSET Runs,
   outbox : [Claims -> {"none", "pending", "staged"}]]

Files == [staged : SUBSET (Runs \X Kinds), final : SUBSET (Runs \X Kinds),
          dreams : SUBSET Fingerprint]

Locals == [run : 0..MaxRuns, read : [Sources -> 0..MaxVer], cited : SUBSET Claims,
           decs : SUBSET Decision, ins : SUBSET Insights, rest : SUBSET Claims,
           at : Claims \cup {None}]

Entry == [read : [Sources -> 0..MaxVer], touched : SUBSET Claims, acts : SUBSET Claims]

Typed ==
  /\ ver \in [Sources -> 1..MaxVer]
  /\ db \in Database
  /\ fs \in Files
  /\ intents \subseteq Claims
  /\ lease \in Sweepers \cup {None}
  /\ pc \in [Sweepers -> Steps]
  /\ my \in [Sweepers -> Locals]
  /\ faults \in 0..MaxFaults
  /\ DOMAIN committed \subseteq Runs
  /\ committed \in [DOMAIN committed -> Entry]

\* Who works holds the lease; who does not has no locals.
Alone ==
  \A p \in Sweepers : IF pc[p] = "idle" THEN my[p] = Fresh ELSE lease = p

-----------------------------------------------------------------------------
(* The database, the files and the history *)

\* Runs are started in order.
InOrder == \E n \in 0..MaxRuns : \A r \in Runs : db.run[r] # "none" <=> r <= n

\* The states of a run, its publication and the history go together.
Lives ==
  \A r \in Runs :
    /\ r \in DOMAIN committed => db.run[r] # "none"
    /\ db.pub[r].status # "none" => r \in DOMAIN committed
    /\ db.pub[r].status = "published" => db.run[r] # "running"

\* A run whose rows may be in the database.
Owns(r) == r \in DOMAIN committed \cup {0} \/ db.run[r] = "running"

RowsOwned ==
  /\ \A c \in Claims : Owns(db.cand[c].first) /\ \A k \in Keys : Owns(db.row[c][k])
  /\ \A i \in Insights : Owns(db.ins[i])

Clean(r) ==
  /\ \A c \in Claims : db.cand[c].first # r /\ \A k \in Keys : db.row[c][k] # r
  /\ \A i \in Insights : db.ins[i] # r

Data ==
  /\ InOrder /\ Lives /\ OnePending /\ RowsOwned
  /\ ImportLast /\ PublicationIsWhole
  /\ ReinforcedOnce /\ CheckpointIsHonest /\ OutboxIsHonest

-----------------------------------------------------------------------------
(* The sweeper that works *)

Publishes == {"report", "dreams", "import", "ack"}
Stages == {"stage", "staged"}
Works == {"scan", "light", "rem", "artifacts", "stageImport", "commit", "noop"}
Closes == {"finish", "prune", "pruneReports"}

\* The run the sweeper has in hand.
InHand(step, run) ==
  /\ step \in {"recover", "begin"} => run = 0
  /\ step \in Publishes \cup Stages => run \in DOMAIN committed \cup {0}
  /\ step \in Works => /\ run \in Runs \ DOMAIN committed
                       /\ db.run[run] = "running"
                       /\ \A q \in Runs : q > run => db.run[q] = "none"
  /\ step \in {"mark", "scan"} => run \in Runs /\ Clean(run)
  /\ step \in Closes \cup {"fail"} => run \in Runs /\ (run \in DOMAIN committed \/ Clean(run))
  /\ step \in {"undo", "undoRows"} => run \in Runs \ DOMAIN committed
  /\ step \in Closes \cup {"mark", "undo", "undoRows", "fail"} => db.run[run] # "none"

\* What earlier runs left open: recovery is done with abandoned runs before it
\* publishes, and with publications before anything else.
LeftOpen(step, run) ==
  /\ step \in Publishes => \A r \in Runs : db.run[r] = "running" => r \in Pending
  /\ step \in Publishes \ {"report"} => Pending # {}
  /\ step \in Stages \cup Works \cup Closes \cup {"begin"} => Pending = {}
  /\ step \in Stages \cup Works \cup {"begin", "finish"} =>
       \A r \in Runs : db.run[r] = "running" => r = run
  /\ step \in {"prune", "pruneReports"} => \A r \in Runs : db.run[r] # "running"

\* Which files are staged or in place.
FilesAt(step, run) ==
  /\ step \in Publishes => \A f \in fs.staged : f[1] \in Pending
  /\ step \in {"dreams", "import", "ack"} => <<Oldest, "report">> \in fs.final \ fs.staged
  /\ step \in {"import", "ack"} => db.pub[Oldest].fp \in fs.dreams
  /\ step = "ack" => <<Oldest, "import">> \notin fs.staged
  /\ step \in Stages \cup Works \cup {"begin", "finish"} => \A f \in fs.staged : f[1] = run
  /\ step \in {"stageImport", "commit"} => <<run, "report">> \in fs.staged
  /\ step = "commit" => <<run, "import">> \in fs.staged

\* What was read is what is registered; what is to be staged was queued.
HeldAt(step, m) ==
  /\ step \in Works \ {"scan"} =>
       \A s \in Sources : m.read[s] # 0 => db.source[s].fp = m.read[s]
  /\ \A c \in m.rest : db.outbox[c] # "none"
  /\ step = "staged" => m.at \in intents

Place(p) ==
  /\ InHand(pc[p], my[p].run) /\ LeftOpen(pc[p], my[p].run)
  /\ FilesAt(pc[p], my[p].run) /\ HeldAt(pc[p], my[p])

IInv == Typed /\ Alone /\ Data /\ \A p \in Sweepers : Place(p)

-----------------------------------------------------------------------------
(* Who works *)

LEMMA FreshLocals == Fresh \in Locals /\ Fresh.run = 0 /\ Fresh.rest = {}
BY SweepAssumption DEF Fresh, Locals

\* The sweepers other than the one that works are idle.
LEMMA OthersIdle ==
  ASSUME Alone, NEW p \in Sweepers, pc[p] # "idle", NEW q \in Sweepers \ {p}
  PROVE  pc[q] = "idle" /\ my[q] = Fresh
BY DEF Alone

\* A step of the sweeper that works leaves the others where they are.
LEMMA MyStep ==
  ASSUME Alone, NEW p \in Sweepers, pc[p] # "idle", lease' = lease,
         \A q \in Sweepers \ {p} : pc'[q] = pc[q] /\ my'[q] = my[q],
         pc'[p] # "idle", Place(p)'
  PROVE  Alone' /\ \A q \in Sweepers : Place(q)'
<1>1. \A q \in Sweepers \ {p} : pc'[q] = "idle" /\ my'[q] = Fresh
  BY OthersIdle
<1>2. Alone'
  BY <1>1 DEF Alone
<1>3. ASSUME NEW q \in Sweepers \ {p} PROVE Place(q)'
  BY <1>1, FreshLocals
     DEF Place, InHand, LeftOpen, FilesAt, HeldAt, Publishes, Stages, Works, Closes
<1> QED
  BY <1>2, <1>3

LEMMA DataStays ==
  ASSUME Data, UNCHANGED <<db, fs, intents, committed>>
  PROVE  Data'
<1> USE DEF Data
<1>1. InOrder' /\ Lives' /\ OnePending' /\ RowsOwned'
  BY DEF InOrder, Lives, OnePending, Pending, RowsOwned, Owns
<1>2. ImportLast' /\ PublicationIsWhole'
  BY DEF ImportLast, PublicationIsWhole, Pending
<1>3. ReinforcedOnce' /\ CheckpointIsHonest' /\ OutboxIsHonest'
  BY DEF ReinforcedOnce, CheckpointIsHonest, OutboxIsHonest
<1> QED
  BY <1>1, <1>2, <1>3

\* What every step of the working sweeper starts from.
LEMMA AtWork ==
  ASSUME IInv, NEW p \in Sweepers
  PROVE  /\ my[p] \in Locals /\ my[p].run \in 0..MaxRuns /\ my[p].rest \subseteq Claims
         /\ MaxRuns \in Nat /\ MaxFaults \in Nat
         /\ InHand(pc[p], my[p].run) /\ LeftOpen(pc[p], my[p].run)
         /\ FilesAt(pc[p], my[p].run) /\ HeldAt(pc[p], my[p])
BY SweepAssumption DEF IInv, Typed, Locals, Place

LEMMA Moves ==
  ASSUME IInv, NEW p \in Sweepers, NEW step \in Steps, pc' = [pc EXCEPT ![p] = step]
  PROVE  /\ pc' \in [Sweepers -> Steps] /\ pc'[p] = step
         /\ \A q \in Sweepers \ {p} : pc'[q] = pc[q]
BY DEF IInv, Typed

\* A step that touches neither store.
LEMMA QuietStep ==
  ASSUME IInv, Typed', NEW p \in Sweepers, pc[p] # "idle", pc'[p] # "idle",
         UNCHANGED <<db, fs, intents, committed, lease>>,
         \A q \in Sweepers \ {p} : pc'[q] = pc[q] /\ my'[q] = my[q],
         InHand(pc'[p], my'[p].run), LeftOpen(pc'[p], my'[p].run),
         FilesAt(pc'[p], my'[p].run), HeldAt(pc'[p], my'[p])
  PROVE  IInv'
<1>1. Data'
  BY DataStays DEF IInv
<1>2. Place(p)'
  BY DEF Place, InHand, LeftOpen, FilesAt, HeldAt, Clean, Pending, Oldest
<1> QED
  BY <1>1, <1>2, MyStep DEF IInv

LEMMA InitInv == Init => IInv
<1> SUFFICES ASSUME Init PROVE IInv
  OBVIOUS
<1>1. /\ MaxVer \in Nat \ {0} /\ MaxRuns \in Nat /\ MaxFaults \in Nat
      /\ 0 \in 0..MaxRuns /\ 0 \in 0..MaxVer /\ 1 \in 1..MaxVer
      /\ MaxFaults \in 0..MaxFaults /\ \A r \in Runs : ~ r <= 0
  BY SweepAssumption DEF Runs
<1>2. /\ db.run = [r \in Runs |-> "none"]
      /\ db.source = [s \in Sources |-> [status |-> "new", fp |-> 0]]
      /\ db.cand = [c \in Claims |-> NoCand]
      /\ db.row = [c \in Claims |-> [k \in Keys |-> 0]]
      /\ db.ins = [i \in Insights |-> 0]
      /\ db.pub = [r \in Runs |-> [status |-> "none", fp |-> NoFingerprint]]
      /\ db.reported = {} /\ db.outbox = [c \in Claims |-> "none"]
      /\ fs.staged = {} /\ fs.final = {} /\ DOMAIN committed = {} /\ Pending = {}
  BY DEF Init, Pending
<1>3. Typed
  <2>1. NoCand \in Candidate
    BY <1>1 DEF NoCand, Candidate
  <2>2. [status |-> "new", fp |-> 0] \in [status : {"new", "pending", "complete"}, fp : 0..MaxVer]
    BY <1>1
  <2>3. [status |-> "none", fp |-> NoFingerprint] \in
          [status : {"none", "pending", "published"}, fp : Fingerprint]
    BY DEF NoFingerprint, Fingerprint
  <2>4. db \in Database
    BY <1>1, <2>1, <2>2, <2>3 DEF Init, Database
  <2>5. fs \in Files
    BY DEF Init, Files
  <2>6. committed \in [DOMAIN committed -> Entry] /\ DOMAIN committed \subseteq Runs
    BY DEF Init
  <2> QED
    BY <1>1, <2>4, <2>5, <2>6, FreshLocals DEF Init, Typed, Steps
<1>4. Alone
  BY DEF Init, Alone
<1>5. InOrder /\ Lives /\ OnePending /\ RowsOwned
  <2>1. \A r \in Runs : db.run[r] = "none" /\ db.pub[r].status = "none"
    BY <1>2
  <2>2. InOrder
    BY <1>1, <2>1 DEF InOrder
  <2>3. RowsOwned
    BY <1>2 DEF RowsOwned, Owns, NoCand
  <2> QED
    BY <1>2, <2>1, <2>2, <2>3 DEF Lives, OnePending
<1>6. ImportLast /\ PublicationIsWhole /\ ReinforcedOnce /\ CheckpointIsHonest /\ OutboxIsHonest
  <2>1. ReinforcedOnce
    BY <1>2 DEF ReinforcedOnce, NoCand
  <2>2. OutboxIsHonest
    BY <1>2 DEF OutboxIsHonest, Init
  <2>3. CheckpointIsHonest
    BY <1>2 DEF CheckpointIsHonest
  <2> QED
    BY <1>2, <2>1, <2>2, <2>3 DEF ImportLast, PublicationIsWhole
<1>7. \A p \in Sweepers : Place(p)
  BY FreshLocals DEF Init, Place, InHand, LeftOpen, FilesAt, HeldAt, Publishes, Stages, Works, Closes
<1> QED
  BY <1>3, <1>4, <1>5, <1>6, <1>7 DEF IInv, Data

-----------------------------------------------------------------------------
(* Steps that touch neither store *)

LEMMA AcquireStep == \A p \in Sweepers : IInv /\ Acquire(p) => IInv'
<1> SUFFICES ASSUME NEW p \in Sweepers, IInv, Acquire(p) PROVE IInv'
  OBVIOUS
<1>1. /\ pc[p] = "idle" /\ lease = None /\ lease' = p
      /\ pc' = [pc EXCEPT ![p] = "recover"]
      /\ UNCHANGED <<ver, db, fs, intents, my, faults, committed>>
  BY DEF Acquire, Go
<1>2. /\ pc' \in [Sweepers -> Steps] /\ pc'[p] = "recover"
      /\ \A q \in Sweepers \ {p} : pc'[q] = pc[q]
  BY <1>1, Moves DEF Steps
<1>3. \A q \in Sweepers : pc[q] = "idle" /\ my[q] = Fresh
  BY <1>1, SweepAssumption DEF IInv, Alone
<1>4. Typed'
  BY <1>1, <1>2 DEF IInv, Typed
<1>5. Alone'
  BY <1>1, <1>2, <1>3 DEF Alone
<1>6. Data'
  BY <1>1, DataStays DEF IInv
<1>7. ASSUME NEW q \in Sweepers PROVE Place(q)'
  <2>1. my'[q].run = 0 /\ my'[q].rest = {} /\ pc'[q] \in {"idle", "recover"}
    BY <1>1, <1>2, <1>3, FreshLocals
  <2> QED
    BY <2>1 DEF Place, InHand, LeftOpen, FilesAt, HeldAt, Publishes, Stages, Works, Closes
<1> QED
  BY <1>4, <1>5, <1>6, <1>7 DEF IInv

LEMMA ListStagingStep == \A p \in Sweepers : IInv /\ ListStaging(p) => IInv'
<1> SUFFICES ASSUME NEW p \in Sweepers, IInv, ListStaging(p) PROVE IInv'
  OBVIOUS
<1> DEFINE m == [my[p] EXCEPT !.rest = ToStage]
<1>1. /\ pc[p] = "report" /\ Pending = {}
      /\ pc' = [pc EXCEPT ![p] = "stage"]
      /\ my' = [my EXCEPT ![p] = m]
      /\ UNCHANGED <<ver, db, fs, intents, lease, faults, committed>>
  BY DEF ListStaging, Go
<1>2. /\ pc' \in [Sweepers -> Steps] /\ pc'[p] = "stage"
      /\ \A q \in Sweepers \ {p} : pc'[q] = pc[q]
  BY <1>1, Moves DEF Steps
<1>3. m \in Locals /\ m.run = my[p].run /\ m.rest = ToStage
  BY AtWork DEF Locals, ToStage
<1> HIDE DEF m
<1>4. /\ my' \in [Sweepers -> Locals] /\ my'[p] = m
      /\ \A q \in Sweepers \ {p} : my'[q] = my[q]
  BY <1>1, <1>3 DEF IInv, Typed
<1>5. Typed'
  BY <1>1, <1>2, <1>4 DEF IInv, Typed
<1>6. InHand("stage", m.run) /\ LeftOpen("stage", m.run)
  BY <1>1, <1>3, AtWork DEF InHand, LeftOpen, Publishes, Stages, Works, Closes
<1>7. FilesAt("stage", m.run) /\ HeldAt("stage", m)
  BY <1>1, <1>3, AtWork DEF FilesAt, HeldAt, Publishes, Stages, Works, ToStage
<1> QED
  BY <1>1, <1>2, <1>4, <1>5, <1>6, <1>7, QuietStep

LEMMA StagingFailsStep == \A p \in Sweepers : IInv /\ StagingFails(p) => IInv'
<1> SUFFICES ASSUME NEW p \in Sweepers, IInv, StagingFails(p) PROVE IInv'
  OBVIOUS
<1>1. /\ pc[p] \in Stages /\ pc' = [pc EXCEPT ![p] = "stage"]
      /\ faults > 0 /\ faults' = faults - 1
      /\ UNCHANGED <<ver, db, fs, intents, lease, committed>>
  BY DEF StagingFails, Stages
<1>2. /\ pc' \in [Sweepers -> Steps] /\ pc'[p] = "stage"
      /\ \A q \in Sweepers \ {p} : pc'[q] = pc[q]
  BY <1>1, Moves DEF Steps
<1>3. /\ my' \in [Sweepers -> Locals] /\ my'[p].run = my[p].run
      /\ my'[p].rest \subseteq my[p].rest
      /\ \A q \in Sweepers \ {p} : my'[q] = my[q]
  <2>1. CASE UNCHANGED my
    BY <2>1 DEF IInv, Typed
  <2>2. ASSUME NEW c \in my[p].rest, my' = [my EXCEPT ![p].rest = @ \ {c}]
        PROVE  /\ my' \in [Sweepers -> Locals] /\ my'[p].run = my[p].run
               /\ my'[p].rest \subseteq my[p].rest
               /\ \A q \in Sweepers \ {p} : my'[q] = my[q]
    BY <2>2 DEF IInv, Typed, Locals
  <2> QED
    BY <2>1, <2>2 DEF StagingFails
<1>4. Typed'
  <2>1. faults' \in 0..MaxFaults
    BY <1>1, AtWork DEF IInv, Typed
  <2> QED
    BY <1>1, <1>2, <1>3, <2>1 DEF IInv, Typed
<1>5. InHand("stage", my'[p].run) /\ LeftOpen("stage", my'[p].run)
  BY <1>1, <1>3, AtWork DEF InHand, LeftOpen, Publishes, Stages, Works, Closes
<1>6. FilesAt("stage", my'[p].run) /\ HeldAt("stage", my'[p])
  BY <1>1, <1>3, AtWork DEF FilesAt, HeldAt, Publishes, Stages, Works
<1>7. pc[p] # "idle"
  BY <1>1 DEF Stages
<1> QED
  BY <1>1, <1>2, <1>3, <1>4, <1>5, <1>6, <1>7, QuietStep

LEMMA StagingDoneStep == \A p \in Sweepers : IInv /\ StagingDone(p) => IInv'
<1> SUFFICES ASSUME NEW p \in Sweepers, IInv, StagingDone(p) PROVE IInv'
  OBVIOUS
<1> DEFINE to == IF my[p].run = 0 THEN "begin" ELSE "finish"
<1>1. /\ pc[p] = "stage" /\ pc' = [pc EXCEPT ![p] = to]
      /\ UNCHANGED <<ver, db, fs, intents, lease, my, faults, committed>>
  BY DEF StagingDone, Go
<1>2. /\ pc' \in [Sweepers -> Steps] /\ pc'[p] = to
      /\ \A q \in Sweepers \ {p} : pc'[q] = pc[q]
  BY <1>1, Moves DEF Steps
<1>3. Typed'
  BY <1>1, <1>2 DEF IInv, Typed
<1>4. /\ my[p].run \in DOMAIN committed \cup {0} /\ DOMAIN committed \subseteq Runs
      /\ \A r \in DOMAIN committed : db.run[r] # "none"
  BY <1>1, AtWork DEF InHand, Stages, IInv, Typed, Data, Lives
<1>5. InHand(to, my[p].run)
  BY <1>4 DEF InHand, Publishes, Stages, Works, Closes
<1>6. LeftOpen(to, my[p].run)
  BY <1>1, AtWork DEF LeftOpen, Publishes, Stages, Works, Closes
<1>7. FilesAt(to, my[p].run)
  BY <1>1, AtWork DEF FilesAt, Publishes, Stages, Works, Closes
<1>8. HeldAt(to, my[p])
  BY <1>1, AtWork DEF HeldAt, Works
<1> QED
  BY <1>1, <1>2, <1>3, <1>5, <1>6, <1>7, <1>8, QuietStep

\* A sweeper that leaves, or dies, takes its locals and its lease with it.
LEMMA LeaveStep ==
  ASSUME IInv, NEW p \in Sweepers, pc[p] # "idle",
         pc' = [pc EXCEPT ![p] = "idle"], my' = [my EXCEPT ![p] = Fresh],
         lease' \in {None, lease}, faults' \in 0..MaxFaults,
         UNCHANGED <<ver, db, fs, intents, committed>>
  PROVE  IInv'
<1>1. \A q \in Sweepers : pc'[q] = "idle" /\ my'[q] = Fresh
  BY OthersIdle DEF IInv, Typed
<1>2. Typed'
  BY FreshLocals DEF IInv, Typed, Steps
<1>3. Data'
  BY DataStays DEF IInv
<1>4. Alone'
  BY <1>1 DEF Alone
<1>5. \A q \in Sweepers : Place(q)'
  BY <1>1, FreshLocals
     DEF Place, InHand, LeftOpen, FilesAt, HeldAt, Publishes, Stages, Works, Closes
<1> QED
  BY <1>2, <1>3, <1>4, <1>5 DEF IInv

LEMMA ReleaseStep == \A p \in Sweepers : IInv /\ (Release(p) \/ Crash(p)) => IInv'
<1> SUFFICES ASSUME NEW p \in Sweepers, IInv, Release(p) \/ Crash(p) PROVE IInv'
  OBVIOUS
<1>1. /\ pc[p] # "idle" /\ pc' = [pc EXCEPT ![p] = "idle"]
      /\ my' = [my EXCEPT ![p] = Fresh] /\ lease' \in {None, lease}
      /\ UNCHANGED <<ver, db, fs, intents, committed>>
  BY DEF Release, Crash, Go
<1>2. faults' \in 0..MaxFaults
  BY AtWork DEF Release, Crash, IInv, Typed
<1> QED
  BY <1>1, <1>2, LeaveStep

\* Where a handler leads: a run is undone only if it is not committed, and marked
\* failed only if it is committed or nothing is left of it.
LEMMA RaiseStep == \A p \in Sweepers : IInv /\ Raise(p) => IInv'
<1> SUFFICES ASSUME NEW p \in Sweepers, IInv, Raise(p) PROVE IInv'
  OBVIOUS
<1> DEFINE to == Handler(p)
           run == my[p].run
<1>1. /\ pc[p] \notin {"idle", "begin", "undo", "release"}
      /\ pc' = [pc EXCEPT ![p] = to]
      /\ faults > 0 /\ faults' = faults - 1
      /\ UNCHANGED <<ver, db, fs, intents, lease, my, committed>>
  BY DEF Raise
<1>2. pc[p] \in Steps /\ run \in 0..MaxRuns /\ DOMAIN committed \subseteq Runs
  BY AtWork DEF IInv, Typed
<1>3. \/ to = "release"
      \/ to = "fail" /\ run \in DOMAIN committed
      \/ to = "undo" /\ run \in Runs \ DOMAIN committed /\ db.run[run] # "none"
  <2>1. CASE pc[p] \in {"recover", "mark", "ack", "undoRows", "fail"}
    BY <2>1 DEF Handler
  <2>2. CASE pc[p] \in {"report", "dreams", "import", "stage", "staged"}
    <3>1. to = IF run = 0 THEN "release" ELSE "fail"
      BY <2>2 DEF Handler
    <3>2. run \in DOMAIN committed \cup {0}
      BY <2>2, AtWork DEF InHand, Publishes, Stages
    <3> QED
      BY <3>1, <3>2
  <2>3. CASE pc[p] \in Works
    <3>1. to = "undo"
      BY <2>3 DEF Handler, Works
    <3>2. run \in Runs \ DOMAIN committed /\ db.run[run] # "none"
      BY <2>3, AtWork DEF InHand
    <3> QED
      BY <3>1, <3>2
  <2>4. CASE pc[p] \in Closes
    <3>1. to = IF db.pub[run].status # "none" THEN "release"
               ELSE IF run \in DOMAIN committed THEN "fail" ELSE "undo"
      BY <2>4 DEF Handler, Closes
    <3>2. run \in Runs /\ db.run[run] # "none"
      BY <2>4, AtWork DEF InHand
    <3> QED
      BY <3>1, <3>2
  <2> QED
    BY <1>1, <1>2, <2>1, <2>2, <2>3, <2>4 DEF Steps, Works, Closes
<1>4. to \in Steps /\ to # "idle"
  BY <1>3 DEF Steps
<1>5. /\ pc' \in [Sweepers -> Steps] /\ pc'[p] = to
      /\ \A q \in Sweepers \ {p} : pc'[q] = pc[q]
  BY <1>1, <1>4, Moves
<1>6. Typed'
  <2>1. faults' \in 0..MaxFaults
    BY <1>1, AtWork DEF IInv, Typed
  <2> QED
    BY <1>1, <1>5, <2>1 DEF IInv, Typed
<1>7. InHand(to, run)
  BY <1>2, <1>3 DEF InHand, Publishes, Stages, Works, Closes, IInv, Data, Lives
<1>8. LeftOpen(to, run) /\ FilesAt(to, run)
  BY <1>3 DEF LeftOpen, FilesAt, Publishes, Stages, Works, Closes
<1>9. HeldAt(to, my[p])
  BY <1>3, AtWork DEF HeldAt, Works
<1> HIDE DEF to
<1> QED
  BY <1>1, <1>4, <1>5, <1>6, <1>7, <1>8, <1>9, QuietStep

LEMMA GrowStep == \A s \in Sources : IInv /\ Grow(s) => IInv'
<1> SUFFICES ASSUME NEW s \in Sources, IInv, Grow(s) PROVE IInv'
  OBVIOUS
<1>1. /\ ver[s] < MaxVer /\ ver' = [ver EXCEPT ![s] = ver[s] + 1]
      /\ UNCHANGED <<db, fs, intents, lease, pc, my, faults, committed>>
  BY DEF Grow
<1>2. Typed'
  <2>1. ver' \in [Sources -> 1..MaxVer]
    BY <1>1, SweepAssumption DEF IInv, Typed
  <2> QED
    BY <1>1, <2>1 DEF IInv, Typed
<1>3. Alone' /\ Data'
  BY <1>1, DataStays DEF IInv, Alone
<1>4. ASSUME NEW p \in Sweepers PROVE Place(p)'
  <2>1. /\ InHand(pc[p], my[p].run) /\ LeftOpen(pc[p], my[p].run)
        /\ FilesAt(pc[p], my[p].run) /\ HeldAt(pc[p], my[p])
    BY AtWork
  <2> QED
    BY <1>1, <2>1 DEF Place, InHand, LeftOpen, FilesAt, HeldAt, Clean, Pending, Oldest
<1> QED
  BY <1>2, <1>3, <1>4 DEF IInv

-----------------------------------------------------------------------------
(* Steps that touch the files *)

\* There is at most one unfinished publication.
LEMMA TheOldest ==
  ASSUME Typed, Data, Pending # {}
  PROVE  Oldest \in Runs /\ Pending = {Oldest} /\ Oldest \in DOMAIN committed
<1>1. \A r \in Pending : r \in Runs /\ r \in DOMAIN committed /\ db.run[r] # "none"
  BY DEF Pending, Data, Lives
<1>2. ASSUME NEW r \in Pending, NEW q \in Pending PROVE r = q
  <2>1. ~ r < q /\ ~ q < r
    BY <1>1 DEF Data, OnePending
  <2>2. r \in Nat /\ q \in Nat
    BY <1>1 DEF Runs
  <2> QED
    BY <2>1, <2>2
<1>3. PICK r \in Pending : TRUE
  OBVIOUS
<1>4. Pending = {r} /\ \A q \in Pending : r <= q
  BY <1>1, <1>2, <1>3 DEF Runs
<1>5. Oldest \in Pending
  BY <1>4 DEF Oldest
<1> QED
  BY <1>1, <1>4, <1>5

LEMMA FilesStep ==
  ASSUME IInv, NEW p \in Sweepers, pc[p] # "idle", NEW step \in Steps, step # "idle",
         pc' = [pc EXCEPT ![p] = step],
         fs' \in Files, ImportLast', PublicationIsWhole',
         UNCHANGED <<ver, db, intents, lease, my, faults, committed>>,
         InHand(step, my[p].run), LeftOpen(step, my[p].run),
         FilesAt(step, my[p].run)', HeldAt(step, my[p])
  PROVE  IInv'
<1>1. /\ pc' \in [Sweepers -> Steps] /\ pc'[p] = step
      /\ \A q \in Sweepers \ {p} : pc'[q] = pc[q] /\ my'[q] = my[q]
  BY Moves
<1>2. Typed'
  BY <1>1 DEF IInv, Typed
<1>3. Data'
  BY DEF IInv, Data, InOrder, Lives, OnePending, Pending, RowsOwned, Owns,
         ReinforcedOnce, CheckpointIsHonest, OutboxIsHonest
<1>4. Place(p)'
  BY <1>1 DEF Place, InHand, LeftOpen, FilesAt, HeldAt, Clean, Pending, Oldest
<1> QED
  BY <1>1, <1>2, <1>3, <1>4, MyStep DEF IInv

LEMMA CleanStagingStep == \A p \in Sweepers : IInv /\ CleanStaging(p) => IInv'
<1> SUFFICES ASSUME NEW p \in Sweepers, IInv, CleanStaging(p) PROVE IInv'
  OBVIOUS
<1>1. /\ pc[p] = "recover" /\ pc' = [pc EXCEPT ![p] = "report"] /\ Abandoned = {}
      /\ fs' = [fs EXCEPT !.staged = {f \in fs.staged : f[1] \in Pending}]
      /\ UNCHANGED <<ver, db, intents, lease, my, faults, committed>>
  BY DEF CleanStaging, Go
<1>2. /\ fs' \in Files /\ fs'.final = fs.final /\ fs'.dreams = fs.dreams
      /\ fs'.staged = {f \in fs.staged : f[1] \in Pending}
  BY <1>1 DEF IInv, Typed, Files
<1>3. ImportLast' /\ PublicationIsWhole'
  BY <1>1, <1>2 DEF IInv, Data, ImportLast, PublicationIsWhole, Pending
<1>4. my[p].run = 0
  BY <1>1, AtWork DEF InHand
<1>5. InHand("report", my[p].run)
  BY <1>4 DEF InHand, Publishes, Stages, Works, Closes
<1>6. LeftOpen("report", my[p].run)
  BY <1>1 DEF LeftOpen, Publishes, Stages, Works, Closes, Abandoned, Pending
<1>7. FilesAt("report", my[p].run)'
  BY <1>1, <1>2 DEF FilesAt, Publishes, Stages, Works, Pending
<1>8. HeldAt("report", my[p])
  BY AtWork DEF HeldAt, Works
<1> QED
  BY <1>1, <1>2, <1>3, <1>5, <1>6, <1>7, <1>8, FilesStep DEF Steps

\* publish_files moves what is staged to its place and leaves the rest.
LEMMA Moved ==
  ASSUME IInv, NEW r \in Runs, NEW kind \in Kinds, Move(r, kind)
  PROVE  /\ fs' \in Files /\ fs'.dreams = fs.dreams
         /\ fs'.staged = fs.staged \ {<<r, kind>>}
         /\ fs'.final = fs.final \cup {<<r, kind>>}
BY DEF IInv, Typed, Files, Move

LEMMA PublishReportStep == \A p \in Sweepers : IInv /\ PublishReport(p) => IInv'
<1> SUFFICES ASSUME NEW p \in Sweepers, IInv, PublishReport(p) PROVE IInv'
  OBVIOUS
<1>1. /\ pc[p] = "report" /\ pc' = [pc EXCEPT ![p] = "dreams"] /\ Pending # {}
      /\ Move(Oldest, "report")
      /\ UNCHANGED <<ver, db, intents, lease, my, faults, committed>>
  BY DEF PublishReport, Go
<1>2. Oldest \in Runs /\ Pending = {Oldest}
  BY <1>1, TheOldest DEF IInv
<1>3. /\ fs' \in Files /\ fs'.dreams = fs.dreams
      /\ fs'.staged = fs.staged \ {<<Oldest, "report">>}
      /\ fs'.final = fs.final \cup {<<Oldest, "report">>}
  BY <1>1, <1>2, Moved DEF Kinds
<1> DEFINE o == Oldest
<1>4. Oldest' = o /\ Pending' = Pending
  BY <1>1 DEF Oldest, Pending
<1> HIDE DEF o
<1>5. ImportLast' /\ PublicationIsWhole'
  BY <1>1, <1>3, <1>4 DEF IInv, Data, ImportLast, PublicationIsWhole
<1>6. InHand("dreams", my[p].run) /\ LeftOpen("dreams", my[p].run)
  BY <1>1, AtWork DEF InHand, LeftOpen, Publishes, Stages, Works, Closes
<1>7. FilesAt("dreams", my[p].run)'
  BY <1>1, <1>3, <1>4, AtWork DEF FilesAt, Publishes, Stages, Works, o
<1>8. HeldAt("dreams", my[p])
  BY AtWork DEF HeldAt, Works
<1> QED
  BY <1>1, <1>3, <1>5, <1>6, <1>7, <1>8, FilesStep DEF Steps

LEMMA UpdateDreamsStep == \A p \in Sweepers : IInv /\ UpdateDreams(p) => IInv'
<1> SUFFICES ASSUME NEW p \in Sweepers, IInv, UpdateDreams(p) PROVE IInv'
  OBVIOUS
<1>1. /\ pc[p] = "dreams" /\ pc' = [pc EXCEPT ![p] = "import"]
      /\ fs' = [fs EXCEPT !.dreams = fs.dreams \cup {db.pub[Oldest].fp}]
      /\ UNCHANGED <<ver, db, intents, lease, my, faults, committed>>
  BY DEF UpdateDreams, Go
<1>2. Pending # {} /\ Oldest \in Runs
  BY <1>1, AtWork, TheOldest DEF LeftOpen, Publishes, IInv
<1>3. db.pub[Oldest].fp \in Fingerprint
  BY <1>2 DEF IInv, Typed, Database
<1>4. /\ fs' \in Files /\ fs'.staged = fs.staged /\ fs'.final = fs.final
      /\ fs'.dreams = fs.dreams \cup {db.pub[Oldest].fp}
  BY <1>1, <1>3 DEF IInv, Typed, Files
<1> DEFINE o == Oldest
<1>5. Oldest' = o /\ Pending' = Pending
  BY <1>1 DEF Oldest, Pending
<1> HIDE DEF o
<1>6. ImportLast' /\ PublicationIsWhole'
  BY <1>1, <1>4, <1>5 DEF IInv, Data, ImportLast, PublicationIsWhole
<1>7. InHand("import", my[p].run) /\ LeftOpen("import", my[p].run)
  BY <1>1, AtWork DEF InHand, LeftOpen, Publishes, Stages, Works, Closes
<1>8. FilesAt("import", my[p].run)'
  BY <1>1, <1>4, <1>5, AtWork DEF FilesAt, Publishes, Stages, Works, o
<1>9. HeldAt("import", my[p])
  BY AtWork DEF HeldAt, Works
<1> QED
  BY <1>1, <1>4, <1>6, <1>7, <1>8, <1>9, FilesStep DEF Steps

\* The import follows its DREAMS.md entry and its report.
LEMMA PublishImportStep == \A p \in Sweepers : IInv /\ PublishImport(p) => IInv'
<1> SUFFICES ASSUME NEW p \in Sweepers, IInv, PublishImport(p) PROVE IInv'
  OBVIOUS
<1>1. /\ pc[p] = "import" /\ pc' = [pc EXCEPT ![p] = "ack"]
      /\ Move(Oldest, "import")
      /\ UNCHANGED <<ver, db, intents, lease, my, faults, committed>>
  BY DEF PublishImport, Go
<1>2. Oldest \in Runs /\ Pending = {Oldest} /\ Oldest \in DOMAIN committed
  BY <1>1, AtWork, TheOldest DEF LeftOpen, Publishes, IInv
<1>3. /\ fs' \in Files /\ fs'.dreams = fs.dreams
      /\ fs'.staged = fs.staged \ {<<Oldest, "import">>}
      /\ fs'.final = fs.final \cup {<<Oldest, "import">>}
  BY <1>1, <1>2, Moved DEF Kinds
<1>4. <<Oldest, "report">> \in fs.final \ fs.staged /\ db.pub[Oldest].fp \in fs.dreams
  BY <1>1, AtWork DEF FilesAt
<1> DEFINE o == Oldest
<1>5. Oldest' = o /\ Pending' = Pending
  BY <1>1 DEF Oldest, Pending
<1> HIDE DEF o
<1>6. ImportLast'
  <2> SUFFICES ASSUME NEW r \in Runs, <<r, "import">> \in fs'.final
               PROVE  /\ r \in DOMAIN committed /\ db.pub[r].fp \in fs.dreams
                      /\ <<r, "report">> \in fs'.final \/ r \notin db.reported
    BY <1>1, <1>3 DEF ImportLast
  <2>1. CASE r = Oldest
    BY <1>2, <1>3, <1>4, <2>1
  <2>2. CASE r # Oldest
    BY <1>3, <2>2 DEF IInv, Data, ImportLast
  <2> QED
    BY <2>1, <2>2
<1>7. PublicationIsWhole'
  BY <1>1, <1>3, <1>5 DEF IInv, Data, PublicationIsWhole
<1>8. InHand("ack", my[p].run) /\ LeftOpen("ack", my[p].run)
  BY <1>1, AtWork DEF InHand, LeftOpen, Publishes, Stages, Works, Closes
<1>9. FilesAt("ack", my[p].run)'
  BY <1>1, <1>3, <1>4, <1>5, AtWork DEF FilesAt, Publishes, Stages, Works, o
<1>10. HeldAt("ack", my[p])
  BY AtWork DEF HeldAt, Works
<1> QED
  BY <1>1, <1>3, <1>6, <1>7, <1>8, <1>9, <1>10, FilesStep DEF Steps

LEMMA StageReportStep == \A p \in Sweepers : IInv /\ StageReport(p) => IInv'
<1> SUFFICES ASSUME NEW p \in Sweepers, IInv, StageReport(p) PROVE IInv'
  OBVIOUS
<1> DEFINE run == my[p].run
<1>1. /\ pc[p] = "artifacts"
      /\ UNCHANGED <<ver, db, intents, lease, my, faults, committed>>
  BY DEF StageReport
<1>2. run \in Runs
  BY <1>1, AtWork DEF InHand, Works
<1>3. CASE Reported(NewFingerprint(p))
  <2>1. pc' = [pc EXCEPT ![p] = "noop"] /\ UNCHANGED fs
    BY <1>3 DEF StageReport
  <2>2. /\ pc' \in [Sweepers -> Steps] /\ pc'[p] = "noop"
        /\ \A q \in Sweepers \ {p} : pc'[q] = pc[q]
    BY <2>1, Moves DEF Steps
  <2>3. Typed'
    BY <1>1, <2>1, <2>2 DEF IInv, Typed
  <2>4. InHand("noop", run) /\ LeftOpen("noop", run)
    BY <1>1, AtWork DEF InHand, LeftOpen, Publishes, Stages, Works, Closes
  <2>5. FilesAt("noop", run) /\ HeldAt("noop", my[p])
    BY <1>1, AtWork DEF FilesAt, HeldAt, Publishes, Stages, Works
  <2> QED
    BY <1>1, <2>1, <2>2, <2>3, <2>4, <2>5, QuietStep
<1>4. CASE ~ Reported(NewFingerprint(p))
  <2>1. /\ pc' = [pc EXCEPT ![p] = "stageImport"]
        /\ fs' = [fs EXCEPT !.staged = fs.staged \cup {<<run, "report">>}]
    BY <1>4 DEF StageReport
  <2>2. /\ fs' \in Files /\ fs'.final = fs.final /\ fs'.dreams = fs.dreams
        /\ fs'.staged = fs.staged \cup {<<run, "report">>}
    BY <1>2, <2>1 DEF IInv, Typed, Files, Kinds
  <2>3. ImportLast' /\ PublicationIsWhole'
    BY <1>1, <2>2 DEF IInv, Data, ImportLast, PublicationIsWhole, Pending
  <2>4. InHand("stageImport", run) /\ LeftOpen("stageImport", run)
    BY <1>1, AtWork DEF InHand, LeftOpen, Publishes, Stages, Works, Closes
  <2>5. FilesAt("stageImport", run)'
    <3>1. \A f \in fs.staged : f[1] = run
      BY <1>1, AtWork DEF FilesAt, Works
    <3>2. \A f \in fs'.staged : f[1] = run
      BY <2>2, <3>1
    <3> QED
      BY <1>1, <2>2, <3>2 DEF FilesAt, Publishes, Stages, Works
  <2>6. HeldAt("stageImport", my[p])
    BY <1>1, AtWork DEF HeldAt, Works
  <2> QED
    BY <1>1, <2>1, <2>2, <2>3, <2>4, <2>5, <2>6, FilesStep DEF Steps
<1> QED
  BY <1>3, <1>4

LEMMA StageImportStep == \A p \in Sweepers : IInv /\ StageImport(p) => IInv'
<1> SUFFICES ASSUME NEW p \in Sweepers, IInv, StageImport(p) PROVE IInv'
  OBVIOUS
<1> DEFINE run == my[p].run
<1>1. /\ pc[p] = "stageImport" /\ pc' = [pc EXCEPT ![p] = "commit"]
      /\ fs' = [fs EXCEPT !.staged = fs.staged \cup {<<run, "import">>}]
      /\ UNCHANGED <<ver, db, intents, lease, my, faults, committed>>
  BY DEF StageImport, Go
<1>2. run \in Runs
  BY <1>1, AtWork DEF InHand, Works
<1>3. /\ fs' \in Files /\ fs'.final = fs.final /\ fs'.dreams = fs.dreams
      /\ fs'.staged = fs.staged \cup {<<run, "import">>}
  BY <1>1, <1>2 DEF IInv, Typed, Files, Kinds
<1>4. ImportLast' /\ PublicationIsWhole'
  BY <1>1, <1>3 DEF IInv, Data, ImportLast, PublicationIsWhole, Pending
<1>5. InHand("commit", run) /\ LeftOpen("commit", run)
  BY <1>1, AtWork DEF InHand, LeftOpen, Publishes, Stages, Works, Closes
<1>6. FilesAt("commit", run)'
  <2>1. (\A f \in fs.staged : f[1] = run) /\ <<run, "report">> \in fs.staged
    BY <1>1, AtWork DEF FilesAt, Works
  <2>2. \A f \in fs'.staged : f[1] = run
    BY <1>3, <2>1
  <2> QED
    BY <1>1, <1>3, <2>1, <2>2 DEF FilesAt, Publishes, Stages, Works
<1>7. HeldAt("commit", my[p])
  BY <1>1, AtWork DEF HeldAt, Works
<1> QED
  BY <1>1, <1>3, <1>4, <1>5, <1>6, <1>7, FilesStep DEF Steps

\* The handler removes the staged files of a run that is not committed.
LEMMA CleanStagedStep == \A p \in Sweepers : IInv /\ CleanStaged(p) => IInv'
<1> SUFFICES ASSUME NEW p \in Sweepers, IInv, CleanStaged(p) PROVE IInv'
  OBVIOUS
<1> DEFINE run == my[p].run
<1>1. /\ pc[p] = "undo" /\ pc' = [pc EXCEPT ![p] = "undoRows"]
      /\ fs' = [fs EXCEPT !.staged = {f \in fs.staged : f[1] # run}]
      /\ UNCHANGED <<ver, db, intents, lease, my, faults, committed>>
  BY DEF CleanStaged, Go
<1>2. run \in Runs \ DOMAIN committed /\ db.run[run] # "none"
  BY <1>1, AtWork DEF InHand
<1>3. /\ fs' \in Files /\ fs'.final = fs.final /\ fs'.dreams = fs.dreams
      /\ fs'.staged = {f \in fs.staged : f[1] # run}
  BY <1>1 DEF IInv, Typed, Files
<1>4. run \notin Pending
  BY <1>2 DEF IInv, Data, Lives, Pending
<1>5. ImportLast' /\ PublicationIsWhole'
  BY <1>1, <1>3, <1>4 DEF IInv, Data, ImportLast, PublicationIsWhole, Pending
<1>6. InHand("undoRows", run) /\ LeftOpen("undoRows", run)
  BY <1>2 DEF InHand, LeftOpen, Publishes, Stages, Works, Closes
<1>7. FilesAt("undoRows", run)' /\ HeldAt("undoRows", my[p])
  BY AtWork DEF FilesAt, HeldAt, Publishes, Stages, Works
<1> QED
  BY <1>1, <1>3, <1>5, <1>6, <1>7, FilesStep DEF Steps

-----------------------------------------------------------------------------
(* Steps that close or undo a run *)

\* Rows change hands to nobody but run r.
LEMMA RowsStayOwned ==
  ASSUME Typed, RowsOwned, NEW r, Owns(r)',
         \A v \in 0..MaxRuns : Owns(v) => Owns(v)',
         \A c \in Claims : db'.cand[c].first \in {0, r, db.cand[c].first},
         \A c \in Claims, k \in Keys : db'.row[c][k] \in {0, r, db.row[c][k]},
         \A i \in Insights : db'.ins[i] \in {0, r, db.ins[i]}
  PROVE  RowsOwned'
<1> DEFINE Kept(v) == v \in DOMAIN committed' \cup {0} \/ db'.run[v] = "running"
<1>1. ASSUME NEW v \in 0..MaxRuns, Owns(v), NEW w \in {0, r, v} PROVE Kept(w)
  BY <1>1 DEF Owns
<1> HIDE DEF Kept
<1>2. ASSUME NEW c \in Claims PROVE Kept(db'.cand[c].first)
  <2>1. Owns(db.cand[c].first) /\ db.cand[c].first \in 0..MaxRuns
    BY DEF RowsOwned, Typed, Database, Candidate
  <2> QED
    BY <1>1, <2>1
<1>3. ASSUME NEW c \in Claims, NEW k \in Keys PROVE Kept(db'.row[c][k])
  <2>1. Owns(db.row[c][k]) /\ db.row[c][k] \in 0..MaxRuns
    BY DEF RowsOwned, Typed, Database
  <2> QED
    BY <1>1, <2>1
<1>4. ASSUME NEW i \in Insights PROVE Kept(db'.ins[i])
  <2>1. Owns(db.ins[i]) /\ db.ins[i] \in 0..MaxRuns
    BY DEF RowsOwned, Typed, Database
  <2> QED
    BY <1>1, <2>1
<1> QED
  BY <1>2, <1>3, <1>4 DEF RowsOwned, Owns, Kept

\* A run may be closed once it is committed or nothing is left of it.
LEMMA RunCloses ==
  ASSUME IInv, NEW r \in Runs, db.run[r] # "none", r \in DOMAIN committed \/ Clean(r),
         NEW status \in {"complete", "failed"},
         db' = [db EXCEPT !.run = [db.run EXCEPT ![r] = status]],
         UNCHANGED <<fs, intents, committed>>
  PROVE  /\ db' \in Database /\ Data' /\ Pending' = Pending /\ Oldest' = Oldest
         /\ db'.run = [db.run EXCEPT ![r] = status] /\ db'.source = db.source
         /\ db'.cand = db.cand /\ db'.row = db.row /\ db'.ins = db.ins
         /\ db'.pub = db.pub /\ db'.outbox = db.outbox
<1>1. /\ db' \in Database /\ db'.run = [db.run EXCEPT ![r] = status]
      /\ db'.source = db.source /\ db'.cand = db.cand /\ db'.row = db.row
      /\ db'.ins = db.ins /\ db'.pub = db.pub /\ db'.reported = db.reported
      /\ db'.outbox = db.outbox
  BY DEF IInv, Typed, Database
<1>2. \A q \in Runs : db'.run[q] = IF q = r THEN status ELSE db.run[q]
  BY <1>1 DEF IInv, Typed, Database
<1>3. Pending' = Pending /\ Oldest' = Oldest
  BY <1>1 DEF Pending, Oldest
<1>4. InOrder' /\ Lives' /\ OnePending'
  BY <1>1, <1>2, <1>3 DEF IInv, Data, InOrder, Lives, OnePending
<1>5. RowsOwned'
  <2>1. ASSUME NEW c \in Claims PROVE Owns(db.cand[c].first)' /\ db'.cand[c].first = db.cand[c].first
    <3>1. Owns(db.cand[c].first) /\ db.cand[c].first \in 0..MaxRuns
      BY DEF IInv, Data, RowsOwned, Typed, Database, Candidate
    <3> QED
      BY <1>1, <1>2, <3>1 DEF Clean, Owns, Runs
  <2>2. ASSUME NEW c \in Claims, NEW k \in Keys PROVE Owns(db.row[c][k])' /\ db'.row[c][k] = db.row[c][k]
    <3>1. Owns(db.row[c][k]) /\ db.row[c][k] \in 0..MaxRuns
      BY DEF IInv, Data, RowsOwned, Typed, Database
    <3> QED
      BY <1>1, <1>2, <3>1 DEF Clean, Owns, Runs
  <2>3. ASSUME NEW i \in Insights PROVE Owns(db.ins[i])' /\ db'.ins[i] = db.ins[i]
    <3>1. Owns(db.ins[i]) /\ db.ins[i] \in 0..MaxRuns
      BY DEF IInv, Data, RowsOwned, Typed, Database
    <3> QED
      BY <1>1, <1>2, <3>1 DEF Clean, Owns, Runs
  <2> QED
    BY <2>1, <2>2, <2>3 DEF RowsOwned
<1>6. ImportLast' /\ PublicationIsWhole'
  BY <1>1, <1>3 DEF IInv, Data, ImportLast, PublicationIsWhole
<1>7. ReinforcedOnce' /\ CheckpointIsHonest' /\ OutboxIsHonest'
  BY <1>1 DEF IInv, Data, ReinforcedOnce, CheckpointIsHonest, OutboxIsHonest
<1> QED
  BY <1>1, <1>3, <1>4, <1>5, <1>6, <1>7 DEF Data

\* A step of the working sweeper on the stores ...
LEMMA StoreStep ==
  ASSUME IInv, NEW p \in Sweepers, pc[p] # "idle", NEW step \in Steps, step # "idle",
         pc' = [pc EXCEPT ![p] = step],
         my' \in [Sweepers -> Locals], \A q \in Sweepers \ {p} : my'[q] = my[q],
         db' \in Database, fs' \in Files, intents' \subseteq Claims, Data',
         UNCHANGED <<ver, lease, faults>>,
         committed' \in [DOMAIN committed' -> Entry], DOMAIN committed' \subseteq Runs,
         InHand(step, my[p].run)', LeftOpen(step, my[p].run)',
         FilesAt(step, my[p].run)', HeldAt(step, my[p])'
  PROVE  IInv'
<1>1. /\ pc' \in [Sweepers -> Steps] /\ pc'[p] = step
      /\ \A q \in Sweepers \ {p} : pc'[q] = pc[q]
  BY Moves
<1>2. Typed'
  BY <1>1 DEF IInv, Typed
<1>3. Place(p)'
  BY <1>1 DEF Place
<1> QED
  BY <1>1, <1>2, <1>3, MyStep DEF IInv

\* ... and on the database alone.
LEMMA DatabaseStep ==
  ASSUME IInv, NEW p \in Sweepers, pc[p] # "idle", NEW step \in Steps, step # "idle",
         pc' = [pc EXCEPT ![p] = step],
         my' \in [Sweepers -> Locals], \A q \in Sweepers \ {p} : my'[q] = my[q],
         db' \in Database, Data',
         UNCHANGED <<ver, fs, intents, lease, faults, committed>>,
         InHand(step, my[p].run)', LeftOpen(step, my[p].run)',
         FilesAt(step, my[p].run)', HeldAt(step, my[p])'
  PROVE  IInv'
<1>1. /\ fs' \in Files /\ intents' \subseteq Claims
      /\ committed' \in [DOMAIN committed' -> Entry] /\ DOMAIN committed' \subseteq Runs
  BY DEF IInv, Typed
<1> QED
  BY <1>1, StoreStep

LEMMA MarkAbandonedStep == \A p \in Sweepers : IInv /\ MarkAbandoned(p) => IInv'
<1> SUFFICES ASSUME NEW p \in Sweepers, IInv, MarkAbandoned(p) PROVE IInv'
  OBVIOUS
<1> DEFINE r == my[p].run
           m == [my[p] EXCEPT !.run = 0]
<1>1. /\ pc[p] = "mark" /\ pc' = [pc EXCEPT ![p] = "recover"]
      /\ db' = [db EXCEPT !.run = [db.run EXCEPT ![r] = "failed"]]
      /\ my' = [my EXCEPT ![p] = m]
      /\ UNCHANGED <<ver, fs, intents, lease, faults, committed>>
  BY DEF MarkAbandoned, Go
<1>2. r \in Runs /\ Clean(r) /\ db.run[r] # "none"
  BY <1>1, AtWork DEF InHand
<1>3. m \in Locals /\ m.run = 0 /\ m.rest = my[p].rest
  BY AtWork DEF Locals
<1> HIDE DEF m
<1>4. /\ my' \in [Sweepers -> Locals] /\ my'[p] = m
      /\ \A q \in Sweepers \ {p} : my'[q] = my[q]
  BY <1>1, <1>3 DEF IInv, Typed
<1>5. db' \in Database /\ Data' /\ db'.outbox = db.outbox
  BY <1>1, <1>2, RunCloses
<1>6. InHand("recover", my[p].run)' /\ LeftOpen("recover", my[p].run)' /\ FilesAt("recover", my[p].run)'
  BY <1>3, <1>4 DEF InHand, LeftOpen, FilesAt, Publishes, Stages, Works, Closes
<1>7. HeldAt("recover", my[p])'
  BY <1>3, <1>4, <1>5, AtWork DEF HeldAt, Works
<1> QED
  BY <1>1, <1>4, <1>5, <1>6, <1>7, DatabaseStep DEF Steps

LEMMA FinishStep == \A p \in Sweepers : IInv /\ Finish(p) => IInv'
<1> SUFFICES ASSUME NEW p \in Sweepers, IInv, Finish(p) PROVE IInv'
  OBVIOUS
<1> DEFINE r == my[p].run
<1>1. /\ pc[p] = "finish" /\ pc' = [pc EXCEPT ![p] = "prune"]
      /\ db' = [db EXCEPT !.run = [db.run EXCEPT ![r] = "complete"]]
      /\ UNCHANGED <<ver, fs, intents, lease, my, faults, committed>>
  BY DEF Finish, Go
<1>2. r \in Runs /\ (r \in DOMAIN committed \/ Clean(r)) /\ db.run[r] # "none"
  BY <1>1, AtWork DEF InHand, Closes
<1>3. /\ db' \in Database /\ Data' /\ Pending' = Pending
      /\ db'.run = [db.run EXCEPT ![r] = "complete"] /\ db'.outbox = db.outbox
      /\ db'.cand = db.cand /\ db'.row = db.row /\ db'.ins = db.ins
  BY <1>1, <1>2, RunCloses
<1>4. \A q \in Runs : db'.run[q] = IF q = r THEN "complete" ELSE db.run[q]
  BY <1>3 DEF IInv, Typed, Database
<1>5. Clean(r)' \/ r \in DOMAIN committed
  BY <1>1, <1>2, <1>3 DEF Clean
<1>6. InHand("prune", my[p].run)'
  BY <1>1, <1>2, <1>4, <1>5 DEF InHand, Publishes, Stages, Works, Closes
<1>7. LeftOpen("prune", my[p].run)'
  BY <1>1, <1>3, <1>4, AtWork DEF LeftOpen, Publishes, Stages, Works, Closes
<1>8. FilesAt("prune", my[p].run)'
  BY DEF FilesAt, Publishes, Stages, Works
<1>9. HeldAt("prune", my[p])'
  BY <1>1, <1>3, AtWork DEF HeldAt, Works
<1> QED
  BY <1>1, <1>3, <1>6, <1>7, <1>8, <1>9, DatabaseStep DEF Steps, IInv, Typed

LEMMA FinishFailedStep == \A p \in Sweepers : IInv /\ FinishFailed(p) => IInv'
<1> SUFFICES ASSUME NEW p \in Sweepers, IInv, FinishFailed(p) PROVE IInv'
  OBVIOUS
<1> DEFINE r == my[p].run
<1>1. /\ pc[p] = "fail" /\ pc' = [pc EXCEPT ![p] = "release"]
      /\ db' = [db EXCEPT !.run = [db.run EXCEPT ![r] = "failed"]]
      /\ UNCHANGED <<ver, fs, intents, lease, my, faults, committed>>
  BY DEF FinishFailed, Go
<1>2. r \in Runs /\ (r \in DOMAIN committed \/ Clean(r)) /\ db.run[r] # "none"
  BY <1>1, AtWork DEF InHand, Closes
<1>3. db' \in Database /\ Data' /\ db'.outbox = db.outbox
  BY <1>1, <1>2, RunCloses
<1>4. InHand("release", my[p].run)' /\ LeftOpen("release", my[p].run)' /\ FilesAt("release", my[p].run)'
  BY DEF InHand, LeftOpen, FilesAt, Publishes, Stages, Works, Closes
<1>5. HeldAt("release", my[p])'
  BY <1>1, <1>3, AtWork DEF HeldAt, Works
<1> QED
  BY <1>1, <1>3, <1>4, <1>5, DatabaseStep DEF Steps, IInv, Typed

\* Rollback of a run leaves nothing of it, and nothing else changed.
LEMMA Undoes ==
  ASSUME IInv, NEW r \in Runs, db' = Undone(r), UNCHANGED <<fs, intents, committed>>
  PROVE  /\ db' \in Database /\ Data' /\ Clean(r)' /\ Pending' = Pending
         /\ db'.run = db.run /\ db'.source = db.source /\ db'.outbox = db.outbox
         /\ \A c \in Claims, k \in Keys :
               db'.row[c][k] = IF db.row[c][k] = r THEN 0 ELSE db.row[c][k]
<1> DEFINE rows == [c \in Claims |-> [k \in Keys |-> IF db.row[c][k] = r THEN 0 ELSE db.row[c][k]]]
           cands == [c \in Claims |-> IF db.cand[c].first = r THEN NoCand ELSE db.cand[c]]
           inss == [i \in Insights |-> IF db.ins[i] = r THEN 0 ELSE db.ins[i]]
<1>1. db' = [db EXCEPT !.row = rows, !.cand = cands, !.ins = inss]
  BY DEF Undone
<1>2. /\ rows \in [Claims -> [Keys -> 0..MaxRuns]] /\ cands \in [Claims -> Candidate]
      /\ inss \in [Insights -> 0..MaxRuns] /\ NoCand.first = 0
  <2>1. NoCand \in Candidate /\ NoCand.first = 0 /\ 0 \in 0..MaxRuns
    BY SweepAssumption DEF NoCand, Candidate
  <2> QED
    BY <2>1 DEF IInv, Typed, Database
<1>3. \A c \in Claims : \A k \in Keys : rows[c][k] = IF db.row[c][k] = r THEN 0 ELSE db.row[c][k]
  OBVIOUS
<1>4. /\ \A c \in Claims : cands[c] = IF db.cand[c].first = r THEN NoCand ELSE db.cand[c]
      /\ \A i \in Insights : inss[i] = IF db.ins[i] = r THEN 0 ELSE db.ins[i]
  OBVIOUS
<1> HIDE DEF rows, cands, inss
<1>5. /\ db' \in Database /\ db'.run = db.run /\ db'.source = db.source
      /\ db'.cand = cands /\ db'.row = rows /\ db'.ins = inss
      /\ db'.pub = db.pub /\ db'.reported = db.reported /\ db'.outbox = db.outbox
  BY <1>1, <1>2 DEF IInv, Typed, Database
<1>6. r # 0
  BY DEF Runs
<1>7. Clean(r)'
  BY <1>2, <1>3, <1>4, <1>5, <1>6 DEF Clean
<1>8. Pending' = Pending
  BY <1>5 DEF Pending
<1>9. InOrder' /\ Lives' /\ OnePending'
  BY <1>5, <1>8 DEF IInv, Data, InOrder, Lives, OnePending
<1>10. RowsOwned'
  BY <1>2, <1>3, <1>4, <1>5 DEF IInv, Data, RowsOwned, Owns
<1>11. ImportLast' /\ PublicationIsWhole'
  BY <1>5, <1>8 DEF IInv, Data, ImportLast, PublicationIsWhole
<1>12. ReinforcedOnce'
  BY <1>2, <1>4, <1>5 DEF IInv, Data, ReinforcedOnce
<1>13. CheckpointIsHonest' /\ OutboxIsHonest'
  BY <1>5 DEF IInv, Data, CheckpointIsHonest, OutboxIsHonest
<1> QED
  BY <1>3, <1>5, <1>7, <1>8, <1>9, <1>10, <1>11, <1>12, <1>13 DEF Data

LEMMA RollbackStep == \A p \in Sweepers : IInv /\ Rollback(p) => IInv'
<1> SUFFICES ASSUME NEW p \in Sweepers, IInv, Rollback(p) PROVE IInv'
  OBVIOUS
<1>1. PICK r \in Abandoned : db' = Undone(r) /\ my' = [my EXCEPT ![p].run = r]
  BY DEF Rollback
<1> DEFINE m == [my[p] EXCEPT !.run = r]
<1>2. /\ pc[p] = "recover" /\ pc' = [pc EXCEPT ![p] = "mark"]
      /\ my' = [my EXCEPT ![p] = m]
      /\ UNCHANGED <<ver, fs, intents, lease, faults, committed>>
  BY <1>1 DEF Rollback, Go
<1>3. r \in Runs /\ db.run[r] = "running"
  BY DEF Abandoned
<1>4. m \in Locals /\ m.run = r /\ m.rest = my[p].rest
  BY <1>3, AtWork DEF Locals, Runs
<1> HIDE DEF m
<1>5. /\ my' \in [Sweepers -> Locals] /\ my'[p] = m
      /\ \A q \in Sweepers \ {p} : my'[q] = my[q]
  BY <1>2, <1>4 DEF IInv, Typed
<1>6. db' \in Database /\ Data' /\ Clean(r)' /\ db'.run = db.run /\ db'.outbox = db.outbox
  BY <1>1, <1>2, <1>3, Undoes
<1>7. InHand("mark", my[p].run)'
  BY <1>3, <1>4, <1>5, <1>6 DEF InHand, Publishes, Stages, Works, Closes
<1>8. LeftOpen("mark", my[p].run)' /\ FilesAt("mark", my[p].run)'
  BY DEF LeftOpen, FilesAt, Publishes, Stages, Works, Closes
<1>9. HeldAt("mark", my[p])'
  BY <1>4, <1>5, <1>6, AtWork DEF HeldAt, Works
<1> QED
  BY <1>2, <1>5, <1>6, <1>7, <1>8, <1>9, DatabaseStep DEF Steps

LEMMA UndoRowsStep == \A p \in Sweepers : IInv /\ UndoRows(p) => IInv'
<1> SUFFICES ASSUME NEW p \in Sweepers, IInv, UndoRows(p) PROVE IInv'
  OBVIOUS
<1> DEFINE r == my[p].run
<1>1. /\ pc[p] = "undoRows" /\ pc' = [pc EXCEPT ![p] = "fail"] /\ db' = Undone(r)
      /\ UNCHANGED <<ver, fs, intents, lease, my, faults, committed>>
  BY DEF UndoRows, Go
<1>2. r \in Runs /\ db.run[r] # "none"
  BY <1>1, AtWork DEF InHand
<1>3. db' \in Database /\ Data' /\ Clean(r)' /\ db'.run = db.run /\ db'.outbox = db.outbox
  BY <1>1, <1>2, Undoes
<1>4. InHand("fail", my[p].run)'
  BY <1>1, <1>2, <1>3 DEF InHand, Publishes, Stages, Works, Closes, Clean
<1>5. LeftOpen("fail", my[p].run)' /\ FilesAt("fail", my[p].run)'
  BY DEF LeftOpen, FilesAt, Publishes, Stages, Works, Closes
<1>6. HeldAt("fail", my[p])'
  BY <1>1, <1>3, AtWork DEF HeldAt, Works
<1> QED
  BY <1>1, <1>3, <1>4, <1>5, <1>6, DatabaseStep DEF Steps, IInv, Typed

\* The next run is the first that is not used.
LEMMA BeginStep == \A p \in Sweepers : IInv /\ Begin(p) => IInv'
<1> SUFFICES ASSUME NEW p \in Sweepers, IInv, Begin(p) PROVE IInv'
  OBVIOUS
<1> DEFINE unused == {r \in Runs : db.run[r] = "none"}
           first == CHOOSE x \in unused : \A q \in unused : x <= q
<1>1. pc[p] = "begin" /\ UNCHANGED <<ver, fs, intents, lease, faults, committed>>
  BY DEF Begin
<1>2. my[p].run = 0
  BY <1>1, AtWork DEF InHand
<1>3. CASE unused = {}
  <2>1. pc' = [pc EXCEPT ![p] = "release"] /\ UNCHANGED <<db, my>>
    BY <1>3 DEF Begin
  <2>2. /\ pc' \in [Sweepers -> Steps] /\ pc'[p] = "release"
        /\ \A q \in Sweepers \ {p} : pc'[q] = pc[q]
    BY <2>1, Moves DEF Steps
  <2>3. Typed'
    BY <1>1, <2>1, <2>2 DEF IInv, Typed
  <2>4. InHand("release", 0) /\ LeftOpen("release", 0) /\ FilesAt("release", 0)
    BY DEF InHand, LeftOpen, FilesAt, Publishes, Stages, Works, Closes
  <2>5. HeldAt("release", my[p])
    BY AtWork DEF HeldAt, Works
  <2> QED
    BY <1>1, <1>2, <2>1, <2>2, <2>3, <2>4, <2>5, QuietStep
<1>4. CASE unused # {}
  <2>1. /\ pc' = [pc EXCEPT ![p] = "scan"]
        /\ db' = [db EXCEPT !.run = [db.run EXCEPT ![first] = "running"]]
        /\ my' = [my EXCEPT ![p] = [my[p] EXCEPT !.run = first]]
    BY <1>4 DEF Begin
  <2>2. PICK n \in 0..MaxRuns : \A q \in Runs : db.run[q] # "none" <=> q <= n
    BY DEF IInv, Data, InOrder
  <2>3. n + 1 \in unused /\ \A q \in unused : n + 1 <= q
    <3>1. PICK q \in unused : TRUE
      BY <1>4
    <3>2. n < q /\ q \in 1..MaxRuns /\ n \in Nat /\ MaxRuns \in Nat
      BY <2>2, SweepAssumption DEF Runs
    <3>3. n + 1 \in Runs
      BY <3>2 DEF Runs
    <3> QED
      BY <2>2, <3>2, <3>3 DEF Runs
  <2>4. first = n + 1
    <3>1. first \in unused /\ \A q \in unused : first <= q
      BY <2>3
    <3> QED
      BY <2>3, <3>1 DEF Runs
  <2>5. PICK r \in Runs : /\ r = n + 1 /\ r = first /\ db.run[r] = "none"
                         /\ \A q \in Runs : q > r => db.run[q] = "none"
    BY <2>2, <2>3, <2>4 DEF Runs
  <2> HIDE DEF first
  <2> DEFINE m == [my[p] EXCEPT !.run = r]
  <2>6. m \in Locals /\ m.run = r /\ m.rest = my[p].rest
    BY <2>5, AtWork DEF Locals, Runs
  <2> HIDE DEF m
  <2>7. /\ my' \in [Sweepers -> Locals] /\ my'[p] = m
        /\ \A q \in Sweepers \ {p} : my'[q] = my[q]
    BY <2>1, <2>5, <2>6 DEF IInv, Typed, m
  <2>8. /\ db' \in Database /\ db'.run = [db.run EXCEPT ![r] = "running"]
        /\ db'.source = db.source /\ db'.cand = db.cand /\ db'.row = db.row
        /\ db'.ins = db.ins /\ db'.pub = db.pub /\ db'.reported = db.reported
        /\ db'.outbox = db.outbox
    BY <2>1, <2>5 DEF IInv, Typed, Database
  <2>9. \A q \in Runs : db'.run[q] = IF q = r THEN "running" ELSE db.run[q]
    BY <2>8 DEF IInv, Typed, Database
  <2>10. Pending = {} /\ Pending' = {} /\ \A q \in Runs : db.run[q] # "running"
    BY <1>1, <1>2, <2>8, AtWork DEF LeftOpen, Pending, Runs
  <2>11. r \notin DOMAIN committed /\ ~ Owns(r)
    BY <2>5 DEF IInv, Data, Lives, Owns, Runs
  <2>12. InOrder'
    BY <2>2, <2>3, <2>4, <2>5, <2>9 DEF InOrder, Runs
  <2>13. Lives' /\ OnePending'
    BY <1>1, <2>8, <2>9, <2>10, <2>11 DEF IInv, Data, Lives, OnePending
  <2>14. \A v \in 0..MaxRuns : Owns(v) => Owns(v)'
    <3> SUFFICES ASSUME NEW v \in 0..MaxRuns, Owns(v) PROVE Owns(v)'
      OBVIOUS
    <3>1. v = 0 \/ v \in Runs
      BY DEF Runs
    <3> QED
      BY <1>1, <2>9, <3>1 DEF Owns
  <2>15. RowsOwned'
    <3>1. Owns(r)'
      BY <2>5, <2>9 DEF Owns
    <3> QED
      BY <2>8, <2>14, <3>1, RowsStayOwned DEF IInv, Data
  <2>16. ImportLast' /\ PublicationIsWhole'
    BY <1>1, <2>8, <2>10 DEF IInv, Data, ImportLast, PublicationIsWhole
  <2>17. ReinforcedOnce' /\ CheckpointIsHonest' /\ OutboxIsHonest'
    BY <1>1, <2>8 DEF IInv, Data, ReinforcedOnce, CheckpointIsHonest, OutboxIsHonest
  <2>18. Clean(r)'
    BY <2>8, <2>11 DEF IInv, Data, RowsOwned, Clean
  <2>19. InHand("scan", my[p].run)'
    BY <1>1, <2>5, <2>6, <2>7, <2>9, <2>11, <2>18 DEF InHand, Publishes, Stages, Works, Closes
  <2>20. LeftOpen("scan", my[p].run)'
    BY <2>6, <2>7, <2>9, <2>10 DEF LeftOpen, Publishes, Stages, Works, Closes
  <2>21. FilesAt("scan", my[p].run)'
    <3>1. \A f \in fs.staged : f[1] = 0 /\ f[1] \in Runs
      BY <1>1, <1>2, AtWork DEF FilesAt, IInv, Typed, Files
    <3> QED
      BY <1>1, <3>1 DEF FilesAt, Publishes, Stages, Works, Runs
  <2>22. HeldAt("scan", my[p])'
    BY <2>6, <2>7, <2>8, AtWork DEF HeldAt, Works
  <2>23. Data'
    BY <2>12, <2>13, <2>15, <2>16, <2>17 DEF Data
  <2> QED
    BY <1>1, <2>1, <2>7, <2>8, <2>19, <2>20, <2>21, <2>22, <2>23, DatabaseStep DEF Steps
<1> QED
  BY <1>3, <1>4

-----------------------------------------------------------------------------
(* Steps of the publication and of the outbox *)

LEMMA AcknowledgeStep == \A p \in Sweepers : IInv /\ Acknowledge(p) => IInv'
<1> SUFFICES ASSUME NEW p \in Sweepers, IInv, Acknowledge(p) PROVE IInv'
  OBVIOUS
<1>1. /\ pc[p] = "ack" /\ pc' = [pc EXCEPT ![p] = "report"]
      /\ UNCHANGED <<ver, fs, intents, lease, my, faults, committed>>
  BY DEF Acknowledge, Go
<1>2. Pending # {}
  BY <1>1, AtWork DEF LeftOpen, Publishes
<1>3. PICK r \in Runs : r = Oldest /\ Pending = {r} /\ r \in DOMAIN committed
  BY <1>2, TheOldest DEF IInv
<1> DEFINE dream == {d.cand : d \in {x \in db.pub[r].fp.decs : x.class = "dream"}}
           cands == [c \in Claims |-> IF c \in dream /\ db.cand[c].first # 0
                                      THEN [db.cand[c] EXCEPT !.state = "locally_published"]
                                      ELSE db.cand[c]]
           pubs == [db.pub EXCEPT ![r] = [db.pub[r] EXCEPT !.status = "published"]]
           runs == [db.run EXCEPT ![r] = "complete"]
<1>4. db' = [db EXCEPT !.pub = pubs, !.run = runs, !.cand = cands]
  BY <1>3 DEF Acknowledge, IInv, Typed, Database
<1>5. /\ pubs \in [Runs -> [status : {"none", "pending", "published"}, fp : Fingerprint]]
      /\ \A q \in Runs : pubs[q].fp = db.pub[q].fp
      /\ \A q \in Runs : pubs[q].status = IF q = r THEN "published" ELSE db.pub[q].status
  BY DEF IInv, Typed, Database
<1>6. /\ runs \in [Runs -> {"none", "running", "complete", "failed", "pruned"}]
      /\ \A q \in Runs : runs[q] = IF q = r THEN "complete" ELSE db.run[q]
  BY DEF IInv, Typed, Database
<1>7. /\ cands \in [Claims -> Candidate]
      /\ \A c \in Claims : cands[c].first = db.cand[c].first /\ cands[c].reinf = db.cand[c].reinf
  <2> HIDE DEF dream
  <2>1. ASSUME NEW c \in Claims
        PROVE  /\ cands[c] \in Candidate
               /\ cands[c].first = db.cand[c].first /\ cands[c].reinf = db.cand[c].reinf
    <3>1. db.cand[c] \in Candidate
      BY DEF IInv, Typed, Database
    <3>2. CASE c \in dream /\ db.cand[c].first # 0
      BY <3>1, <3>2 DEF Candidate
    <3>3. CASE ~ (c \in dream /\ db.cand[c].first # 0)
      BY <3>1, <3>3
    <3> QED
      BY <3>2, <3>3
  <2> QED
    BY <2>1
<1> HIDE DEF cands, pubs, runs
<1>8. /\ db' \in Database /\ db'.run = runs /\ db'.source = db.source /\ db'.cand = cands
      /\ db'.row = db.row /\ db'.ins = db.ins /\ db'.pub = pubs
      /\ db'.reported = db.reported /\ db'.outbox = db.outbox
  BY <1>4, <1>5, <1>6, <1>7 DEF IInv, Typed, Database
<1>9. Pending' = {}
  BY <1>3, <1>5, <1>8 DEF Pending
<1>10. db.run[r] # "none"
  BY <1>3 DEF IInv, Data, Lives
<1>11. InOrder' /\ Lives' /\ OnePending'
  BY <1>1, <1>3, <1>5, <1>6, <1>8, <1>9, <1>10 DEF IInv, Data, InOrder, Lives, OnePending
<1>12. RowsOwned'
  <2>1. \A v \in 0..MaxRuns : Owns(v) => Owns(v)'
    <3> SUFFICES ASSUME NEW v \in 0..MaxRuns, Owns(v) PROVE Owns(v)'
      OBVIOUS
    <3>1. v = 0 \/ v \in Runs
      BY DEF Runs
    <3> QED
      BY <1>1, <1>3, <1>6, <1>8, <3>1 DEF Owns
  <2>2. Owns(0)'
    BY DEF Owns
  <2> QED
    BY <1>7, <1>8, <2>1, <2>2, RowsStayOwned DEF IInv, Data
<1>13. ImportLast' /\ PublicationIsWhole'
  BY <1>1, <1>5, <1>8, <1>9 DEF IInv, Data, ImportLast, PublicationIsWhole
<1>14. ReinforcedOnce'
  BY <1>1, <1>7, <1>8 DEF IInv, Data, ReinforcedOnce
<1>15. CheckpointIsHonest' /\ OutboxIsHonest'
  BY <1>1, <1>8 DEF IInv, Data, CheckpointIsHonest, OutboxIsHonest
<1>16. Data'
  BY <1>11, <1>12, <1>13, <1>14, <1>15 DEF Data
<1>17. InHand("report", my[p].run)'
  BY <1>1, AtWork DEF InHand, Publishes, Stages, Works, Closes
<1>18. LeftOpen("report", my[p].run)'
  <2>1. \A q \in Runs : db.run[q] = "running" => q = r
    BY <1>1, <1>3, AtWork DEF LeftOpen, Publishes
  <2> QED
    BY <1>6, <1>8, <2>1 DEF LeftOpen, Publishes, Stages, Works, Closes
<1>19. FilesAt("report", my[p].run)'
  <2>1. fs.staged = {}
    <3>1. ASSUME NEW f \in fs.staged PROVE FALSE
      <4>1. f[1] = r
        BY <1>1, <1>3, AtWork DEF FilesAt, Publishes
      <4>2. f \in Runs \X Kinds
        BY DEF IInv, Typed, Files
      <4>3. f = <<r, "report">> \/ f = <<r, "import">>
        BY <4>1, <4>2 DEF Kinds
      <4> QED
        BY <1>1, <1>3, <4>3, AtWork DEF FilesAt
    <3> QED
      BY <3>1
  <2> QED
    BY <1>1, <2>1 DEF FilesAt, Publishes, Stages, Works
<1>20. HeldAt("report", my[p])'
  BY <1>1, <1>8, AtWork DEF HeldAt, Works
<1> QED
  BY <1>1, <1>8, <1>16, <1>17, <1>18, <1>19, <1>20, DatabaseStep DEF Steps, IInv, Typed

LEMMA CaptureIntentStep == \A p \in Sweepers : IInv /\ CaptureIntent(p) => IInv'
<1> SUFFICES ASSUME NEW p \in Sweepers, IInv, CaptureIntent(p) PROVE IInv'
  OBVIOUS
<1>1. PICK c \in my[p].rest :
         /\ intents' = intents \cup {c}
         /\ my' = [my EXCEPT ![p] = [my[p] EXCEPT !.at = c, !.rest = my[p].rest \ {c}]]
  BY DEF CaptureIntent, IInv, Typed
<1> DEFINE m == [my[p] EXCEPT !.at = c, !.rest = my[p].rest \ {c}]
<1>2. /\ pc[p] = "stage" /\ pc' = [pc EXCEPT ![p] = "staged"]
      /\ my' = [my EXCEPT ![p] = m]
      /\ UNCHANGED <<ver, db, fs, lease, faults, committed>>
  BY <1>1 DEF CaptureIntent, Go
<1>3. c \in Claims /\ db.outbox[c] # "none"
  BY AtWork DEF HeldAt
<1>4. m \in Locals /\ m.run = my[p].run /\ m.rest \subseteq my[p].rest /\ m.at = c
  BY <1>3, AtWork DEF Locals
<1> HIDE DEF m
<1>5. /\ my' \in [Sweepers -> Locals] /\ my'[p] = m
      /\ \A q \in Sweepers \ {p} : my'[q] = my[q]
  BY <1>2, <1>4 DEF IInv, Typed
<1>6. intents' \subseteq Claims /\ db' \in Database /\ fs' \in Files
  BY <1>1, <1>2, <1>3 DEF IInv, Typed
<1>7. Data'
  <2>1. InOrder' /\ Lives' /\ OnePending' /\ RowsOwned' /\ ImportLast' /\ PublicationIsWhole'
    BY <1>2 DEF IInv, Data, InOrder, Lives, OnePending, Pending, RowsOwned, Owns, ImportLast,
                PublicationIsWhole
  <2>2. ReinforcedOnce' /\ CheckpointIsHonest'
    BY <1>2 DEF IInv, Data, ReinforcedOnce, CheckpointIsHonest
  <2>3. OutboxIsHonest'
    BY <1>1, <1>2, <1>3 DEF IInv, Data, OutboxIsHonest
  <2> QED
    BY <2>1, <2>2, <2>3 DEF Data
<1>8. InHand("staged", my[p].run)'
  BY <1>2, <1>4, <1>5, AtWork DEF InHand, Publishes, Stages, Works, Closes
<1>9. LeftOpen("staged", my[p].run)'
  BY <1>2, <1>4, <1>5, AtWork DEF LeftOpen, Publishes, Stages, Works, Closes, Pending
<1>10. FilesAt("staged", my[p].run)'
  BY <1>2, <1>4, <1>5, AtWork DEF FilesAt, Publishes, Stages, Works
<1>11. HeldAt("staged", my[p])'
  BY <1>1, <1>2, <1>4, <1>5, AtWork DEF HeldAt, Works
<1>12. committed' \in [DOMAIN committed' -> Entry] /\ DOMAIN committed' \subseteq Runs
  BY <1>2 DEF IInv, Typed
<1> QED
  BY <1>2, <1>5, <1>6, <1>7, <1>8, <1>9, <1>10, <1>11, <1>12, StoreStep DEF Steps

LEMMA MarkStagedStep == \A p \in Sweepers : IInv /\ MarkStaged(p) => IInv'
<1> SUFFICES ASSUME NEW p \in Sweepers, IInv, MarkStaged(p) PROVE IInv'
  OBVIOUS
<1>1. PICK c : c = my[p].at
  OBVIOUS
<1> DEFINE marks == [db.outbox EXCEPT ![c] = "staged"]
<1>2. /\ pc[p] = "staged" /\ pc' = [pc EXCEPT ![p] = "stage"]
      /\ db' = [db EXCEPT !.outbox = marks]
      /\ UNCHANGED <<ver, fs, intents, lease, my, faults, committed>>
  BY <1>1 DEF MarkStaged, Go
<1>3. c \in intents /\ c \in Claims /\ db.outbox[c] # "none"
  BY <1>1, <1>2, AtWork DEF HeldAt, IInv, Typed, Data, OutboxIsHonest
<1>4. /\ marks \in [Claims -> {"none", "pending", "staged"}]
      /\ \A d \in Claims : marks[d] = IF d = c THEN "staged" ELSE db.outbox[d]
  BY <1>3 DEF IInv, Typed, Database
<1> HIDE DEF marks
<1>5. /\ db' \in Database /\ db'.run = db.run /\ db'.source = db.source /\ db'.cand = db.cand
      /\ db'.row = db.row /\ db'.ins = db.ins /\ db'.pub = db.pub
      /\ db'.reported = db.reported /\ db'.outbox = marks
  BY <1>2, <1>4 DEF IInv, Typed, Database
<1>6. Data'
  <2>1. InOrder' /\ Lives' /\ OnePending' /\ RowsOwned' /\ ImportLast' /\ PublicationIsWhole'
    BY <1>2, <1>5 DEF IInv, Data, InOrder, Lives, OnePending, Pending, RowsOwned, Owns, ImportLast,
                      PublicationIsWhole
  <2>2. ReinforcedOnce' /\ CheckpointIsHonest'
    BY <1>2, <1>5 DEF IInv, Data, ReinforcedOnce, CheckpointIsHonest
  <2>3. OutboxIsHonest'
    BY <1>2, <1>3, <1>4, <1>5 DEF IInv, Data, OutboxIsHonest
  <2> QED
    BY <2>1, <2>2, <2>3 DEF Data
<1>7. InHand("stage", my[p].run)'
  BY <1>2, AtWork DEF InHand, Publishes, Stages, Works, Closes
<1>8. LeftOpen("stage", my[p].run)'
  BY <1>2, <1>5, AtWork DEF LeftOpen, Publishes, Stages, Works, Closes, Pending
<1>9. FilesAt("stage", my[p].run)'
  BY <1>2, AtWork DEF FilesAt, Publishes, Stages, Works
<1>10. HeldAt("stage", my[p])'
  BY <1>2, <1>4, <1>5, AtWork DEF HeldAt, Works
<1> QED
  BY <1>2, <1>5, <1>6, <1>7, <1>8, <1>9, <1>10, DatabaseStep DEF Steps, IInv, Typed

-----------------------------------------------------------------------------
(* Steps of a run *)

LEMMA ScanStep == \A p \in Sweepers : IInv /\ Scan(p) => IInv'
<1> SUFFICES ASSUME NEW p \in Sweepers, IInv, Scan(p) PROVE IInv'
  OBVIOUS
<1>1. pc[p] = "scan" /\ UNCHANGED <<ver, fs, intents, lease, faults, committed>>
  BY DEF Scan
<1>2. CASE Eligible = {}
  <2>1. pc' = [pc EXCEPT ![p] = "finish"] /\ UNCHANGED <<db, my>>
    BY <1>2 DEF Scan
  <2>2. /\ pc' \in [Sweepers -> Steps] /\ pc'[p] = "finish"
        /\ \A q \in Sweepers \ {p} : pc'[q] = pc[q]
    BY <2>1, Moves DEF Steps
  <2>3. Typed'
    BY <1>1, <2>1, <2>2 DEF IInv, Typed
  <2>4. InHand("finish", my[p].run) /\ LeftOpen("finish", my[p].run)
    BY <1>1, AtWork DEF InHand, LeftOpen, Publishes, Stages, Works, Closes
  <2>5. FilesAt("finish", my[p].run) /\ HeldAt("finish", my[p])
    BY <1>1, AtWork DEF FilesAt, HeldAt, Publishes, Stages, Works
  <2> QED
    BY <1>1, <2>1, <2>2, <2>3, <2>4, <2>5, QuietStep
<1>3. CASE Eligible # {}
  <2> DEFINE sources == [s \in Sources |->
                           IF s \in Eligible
                           THEN [status |-> IF db.source[s].fp = ver[s] THEN db.source[s].status
                                            ELSE "pending",
                                 fp |-> ver[s]]
                           ELSE db.source[s]]
  <2>1. /\ pc' = [pc EXCEPT ![p] = "light"]
        /\ db' = [db EXCEPT !.source = sources]
    BY <1>3 DEF Scan
  <2>2. PICK batch \in SUBSET Eligible :
           my' = [my EXCEPT ![p] = [my[p] EXCEPT !.read =
                     [s \in Sources |-> IF s \in batch THEN ver[s] ELSE 0]]]
    BY <1>3 DEF Scan, IInv, Typed
  <2> DEFINE read == [s \in Sources |-> IF s \in batch THEN ver[s] ELSE 0]
             m == [my[p] EXCEPT !.read = read]
  <2>3. Eligible \subseteq Sources /\ \A s \in Sources : ver[s] \in 0..MaxVer
    BY DEF Eligible, IInv, Typed
  <2>4. read \in [Sources -> 0..MaxVer] /\ \A s \in Sources : read[s] # 0 => s \in Eligible /\ read[s] = ver[s]
    BY <2>3, SweepAssumption
  <2>5. /\ sources \in [Sources -> [status : {"new", "pending", "complete"}, fp : 0..MaxVer]]
        /\ \A s \in Eligible : sources[s].fp = ver[s] /\ sources[s].status # "complete"
        /\ \A s \in Sources \ Eligible : sources[s] = db.source[s]
    <3>1. ASSUME NEW s \in Eligible
          PROVE  /\ sources[s].fp = ver[s] /\ sources[s].status # "complete"
                 /\ sources[s] \in [status : {"new", "pending", "complete"}, fp : 0..MaxVer]
      <4>1. /\ db.source[s] \in [status : {"new", "pending", "complete"}, fp : 0..MaxVer]
            /\ s \in Sources /\ ver[s] \in 0..MaxVer
        BY <2>3 DEF IInv, Typed, Database
      <4>2. sources[s] = [status |-> IF db.source[s].fp = ver[s] THEN db.source[s].status ELSE "pending",
                          fp |-> ver[s]]
        BY <4>1
      <4> QED
        BY <4>1, <4>2 DEF Eligible
    <3>2. ASSUME NEW s \in Sources \ Eligible PROVE sources[s] = db.source[s]
      OBVIOUS
    <3>3. \A s \in Sources : sources[s] \in [status : {"new", "pending", "complete"}, fp : 0..MaxVer]
      BY <3>1, <3>2 DEF IInv, Typed, Database
    <3> QED
      BY <3>1, <3>2, <3>3
  <2> HIDE DEF read, sources
  <2>6. m \in Locals /\ m.run = my[p].run /\ m.rest = my[p].rest /\ m.read = read
    BY <2>4, AtWork DEF Locals
  <2>7. my' = [my EXCEPT ![p] = m]
    BY <2>2 DEF read
  <2> HIDE DEF m
  <2>8. /\ my' \in [Sweepers -> Locals] /\ my'[p] = m
        /\ \A q \in Sweepers \ {p} : my'[q] = my[q]
    BY <2>6, <2>7 DEF IInv, Typed
  <2>9. /\ db' \in Database /\ db'.run = db.run /\ db'.source = sources /\ db'.cand = db.cand
        /\ db'.row = db.row /\ db'.ins = db.ins /\ db'.pub = db.pub
        /\ db'.reported = db.reported /\ db'.outbox = db.outbox
    BY <2>1, <2>5 DEF IInv, Typed, Database
  <2>10. Data'
    <3>1. InOrder' /\ Lives' /\ OnePending' /\ RowsOwned' /\ ImportLast' /\ PublicationIsWhole'
      BY <1>1, <2>9 DEF IInv, Data, InOrder, Lives, OnePending, Pending, RowsOwned, Owns, ImportLast,
                        PublicationIsWhole
    <3>2. ReinforcedOnce' /\ OutboxIsHonest'
      BY <1>1, <2>9 DEF IInv, Data, ReinforcedOnce, OutboxIsHonest
    <3>3. CheckpointIsHonest'
      BY <1>1, <2>3, <2>5, <2>9 DEF IInv, Data, CheckpointIsHonest
    <3> QED
      BY <3>1, <3>2, <3>3 DEF Data
  <2>11. InHand("light", my[p].run)'
    BY <1>1, <2>6, <2>8, <2>9, AtWork DEF InHand, Publishes, Stages, Works, Closes
  <2>12. LeftOpen("light", my[p].run)'
    BY <1>1, <2>6, <2>8, <2>9, AtWork DEF LeftOpen, Publishes, Stages, Works, Closes, Pending
  <2>13. FilesAt("light", my[p].run)'
    BY <1>1, <2>6, <2>8, AtWork DEF FilesAt, Publishes, Stages, Works
  <2>14. HeldAt("light", my[p])'
    BY <1>1, <2>4, <2>5, <2>6, <2>8, <2>9, AtWork DEF HeldAt, Works
  <2> QED
    BY <1>1, <2>1, <2>8, <2>9, <2>10, <2>11, <2>12, <2>13, <2>14, DatabaseStep DEF Steps
<1> QED
  BY <1>2, <1>3

\* A run that works has no committed run after it.
LEMMA Newest ==
  ASSUME IInv, NEW p \in Sweepers, pc[p] \in Works
  PROVE  /\ my[p].run \in Runs /\ my[p].run \notin DOMAIN committed
         /\ \A q \in DOMAIN committed : q < my[p].run
         /\ \A c \in Claims : db.cand[c].first <= my[p].run
<1>1. /\ my[p].run \in Runs \ DOMAIN committed /\ db.run[my[p].run] = "running"
      /\ \A q \in Runs : q > my[p].run => db.run[q] = "none"
  BY AtWork DEF InHand
<1>2. \A q \in DOMAIN committed : q \in Runs /\ db.run[q] # "none"
  BY DEF IInv, Typed, Data, Lives
<1>3. \A q \in DOMAIN committed : q < my[p].run
  BY <1>1, <1>2 DEF Runs
<1>4. ASSUME NEW c \in Claims PROVE db.cand[c].first <= my[p].run
  <2>1. db.cand[c].first \in 0..MaxRuns /\ Owns(db.cand[c].first)
    BY DEF IInv, Typed, Database, Candidate, Data, RowsOwned
  <2>2. CASE db.cand[c].first = 0
    BY <1>1, <2>2 DEF Runs
  <2>3. CASE db.cand[c].first # 0
    <3>1. db.cand[c].first \in Runs
      BY <2>1, <2>3 DEF Runs
    <3>2. db.run[db.cand[c].first] # "none"
      BY <1>2, <2>1, <2>3 DEF Owns
    <3> QED
      BY <1>1, <3>1, <3>2 DEF Runs
  <2> QED
    BY <2>2, <2>3
<1> QED
  BY <1>1, <1>3, <1>4

LEMMA LightStep == \A p \in Sweepers : IInv /\ Light(p) => IInv'
<1> SUFFICES ASSUME NEW p \in Sweepers, IInv, Light(p) PROVE IInv'
  OBVIOUS
<1>1. /\ pc[p] = "light" /\ pc' = [pc EXCEPT ![p] = "rem"]
      /\ UNCHANGED <<ver, fs, intents, lease, faults, committed>>
  BY DEF Light, Go
<1>2. PICK r \in Runs : /\ r = my[p].run /\ db.run[r] = "running" /\ r \notin DOMAIN committed
                        /\ \A q \in DOMAIN committed : q < r
  BY <1>1, AtWork, Newest DEF InHand, Works
<1> DEFINE catalog == {k \in Refs : k[2] <= my[p].read[k[1]]}
<1>3. PICK cites \in [Claims -> SUBSET catalog], word \in [Claims -> Wordings] :
         LET cited == {c \in Claims : cites[c] # {}} IN
         /\ db' = [db EXCEPT
                     !.cand = [c \in Claims |->
                                 IF c \in cited /\ @[c].first = 0
                                 THEN [NoCand EXCEPT !.first = my[p].run, !.last = my[p].run,
                                                     !.reinf = 1]
                                 ELSE @[c]],
                     !.row = [c \in Claims |-> [k \in Keys |->
                                IF c \in cited /\ @[c][k] = 0
                                   /\ k \in cites[c] \cup {word[c]}
                                THEN my[p].run ELSE @[c][k]]]]
         /\ my' = [my EXCEPT ![p].cited = cited]
  BY DEF Light
<1> DEFINE cited == {c \in Claims : cites[c] # {}}
           cands == [c \in Claims |-> IF c \in cited /\ db.cand[c].first = 0
                                      THEN [NoCand EXCEPT !.first = my[p].run, !.last = my[p].run,
                                                          !.reinf = 1]
                                      ELSE db.cand[c]]
           rows == [c \in Claims |-> [k \in Keys |->
                      IF c \in cited /\ db.row[c][k] = 0 /\ k \in cites[c] \cup {word[c]}
                      THEN my[p].run ELSE db.row[c][k]]]
           m == [my[p] EXCEPT !.cited = cited]
<1>4. db' = [db EXCEPT !.cand = cands, !.row = rows] /\ my' = [my EXCEPT ![p] = m]
  BY <1>3
<1>5. cited \subseteq Claims
  OBVIOUS
<1> HIDE DEF cited
<1>6. /\ cands \in [Claims -> Candidate]
      /\ \A c \in Claims : cands[c] = db.cand[c] \/ (cands[c].first = r /\ cands[c].reinf = 1)
  <2>1. ASSUME NEW c \in Claims
        PROVE  /\ cands[c] \in Candidate
               /\ cands[c] = db.cand[c] \/ (cands[c].first = r /\ cands[c].reinf = 1)
    <3>1. db.cand[c] \in Candidate
      BY DEF IInv, Typed, Database
    <3>2. CASE c \in cited /\ db.cand[c].first = 0
      <4>1. cands[c] = [NoCand EXCEPT !.first = r, !.last = r, !.reinf = 1]
        BY <1>2, <3>2
      <4>2. r \in 0..MaxRuns /\ 1 \in Nat
        BY <1>2 DEF Runs
      <4> QED
        BY <4>1, <4>2 DEF Candidate, NoCand
    <3>3. CASE ~ (c \in cited /\ db.cand[c].first = 0)
      BY <3>1, <3>3
    <3> QED
      BY <3>2, <3>3
  <2> QED
    BY <2>1
<1>7. /\ rows \in [Claims -> [Keys -> 0..MaxRuns]]
      /\ \A c \in Claims, k \in Keys : rows[c][k] \in {0, r, db.row[c][k]}
  <2>1. r \in 0..MaxRuns
    BY <1>2 DEF Runs
  <2>2. ASSUME NEW c \in Claims, NEW k \in Keys
        PROVE  rows[c][k] \in {0, r, db.row[c][k]} /\ rows[c][k] \in 0..MaxRuns
    BY <1>2, <2>1 DEF IInv, Typed, Database
  <2> QED
    BY <2>2
<1> HIDE DEF cands, rows
<1>8. m \in Locals /\ m.run = r /\ m.rest = my[p].rest /\ m.read = my[p].read
  BY <1>2, <1>5, AtWork DEF Locals
<1> HIDE DEF m
<1>9. /\ my' \in [Sweepers -> Locals] /\ my'[p] = m
      /\ \A q \in Sweepers \ {p} : my'[q] = my[q]
  BY <1>4, <1>8 DEF IInv, Typed
<1>10. /\ db' \in Database /\ db'.run = db.run /\ db'.source = db.source /\ db'.cand = cands
       /\ db'.row = rows /\ db'.ins = db.ins /\ db'.pub = db.pub
       /\ db'.reported = db.reported /\ db'.outbox = db.outbox
  BY <1>4, <1>6, <1>7 DEF IInv, Typed, Database
<1>11. RowsOwned'
  <2>1. Owns(r)'
    BY <1>2, <1>10 DEF Owns
  <2>2. \A v \in 0..MaxRuns : Owns(v) => Owns(v)'
    BY <1>1, <1>10 DEF Owns
  <2> QED
    BY <1>6, <1>7, <1>10, <2>1, <2>2, RowsStayOwned DEF IInv, Data
<1>12. ReinforcedOnce'
  <2> SUFFICES ASSUME NEW c \in Claims, cands[c].first # 0
               PROVE  cands[c].reinf = 1 + Cardinality({q \in DOMAIN committed :
                                             q > cands[c].first /\ c \in committed[q].touched})
    BY <1>1, <1>10 DEF ReinforcedOnce
  <2>1. CASE cands[c] = db.cand[c]
    BY <2>1 DEF IInv, Data, ReinforcedOnce
  <2>2. CASE cands[c].first = r /\ cands[c].reinf = 1
    <3> DEFINE later == {q \in DOMAIN committed : q > cands[c].first /\ c \in committed[q].touched}
    <3>1. later = {}
      <4>1. \A q \in DOMAIN committed : q < r /\ q \in Nat /\ r \in Nat
        BY <1>2 DEF IInv, Typed, Runs
      <4>2. \A q \in DOMAIN committed : ~ q > cands[c].first
        BY <2>2, <4>1
      <4> QED
        BY <4>2
    <3>2. Cardinality(later) = 0
      BY <3>1, FS_EmptySet
    <3> HIDE DEF later
    <3>3. cands[c].reinf = 1 + Cardinality(later)
      BY <2>2, <3>2
    <3> QED
      BY <3>3 DEF later
  <2> QED
    BY <1>6, <2>1, <2>2
<1>13. Data'
  <2>1. InOrder' /\ Lives' /\ OnePending' /\ ImportLast' /\ PublicationIsWhole'
    BY <1>1, <1>10 DEF IInv, Data, InOrder, Lives, OnePending, Pending, ImportLast, PublicationIsWhole
  <2>2. CheckpointIsHonest' /\ OutboxIsHonest'
    BY <1>1, <1>10 DEF IInv, Data, CheckpointIsHonest, OutboxIsHonest
  <2> QED
    BY <1>11, <1>12, <2>1, <2>2 DEF Data
<1>14. InHand("rem", my[p].run)'
  BY <1>1, <1>2, <1>8, <1>9, <1>10, AtWork DEF InHand, Publishes, Stages, Works, Closes
<1>15. LeftOpen("rem", my[p].run)'
  BY <1>1, <1>2, <1>8, <1>9, <1>10, AtWork DEF LeftOpen, Publishes, Stages, Works, Closes, Pending
<1>16. FilesAt("rem", my[p].run)'
  BY <1>1, <1>2, <1>8, <1>9, AtWork DEF FilesAt, Publishes, Stages, Works
<1>17. HeldAt("rem", my[p])'
  BY <1>1, <1>8, <1>9, <1>10, AtWork DEF HeldAt, Works
<1> QED
  BY <1>1, <1>9, <1>10, <1>13, <1>14, <1>15, <1>16, <1>17, DatabaseStep DEF Steps

LEMMA RemDeepStep == \A p \in Sweepers : IInv /\ RemDeep(p) => IInv'
<1> SUFFICES ASSUME NEW p \in Sweepers, IInv, RemDeep(p) PROVE IInv'
  OBVIOUS
<1>1. /\ pc[p] = "rem" /\ pc' = [pc EXCEPT ![p] = "artifacts"]
      /\ UNCHANGED <<ver, fs, intents, lease, faults, committed>>
  BY DEF RemDeep, Go
<1>2. PICK r \in Runs : r = my[p].run /\ db.run[r] = "running"
  BY <1>1, AtWork DEF InHand, Works
<1>3. PICK found \in SUBSET Insights, class \in [my[p].cited -> Classes],
           score \in [my[p].cited -> Scores] :
         /\ db' = [db EXCEPT !.ins = [i \in Insights |->
                     IF i \in found /\ @[i] = 0 THEN my[p].run ELSE @[i]]]
         /\ my' = [my EXCEPT
                     ![p].ins = found,
                     ![p].decs =
                       {[cand |-> c, class |-> class[c], score |-> score[c],
                         refs |-> {k \in Refs : db.row[c][k] # 0}] : c \in my[p].cited}]
  BY DEF RemDeep
<1> DEFINE inss == [i \in Insights |-> IF i \in found /\ db.ins[i] = 0 THEN my[p].run ELSE db.ins[i]]
           decs == {[cand |-> c, class |-> class[c], score |-> score[c],
                     refs |-> {k \in Refs : db.row[c][k] # 0}] : c \in my[p].cited}
           m == [my[p] EXCEPT !.ins = found, !.decs = decs]
<1>4. db' = [db EXCEPT !.ins = inss] /\ my' = [my EXCEPT ![p] = m]
  BY <1>3
<1>5. decs \subseteq Decision
  <2>1. my[p].cited \subseteq Claims
    BY AtWork DEF Locals
  <2> QED
    BY <2>1 DEF Decision
<1>6. /\ inss \in [Insights -> 0..MaxRuns]
      /\ \A i \in Insights : inss[i] \in {0, r, db.ins[i]}
  BY <1>2 DEF IInv, Typed, Database, Runs
<1> HIDE DEF decs, inss
<1>7. m \in Locals /\ m.run = r /\ m.rest = my[p].rest /\ m.read = my[p].read
  BY <1>2, <1>5, AtWork DEF Locals
<1> HIDE DEF m
<1>8. /\ my' \in [Sweepers -> Locals] /\ my'[p] = m
      /\ \A q \in Sweepers \ {p} : my'[q] = my[q]
  BY <1>4, <1>7 DEF IInv, Typed
<1>9. /\ db' \in Database /\ db'.run = db.run /\ db'.source = db.source /\ db'.cand = db.cand
      /\ db'.row = db.row /\ db'.ins = inss /\ db'.pub = db.pub
      /\ db'.reported = db.reported /\ db'.outbox = db.outbox
  BY <1>4, <1>6 DEF IInv, Typed, Database
<1>10. RowsOwned'
  <2>1. Owns(r)'
    BY <1>2, <1>9 DEF Owns
  <2>2. \A v \in 0..MaxRuns : Owns(v) => Owns(v)'
    BY <1>1, <1>9 DEF Owns
  <2> QED
    BY <1>6, <1>9, <2>1, <2>2, RowsStayOwned DEF IInv, Data
<1>11. Data'
  <2>1. InOrder' /\ Lives' /\ OnePending' /\ ImportLast' /\ PublicationIsWhole'
    BY <1>1, <1>9 DEF IInv, Data, InOrder, Lives, OnePending, Pending, ImportLast, PublicationIsWhole
  <2>2. ReinforcedOnce' /\ CheckpointIsHonest' /\ OutboxIsHonest'
    BY <1>1, <1>9 DEF IInv, Data, ReinforcedOnce, CheckpointIsHonest, OutboxIsHonest
  <2> QED
    BY <1>10, <2>1, <2>2 DEF Data
<1>12. InHand("artifacts", my[p].run)'
  BY <1>1, <1>2, <1>7, <1>8, <1>9, AtWork DEF InHand, Publishes, Stages, Works, Closes
<1>13. LeftOpen("artifacts", my[p].run)'
  BY <1>1, <1>2, <1>7, <1>8, <1>9, AtWork DEF LeftOpen, Publishes, Stages, Works, Closes, Pending
<1>14. FilesAt("artifacts", my[p].run)'
  BY <1>1, <1>2, <1>7, <1>8, AtWork DEF FilesAt, Publishes, Stages, Works
<1>15. HeldAt("artifacts", my[p])'
  BY <1>1, <1>7, <1>8, <1>9, AtWork DEF HeldAt, Works
<1> QED
  BY <1>1, <1>8, <1>9, <1>11, <1>12, <1>13, <1>14, <1>15, DatabaseStep DEF Steps

-----------------------------------------------------------------------------
(* The two commits *)

LEMMA DecidedCandidates ==
  ASSUME NEW cands \in [Claims -> Candidate], NEW decs \in SUBSET Decision,
         NEW publish \in BOOLEAN, NEW new, new = Decided(cands, decs, publish)
  PROVE  /\ new \in [Claims -> Candidate]
         /\ \A c \in Claims : new[c].first = cands[c].first /\ new[c].reinf = cands[c].reinf
<1>1. ASSUME NEW c \in Claims
      PROVE  new[c] \in Candidate /\ new[c].first = cands[c].first /\ new[c].reinf = cands[c].reinf
  <2>1. CASE \E d \in decs : d.cand = c
    <3> DEFINE d == CHOOSE x \in decs : x.cand = c
               state == IF ~ publish THEN cands[c].state
                        ELSE IF d.class = "dream" THEN "outbox_pending" ELSE "not_requested"
    <3>1. new[c] = [cands[c] EXCEPT !.class = d.class, !.state = state]
      BY <2>1 DEF Decided
    <3>2. d \in Decision
      BY <2>1
    <3>3. cands[c] \in Candidate
      OBVIOUS
    <3>4. d.class \in Classes
      BY <3>2 DEF Decision
    <3>5. state \in {"not_requested", "outbox_pending", "locally_published"}
      BY <3>3 DEF Candidate
    <3> HIDE DEF d, state
    <3> QED
      BY <3>1, <3>3, <3>4, <3>5 DEF Candidate
  <2>2. CASE ~ \E d \in decs : d.cand = c
    BY <2>2 DEF Decided
  <2> QED
    BY <2>1, <2>2
<1>2. new = [c \in Claims |-> new[c]]
  BY DEF Decided
<1> QED
  BY <1>1, <1>2

LEMMA ReinforcedCandidates ==
  ASSUME Typed, NEW r \in Runs, NEW new, new = Reinforced(r)
  PROVE  /\ new \in [Claims -> Candidate]
         /\ \A c \in Claims :
              /\ new[c].first = db.cand[c].first
              /\ new[c].reinf = IF c \in Touched(r) THEN db.cand[c].reinf + 1 ELSE db.cand[c].reinf
<1>1. ASSUME NEW c \in Claims
      PROVE  /\ new[c] \in Candidate /\ new[c].first = db.cand[c].first
             /\ new[c].reinf = IF c \in Touched(r) THEN db.cand[c].reinf + 1 ELSE db.cand[c].reinf
  <2>1. db.cand[c] \in Candidate /\ r \in 0..MaxRuns
    BY DEF Typed, Database, Runs
  <2>2. new[c] = IF c \in Touched(r)
                 THEN [db.cand[c] EXCEPT !.reinf = db.cand[c].reinf + 1, !.last = r]
                 ELSE db.cand[c]
    BY DEF Reinforced
  <2>3. CASE c \in Touched(r)
    <3> DEFINE more == db.cand[c].reinf + 1
    <3>1. new[c] = [db.cand[c] EXCEPT !.reinf = more, !.last = r]
      BY <2>2, <2>3
    <3>2. more \in Nat
      BY <2>1 DEF Candidate
    <3>3. new[c].reinf = more
      BY <2>1, <3>1 DEF Candidate
    <3>4. more = db.cand[c].reinf + 1
      OBVIOUS
    <3> HIDE DEF more
    <3>5. new[c] \in Candidate /\ new[c].first = db.cand[c].first
      BY <2>1, <3>1, <3>2 DEF Candidate
    <3> QED
      BY <2>3, <3>3, <3>4, <3>5
  <2>4. CASE c \notin Touched(r)
    BY <2>1, <2>2, <2>4
  <2> QED
    BY <2>3, <2>4
<1>2. new = [c \in Claims |-> new[c]]
  BY DEF Reinforced
<1> QED
  BY <1>1, <1>2

Acts(p) == {d.cand : d \in {x \in my[p].decs : x.class = "act"}}

\* What both commits do to the rows of the database.
LEMMA CommittedRows ==
  ASSUME IInv, NEW p \in Sweepers, NEW r \in Runs, r = my[p].run, NEW publish \in BOOLEAN,
         NEW new, new = Committed(r, p, publish)
  PROVE  /\ new \in Database /\ new.run = db.run /\ new.row = db.row
         /\ new.pub = db.pub /\ new.reported = db.reported
         /\ \A c \in Claims :
              /\ new.cand[c].first = db.cand[c].first
              /\ new.cand[c].reinf = IF c \in Touched(r) THEN db.cand[c].reinf + 1
                                     ELSE db.cand[c].reinf
              /\ new.outbox[c] # "none" <=> db.outbox[c] # "none" \/ c \in Acts(p)
              /\ new.outbox[c] = "staged" <=> db.outbox[c] = "staged"
         /\ \A i \in Insights : new.ins[i] \in {0, r, db.ins[i]}
         /\ \A s \in Sources : /\ new.source[s].fp = db.source[s].fp
                               /\ my[p].read[s] = 0 => new.source[s] = db.source[s]
<1> DEFINE cands == Decided(Reinforced(r), my[p].decs, publish)
           outbox == Queued(my[p].decs)
           inss == [i \in Insights |-> IF i \in my[p].ins THEN r ELSE db.ins[i]]
           sources == [s \in Sources |-> IF my[p].read[s] = 0 THEN db.source[s]
                                         ELSE [db.source[s] EXCEPT !.status = "complete"]]
<1>1. new = [db EXCEPT !.cand = cands, !.outbox = outbox, !.ins = inss, !.source = sources]
  BY DEF Committed
<1>2. my[p].decs \in SUBSET Decision /\ Typed
  BY AtWork DEF Locals, IInv
<1>3. /\ cands \in [Claims -> Candidate]
      /\ \A c \in Claims :
            /\ cands[c].first = db.cand[c].first
            /\ cands[c].reinf = IF c \in Touched(r) THEN db.cand[c].reinf + 1 ELSE db.cand[c].reinf
  <2> DEFINE more == Reinforced(r)
  <2>1. /\ more \in [Claims -> Candidate]
        /\ \A c \in Claims :
              /\ more[c].first = db.cand[c].first
              /\ more[c].reinf = IF c \in Touched(r) THEN db.cand[c].reinf + 1 ELSE db.cand[c].reinf
    BY <1>2, ReinforcedCandidates
  <2> HIDE DEF more
  <2>2. cands = Decided(more, my[p].decs, publish)
    BY DEF more
  <2> HIDE DEF cands
  <2>3. more \in [Claims -> Candidate] /\ my[p].decs \in SUBSET Decision
    BY <1>2, <2>1
  <2>4. /\ cands \in [Claims -> Candidate]
        /\ \A c \in Claims : cands[c].first = more[c].first /\ cands[c].reinf = more[c].reinf
    BY <2>2, <2>3, DecidedCandidates
  <2> QED
    BY <2>1, <2>4
<1>4. /\ outbox \in [Claims -> {"none", "pending", "staged"}]
      /\ \A c \in Claims : /\ outbox[c] # "none" <=> db.outbox[c] # "none" \/ c \in Acts(p)
                           /\ outbox[c] = "staged" <=> db.outbox[c] = "staged"
  <2>1. \A c \in Claims : (\E d \in my[p].decs : d.cand = c /\ d.class = "act") <=> c \in Acts(p)
    BY DEF Acts
  <2>2. outbox = [c \in Claims |-> IF db.outbox[c] = "none" /\ c \in Acts(p)
                                   THEN "pending" ELSE db.outbox[c]]
    BY <2>1 DEF Queued
  <2> HIDE DEF outbox
  <2>3. db.outbox \in [Claims -> {"none", "pending", "staged"}]
    BY <1>2 DEF Typed, Database
  <2>4. outbox \in [Claims -> {"none", "pending", "staged"}]
    BY <2>2, <2>3
  <2>5. ASSUME NEW c \in Claims
        PROVE  /\ outbox[c] # "none" <=> db.outbox[c] # "none" \/ c \in Acts(p)
               /\ outbox[c] = "staged" <=> db.outbox[c] = "staged"
    BY <2>2, <2>3
  <2> QED
    BY <2>4, <2>5
<1>5. inss \in [Insights -> 0..MaxRuns] /\ \A i \in Insights : inss[i] \in {0, r, db.ins[i]}
  BY <1>2 DEF Typed, Database, Runs
<1>6. /\ sources \in [Sources -> [status : {"new", "pending", "complete"}, fp : 0..MaxVer]]
      /\ \A s \in Sources : /\ sources[s].fp = db.source[s].fp
                            /\ my[p].read[s] = 0 => sources[s] = db.source[s]
  <2>1. ASSUME NEW s \in Sources
        PROVE  /\ sources[s] \in [status : {"new", "pending", "complete"}, fp : 0..MaxVer]
               /\ sources[s].fp = db.source[s].fp
               /\ my[p].read[s] = 0 => sources[s] = db.source[s]
    <3>1. db.source[s] \in [status : {"new", "pending", "complete"}, fp : 0..MaxVer]
      BY <1>2 DEF Typed, Database
    <3>2. CASE my[p].read[s] = 0
      BY <3>1, <3>2
    <3>3. CASE my[p].read[s] # 0
      BY <3>1, <3>3
    <3> QED
      BY <3>2, <3>3
  <2> QED
    BY <2>1
<1> HIDE DEF cands, outbox, inss, sources
<1>7. /\ new \in Database /\ new.run = db.run /\ new.row = db.row
      /\ new.pub = db.pub /\ new.reported = db.reported
      /\ new.cand = cands /\ new.outbox = outbox /\ new.ins = inss /\ new.source = sources
  <2>1. db \in Database
    BY <1>2 DEF Typed
  <2>2. /\ cands \in [Claims -> Candidate]
        /\ outbox \in [Claims -> {"none", "pending", "staged"}]
        /\ inss \in [Insights -> 0..MaxRuns]
        /\ sources \in [Sources -> [status : {"new", "pending", "complete"}, fp : 0..MaxVer]]
    BY <1>3, <1>4, <1>5, <1>6
  <2>3. /\ new.run = db.run /\ new.row = db.row /\ new.pub = db.pub /\ new.reported = db.reported
        /\ new.cand = cands /\ new.outbox = outbox /\ new.ins = inss /\ new.source = sources
    BY <1>1, <2>1 DEF Database
  <2>4. new \in Database
    <3>1. new = [run |-> db.run, source |-> sources, cand |-> cands, row |-> db.row,
                 ins |-> inss, pub |-> db.pub, reported |-> db.reported, outbox |-> outbox]
      BY <1>1, <2>1 DEF Database
    <3>2. /\ db.run \in [Runs -> {"none", "running", "complete", "failed", "pruned"}]
          /\ db.row \in [Claims -> [Keys -> 0..MaxRuns]] /\ db.reported \in SUBSET Runs
          /\ db.pub \in [Runs -> [status : {"none", "pending", "published"}, fp : Fingerprint]]
      BY <2>1 DEF Database
    <3> QED
      BY <2>2, <3>1, <3>2 DEF Database
  <2> QED
    BY <2>3, <2>4
<1> QED
  BY <1>3, <1>4, <1>5, <1>6, <1>7

\* ... and to the history.
LEMMA LoggedRun ==
  ASSUME IInv, NEW p \in Sweepers, NEW r \in Runs, committed' = Logged(r, p)
  PROVE  /\ DOMAIN committed' = DOMAIN committed \cup {r}
         /\ committed' \in [DOMAIN committed' -> Entry]
         /\ \A q \in DOMAIN committed : q # r => committed'[q] = committed[q]
         /\ committed'[r].read = my[p].read /\ committed'[r].touched = Touched(r)
         /\ committed'[r].acts = Acts(p)
<1> DEFINE entry == [read |-> my[p].read, touched |-> Touched(r), acts |-> Acts(p)]
           log == [q \in DOMAIN committed \cup {r} |-> IF q = r THEN entry ELSE committed[q]]
<1>1. committed' = log
  BY DEF Logged, Acts
<1>2. entry \in Entry
  <2>1. my[p].read \in [Sources -> 0..MaxVer] /\ my[p].decs \subseteq Decision
    BY AtWork DEF Locals
  <2>2. Acts(p) \subseteq Claims
    BY <2>1 DEF Acts, Decision
  <2>3. Touched(r) \subseteq Claims
    BY DEF Touched
  <2> QED
    BY <2>1, <2>2, <2>3 DEF Entry
<1>3. entry.read = my[p].read /\ entry.touched = Touched(r) /\ entry.acts = Acts(p)
  OBVIOUS
<1> HIDE DEF entry
<1>4. /\ DOMAIN log = DOMAIN committed \cup {r} /\ log[r] = entry
      /\ \A q \in DOMAIN committed : q # r => log[q] = committed[q]
  OBVIOUS
<1>5. log \in [DOMAIN committed \cup {r} -> Entry]
  BY <1>2 DEF IInv, Typed
<1> HIDE DEF log
<1> QED
  BY <1>1, <1>3, <1>4, <1>5

\* What the database and the history say of each other holds after a commit.
LEMMA CommitKeeps ==
  ASSUME IInv, NEW p \in Sweepers, pc[p] \in {"commit", "noop"}, NEW r \in Runs, r = my[p].run,
         NEW publish \in BOOLEAN, NEW new, new = Committed(r, p, publish),
         db'.run = db.run, db'.row = db.row, db'.cand = new.cand, db'.ins = new.ins,
         db'.source = new.source, db'.outbox = new.outbox,
         committed' = Logged(r, p), UNCHANGED intents
  PROVE  /\ DOMAIN committed' = DOMAIN committed \cup {r}
         /\ committed' \in [DOMAIN committed' -> Entry]
         /\ InOrder' /\ RowsOwned' /\ ReinforcedOnce' /\ CheckpointIsHonest' /\ OutboxIsHonest'
<1>1. /\ r \in Runs \ DOMAIN committed /\ db.run[r] = "running"
      /\ \A c \in Claims : db.cand[c].first <= r
      /\ \A s \in Sources : my[p].read[s] # 0 => db.source[s].fp = my[p].read[s]
  BY AtWork, Newest DEF InHand, HeldAt, Works
<1>2. /\ DOMAIN committed' = DOMAIN committed \cup {r}
      /\ committed' \in [DOMAIN committed' -> Entry]
      /\ \A q \in DOMAIN committed : committed'[q] = committed[q]
      /\ committed'[r].read = my[p].read /\ committed'[r].touched = Touched(r)
      /\ committed'[r].acts = Acts(p)
  BY <1>1, LoggedRun
<1>3. /\ \A c \in Claims :
           /\ db'.cand[c].first = db.cand[c].first
           /\ db'.cand[c].reinf = IF c \in Touched(r) THEN db.cand[c].reinf + 1
                                  ELSE db.cand[c].reinf
           /\ db'.outbox[c] # "none" <=> db.outbox[c] # "none" \/ c \in Acts(p)
           /\ db'.outbox[c] = "staged" <=> db.outbox[c] = "staged"
      /\ \A i \in Insights : db'.ins[i] \in {0, r, db.ins[i]}
      /\ \A s \in Sources : /\ db'.source[s].fp = db.source[s].fp
                            /\ my[p].read[s] = 0 => db'.source[s] = db.source[s]
  <2>1. /\ \A c \in Claims :
             /\ new.cand[c].first = db.cand[c].first
             /\ new.cand[c].reinf = IF c \in Touched(r) THEN db.cand[c].reinf + 1
                                    ELSE db.cand[c].reinf
             /\ new.outbox[c] # "none" <=> db.outbox[c] # "none" \/ c \in Acts(p)
             /\ new.outbox[c] = "staged" <=> db.outbox[c] = "staged"
        /\ \A i \in Insights : new.ins[i] \in {0, r, db.ins[i]}
        /\ \A s \in Sources : /\ new.source[s].fp = db.source[s].fp
                              /\ my[p].read[s] = 0 => new.source[s] = db.source[s]
    BY CommittedRows
  <2>2. /\ db'.cand = new.cand /\ db'.ins = new.ins /\ db'.source = new.source
        /\ db'.outbox = new.outbox
    OBVIOUS
  <2>3. ASSUME NEW c \in Claims
        PROVE  /\ db'.cand[c].first = db.cand[c].first
               /\ db'.cand[c].reinf = IF c \in Touched(r) THEN db.cand[c].reinf + 1
                                      ELSE db.cand[c].reinf
               /\ db'.outbox[c] # "none" <=> db.outbox[c] # "none" \/ c \in Acts(p)
               /\ db'.outbox[c] = "staged" <=> db.outbox[c] = "staged"
    BY <2>1, <2>2
  <2>4. /\ \A i \in Insights : db'.ins[i] \in {0, r, db.ins[i]}
        /\ \A s \in Sources : /\ db'.source[s].fp = db.source[s].fp
                              /\ my[p].read[s] = 0 => db'.source[s] = db.source[s]
    BY <2>1, <2>2
  <2> QED
    BY <2>3, <2>4
<1>4. RowsOwned'
  <2>1. Owns(r)'
    BY <1>2 DEF Owns
  <2>2. \A v \in 0..MaxRuns : Owns(v) => Owns(v)'
    BY <1>2 DEF Owns
  <2>3. /\ \A c \in Claims : db'.cand[c].first = db.cand[c].first
        /\ \A c \in Claims, k \in Keys : db'.row[c][k] = db.row[c][k]
        /\ \A i \in Insights : db'.ins[i] \in {0, r, db.ins[i]}
    BY <1>3
  <2> QED
    BY <2>1, <2>2, <2>3, RowsStayOwned DEF IInv, Data
<1>5. ASSUME NEW c \in Claims, db'.cand[c].first # 0
      PROVE  db'.cand[c].reinf = 1 + Cardinality({q \in DOMAIN committed' :
                                        q > db'.cand[c].first /\ c \in committed'[q].touched})
  <2> DEFINE first == db.cand[c].first
             before == {q \in DOMAIN committed : q > first /\ c \in committed[q].touched}
             after == {q \in DOMAIN committed' : q > first /\ c \in committed'[q].touched}
  <2>1. db.cand[c].reinf = 1 + Cardinality(before)
    BY <1>3, <1>5 DEF IInv, Data, ReinforcedOnce
  <2>2. IsFiniteSet(before) /\ r \notin before
    <3>1. IsFiniteSet(Runs)
      <4>1. 1 \in Int /\ MaxRuns \in Int
        BY SweepAssumption
      <4> QED
        BY <4>1, FS_Interval DEF Runs
    <3>2. before \subseteq Runs
      BY DEF IInv, Typed
    <3> QED
      BY <1>1, <3>1, <3>2, FS_Subset
  <2>3. CASE c \in Touched(r)
    <3>1. first # r /\ first <= r /\ first \in 0..MaxRuns
      BY <1>1, <2>3 DEF Touched, IInv, Typed, Database, Candidate
    <3>2. r > first
      BY <3>1 DEF Runs
    <3>3. after = before \cup {r}
      BY <1>2, <2>3, <3>2
    <3> HIDE DEF before, after
    <3>4. Cardinality(after) = Cardinality(before) + 1
      BY <2>2, <3>3, FS_AddElement
    <3>5. Cardinality(before) \in Nat
      BY <2>2, FS_CardinalityType
    <3>6. db'.cand[c].reinf = 1 + Cardinality(after)
      BY <1>3, <2>1, <2>3, <3>4, <3>5
    <3> QED
      BY <1>3, <3>6 DEF after
  <2>4. CASE c \notin Touched(r)
    <3>1. after = before
      BY <1>2, <2>4
    <3> HIDE DEF before, after
    <3>2. db'.cand[c].reinf = 1 + Cardinality(after)
      BY <1>3, <2>1, <2>4, <3>1
    <3> QED
      BY <1>3, <3>2 DEF after
  <2> QED
    BY <2>3, <2>4
<1>6. ReinforcedOnce'
  BY <1>5 DEF ReinforcedOnce
<1>7. ASSUME NEW s \in Sources, db'.source[s].status = "complete"
      PROVE  \E q \in DOMAIN committed' : committed'[q].read[s] = db'.source[s].fp
  <2>1. CASE my[p].read[s] = 0
    <3>1. PICK q \in DOMAIN committed : committed[q].read[s] = db.source[s].fp
      BY <1>3, <1>7, <2>1 DEF IInv, Data, CheckpointIsHonest
    <3> QED
      BY <1>2, <1>3, <3>1
  <2>2. CASE my[p].read[s] # 0
    <3>1. my[p].read[s] = db.source[s].fp
      BY <1>1, <2>2
    <3>2. db'.source[s].fp = db.source[s].fp
      BY <1>3
    <3>3. r \in DOMAIN committed' /\ committed'[r].read = my[p].read
      BY <1>2
    <3> QED
      BY <3>1, <3>2, <3>3
  <2> QED
    BY <2>1, <2>2
<1>8. CheckpointIsHonest'
  BY <1>7 DEF CheckpointIsHonest
<1>9. OutboxIsHonest'
  <2> SUFFICES ASSUME NEW c \in Claims
               PROVE  /\ c \in intents => db'.outbox[c] # "none"
                      /\ db'.outbox[c] = "staged" => c \in intents
                      /\ db'.outbox[c] # "none" <=>
                           \E q \in DOMAIN committed' : c \in committed'[q].acts
    BY DEF OutboxIsHonest
  <2>1. /\ c \in intents => db.outbox[c] # "none"
        /\ db.outbox[c] = "staged" => c \in intents
        /\ db.outbox[c] # "none" <=> \E q \in DOMAIN committed : c \in committed[q].acts
    BY DEF IInv, Data, OutboxIsHonest
  <2>2. (\E q \in DOMAIN committed' : c \in committed'[q].acts) <=>
          c \in Acts(p) \/ \E q \in DOMAIN committed : c \in committed[q].acts
    BY <1>2
  <2> QED
    BY <1>3, <2>1, <2>2
<1>10. InOrder'
  BY DEF IInv, Data, InOrder
<1> QED
  BY <1>2, <1>4, <1>6, <1>8, <1>9, <1>10

LEMMA CommitPublicationStep == \A p \in Sweepers : IInv /\ CommitPublication(p) => IInv'
<1> SUFFICES ASSUME NEW p \in Sweepers, IInv, CommitPublication(p) PROVE IInv'
  OBVIOUS
<1>1. /\ pc[p] = "commit" /\ pc' = [pc EXCEPT ![p] = "report"]
      /\ committed' = Logged(my[p].run, p)
      /\ UNCHANGED <<ver, fs, intents, lease, my, faults>>
  BY DEF CommitPublication, Go
<1>2. PICK r \in Runs : /\ r = my[p].run /\ db.run[r] = "running" /\ r \notin DOMAIN committed
                        /\ \A q \in Runs : q > r => db.run[q] = "none"
  BY <1>1, AtWork DEF InHand, Works
<1>3. PICK fp : fp = NewFingerprint(p)
  OBVIOUS
<1>4. fp \in Fingerprint
  BY <1>3, AtWork DEF NewFingerprint, Fingerprint, Locals
<1>5. PICK publish, new : /\ publish \in BOOLEAN /\ new = Committed(r, p, publish)
                           /\ new = Committed(r, p, TRUE)
  <2>1. TRUE \in BOOLEAN /\ Committed(r, p, TRUE) = Committed(r, p, TRUE)
    OBVIOUS
  <2> QED
    BY <2>1, Zenon
<1>6. /\ new \in Database /\ new.run = db.run /\ new.row = db.row
      /\ new.pub = db.pub /\ new.reported = db.reported
      /\ \A c \in Claims : new.outbox[c] # "none" <=> db.outbox[c] # "none" \/ c \in Acts(p)
  <2>1. publish \in BOOLEAN /\ new = Committed(r, p, publish) /\ r = my[p].run
    BY <1>2, <1>5
  <2> QED
    BY <2>1, CommittedRows
<1> DEFINE pubs == [db.pub EXCEPT ![r] = [status |-> "pending", fp |-> fp]]
           reports == {q \in db.reported : db.pub[q].fp # fp} \cup {r}
<1>7. db' = [new EXCEPT !.pub = pubs, !.reported = reports]
  <2>1. db' = [Committed(r, p, TRUE) EXCEPT
                 !.pub[r] = [status |-> "pending", fp |-> fp],
                 !.reported = {q \in @ : db.pub[q].fp # fp} \cup {r}]
    BY <1>2, <1>3 DEF CommitPublication
  <2>2. db' = [new EXCEPT
                 !.pub[r] = [status |-> "pending", fp |-> fp],
                 !.reported = {q \in @ : db.pub[q].fp # fp} \cup {r}]
    BY <1>5, <2>1
  <2> QED
    BY <1>6, <2>2 DEF Database
<1>8. /\ pubs \in [Runs -> [status : {"none", "pending", "published"}, fp : Fingerprint]]
      /\ pubs[r].status = "pending" /\ \A q \in Runs \ {r} : pubs[q] = db.pub[q]
      /\ reports \subseteq db.reported \cup {r} /\ reports \subseteq Runs
  BY <1>2, <1>4 DEF IInv, Typed, Database
<1> HIDE DEF pubs, reports
<1>9. /\ db' \in Database /\ db'.run = db.run /\ db'.row = db.row
      /\ db'.cand = new.cand /\ db'.ins = new.ins /\ db'.source = new.source
      /\ db'.outbox = new.outbox /\ db'.pub = pubs /\ db'.reported = reports
  BY <1>6, <1>7, <1>8 DEF Database
<1>10. /\ DOMAIN committed' = DOMAIN committed \cup {r}
       /\ committed' \in [DOMAIN committed' -> Entry]
       /\ InOrder' /\ RowsOwned' /\ ReinforcedOnce' /\ CheckpointIsHonest' /\ OutboxIsHonest'
  BY <1>1, <1>2, <1>5, <1>9, CommitKeeps
<1>11. Pending' = {r}
  <2>1. Pending = {}
    BY <1>1, AtWork DEF LeftOpen, Works
  <2>2. \A q \in Runs : db'.pub[q].status = "pending" <=> q = r
    BY <1>8, <1>9, <2>1 DEF Pending
  <2> QED
    BY <1>2, <2>2 DEF Pending
<1>12. Lives' /\ OnePending'
  <2>1. OnePending'
    BY <1>2, <1>9, <1>11 DEF OnePending
  <2>2. ASSUME NEW q \in Runs
        PROVE  /\ q \in DOMAIN committed' => db'.run[q] # "none"
               /\ db'.pub[q].status # "none" => q \in DOMAIN committed'
               /\ db'.pub[q].status = "published" => db'.run[q] # "running"
    BY <1>2, <1>8, <1>9, <1>10 DEF IInv, Data, Lives
  <2> QED
    BY <2>1, <2>2 DEF Lives
<1>13. ImportLast'
  <2> SUFFICES ASSUME NEW q \in Runs, <<q, "import">> \in fs.final
               PROVE  /\ q \in DOMAIN committed'
                      /\ db'.pub[q].fp \in fs.dreams
                      /\ <<q, "report">> \in fs.final \/ q \notin db'.reported
    BY <1>1 DEF ImportLast
  <2>1. /\ q \in DOMAIN committed /\ db.pub[q].fp \in fs.dreams
        /\ <<q, "report">> \in fs.final \/ q \notin db.reported
    BY DEF IInv, Data, ImportLast
  <2> QED
    BY <1>2, <1>8, <1>9, <1>10, <2>1
<1>14. \A f \in fs.staged : f[1] = r
  BY <1>1, <1>2, AtWork DEF FilesAt, Works
<1>15. PublicationIsWhole'
  BY <1>1, <1>2, <1>11, AtWork DEF FilesAt, PublicationIsWhole, Kinds
<1>16. Data'
  BY <1>10, <1>12, <1>13, <1>15 DEF Data
<1>17. InHand("report", my[p].run)'
  BY <1>1, <1>2, <1>10 DEF InHand, Publishes, Stages, Works, Closes
<1>18. LeftOpen("report", my[p].run)'
  <2>1. \A q \in Runs : db.run[q] = "running" => q = r
    BY <1>1, <1>2, AtWork DEF LeftOpen, Works
  <2> QED
    BY <1>9, <1>11, <2>1 DEF LeftOpen, Publishes, Stages, Works, Closes
<1>19. FilesAt("report", my[p].run)'
  BY <1>1, <1>11, <1>14 DEF FilesAt, Publishes, Stages, Works
<1>20. HeldAt("report", my[p])'
  BY <1>1, <1>6, <1>9, AtWork DEF HeldAt, Works
<1> QED
  <2>1. /\ my' \in [Sweepers -> Locals] /\ fs' \in Files /\ intents' \subseteq Claims
        /\ \A q \in Sweepers \ {p} : my'[q] = my[q]
        /\ DOMAIN committed' \subseteq Runs
    BY <1>1, <1>10 DEF IInv, Typed
  <2> QED
    BY <1>1, <1>9, <1>10, <1>16, <1>17, <1>18, <1>19, <1>20, <2>1, StoreStep DEF Steps

LEMMA CommitNoopStep == \A p \in Sweepers : IInv /\ CommitNoop(p) => IInv'
<1> SUFFICES ASSUME NEW p \in Sweepers, IInv, CommitNoop(p) PROVE IInv'
  OBVIOUS
<1> DEFINE rest == {c \in Claims : db'.outbox[c] = "pending"}
           m == [my[p] EXCEPT !.rest = rest]
<1>1. /\ pc[p] = "noop" /\ pc' = [pc EXCEPT ![p] = "stage"]
      /\ committed' = Logged(my[p].run, p) /\ db' = Committed(my[p].run, p, FALSE)
      /\ my' = [my EXCEPT ![p] = m]
      /\ UNCHANGED <<ver, fs, intents, lease, faults>>
  BY DEF CommitNoop, Go
<1>2. PICK r \in Runs : r = my[p].run /\ db.run[r] = "running" /\ r \notin DOMAIN committed
  BY <1>1, AtWork DEF InHand, Works
<1>3. PICK publish, new : /\ publish \in BOOLEAN /\ new = Committed(r, p, publish)
                           /\ new = Committed(r, p, FALSE)
  <2>1. FALSE \in BOOLEAN /\ Committed(r, p, FALSE) = Committed(r, p, FALSE)
    OBVIOUS
  <2> QED
    BY <2>1, Zenon
<1>4. /\ db' = new /\ new \in Database /\ new.run = db.run /\ new.row = db.row
      /\ new.pub = db.pub /\ new.reported = db.reported
      /\ \A c \in Claims : new.outbox[c] # "none" <=> db.outbox[c] # "none" \/ c \in Acts(p)
  <2>1. publish \in BOOLEAN /\ new = Committed(r, p, publish) /\ r = my[p].run
    BY <1>2, <1>3
  <2>2. db' = new
    BY <1>1, <1>2, <1>3
  <2> QED
    BY <2>1, <2>2, CommittedRows
<1>5. m \in Locals /\ m.run = r /\ m.rest = rest
  BY <1>2, AtWork DEF Locals
<1>6. \A c \in rest : db'.outbox[c] # "none"
  OBVIOUS
<1> HIDE DEF m, rest
<1>7. /\ my' \in [Sweepers -> Locals] /\ my'[p] = m
      /\ \A q \in Sweepers \ {p} : my'[q] = my[q]
  BY <1>1, <1>5 DEF IInv, Typed
<1>8. /\ DOMAIN committed' = DOMAIN committed \cup {r}
      /\ committed' \in [DOMAIN committed' -> Entry]
      /\ InOrder' /\ RowsOwned' /\ ReinforcedOnce' /\ CheckpointIsHonest' /\ OutboxIsHonest'
  BY <1>1, <1>2, <1>3, <1>4, CommitKeeps
<1>9. Pending' = Pending /\ Pending = {}
  BY <1>1, <1>4, AtWork DEF Pending, LeftOpen, Works
<1>10. Data'
  <2>1. Lives' /\ OnePending'
    BY <1>2, <1>4, <1>8, <1>9 DEF IInv, Data, Lives, OnePending
  <2>2. ImportLast' /\ PublicationIsWhole'
    BY <1>1, <1>4, <1>8, <1>9 DEF IInv, Data, ImportLast, PublicationIsWhole
  <2> QED
    BY <1>8, <2>1, <2>2 DEF Data
<1>11. InHand("stage", my[p].run)'
  BY <1>5, <1>7, <1>8 DEF InHand, Publishes, Stages, Works, Closes
<1>12. LeftOpen("stage", my[p].run)'
  <2>1. \A q \in Runs : db.run[q] = "running" => q = r
    BY <1>1, <1>2, AtWork DEF LeftOpen, Works
  <2> QED
    BY <1>4, <1>5, <1>7, <1>9, <2>1 DEF LeftOpen, Publishes, Stages, Works, Closes
<1>13. FilesAt("stage", my[p].run)'
  BY <1>1, <1>2, <1>5, <1>7, AtWork DEF FilesAt, Publishes, Stages, Works
<1>14. HeldAt("stage", my[p])'
  BY <1>5, <1>6, <1>7 DEF HeldAt, Works
<1> QED
  <2>1. fs' \in Files /\ intents' \subseteq Claims /\ DOMAIN committed' \subseteq Runs
    BY <1>1, <1>8 DEF IInv, Typed
  <2> QED
    BY <1>1, <1>4, <1>7, <1>8, <1>10, <1>11, <1>12, <1>13, <1>14, <2>1, StoreStep DEF Steps

-----------------------------------------------------------------------------
(* Retention *)

\* What prune does to the rows, whatever runs it finds stale.
LEMMA Pruned ==
  ASSUME IInv, NEW p \in Sweepers, PruneRuns(p)
  PROVE  /\ db' \in Database /\ db'.source = db.source /\ db'.pub = db.pub
         /\ db'.reported = db.reported /\ db'.outbox = db.outbox
         /\ \A r \in Runs : \/ db'.run[r] = db.run[r]
                            \/ db.run[r] # "none" /\ db'.run[r] = "pruned"
         /\ \A c \in Claims : db'.cand[c] \in {NoCand, db.cand[c]}
         /\ \A c \in Claims, k \in Keys : db'.row[c][k] \in {0, db.row[c][k]}
         /\ \A i \in Insights : db'.ins[i] \in {0, db.ins[i]}
<1> DEFINE stale == Stale({r \in Runs : db.run[r] \notin {"none", "pruned"}}, RetainRuns)
           gone == {c \in Claims : db.cand[c].last \in stale /\ db.cand[c].class = "defer"}
<1>1. db' = [db EXCEPT
               !.run = [r \in Runs |-> IF r \in stale THEN "pruned" ELSE @[r]],
               !.ins = [i \in Insights |-> IF @[i] \in stale THEN 0 ELSE @[i]],
               !.cand = [c \in Claims |-> IF c \in gone THEN NoCand ELSE @[c]],
               !.row = [c \in Claims |-> [k \in Keys |->
                          IF c \in gone /\ k \in Refs THEN 0 ELSE @[c][k]]]]
  BY DEF PruneRuns
<1> DEFINE runs == [r \in Runs |-> IF r \in stale THEN "pruned" ELSE db.run[r]]
           inss == [i \in Insights |-> IF db.ins[i] \in stale THEN 0 ELSE db.ins[i]]
           cands == [c \in Claims |-> IF c \in gone THEN NoCand ELSE db.cand[c]]
           rows == [c \in Claims |-> [k \in Keys |->
                      IF c \in gone /\ k \in Refs THEN 0 ELSE db.row[c][k]]]
<1>2. db' = [db EXCEPT !.run = runs, !.ins = inss, !.cand = cands, !.row = rows]
  BY <1>1
<1>3. \A r \in stale : r \in Runs /\ db.run[r] # "none"
  BY DEF Stale
<1> HIDE DEF stale, gone
<1>4. NoCand \in Candidate
  BY SweepAssumption DEF NoCand, Candidate
<1>5. /\ runs \in [Runs -> {"none", "running", "complete", "failed", "pruned"}]
      /\ \A r \in Runs : runs[r] = db.run[r] \/ (db.run[r] # "none" /\ runs[r] = "pruned")
  BY <1>3 DEF IInv, Typed, Database
<1>6. inss \in [Insights -> 0..MaxRuns] /\ \A i \in Insights : inss[i] \in {0, db.ins[i]}
  BY SweepAssumption DEF IInv, Typed, Database
<1>7. cands \in [Claims -> Candidate] /\ \A c \in Claims : cands[c] \in {NoCand, db.cand[c]}
  BY <1>4 DEF IInv, Typed, Database
<1>8. /\ rows \in [Claims -> [Keys -> 0..MaxRuns]]
      /\ \A c \in Claims, k \in Keys : rows[c][k] \in {0, db.row[c][k]}
  BY SweepAssumption DEF IInv, Typed, Database
<1> HIDE DEF runs, inss, cands, rows
<1>9. db \in Database
  BY DEF IInv, Typed
<1>10. /\ db' \in Database /\ db'.run = runs /\ db'.source = db.source /\ db'.cand = cands
       /\ db'.row = rows /\ db'.ins = inss /\ db'.pub = db.pub
       /\ db'.reported = db.reported /\ db'.outbox = db.outbox
  BY <1>2, <1>5, <1>6, <1>7, <1>8, <1>9 DEF Database
<1> QED
  BY <1>5, <1>6, <1>7, <1>8, <1>10

LEMMA PruneRunsStep == \A p \in Sweepers : IInv /\ PruneRuns(p) => IInv'
<1> SUFFICES ASSUME NEW p \in Sweepers, IInv, PruneRuns(p) PROVE IInv'
  OBVIOUS
<1>1. /\ pc[p] = "prune" /\ pc' = [pc EXCEPT ![p] = "pruneReports"]
      /\ UNCHANGED <<ver, fs, intents, lease, my, faults, committed>>
  BY DEF PruneRuns, Go
<1>2. /\ db' \in Database /\ db'.source = db.source /\ db'.pub = db.pub
      /\ db'.reported = db.reported /\ db'.outbox = db.outbox
      /\ \A r \in Runs : \/ db'.run[r] = db.run[r]
                         \/ db.run[r] # "none" /\ db'.run[r] = "pruned"
      /\ \A c \in Claims : db'.cand[c] \in {NoCand, db.cand[c]}
      /\ \A c \in Claims, k \in Keys : db'.row[c][k] \in {0, db.row[c][k]}
      /\ \A i \in Insights : db'.ins[i] \in {0, db.ins[i]}
  BY Pruned
<1>3. PICK r \in Runs : /\ r = my[p].run /\ db.run[r] # "none"
                        /\ r \in DOMAIN committed \/ Clean(r)
  BY <1>1, AtWork DEF InHand, Closes
<1>4. Pending = {} /\ Pending' = {} /\ \A q \in Runs : db.run[q] # "running"
  BY <1>1, <1>2, AtWork DEF LeftOpen, Closes, Pending
<1>5. \A q \in Runs : (db'.run[q] # "none" <=> db.run[q] # "none") /\ db'.run[q] # "running"
  BY <1>2, <1>4
<1>6. \A c \in Claims : db'.cand[c].first \in {0, db.cand[c].first}
  BY <1>2 DEF NoCand
<1>7. InOrder' /\ Lives' /\ OnePending'
  BY <1>1, <1>2, <1>4, <1>5 DEF IInv, Data, InOrder, Lives, OnePending
<1>8. RowsOwned'
  <2>1. \A v \in 0..MaxRuns : Owns(v) => Owns(v)'
    <3> SUFFICES ASSUME NEW v \in 0..MaxRuns, Owns(v) PROVE v \in DOMAIN committed \cup {0}
      BY <1>1 DEF Owns
    <3>1. v = 0 \/ v \in Runs
      BY DEF Runs
    <3> QED
      BY <1>4, <3>1 DEF Owns
  <2>2. Owns(0)'
    BY DEF Owns
  <2> QED
    BY <1>2, <1>6, <2>1, <2>2, RowsStayOwned DEF IInv, Data
<1>9. ReinforcedOnce'
  <2> SUFFICES ASSUME NEW c \in Claims, db'.cand[c].first # 0
               PROVE  db'.cand[c].reinf = 1 + Cardinality({q \in DOMAIN committed :
                                             q > db'.cand[c].first /\ c \in committed[q].touched})
    BY <1>1 DEF ReinforcedOnce
  <2>1. db'.cand[c] = db.cand[c]
    BY <1>2 DEF NoCand
  <2> QED
    BY <2>1 DEF IInv, Data, ReinforcedOnce
<1>10. Data'
  <2>1. ImportLast' /\ PublicationIsWhole'
    BY <1>1, <1>2, <1>4 DEF IInv, Data, ImportLast, PublicationIsWhole
  <2>2. CheckpointIsHonest' /\ OutboxIsHonest'
    BY <1>1, <1>2 DEF IInv, Data, CheckpointIsHonest, OutboxIsHonest
  <2> QED
    BY <1>7, <1>8, <1>9, <2>1, <2>2 DEF Data
<1>11. InHand("pruneReports", my[p].run)'
  <2>1. ASSUME Clean(r) PROVE Clean(r)'
    <3>1. r # 0
      BY DEF Runs
    <3> QED
      BY <1>2, <1>6, <2>1, <3>1 DEF Clean
  <2>2. r \in DOMAIN committed' \/ Clean(r)'
    BY <1>1, <1>3, <2>1
  <2> QED
    BY <1>1, <1>3, <1>5, <2>2 DEF InHand, Publishes, Stages, Works, Closes
<1>12. LeftOpen("pruneReports", my[p].run)'
  BY <1>4, <1>5 DEF LeftOpen, Publishes, Stages, Works, Closes
<1>13. FilesAt("pruneReports", my[p].run)'
  BY DEF FilesAt, Publishes, Stages, Works
<1>14. HeldAt("pruneReports", my[p])'
  BY <1>1, <1>2, AtWork DEF HeldAt, Works
<1> QED
  <2>1. my' \in [Sweepers -> Locals] /\ \A q \in Sweepers \ {p} : my'[q] = my[q]
    BY <1>1 DEF IInv, Typed
  <2> QED
    BY <1>1, <1>2, <1>10, <1>11, <1>12, <1>13, <1>14, <2>1, DatabaseStep DEF Steps

LEMMA PruneReportsStep == \A p \in Sweepers : IInv /\ PruneReports(p) => IInv'
<1> SUFFICES ASSUME NEW p \in Sweepers, IInv, PruneReports(p) PROVE IInv'
  OBVIOUS
<1>1. /\ pc[p] = "pruneReports" /\ pc' = [pc EXCEPT ![p] = "release"]
      /\ UNCHANGED <<ver, intents, lease, my, faults, committed>>
  BY DEF PruneReports, Go
<1>2. PICK stale : /\ db' = [db EXCEPT !.reported = @ \ stale]
                   /\ fs' = [fs EXCEPT !.final = @ \ (stale \X {"report"})]
  BY DEF PruneReports
<1>3. /\ db' \in Database /\ db'.run = db.run /\ db'.source = db.source /\ db'.cand = db.cand
      /\ db'.row = db.row /\ db'.ins = db.ins /\ db'.pub = db.pub /\ db'.outbox = db.outbox
      /\ db'.reported = db.reported \ stale
  BY <1>2 DEF IInv, Typed, Database
<1>4. /\ fs' \in Files /\ fs'.staged = fs.staged /\ fs'.dreams = fs.dreams
      /\ fs'.final = fs.final \ (stale \X {"report"})
  BY <1>2 DEF IInv, Typed, Files
<1>5. Pending' = Pending /\ Pending = {}
  BY <1>1, <1>3, AtWork DEF Pending, LeftOpen, Closes
<1>6. ImportLast'
  BY <1>1, <1>3, <1>4 DEF IInv, Data, ImportLast
<1>7. Data'
  <2>1. InOrder' /\ Lives' /\ OnePending' /\ RowsOwned'
    BY <1>1, <1>3, <1>5 DEF IInv, Data, InOrder, Lives, OnePending, RowsOwned, Owns
  <2>2. PublicationIsWhole' /\ ReinforcedOnce' /\ CheckpointIsHonest' /\ OutboxIsHonest'
    BY <1>1, <1>3, <1>5 DEF IInv, Data, PublicationIsWhole, ReinforcedOnce,
                            CheckpointIsHonest, OutboxIsHonest
  <2> QED
    BY <1>6, <2>1, <2>2 DEF Data
<1>8. InHand("release", my[p].run)' /\ LeftOpen("release", my[p].run)'
  BY DEF InHand, LeftOpen, Publishes, Stages, Works, Closes
<1>9. FilesAt("release", my[p].run)' /\ HeldAt("release", my[p])'
  BY <1>1, <1>3, AtWork DEF FilesAt, HeldAt, Publishes, Stages, Works
<1> QED
  <2>1. my' \in [Sweepers -> Locals] /\ \A q \in Sweepers \ {p} : my'[q] = my[q]
    BY <1>1 DEF IInv, Typed
  <2>2. /\ intents' \subseteq Claims /\ committed' \in [DOMAIN committed' -> Entry]
        /\ DOMAIN committed' \subseteq Runs
    BY <1>1 DEF IInv, Typed
  <2> QED
    BY <1>1, <1>3, <1>4, <1>7, <1>8, <1>9, <2>1, <2>2, StoreStep DEF Steps

-----------------------------------------------------------------------------
(* The invariant *)

LEMMA StepKeeps ==
  ASSUME IInv, NEW p \in Sweepers, Step(p) \/ StagingFails(p) \/ Raise(p) \/ Crash(p)
  PROVE  IInv'
<1>1. CASE Acquire(p) \/ Rollback(p) \/ MarkAbandoned(p) \/ CleanStaging(p) \/ PublishReport(p)
           \/ UpdateDreams(p) \/ PublishImport(p) \/ Acknowledge(p) \/ ListStaging(p)
  BY <1>1, AcquireStep, RollbackStep, MarkAbandonedStep, CleanStagingStep, PublishReportStep,
     UpdateDreamsStep, PublishImportStep, AcknowledgeStep, ListStagingStep
<1>2. CASE CaptureIntent(p) \/ MarkStaged(p) \/ StagingDone(p) \/ Begin(p) \/ Scan(p) \/ Light(p)
           \/ RemDeep(p) \/ StageReport(p) \/ StageImport(p)
  BY <1>2, CaptureIntentStep, MarkStagedStep, StagingDoneStep, BeginStep, ScanStep, LightStep,
     RemDeepStep, StageReportStep, StageImportStep
<1>3. CASE CommitPublication(p) \/ CommitNoop(p) \/ Finish(p) \/ PruneRuns(p) \/ PruneReports(p)
           \/ CleanStaged(p) \/ UndoRows(p) \/ FinishFailed(p) \/ Release(p)
  BY <1>3, CommitPublicationStep, CommitNoopStep, FinishStep, PruneRunsStep, PruneReportsStep,
     CleanStagedStep, UndoRowsStep, FinishFailedStep, ReleaseStep
<1>4. CASE StagingFails(p) \/ Raise(p) \/ Crash(p)
  BY <1>4, StagingFailsStep, RaiseStep, ReleaseStep
<1> QED
  BY <1>1, <1>2, <1>3, <1>4 DEF Step

LEMMA NextKeeps == IInv /\ [Next]_vars => IInv'
<1> SUFFICES ASSUME IInv, [Next]_vars PROVE IInv'
  OBVIOUS
<1>1. CASE UNCHANGED vars
  <2>1. Typed' /\ Alone'
    BY <1>1 DEF vars, IInv, Typed, Alone
  <2>2. Data'
    BY <1>1, DataStays DEF vars, IInv
  <2>3. \A p \in Sweepers : Place(p)'
    <3> SUFFICES ASSUME NEW p \in Sweepers PROVE Place(p)'
      OBVIOUS
    <3>1. InHand(pc[p], my[p].run)' /\ LeftOpen(pc[p], my[p].run)'
      BY <1>1, AtWork DEF vars, InHand, LeftOpen, Clean, Pending
    <3>2. FilesAt(pc[p], my[p].run)' /\ HeldAt(pc[p], my[p])'
      BY <1>1, AtWork DEF vars, FilesAt, HeldAt, Pending, Oldest
    <3> QED
      BY <3>1, <3>2 DEF Place
  <2> QED
    BY <2>1, <2>2, <2>3 DEF IInv
<1>2. CASE \E s \in Sources : Grow(s)
  BY <1>2, GrowStep
<1>3. CASE \E p \in Sweepers : Step(p) \/ StagingFails(p) \/ Raise(p) \/ Crash(p)
  BY <1>3, StepKeeps
<1> QED
  BY <1>1, <1>2, <1>3 DEF Next

\* Whatever crashes and raises, recovery finds the database, the files and the
\* history in step with each other, and the sweeper at work knows what it may
\* rely on: _execute as a whole.
THEOREM InvariantHolds == Spec => []IInv
BY InitInv, NextKeeps, PTL DEF Spec

\* acquire_lease: one sweeper works, and it holds the lease.
THEOREM SweepsAlone == Spec => []OneSweeper
<1>1. IInv => OneSweeper
  BY DEF IInv, Alone, OneSweeper, Working
<1> QED
  BY <1>1, InvariantHolds, PTL

\* publish_files: the watched import comes after its run is committed, its
\* report is in place and its DREAMS.md entry is written.
THEOREM ImportComesLast == Spec => []ImportLast
<1>1. IInv => ImportLast
  BY DEF IInv, Data
<1> QED
  BY <1>1, InvariantHolds, PTL

\* A committed publication keeps its artifacts until it is published, through
\* every recovery and failure handler.
THEOREM PublicationsWhole == Spec => []PublicationIsWhole
<1>1. IInv => PublicationIsWhole
  BY DEF IInv, Data
<1> QED
  BY <1>1, InvariantHolds, PTL

\* No run starts over an unfinished publication.
THEOREM OnePublication == Spec => []OnePending
<1>1. IInv => OnePending
  BY DEF IInv, Data
<1> QED
  BY <1>1, InvariantHolds, PTL

\* reinforce_run counts a committed run once, whatever failed and was repeated.
THEOREM ReinforcementCounts == Spec => []ReinforcedOnce
<1>1. IInv => ReinforcedOnce
  BY DEF IInv, Data
<1> QED
  BY <1>1, InvariantHolds, PTL

\* A session is marked complete only up to what a committed run read of it.
THEOREM CheckpointsHonest == Spec => []CheckpointIsHonest
<1>1. IInv => CheckpointIsHonest
  BY DEF IInv, Data
<1> QED
  BY <1>1, InvariantHolds, PTL

\* The staging outbox and the intents of the lifecycle database agree, though
\* each is written by a transaction of its own.
THEOREM OutboxesHonest == Spec => []OutboxIsHonest
<1>1. IInv => OutboxIsHonest
  BY DEF IInv, Data
<1> QED
  BY <1>1, InvariantHolds, PTL

\* Rollback and recovery leave nothing of failed runs behind for the runs that
\* read sessions after them.
THEOREM NothingResidual == Spec => []NoResidue
<1>1. ASSUME IInv, NEW p \in Sweepers, pc[p] \in Works \cup {"finish"}
      PROVE  LET known == DOMAIN committed \cup {0, my[p].run}
             IN /\ \A c \in Claims : /\ db.cand[c].first \in known
                                     /\ \A k \in Keys : db.row[c][k] \in known
                /\ \A i \in Insights : db.ins[i] \in known
                /\ \A f \in fs.staged : f[1] \in Pending \cup {my[p].run}
  <2>1. ASSUME NEW v \in 0..MaxRuns, Owns(v) PROVE v \in DOMAIN committed \cup {0, my[p].run}
    <3>1. v = 0 \/ v \in Runs
      BY DEF Runs
    <3>2. \A r \in Runs : db.run[r] = "running" => r = my[p].run
      BY <1>1, AtWork DEF LeftOpen
    <3> QED
      BY <2>1, <3>1, <3>2 DEF Owns
  <2>2. ASSUME NEW c \in Claims
        PROVE  /\ db.cand[c].first \in DOMAIN committed \cup {0, my[p].run}
               /\ \A k \in Keys : db.row[c][k] \in DOMAIN committed \cup {0, my[p].run}
    BY <1>1, <2>1 DEF IInv, Typed, Database, Candidate, Data, RowsOwned
  <2>3. \A i \in Insights : db.ins[i] \in DOMAIN committed \cup {0, my[p].run}
    BY <1>1, <2>1 DEF IInv, Typed, Database, Data, RowsOwned
  <2>4. \A f \in fs.staged : f[1] = my[p].run
    BY <1>1, AtWork DEF FilesAt
  <2> QED
    BY <2>2, <2>3, <2>4
<1>2. IInv => NoResidue
  BY <1>1 DEF NoResidue, Works
<1> QED
  BY <1>2, InvariantHolds, PTL

-----------------------------------------------------------------------------
(* What a step does to the candidates and their rows *)

\* A commit moves no row and dates no candidate.
LEMMA CommitMoves ==
  ASSUME IInv, NEW p \in Sweepers, CommitPublication(p) \/ CommitNoop(p)
  PROVE  /\ db'.row = db.row
         /\ \A c \in Claims : /\ db'.cand[c].first = db.cand[c].first
                              /\ db.cand[c].first = 0 => db'.cand[c].reinf = db.cand[c].reinf
<1>1. PICK r \in Runs : r = my[p].run
  BY AtWork DEF CommitPublication, CommitNoop, Go, InHand, Works
<1>2. PICK publish, new : /\ publish \in BOOLEAN /\ new = Committed(r, p, publish)
                           /\ publish = CommitPublication(p)
  <2>1. CommitPublication(p) \in BOOLEAN
    BY DEF CommitPublication
  <2> QED
    BY <2>1, Zenon
<1>3. /\ new \in Database /\ new.row = db.row
      /\ \A c \in Claims :
           /\ new.cand[c].first = db.cand[c].first
           /\ new.cand[c].reinf = IF c \in Touched(r) THEN db.cand[c].reinf + 1
                                  ELSE db.cand[c].reinf
  BY <1>1, <1>2, CommittedRows
<1>4. db'.row = new.row /\ db'.cand = new.cand
  <2>1. CASE CommitPublication(p)
    <3>1. new = Committed(my[p].run, p, TRUE)
      BY <1>1, <1>2, <2>1, Zenon
    <3>2. db' = [new EXCEPT !.pub[my[p].run] = [status |-> "pending", fp |-> NewFingerprint(p)],
                            !.reported = {q \in @ : db.pub[q].fp # NewFingerprint(p)}
                                           \cup {my[p].run}]
      BY <2>1, <3>1 DEF CommitPublication
    <3> QED
      BY <1>3, <3>2 DEF Database
  <2>2. CASE ~ CommitPublication(p)
    <3>1. publish = FALSE
      BY <1>2, <2>2, Zenon
    <3>2. db' = Committed(my[p].run, p, FALSE)
      BY <2>2 DEF CommitNoop
    <3> QED
      BY <1>1, <1>2, <3>1, <3>2, Zenon
  <2> QED
    BY <2>1, <2>2
<1> QED
  BY <1>3, <1>4 DEF Touched

\* Light adds candidates of its run, and rows where there was none.
LEMMA LightMoves ==
  ASSUME IInv, NEW p \in Sweepers, Light(p)
  PROVE  /\ \A c \in Claims : db'.cand[c] = db.cand[c] \/ db'.cand[c].first = my[p].run
         /\ \A c \in Claims, k \in Keys : db.row[c][k] # 0 => db'.row[c][k] = db.row[c][k]
<1> DEFINE catalog == {k \in Refs : k[2] <= my[p].read[k[1]]}
<1>1. PICK cites \in [Claims -> SUBSET catalog], word \in [Claims -> Wordings] :
         LET cited == {c \in Claims : cites[c] # {}} IN
         /\ db' = [db EXCEPT
                     !.cand = [c \in Claims |->
                                 IF c \in cited /\ @[c].first = 0
                                 THEN [NoCand EXCEPT !.first = my[p].run, !.last = my[p].run,
                                                     !.reinf = 1]
                                 ELSE @[c]],
                     !.row = [c \in Claims |-> [k \in Keys |->
                                IF c \in cited /\ @[c][k] = 0
                                   /\ k \in cites[c] \cup {word[c]}
                                THEN my[p].run ELSE @[c][k]]]]
         /\ my' = [my EXCEPT ![p].cited = cited]
  BY DEF Light
<1> DEFINE cited == {c \in Claims : cites[c] # {}}
           cands == [c \in Claims |-> IF c \in cited /\ db.cand[c].first = 0
                                      THEN [NoCand EXCEPT !.first = my[p].run, !.last = my[p].run,
                                                          !.reinf = 1]
                                      ELSE db.cand[c]]
           rows == [c \in Claims |-> [k \in Keys |->
                      IF c \in cited /\ db.row[c][k] = 0 /\ k \in cites[c] \cup {word[c]}
                      THEN my[p].run ELSE db.row[c][k]]]
<1>2. db' = [db EXCEPT !.cand = cands, !.row = rows]
  BY <1>1
<1>3. \A c \in Claims : cands[c] = db.cand[c] \/ cands[c].first = my[p].run
  BY DEF NoCand
<1>4. \A c \in Claims, k \in Keys : db.row[c][k] # 0 => rows[c][k] = db.row[c][k]
  OBVIOUS
<1> HIDE DEF cands, rows
<1>5. db'.cand = cands /\ db'.row = rows
  BY <1>2 DEF IInv, Typed, Database
<1> QED
  BY <1>3, <1>4, <1>5

\* Most steps leave both alone.
LEMMA OtherSteps ==
  ASSUME IInv, [Next]_vars,
         ~ \E p \in Sweepers : \/ Rollback(p) \/ UndoRows(p) \/ Acknowledge(p) \/ Light(p)
                               \/ CommitPublication(p) \/ CommitNoop(p) \/ PruneRuns(p)
  PROVE  db'.row = db.row /\ db'.cand = db.cand
<1>1. db \in Database
  BY DEF IInv, Typed
<1>2. CASE UNCHANGED db
  BY <1>2
<1>3. ASSUME NEW p \in Sweepers,
             MarkAbandoned(p) \/ MarkStaged(p) \/ Begin(p) \/ Scan(p) \/ RemDeep(p) \/ Finish(p)
               \/ PruneReports(p) \/ FinishFailed(p)
      PROVE  db'.row = db.row /\ db'.cand = db.cand
  <2>1. CASE MarkAbandoned(p) \/ Finish(p) \/ FinishFailed(p) \/ PruneReports(p)
    BY <1>1, <2>1 DEF Database, MarkAbandoned, Finish, FinishFailed, PruneReports
  <2>2. CASE MarkStaged(p) \/ RemDeep(p)
    BY <1>1, <2>2 DEF Database, MarkStaged, RemDeep
  <2>3. CASE Begin(p) \/ Scan(p)
    BY <1>1, <2>3 DEF Database, Begin, Scan
  <2> QED
    BY <1>3, <2>1, <2>2, <2>3
<1>4. ASSUME NEW p \in Sweepers,
             \/ Acquire(p) \/ CleanStaging(p) \/ PublishReport(p) \/ UpdateDreams(p)
             \/ PublishImport(p) \/ ListStaging(p) \/ CaptureIntent(p) \/ StagingDone(p)
             \/ StageReport(p) \/ StageImport(p) \/ CleanStaged(p) \/ Release(p)
             \/ StagingFails(p) \/ Raise(p) \/ Crash(p)
      PROVE  UNCHANGED db
  BY <1>4 DEF Acquire, CleanStaging, PublishReport, UpdateDreams, PublishImport, ListStaging,
              CaptureIntent, StagingDone, StageReport, StageImport, CleanStaged, Release,
              StagingFails, Raise, Crash
<1>5. (\E s \in Sources : Grow(s)) \/ UNCHANGED vars => UNCHANGED db
  BY DEF Grow, vars
<1> QED
  BY <1>2, <1>3, <1>4, <1>5 DEF Next, Step

\* Nobody reinforces what nobody has seen.
Unseen == \A c \in Claims : db.cand[c].first = 0 => db.cand[c].reinf = 0

LEMMA UnseenKept == IInv /\ Unseen /\ [Next]_vars => Unseen'
<1> SUFFICES ASSUME IInv, Unseen, [Next]_vars PROVE Unseen'
  OBVIOUS
<1>1. ASSUME NEW p \in Sweepers, Rollback(p) \/ UndoRows(p) PROVE Unseen'
  <2>1. PICK r : db' = Undone(r)
    BY <1>1 DEF Rollback, UndoRows
  <2>2. \A c \in Claims : db'.cand[c] = IF db.cand[c].first = r THEN NoCand ELSE db.cand[c]
    BY <2>1 DEF Undone, IInv, Typed, Database
  <2> QED
    BY <2>2 DEF Unseen, NoCand
<1>2. ASSUME NEW p \in Sweepers, Acknowledge(p) PROVE Unseen'
  <2>1. PICK seen : db' = [db EXCEPT
                 !.pub[Oldest].status = "published",
                 !.run[Oldest] = "complete",
                 !.cand = [c \in Claims |-> IF c \in seen /\ @[c].first # 0
                                            THEN [@[c] EXCEPT !.state = "locally_published"]
                                            ELSE @[c]]]
    BY <1>2 DEF Acknowledge
  <2>2. \A c \in Claims : db'.cand[c] = IF c \in seen /\ db.cand[c].first # 0
                                        THEN [db.cand[c] EXCEPT !.state = "locally_published"]
                                        ELSE db.cand[c]
    BY <2>1 DEF IInv, Typed, Database
  <2>3. \A c \in Claims : db.cand[c] \in Candidate
    BY DEF IInv, Typed, Database
  <2>4. \A c \in Claims : db'.cand[c].first = db.cand[c].first /\ db'.cand[c].reinf = db.cand[c].reinf
    BY <2>2, <2>3 DEF Candidate
  <2> QED
    BY <2>4 DEF Unseen
<1>3. ASSUME NEW p \in Sweepers, Light(p) PROVE Unseen'
  <2>1. my[p].run \in Runs
    BY <1>3, AtWork DEF Light, Go, InHand, Works
  <2> QED
    BY <1>3, <2>1, LightMoves DEF Unseen, Runs
<1>4. ASSUME NEW p \in Sweepers, CommitPublication(p) \/ CommitNoop(p) PROVE Unseen'
  BY <1>4, CommitMoves DEF Unseen
<1>5. ASSUME NEW p \in Sweepers, PruneRuns(p) PROVE Unseen'
  BY <1>5, Pruned DEF Unseen, NoCand
<1> QED
  BY <1>1, <1>2, <1>3, <1>4, <1>5, OtherSteps DEF Unseen

\* A candidate is reinforced by runs after the one that found it: never more
\* often than there are runs.
LEMMA ReinforcedWithinRuns ==
  ASSUME IInv, Unseen, NEW c \in Claims
  PROVE  db.cand[c].reinf \in 0..MaxRuns
<1>1. MaxRuns \in Nat /\ db.cand[c].first \in 0..MaxRuns
  BY SweepAssumption DEF IInv, Typed, Database, Candidate
<1>2. CASE db.cand[c].first = 0
  BY <1>1, <1>2 DEF Unseen
<1>3. CASE db.cand[c].first # 0
  <2> DEFINE first == db.cand[c].first
             later == {r \in DOMAIN committed : r > first /\ c \in committed[r].touched}
  <2>1. db.cand[c].reinf = 1 + Cardinality(later)
    BY <1>3 DEF IInv, Data, ReinforcedOnce
  <2>2. later \subseteq (first + 1)..MaxRuns
    BY <1>1 DEF IInv, Typed, Runs
  <2>3. first \in 1..MaxRuns
    BY <1>1, <1>3
  <2> HIDE DEF later, first
  <2>4. first + 1 \in Int /\ MaxRuns \in Int
    BY <1>1, <2>3
  <2>5. /\ IsFiniteSet((first + 1)..MaxRuns)
        /\ Cardinality((first + 1)..MaxRuns) =
             IF first + 1 > MaxRuns THEN 0 ELSE MaxRuns - (first + 1) + 1
    BY <2>4, FS_Interval
  <2>6. /\ Cardinality(later) \in Nat
        /\ Cardinality(later) <= Cardinality((first + 1)..MaxRuns)
    BY <2>2, <2>5, FS_Subset, FS_CardinalityType
  <2>7. /\ Cardinality((first + 1)..MaxRuns) <= MaxRuns - 1
        /\ Cardinality((first + 1)..MaxRuns) \in Nat
    BY <1>1, <2>3, <2>5
  <2>8. 1 + Cardinality(later) \in 0..MaxRuns
    BY <1>1, <2>6, <2>7
  <2> QED
    BY <2>1, <2>8
<1> QED
  BY <1>2, <1>3

\* The types of the model, with the bound on reinforcement.
THEOREM TypeCorrect == Spec => []TypeOK
<1>1. Init => Unseen
  BY DEF Init, Unseen, NoCand
<1>2. IInv /\ Unseen => TypeOK
  <2> SUFFICES ASSUME IInv, Unseen PROVE TypeOK
    OBVIOUS
  <2>1. \A c \in Claims : db.cand[c].reinf \in 0..MaxRuns
    BY ReinforcedWithinRuns
  <2>2. db.cand \in [Claims -> [first : 0..MaxRuns, last : 0..MaxRuns, reinf : 0..MaxRuns,
                                class : Classes \cup {"open"},
                                state : {"not_requested", "outbox_pending",
                                         "locally_published"}]]
    BY <2>1 DEF IInv, Typed, Database, Candidate
  <2>3. \A r \in Runs : /\ db.pub[r].status \in {"none", "pending", "published"}
                        /\ db.pub[r].fp.ins \subseteq Insights
                        /\ \A d \in db.pub[r].fp.decs : d \in Decision
    BY DEF IInv, Typed, Database, Fingerprint
  <2>4. \A p \in Sweepers : my[p].run \in 0..MaxRuns
    BY DEF IInv, Typed, Locals
  <2>5. /\ db.run \in [Runs -> {"none", "running", "complete", "failed", "pruned"}]
        /\ db.source \in [Sources -> [status : {"new", "pending", "complete"}, fp : 0..MaxVer]]
        /\ db.row \in [Claims -> [Keys -> 0..MaxRuns]] /\ db.ins \in [Insights -> 0..MaxRuns]
        /\ db.reported \subseteq Runs /\ db.outbox \in [Claims -> {"none", "pending", "staged"}]
        /\ fs.staged \subseteq Runs \X Kinds /\ fs.final \subseteq Runs \X Kinds
    BY DEF IInv, Typed, Database, Files
  <2> QED
    BY <2>2, <2>3, <2>4, <2>5 DEF TypeOK, IInv, Typed
<1> QED
  BY <1>1, <1>2, UnseenKept, InvariantHolds, PTL DEF Spec

\* Rollback and recovery reach only runs without a publication: what a
\* published run found stays until prune takes it.
THEOREM PublishedEvidenceKept == Spec => PublishedEvidenceStays
<1>1. ASSUME IInv, [Next]_vars, NEW c \in Claims, NEW k \in Keys,
             db.row[c][k] # 0, db.pub[db.row[c][k]].status # "none", ~ Pruning
      PROVE  db'.row[c][k] = db.row[c][k]
  <2>1. db.row[c][k] \in Runs
    BY <1>1 DEF IInv, Typed, Database, Runs
  <2>2. db.row[c][k] \in DOMAIN committed
    BY <1>1, <2>1 DEF IInv, Data, Lives
  <2>3. ASSUME NEW p \in Sweepers, Rollback(p) PROVE db'.row[c][k] = db.row[c][k]
    <3>1. PICK r \in Runs : /\ db' = Undone(r) /\ db.run[r] = "running"
                            /\ db.pub[r].status # "pending"
      BY <2>3 DEF Rollback, Abandoned
    <3>2. db.pub[r].status = "none"
      BY <1>1, <3>1 DEF IInv, Typed, Database, Data, Lives
    <3> QED
      BY <1>1, <3>1, <3>2 DEF Undone, IInv, Typed, Database
  <2>4. ASSUME NEW p \in Sweepers, UndoRows(p) PROVE db'.row[c][k] = db.row[c][k]
    <3>1. my[p].run \notin DOMAIN committed /\ db' = Undone(my[p].run)
      BY <1>1, <2>4, AtWork DEF UndoRows, Go, InHand
    <3> QED
      BY <1>1, <2>2, <3>1 DEF Undone, IInv, Typed, Database
  <2>5. ASSUME NEW p \in Sweepers, Acknowledge(p) PROVE db'.row[c][k] = db.row[c][k]
    BY <1>1, <2>5 DEF Acknowledge, IInv, Typed, Database
  <2>6. ASSUME NEW p \in Sweepers, Light(p) PROVE db'.row[c][k] = db.row[c][k]
    BY <1>1, <2>6, LightMoves
  <2>7. ASSUME NEW p \in Sweepers, CommitPublication(p) \/ CommitNoop(p)
        PROVE  db'.row[c][k] = db.row[c][k]
    BY <1>1, <2>7, CommitMoves
  <2>8. ASSUME NEW p \in Sweepers, PruneRuns(p) PROVE FALSE
    BY <1>1, <2>8 DEF PruneRuns, Go, Pruning, IInv, Typed
  <2> QED
    BY <1>1, <2>3, <2>4, <2>5, <2>6, <2>7, <2>8, OtherSteps
<1>2. IInv /\ [Next]_vars =>
        [\A c \in Claims, k \in Keys :
           LET r == db.row[c][k]
           IN r # 0 /\ db.pub[r].status # "none" /\ ~ Pruning
              => db'.row[c][k] = r]_vars
  BY <1>1
<1> QED
  BY <1>2, InvariantHolds, PTL DEF Spec, PublishedEvidenceStays
===============================================================================
