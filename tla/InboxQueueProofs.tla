-------------------------- MODULE InboxQueueProofs --------------------------
(* Theorems about the queue, the inbox and its alerts, for any events, runs *)
(* and failures.                                                            *)
EXTENDS InboxQueue, TLAPS

\* What a run has in its hands: one file at most, and only while it imports it;
\* no file carries the pid of an orphan's parent.
FileInv(p) ==
    /\ \A a, b \in procs[p].file : a = b
    /\ procs[p].pc \notin {"import", "unlink"} => procs[p].file = {}
    /\ procs[p].pc = "unlink" => \A e \in procs[p].file : rows[e] # "none"
    /\ Orphan(p) => /\ procs[p].pc \notin {"list", "next", "unlink"}
                    /\ \A e \in Events : ~Mine(p, e)

\* Run p has claimed alert e, and is still to show it.
Holds(p, e) == procs[p].pc \in {"print", "mark", "show"} /\ e \in procs[p].alerts
Due(p, e) == Holds(p, e) /\ (procs[p].pc = "mark" => procs[p].role # "alerts")

\* An alert whose claim never ran out has one holder, which shows it once.
AlertInv(e) ==
    e \notin again =>
        /\ notes[e].status = "none" => shown[e] = 0 /\ \A p \in Procs : ~Holds(p, e)
        /\ \A p, q \in Procs : Holds(p, e) /\ Holds(q, e) => p = q
        /\ \A p \in Procs : Due(p, e) => shown[e] = 0
        /\ shown[e] <= 1

IInv ==
    /\ TypeOK /\ NothingLost
    /\ \A p \in Procs : FileInv(p)
    /\ \A e \in Events : AlertInv(e)

USE QueueAssumption
USE DEF File, NoFile, Note, NoNote, Proc, Idle, Run

Pcs == {"idle", "list", "next", "import", "unlink", "rank", "find", "claim", "print", "mark", "show"}

-----------------------------------------------------------------------------
(* The shapes of a step. *)

\* Run p moves to pc, and the others stay.
Moves(p, pc) ==
    /\ procs' \in [Procs -> Proc]
    /\ \A q \in Procs : q # p => procs'[q] = procs[q]
    /\ procs'[p].pc = pc

LEMMA GotoMoves ==
  ASSUME TypeOK, NEW p \in Procs, NEW pc \in Pcs, Goto(p, pc)
  PROVE  /\ Moves(p, pc) /\ procs'[p].role = procs[p].role
         /\ procs'[p].file = procs[p].file /\ procs'[p].alerts = procs[p].alerts
<1>1. procs \in [Procs -> Proc] /\ procs[p] \in Proc
  BY DEF TypeOK
<1>2. procs' = [procs EXCEPT ![p].pc = pc]
  BY DEF Goto
<1>3. procs'[p] = [procs[p] EXCEPT !.pc = pc]
  BY <1>1, <1>2
<1>4. /\ procs'[p] \in Proc /\ procs'[p].pc = pc /\ procs'[p].role = procs[p].role
      /\ procs'[p].file = procs[p].file /\ procs'[p].alerts = procs[p].alerts
  BY <1>1, <1>3 DEF Pcs
<1>5. \A q \in Procs : q # p => procs'[q] = procs[q]
  BY <1>1, <1>2
<1>6. procs' \in [Procs -> Proc]
  BY <1>1, <1>2, <1>4, <1>5
<1> QED
  BY <1>4, <1>5, <1>6 DEF Moves

\* The two sides of the system hardly meet: a step that leaves alerts alone.
LEMMA AlertsKept ==
  ASSUME IInv, NEW p \in Procs, NEW pc \in Pcs \ {"print", "mark", "show"}, Moves(p, pc),
         UNCHANGED <<notes, shown, again>>
  PROVE  \A e \in Events : AlertInv(e)'
<1>1. \A q \in Procs : \A e \in Events :
         /\ Holds(q, e)' => Holds(q, e)
         /\ Due(q, e)' => Due(q, e)
  BY DEF Holds, Due, Moves
<1> QED
  BY <1>1 DEF IInv, AlertInv

\* A step of a run that is not importing, and leaves the queue alone.
LEMMA FilesKept ==
  ASSUME IInv, NEW p \in Procs, NEW pc \in Pcs \ {"import", "unlink"}, Moves(p, pc),
         procs'[p].file = {}, files' = files, procs[p].file = {} \/ Orphan(p),
         Orphan(p)' => Orphan(p) /\ pc \notin {"list", "next"},
         \A e \in Events : rows[e] # "none" => rows'[e] # "none"
  PROVE  NothingLost' /\ \A q \in Procs : FileInv(q)'
<1>1. NothingLost'
  <2>1. \A e \in Events : files[e].at = "claimed" => files[e].by # p
    BY DEF IInv, NothingLost, FileInv, Mine
  <2> QED
    BY <2>1 DEF IInv, NothingLost, Moves, TypeOK
<1>2. \A q \in Procs : FileInv(q)'
  BY DEF IInv, FileInv, Orphan, Mine, Moves, TypeOK
<1> QED
  BY <1>1, <1>2

LEMMA InitInv == Init => IInv
  BY DEF Init, IInv, TypeOK, NothingLost, FileInv, Orphan, AlertInv, Holds, Due

LEMMA ArriveInv ==
  ASSUME IInv, NEW e \in Events, Arrive(e)
  PROVE  IInv'
<1>1. /\ files' \in [Events -> File]
      /\ files'[e].at = "queue"
      /\ \A k \in Events : k # e => files'[k] = files[k]
  <2>1. files[e] \in File /\ files[e].by = Nobody
    BY DEF Arrive, IInv, TypeOK
  <2>2. [files[e] EXCEPT !.at = "queue"] \in File /\ [files[e] EXCEPT !.at = "queue"].at = "queue"
    BY <2>1
  <2> QED
    BY <2>2 DEF Arrive, IInv, TypeOK
<1>2. TypeOK'
  BY <1>1 DEF IInv, TypeOK, Arrive
<1>3. NothingLost'
  BY <1>1 DEF IInv, NothingLost, Arrive
<1>4. \A p \in Procs : FileInv(p)'
  BY <1>1 DEF IInv, Arrive, FileInv, Orphan, Mine
<1>5. \A k \in Events : AlertInv(k)'
  BY DEF IInv, Arrive, AlertInv, Holds, Due
<1> QED
  BY <1>2, <1>3, <1>4, <1>5 DEF IInv

LEMMA LapseInv ==
  ASSUME IInv, NEW e \in Events, Lapse(e)
  PROVE  IInv'
<1>1. /\ notes' \in [Events -> Note]
      /\ \A k \in Events : notes'[k].status = notes[k].status
  <2>1. notes[e] \in Note /\ notes[e].status = "claimed"
    BY DEF Lapse, IInv, TypeOK
  <2>2. /\ [notes[e] EXCEPT !.lapsed = TRUE] \in Note
        /\ [notes[e] EXCEPT !.lapsed = TRUE].status = notes[e].status
    BY <2>1
  <2> QED
    BY <2>2 DEF Lapse, IInv, TypeOK
<1>2. TypeOK'
  BY <1>1 DEF IInv, TypeOK, Lapse
<1>3. NothingLost' /\ \A p \in Procs : FileInv(p)'
  BY DEF IInv, NothingLost, FileInv, Orphan, Mine, Lapse
<1>4. \A k \in Events : AlertInv(k)'
  BY <1>1 DEF IInv, Lapse, AlertInv, Holds, Due
<1> QED
  BY <1>2, <1>3, <1>4 DEF IInv

-----------------------------------------------------------------------------
(* The import. *)

LEMMA StartRunInv ==
  ASSUME IInv, NEW p \in Procs, StartRun(p)
  PROVE  IInv'
<1>1. PICK role \in {"watch", "cycle"} : procs' = [procs EXCEPT ![p] = Run("list", role)]
  BY DEF StartRun
<1>2. Moves(p, "list") /\ procs'[p].file = {} /\ procs[p].file = {} /\ ~Orphan(p)'
  BY <1>1 DEF StartRun, At, IInv, TypeOK, FileInv, Orphan, Moves
<1>3. \A e \in Events : /\ files'[e] \in File
                        /\ files'[e].at = "gone" => files[e].at = "gone"
                        /\ files'[e].at = "claimed" => files'[e] = files[e]
  BY DEF StartRun, Recovered, Recoverable, IInv, TypeOK
<1>4. files' \in [Events -> File]
  BY <1>3 DEF StartRun, Recovered
<1>5. TypeOK'
  BY <1>2, <1>4 DEF IInv, TypeOK, StartRun, Moves
<1>6. NothingLost'
  BY <1>2, <1>3 DEF IInv, NothingLost, StartRun, Moves, TypeOK
<1>7. \A q \in Procs : FileInv(q)'
  BY <1>2, <1>3 DEF IInv, FileInv, Orphan, Mine, Moves, StartRun
<1>8. \A e \in Events : AlertInv(e)'
  BY <1>2, AlertsKept DEF StartRun, Pcs
<1> QED
  BY <1>5, <1>6, <1>7, <1>8 DEF IInv

LEMMA ListInv ==
  ASSUME IInv, NEW p \in Procs, List(p)
  PROVE  IInv'
<1> DEFINE x == [procs EXCEPT ![p].pc = "next"]
<1>1. x \in [Procs -> Proc] /\ x[p].pc = "next" /\ x[p].file = {} /\ procs[p].file = {}
      /\ x[p].role # "orphan"
      /\ \A q \in Procs : q # p => x[q] = procs[q]
  <2>1. /\ procs \in [Procs -> Proc] /\ procs[p].pc = "list" /\ procs[p].file = {}
        /\ procs[p].role # "orphan"
    BY DEF List, At, IInv, TypeOK, FileInv, Orphan
  <2>2. [procs[p] EXCEPT !.pc = "next"] \in Proc
    BY <2>1 DEF Proc
  <2> QED
    BY <2>1, <2>2
<1>2. procs' = [x EXCEPT ![p].todo = {e \in Events : files[e].at = "queue"}]
  BY DEF List
<1> HIDE DEF x
<1>3. Moves(p, "next") /\ procs'[p].file = {} /\ ~Orphan(p)'
  BY <1>1, <1>2 DEF Moves, Orphan
<1>4. TypeOK'
  BY <1>3 DEF IInv, TypeOK, List, Moves
<1> QED
  BY <1>1, <1>3, <1>4, FilesKept, AlertsKept DEF IInv, List, Pcs

LEMMA ImportedInv ==
  ASSUME IInv, NEW p \in Procs, Imported(p)
  PROVE  IInv'
<1>1. /\ Moves(p, "rank") /\ procs'[p].file = {} /\ procs[p].file = {}
      /\ Orphan(p)' => Orphan(p)
  BY GotoMoves DEF Imported, At, IInv, FileInv, Orphan, Pcs
<1>2. TypeOK'
  BY <1>1 DEF IInv, TypeOK, Imported, Moves
<1> QED
  BY <1>1, <1>2, FilesKept, AlertsKept DEF IInv, Imported, Pcs

LEMMA StartAlertsInv ==
  ASSUME IInv, NEW p \in Procs, StartAlerts(p)
  PROVE  IInv'
<1>1. Moves(p, "rank") /\ procs'[p].file = {} /\ procs[p].file = {} /\ ~Orphan(p)'
  BY DEF StartAlerts, At, IInv, TypeOK, FileInv, Orphan, Moves
<1>2. TypeOK'
  BY <1>1 DEF IInv, TypeOK, StartAlerts, Moves
<1> QED
  BY <1>1, <1>2, FilesKept, AlertsKept DEF IInv, StartAlerts, Pcs

\* A file that another run has renamed is passed over.
LEMMA TakeInv ==
  ASSUME IInv, NEW p \in Procs, Take(p)
  PROVE  IInv'
<1>0. /\ procs[p].file = {} /\ procs[p].pc = "next" /\ procs[p].role # "orphan"
      /\ procs \in [Procs -> Proc] /\ files \in [Events -> File]
  BY DEF Take, At, IInv, TypeOK, FileInv, Orphan
<1>1. PICK e \in procs[p].todo :
           IF files[e].at = "queue"
           THEN /\ files' = [files EXCEPT ![e] = [at |-> "claimed", by |-> p]]
                /\ procs' = [procs EXCEPT ![p].pc = "import", ![p].file = {e}, ![p].todo = @ \ {e}]
           ELSE /\ procs' = [procs EXCEPT ![p].todo = @ \ {e}]
                /\ UNCHANGED files
  BY DEF Take
<1>2. e \in Events
  BY <1>0, <1>1
<1>3. CASE files[e].at = "queue"
  <2> DEFINE x == [procs EXCEPT ![p].pc = "import"]
             y == [x EXCEPT ![p].file = {e}]
  <2>1. /\ x \in [Procs -> Proc] /\ x[p].pc = "import" /\ x[p].role # "orphan"
        /\ \A q \in Procs : q # p => x[q] = procs[q]
    BY <1>0
  <2>2. y = [x EXCEPT ![p].file = {e}]
    OBVIOUS
  <2>3. procs' = [y EXCEPT ![p].todo = y[p].todo \ {e}]
    BY <1>0, <1>1, <1>3
  <2> HIDE DEF x
  <2>4. /\ y \in [Procs -> Proc] /\ y[p].pc = "import" /\ y[p].file = {e} /\ y[p].role # "orphan"
        /\ \A q \in Procs : q # p => y[q] = procs[q]
    BY <1>2, <2>1
  <2> HIDE DEF y
  <2>5. Moves(p, "import") /\ procs'[p].file = {e} /\ ~Orphan(p)'
    BY <1>2, <2>3, <2>4 DEF Moves, Orphan
  <2>6. /\ files' \in [Events -> File] /\ files'[e] = [at |-> "claimed", by |-> p]
        /\ \A k \in Events : k # e => files'[k] = files[k]
    BY <1>0, <1>1, <1>2, <1>3
  <2>7. TypeOK'
    BY <2>5, <2>6 DEF IInv, TypeOK, Take, Moves
  <2>8. NothingLost'
    <3>1. \A k \in Events : files[k].at = "claimed" => files[k].by # p
      BY <1>0 DEF IInv, NothingLost
    <3> QED
      BY <1>0, <1>2, <2>5, <2>6, <3>1 DEF IInv, NothingLost, Take, Moves
  <2>9. \A q \in Procs : FileInv(q)'
    BY <1>2, <2>5, <2>6 DEF IInv, FileInv, Orphan, Mine, Take, Moves
  <2> QED
    BY <2>5, <2>7, <2>8, <2>9, AlertsKept DEF IInv, Take, Pcs
<1>4. CASE files[e].at # "queue"
  <2>1. Moves(p, "next") /\ procs'[p].file = {} /\ files' = files /\ ~Orphan(p)'
    BY <1>0, <1>1, <1>2, <1>4 DEF Moves, Orphan
  <2>2. TypeOK'
    BY <2>1 DEF IInv, TypeOK, Take, Moves
  <2> QED
    BY <1>0, <2>1, <2>2, FilesKept, AlertsKept DEF IInv, Take, Pcs
<1> QED
  BY <1>3, <1>4

LEMMA ImportInv ==
  ASSUME IInv, NEW p \in Procs, Import(p)
  PROVE  IInv'
<1>1. PICK e \in procs[p].file :
           IF kind[e] = "invalid"
           THEN /\ files' = [files EXCEPT ![e] = IF Mine(p, e) THEN [at |-> "quarantine", by |-> Nobody]
                                                 ELSE @]
                /\ procs' = [procs EXCEPT ![p].pc = "next", ![p].file = {}]
                /\ UNCHANGED rows
           ELSE /\ rows' = [rows EXCEPT ![e] = "new"]
                /\ Goto(p, "unlink")
                /\ UNCHANGED files
  BY DEF Import
<1>2. /\ e \in Events /\ procs \in [Procs -> Proc] /\ files \in [Events -> File]
      /\ rows \in [Events -> {"none", "new", "ranked"}]
      /\ procs[p].file = {e} /\ procs[p].pc = "import" /\ procs[p].role # "orphan"
  <2>1. procs[p] \in Proc /\ procs[p].pc = "import" /\ \A a, b \in procs[p].file : a = b
    BY DEF Import, At, IInv, TypeOK, FileInv
  <2> QED
    BY <1>1, <2>1 DEF IInv, TypeOK, Import, Orphan
<1>3. CASE kind[e] = "invalid"
  <2> DEFINE x == [procs EXCEPT ![p].pc = "next"]
  <2>1. /\ x \in [Procs -> Proc] /\ x[p].pc = "next" /\ x[p].role # "orphan"
        /\ \A q \in Procs : q # p => x[q] = procs[q]
    BY <1>2
  <2>2. procs' = [x EXCEPT ![p].file = {}]
    BY <1>1, <1>3
  <2> HIDE DEF x
  <2>3. Moves(p, "next") /\ procs'[p].file = {} /\ ~Orphan(p)'
    BY <2>1, <2>2 DEF Moves, Orphan
  <2>4. /\ files' \in [Events -> File]
        /\ \A k \in Events : k # e => files'[k] = files[k]
        /\ files'[e] = IF Mine(p, e) THEN [at |-> "quarantine", by |-> Nobody] ELSE files[e]
    BY <1>1, <1>2, <1>3
  <2>5. rows' = rows
    BY <1>1, <1>3
  <2>6. TypeOK'
    BY <2>3, <2>4, <2>5 DEF IInv, TypeOK, Import, Moves
  <2>7. NothingLost'
    <3> SUFFICES ASSUME NEW k \in Events
                 PROVE  /\ files'[k].at = "gone" => rows'[k] # "none"
                        /\ files'[k].at = "claimed" /\ files'[k].by # Nobody => k \in procs'[files'[k].by].file
      BY DEF NothingLost
    <3>1. CASE k = e /\ Mine(p, e)
      BY <2>4, <3>1
    <3>2. CASE ~(k = e /\ Mine(p, e))
      <4>1. files'[k] = files[k]
        BY <2>4, <3>2
      <4>2. files[k].at = "claimed" => files[k].by # p
        BY <1>2, <3>2 DEF IInv, NothingLost, Mine
      <4>3. files[k].at = "claimed" /\ files[k].by # Nobody => files[k].by \in Procs
        BY DEF IInv, TypeOK
      <4> QED
        BY <2>3, <2>5, <4>1, <4>2, <4>3 DEF IInv, NothingLost, Moves
    <3> QED
      BY <3>1, <3>2
  <2>8. \A q \in Procs : FileInv(q)'
    <3>1. \A q \in Procs, k \in Events : Mine(q, k)' => Mine(q, k)
      BY <1>2, <2>4 DEF Mine
    <3> QED
      BY <2>3, <2>5, <3>1 DEF IInv, FileInv, Orphan, Moves
  <2> QED
    BY <2>3, <2>6, <2>7, <2>8, AlertsKept DEF IInv, Import, Pcs
<1>4. CASE kind[e] # "invalid"
  <2>1. Moves(p, "unlink") /\ procs'[p].file = {e} /\ files' = files /\ ~Orphan(p)'
    BY <1>1, <1>2, <1>4, GotoMoves DEF IInv, Orphan, Pcs
  <2>2. /\ rows' \in [Events -> {"none", "new", "ranked"}]
        /\ rows'[e] = "new" /\ \A k \in Events : k # e => rows'[k] = rows[k]
    BY <1>1, <1>2, <1>4
  <2>3. TypeOK'
    BY <2>1, <2>2 DEF IInv, TypeOK, Import, Moves
  <2>4. NothingLost'
    <3>1. \A q \in Procs : procs'[q].file = procs[q].file
      BY <1>2, <2>1 DEF Moves
    <3> QED
      BY <1>2, <2>1, <2>2, <3>1 DEF IInv, NothingLost, TypeOK
  <2>5. \A q \in Procs : FileInv(q)'
    <3>1. \A q \in Procs : q # p => procs'[q] = procs[q] /\ procs'[q].file \subseteq Events
      BY <1>2, <2>1 DEF Moves
    <3>2. \A q \in Procs : q # p => FileInv(q)'
      BY <2>1, <2>2, <3>1 DEF IInv, FileInv, Orphan, Mine
    <3>3. FileInv(p)'
      BY <2>1, <2>2 DEF FileInv, Moves
    <3> QED
      BY <3>2, <3>3
  <2> QED
    BY <2>1, <2>3, <2>4, <2>5, AlertsKept DEF IInv, Import, Pcs
<1> QED
  BY <1>3, <1>4

\* A child that outlived its parent imports what its parent had taken, or nothing.
LEMMA ImportAloneInv ==
  ASSUME IInv, NEW p \in Procs, ImportAlone(p)
  PROVE  IInv'
<1>1. Moves(p, "idle") /\ procs'[p].file = {} /\ ~Orphan(p)' /\ Orphan(p)
  BY DEF ImportAlone, IInv, TypeOK, Orphan, Moves
<1>2. /\ rows' \in [Events -> {"none", "new", "ranked"}]
      /\ \A e \in Events : rows[e] # "none" => rows'[e] # "none"
  BY DEF ImportAlone, IInv, TypeOK
<1>3. TypeOK'
  BY <1>1, <1>2 DEF IInv, TypeOK, ImportAlone, Moves
<1> QED
  BY <1>1, <1>2, <1>3, FilesKept, AlertsKept DEF IInv, ImportAlone, Pcs

LEMMA UnlinkInv ==
  ASSUME IInv, NEW p \in Procs, Unlink(p)
  PROVE  IInv'
<1>1. /\ procs \in [Procs -> Proc] /\ procs[p].pc = "unlink" /\ procs[p].role # "orphan"
      /\ \A e \in procs[p].file : rows[e] # "none"
  BY DEF Unlink, At, IInv, TypeOK, FileInv, Orphan
<1> DEFINE x == [procs EXCEPT ![p].pc = "next"]
<1>2. /\ x \in [Procs -> Proc] /\ x[p].pc = "next" /\ x[p].role # "orphan"
      /\ \A q \in Procs : q # p => x[q] = procs[q]
  BY <1>1
<1>3. procs' = [x EXCEPT ![p].file = {}]
  BY DEF Unlink
<1> HIDE DEF x
<1>4. Moves(p, "next") /\ procs'[p].file = {} /\ ~Orphan(p)'
  BY <1>2, <1>3 DEF Moves, Orphan
<1>5. /\ files' \in [Events -> File]
      /\ \A e \in Events : files'[e] = IF e \in procs[p].file /\ Mine(p, e)
                                       THEN [at |-> "gone", by |-> Nobody] ELSE files[e]
  BY DEF Unlink, IInv, TypeOK
<1>6. TypeOK'
  BY <1>4, <1>5 DEF IInv, TypeOK, Unlink, Moves
<1>7. NothingLost'
  <2> SUFFICES ASSUME NEW e \in Events
               PROVE  /\ files'[e].at = "gone" => rows'[e] # "none"
                      /\ files'[e].at = "claimed" /\ files'[e].by # Nobody => e \in procs'[files'[e].by].file
    BY DEF NothingLost
  <2>1. CASE e \in procs[p].file /\ Mine(p, e)
    BY <1>1, <1>5, <2>1 DEF Unlink
  <2>2. CASE ~(e \in procs[p].file /\ Mine(p, e))
    <3>1. files'[e] = files[e]
      BY <1>5, <2>2
    <3>2. files[e].at = "claimed" => files[e].by # p
      BY <2>2 DEF IInv, NothingLost, Mine
    <3>3. files[e].at = "claimed" /\ files[e].by # Nobody => files[e].by \in Procs
      BY DEF IInv, TypeOK
    <3> QED
      BY <1>4, <3>1, <3>2, <3>3 DEF IInv, NothingLost, Unlink, Moves
  <2> QED
    BY <2>1, <2>2
<1>8. \A q \in Procs : FileInv(q)'
  <2>1. \A q \in Procs, e \in Events : Mine(q, e)' => Mine(q, e)
    BY <1>5 DEF Mine
  <2> QED
    BY <1>4, <2>1 DEF IInv, FileInv, Orphan, Moves, Unlink
<1> QED
  BY <1>4, <1>6, <1>7, <1>8, AlertsKept DEF IInv, Unlink, Pcs

-----------------------------------------------------------------------------
(* Ranking and alerts. *)

LEMMA RankInv ==
  ASSUME IInv, NEW p \in Procs, Rank(p)
  PROVE  IInv'
<1>1. procs \in [Procs -> Proc] /\ procs[p].file = {} /\ procs[p] \in Proc
  BY DEF Rank, At, IInv, TypeOK, FileInv
<1>2. PICK pc \in {"idle", "find"} : Moves(p, pc) /\ procs'[p].file = {} /\ ~Orphan(p)'
  <2>1. CASE procs[p].role \in {"cycle", "orphan"}
    BY <1>1, <2>1 DEF Rank, Moves, Orphan
  <2>2. CASE procs[p].role \notin {"cycle", "orphan"}
    BY <1>1, <2>2 DEF Rank, Moves, Orphan
  <2> QED
    BY <2>1, <2>2
<1>3. /\ rows' \in [Events -> {"none", "new", "ranked"}]
      /\ \A e \in Events : rows[e] # "none" => rows'[e] # "none"
  BY DEF Rank
<1>4. TypeOK'
  BY <1>2, <1>3 DEF IInv, TypeOK, Rank, Moves
<1> QED
  BY <1>1, <1>2, <1>3, <1>4, FilesKept, AlertsKept DEF IInv, Rank, Pcs

LEMMA FindCandidatesInv ==
  ASSUME IInv, NEW p \in Procs, FindCandidates(p)
  PROVE  IInv'
<1>1. procs \in [Procs -> Proc] /\ procs[p].file = {}
  BY DEF FindCandidates, At, IInv, TypeOK, FileInv
<1> DEFINE x == [procs EXCEPT ![p].pc = "claim"]
           found == {e \in Events : rows[e] = "ranked" /\ kind[e] = "alert"}
<1>2. /\ x \in [Procs -> Proc] /\ x[p].pc = "claim" /\ x[p].file = {}
      /\ x[p].role = procs[p].role
      /\ \A q \in Procs : q # p => x[q] = procs[q]
  BY <1>1
<1>3. procs' = [x EXCEPT ![p].alerts = found] /\ found \subseteq Events
  BY DEF FindCandidates
<1> HIDE DEF x, found
<1>4. Moves(p, "claim") /\ procs'[p].file = {} /\ (Orphan(p)' => Orphan(p))
  BY <1>2, <1>3 DEF Moves, Orphan
<1>5. TypeOK'
  BY <1>4 DEF IInv, TypeOK, FindCandidates, Moves
<1> QED
  BY <1>1, <1>4, <1>5, FilesKept, AlertsKept DEF IInv, FindCandidates, Pcs

LEMMA ClaimAlertsInv ==
  ASSUME IInv, NEW p \in Procs, ClaimAlerts(p)
  PROVE  IInv'
<1> DEFINE won == {e \in procs[p].alerts : Claimable(notes[e])}
<1>1. /\ procs \in [Procs -> Proc] /\ procs[p] \in Proc /\ procs[p].file = {}
      /\ procs[p].pc = "claim" /\ notes \in [Events -> Note]
  BY DEF ClaimAlerts, At, IInv, TypeOK, FileInv
<1>2. /\ notes' = [e \in Events |-> IF e \in won THEN [status |-> "claimed", owner |-> p, lapsed |-> FALSE]
                                    ELSE notes[e]]
      /\ again' = again \cup {e \in won : notes[e].lapsed}
      /\ procs' = [procs EXCEPT ![p] = IF won = {} THEN Idle ELSE [@ EXCEPT !.pc = "print", !.alerts = won]]
  BY DEF ClaimAlerts
<1>3. won \subseteq Events
  BY <1>1
<1>4. \A e \in won : e \notin again' => notes[e].status = "none"
  BY <1>2 DEF Claimable
<1> HIDE DEF won
<1>5. PICK pc \in {"idle", "print"} :
         /\ Moves(p, pc) /\ procs'[p].file = {} /\ (Orphan(p)' => Orphan(p))
         /\ pc = "print" => procs'[p].alerts = won
  <2>1. CASE won = {}
    BY <1>1, <1>2, <2>1 DEF Moves, Orphan
  <2>2. CASE won # {}
    <3> DEFINE x == [procs[p] EXCEPT !.pc = "print"]
               y == [x EXCEPT !.alerts = won]
    <3>1. x \in Proc /\ x.pc = "print" /\ x.file = {} /\ x.role = procs[p].role
      BY <1>1
    <3>2. y = [x EXCEPT !.alerts = won]
      OBVIOUS
    <3>3. procs' = [procs EXCEPT ![p] = y]
      BY <1>2, <2>2
    <3> HIDE DEF x
    <3>4. y \in Proc /\ y.pc = "print" /\ y.file = {} /\ y.alerts = won /\ y.role = procs[p].role
      BY <1>3, <3>1
    <3> HIDE DEF y
    <3> QED
      BY <1>1, <3>3, <3>4 DEF Moves, Orphan
  <2> QED
    BY <2>1, <2>2
<1>6. TypeOK'
  <2>1. notes' \in [Events -> Note]
    BY <1>1, <1>2
  <2>2. again' \subseteq Events
    BY <1>2, <1>3 DEF IInv, TypeOK
  <2> QED
    BY <1>5, <2>1, <2>2 DEF IInv, TypeOK, ClaimAlerts, Moves
<1>7. NothingLost' /\ \A q \in Procs : FileInv(q)'
  BY <1>1, <1>5, FilesKept DEF ClaimAlerts, Pcs
<1>8. ASSUME NEW e \in Events, e \notin again'
      PROVE  AlertInv(e)'
  <2>1. e \notin again /\ shown' = shown /\ AlertInv(e)
    BY <1>2, <1>8 DEF ClaimAlerts, IInv
  <2>2. \A q \in Procs : q # p => (Holds(q, e)' <=> Holds(q, e)) /\ (Due(q, e)' <=> Due(q, e))
    BY <1>5 DEF Holds, Due, Moves
  <2>3. Holds(p, e)' => e \in won
    BY <1>5 DEF Holds, Moves
  <2>4. ~Holds(p, e)
    BY <1>1 DEF Holds
  <2>5. CASE e \in won
    <3>1. shown[e] = 0 /\ notes'[e].status = "claimed" /\ \A q \in Procs : ~Holds(q, e)
      BY <1>2, <1>4, <1>8, <2>1, <2>5 DEF AlertInv
    <3> QED
      BY <2>1, <2>2, <3>1 DEF AlertInv
  <2>6. CASE e \notin won
    <3>1. notes'[e] = notes[e] /\ ~Holds(p, e)' /\ ~Due(p, e)'
      BY <1>2, <2>3, <2>6 DEF Due
    <3> QED
      BY <2>1, <2>2, <3>1 DEF AlertInv
  <2> QED
    BY <2>5, <2>6
<1>9. \A e \in Events : AlertInv(e)'
  BY <1>8 DEF AlertInv
<1> QED
  BY <1>6, <1>7, <1>9 DEF IInv

\* Run p shows alerts it was still to show.
LEMMA ShownOnce ==
  ASSUME IInv, NEW p \in Procs, NEW e \in Events, Due(p, e), e \notin again,
         shown' = Shown(procs[p].alerts)
  PROVE  /\ shown'[e] = 1 /\ notes[e].status # "none"
         /\ \A q \in Procs : Holds(q, e) => q = p
  BY DEF IInv, AlertInv, Due, Holds, Shown

LEMMA ShownTyped ==
  ASSUME IInv, NEW alerts, shown' = Shown(alerts)
  PROVE  /\ shown' \in [Events -> 0..2]
         /\ \A e \in Events : e \notin alerts => shown'[e] = shown[e]
<1>1. shown \in [Events -> 0..2]
  BY DEF IInv, TypeOK
<1> QED
  BY <1>1 DEF Shown

LEMMA PrintAlertsInv ==
  ASSUME IInv, NEW p \in Procs, PrintAlerts(p)
  PROVE  IInv'
<1>1. /\ Moves(p, "mark") /\ procs'[p].role = procs[p].role /\ procs[p].pc = "print"
      /\ procs[p].file = {} /\ procs'[p].file = {} /\ procs'[p].alerts = procs[p].alerts
      /\ ~Orphan(p)'
  BY GotoMoves DEF PrintAlerts, At, IInv, FileInv, Orphan, Pcs
<1>2. shown' \in [Events -> 0..2]
  <2>1. shown \in [Events -> 0..2]
    BY DEF IInv, TypeOK
  <2> QED
    BY <2>1, ShownTyped DEF PrintAlerts
<1>3. TypeOK'
  BY <1>1, <1>2 DEF IInv, TypeOK, PrintAlerts, Moves
<1>4. NothingLost' /\ \A q \in Procs : FileInv(q)'
  BY <1>1, FilesKept DEF PrintAlerts, Pcs
<1>5. ASSUME NEW e \in Events, e \notin again
      PROVE  AlertInv(e)'
  <2>1. AlertInv(e) /\ again' = again /\ notes' = notes
    BY DEF IInv, PrintAlerts
  <2>2. \A q \in Procs : /\ Holds(q, e)' <=> Holds(q, e)
                         /\ Due(q, e)' => Due(q, e)
    BY <1>1 DEF Holds, Due, Moves
  <2>3. CASE procs[p].role = "alerts" /\ e \in procs[p].alerts
    <3>1. Due(p, e) /\ ~Due(p, e)' /\ shown' = Shown(procs[p].alerts)
      BY <1>1, <2>3 DEF Due, Holds, PrintAlerts, Moves
    <3>2. /\ shown'[e] = 1 /\ notes[e].status # "none"
          /\ \A q \in Procs : Holds(q, e) => q = p
      BY <1>5, <3>1, ShownOnce
    <3>3. \A q \in Procs : ~Due(q, e)'
      BY <2>2, <3>1, <3>2 DEF Due
    <3> QED
      BY <2>1, <2>2, <3>2, <3>3 DEF AlertInv
  <2>4. CASE ~(procs[p].role = "alerts" /\ e \in procs[p].alerts)
    <3>1. shown'[e] = shown[e]
      BY <2>4, ShownTyped DEF PrintAlerts
    <3> QED
      BY <2>1, <2>2, <3>1 DEF AlertInv
  <2> QED
    BY <2>3, <2>4
<1>6. \A e \in Events : AlertInv(e)'
  BY <1>5 DEF AlertInv, PrintAlerts
<1> QED
  BY <1>3, <1>4, <1>6 DEF IInv

LEMMA MarkEmittedInv ==
  ASSUME IInv, NEW p \in Procs, MarkEmitted(p)
  PROVE  IInv'
<1>1. /\ procs \in [Procs -> Proc] /\ procs[p] \in Proc /\ procs[p].file = {}
      /\ procs[p].pc = "mark"
  BY DEF MarkEmitted, At, IInv, TypeOK, FileInv
<1>2. PICK pc \in {"idle", "show"} :
         /\ Moves(p, pc) /\ procs'[p].file = {} /\ ~Orphan(p)'
         /\ pc = "show" => procs[p].role # "alerts" /\ procs'[p].alerts = procs[p].alerts
  <2>1. CASE procs[p].role = "watch"
    BY <1>1, <2>1 DEF MarkEmitted, Moves, Orphan
  <2>2. CASE procs[p].role # "watch"
    BY <1>1, <2>2 DEF MarkEmitted, Moves, Orphan
  <2> QED
    BY <2>1, <2>2
<1>3. /\ notes' \in [Events -> Note]
      /\ \A e \in Events : notes'[e].status = "none" => notes[e].status = "none"
  BY DEF MarkEmitted, Marked, IInv, TypeOK
<1>4. TypeOK'
  <2>1. cut' \subseteq Events
    BY DEF MarkEmitted, IInv, TypeOK
  <2> QED
    BY <1>2, <1>3, <2>1 DEF IInv, TypeOK, MarkEmitted, Moves
<1>5. NothingLost' /\ \A q \in Procs : FileInv(q)'
  BY <1>1, <1>2, FilesKept DEF MarkEmitted, Pcs
<1>6. ASSUME NEW e \in Events
      PROVE  AlertInv(e)'
  <2>1. \A q \in Procs : /\ Holds(q, e)' => Holds(q, e)
                         /\ Due(q, e)' => Due(q, e)
    BY <1>1, <1>2 DEF Holds, Due, Moves
  <2> QED
    BY <1>3, <2>1 DEF IInv, AlertInv, MarkEmitted
<1> QED
  BY <1>4, <1>5, <1>6 DEF IInv

LEMMA ShowInv ==
  ASSUME IInv, NEW p \in Procs, Show(p)
  PROVE  IInv'
<1>1. /\ Moves(p, "idle") /\ procs[p].pc = "show"
      /\ procs[p].file = {} /\ procs'[p].file = {} /\ procs'[p].alerts = {} /\ ~Orphan(p)'
  BY DEF Show, At, IInv, TypeOK, FileInv, Orphan, Moves
<1>2. shown' \in [Events -> 0..2]
  BY ShownTyped DEF Show
<1>3. TypeOK'
  BY <1>1, <1>2 DEF IInv, TypeOK, Show, Moves
<1>4. NothingLost' /\ \A q \in Procs : FileInv(q)'
  BY <1>1, FilesKept DEF Show, Pcs
<1>5. ASSUME NEW e \in Events, e \notin again
      PROVE  AlertInv(e)'
  <2>1. AlertInv(e) /\ again' = again /\ notes' = notes
    BY DEF IInv, Show
  <2>2. \A q \in Procs : /\ Holds(q, e)' => Holds(q, e) /\ q # p
                         /\ Due(q, e)' => Due(q, e)
    BY <1>1 DEF Holds, Due, Moves
  <2>3. CASE e \in procs[p].alerts
    <3>1. Due(p, e) /\ shown' = Shown(procs[p].alerts)
      BY <1>1, <2>3 DEF Due, Holds, Show
    <3>2. /\ shown'[e] = 1 /\ notes[e].status # "none"
          /\ \A q \in Procs : Holds(q, e) => q = p
      BY <1>5, <3>1, ShownOnce
    <3>3. \A q \in Procs : ~Holds(q, e)' /\ ~Due(q, e)'
      BY <2>2, <3>2 DEF Due
    <3> QED
      BY <2>1, <3>2, <3>3 DEF AlertInv
  <2>4. CASE e \notin procs[p].alerts
    <3>1. shown'[e] = shown[e]
      BY <2>4, ShownTyped DEF Show
    <3> QED
      BY <2>1, <2>2, <3>1 DEF AlertInv
  <2> QED
    BY <2>3, <2>4
<1>6. \A e \in Events : AlertInv(e)'
  BY <1>5 DEF AlertInv, Show
<1> QED
  BY <1>3, <1>4, <1>6 DEF IInv

-----------------------------------------------------------------------------
(* Failures. *)

\* A claim whose run is gone stays a claim.
LEMMA DisownedNotes ==
  ASSUME IInv, NEW p \in Procs, notes' = Disowned(p)
  PROVE  /\ notes' \in [Events -> Note]
         /\ \A e \in Events : notes'[e].status = notes[e].status
<1>1. ASSUME NEW e \in Events
      PROVE  notes'[e] \in Note /\ notes'[e].status = notes[e].status
  <2>1. notes[e] \in Note
    BY DEF IInv, TypeOK
  <2>2. CASE notes[e].owner = p
    <3>1. notes'[e] = [notes[e] EXCEPT !.owner = Nobody] /\ notes[e].status = "claimed"
      BY <2>1, <2>2 DEF Disowned
    <3> QED
      BY <2>1, <3>1
  <2>3. CASE notes[e].owner # p
    BY <2>1, <2>3 DEF Disowned
  <2> QED
    BY <2>2, <2>3
<1> QED
  BY <1>1 DEF Disowned

LEMMA BrokenPipeInv ==
  ASSUME IInv, NEW p \in Procs, BrokenPipe(p)
  PROVE  IInv'
<1>1. /\ Moves(p, "idle") /\ ~Orphan(p)' /\ Orphan(p)
      /\ procs'[p].file = {} /\ procs'[p].alerts = {}
  BY DEF BrokenPipe, IInv, TypeOK, Orphan, Moves
<1>2. /\ notes' \in [Events -> Note]
      /\ \A e \in Events : notes'[e].status = notes[e].status
  BY DisownedNotes DEF BrokenPipe
<1>3. TypeOK'
  BY <1>1, <1>2 DEF IInv, TypeOK, BrokenPipe, Moves
<1>4. NothingLost' /\ \A q \in Procs : FileInv(q)'
  BY <1>1, FilesKept DEF BrokenPipe, Pcs
<1>5. ASSUME NEW e \in Events
      PROVE  AlertInv(e)'
  <2>1. \A q \in Procs : /\ Holds(q, e)' => Holds(q, e)
                         /\ Due(q, e)' => Due(q, e)
    BY <1>1 DEF Holds, Due, Moves
  <2> QED
    BY <1>2, <2>1 DEF IInv, AlertInv, BrokenPipe
<1> QED
  BY <1>3, <1>4, <1>5 DEF IInv

\* A run that ends early lets its file go: back to the queue, or to the next run.
LEMMA EndsInv ==
  ASSUME IInv, NEW p \in Procs, Ends(p), files' \in [Events -> File],
         \A e \in Events : \/ files'[e] = files[e] /\ ~Mine(p, e)
                           \/ files'[e].at = "queue"
                           \/ files'[e].at = "claimed" /\ files'[e].by = Nobody
  PROVE  IInv'
<1>1. Moves(p, "idle") /\ procs'[p].file = {} /\ procs'[p].alerts = {} /\ ~Orphan(p)'
  BY DEF Ends, IInv, TypeOK, Orphan, Moves
<1>2. /\ notes' \in [Events -> Note]
      /\ \A e \in Events : notes'[e].status = notes[e].status
  BY DisownedNotes DEF Ends
<1>3. cut' \subseteq Events /\ faults' \in 0..MaxFaults
  BY DEF Ends, Fault, IInv, TypeOK
<1>4. TypeOK'
  BY <1>1, <1>2, <1>3 DEF IInv, TypeOK, Ends, Moves
<1>5. NothingLost'
  <2> SUFFICES ASSUME NEW e \in Events
               PROVE  /\ files'[e].at = "gone" => rows'[e] # "none"
                      /\ files'[e].at = "claimed" /\ files'[e].by # Nobody => e \in procs'[files'[e].by].file
    BY DEF NothingLost
  <2>1. CASE files'[e] = files[e] /\ ~Mine(p, e)
    <3>1. files[e].at = "claimed" /\ files[e].by # Nobody => files[e].by \in Procs /\ files[e].by # p
      BY <2>1 DEF IInv, TypeOK, Mine
    <3> QED
      BY <1>1, <2>1, <3>1 DEF IInv, NothingLost, Ends, Moves
  <2>2. CASE files'[e].at = "queue" \/ (files'[e].at = "claimed" /\ files'[e].by = Nobody)
    BY <2>2
  <2> QED
    BY <2>1, <2>2
<1>6. \A q \in Procs : FileInv(q)'
  <2>1. \A q \in Procs, e \in Events : Mine(q, e)' => Mine(q, e)
    BY DEF Mine
  <2> QED
    BY <1>1, <2>1 DEF IInv, FileInv, Orphan, Moves, Ends
<1>7. ASSUME NEW e \in Events
      PROVE  AlertInv(e)'
  <2>1. \A q \in Procs : /\ Holds(q, e)' => Holds(q, e)
                         /\ Due(q, e)' => Due(q, e)
    BY <1>1 DEF Holds, Due, Moves
  <2> QED
    BY <1>2, <2>1 DEF IInv, AlertInv, Ends
<1> QED
  BY <1>4, <1>5, <1>6, <1>7 DEF IInv

LEMMA RaisesInv ==
  ASSUME IInv, NEW p \in Procs, Raises(p)
  PROVE  IInv'
<1>1. /\ files' \in [Events -> File]
      /\ \A e \in Events : \/ files'[e] = files[e] /\ ~Mine(p, e)
                           \/ files'[e].at = "queue"
  BY DEF Raises, PutBack, IInv, TypeOK
<1> QED
  BY <1>1, EndsInv DEF Raises

\* The file of a dead run waits for the next one.
LEMMA OrphanedFiles ==
  ASSUME IInv, NEW p \in Procs, files' = Orphaned(p)
  PROVE  /\ files' \in [Events -> File]
         /\ \A e \in Events : \/ files'[e] = files[e] /\ ~Mine(p, e)
                              \/ files'[e].at = "claimed" /\ files'[e].by = Nobody
<1>1. ASSUME NEW e \in Events
      PROVE  /\ files'[e] \in File
             /\ \/ files'[e] = files[e] /\ ~Mine(p, e)
                \/ files'[e].at = "claimed" /\ files'[e].by = Nobody
  <2>1. files[e] \in File
    BY DEF IInv, TypeOK
  <2>2. CASE Mine(p, e)
    <3>1. files'[e] = [files[e] EXCEPT !.by = Nobody] /\ files[e].at = "claimed"
      BY <2>2 DEF Orphaned, Mine
    <3> QED
      BY <2>1, <3>1
  <2>3. CASE ~Mine(p, e)
    BY <2>1, <2>3 DEF Orphaned
  <2> QED
    BY <2>2, <2>3
<1> QED
  BY <1>1 DEF Orphaned

LEMMA DiesInv ==
  ASSUME IInv, NEW p \in Procs, Dies(p)
  PROVE  IInv'
  BY OrphanedFiles, EndsInv DEF Dies

\* The child goes on with what the run has in its hands, but for the file's name.
LEMMA AbandonsInv ==
  ASSUME IInv, NEW p \in Procs, Abandons(p)
  PROVE  IInv'
<1> DEFINE x == [procs EXCEPT ![p].role = "orphan"]
<1>1. /\ procs \in [Procs -> Proc] /\ procs[p].role \in {"watch", "cycle"}
      /\ procs[p].pc \in {"import", "rank", "find", "claim", "mark"}
  BY DEF Abandons, IInv, TypeOK
<1>2. /\ x \in [Procs -> Proc] /\ x[p].role = "orphan" /\ x[p].pc = procs[p].pc
      /\ x[p].file = procs[p].file /\ x[p].alerts = procs[p].alerts
      /\ \A q \in Procs : q # p => x[q] = procs[q]
  BY <1>1
<1>3. procs' = [x EXCEPT ![p].todo = {}]
  BY DEF Abandons
<1> HIDE DEF x
<1>4. /\ Moves(p, procs[p].pc) /\ procs'[p].role = "orphan"
      /\ procs'[p].file = procs[p].file /\ procs'[p].alerts = procs[p].alerts
  BY <1>2, <1>3 DEF Moves
<1>5. /\ files' \in [Events -> File]
      /\ \A e \in Events : \/ files'[e] = files[e] /\ ~Mine(p, e)
                           \/ files'[e].at = "claimed" /\ files'[e].by = Nobody
  BY OrphanedFiles DEF Abandons
<1>6. TypeOK'
  <2>1. faults' \in 0..MaxFaults
    BY DEF Abandons, Fault, IInv, TypeOK
  <2> QED
    BY <1>4, <1>5, <2>1 DEF IInv, TypeOK, Abandons, Moves
<1>7. NothingLost'
  <2>1. \A q \in Procs : procs'[q].file = procs[q].file
    BY <1>4 DEF Moves
  <2> QED
    BY <1>5, <2>1 DEF IInv, NothingLost, Abandons, TypeOK
<1>8. \A q \in Procs : FileInv(q)'
  <2>1. \A q \in Procs, e \in Events : Mine(q, e)' => Mine(q, e) /\ q # p
    BY <1>5 DEF Mine
  <2> QED
    BY <1>1, <1>4, <2>1 DEF IInv, FileInv, Orphan, Moves, Abandons
<1>9. ASSUME NEW e \in Events
      PROVE  AlertInv(e)'
  <2>1. \A q \in Procs : /\ Holds(q, e)' <=> Holds(q, e)
                         /\ Due(q, e)' => Due(q, e)
    BY <1>1, <1>4 DEF Holds, Due, Moves
  <2> QED
    BY <2>1 DEF IInv, AlertInv, Abandons
<1> QED
  BY <1>6, <1>7, <1>8, <1>9 DEF IInv

-----------------------------------------------------------------------------
(* The theorems. *)

LEMMA StepInv == IInv /\ [Next]_vars => IInv'
<1> SUFFICES ASSUME IInv, [Next]_vars
             PROVE  IInv'
  OBVIOUS
<1>1. CASE \E e \in Events : Arrive(e) \/ Lapse(e)
  BY <1>1, ArriveInv, LapseInv
<1>2. ASSUME NEW p \in Procs, Step(p)
      PROVE  IInv'
  BY <1>2, StartRunInv, ListInv, TakeInv, ImportInv, ImportAloneInv, UnlinkInv, ImportedInv,
     StartAlertsInv, RankInv, FindCandidatesInv, ClaimAlertsInv, PrintAlertsInv, BrokenPipeInv,
     MarkEmittedInv, ShowInv DEF Step
<1>3. CASE \E p \in Procs : Raises(p) \/ Dies(p) \/ Abandons(p)
  BY <1>3, RaisesInv, DiesInv, AbandonsInv
<1>4. CASE UNCHANGED vars
  <2>1. /\ kind' = kind /\ files' = files /\ rows' = rows /\ notes' = notes /\ procs' = procs
        /\ shown' = shown /\ again' = again /\ cut' = cut /\ faults' = faults
    BY <1>4 DEF vars
  <2>2. TypeOK'
    BY <2>1 DEF IInv, TypeOK
  <2>3. NothingLost' /\ \A p \in Procs : FileInv(p)'
    BY <2>1 DEF IInv, NothingLost, FileInv, Orphan, Mine
  <2>4. \A e \in Events : AlertInv(e)'
    BY <2>1 DEF IInv, AlertInv, Holds, Due
  <2> QED
    BY <2>2, <2>3, <2>4 DEF IInv
<1> QED
  BY <1>1, <1>2, <1>3, <1>4 DEF Next

\* The inductive invariant of the queue and the alerts.
THEOREM InvariantHolds == Spec => []IInv
<1> QED
  BY InitInv, StepInv, PTL DEF Spec

\* Every file, row, claim and run keeps its type, however many runs meet.
THEOREM TypeCorrect == Spec => []TypeOK
<1>1. IInv => TypeOK
  BY DEF IInv
<1> QED
  BY <1>1, InvariantHolds, PTL

\* process_queue_file: a file is unlinked only when its event is in the inbox,
\* and one that is being processed can always be recovered, wherever runs raise
\* or die.
THEOREM NothingIsLost == Spec => []NothingLost
<1>1. IInv => NothingLost
  BY DEF IInv
<1> QED
  BY <1>1, InvariantHolds, PTL

\* claim_notifications and mark_notifications: an alert is shown twice only
\* when a claim on it ran out before its run had marked it.
THEOREM ShownOnceUnlessLapsed == Spec => []RepeatedOnlyAfterLapse
<1>1. IInv => RepeatedOnlyAfterLapse
  BY DEF IInv, RepeatedOnlyAfterLapse, AlertInv, TypeOK
<1> QED
  BY <1>1, InvariantHolds, PTL
=============================================================================
