------------------------------ MODULE InboxQueue ------------------------------
(***************************************************************************)
(* From a message to an alert: event files of the gateway plugin, the      *)
(* import of its queue (queue_spool.py), ranking, and the claim, printing  *)
(* and marking of alerts (context_inbox.py, cli.py), as run by             *)
(* context_watch.py, context_cycle.sh and the context-alerts command.      *)
(*                                                                         *)
(* A process is one run of one of the three commands. Files move by        *)
(* rename, the database changes by transactions, and a run may raise or    *)
(* die between any two of them. The watcher and the cycle import, rank and *)
(* alert in child processes, and a child outlives a parent that is killed: *)
(* the run is an orphan then, which has only the child's steps to take.    *)
(* A new run has a new pid.                                                *)
(***************************************************************************)
EXTENDS Naturals, FiniteSets

CONSTANTS Events,
          Mixes,     \* kinds of the events to start with
          Procs,
          MaxFaults, \* bound: runs that raise or die
          Nobody     \* a pid, or a claim owner, that is gone

\* An event that alerts, one that does not, and a file that is no event.
Kinds == {"alert", "plain", "invalid"}

ASSUME QueueAssumption ==
    Mixes \subseteq [Events -> Kinds] /\ Nobody \notin Procs /\ MaxFaults \in Nat

VARIABLES kind,  \* of each event
          files, \* each event's file, and whose .processing suffix it has
          rows,  \* context_events
          notes, \* context_notifications
          procs, \* the runs
          shown, \* how often an alert reached the reader: 0, 1 or 2 for more (history)
          again, \* alerts whose claim was taken over (history)
          cut,   \* alerts marked emitted whose watcher ended before it wrote them (history)
          faults

vars == <<kind, files, rows, notes, procs, shown, again, cut, faults>>

NoFile == [at |-> "none", by |-> Nobody]
File == [at: {"none", "queue", "quarantine", "gone"}, by: {Nobody}]
        \cup [at: {"claimed"}, by: Procs \cup {Nobody}]

NoNote == [status |-> "none", owner |-> Nobody, lapsed |-> FALSE]
Note == [status: {"none", "emitted"}, owner: {Nobody}, lapsed: {FALSE}]
        \cup [status: {"claimed"}, owner: Procs \cup {Nobody}, lapsed: BOOLEAN]

Proc == [pc: {"idle", "list", "next", "import", "unlink", "rank", "find", "claim", "print", "mark", "show"},
         role: {"watch", "cycle", "alerts", "orphan"}, todo: SUBSET Events, file: SUBSET Events,
         alerts: SUBSET Events]
Run(pc, role) == [pc |-> pc, role |-> role, todo |-> {}, file |-> {}, alerts |-> {}]
Idle == Run("idle", "watch")

Init ==
    /\ kind \in Mixes
    /\ files = [e \in Events |-> NoFile]
    /\ rows = [e \in Events |-> "none"]
    /\ notes = [e \in Events |-> NoNote]
    /\ procs = [p \in Procs |-> Idle]
    /\ shown = [e \in Events |-> 0] /\ again = {} /\ cut = {}
    /\ faults = 0

At(p, pc) == procs[p].pc = pc
Goto(p, pc) == procs' = [procs EXCEPT ![p].pc = pc]
Orphan(p) == procs[p].role = "orphan"

\* The plugin renames a complete file into the queue.
Arrive(e) ==
    /\ files[e].at = "none"
    /\ files' = [files EXCEPT ![e].at = "queue"]
    /\ UNCHANGED <<kind, rows, notes, procs, shown, again, cut, faults>>

-----------------------------------------------------------------------------
(* import_jsonl_spool *)

\* A live pid keeps its file, a dead one loses it.
Recoverable(file) == file.at = "claimed" /\ file.by = Nobody

Recovered == [e \in Events |-> IF Recoverable(files[e])
                               THEN [at |-> "queue", by |-> Nobody] ELSE files[e]]

StartRun(p) ==
    /\ At(p, "idle")
    /\ \E role \in {"watch", "cycle"} : procs' = [procs EXCEPT ![p] = Run("list", role)]
    /\ files' = Recovered
    /\ UNCHANGED <<kind, rows, notes, shown, again, cut, faults>>

List(p) ==
    /\ At(p, "list")
    /\ procs' = [procs EXCEPT ![p].pc = "next", ![p].todo = {e \in Events : files[e].at = "queue"}]
    /\ UNCHANGED <<kind, files, rows, notes, shown, again, cut, faults>>

\* process_queue_file: a file that another run renamed first is passed over.
Take(p) ==
    /\ At(p, "next")
    /\ \E e \in procs[p].todo :
           IF files[e].at = "queue"
           THEN /\ files' = [files EXCEPT ![e] = [at |-> "claimed", by |-> p]]
                /\ procs' = [procs EXCEPT ![p].pc = "import", ![p].file = {e},
                                          ![p].todo = @ \ {e}]
           ELSE /\ procs' = [procs EXCEPT ![p].todo = @ \ {e}]
                /\ UNCHANGED files
    /\ UNCHANGED <<kind, rows, notes, shown, again, cut, faults>>

Mine(p, e) == files[e].at = "claimed" /\ files[e].by = p

\* An invalid file goes to quarantine, a valid one is upserted. A row that is
\* there already loses its rank: source_path, with the pid of the run, differs.
Import(p) ==
    /\ At(p, "import") /\ ~Orphan(p)
    /\ \E e \in procs[p].file :
           IF kind[e] = "invalid"
           THEN /\ files' = [files EXCEPT ![e] = IF Mine(p, e) THEN [at |-> "quarantine", by |-> Nobody]
                                                 ELSE @]
                /\ procs' = [procs EXCEPT ![p].pc = "next", ![p].file = {}]
                /\ UNCHANGED rows
           ELSE /\ rows' = [rows EXCEPT ![e] = "new"]
                /\ Goto(p, "unlink")
                /\ UNCHANGED files
    /\ UNCHANGED <<kind, notes, shown, again, cut, faults>>

\* context-import without its parent: another run may have recovered the file
\* before it was opened. Invalid files are the parent's, and so is the unlink.
ImportAlone(p) ==
    /\ At(p, "import") /\ Orphan(p)
    /\ \/ \E e \in procs[p].file : kind[e] # "invalid" /\ rows' = [rows EXCEPT ![e] = "new"]
       \/ UNCHANGED rows
    /\ procs' = [procs EXCEPT ![p] = Idle]
    /\ UNCHANGED <<kind, files, notes, shown, again, cut, faults>>

Unlink(p) ==
    /\ At(p, "unlink")
    /\ files' = [e \in Events |-> IF e \in procs[p].file /\ Mine(p, e)
                                  THEN [at |-> "gone", by |-> Nobody] ELSE files[e]]
    /\ procs' = [procs EXCEPT ![p].pc = "next", ![p].file = {}]
    /\ UNCHANGED <<kind, rows, notes, shown, again, cut, faults>>

Imported(p) ==
    /\ At(p, "next") /\ procs[p].todo = {}
    /\ Goto(p, "rank")
    /\ UNCHANGED <<kind, files, rows, notes, shown, again, cut, faults>>

-----------------------------------------------------------------------------
(* Ranking and alerts *)

StartAlerts(p) ==
    /\ At(p, "idle")
    /\ procs' = [procs EXCEPT ![p] = Run("rank", "alerts")]
    /\ UNCHANGED <<kind, files, rows, notes, shown, again, cut, faults>>

\* rank_all. An event imported while it runs waits for the next run.
Rank(p) ==
    /\ At(p, "rank")
    /\ rows' = [e \in Events |-> IF rows[e] = "none" THEN "none" ELSE "ranked"]
    /\ procs' = [procs EXCEPT ![p] = IF @.role \in {"cycle", "orphan"} THEN Idle
                                     ELSE [@ EXCEPT !.pc = "find"]]
    /\ UNCHANGED <<kind, files, notes, shown, again, cut, faults>>

FindCandidates(p) ==
    /\ At(p, "find")
    /\ procs' = [procs EXCEPT ![p].pc = "claim",
                              ![p].alerts = {e \in Events : rows[e] = "ranked" /\ kind[e] = "alert"}]
    /\ UNCHANGED <<kind, files, rows, notes, shown, again, cut, faults>>

\* Wrong variant: any claim can be taken over.
ClaimableAlways(note) == note.status # "emitted"

\* Wrong variant: a claim is for ever.
ClaimableOnce(note) == note.status = "none"

\* New, or claimed with claim_until in the past.
Claimable(note) == note.status = "none" \/ (note.status = "claimed" /\ note.lapsed)

ClaimAlerts(p) ==
    /\ At(p, "claim")
    /\ LET won == {e \in procs[p].alerts : Claimable(notes[e])}
       IN /\ notes' = [e \in Events |->
                          IF e \in won THEN [status |-> "claimed", owner |-> p, lapsed |-> FALSE]
                          ELSE notes[e]]
          /\ again' = again \cup {e \in won : notes[e].lapsed}
          /\ procs' = [procs EXCEPT ![p] = IF won = {} THEN Idle
                                           ELSE [@ EXCEPT !.pc = "print", !.alerts = won]]
    /\ UNCHANGED <<kind, files, rows, shown, cut, faults>>

\* 30 seconds are over, whatever the owner is doing.
Lapse(e) ==
    /\ notes[e].status = "claimed" /\ ~notes[e].lapsed
    /\ notes' = [notes EXCEPT ![e].lapsed = TRUE]
    /\ UNCHANGED <<kind, files, rows, procs, shown, again, cut, faults>>

Shown(alerts) == [e \in Events |-> IF e \in alerts /\ shown[e] < 2 THEN shown[e] + 1 ELSE shown[e]]

\* print and flush. Under context_watch standard output is a pipe that the
\* watcher reads when context-alerts has ended.
PrintAlerts(p) ==
    /\ At(p, "print") /\ ~Orphan(p)
    /\ shown' = IF procs[p].role = "alerts" THEN Shown(procs[p].alerts) ELSE shown
    /\ Goto(p, "mark")
    /\ UNCHANGED <<kind, files, rows, notes, again, cut, faults>>

\* What a run has claimed, and will not mark, lapses.
Disowned(p) == [e \in Events |-> IF notes[e].owner = p THEN [notes[e] EXCEPT !.owner = Nobody]
                                 ELSE notes[e]]

\* Nobody reads the pipe of an orphan: the flush raises.
BrokenPipe(p) ==
    /\ At(p, "print") /\ Orphan(p)
    /\ notes' = Disowned(p)
    /\ procs' = [procs EXCEPT ![p] = Idle]
    /\ UNCHANGED <<kind, files, rows, shown, again, cut, faults>>

Marked(p, e) ==
    e \in procs[p].alerts /\ notes[e].status = "claimed" /\ notes[e].owner = p

MarkEmitted(p) ==
    /\ At(p, "mark")
    /\ notes' = [e \in Events |-> IF Marked(p, e)
                                  THEN [status |-> "emitted", owner |-> Nobody, lapsed |-> FALSE]
                                  ELSE notes[e]]
    /\ procs' = [procs EXCEPT ![p] = IF @.role = "watch" THEN [@ EXCEPT !.pc = "show"] ELSE Idle]
    /\ cut' = IF Orphan(p) THEN cut \cup {e \in Events : Marked(p, e)} ELSE cut
    /\ UNCHANGED <<kind, files, rows, shown, again, faults>>

\* sys.stdout.write of the watcher.
Show(p) ==
    /\ At(p, "show")
    /\ shown' = Shown(procs[p].alerts)
    /\ procs' = [procs EXCEPT ![p] = Idle]
    /\ UNCHANGED <<kind, files, rows, notes, again, cut, faults>>

-----------------------------------------------------------------------------
(* Failures *)

\* What is claimed under a pid or owner label that does not come back.
Orphaned(p) == [e \in Events |-> IF Mine(p, e) THEN [files[e] EXCEPT !.by = Nobody] ELSE files[e]]

\* Wrong variant: the name that goes back keeps the suffix.
PutBackNamed(p) == [e \in Events |-> IF Mine(p, e) THEN [files[e] EXCEPT !.at = "queue"] ELSE files[e]]

\* Wrong variant: the file is unlinked whether or not the import succeeded.
PutBackNot(p) == [e \in Events |-> IF Mine(p, e) THEN [at |-> "gone", by |-> Nobody] ELSE files[e]]

\* An import that raises puts its file back; that ends the run.
PutBack(p) == [e \in Events |-> IF Mine(p, e) THEN [at |-> "queue", by |-> Nobody] ELSE files[e]]

Fault == faults < MaxFaults /\ faults' = faults + 1

Ends(p) ==
    /\ ~At(p, "idle") /\ Fault
    /\ procs' = [procs EXCEPT ![p] = Idle]
    /\ notes' = Disowned(p)
    /\ cut' = IF At(p, "show") THEN cut \cup procs[p].alerts ELSE cut
    /\ UNCHANGED <<kind, rows, shown, again>>

Raises(p) == Ends(p) /\ files' = PutBack(p)
Dies(p) == Ends(p) /\ files' = Orphaned(p)

\* The watcher or the cycle is killed, the child it waits for is not. Before a print
\* that is the end of the child too (BrokenPipe), as in Dies.
Abandons(p) ==
    /\ procs[p].role \in {"watch", "cycle"}
    /\ procs[p].pc \in {"import", "rank", "find", "claim", "mark"} /\ Fault
    /\ files' = Orphaned(p)
    /\ procs' = [procs EXCEPT ![p].role = "orphan", ![p].todo = {}]
    /\ UNCHANGED <<kind, rows, notes, shown, again, cut>>

Step(p) ==
    \/ StartRun(p) \/ List(p) \/ Take(p) \/ Import(p) \/ ImportAlone(p) \/ Unlink(p) \/ Imported(p)
    \/ StartAlerts(p) \/ Rank(p) \/ FindCandidates(p) \/ ClaimAlerts(p)
    \/ PrintAlerts(p) \/ BrokenPipe(p) \/ MarkEmitted(p) \/ Show(p)

Next ==
    \/ \E e \in Events : Arrive(e) \/ Lapse(e)
    \/ \E p \in Procs : Step(p) \/ Raises(p) \/ Dies(p) \/ Abandons(p)

Spec == Init /\ [][Next]_vars

\* A run proceeds, the watcher is started every five minutes, and time passes.
FairSpec ==
    /\ Spec
    /\ \A p \in Procs : WF_vars(Step(p))
    /\ SF_vars(\E p \in Procs : StartRun(p) /\ procs'[p].role = "watch")
    /\ \A e \in Events : WF_vars(Lapse(e))

-----------------------------------------------------------------------------
(* Properties *)

TypeOK ==
    /\ kind \in [Events -> Kinds]
    /\ files \in [Events -> File]
    /\ rows \in [Events -> {"none", "new", "ranked"}]
    /\ notes \in [Events -> Note]
    /\ procs \in [Procs -> Proc]
    /\ shown \in [Events -> 0..2] /\ again \subseteq Events /\ cut \subseteq Events
    /\ faults \in 0..MaxFaults

\* Wherever runs raise or die, a file is unlinked only when its event is in the
\* inbox, and one that is being processed is in the hands of the run whose pid
\* it carries, or of a dead run, from which the next one recovers it.
NothingLost ==
    \A e \in Events :
        /\ files[e].at = "gone" => rows[e] # "none"
        /\ files[e].at = "claimed" /\ files[e].by # Nobody => e \in procs[files[e].by].file

\* A reader sees an alert twice only when a claim ran out before its mark.
RepeatedOnlyAfterLapse == \A e \in Events : shown[e] > 1 => e \in again

Handled(e) ==
    CASE kind[e] = "invalid" -> files[e].at = "quarantine"
      [] kind[e] = "plain" -> rows[e] = "ranked"
      [] kind[e] = "alert" -> shown[e] > 0 \/ e \in cut

\* Once faults stop, every event that was spooled is ranked, quarantined or
\* shown, except the alerts that were marked for a watcher which had not written
\* them when it ended.
EveryEventIsHandled == \A e \in Events : (files[e].at = "queue") ~> Handled(e)

\* README.md:368: alert delivery is persisted in SQLite; a run whose output fails
\* leaves a retryable claim (test_context_inbox.py:1262). What is emitted was
\* written, or its run is about to.
EmittedMeansShown ==
    \A e \in Events : notes[e].status = "emitted" =>
        shown[e] > 0 \/ \E p \in Procs : At(p, "show") /\ e \in procs[p].alerts
=============================================================================
