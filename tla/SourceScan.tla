------------------------------ MODULE SourceScan ------------------------------
(***************************************************************************)
(* One context source, scanned page by page into the private vault         *)
(* (SourceStore) and published from there to the context inbox:            *)
(* SourceRunner.scan_one with the reminders adapter, whose cursor rule     *)
(* the contacts, calendar and notes adapters share. The vault and the      *)
(* inbox are two databases; runs of the scanner overlap, raise, are killed *)
(* after 55 seconds, and the source is edited at any time.                 *)
(*                                                                         *)
(* A listing is the output of the source's command; its signature is the   *)
(* hash of the whole output, here the listing itself. Records are listed   *)
(* in the order of their numbers, and a record never moves to another list  *)
(* of reminders: the inbox identifies an event by its list as well.        *)
(***************************************************************************)
EXTENDS Naturals, FiniteSets

CONSTANTS Scanners,
          NumRecords,
          Open, Done,  \* texts of open and of completed reminders
          Start,       \* listings to start from
          Limit,       \* records per page
          MaxEdits,    \* bound: edits of the source
          MaxFull,     \* bound: runs with --full
          MaxFaults,   \* bound: runs that raise or are killed
          Nothing

ASSUME ScanAssumption ==
    /\ NumRecords \in Nat \ {0} /\ Limit \in Nat \ {0}
    /\ Open \cap Done = {} /\ Nothing \notin Open \cup Done
    /\ Start \subseteq [1..NumRecords -> Open \cup Done \cup {Nothing}]
    /\ {MaxEdits, MaxFull, MaxFaults} \subseteq Nat

Records == 1..NumRecords
Texts == Open \cup Done

VARIABLES listing, \* what the source holds
          cursor,  \* context_sources.cursor_json
          active,  \* a reconciliation generation is open (active_reconciliation_generation # 0)
          vault,   \* table context_derivatives
          inbox,   \* context_events of this source
          runs,    \* each scanner's run
          overtaken, \* records that changed while a run carried them to the inbox (history)
          edits, fulls, faults

vars == <<listing, cursor, active, vault, inbox, runs, overtaken, edits, fulls, faults>>
store == <<cursor, active, vault>>

Listings == [Records -> Texts \cup {Nothing}]
Listed(list) == {r \in Records : list[r] # Nothing}

NoCursor == [sig |-> Nothing, index |-> 0, reconciling |-> FALSE]
Cursors == {NoCursor} \cup [sig: Listings, index: 0..NumRecords, reconciling: BOOLEAN]

\* Generations are compared only with the open one: seen says that the row has it.
Row == [text: Texts, seen: BOOLEAN, tombstoned: BOOLEAN, published: BOOLEAN]
Event == [text: Texts, shown: BOOLEAN]
Change == [record: Records, text: Texts, tombstone: BOOLEAN]

\* Nothing is NULL, which no listing, row or event equals.
ASSUME NothingApart == Nothing \notin Listings /\ Nothing \notin Row /\ Nothing \notin Event

Run == [pc: {"idle", "scan", "commit", "pending", "apply", "mark"},
        cursor: Cursors, listing: Listings, full: BOOLEAN, retried: BOOLEAN,
        pending: SUBSET Change]

Idle == [pc |-> "idle", cursor |-> NoCursor, listing |-> [r \in Records |-> Nothing],
         full |-> FALSE, retried |-> FALSE, pending |-> {}]

Init ==
    /\ listing \in Start
    /\ cursor = NoCursor /\ active = FALSE
    /\ vault = [r \in Records |-> Nothing]
    /\ inbox = [r \in Records |-> Nothing]
    /\ runs = [s \in Scanners |-> Idle]
    /\ overtaken = {}
    /\ edits = 0 /\ fulls = 0 /\ faults = 0

\* The user adds, changes, completes or deletes a record.
Edit ==
    /\ edits < MaxEdits
    /\ \E r \in Records, t \in Texts \cup {Nothing} :
           /\ t # listing[r]
           /\ listing' = [listing EXCEPT ![r] = t]
    /\ edits' = edits + 1
    /\ UNCHANGED <<store, inbox, runs, overtaken, fulls, faults>>

-----------------------------------------------------------------------------
(* RemindersAdapter.scan: the batch a listing gives under a cursor *)

\* Wrong variant: the listing may have changed since the page before.
ContinuingAnyway(seen, list) == seen.reconciling

Continuing(seen, list) == seen.reconciling /\ seen.sig = list
Unchanged(seen, list, full) == ~full /\ ~Continuing(seen, list) /\ seen.sig = list

\* Wrong variant: every run begins at the first page.
OffsetForgotten(seen, list) == 0

Offset(seen, list) == IF Continuing(seen, list) THEN seen.index ELSE 0
Position(r, list) == Cardinality({q \in Listed(list) : q <= r})

Page(seen, list) ==
    {r \in Listed(list) : Position(r, list) \in Offset(seen, list) + 1 .. Offset(seen, list) + Limit}
More(seen, list) == Cardinality(Listed(list)) > Offset(seen, list) + Limit

\* Wrong variant: the last page is not told from the first.
NextCursorLong(seen, list) ==
    [sig |-> list,
     index |-> IF More(seen, list)
               THEN Offset(seen, list) + Cardinality(Page(seen, list)) ELSE 0,
     reconciling |-> Cardinality(Listed(list)) > Limit]

NextCursor(seen, list) ==
    [sig |-> list,
     index |-> IF More(seen, list)
               THEN Offset(seen, list) + Cardinality(Page(seen, list)) ELSE 0,
     reconciling |-> More(seen, list)]

-----------------------------------------------------------------------------
(* SourceStore.commit_batch *)

\* Wrong variant: no compare-and-swap.
AnyCursor(seen) == TRUE

SameCursor(seen) == cursor = seen

\* A row is published again when what it says changes, or when it comes back.
Upserted(old, text, complete) ==
    [text |-> text, seen |-> ~complete, tombstoned |-> FALSE,
     published |-> /\ old # Nothing /\ old.published
                   /\ old.text = text /\ ~old.tombstoned]

Tombstoned(row, complete) ==
    complete /\ row # Nothing /\ ~row.tombstoned /\ ~(active /\ row.seen)

\* Wrong variant: a tombstone stays published.
KeptQuietly(row, complete) ==
    IF row = Nothing THEN Nothing
    ELSE IF Tombstoned(row, complete) THEN [row EXCEPT !.tombstoned = TRUE, !.seen = FALSE]
    ELSE [row EXCEPT !.seen = active /\ row.seen /\ ~complete]

Kept(row, complete) ==
    IF row = Nothing THEN Nothing
    ELSE IF Tombstoned(row, complete)
    THEN [row EXCEPT !.tombstoned = TRUE, !.published = FALSE, !.seen = FALSE]
    ELSE [row EXCEPT !.seen = active /\ row.seen /\ ~complete]

\* Pages of a listing that changed in between go on in the generation that is open.
StoreBatch(seen, list, full) ==
    IF Unchanged(seen, list, full)
    THEN UNCHANGED store
    ELSE LET complete == ~More(seen, list)
         IN /\ vault' = [r \in Records |->
                            IF r \in Page(seen, list) THEN Upserted(vault[r], list[r], complete)
                            ELSE Kept(vault[r], complete)]
            /\ active' = ~complete
            /\ cursor' = NextCursor(seen, list)

-----------------------------------------------------------------------------
(* SourceRunner.scan_one *)

Publishing(s) == runs[s].pc \in {"apply", "mark"}

\* The cursor is read after the adapter found the source healthy.
ReadCursor(s) ==
    /\ runs[s].pc = "idle"
    /\ \E full \in BOOLEAN :
           /\ full => fulls < MaxFull
           /\ fulls' = IF full THEN fulls + 1 ELSE fulls
           /\ runs' = [runs EXCEPT ![s] = [Idle EXCEPT !.pc = "scan", !.full = full, !.cursor = cursor]]
    /\ UNCHANGED <<listing, store, inbox, overtaken, edits, faults>>

Scan(s) ==
    /\ runs[s].pc = "scan"
    /\ runs' = [runs EXCEPT ![s].pc = "commit", ![s].listing = listing]
    /\ UNCHANGED <<listing, store, inbox, overtaken, edits, fulls, faults>>

\* Some run has read the row of r as pending, and has not marked it yet.
UnderWay(r) == \E q \in Scanners : Publishing(q) /\ \E c \in runs[q].pending : c.record = r

\* What a row says to the inbox.
Says(row) == [text |-> row.text, tombstoned |-> row.tombstoned]

\* A batch overtakes the rows it changes under another run's publication. They
\* are out of danger when they are pending and nobody carries an older state.
Overtaking(r) ==
    \/ UnderWay(r) /\ Says(vault'[r]) # Says(vault[r])
    \/ r \in overtaken /\ (UnderWay(r) \/ vault'[r].published)

Commit(s) ==
    /\ runs[s].pc = "commit" /\ SameCursor(runs[s].cursor)
    /\ StoreBatch(runs[s].cursor, runs[s].listing, runs[s].full)
    /\ runs' = [runs EXCEPT ![s] = [Idle EXCEPT !.pc = "pending"]]
    /\ overtaken' = {r \in Records : Overtaking(r)}
    /\ UNCHANGED <<listing, inbox, edits, fulls, faults>>

\* A concurrent run won: the cursor is read and the source scanned once more.
Conflict(s) ==
    /\ runs[s].pc = "commit" /\ ~SameCursor(runs[s].cursor)
    /\ runs' = [runs EXCEPT ![s] =
                   IF runs[s].retried THEN Idle
                   ELSE [runs[s] EXCEPT !.pc = "scan", !.cursor = cursor, !.retried = TRUE]]
    /\ UNCHANGED <<listing, store, inbox, overtaken, edits, fulls, faults>>

\* pending_changes: a row that may not be exported is published as a tombstone.
PendingChanges ==
    {[record |-> r, text |-> vault[r].text,
      tombstone |-> vault[r].tombstoned \/ vault[r].text \in Done] :
        r \in {q \in Records : vault[q] # Nothing /\ ~vault[q].published}}

ReadPending(s) ==
    /\ runs[s].pc = "pending"
    /\ runs' = [runs EXCEPT ![s] = IF PendingChanges = {} THEN Idle
                                   ELSE [Idle EXCEPT !.pc = "apply", !.pending = PendingChanges]]
    /\ UNCHANGED <<listing, store, inbox, overtaken, edits, fulls, faults>>

\* apply_derivative_changes. A tombstone for an event the inbox never had is skipped.
Applied(event, change) ==
    IF ~change.tombstone THEN [text |-> change.text, shown |-> TRUE]
    ELSE IF event = Nothing THEN Nothing
    ELSE [event EXCEPT !.shown = FALSE]

ApplyChanges(s) ==
    /\ runs[s].pc = "apply"
    /\ inbox' = [r \in Records |->
                    IF \E c \in runs[s].pending : c.record = r
                    THEN Applied(inbox[r], CHOOSE c \in runs[s].pending : c.record = r)
                    ELSE inbox[r]]
    /\ runs' = [runs EXCEPT ![s].pc = "mark"]
    /\ UNCHANGED <<listing, store, overtaken, edits, fulls, faults>>

Marked(changes) == {c.record : c \in changes}

\* mark_published names rows, not what they said when they were read.
MarkPublished(s) ==
    /\ runs[s].pc = "mark"
    /\ vault' = [r \in Records |-> IF r \in Marked(runs[s].pending) /\ vault[r] # Nothing
                                   THEN [vault[r] EXCEPT !.published = TRUE] ELSE vault[r]]
    /\ runs' = [runs EXCEPT ![s] = Idle]
    /\ UNCHANGED <<listing, cursor, active, inbox, overtaken, edits, fulls, faults>>

\* A run raises (record_failure leaves the cursor alone) or is killed.
Fail(s) ==
    /\ runs[s].pc # "idle" /\ faults < MaxFaults
    /\ runs' = [runs EXCEPT ![s] = Idle]
    /\ faults' = faults + 1
    /\ UNCHANGED <<listing, store, inbox, overtaken, edits, fulls>>

Step(s) ==
    \/ ReadCursor(s) \/ Scan(s) \/ Commit(s) \/ Conflict(s)
    \/ ReadPending(s) \/ ApplyChanges(s) \/ MarkPublished(s)

Next == Edit \/ \E s \in Scanners : Step(s) \/ Fail(s)

Spec == Init /\ [][Next]_vars

\* The watcher runs every half hour and a run that started proceeds.
FairSpec == Spec /\ \A s \in Scanners : WF_vars(Step(s))

-----------------------------------------------------------------------------
(* Properties *)

\* Types, and: a generation is open exactly while the cursor says so.
TypeOK ==
    /\ listing \in Listings /\ cursor \in Cursors
    /\ active = cursor.reconciling
    /\ vault \in [Records -> Row \cup {Nothing}]
    /\ inbox \in [Records -> Event \cup {Nothing}]
    /\ runs \in [Scanners -> Run]
    /\ overtaken \subseteq Records
    /\ edits \in 0..MaxEdits /\ fulls \in 0..MaxFull /\ faults \in 0..MaxFaults

\* A row becomes a tombstone only when the listing that closes the generation
\* does not hold its record, however pages, runs and edits interleave (README:
\* a capped or partial generation never tombstones unseen rows).
TombstonesOnlyAbsent ==
    [][\A r \in Records : vault[r] # Nothing /\ ~vault[r].tombstoned /\ vault'[r].tombstoned
           => cursor'.sig[r] = Nothing /\ ~cursor'.reconciling]_vars

\* Between reconciliations the vault holds everything the cursor's listing held,
\* as it was: what lets the next run skip a source whose output is unchanged.
ReconciledIsStored ==
    cursor # NoCursor /\ ~cursor.reconciling =>
        \A r \in Listed(cursor.sig) :
            vault[r] # Nothing /\ ~vault[r].tombstoned /\ vault[r].text = cursor.sig[r]

Agrees(event, row) ==
    IF row.tombstoned \/ row.text \in Done
    THEN event = Nothing \/ ~event.shown
    ELSE event = [text |-> row.text, shown |-> TRUE]

\* What is marked published is what the inbox says, across failed and killed
\* runs and a second run at any point, but for the records it has overtaken:
\* changed between another run's reading of the pending rows and its mark, and
\* not again since.
PublishedMeansApplied ==
    \A r \in Records \ overtaken :
        vault[r] # Nothing /\ vault[r].published => Agrees(inbox[r], vault[r])

Arrived(r) ==
    listing[r] # Nothing => Agrees(inbox[r], [text |-> listing[r], tombstoned |-> FALSE])

\* Every record the source goes on listing is in the inbox as listed, in the end:
\* an edit between two pages, a lost compare-and-swap or a killed run only delays
\* it. The exception is a record that was overtaken: what it said then is lost,
\* until its row changes again with no publication of it under way.
EditsArrive == <>[](\A r \in Records \ overtaken : Arrived(r))

\* README.md:392: completed reconciliation generations propagate source tombstones
\* into the inbox. When a generation is complete, a record its last listing does
\* not hold is a tombstone.
CompletedIsWhole ==
    cursor # NoCursor /\ ~cursor.reconciling =>
        \A r \in Records \ Listed(cursor.sig) : vault[r] = Nothing \/ vault[r].tombstoned
=============================================================================
