----------------------------- MODULE DreamReports -----------------------------
(***************************************************************************)
(* Delivery of Dream reports (dreaming/store.py: claim_report, ack_report, *)
(* release_report_claim, save_report_delivery_snapshot).  Two programs     *)
(* claim from one table: the morning report (operations.py), which takes   *)
(* the newest report of its local day and supersedes the others of that    *)
(* day, and "dream-report --claim" (cli.py), which takes the newest of     *)
(* any day.  Each invocation has a claim owner of its own, claims once,    *)
(* writes to stdout and acknowledges; it may fail or die anywhere.         *)
(*                                                                         *)
(* Reports are numbered in the order of created_at.  The clock counts in   *)
(* units that are long against the wait for the database lock.  Rows taken *)
(* by retention are not part of this module.                               *)
(***************************************************************************)
EXTENDS Integers, FiniteSets

CONSTANTS Morning, Cli,    \* invocations of the two programs
          Texts,           \* what the rendering may say at different times
          MaxReports,      \* bound: reports created
          ClaimTime,       \* claim_seconds
          DayLength,
          MaxTime,         \* bound: the clock
          None

Deliveries == Morning \cup Cli
Reports == 1..MaxReports

ASSUME ReportsAssumption ==
  /\ {MaxReports, MaxTime} \subseteq Nat
  /\ {ClaimTime, DayLength} \subseteq Nat \ {0}
  /\ Morning \cap Cli = {} /\ IsFiniteSet(Deliveries)
  /\ None \notin Deliveries \cup Texts \cup Nat

VARIABLES clock,
          row,      \* table reports
          pc, at, text,  \* each invocation: step, report, rendering
          sent,     \* history: texts the morning report wrote, per report
          writes,   \* history: how often a report was written
          retried   \* history: reports whose claim expired or was given back

vars == <<clock, row, pc, at, text, sent, writes, retried>>

Row == [created : 0..MaxTime \cup {None}, claimed : 0..MaxTime \cup {None},
        owner : Deliveries \cup {None}, delivered : BOOLEAN,
        snapshot : Texts \cup {None}, by : Reports \cup {None}]

TypeOK ==
  /\ clock \in 0..MaxTime
  /\ row \in [Reports -> Row]
  /\ pc \in [Deliveries -> {"new", "render", "save", "write", "ack", "release",
                            "done"}]
  /\ at \in [Deliveries -> Reports \cup {None}]
  /\ text \in [Deliveries -> Texts \cup {None}]
  /\ sent \subseteq Reports \X Texts
  /\ writes \in [Reports -> 0..Cardinality(Deliveries)]
  /\ retried \subseteq Reports

Init ==
  /\ clock = 0
  /\ row = [r \in Reports |->
              [created |-> None, claimed |-> None, owner |-> None,
               delivered |-> FALSE, snapshot |-> None, by |-> None]]
  /\ pc = [d \in Deliveries |-> "new"]
  /\ at = [d \in Deliveries |-> None]
  /\ text = [d \in Deliveries |-> None]
  /\ sent = {}
  /\ writes = [r \in Reports |-> 0]
  /\ retried = {}

Go(d, from, to) == pc[d] = from /\ pc' = [pc EXCEPT ![d] = to]

Tick ==
  /\ clock < MaxTime
  /\ clock' = clock + 1
  /\ UNCHANGED <<row, pc, at, text, sent, writes, retried>>

\* A sweep commits a publication: the next report row appears.
Publish ==
  /\ \E r \in Reports :
       /\ row[r].created = None
       /\ \A q \in Reports : q < r => row[q].created # None
       /\ row' = [row EXCEPT ![r].created = clock]
  /\ UNCHANGED <<clock, pc, at, text, sent, writes, retried>>

Open(r) == row[r].created # None /\ ~ row[r].delivered /\ row[r].by = None
Unclaimed(r) == row[r].claimed = None \/ row[r].claimed <= clock - ClaimTime
\* Wrong variant: no day bounds.
AnyDay(r) == TRUE
Today(r) == row[r].created \div DayLength = clock \div DayLength
\* The report a claim takes among those it may take: ORDER BY created_at DESC.
Newest(r, set) == r \in set /\ \A q \in set : q <= r

\* Wrong variant: the expiry is stored where the time of the claim belongs.
ClaimedUntil(d, r, rows) ==
  [rows EXCEPT ![r].claimed = clock + ClaimTime, ![r].owner = d]

ClaimedBy(d, r, rows) ==
  [rows EXCEPT ![r].claimed = clock, ![r].owner = d]
\* History: the claim it takes over has expired.
Retry(r) ==
  retried' = IF row[r].claimed # None /\ row[r].claimed <= clock - ClaimTime
             THEN retried \cup {r} ELSE retried

\* The claim for a day supersedes what is left open of that day.
Superseded(r) ==
  [q \in Reports |-> IF q # r /\ Open(q) /\ Today(q)
                     THEN [row[q] EXCEPT !.by = r] ELSE row[q]]

NothingToClaim(d, set) ==
  /\ set = {}
  /\ Go(d, "new", "done")
  /\ UNCHANGED <<row, at, text, retried>>

\* claim_morning_report: claim with the bounds of the local day; a rendering
\* saved by an earlier claim is used as it is.
ClaimMorning(d) ==
  /\ LET set == {r \in Reports : Open(r) /\ Unclaimed(r) /\ Today(r)} IN
     \/ NothingToClaim(d, set)
     \/ \E r \in Reports :
          /\ Newest(r, set)
          /\ row' = ClaimedBy(d, r, Superseded(r))
          /\ at' = [at EXCEPT ![d] = r]
          /\ Retry(r)
          /\ text' = [text EXCEPT ![d] = row[r].snapshot]
          /\ Go(d, "new", IF row[r].snapshot = None THEN "render" ELSE "write")
  /\ UNCHANGED <<clock, sent, writes>>

\* claim_dream_report: no day, nothing superseded; the text is the report file.
ClaimCli(d) ==
  /\ LET set == {r \in Reports : Open(r) /\ Unclaimed(r)} IN
     \/ NothingToClaim(d, set)
     \/ \E r \in Reports :
          /\ Newest(r, set)
          /\ row' = ClaimedBy(d, r, row)
          /\ at' = [at EXCEPT ![d] = r]
          /\ Retry(r)
          /\ Go(d, "new", "write")
          /\ UNCHANGED text
  /\ UNCHANGED <<clock, sent, writes>>

\* build_morning_report reads four databases as they are now.
Render(d) ==
  /\ Go(d, "render", "save")
  /\ \E t \in Texts : text' = [text EXCEPT ![d] = t]
  /\ UNCHANGED <<clock, row, at, sent, writes, retried>>

\* Wrong variant: a claim already taken over or superseded still counts.
HoldsAny(d, r) == row[r].claimed # None /\ ~ row[r].delivered

\* The claim the call names is still its own and still open.
Holds(d, r) ==
  /\ row[r].owner = d
  /\ row[r].claimed # None
  /\ ~ row[r].delivered
  /\ row[r].by = None

\* Wrong variant: the last rendering is kept, whoever holds the claim.
SaveLast(d) ==
  /\ Go(d, "save", "write")
  /\ row' = [row EXCEPT ![at[d]].snapshot = text[d]]
  /\ UNCHANGED <<clock, at, text, sent, writes, retried>>

\* save_report_delivery_snapshot keeps the first rendering and returns it; a
\* claim that was lost raises.
Save(d) ==
  /\ pc[d] = "save"
  /\ LET r == at[d] IN
     IF ~ Holds(d, r)
     THEN /\ pc' = [pc EXCEPT ![d] = "release"]
          /\ UNCHANGED <<row, text>>
     ELSE /\ pc' = [pc EXCEPT ![d] = "write"]
          /\ IF row[r].snapshot = None
             THEN row' = [row EXCEPT ![r].snapshot = text[d]] /\ UNCHANGED text
             ELSE text' = [text EXCEPT ![d] = row[r].snapshot] /\ UNCHANGED row
  /\ UNCHANGED <<clock, at, sent, writes, retried>>

\* stdout: write and flush.
Write(d) ==
  /\ Go(d, "write", "ack")
  /\ writes' = [writes EXCEPT ![at[d]] = @ + 1]
  /\ sent' = IF d \in Morning THEN sent \cup {<<at[d], text[d]>>} ELSE sent
  /\ UNCHANGED <<clock, row, at, text, retried>>

\* ack_report; an acknowledgement that matches no row leads to release.
Ack(d) ==
  /\ pc[d] = "ack"
  /\ IF Holds(d, at[d])
     THEN /\ pc' = [pc EXCEPT ![d] = "done"]
          /\ row' = [row EXCEPT ![at[d]].delivered = TRUE]
     ELSE /\ pc' = [pc EXCEPT ![d] = "release"]
          /\ UNCHANGED row
  /\ UNCHANGED <<clock, at, text, sent, writes, retried>>

\* release_report_claim.
Release(d) ==
  /\ Go(d, "release", "done")
  /\ LET r == at[d] IN
     IF row[r].owner = d /\ ~ row[r].delivered /\ row[r].by = None
     THEN /\ row' = [row EXCEPT ![r].claimed = None, ![r].owner = None]
          /\ retried' = retried \cup {r}
     ELSE UNCHANGED <<row, retried>>
  /\ UNCHANGED <<clock, at, text, sent, writes>>

\* The next call raises, or the process dies.
Raise(d) ==
  /\ pc[d] \in {"render", "save", "write", "ack"}
  /\ pc' = [pc EXCEPT ![d] = "release"]
  /\ UNCHANGED <<clock, row, at, text, sent, writes, retried>>

Crash(d) ==
  /\ pc[d] \notin {"new", "done"}
  /\ pc' = [pc EXCEPT ![d] = "done"]
  /\ UNCHANGED <<clock, row, at, text, sent, writes, retried>>

Next ==
  \/ Tick \/ Publish
  \/ \E d \in Morning : ClaimMorning(d)
  \/ \E d \in Cli : ClaimCli(d)
  \/ \E d \in Deliveries : \/ Render(d) \/ Save(d) \/ Write(d) \/ Ack(d)
                           \/ Release(d) \/ Raise(d) \/ Crash(d)

Spec == Init /\ [][Next]_vars

-----------------------------------------------------------------------------
(* Properties.                                                             *)

\* However often the morning report of one Liefer-ID is written, by whatever
\* retry, it says the same.
OneTextPerReport ==
  \A r \in Reports : \A x, y \in sent : x[1] = r /\ y[1] = r => x = y

\* A report counts as delivered only if it was written, and then nothing has
\* superseded it.
DeliveredWasWritten ==
  \A r \in Reports : row[r].delivered => writes[r] > 0 /\ row[r].by = None

\* Without an expired or returned claim a report is written once.
WrittenOnce ==
  \A r \in Reports : writes[r] > 1 => r \in retried

\* A claim supersedes older triggers (docstring of claim_report, store.py:1240):
\* what a report is superseded by is newer.
SupersededByNewer ==
  \A r \in Reports : row[r].by # None => row[r].by > r

\* Supersession leaves no day without a report: while one report of a day is
\* superseded, another is not, and is delivered or can still be claimed.
DayIsNotLost ==
  \A r \in Reports : row[r].by # None =>
    \E q \in Reports : /\ row[q].by = None
                       /\ row[q].created \div DayLength
                            = row[r].created \div DayLength
=============================================================================
