------------------------- MODULE DreamReportsProofs -------------------------
(* Theorems about report delivery, for any invocations, reports and times. *)
EXTENDS DreamReports, FiniteSetTheorems, TLAPS

\* What the bounds of TypeOK leave out of a proof: how often is just a number.
Types ==
  /\ clock \in 0..MaxTime
  /\ row \in [Reports -> Row]
  /\ pc \in [Deliveries -> {"new", "render", "save", "write", "ack", "release",
                            "done"}]
  /\ at \in [Deliveries -> Reports \cup {None}]
  /\ text \in [Deliveries -> Texts \cup {None}]
  /\ sent \subseteq Reports \X Texts
  /\ writes \in [Reports -> Nat]
  /\ retried \subseteq Reports

\* An invocation at work has a report; one that has not started has none, and
\* only the morning report renders.
Placed ==
  \A d \in Deliveries :
    /\ pc[d] = "new" => at[d] = None
    /\ pc[d] \in {"render", "save", "write", "ack", "release"} => at[d] \in Reports
    /\ pc[d] \in {"render", "save"} => d \in Morning
    /\ pc[d] = "save" => text[d] \in Texts

\* What is about to be written, and what was, is the saved snapshot.
Frozen ==
  /\ \A d \in Morning : pc[d] = "write" => /\ text[d] \in Texts
                                           /\ row[at[d]].snapshot = text[d]
  /\ \A r \in Reports, t \in Texts : <<r, t>> \in sent => row[r].snapshot = t

\* An acknowledgement follows a write.
Written ==
  /\ \A d \in Deliveries : pc[d] = "ack" => writes[at[d]] > 0
  /\ \A r \in Reports : row[r].delivered => writes[r] > 0 /\ row[r].by = None

\* A report never retried belongs to one invocation at most, which writes once.
SingleFor(r) ==
  /\ writes[r] <= 1
  /\ row[r].claimed = None => writes[r] = 0
  /\ \A d \in Deliveries : at[d] = r =>
       /\ row[r].claimed # None
       /\ pc[d] \in {"render", "save", "write"} => writes[r] = 0
       /\ \A e \in Deliveries : at[e] = r => d = e

Single == \A r \in Reports : r \notin retried => SingleFor(r)

\* A superseded report leaves another of its day.
DayKept ==
  \A r \in Reports : row[r].by # None =>
    /\ row[r].created # None
    /\ \E q \in Reports : /\ row[q].by = None
                          /\ row[q].created # None
                          /\ row[q].created \div DayLength
                               = row[r].created \div DayLength

Inv == Types /\ Placed /\ Frozen /\ Written /\ Single /\ DayKept

USE DEF Deliveries

LEMMA InitInv == Init => Inv
<1> SUFFICES ASSUME Init PROVE Inv
  OBVIOUS
<1> USE ReportsAssumption DEF Init
<1>1. Types
  BY DEF Types, Row
<1>2. Placed /\ Frozen /\ Written /\ Single /\ DayKept
  BY DEF Placed, Frozen, Written, Single, SingleFor, DayKept, Reports
<1> QED
  BY <1>1, <1>2 DEF Inv

-----------------------------------------------------------------------------
(* Claims. *)

\* What both claims do to the table: the report goes to d, rows left open may
\* be superseded by it.
ClaimStep(d, r) ==
  /\ pc[d] = "new"
  /\ Open(r) /\ Unclaimed(r)
  /\ row'[r] = [row[r] EXCEPT !.claimed = clock, !.owner = d]
  /\ row' \in [Reports -> Row]
  /\ \A q \in Reports \ {r} : \/ row'[q] = row[q]
                              \/ /\ Open(q) /\ Today(q) /\ Today(r)
                                 /\ row'[q] = [row[q] EXCEPT !.by = r]
  /\ at' = [at EXCEPT ![d] = r]
  /\ Retry(r)
  /\ UNCHANGED <<clock, sent, writes>>

LEMMA MorningIsClaim ==
  ASSUME Types, NEW d \in Morning, NEW r \in Reports,
         Open(r), Unclaimed(r), Today(r),
         row' = ClaimedBy(d, r, Superseded(r))
  PROVE  /\ row' \in [Reports -> Row]
         /\ row'[r] = [row[r] EXCEPT !.claimed = clock, !.owner = d]
         /\ \A q \in Reports \ {r} : \/ row'[q] = row[q]
                                     \/ /\ Open(q) /\ Today(q)
                                        /\ row'[q] = [row[q] EXCEPT !.by = r]
<1>1. Superseded(r) \in [Reports -> Row] /\ Superseded(r)[r] = row[r]
  BY DEF Superseded, Types, Row
<1>2. row' = [Superseded(r) EXCEPT ![r] =
                [Superseded(r)[r] EXCEPT !.claimed = clock, !.owner = d]]
  BY <1>1 DEF ClaimedBy, Row
<1>3. row'[r] = [row[r] EXCEPT !.claimed = clock, !.owner = d]
  BY <1>1, <1>2
<1>4. row'[r] \in Row
  <2>1. row[r] \in Row /\ clock \in 0..MaxTime
    BY DEF Types
  <2> QED
    BY <1>3, <2>1 DEF Row
<1> QED
  BY <1>1, <1>2, <1>3, <1>4 DEF Superseded

LEMMA CliIsClaim ==
  ASSUME Types, NEW d \in Cli, NEW r \in Reports, row' = ClaimedBy(d, r, row)
  PROVE  /\ row' \in [Reports -> Row]
         /\ row'[r] = [row[r] EXCEPT !.claimed = clock, !.owner = d]
         /\ \A q \in Reports \ {r} : row'[q] = row[q]
<1>1. row' = [row EXCEPT ![r] = [row[r] EXCEPT !.claimed = clock, !.owner = d]]
  BY DEF ClaimedBy, Types, Row
<1>2. [row[r] EXCEPT !.claimed = clock, !.owner = d] \in Row
  <2>1. row[r] \in Row /\ clock \in 0..MaxTime
    BY DEF Types
  <2> QED
    BY <2>1 DEF Row
<1> QED
  BY <1>1, <1>2 DEF Types

\* A claim of any kind keeps everything but the claimant's own step.
LEMMA ClaimKeeps ==
  ASSUME Inv, NEW d \in Deliveries, NEW r \in Reports, ClaimStep(d, r),
         pc' \in {[pc EXCEPT ![d] = s] : s \in {"render", "write"}}
  PROVE  /\ \A q \in Reports : /\ row'[q].snapshot = row[q].snapshot
                               /\ row'[q].delivered = row[q].delivered
                               /\ row'[q].created = row[q].created
         /\ Written' /\ Single' /\ DayKept'
<1> USE ReportsAssumption
<1>1. \A q \in Reports : row[q] \in Row
  BY DEF Inv, Types
<1>2. \A q \in Reports : /\ row'[q].snapshot = row[q].snapshot
                         /\ row'[q].delivered = row[q].delivered
                         /\ row'[q].created = row[q].created
                         /\ q # r => row'[q].claimed = row[q].claimed
  <2> TAKE q \in Reports
  <2>1. row[q] \in Row
    BY <1>1
  <2>2. CASE q = r
    BY <2>1, <2>2 DEF ClaimStep, Row
  <2>3. CASE q # r /\ row'[q] = row[q]
    BY <2>3
  <2>4. CASE q # r /\ row'[q] = [row[q] EXCEPT !.by = r]
    BY <2>1, <2>4 DEF Row
  <2> QED
    BY <2>2, <2>3, <2>4 DEF ClaimStep
<1>3. row'[r].claimed = clock /\ row'[r].by = None /\ clock # None
  BY <1>1 DEF ClaimStep, Row, Open, Inv, Types
<1>4. \A q \in Reports : row'[q].by # row[q].by => Open(q) /\ Today(q) /\ Today(r)
  BY <1>1, <1>3 DEF ClaimStep, Row, Open
<1>5. \A e \in Deliveries \ {d} : pc'[e] = pc[e] /\ at'[e] = at[e]
  BY DEF ClaimStep, Inv, Types
<1>6. /\ pc'[d] \in {"render", "write"} /\ at'[d] = r
      /\ writes' = writes /\ clock' = clock
  BY DEF ClaimStep, Inv, Types
<1>7. Written'
  BY <1>2, <1>4, <1>5, <1>6 DEF Inv, Written, Open
<1>8. Single'
  <2> SUFFICES ASSUME NEW q \in Reports, q \notin retried'
               PROVE  SingleFor(q)'
    BY DEF Single
  <2>1. q \notin retried /\ SingleFor(q)
    BY DEF ClaimStep, Retry, Inv, Single, Types
  <2>2. CASE q # r
    BY <2>1, <2>2, <1>2, <1>5, <1>6 DEF SingleFor
  <2>3. CASE q = r
    <3>1. row[r].claimed = None
      BY <2>3 DEF ClaimStep, Retry, Unclaimed, Inv, Types
    <3>2. writes[r] = 0 /\ \A e \in Deliveries : at[e] # r
      BY <3>1, <2>1, <2>3 DEF SingleFor
    <3> QED
      BY <3>2, <2>3, <1>3, <1>5, <1>6 DEF SingleFor
  <2> QED
    BY <2>2, <2>3
<1>9. DayKept'
  <2> SUFFICES ASSUME NEW q \in Reports, row'[q].by # None
               PROVE  /\ row'[q].created # None
                      /\ \E w \in Reports : /\ row'[w].by = None
                                            /\ row'[w].created # None
                                            /\ row'[w].created \div DayLength
                                                 = row'[q].created \div DayLength
    BY DEF DayKept
  <2>1. CASE row[q].by = None
    <3>1. Open(q) /\ Today(q) /\ Today(r)
      BY <2>1, <1>4
    <3>2. row'[q].created # None /\ row'[r].created # None
      BY <3>1, <1>2 DEF ClaimStep, Open
    <3>3. row'[r].created \div DayLength = row'[q].created \div DayLength
      BY <3>1, <1>2 DEF Today
    <3> QED
      BY <3>2, <3>3, <1>3
  <2>2. CASE row[q].by # None
    <3>1. PICK w \in Reports : /\ row[w].by = None
                               /\ row[w].created # None
                               /\ row[w].created \div DayLength
                                    = row[q].created \div DayLength
      BY <2>2 DEF Inv, DayKept
    <3>2. row[q].created # None
      BY <2>2 DEF Inv, DayKept
    <3>3. CASE row'[w].by = None
      BY <3>1, <3>2, <3>3, <1>2
    <3>4. CASE row'[w].by # None
      <4>1. Today(w) /\ Today(r)
        BY <3>1, <3>4, <1>4
      <4> QED
        BY <4>1, <3>1, <3>2, <1>2, <1>3 DEF ClaimStep, Open, Today
    <3> QED
      BY <3>3, <3>4
  <2> QED
    BY <2>1, <2>2
<1> QED
  BY <1>2, <1>7, <1>8, <1>9

\* An invocation that finds nothing only ends.
LEMMA NothingStep ==
  ASSUME Inv, NEW d \in Deliveries, NEW set, NothingToClaim(d, set),
         UNCHANGED <<clock, sent, writes>>
  PROVE  Inv'
<1> USE DEF NothingToClaim, Go
<1>1. Types'
  BY DEF Inv, Types
<1>2. \A e \in Deliveries : pc'[e] \in {pc[e], "done"}
  BY DEF Inv, Types
<1>3. Placed' /\ Frozen' /\ Written'
  BY <1>2 DEF Inv, Placed, Frozen, Written
<1>4. Single'
  BY <1>2 DEF Inv, Single, SingleFor
<1>5. DayKept'
  BY DEF Inv, DayKept
<1> QED
  BY <1>1, <1>3, <1>4, <1>5 DEF Inv

LEMMA ClaimMorningStep ==
  ASSUME Inv, NEW d \in Morning, ClaimMorning(d)
  PROVE  Inv'
<1> DEFINE set == {r \in Reports : Open(r) /\ Unclaimed(r) /\ Today(r)}
<1>1. CASE NothingToClaim(d, set)
  BY <1>1, NothingStep DEF ClaimMorning
<1>2. CASE ~ NothingToClaim(d, set)
  <2>1. PICK r \in Reports :
          /\ Newest(r, set)
          /\ row' = ClaimedBy(d, r, Superseded(r))
          /\ at' = [at EXCEPT ![d] = r]
          /\ Retry(r)
          /\ text' = [text EXCEPT ![d] = row[r].snapshot]
          /\ Go(d, "new", IF row[r].snapshot = None THEN "render" ELSE "write")
    BY <1>2 DEF ClaimMorning
  <2>2. Open(r) /\ Unclaimed(r) /\ Today(r)
    BY <2>1 DEF Newest
  <2>3. ClaimStep(d, r)
    BY <2>1, <2>2, MorningIsClaim DEF Inv, ClaimStep, Go, ClaimMorning
  <2>4. pc' \in {[pc EXCEPT ![d] = s] : s \in {"render", "write"}}
    BY <2>1 DEF Go
  <2>5. /\ \A q \in Reports : row'[q].snapshot = row[q].snapshot
        /\ Written' /\ Single' /\ DayKept'
    BY <2>3, <2>4, ClaimKeeps
  <2>6. row[r].snapshot \in Texts \cup {None}
    BY DEF Inv, Types, Row
  <2>7. Types'
    BY <2>1, <2>3, <2>4, <2>6 DEF Inv, Types, ClaimStep, Retry
  <2>8. \A e \in Deliveries \ {d} :
          pc'[e] = pc[e] /\ at'[e] = at[e] /\ text'[e] = text[e]
    BY <2>1 DEF Inv, Types, Go
  <2>9. /\ at'[d] = r /\ text'[d] = row[r].snapshot
        /\ pc'[d] = IF row[r].snapshot = None THEN "render" ELSE "write"
    BY <2>1 DEF Inv, Types, Go
  <2>10. Placed'
    BY <2>8, <2>9 DEF Inv, Placed
  <2>11. Frozen'
    <3>1. \A e \in Morning : pc'[e] = "write" => at'[e] \in Reports
      BY <2>8, <2>9 DEF Inv, Placed
    <3>2. ASSUME NEW e \in Morning, pc'[e] = "write"
          PROVE  text'[e] \in Texts /\ row'[at'[e]].snapshot = text'[e]
      <4>1. CASE e = d
        BY <3>2, <4>1, <2>5, <2>6, <2>9
      <4>2. CASE e # d
        BY <3>1, <3>2, <4>2, <2>5, <2>8 DEF Inv, Frozen
      <4> QED
        BY <4>1, <4>2
    <3> QED
      BY <3>2, <2>3, <2>5 DEF Inv, Frozen, ClaimStep
  <2> QED
    BY <2>5, <2>7, <2>10, <2>11 DEF Inv
<1> QED
  BY <1>1, <1>2

LEMMA ClaimCliStep ==
  ASSUME Inv, NEW d \in Cli, ClaimCli(d)
  PROVE  Inv'
<1> DEFINE set == {r \in Reports : Open(r) /\ Unclaimed(r)}
<1>1. CASE NothingToClaim(d, set)
  BY <1>1, NothingStep DEF ClaimCli
<1>2. CASE ~ NothingToClaim(d, set)
  <2>1. PICK r \in Reports :
          /\ Newest(r, set)
          /\ row' = ClaimedBy(d, r, row)
          /\ at' = [at EXCEPT ![d] = r]
          /\ Retry(r)
          /\ Go(d, "new", "write")
          /\ UNCHANGED text
    BY <1>2 DEF ClaimCli
  <2>2. Open(r) /\ Unclaimed(r)
    BY <2>1 DEF Newest
  <2>3. ClaimStep(d, r)
    BY <2>1, <2>2, CliIsClaim DEF Inv, ClaimStep, Go, ClaimCli
  <2>4. pc' \in {[pc EXCEPT ![d] = s] : s \in {"render", "write"}}
    BY <2>1 DEF Go
  <2>5. /\ \A q \in Reports : row'[q].snapshot = row[q].snapshot
        /\ Written' /\ Single' /\ DayKept'
    BY <2>3, <2>4, ClaimKeeps
  <2>6. Types'
    BY <2>1, <2>3, <2>4 DEF Inv, Types, ClaimStep, Retry
  <2>7. \A e \in Deliveries \ {d} : pc'[e] = pc[e] /\ at'[e] = at[e]
    BY <2>1 DEF Inv, Types, Go
  <2>8. at'[d] = r /\ pc'[d] = "write" /\ d \notin Morning
    BY <2>1, ReportsAssumption DEF Inv, Types, Go
  <2>9. Placed'
    BY <2>1, <2>7, <2>8 DEF Inv, Placed
  <2>10. Frozen'
    <3>1. \A e \in Morning : pc'[e] = "write" => at'[e] \in Reports
      BY <2>7, <2>8 DEF Inv, Placed
    <3> QED
      BY <3>1, <2>1, <2>3, <2>5, <2>7, <2>8 DEF Inv, Frozen, ClaimStep
  <2> QED
    BY <2>5, <2>6, <2>9, <2>10 DEF Inv
<1> QED
  BY <1>1, <1>2

-----------------------------------------------------------------------------
(* Steps of one invocation. *)

LEMMA RenderStep ==
  ASSUME Inv, NEW d \in Deliveries, Render(d)
  PROVE  Inv'
<1> USE DEF Render, Go
<1>1. Types'
  BY DEF Inv, Types
<1>2. /\ \A e \in Deliveries \ {d} : pc'[e] = pc[e] /\ text'[e] = text[e]
      /\ pc[d] = "render" /\ pc'[d] = "save" /\ text'[d] \in Texts
  BY DEF Inv, Types
<1>3. Placed' /\ Frozen' /\ Written'
  BY <1>2 DEF Inv, Placed, Frozen, Written
<1>4. Single'
  BY <1>2 DEF Inv, Single, SingleFor
<1>5. DayKept'
  BY DEF Inv, DayKept
<1> QED
  BY <1>1, <1>3, <1>4, <1>5 DEF Inv

\* The next call raises, or the process dies.
LEMMA FaultStep ==
  ASSUME Inv, NEW d \in Deliveries, Raise(d) \/ Crash(d)
  PROVE  Inv'
<1> USE DEF Raise, Crash
<1>1. Types'
  BY DEF Inv, Types
<1>2. /\ \A e \in Deliveries \ {d} : pc'[e] = pc[e]
      /\ \/ pc'[d] = "done"
         \/ pc[d] \in {"render", "save", "write", "ack"} /\ pc'[d] = "release"
  BY DEF Inv, Types
<1>3. Placed' /\ Frozen' /\ Written'
  BY <1>2 DEF Inv, Placed, Frozen, Written
<1>4. Single'
  BY <1>2 DEF Inv, Single, SingleFor
<1>5. DayKept'
  BY DEF Inv, DayKept
<1> QED
  BY <1>1, <1>3, <1>4, <1>5 DEF Inv

\* The first rendering of a report is kept; every later one is dropped for it.
LEMMA SaveStep ==
  ASSUME Inv, NEW d \in Deliveries, Save(d)
  PROVE  Inv'
<1> DEFINE r == at[d]
<1>1. /\ r \in Reports /\ d \in Morning /\ text[d] \in Texts /\ row[r] \in Row
      /\ pc[d] = "save"
  BY DEF Save, Inv, Placed, Types
<1>2. /\ \A e \in Deliveries \ {d} : pc'[e] = pc[e] /\ text'[e] = text[e]
      /\ pc'[d] \in {"write", "release"}
  BY <1>1 DEF Save, Inv, Types
<1>3. \/ row' = row
      \/ row[r].snapshot = None
         /\ row' = [row EXCEPT ![r] = [row[r] EXCEPT !.snapshot = text[d]]]
  BY <1>1 DEF Save, Inv, Types
<1>4. \A q \in Reports : /\ row'[q].snapshot = row[q].snapshot
                            \/ row[q].snapshot = None
                         /\ row'[q].claimed = row[q].claimed
                         /\ row'[q].delivered = row[q].delivered
                         /\ row'[q].created = row[q].created
                         /\ row'[q].by = row[q].by
  BY <1>1, <1>3 DEF Inv, Types, Row
<1>5. /\ at' = at /\ sent' = sent /\ writes' = writes /\ retried' = retried
      /\ clock' = clock
  BY DEF Save
<1>6. row' \in [Reports -> Row]
  <2>1. [row[r] EXCEPT !.snapshot = text[d]] \in Row
    BY <1>1 DEF Row
  <2> QED
    BY <2>1, <1>3 DEF Inv, Types
<1>7. pc'[d] = "write" => text'[d] \in Texts /\ row'[r].snapshot = text'[d]
  <2>1. row[r].snapshot \in Texts \cup {None}
    BY <1>1 DEF Row
  <2> SUFFICES ASSUME pc'[d] = "write"
               PROVE  text'[d] \in Texts /\ row'[r].snapshot = text'[d]
    OBVIOUS
  <2>2. Holds(d, r)
    BY DEF Save, Inv, Types
  <2>3. CASE row[r].snapshot = None
    <3>1. /\ row' = [row EXCEPT ![r].snapshot = text[d]]
          /\ text' = text
      BY <2>2, <2>3 DEF Save
    <3> QED
      BY <3>1, <1>1 DEF Inv, Types, Row
  <2>4. CASE row[r].snapshot # None
    <3>1. /\ text' = [text EXCEPT ![d] = row[r].snapshot]
          /\ row' = row
      BY <2>2, <2>4 DEF Save
    <3> QED
      BY <3>1, <2>1, <2>4 DEF Inv, Types
  <2> QED
    BY <2>3, <2>4
<1>8. Types'
  BY <1>1, <1>2, <1>5, <1>6 DEF Save, Inv, Types, Row
<1>9. Placed' /\ Written'
  BY <1>1, <1>2, <1>4, <1>5 DEF Inv, Placed, Written
<1>10. Frozen'
  BY <1>1, <1>2, <1>4, <1>5, <1>7, ReportsAssumption DEF Inv, Frozen, Placed
<1>11. Single'
  BY <1>1, <1>2, <1>4, <1>5 DEF Inv, Single, SingleFor
<1>12. DayKept'
  BY <1>4 DEF Inv, DayKept
<1> QED
  BY <1>8, <1>9, <1>10, <1>11, <1>12 DEF Inv

LEMMA WriteStep ==
  ASSUME Inv, NEW d \in Deliveries, Write(d)
  PROVE  Inv'
<1> DEFINE r == at[d]
<1>1. r \in Reports /\ pc[d] = "write" /\ pc'[d] = "ack" /\ writes[r] \in Nat
  BY DEF Write, Go, Inv, Placed, Types
<1>2. \A e \in Deliveries \ {d} : pc'[e] = pc[e]
  BY DEF Write, Go, Inv, Types
<1>3. /\ \A q \in Reports \ {r} : writes'[q] = writes[q]
      /\ writes'[r] = writes[r] + 1
      /\ at' = at /\ row' = row /\ text' = text /\ retried' = retried
  BY <1>1 DEF Write, Inv, Types
<1>4. \/ sent' = sent
      \/ d \in Morning /\ sent' = sent \cup {<<r, text[d]>>}
  <2>1. sent' = IF d \in Morning THEN sent \cup {<<r, text[d]>>} ELSE sent
    BY DEF Write
  <2> QED
    BY <2>1, Zenon
<1>5. d \in Morning => text[d] \in Texts /\ row[r].snapshot = text[d]
  BY <1>1 DEF Inv, Frozen
<1>6. Types'
  BY <1>1, <1>3, <1>4, <1>5 DEF Write, Go, Inv, Types
<1>7. Placed' /\ Written'
  BY <1>1, <1>2, <1>3 DEF Inv, Placed, Written, Types
<1>8. Frozen'
  BY <1>1, <1>2, <1>3, <1>4, <1>5 DEF Inv, Frozen
<1>9. Single'
  <2> SUFFICES ASSUME NEW q \in Reports, q \notin retried
               PROVE  SingleFor(q)'
    BY <1>3 DEF Single
  <2>1. SingleFor(q)
    BY DEF Inv, Single
  <2> QED
    BY <2>1, <1>1, <1>2, <1>3 DEF SingleFor
<1>10. DayKept'
  BY <1>3 DEF Inv, DayKept
<1> QED
  BY <1>6, <1>7, <1>8, <1>9, <1>10 DEF Inv

LEMMA AckStep ==
  ASSUME Inv, NEW d \in Deliveries, Ack(d)
  PROVE  Inv'
<1> DEFINE r == at[d]
<1>1. r \in Reports /\ pc[d] = "ack" /\ writes[r] > 0 /\ row[r] \in Row
  BY DEF Ack, Inv, Placed, Written, Types
<1>2. /\ \A e \in Deliveries \ {d} : pc'[e] = pc[e]
      /\ pc'[d] \in {"done", "release"}
      /\ at' = at /\ text' = text /\ sent' = sent /\ writes' = writes
      /\ retried' = retried /\ clock' = clock
  BY <1>1 DEF Ack, Inv, Types
<1>3. \/ row' = row
      \/ /\ row' = [row EXCEPT ![r] = [row[r] EXCEPT !.delivered = TRUE]]
         /\ row[r].by = None
  BY <1>1 DEF Ack, Holds, Inv, Types
<1>4. \A q \in Reports : /\ row'[q].snapshot = row[q].snapshot
                         /\ row'[q].claimed = row[q].claimed
                         /\ row'[q].delivered => \/ row[q].delivered
                                                 \/ q = r /\ row[r].by = None
                         /\ row'[q].created = row[q].created
                         /\ row'[q].by = row[q].by
  <2> TAKE q \in Reports
  <2>1. CASE row' = row
    <3>1. row'[q] = row[q]
      BY <2>1
    <3> QED
      BY <3>1
  <2>2. CASE row' # row
    <3>1. /\ row'[q] = IF q = r THEN [row[r] EXCEPT !.delivered = TRUE] ELSE row[q]
          /\ row[r].by = None
      BY <2>2, <1>3 DEF Inv, Types
    <3> QED
      BY <3>1, <1>1 DEF Row
  <2> QED
    BY <2>1, <2>2
<1>5. Types'
  <2>1. [row[r] EXCEPT !.delivered = TRUE] \in Row
    BY <1>1 DEF Row
  <2> QED
    BY <2>1, <1>1, <1>2, <1>3 DEF Ack, Inv, Types
<1>6. Placed' /\ Written' /\ Frozen'
  BY <1>1, <1>2, <1>4 DEF Inv, Placed, Written, Frozen
<1>7. Single'
  BY <1>2, <1>4 DEF Inv, Single, SingleFor
<1>8. DayKept'
  BY <1>4 DEF Inv, DayKept
<1> QED
  BY <1>5, <1>6, <1>7, <1>8 DEF Inv

LEMMA ReleaseStep ==
  ASSUME Inv, NEW d \in Deliveries, Release(d)
  PROVE  Inv'
<1> DEFINE r == at[d]
<1>1. r \in Reports /\ row[r] \in Row
  BY DEF Release, Go, Inv, Placed, Types
<1>2. /\ \A e \in Deliveries \ {d} : pc'[e] = pc[e]
      /\ pc'[d] = "done"
      /\ at' = at /\ text' = text /\ sent' = sent /\ writes' = writes
      /\ clock' = clock
  BY DEF Release, Go, Inv, Types
<1>3. \/ row' = row /\ retried' = retried
      \/ /\ row' = [row EXCEPT ![r] =
                       [row[r] EXCEPT !.claimed = None, !.owner = None]]
         /\ retried' = retried \cup {r}
  BY <1>1 DEF Release, Inv, Types
<1>4. \A q \in Reports : /\ row'[q].snapshot = row[q].snapshot
                         /\ q \notin retried' => row'[q].claimed = row[q].claimed
                         /\ row'[q].delivered = row[q].delivered
                         /\ row'[q].created = row[q].created
                         /\ row'[q].by = row[q].by
  <2> TAKE q \in Reports
  <2>1. CASE row' = row
    BY <2>1
  <2>2. CASE row' # row
    <3>1. /\ row'[q] = IF q = r THEN [row[r] EXCEPT !.claimed = None, !.owner = None]
                                ELSE row[q]
          /\ r \in retried'
      BY <2>2, <1>3 DEF Inv, Types
    <3> QED
      BY <3>1, <1>1 DEF Row
  <2> QED
    BY <2>1, <2>2
<1>5. Types'
  <2>1. [row[r] EXCEPT !.claimed = None, !.owner = None] \in Row
    BY <1>1 DEF Row
  <2> QED
    BY <2>1, <1>1, <1>2, <1>3 DEF Release, Go, Inv, Types
<1>6. Placed' /\ Written' /\ Frozen'
  BY <1>1, <1>2, <1>4 DEF Inv, Placed, Written, Frozen
<1>7. Single'
  BY <1>2, <1>3, <1>4 DEF Inv, Single, SingleFor
<1>8. DayKept'
  BY <1>4 DEF Inv, DayKept
<1> QED
  BY <1>5, <1>6, <1>7, <1>8 DEF Inv

-----------------------------------------------------------------------------
(* The world around them. *)

LEMMA TickStep == Inv /\ Tick => Inv'
<1> SUFFICES ASSUME Inv, Tick PROVE Inv'
  OBVIOUS
<1>1. clock' \in 0..MaxTime
  BY ReportsAssumption DEF Tick, Inv, Types
<1> QED
  BY <1>1 DEF Tick, Inv, Types, Placed, Frozen, Written, Single, SingleFor,
              DayKept

LEMMA PublishStep == Inv /\ Publish => Inv'
<1> SUFFICES ASSUME Inv, Publish PROVE Inv'
  OBVIOUS
<1>1. PICK r \in Reports : /\ row[r].created = None
                           /\ row' = [row EXCEPT ![r].created = clock]
  BY DEF Publish
<1>2. row[r] \in Row /\ clock \in 0..MaxTime
  BY DEF Inv, Types
<1>3. row' = [row EXCEPT ![r] = [row[r] EXCEPT !.created = clock]]
  BY <1>1, <1>2 DEF Inv, Types
<1>4. /\ clock' = clock /\ pc' = pc /\ at' = at /\ text' = text
      /\ sent' = sent /\ writes' = writes /\ retried' = retried
  BY DEF Publish
<1>5. \A q \in Reports : /\ row'[q].snapshot = row[q].snapshot
                         /\ row'[q].claimed = row[q].claimed
                         /\ row'[q].delivered = row[q].delivered
                         /\ row[q].created # None =>
                              row'[q].created = row[q].created
                         /\ row'[q].by = row[q].by
  BY <1>1, <1>2, <1>3 DEF Inv, Types, Row
<1>6. Types'
  <2>1. [row[r] EXCEPT !.created = clock] \in Row
    BY <1>2 DEF Row
  <2> QED
    BY <2>1, <1>3, <1>4 DEF Inv, Types
<1>7. Placed' /\ Written' /\ Frozen'
  BY <1>4, <1>5 DEF Inv, Placed, Written, Frozen
<1>8. Single'
  BY <1>4, <1>5 DEF Inv, Single, SingleFor
<1>9. DayKept'
  BY <1>5 DEF Inv, DayKept
<1> QED
  BY <1>6, <1>7, <1>8, <1>9 DEF Inv

LEMMA InvStep == Inv /\ [Next]_vars => Inv'
<1> SUFFICES ASSUME Inv, [Next]_vars PROVE Inv'
  OBVIOUS
<1>1. ASSUME NEW d \in Morning, ClaimMorning(d) PROVE Inv'
  BY <1>1, ClaimMorningStep
<1>2. ASSUME NEW d \in Cli, ClaimCli(d) PROVE Inv'
  BY <1>2, ClaimCliStep
<1>3. ASSUME NEW d \in Deliveries, \/ Render(d) \/ Save(d) \/ Write(d)
                                  \/ Ack(d) \/ Release(d) \/ Raise(d)
                                  \/ Crash(d)
      PROVE Inv'
  BY <1>3, RenderStep, SaveStep, WriteStep, AckStep, ReleaseStep, FaultStep
<1>4. CASE UNCHANGED vars
  BY <1>4 DEF vars, Inv, Types, Placed, Frozen, Written, Single, SingleFor,
              DayKept
<1> QED
  BY <1>1, <1>2, <1>3, <1>4, TickStep, PublishStep DEF Next

\* The inductive invariant holds in every reachable state.
THEOREM InvariantHolds == Spec => []Inv
  BY InitInv, InvStep, PTL DEF Spec

\* The morning report never says two things under one Liefer-ID, however many
\* invocations retry it (emit_morning_report, save_report_delivery_snapshot).
THEOREM OneText == Spec => []OneTextPerReport
<1>1. Inv => OneTextPerReport
  <2> SUFFICES ASSUME Inv, NEW r \in Reports, NEW x \in sent, NEW y \in sent,
                      x[1] = r, y[1] = r
               PROVE  x = y
    BY DEF OneTextPerReport
  <2>1. x \in Reports \X Texts /\ y \in Reports \X Texts
    BY DEF Inv, Types
  <2>2. x = <<r, x[2]>> /\ y = <<r, y[2]>>
    BY <2>1
  <2>3. row[r].snapshot = x[2] /\ row[r].snapshot = y[2]
    BY <2>1, <2>2 DEF Inv, Frozen
  <2> QED
    BY <2>2, <2>3
<1> QED
  BY <1>1, InvariantHolds, PTL

\* ack_report counts a report as delivered only after it was written, and what
\* is delivered is never superseded by a later claim.
THEOREM DeliveredAfterWrite == Spec => []DeliveredWasWritten
<1>1. Inv => DeliveredWasWritten
  BY DEF Inv, Written, DeliveredWasWritten
<1> QED
  BY <1>1, InvariantHolds, PTL

\* claim_report hands a report to one invocation, which writes it once, unless
\* a claim on it expired or was given back.
THEOREM OneWrite == Spec => []WrittenOnce
<1>1. Inv => WrittenOnce
  BY DEF Inv, Types, Single, SingleFor, WrittenOnce
<1> QED
  BY <1>1, InvariantHolds, PTL

\* The supersession in claim_report never leaves a day without a report.
THEOREM NoDayLost == Spec => []DayIsNotLost
<1>1. Inv => DayIsNotLost
  BY DEF Inv, DayKept, DayIsNotLost
<1> QED
  BY <1>1, InvariantHolds, PTL
-----------------------------------------------------------------------------
(* How often a report is written. *)

\* The invocations that have got past their write.
After == {d \in Deliveries : pc[d] \in {"ack", "release", "done"}}

Counted == \A r \in Reports : writes[r] <= Cardinality(After)

LEMMA AfterIsCounted ==
  /\ IsFiniteSet(After) /\ IsFiniteSet(After')
  /\ Cardinality(After) \in Nat /\ Cardinality(After') \in Nat
  /\ Cardinality(After) <= Cardinality(Deliveries)
  /\ After \subseteq After' => Cardinality(After) <= Cardinality(After')
<1>1. /\ After \subseteq Deliveries /\ After' \subseteq Deliveries
      /\ IsFiniteSet(Deliveries)
  BY ReportsAssumption DEF After
<1>2. IsFiniteSet(After) /\ IsFiniteSet(After')
  BY <1>1, FS_Subset
<1>3. Cardinality(After) <= Cardinality(Deliveries)
  BY <1>1, FS_Subset
<1>4. After \subseteq After' => Cardinality(After) <= Cardinality(After')
  BY <1>2, FS_Subset
<1> QED
  BY <1>2, <1>3, <1>4, FS_CardinalityType

\* No step takes an invocation back to where it has not written.
LEMMA AfterGrows == Inv /\ [Next]_vars => After \subseteq After'
<1> SUFFICES ASSUME Inv, [Next]_vars, NEW d \in Deliveries,
                    pc[d] \in {"ack", "release", "done"}
             PROVE  pc'[d] \in {"ack", "release", "done"}
  BY DEF After
<1>1. pc \in [Deliveries -> {"new", "render", "save", "write", "ack", "release",
                             "done"}]
  BY DEF Inv, Types
<1>2. ASSUME NEW e \in Deliveries, ClaimMorning(e) \/ ClaimCli(e)
      PROVE  pc'[d] = pc[d]
  BY <1>1, <1>2 DEF ClaimMorning, ClaimCli, NothingToClaim, Go
<1>3. ASSUME NEW e \in Deliveries,
             \/ Render(e) \/ Save(e) \/ Write(e) \/ Ack(e) \/ Release(e)
             \/ Raise(e) \/ Crash(e)
      PROVE  pc'[d] \in {"ack", "release", "done"}
  BY <1>1, <1>3 DEF Render, Save, Write, Ack, Release, Raise, Crash, Go
<1>4. CASE Tick \/ Publish \/ UNCHANGED vars
  BY <1>4 DEF Tick, Publish, vars
<1> QED
  BY <1>2, <1>3, <1>4 DEF Next

LEMMA WriteIsCounted ==
  ASSUME Inv, Counted, NEW d \in Deliveries, Write(d)
  PROVE  Counted'
<1>1. /\ pc \in [Deliveries -> {"new", "render", "save", "write", "ack",
                                "release", "done"}]
      /\ writes \in [Reports -> Nat] /\ at[d] \in Reports
  BY DEF Inv, Types, Placed, Write, Go
<1>2. After' = After \cup {d} /\ d \notin After
  BY <1>1 DEF After, Write, Go
<1>3. Cardinality(After') = Cardinality(After) + 1
  BY <1>2, AfterIsCounted, FS_AddElement
<1>4. \A r \in Reports : writes'[r] <= writes[r] + 1
  BY <1>1 DEF Write
<1>5. \A r \in Reports : writes'[r] \in Nat
  BY <1>1 DEF Write
<1> QED
  BY <1>1, <1>3, <1>4, <1>5, AfterIsCounted DEF Counted

LEMMA CountedStep == Inv /\ Counted /\ [Next]_vars => Counted'
<1> SUFFICES ASSUME Inv, Counted, [Next]_vars PROVE Counted'
  OBVIOUS
<1>1. (\E d \in Deliveries : Write(d)) \/ writes' = writes
  <2>1. Tick \/ Publish \/ UNCHANGED vars => writes' = writes
    BY DEF Tick, Publish, vars
  <2>2. ASSUME NEW d \in Deliveries,
               \/ ClaimMorning(d) \/ ClaimCli(d) \/ Render(d) \/ Save(d)
               \/ Ack(d) \/ Release(d) \/ Raise(d) \/ Crash(d)
        PROVE  writes' = writes
    BY <2>2 DEF ClaimMorning, ClaimCli, Render, Save, Ack, Release, Raise, Crash
  <2> QED
    BY <2>1, <2>2 DEF Next
<1>2. CASE writes' = writes
  <2>1. Cardinality(After) <= Cardinality(After')
    BY AfterGrows, AfterIsCounted
  <2>2. writes \in [Reports -> Nat]
    BY DEF Inv, Types
  <2> QED
    BY <1>2, <2>1, <2>2, AfterIsCounted DEF Counted
<1> QED
  BY <1>1, <1>2, WriteIsCounted

\* The types of the table and of the invocations; a report is written at most
\* once by each invocation.
THEOREM TypeCorrect == Spec => []TypeOK
<1>1. Init => Counted
  BY AfterIsCounted DEF Init, Counted
<1>2. Inv /\ Counted => TypeOK
  <2> SUFFICES ASSUME Inv, Counted PROVE TypeOK
    OBVIOUS
  <2>1. Cardinality(Deliveries) \in Nat
    BY ReportsAssumption, FS_CardinalityType
  <2>2. writes \in [Reports -> Nat]
    BY DEF Inv, Types
  <2>3. \A r \in Reports : writes[r] \in 0..Cardinality(Deliveries)
    BY <2>1, <2>2, AfterIsCounted DEF Counted
  <2> QED
    BY <2>2, <2>3 DEF Inv, Types, TypeOK
<1> QED
  BY <1>1, <1>2, CountedStep, InvariantHolds, PTL DEF Spec
=============================================================================
