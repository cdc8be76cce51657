-------------------------- MODULE ActionStoreProofs --------------------------
(* Theorems about outgoing messages, for any intents, executors, janitors   *)
(* and times.                                                               *)
EXTENDS ActionStore, TLAPS

Busy == {"check", "post", "finish", "route", "record"}

\* Executor e holds the claim on intent i, or held it until a janitor gave it up.
Works(e, i) == execs[e].intent = i /\ execs[e].pc \in Busy

\* Nothing was sent, and nobody is about to send.
Untouched(i) ==
    posts[i] = 0 /\ i \notin delivered /\ \A e \in Executors : ~Works(e, i)

\* What the one executor at work knows: whether it has sent, and what came of it.
WorkerKnows(e, i) ==
    /\ \A f \in Executors : Works(f, i) => f = e
    /\ execs[e].pc \in {"check", "post", "route"} => posts[i] = 0 /\ i \notin delivered
    /\ execs[e].pc \in {"finish", "record"} =>
          /\ execs[e].result \in {"failed", "expired"} => i \notin delivered
          /\ execs[e].result = "succeeded" => i \in delivered

\* The row of an intent, its requests and its executors.
FlowInv(i) ==
    /\ preparing[i] # "over" => rows[i].status = "none"
    /\ preparing[i] # "over" \/ rows[i].status = "pending" => Untouched(i)
    /\ rows[i].status \in {"failed", "expired", "succeeded"} =>
          \A e \in Executors : ~Works(e, i)
    /\ rows[i].status \in {"failed", "expired"} => i \notin delivered
    /\ rows[i].status = "succeeded" => i \in delivered
    /\ posts[i] <= 1
    /\ \A e \in Executors : Works(e, i) => WorkerKnows(e, i)

\* An intent that is not pending and will not be again.
Done(i) == preparing[i] = "over" /\ rows[i].status # "pending"

\* The files of an intent whose preparation takes less than the retention are
\* there until it is done, and younger than the retention until it is prepared.
FilesWaiting(i) ==
    /\ preparing[i] = "staging" => staged[i].dir = "tmp" /\ staged[i].age < Retention
    /\ preparing[i] = "staged" /\ kind[i] = "file" =>
          staged[i].dir = "final" /\ staged[i].age < Retention
    /\ rows[i].status = "pending" /\ kind[i] = "file" => staged[i].dir = "final"

\* Whoever is about to purge an intent's files purges those of one that is done;
\* a sweep may also purge those of a slow preparation.
FilesInv(i) ==
    /\ preparing[i] = "new" => staged[i].dir = "none"
    /\ preparing[i] = "staging" => staged[i].dir # "final"
    /\ preparing[i] = "staged" => staged[i].dir # "tmp"
    /\ staged[i].dir = "tmp" => rows[i].status = "none"
    /\ i \notin slow => FilesWaiting(i)
    /\ \A e \in Executors : execs[e].intent = i /\ execs[e].pc = "purge" => Done(i)
    /\ \A j \in Janitors : i \in janitors[j].ids => Done(i)
    /\ \A j \in Janitors : i \in janitors[j].old => Done(i) \/ i \in slow

\* An executor under way has an intent.
Placed == \A e \in Executors : execs[e].pc # "idle" => execs[e].intent \in Intents

IInv == TypeOK /\ Placed /\ \A i \in Intents : FlowInv(i) /\ FilesInv(i)

USE ActionAssumption
USE DEF Terminal, Claimed, Statuses, Row, NoRow, Staging, NoStaging, Exec, Idle,
        Janitor, Resting

-----------------------------------------------------------------------------
(* What a step does to one executor and to one row. *)

ExecMoves(e, pc) ==
    /\ execs' \in [Executors -> Exec]
    /\ \A f \in Executors : f # e => execs'[f] = execs[f]
    /\ execs'[e].pc = pc
    /\ pc # "idle" => execs'[e].intent = execs[e].intent

RowMoves(i, status) ==
    /\ rows' \in [Intents -> Row]
    /\ \A k \in Intents : k # i => rows'[k] = rows[k]
    /\ rows'[i].status = status

LEMMA ExecToMoves ==
  ASSUME TypeOK, NEW e \in Executors, NEW pc, ExecTo(e, pc),
         pc \in {"verify", "claim", "check", "post", "finish", "route", "record", "purge"}
  PROVE  ExecMoves(e, pc) /\ execs'[e].result = execs[e].result
<1>1. execs \in [Executors -> Exec] /\ execs[e] \in Exec
  BY DEF TypeOK
<1>2. execs' = [execs EXCEPT ![e].pc = pc]
  BY DEF ExecTo
<1>3. execs'[e] = [execs[e] EXCEPT !.pc = pc]
  BY <1>1, <1>2
<1>4. /\ execs'[e] \in Exec /\ execs'[e].pc = pc
      /\ execs'[e].intent = execs[e].intent /\ execs'[e].result = execs[e].result
  BY <1>1, <1>3
<1>5. \A f \in Executors : f # e => execs'[f] = execs[f]
  BY <1>1, <1>2
<1>6. execs' \in [Executors -> Exec]
  BY <1>1, <1>2, <1>4, <1>5
<1> QED
  BY <1>4, <1>5, <1>6 DEF ExecMoves

LEMMA ExecEndsMoves ==
  ASSUME TypeOK, NEW e \in Executors, ExecEnds(e)
  PROVE  ExecMoves(e, "idle")
  BY DEF TypeOK, ExecEnds, ExecMoves

LEMMA ExecResultMoves ==
  ASSUME TypeOK, NEW e \in Executors, NEW pc \in {"finish", "record"}, NEW r \in Terminal,
         ExecResult(e, pc, r)
  PROVE  ExecMoves(e, pc) /\ execs'[e].result = r
<1> DEFINE x == [execs EXCEPT ![e].pc = pc]
<1>1. /\ x \in [Executors -> Exec] /\ x[e].pc = pc /\ x[e].intent = execs[e].intent
      /\ \A f \in Executors : f # e => x[f] = execs[f]
  BY DEF TypeOK
<1>2. execs' = [x EXCEPT ![e].result = r]
  BY DEF ExecResult
<1> HIDE DEF x
<1> QED
  BY <1>1, <1>2 DEF ExecMoves

LEMMA EndedRow ==
  ASSUME NEW row \in Row, NEW s \in Terminal
  PROVE  Ended(row, s) \in Row /\ Ended(row, s).status = s
<1> DEFINE x == [row EXCEPT !.status = s]
<1>1. x \in Row /\ x.status = s
  OBVIOUS
<1>2. Ended(row, s) = [x EXCEPT !.finished = 0]
  BY DEF Ended
<1> HIDE DEF x
<1> QED
  BY <1>1, <1>2

LEMMA RowEnds ==
  ASSUME TypeOK, NEW i \in Intents, NEW s \in Terminal,
         rows' = [rows EXCEPT ![i] = Ended(@, s)]
  PROVE  RowMoves(i, s)
<1>1. rows[i] \in Row
  BY DEF TypeOK
<1>2. Ended(rows[i], s) \in Row /\ Ended(rows[i], s).status = s
  BY <1>1, EndedRow
<1>3. rows' = [rows EXCEPT ![i] = Ended(rows[i], s)]
  OBVIOUS
<1> QED
  BY <1>2, <1>3 DEF TypeOK, RowMoves

\* An intent keeps its part of the invariant when its row and its requests
\* stay and no executor starts to work on it.
LEMMA FlowKept ==
  ASSUME NEW i \in Intents, FlowInv(i), preparing'[i] = preparing[i],
         rows'[i].status = rows[i].status, posts'[i] = posts[i],
         i \in delivered' <=> i \in delivered,
         \A f \in Executors : Works(f, i)' => Works(f, i) /\ execs'[f] = execs[f]
  PROVE  FlowInv(i)'
<1>1. Untouched(i) => Untouched(i)'
  BY DEF Untouched
<1>2. ASSUME NEW e \in Executors, Works(e, i)'
      PROVE  WorkerKnows(e, i)'
  <2>1. Works(e, i) /\ WorkerKnows(e, i) /\ execs'[e] = execs[e]
    BY <1>2 DEF FlowInv
  <2> QED
    BY <2>1 DEF WorkerKnows
<1> QED
  BY <1>1, <1>2 DEF FlowInv

\* Its files are safe when they stay or may go, its row does not come back and
\* whoever starts to purge them may.
LEMMA FilesKept ==
  ASSUME NEW i \in Intents, FilesInv(i), preparing'[i] = preparing[i],
         kind' = kind, slow' = slow,
         staged'[i] = staged[i] \/ (staged'[i].dir = "none" /\ (Done(i)' \/ i \in slow)),
         rows'[i].status = rows[i].status \/
            (Done(i)' /\ staged[i].dir # "tmp"),
         \A e \in Executors : (execs[e].intent = i /\ execs[e].pc = "purge")'
            => Done(i)' \/ execs'[e] = execs[e],
         \A j \in Janitors : /\ i \in janitors'[j].ids => Done(i)' \/ i \in janitors[j].ids
                             /\ i \in janitors'[j].old => Done(i)' \/ i \in slow \/ i \in janitors[j].old
  PROVE  FilesInv(i)'
<1>1. Done(i) => Done(i)'
  BY DEF Done
<1>2. i \notin slow' => FilesWaiting(i)'
  BY DEF FilesInv, FilesWaiting, Done
<1> QED
  BY <1>1, <1>2 DEF FilesInv, Done

-----------------------------------------------------------------------------
(* The shapes of an executor's step. *)

\* It picks an intent, or leaves one to others, and changes nothing else.
LEMMA Quiet ==
  ASSUME IInv, NEW e \in Executors, NEW pc \in {"idle", "verify", "claim"},
         execs' \in [Executors -> Exec], execs'[e].pc = pc,
         \A f \in Executors : f # e => execs'[f] = execs[f],
         pc # "idle" => execs'[e].intent \in Intents,
         UNCHANGED <<kind, slow, preparing, rows, staged, janitors, posts, delivered>>,
         faults' \in 0..MaxFaults
  PROVE  IInv'
<1>1. TypeOK'
  BY DEF IInv, TypeOK
<1>2. Placed'
  BY DEF IInv, Placed
<1>3. ASSUME NEW i \in Intents
      PROVE  FlowInv(i)'
  <2>1. ASSUME NEW f \in Executors, Works(f, i)'
        PROVE  Works(f, i) /\ execs'[f] = execs[f]
    BY <2>1 DEF Works, Busy
  <2> QED
    BY <2>1, FlowKept DEF IInv
<1>4. ASSUME NEW i \in Intents
      PROVE  FilesInv(i)'
  <2>1. ASSUME NEW f \in Executors, (execs[f].intent = i /\ execs[f].pc = "purge")'
        PROVE  execs'[f] = execs[f]
    BY <2>1
  <2> QED
    BY <2>1, FilesKept DEF IInv
<1> QED
  BY <1>1, <1>2, <1>3, <1>4 DEF IInv

\* It gives its intent a verdict; nobody else is at work on the intent.
LEMMA EndsRow ==
  ASSUME IInv, NEW e \in Executors, NEW i \in Intents, execs[e].intent = i,
         NEW s \in Terminal, ExecMoves(e, "purge"), RowMoves(i, s),
         rows[i].status \in {"pending", "in_flight", "external_pending"},
         \A f \in Executors : Works(f, i) => f = e,
         s \in {"failed", "expired"} => i \notin delivered,
         s = "succeeded" => i \in delivered,
         UNCHANGED <<kind, slow, preparing, staged, janitors, posts, delivered, faults>>
  PROVE  IInv'
<1>1. TypeOK'
  BY DEF IInv, TypeOK, ExecMoves, RowMoves
<1>2. Placed'
  BY DEF IInv, Placed, ExecMoves
<1>3. preparing[i] = "over" /\ staged[i].dir # "tmp" /\ Done(i)'
  BY DEF IInv, FlowInv, FilesInv, Done, RowMoves
<1>4. ASSUME NEW f \in Executors, NEW k \in Intents, Works(f, k)'
      PROVE  Works(f, k) /\ execs'[f] = execs[f] /\ k # i
  BY <1>4 DEF Works, Busy, ExecMoves
<1>5. ASSUME NEW k \in Intents
      PROVE  FlowInv(k)'
  <2>1. CASE k = i
    BY <2>1, <1>3, <1>4 DEF IInv, FlowInv, RowMoves
  <2>2. CASE k # i
    BY <2>2, <1>4, FlowKept DEF IInv, RowMoves
  <2> QED
    BY <2>1, <2>2
<1>6. ASSUME NEW k \in Intents
      PROVE  FilesInv(k)'
  <2>1. ASSUME NEW f \in Executors, (execs[f].intent = k /\ execs[f].pc = "purge")'
        PROVE  k = i \/ execs'[f] = execs[f]
    BY <2>1 DEF ExecMoves
  <2>2. k = i \/ rows'[k].status = rows[k].status
    BY DEF RowMoves
  <2> QED
    BY <1>3, <2>1, <2>2, FilesKept DEF IInv
<1> QED
  BY <1>1, <1>2, <1>5, <1>6 DEF IInv

\* It goes on with the intent it has claimed: it finds that nothing can be
\* sent, it goes to send, or it has sent once.
LEMMA WorksOn ==
  ASSUME IInv, NEW e \in Executors, NEW i \in Intents, Works(e, i),
         NEW pc \in {"post", "finish", "record"}, ExecMoves(e, pc),
         posts' \in [Intents -> Nat], delivered' \subseteq Intents,
         posts[i] = 0, posts'[i] <= 1,
         \A k \in Intents : k # i => posts'[k] = posts[k] /\ (k \in delivered' <=> k \in delivered),
         pc = "post" => posts'[i] = 0 /\ i \notin delivered',
         execs'[e].result \in {"failed", "expired"} /\ pc # "post" => i \notin delivered',
         execs'[e].result = "succeeded" /\ pc # "post" => i \in delivered',
         rows[i].status \in {"failed", "expired"} => i \notin delivered',
         UNCHANGED <<kind, slow, preparing, rows, staged, janitors, faults>>
  PROVE  IInv'
<1>1. TypeOK'
  BY DEF IInv, TypeOK, ExecMoves
<1>2. Placed'
  BY DEF IInv, Placed, ExecMoves, Works
<1>3. ASSUME NEW f \in Executors, NEW k \in Intents
      PROVE  /\ Works(f, k)' <=> Works(f, k)
             /\ k # i /\ Works(f, k) => execs'[f] = execs[f]
  BY DEF Works, Busy, ExecMoves
<1>4. ASSUME NEW k \in Intents
      PROVE  FlowInv(k)'
  <2>1. CASE k = i
    <3>1. /\ preparing[i] = "over" /\ rows[i].status \notin {"pending", "failed", "expired", "succeeded"}
          /\ \A f \in Executors : Works(f, i) => f = e
      BY DEF IInv, FlowInv, Untouched, WorkerKnows
    <3>2. \A f \in Executors : Works(f, i)' => f = e
      BY <3>1, <1>3
    <3>3. WorkerKnows(e, i)'
      BY <3>2 DEF WorkerKnows, ExecMoves
    <3>4. rows'[i].status = rows[i].status
      OBVIOUS
    <3> QED
      BY <2>1, <3>1, <3>2, <3>3, <3>4 DEF FlowInv
  <2>2. CASE k # i
    BY <2>2, <1>3, FlowKept DEF IInv
  <2> QED
    BY <2>1, <2>2
<1>5. ASSUME NEW k \in Intents
      PROVE  FilesInv(k)'
  <2>1. ASSUME NEW f \in Executors, (execs[f].intent = k /\ execs[f].pc = "purge")'
        PROVE  execs'[f] = execs[f]
    BY <2>1 DEF ExecMoves
  <2> QED
    BY <2>1, FilesKept DEF IInv
<1> QED
  BY <1>1, <1>2, <1>4, <1>5 DEF IInv

-----------------------------------------------------------------------------
(* The executors' actions. *)

LEMMA InitInv == Init => IInv
  BY DEF Init, IInv, TypeOK, Placed, FlowInv, FilesInv, FilesWaiting, Untouched, Works, Busy, Done

LEMMA LoadInv ==
  ASSUME IInv, NEW e \in Executors, NEW i \in Intents, Load(e, i)
  PROVE  IInv'
<1>1. /\ execs' \in [Executors -> Exec]
      /\ execs'[e].pc = "verify" /\ execs'[e].intent \in Intents
      /\ \A f \in Executors : f # e => execs'[f] = execs[f]
  BY DEF Load, IInv, TypeOK
<1>2. faults' \in 0..MaxFaults
  BY DEF Load, IInv, TypeOK
<1> QED
  BY <1>1, <1>2, Quiet DEF Load

\* An executor that stops, or moves on to its claim.
LEMMA MovesQuietly ==
  ASSUME IInv, NEW e \in Executors, NEW pc \in {"idle", "claim"}, ExecMoves(e, pc),
         execs[e].pc # "idle", faults' \in 0..MaxFaults,
         UNCHANGED <<kind, slow, preparing, rows, staged, janitors, posts, delivered>>
  PROVE  IInv'
<1>1. pc # "idle" => execs'[e].intent \in Intents
  BY DEF IInv, Placed, ExecMoves
<1> QED
  BY <1>1, Quiet DEF ExecMoves

LEMMA ExpireInv ==
  ASSUME IInv, NEW e \in Executors, NEW i \in Intents, execs[e].intent = i,
         execs[e].pc \in {"verify", "claim"}, Expire(e, i),
         UNCHANGED <<kind, slow, preparing, staged, janitors, posts, delivered, faults>>
  PROVE  IInv'
<1>1. CASE rows[i].status = "pending" /\ rows[i].ttl = 0
  <2>1. RowMoves(i, "expired") /\ ExecMoves(e, "purge")
    BY <1>1, RowEnds, ExecToMoves DEF Expire, IInv
  <2>2. i \notin delivered /\ \A f \in Executors : Works(f, i) => f = e
    BY <1>1 DEF IInv, FlowInv, Untouched
  <2> QED
    BY <1>1, <2>1, <2>2, EndsRow
<1>2. CASE ~(rows[i].status = "pending" /\ rows[i].ttl = 0)
  <2>1. rows' = rows /\ ExecMoves(e, "idle")
    BY <1>2, ExecEndsMoves DEF Expire, IInv
  <2>2. faults' \in 0..MaxFaults
    BY DEF IInv, TypeOK
  <2> QED
    BY <2>1, <2>2, MovesQuietly
<1> QED
  BY <1>1, <1>2

LEMMA VerifyInv ==
  ASSUME IInv, NEW e \in Executors, Verify(e)
  PROVE  IInv'
<1> DEFINE i == execs[e].intent
<1>1. i \in Intents /\ execs[e].pc = "verify" /\ faults' \in 0..MaxFaults
  BY DEF Verify, ExecAt, IInv, Placed, TypeOK
<1>2. CASE ExecTo(e, "claim") /\ UNCHANGED rows
  BY <1>1, <1>2, ExecToMoves, MovesQuietly DEF Verify, IInv
<1>3. CASE ExecEnds(e) /\ UNCHANGED rows
  BY <1>1, <1>3, ExecEndsMoves, MovesQuietly DEF Verify, IInv
<1>4. CASE Expire(e, i)
  BY <1>1, <1>4, ExpireInv DEF Verify
<1> QED
  BY <1>2, <1>3, <1>4 DEF Verify

LEMMA TakenRow ==
  ASSUME NEW row \in Row, NEW s \in Claimed
  PROVE  Taken(row, s) \in Row /\ Taken(row, s).status = s
<1> DEFINE x == [row EXCEPT !.status = s]
<1>1. x \in Row /\ x.status = s
  OBVIOUS
<1>2. Taken(row, s) = [x EXCEPT !.claimed = 0]
  BY DEF Taken
<1> HIDE DEF x
<1> QED
  BY <1>1, <1>2

LEMMA RowTaken ==
  ASSUME TypeOK, NEW i \in Intents, NEW s \in Claimed,
         rows' = [rows EXCEPT ![i] = Taken(@, s)]
  PROVE  RowMoves(i, s)
<1>1. rows[i] \in Row
  BY DEF TypeOK
<1>2. Taken(rows[i], s) \in Row /\ Taken(rows[i], s).status = s
  BY <1>1, TakenRow
<1>3. rows' = [rows EXCEPT ![i] = Taken(rows[i], s)]
  OBVIOUS
<1> QED
  BY <1>2, <1>3 DEF TypeOK, RowMoves

LEMMA Claims ==
  ASSUME IInv, NEW e \in Executors, NEW i \in Intents, execs[e].intent = i,
         NEW status \in Claimed, NEW pc \in {"check", "route"},
         execs[e].pc = "claim", rows[i].status = "pending",
         rows' = [rows EXCEPT ![i] = Taken(@, status)], ExecTo(e, pc),
         UNCHANGED <<kind, slow, preparing, staged, janitors, posts, delivered, faults>>
  PROVE  IInv'
<1>1. ExecMoves(e, pc)
  BY ExecToMoves DEF IInv
<1>2. RowMoves(i, status)
  BY RowTaken DEF IInv
<1>3. Untouched(i) /\ preparing[i] = "over" /\ staged[i].dir # "tmp"
  BY DEF IInv, FlowInv, FilesInv
<1>4. TypeOK'
  BY <1>1, <1>2 DEF IInv, TypeOK, ExecMoves, RowMoves
<1>5. Placed'
  BY <1>1 DEF IInv, Placed, ExecMoves
<1>6. ASSUME NEW f \in Executors, NEW k \in Intents, Works(f, k)'
      PROVE  (f = e /\ k = i) \/ (Works(f, k) /\ execs'[f] = execs[f] /\ k # i)
  BY <1>1, <1>3, <1>6 DEF Works, ExecMoves, Untouched, Busy
<1>7. ASSUME NEW k \in Intents
      PROVE  FlowInv(k)'
  <2>1. CASE k = i
    <3>1. WorkerKnows(e, i)'
      BY <1>1, <1>3, <1>6 DEF WorkerKnows, ExecMoves, Untouched
    <3> QED
      BY <2>1, <3>1, <1>2, <1>3, <1>6 DEF FlowInv, RowMoves, Untouched
  <2>2. CASE k # i
    BY <2>2, <1>2, <1>6, FlowKept DEF IInv, RowMoves
  <2> QED
    BY <2>1, <2>2
<1>8. ASSUME NEW k \in Intents
      PROVE  FilesInv(k)'
  <2>1. Done(i)'
    BY <1>2, <1>3 DEF Done, RowMoves
  <2>2. ASSUME NEW f \in Executors, (execs[f].intent = k /\ execs[f].pc = "purge")'
        PROVE  execs'[f] = execs[f]
    BY <1>1, <2>2 DEF ExecMoves
  <2>3. k = i \/ rows'[k].status = rows[k].status
    BY <1>2 DEF RowMoves
  <2> QED
    BY <1>3, <2>1, <2>2, <2>3, FilesKept DEF IInv
<1> QED
  BY <1>4, <1>5, <1>7, <1>8 DEF IInv

LEMMA ClaimInv ==
  ASSUME IInv, NEW e \in Executors, Claim(e)
  PROVE  IInv'
<1> DEFINE i == execs[e].intent
<1>1. i \in Intents /\ execs[e].pc = "claim"
  BY DEF Claim, ExecAt, IInv, Placed
<1>2. CASE ~Fresh(i)
  BY <1>1, <1>2, ExpireInv DEF Claim
<1>3. CASE Fresh(i) /\ kind[i] = "slack"
  BY <1>1, <1>3, Claims DEF Claim, Fresh
<1>4. CASE Fresh(i) /\ kind[i] # "slack"
  BY <1>1, <1>4, Claims DEF Claim, Fresh
<1> QED
  BY <1>2, <1>3, <1>4

LEMMA CheckInv ==
  ASSUME IInv, NEW e \in Executors, Check(e)
  PROVE  IInv'
<1> DEFINE i == execs[e].intent
<1>1. i \in Intents /\ execs[e].pc = "check" /\ Works(e, i)
  BY DEF Check, ExecAt, IInv, Placed, Works, Busy
<1>2. posts[i] = 0 /\ i \notin delivered /\ posts \in [Intents -> Nat] /\ delivered \subseteq Intents
  BY <1>1 DEF IInv, TypeOK, FlowInv, WorkerKnows
<1>3. CASE ExecResult(e, "finish", "failed")
  <2>1. ExecMoves(e, "finish") /\ execs'[e].result = "failed"
    BY <1>3, ExecResultMoves DEF IInv
  <2> QED
    BY <1>1, <1>2, <2>1, WorksOn DEF Check
<1>4. CASE ExecTo(e, "post")
  <2>1. ExecMoves(e, "post")
    BY <1>4, ExecToMoves DEF IInv
  <2> QED
    BY <1>1, <1>2, <2>1, WorksOn DEF Check
<1> QED
  BY <1>3, <1>4 DEF Check

\* The one request for the intent leaves; a success is claimed of what was received.
LEMMA Sends ==
  ASSUME IInv, NEW e \in Executors, NEW i \in Intents, execs[e].intent = i,
         execs[e].pc \in {"post", "route"},
         NEW received \in BOOLEAN, Send(i, received),
         NEW pc \in {"finish", "record"}, NEW r \in {"succeeded", "uncertain", "failed"},
         r = "succeeded" => received, r = "failed" => ~received,
         ExecResult(e, pc, r), UNCHANGED <<kind, slow, preparing, rows, staged, janitors, faults>>
  PROVE  IInv'
<1>1. ExecMoves(e, pc) /\ execs'[e].result = r
  BY ExecResultMoves DEF IInv
<1>2. Works(e, i)
  BY DEF Works, Busy
<1>3. posts[i] = 0 /\ i \notin delivered /\ posts \in [Intents -> Nat] /\ delivered \subseteq Intents
  BY <1>2 DEF IInv, TypeOK, FlowInv, WorkerKnows
<1>4. /\ posts' \in [Intents -> Nat] /\ posts'[i] = 1
      /\ \A k \in Intents : k # i => posts'[k] = posts[k]
  BY <1>3 DEF Send
<1>5. /\ delivered' \subseteq Intents
      /\ \A k \in Intents : k # i => (k \in delivered' <=> k \in delivered)
      /\ i \in delivered' <=> received
  BY <1>3 DEF Send
<1>6. rows[i].status \notin {"failed", "expired"}
  BY <1>2 DEF IInv, FlowInv
<1> QED
  BY <1>1, <1>2, <1>3, <1>4, <1>5, <1>6, WorksOn

LEMMA PostInv ==
  ASSUME IInv, NEW e \in Executors, Post(e)
  PROVE  IInv'
<1> DEFINE i == execs[e].intent
<1>1. i \in Intents /\ execs[e].pc = "post" /\ Works(e, i)
  BY DEF Post, ExecAt, IInv, Placed, Works, Busy
<1>2. posts[i] = 0 /\ i \notin delivered /\ posts \in [Intents -> Nat] /\ delivered \subseteq Intents
  BY <1>1 DEF IInv, TypeOK, FlowInv, WorkerKnows
<1>3. CASE ExecResult(e, "finish", "failed") /\ UNCHANGED <<posts, delivered>>
  <2>1. ExecMoves(e, "finish") /\ execs'[e].result = "failed"
    BY <1>3, ExecResultMoves DEF IInv
  <2> QED
    BY <1>1, <1>2, <1>3, <2>1, WorksOn DEF Post
<1>4. ASSUME NEW received \in BOOLEAN, NEW r \in Answers(received),
             Send(i, received), ExecResult(e, "finish", r)
      PROVE  IInv'
  <2>1. r \in {"succeeded", "uncertain"} /\ (r = "succeeded" => received)
    BY DEF Answers
  <2> QED
    BY <1>1, <1>4, <2>1, Sends DEF Post
<1> QED
  BY <1>3, <1>4 DEF Post

LEMMA ConnectorInv ==
  ASSUME IInv, NEW e \in Executors, Connector(e)
  PROVE  IInv'
<1>1. execs[e].intent \in Intents /\ execs[e].pc = "route"
  BY DEF Connector, ExecAt, IInv, Placed
<1>2. ASSUME NEW received \in BOOLEAN,
             NEW r \in Answers(received) \cup (IF received THEN {} ELSE {"failed"}),
             Send(execs[e].intent, received), ExecResult(e, "record", r)
      PROVE  IInv'
  <2>1. /\ r \in {"succeeded", "uncertain", "failed"}
        /\ r = "succeeded" => received
        /\ r = "failed" => ~received
    BY DEF Answers
  <2> QED
    BY <1>1, <1>2, <2>1, Sends DEF Connector
<1> QED
  BY <1>2 DEF Connector

\* finish and record_external_result
LEMMA RecordInv ==
  ASSUME IInv, NEW e \in Executors, NEW i \in Intents, execs[e].intent = i,
         execs[e].pc \in {"finish", "record"}, NEW expected \in Claimed, Record(e, expected),
         UNCHANGED <<kind, slow, preparing, staged, janitors, posts, delivered, faults>>
  PROVE  IInv'
<1>1. execs[e].result \in Terminal /\ faults' \in 0..MaxFaults
  BY DEF IInv, TypeOK
<1>2. Works(e, i) /\ WorkerKnows(e, i)
  BY DEF IInv, FlowInv, Works, Busy
<1>3. CASE rows[i].status = expected
  <2>1. RowMoves(i, execs[e].result) /\ ExecMoves(e, "purge")
    BY <1>1, <1>3, RowEnds, ExecToMoves DEF Record, IInv
  <2> QED
    BY <1>1, <1>2, <1>3, <2>1, EndsRow DEF WorkerKnows
<1>4. CASE rows[i].status # expected
  BY <1>1, <1>4, ExecEndsMoves, MovesQuietly DEF Record, IInv
<1> QED
  BY <1>3, <1>4

LEMMA FinishInv ==
  ASSUME IInv, NEW e \in Executors, Finish(e)
  PROVE  IInv'
<1>1. execs[e].intent \in Intents /\ execs[e].pc = "finish"
  BY DEF Finish, ExecAt, IInv, Placed
<1> QED
  BY <1>1, RecordInv DEF Finish

LEMMA RecordExternalResultInv ==
  ASSUME IInv, NEW e \in Executors, RecordExternalResult(e)
  PROVE  IInv'
<1>1. execs[e].intent \in Intents /\ execs[e].pc = "record"
  BY DEF RecordExternalResult, ExecAt, IInv, Placed
<1> QED
  BY <1>1, RecordInv DEF RecordExternalResult

LEMMA ExecutorDiesInv ==
  ASSUME IInv, NEW e \in Executors, ExecutorDies(e)
  PROVE  IInv'
<1>1. ExecMoves(e, "idle") /\ execs[e].pc # "idle" /\ faults' \in 0..MaxFaults
  BY ExecEndsMoves DEF ExecutorDies, ExecAt, Fault, IInv, TypeOK
<1> QED
  BY <1>1, MovesQuietly DEF ExecutorDies

\* A step that takes away the files of an intent that is done.
LEMMA FilesGone ==
  ASSUME NEW i \in Intents, Done(i)', staged'[i].dir = "none"
  PROVE  FilesInv(i)'
  BY DEF FilesInv, FilesWaiting, Done

LEMMA PurgeStagedInv ==
  ASSUME IInv, NEW e \in Executors, PurgeStaged(e)
  PROVE  IInv'
<1> DEFINE i == execs[e].intent
<1>1. i \in Intents /\ execs[e].pc = "purge" /\ Done(i)
  BY DEF PurgeStaged, ExecAt, IInv, Placed, FilesInv
<1>2. ExecMoves(e, "idle")
  BY ExecEndsMoves DEF PurgeStaged, IInv
<1>3. /\ staged' \in [Intents -> Staging] /\ staged'[i].dir = "none"
      /\ \A k \in Intents : k # i => staged'[k] = staged[k]
  BY <1>1 DEF PurgeStaged, IInv, TypeOK
<1>4. TypeOK'
  <2>1. \A k \in Intents : staged'[k].dir # "none" => kind[k] = "file"
    BY <1>3 DEF IInv, TypeOK
  <2> QED
    BY <1>2, <1>3, <2>1 DEF IInv, TypeOK, PurgeStaged, ExecMoves
<1>5. Placed'
  BY <1>2 DEF IInv, Placed, ExecMoves
<1>6. ASSUME NEW k \in Intents
      PROVE  FlowInv(k)'
  <2>1. ASSUME NEW f \in Executors, Works(f, k)'
        PROVE  Works(f, k) /\ execs'[f] = execs[f]
    BY <2>1, <1>2 DEF Works, Busy, ExecMoves
  <2> QED
    BY <2>1, FlowKept DEF IInv, PurgeStaged
<1>7. ASSUME NEW k \in Intents
      PROVE  FilesInv(k)'
  <2>1. CASE k = i
    <3>1. Done(k)' /\ staged'[k].dir = "none"
      BY <2>1, <1>1, <1>3 DEF PurgeStaged, Done
    <3> QED
      BY <3>1, FilesGone
  <2>2. CASE k # i
    <3>1. ASSUME NEW f \in Executors, (execs[f].intent = k /\ execs[f].pc = "purge")'
          PROVE  execs'[f] = execs[f]
      BY <1>2, <3>1 DEF ExecMoves
    <3> QED
      BY <2>2, <1>3, <3>1, FilesKept DEF IInv, PurgeStaged
  <2> QED
    BY <2>1, <2>2
<1> QED
  BY <1>4, <1>5, <1>6, <1>7 DEF IInv

-----------------------------------------------------------------------------
(* Preparation. *)

\* A step of the preparation of i: the other intents do not see it.
LEMMA PrepareStep ==
  ASSUME IInv, NEW i \in Intents, TypeOK', FlowInv(i)', FilesInv(i)',
         \A k \in Intents : k # i => /\ preparing'[k] = preparing[k]
                                     /\ rows'[k] = rows[k] /\ staged'[k] = staged[k],
         UNCHANGED <<kind, slow, execs, janitors, posts, delivered>>
  PROVE  IInv'
<1>1. Placed'
  BY DEF IInv, Placed
<1>2. ASSUME NEW k \in Intents, k # i
      PROVE  FlowInv(k)' /\ FilesInv(k)'
  <2>1. \A f \in Executors : Works(f, k)' => Works(f, k)
    BY DEF Works
  <2> QED
    BY <1>2, <2>1, FlowKept, FilesKept DEF IInv
<1> QED
  BY <1>1, <1>2 DEF IInv

\* Before its row is there nothing else knows an intent.
LEMMA Unborn ==
  ASSUME IInv, NEW i \in Intents, preparing[i] # "over"
  PROVE  /\ rows[i].status = "none" /\ Untouched(i)
         /\ \A e \in Executors : execs[e].intent = i => execs[e].pc # "purge"
         /\ \A j \in Janitors : i \notin janitors[j].ids
         /\ i \notin slow => \A j \in Janitors : i \notin janitors[j].old
  BY DEF IInv, FlowInv, FilesInv, Done

LEMMA PrepareInv ==
  ASSUME IInv, NEW i \in Intents, Prepare(i)
  PROVE  IInv'
<1>1. Untouched(i)' /\ rows'[i].status = "none"
  BY Unborn DEF Prepare, Untouched, Works
<1>2. /\ preparing' \in [Intents -> {"new", "staging", "staged", "over"}]
      /\ \A k \in Intents : k # i => preparing'[k] = preparing[k]
      /\ preparing'[i] = IF kind[i] = "file" THEN "staging" ELSE "staged"
  BY DEF Prepare, IInv, TypeOK
<1>3. /\ staged' \in [Intents -> Staging]
      /\ \A k \in Intents : k # i => staged'[k] = staged[k]
      /\ kind[i] = "file" => staged'[i].dir = "tmp" /\ staged'[i].age = 0
      /\ kind[i] # "file" => staged'[i] = staged[i]
  <2>1. staged \in [Intents -> Staging]
    BY DEF IInv, TypeOK
  <2>2. CASE kind[i] = "file"
    <3>1. staged' = [staged EXCEPT ![i] = [dir |-> "tmp", age |-> 0]]
      BY <2>2 DEF Prepare
    <3>2. [dir |-> "tmp", age |-> 0] \in Staging
      OBVIOUS
    <3> QED
      BY <2>1, <2>2, <3>1, <3>2
  <2>3. CASE kind[i] # "file"
    BY <2>1, <2>3 DEF Prepare
  <2> QED
    BY <2>2, <2>3
<1>4. TypeOK'
  <2>1. \A k \in Intents : staged'[k].dir # "none" => kind[k] = "file"
    BY <1>3 DEF IInv, TypeOK
  <2> QED
    BY <1>2, <1>3, <2>1 DEF IInv, TypeOK, Prepare
<1>5. FlowInv(i)'
  BY <1>1, Unborn DEF FlowInv, Untouched, WorkerKnows, Prepare
<1>6. FilesInv(i)'
  <2>1. kind[i] # "file" => staged[i].dir = "none"
    BY DEF IInv, TypeOK
  <2> QED
    BY <1>1, <1>2, <1>3, <2>1, Unborn DEF FilesInv, FilesWaiting, Prepare
<1> QED
  BY <1>2, <1>3, <1>4, <1>5, <1>6, PrepareStep DEF Prepare

LEMMA StageInv ==
  ASSUME IInv, NEW i \in Intents, Stage(i)
  PROVE  IInv'
<1>1. /\ preparing[i] = "staging"
      /\ staged[i].dir = "tmp" => kind[i] = "file"
      /\ i \notin slow => staged[i].age < Retention
  BY DEF Stage, IInv, TypeOK, FilesInv, FilesWaiting
<1>2. Untouched(i)' /\ rows'[i].status = "none"
  BY <1>1, Unborn DEF Stage, Untouched, Works
<1>3. /\ preparing' \in [Intents -> {"new", "staging", "staged", "over"}]
      /\ \A k \in Intents : k # i => preparing'[k] = preparing[k]
      /\ staged' \in [Intents -> Staging]
      /\ \A k \in Intents : k # i => staged'[k] = staged[k]
      /\ \/ /\ preparing'[i] = "staged" /\ staged'[i].dir = "final" /\ kind[i] = "file"
            /\ i \notin slow => staged'[i].age < Retention
         \/ preparing'[i] = "over" /\ staged'[i].dir = "none"
  <2>1. preparing \in [Intents -> {"new", "staging", "staged", "over"}] /\ staged \in [Intents -> Staging]
    BY DEF IInv, TypeOK
  <2>2. CASE /\ staged[i].dir = "tmp" /\ staged' = [staged EXCEPT ![i].dir = "final"]
             /\ preparing' = [preparing EXCEPT ![i] = "staged"]
    <3>1. staged'[i].dir = "final" /\ staged'[i].age = staged[i].age /\ staged' \in [Intents -> Staging]
      BY <2>1, <2>2
    <3>2. \A k \in Intents : k # i => staged'[k] = staged[k]
      BY <2>1, <2>2
    <3> QED
      BY <1>1, <2>1, <2>2, <3>1, <3>2
  <2>3. CASE staged' = [staged EXCEPT ![i] = NoStaging] /\ preparing' = [preparing EXCEPT ![i] = "over"]
    BY <2>1, <2>3
  <2> QED
    BY <2>2, <2>3 DEF Stage
<1>4. TypeOK'
  <2>1. \A k \in Intents : staged'[k].dir # "none" => kind[k] = "file"
    BY <1>1, <1>3 DEF IInv, TypeOK
  <2> QED
    BY <1>3, <2>1 DEF IInv, TypeOK, Stage
<1>5. FlowInv(i)'
  BY <1>2, <1>1, Unborn DEF FlowInv, Untouched, WorkerKnows, Stage
<1>6. FilesInv(i)'
  BY <1>1, <1>2, <1>3, Unborn DEF FilesInv, FilesWaiting, Stage
<1> QED
  BY <1>3, <1>4, <1>5, <1>6, PrepareStep DEF Stage

LEMMA InsertInv ==
  ASSUME IInv, NEW i \in Intents, Insert(i)
  PROVE  IInv'
<1>1. /\ kind[i] = "file" /\ i \notin slow => staged[i].dir = "final"
      /\ kind[i] # "file" => staged[i].dir = "none"
      /\ preparing[i] = "staged" /\ staged[i].dir # "tmp"
  BY DEF Insert, IInv, TypeOK, FilesInv, FilesWaiting
<1>2. Untouched(i)' /\ Untouched(i)
  BY <1>1, Unborn DEF Insert, Untouched, Works
<1>3. /\ preparing' \in [Intents -> {"new", "staging", "staged", "over"}]
      /\ \A k \in Intents : k # i => preparing'[k] = preparing[k]
      /\ preparing'[i] = "over"
  BY <1>1 DEF Insert, IInv, TypeOK
<1>4. \/ RowMoves(i, "pending") /\ staged' = staged
      \/ /\ rows' = rows /\ staged' \in [Intents -> Staging] /\ staged'[i].dir = "none"
         /\ \A k \in Intents : k # i => staged'[k] = staged[k]
  <2>1. CASE /\ rows' = [rows EXCEPT ![i] = [status |-> "pending", ttl |-> TTL,
                                              claimed |-> 0, finished |-> 0]]
             /\ UNCHANGED staged
    <3>1. [status |-> "pending", ttl |-> TTL, claimed |-> 0, finished |-> 0] \in Row
      OBVIOUS
    <3> QED
      BY <2>1, <3>1 DEF RowMoves, IInv, TypeOK
  <2>2. CASE staged' = [staged EXCEPT ![i] = NoStaging] /\ UNCHANGED rows
    BY <2>2 DEF IInv, TypeOK
  <2> QED
    BY <2>1, <2>2 DEF Insert
<1>5. TypeOK'
  <2>1. \A k \in Intents : staged'[k].dir # "none" => kind[k] = "file"
    BY <1>4 DEF IInv, TypeOK
  <2> QED
    BY <1>3, <1>4, <2>1 DEF IInv, TypeOK, Insert, RowMoves
<1>6. rows'[i].status \in {"none", "pending"}
  BY <1>1, <1>4, Unborn DEF RowMoves
<1>7. FlowInv(i)'
  BY <1>2, <1>3, <1>6 DEF FlowInv, Untouched, WorkerKnows, Insert
<1>8. FilesInv(i)'
  BY <1>1, <1>3, <1>4, <1>6, Unborn DEF FilesInv, FilesWaiting, Insert, RowMoves
<1> QED
  BY <1>3, <1>4, <1>5, <1>7, <1>8, PrepareStep DEF Insert, RowMoves

LEMMA PreparerDiesInv ==
  ASSUME IInv, NEW i \in Intents, PreparerDies(i)
  PROVE  IInv'
<1>1. /\ preparing' \in [Intents -> {"new", "staging", "staged", "over"}]
      /\ \A k \in Intents : k # i => preparing'[k] = preparing[k]
      /\ preparing[i] # "over" /\ preparing'[i] = "over"
  BY DEF PreparerDies, IInv, TypeOK
<1>2. Untouched(i)' /\ Untouched(i) /\ rows[i].status = "none"
  BY <1>1, Unborn DEF PreparerDies, Untouched, Works
<1>3. TypeOK'
  BY <1>1 DEF IInv, TypeOK, PreparerDies, Fault
<1>4. FlowInv(i)'
  BY <1>1, <1>2 DEF FlowInv, Untouched, WorkerKnows, PreparerDies
<1>5. FilesInv(i)'
  BY <1>1, <1>2, Unborn DEF FilesInv, FilesWaiting, PreparerDies
<1> QED
  BY <1>1, <1>3, <1>4, <1>5, PrepareStep DEF PreparerDies

-----------------------------------------------------------------------------
(* The janitors. *)

\* What a janitor may do to the status of an intent.
Settles(i) ==
    \/ rows'[i].status = rows[i].status
    \/ rows[i].status \in Claimed /\ rows'[i].status = "uncertain"
    \/ rows[i].status = "pending" /\ rows'[i].status = "expired"
    \/ rows[i].status \in Terminal /\ rows'[i].status = "none"

\* It settles rows and starts to purge files of intents that are done, or slow.
LEMMA JanitorRows ==
  ASSUME IInv, NEW j \in Janitors, rows' \in [Intents -> Row],
         janitors' \in [Janitors -> Janitor],
         \A k \in Janitors : k # j => janitors'[k] = janitors[k],
         \A i \in Intents : Settles(i),
         \A i \in janitors'[j].ids : Done(i)',
         \A i \in janitors'[j].old : Done(i)' \/ i \in slow,
         UNCHANGED <<kind, slow, preparing, staged, execs, posts, delivered, faults>>
  PROVE  IInv'
<1>1. TypeOK' /\ Placed'
  BY DEF IInv, TypeOK, Placed
<1>2. ASSUME NEW i \in Intents
      PROVE  FlowInv(i)' /\ FilesInv(i)'
  <2>1. \A e \in Executors : Works(e, i)' <=> Works(e, i)
    BY DEF Works
  <2>2. \A e \in Executors : Works(e, i) => WorkerKnows(e, i)'
    BY <2>1 DEF IInv, FlowInv, WorkerKnows
  <2>3. \A k \in Janitors :
            /\ i \in janitors'[k].ids => Done(i)' \/ i \in janitors[k].ids
            /\ i \in janitors'[k].old => Done(i)' \/ i \in slow \/ i \in janitors[k].old
    OBVIOUS
  <2>4. CASE rows'[i].status = rows[i].status
    <3>1. \A f \in Executors : Works(f, i)' => Works(f, i) /\ execs'[f] = execs[f]
      BY <2>1
    <3> QED
      BY <2>3, <2>4, <3>1, FlowKept, FilesKept DEF IInv
  <2>5. CASE rows'[i].status # rows[i].status
    <3>1. Settles(i) /\ rows[i].status # "none" /\ rows'[i].status # "pending"
      BY <2>5 DEF Settles, IInv, TypeOK
    <3>2. preparing[i] = "over" /\ staged[i].dir # "tmp" /\ Done(i)'
      BY <3>1 DEF IInv, FlowInv, FilesInv, Done
    <3>3. FilesInv(i)'
      BY <2>3, <3>2, FilesKept DEF IInv
    <3>4. CASE rows[i].status = "pending"
      <4>1. rows'[i].status = "expired" /\ Untouched(i)
        BY <2>5, <3>1, <3>4 DEF Settles, IInv, FlowInv
      <4> QED
        BY <2>1, <3>2, <3>3, <4>1 DEF FlowInv, Untouched
    <3>5. CASE rows[i].status # "pending"
      <4>1. rows'[i].status \in {"uncertain", "none"} /\ posts[i] <= 1
        BY <2>5, <3>1, <3>5 DEF Settles, IInv, FlowInv
      <4> QED
        BY <2>1, <2>2, <3>2, <3>3, <4>1 DEF FlowInv
    <3> QED
      BY <3>4, <3>5
  <2> QED
    BY <2>4, <2>5
<1> QED
  BY <1>1, <1>2 DEF IInv

LEMMA ReconcileStaleInv ==
  ASSUME IInv, NEW j \in Janitors, ReconcileStale(j)
  PROVE  IInv'
<1> DEFINE stale == {i \in Intents : GivenUp(i)}
<1>1. /\ rows' = [i \in Intents |-> IF i \in stale THEN Ended(rows[i], "uncertain") ELSE rows[i]]
      /\ janitors' = [janitors EXCEPT ![j] = [pc |-> "purge", ids |-> stale, old |-> {}]]
  BY DEF ReconcileStale
<1>2. \A i \in Intents : Ended(rows[i], "uncertain") \in Row /\ Ended(rows[i], "uncertain").status = "uncertain"
  BY EndedRow DEF IInv, TypeOK
<1>3. rows' \in [Intents -> Row]
  BY <1>1, <1>2 DEF IInv, TypeOK
<1>4. /\ janitors' \in [Janitors -> Janitor]
      /\ \A k \in Janitors : k # j => janitors'[k] = janitors[k]
      /\ janitors'[j].ids = stale /\ janitors'[j].old = {}
  BY <1>1 DEF IInv, TypeOK
<1>5. \A i \in Intents : Settles(i)
  BY <1>1, <1>2 DEF Settles, GivenUp
<1>6. ASSUME NEW i \in stale
      PROVE  Done(i)'
  <2>1. rows'[i].status = "uncertain" /\ rows[i].status \in Claimed
    BY <1>1, <1>2 DEF GivenUp
  <2>2. preparing'[i] = "over"
    BY <2>1 DEF IInv, FlowInv, ReconcileStale
  <2> QED
    BY <2>1, <2>2 DEF Done
<1> HIDE DEF stale
<1> QED
  BY <1>3, <1>4, <1>5, <1>6, JanitorRows DEF ReconcileStale

\* What is old and left over belongs to no intent that is pending or to come,
\* unless its preparation is a slow one.
LEMMA LeftOverDone ==
  ASSUME IInv, NEW i \in Intents, NEW purged, LeftOver(i, purged)
  PROVE  \/ preparing[i] = "over" /\ (rows[i].status = "none" \/ i \in purged)
         \/ i \in slow
<1>1. staged[i].dir # "none" /\ staged[i].age = Retention /\ kind[i] = "file"
  BY DEF LeftOver, IInv, TypeOK
<1>2. preparing[i] = "over" \/ i \in slow
  BY <1>1 DEF IInv, TypeOK, FilesInv, FilesWaiting
<1> QED
  BY <1>2 DEF LeftOver, IInv, FilesInv

LEMMA PurgeTerminalInv ==
  ASSUME IInv, NEW j \in Janitors, PurgeTerminal(j)
  PROVE  IInv'
<1> DEFINE expired == {i \in Intents : Expired(i)}
           purged == {i \in Intents : Over(i)}
           old == {i \in Intents : LeftOver(i, purged)}
<1>1. /\ rows' = [i \in Intents |-> IF i \in purged THEN NoRow
                                    ELSE IF i \in expired THEN Ended(rows[i], "expired") ELSE rows[i]]
      /\ janitors' = [janitors EXCEPT ![j] = [pc |-> "purge", ids |-> expired \cup purged, old |-> old]]
  BY DEF PurgeTerminal
<1>2. \A i \in Intents : Ended(rows[i], "expired") \in Row /\ Ended(rows[i], "expired").status = "expired"
  BY EndedRow DEF IInv, TypeOK
<1>3. \A i \in Intents :
         /\ i \in purged => rows[i].status \in Terminal
         /\ i \in expired => rows[i].status = "pending"
         /\ i \in old => \/ preparing[i] = "over" /\ (rows[i].status = "none" \/ i \in purged)
                        \/ i \in slow
  BY LeftOverDone DEF Over, Expired
<1>4. expired \subseteq Intents /\ purged \subseteq Intents /\ old \subseteq Intents
  OBVIOUS
<1> HIDE DEF expired, purged, old
<1>5. rows' \in [Intents -> Row]
  BY <1>1, <1>2 DEF IInv, TypeOK
<1>6. /\ janitors' \in [Janitors -> Janitor]
      /\ \A k \in Janitors : k # j => janitors'[k] = janitors[k]
      /\ janitors'[j].ids = expired \cup purged /\ janitors'[j].old = old
  BY <1>1, <1>4 DEF IInv, TypeOK
<1>7. \A i \in Intents :
         /\ i \in purged => rows'[i].status = "none"
         /\ i \in expired \ purged => rows'[i].status = "expired"
         /\ i \notin expired \cup purged => rows'[i] = rows[i]
  BY <1>1, <1>2
<1>8. \A i \in Intents : Settles(i)
  BY <1>3, <1>7 DEF Settles
<1>9. ASSUME NEW i \in expired \cup purged \cup (old \ slow)
      PROVE  Done(i)'
  <2>1. i \in Intents /\ rows'[i].status # "pending"
    BY <1>3, <1>4, <1>7
  <2>2. preparing[i] = "over"
    BY <1>3, <1>4 DEF IInv, FlowInv
  <2> QED
    BY <2>1, <2>2 DEF Done, PurgeTerminal
<1> QED
  BY <1>5, <1>6, <1>8, <1>9, JanitorRows DEF PurgeTerminal

\* It takes away files it may take away, or stops.
LEMMA JanitorFiles ==
  ASSUME IInv, NEW j \in Janitors, staged' \in [Intents -> Staging],
         janitors' \in [Janitors -> Janitor],
         \A k \in Janitors : k # j => janitors'[k] = janitors[k],
         \A i \in Intents : \/ staged'[i] = staged[i]
                            \/ staged'[i].dir = "none" /\ (Done(i) \/ i \in slow),
         janitors'[j].ids \subseteq janitors[j].ids, janitors'[j].old \subseteq janitors[j].old,
         faults' \in 0..MaxFaults,
         UNCHANGED <<kind, slow, preparing, rows, execs, posts, delivered>>
  PROVE  IInv'
<1>1. TypeOK' /\ Placed'
  BY DEF IInv, TypeOK, Placed
<1>2. ASSUME NEW i \in Intents
      PROVE  FlowInv(i)'
  <2>1. \A f \in Executors : Works(f, i)' => Works(f, i) /\ execs'[f] = execs[f]
    BY DEF Works
  <2> QED
    BY <2>1, FlowKept DEF IInv
<1>3. ASSUME NEW i \in Intents
      PROVE  FilesInv(i)'
  <2>1. Done(i)' <=> Done(i)
    BY DEF Done
  <2>2. \A k \in Janitors : /\ i \in janitors'[k].ids => i \in janitors[k].ids
                            /\ i \in janitors'[k].old => i \in janitors[k].old
    OBVIOUS
  <2> QED
    BY <2>1, <2>2, FilesKept DEF IInv
<1> QED
  BY <1>1, <1>2, <1>3 DEF IInv

LEMMA PurgeOneInv ==
  ASSUME IInv, NEW j \in Janitors, PurgeOne(j)
  PROVE  IInv'
<1>1. PICK i \in janitors[j].ids :
         /\ staged' = [staged EXCEPT ![i] = NoStaging]
         /\ janitors' = [janitors EXCEPT ![j].ids = @ \ {i}]
  BY DEF PurgeOne
<1>2. janitors[j] \in Janitor /\ i \in Intents /\ Done(i)
  BY DEF IInv, TypeOK, FilesInv
<1>3. /\ janitors' \in [Janitors -> Janitor]
      /\ \A k \in Janitors : k # j => janitors'[k] = janitors[k]
      /\ janitors'[j].ids = janitors[j].ids \ {i} /\ janitors'[j].old = janitors[j].old
  BY <1>1, <1>2 DEF IInv, TypeOK
<1>4. /\ staged' \in [Intents -> Staging]
      /\ \A k \in Intents : staged'[k] = staged[k] \/ (Done(k) /\ staged'[k].dir = "none")
  BY <1>1, <1>2 DEF IInv, TypeOK
<1>5. faults' \in 0..MaxFaults
  BY DEF PurgeOne, IInv, TypeOK
<1> QED
  BY <1>3, <1>4, <1>5, JanitorFiles DEF PurgeOne

LEMMA SweepInv ==
  ASSUME IInv, NEW j \in Janitors, Sweep(j)
  PROVE  IInv'
<1>1. /\ janitors' \in [Janitors -> Janitor]
      /\ \A k \in Janitors : k # j => janitors'[k] = janitors[k]
      /\ janitors'[j].ids = {} /\ janitors'[j].old = {}
  BY DEF Sweep, IInv, TypeOK
<1>2. /\ staged' \in [Intents -> Staging]
      /\ \A k \in Intents : \/ staged'[k] = staged[k]
                            \/ staged'[k].dir = "none" /\ (Done(k) \/ k \in slow)
  BY DEF Sweep, IInv, TypeOK, FilesInv
<1>3. faults' \in 0..MaxFaults
  BY DEF Sweep, IInv, TypeOK
<1> QED
  BY <1>1, <1>2, <1>3, JanitorFiles DEF Sweep

LEMMA JanitorDiesInv ==
  ASSUME IInv, NEW j \in Janitors, JanitorDies(j)
  PROVE  IInv'
<1>1. /\ janitors' \in [Janitors -> Janitor]
      /\ \A k \in Janitors : k # j => janitors'[k] = janitors[k]
      /\ janitors'[j].ids = {} /\ janitors'[j].old = {}
  BY DEF JanitorDies, IInv, TypeOK
<1>2. staged' \in [Intents -> Staging] /\ faults' \in 0..MaxFaults
  BY DEF JanitorDies, Fault, IInv, TypeOK
<1> QED
  BY <1>1, <1>2, JanitorFiles DEF JanitorDies

-----------------------------------------------------------------------------
(* Time. *)

LEMMA AgedRow ==
  ASSUME NEW row \in Row
  PROVE  Aged(row) \in Row /\ Aged(row).status = row.status
<1> DEFINE x == [row EXCEPT !.ttl = Sooner(@)]
           y == [x EXCEPT !.claimed = IF row.status \in Claimed THEN Later(@, Stale) ELSE @]
<1>1. x \in Row /\ x.status = row.status
  BY DEF Sooner
<1>2. y = [x EXCEPT !.claimed = IF row.status \in Claimed THEN Later(@, Stale) ELSE @]
  OBVIOUS
<1>3. Aged(row) = [y EXCEPT !.finished = IF row.status \in Terminal THEN Later(@, Retention) ELSE @]
  BY DEF Aged
<1> HIDE DEF x
<1>4. y \in Row /\ y.status = row.status
  BY <1>1 DEF Later
<1> HIDE DEF y
<1> QED
  BY <1>3, <1>4 DEF Later

LEMMA TickInv ==
  ASSUME IInv, Tick
  PROVE  IInv'
<1>1. /\ rows' \in [Intents -> Row]
      /\ \A i \in Intents : rows'[i].status = rows[i].status
  BY AgedRow DEF Tick, IInv, TypeOK
<1>2. /\ staged' \in [Intents -> Staging]
      /\ \A i \in Intents : staged'[i].dir = staged[i].dir
  BY DEF Tick, IInv, TypeOK, Later
<1>3. slow \subseteq slow' /\ slow' \subseteq Intents
  BY DEF Tick, IInv, TypeOK
<1>4. ASSUME NEW i \in Intents, i \notin slow', FilesInv(i)
      PROVE  FilesWaiting(i)'
  <2>1. FilesWaiting(i) /\ ~LastsLong(i)
    BY <1>3, <1>4 DEF FilesInv, Tick
  <2>2. preparing[i] \in {"staging", "staged"} /\ staged[i].dir # "none" => staged'[i].age < Retention
    BY <2>1 DEF LastsLong, Later, Tick, IInv, TypeOK
  <2> QED
    BY <1>1, <1>2, <2>1, <2>2 DEF FilesWaiting, Tick
<1>5. TypeOK' /\ Placed'
  BY <1>1, <1>2, <1>3 DEF Tick, IInv, TypeOK, Placed
<1>6. ASSUME NEW i \in Intents
      PROVE  FlowInv(i)' /\ FilesInv(i)'
  <2>1. \A f \in Executors : Works(f, i)' => Works(f, i) /\ execs'[f] = execs[f]
    BY DEF Works, Tick
  <2>2. FlowInv(i)'
    BY <1>1, <2>1, FlowKept DEF IInv, Tick
  <2>3. FilesInv(i)'
    BY <1>1, <1>2, <1>3, <1>4 DEF IInv, FilesInv, Done, Tick
  <2> QED
    BY <2>2, <2>3
<1> QED
  BY <1>5, <1>6 DEF IInv

-----------------------------------------------------------------------------
(* The theorems. *)

LEMMA StepInv == IInv /\ [Next]_vars => IInv'
<1> SUFFICES ASSUME IInv, [Next]_vars
             PROVE  IInv'
  OBVIOUS
<1>1. CASE \E i \in Intents : Create(i) \/ PreparerDies(i)
  BY <1>1, PrepareInv, StageInv, InsertInv, PreparerDiesInv DEF Create
<1>2. CASE \E e \in Executors : \E i \in Intents : Load(e, i)
  BY <1>2, LoadInv
<1>3. CASE \E e \in Executors : Execute(e)
  BY <1>3, VerifyInv, ClaimInv, CheckInv, PostInv, ConnectorInv, FinishInv,
     RecordExternalResultInv, PurgeStagedInv DEF Execute
<1>4. CASE \E e \in Executors : ExecutorDies(e)
  BY <1>4, ExecutorDiesInv
<1>5. CASE \E j \in Janitors : Clean(j) \/ JanitorDies(j)
  BY <1>5, ReconcileStaleInv, PurgeTerminalInv, PurgeOneInv, SweepInv, JanitorDiesInv DEF Clean
<1>6. CASE Tick
  BY <1>6, TickInv
<1>7. CASE UNCHANGED vars
  BY <1>7 DEF vars, IInv, TypeOK, Placed, FlowInv, FilesInv, FilesWaiting, Untouched, WorkerKnows,
              Works, Done
<1> QED
  BY <1>1, <1>2, <1>3, <1>4, <1>5, <1>6, <1>7 DEF Next

\* The inductive invariant of the store: it relates each row, its requests and
\* the executors at work on it, and its files with whoever may take them away.
THEOREM InvariantHolds == Spec => []IInv
<1> QED
  BY InitInv, StepInv, PTL DEF Spec

\* Every row, directory, executor and janitor stays in its type, whatever the
\* number of processes and whenever they die.
THEOREM TypeCorrect == Spec => []TypeOK
<1>1. IInv => TypeOK
  BY DEF IInv
<1> QED
  BY <1>1, InvariantHolds, PTL

\* execute_intent: at most one request for an intent ever leaves, however many
\* processes execute it and whatever is reconciled or purged meanwhile.
THEOREM SentAtMostOnce == Spec => []AtMostOnce
<1>1. IInv => AtMostOnce
  BY DEF IInv, AtMostOnce, FlowInv
<1> QED
  BY <1>1, InvariantHolds, PTL

\* finish and record_external_result: what failed or expired was not delivered
\* and will not be, what succeeded was.
THEOREM VerdictIsHonest == Spec => []VerdictHonest
<1>1. IInv => VerdictHonest
  BY DEF IInv, VerdictHonest, FlowInv, Untouched
<1> QED
  BY <1>1, InvariantHolds, PTL

\* purge_terminal: no purge takes the staged files of an intent that is pending or
\* being prepared, when copying them and inserting its row took less time than
\* the retention. Nothing in the code makes it so, and of slower ones it may.
THEOREM FilesWait == Spec => []StagedWhilePending
<1>1. IInv => StagedWhilePending
  BY DEF IInv, StagedWhilePending, FilesInv, FilesWaiting
<1> QED
  BY <1>1, InvariantHolds, PTL
=============================================================================
