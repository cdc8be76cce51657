----------------------------- MODULE ActionStore -----------------------------
(***************************************************************************)
(* Outgoing messages: ActionStore, execute_intent and                      *)
(* record_external_result of personal_messaging.py. An intent is prepared  *)
(* once, with its attachments staged; processes execute it through a local *)
(* bridge, or route it to the Slack connector that an agent calls; others  *)
(* reconcile stale claims and purge what is over. Each method of the store *)
(* is one SQLite transaction, staging and purging of files are steps of    *)
(* their own, and a process may die between any two.                       *)
(*                                                                         *)
(* Time is kept as what the code tests: how far an intent is from its      *)
(* expiry, and how long ago it was claimed, finished or staged, each up to *)
(* the bound the code compares it with.                                    *)
(***************************************************************************)
EXTENDS Naturals, FiniteSets

CONSTANTS Intents,
          Kinds,       \* intents to choose from: "text", "file" (with an attachment), "slack"
          Executors,   \* processes running execute-action
          Janitors,    \* processes running reconcile-stale or purge-terminal
          TTL,         \* time from preparation to expiry
          Stale,       \* age_seconds of reconcile_stale
          Retention,   \* retention_seconds of purge_terminal
          MaxFaults,   \* bound: deaths of processes
          NoIntent

ASSUME ActionAssumption ==
    /\ Kinds \subseteq {"text", "file", "slack"} /\ NoIntent \notin Intents
    /\ TTL \in Nat \ {0} /\ Stale \in Nat \ {0} /\ Retention \in Nat \ {0}
    /\ MaxFaults \in Nat

Terminal == {"succeeded", "failed", "uncertain", "expired"}
Claimed == {"in_flight", "external_pending"}
Statuses == Terminal \cup Claimed \cup {"none", "pending"}

VARIABLES kind,      \* of each intent
          slow,      \* intents whose preparation took as long as the retention (history)
          preparing, \* where create_intent is
          rows,      \* table action_intents; "none" before the insert and after the purge
          staged,    \* the staging directory of each intent, and the time since it was written
          execs,     \* execute_intent: program counter, intent, result to record
          janitors,  \* purges under way: ids to purge, and old directories to look at
          posts,     \* requests for the intent that left for the bridge or the connector
          delivered, \* intents the platform received (history)
          faults

vars == <<kind, slow, preparing, rows, staged, execs, janitors, posts, delivered, faults>>

Row == [status: Statuses, ttl: 0..TTL, claimed: 0..Stale, finished: 0..Retention]
NoRow == [status |-> "none", ttl |-> 0, claimed |-> 0, finished |-> 0]

Staging == [dir: {"none", "tmp", "final"}, age: 0..Retention]
NoStaging == [dir |-> "none", age |-> 0]

Exec == [pc: {"idle", "verify", "claim", "check", "post", "finish", "route", "record", "purge"},
         intent: Intents \cup {NoIntent}, result: Terminal]
Idle == [pc |-> "idle", intent |-> NoIntent, result |-> "failed"]

Janitor == [pc: {"idle", "purge", "sweep"}, ids: SUBSET Intents, old: SUBSET Intents]
Resting == [pc |-> "idle", ids |-> {}, old |-> {}]

Init ==
    /\ kind \in [Intents -> Kinds] /\ slow = {}
    /\ preparing = [i \in Intents |-> "new"]
    /\ rows = [i \in Intents |-> NoRow]
    /\ staged = [i \in Intents |-> NoStaging]
    /\ execs = [e \in Executors |-> Idle]
    /\ janitors = [j \in Janitors |-> Resting]
    /\ posts = [i \in Intents |-> 0]
    /\ delivered = {}
    /\ faults = 0

\* Leaving a status for a terminal one starts finished_ts.
Ended(row, status) == [row EXCEPT !.status = status, !.finished = 0]

-----------------------------------------------------------------------------
(* create_intent *)

\* Wrong variant: a directory is made for every intent.
PrepareAlways(i) ==
    /\ preparing[i] = "new"
    /\ preparing' = [preparing EXCEPT ![i] = "staging"]
    /\ staged' = [staged EXCEPT ![i] = [dir |-> "tmp", age |-> 0]]
    /\ UNCHANGED <<kind, slow, rows, execs, janitors, posts, delivered, faults>>

Prepare(i) ==
    /\ preparing[i] = "new"
    /\ IF kind[i] = "file"
       THEN /\ preparing' = [preparing EXCEPT ![i] = "staging"]
            /\ staged' = [staged EXCEPT ![i] = [dir |-> "tmp", age |-> 0]]
       ELSE /\ preparing' = [preparing EXCEPT ![i] = "staged"]
            /\ UNCHANGED staged
    /\ UNCHANGED <<kind, slow, rows, execs, janitors, posts, delivered, faults>>

\* os.replace keeps the time of the directory. An attachment that is missing or
\* too large, or a directory that was swept meanwhile, ends the preparation.
Stage(i) ==
    /\ preparing[i] = "staging"
    /\ \/ /\ staged[i].dir = "tmp"
          /\ staged' = [staged EXCEPT ![i].dir = "final"]
          /\ preparing' = [preparing EXCEPT ![i] = "staged"]
       \/ /\ staged' = [staged EXCEPT ![i] = NoStaging]
          /\ preparing' = [preparing EXCEPT ![i] = "over"]
    /\ UNCHANGED <<kind, slow, rows, execs, janitors, posts, delivered, faults>>

\* The insert, or its failure, after which the staged files are purged.
Insert(i) ==
    /\ preparing[i] = "staged"
    /\ preparing' = [preparing EXCEPT ![i] = "over"]
    /\ \/ /\ rows' = [rows EXCEPT ![i] = [status |-> "pending", ttl |-> TTL, claimed |-> 0, finished |-> 0]]
          /\ UNCHANGED staged
       \/ /\ staged' = [staged EXCEPT ![i] = NoStaging]
          /\ UNCHANGED rows
    /\ UNCHANGED <<kind, slow, execs, janitors, posts, delivered, faults>>

-----------------------------------------------------------------------------
(* execute_intent *)

ExecAt(e, pc) == execs[e].pc = pc
ExecTo(e, pc) == execs' = [execs EXCEPT ![e].pc = pc]
ExecEnds(e) == execs' = [execs EXCEPT ![e] = Idle]
ExecResult(e, pc, result) == execs' = [execs EXCEPT ![e].pc = pc, ![e].result = result]

\* load_intent; whatever is not pending is refused.
Load(e, i) ==
    /\ ExecAt(e, "idle") /\ rows[i].status = "pending"
    /\ execs' = [execs EXCEPT ![e] = [Idle EXCEPT !.pc = "verify", !.intent = i]]
    /\ UNCHANGED <<kind, slow, preparing, rows, staged, janitors, posts, delivered, faults>>

\* A pending intent that is past its time becomes expired, whoever finds it.
Expire(e, i) ==
    IF rows[i].status = "pending" /\ rows[i].ttl = 0
    THEN rows' = [rows EXCEPT ![i] = Ended(@, "expired")] /\ ExecTo(e, "purge")
    ELSE UNCHANGED rows /\ ExecEnds(e)

\* verify_executable; at the very moment of its expiry an intent still passes.
\* A dry run ends here.
Verify(e) ==
    /\ ExecAt(e, "verify")
    /\ LET i == execs[e].intent
       IN  \/ ExecTo(e, "claim") /\ UNCHANGED rows
           \/ ExecEnds(e) /\ UNCHANGED rows
           \/ rows[i].ttl = 0 /\ Expire(e, i)
    /\ UNCHANGED <<kind, slow, preparing, staged, janitors, posts, delivered, faults>>

\* Wrong variant: a claim that was given up may be claimed again.
Claimable(i) == rows[i].status \in {"pending", "uncertain"} /\ rows[i].ttl > 0
Fresh(i) == rows[i].status = "pending" /\ rows[i].ttl > 0

\* A claim starts claimed_ts.
Taken(row, status) == [row EXCEPT !.status = status, !.claimed = 0]

Claim(e) ==
    /\ ExecAt(e, "claim")
    /\ LET i == execs[e].intent
           slack == kind[i] = "slack"
       IN  IF Fresh(i)
           THEN /\ rows' = [rows EXCEPT ![i] = Taken(@, IF slack THEN "external_pending" ELSE "in_flight")]
                /\ ExecTo(e, IF slack THEN "route" ELSE "check")
           ELSE Expire(e, i)
    /\ UNCHANGED <<kind, slow, preparing, staged, janitors, posts, delivered, faults>>

\* verify_staged_attachments, right before the transport.
Check(e) ==
    /\ ExecAt(e, "check")
    /\ IF kind[execs[e].intent] = "file" /\ staged[execs[e].intent].dir # "final"
       THEN ExecResult(e, "finish", "failed")
       ELSE ExecTo(e, "post")
    /\ UNCHANGED <<kind, slow, preparing, rows, staged, janitors, posts, delivered, faults>>

\* What was sent may have been received, whatever is heard of it.
Send(i, received) ==
    /\ posts' = [posts EXCEPT ![i] = @ + 1]
    /\ delivered' = IF received THEN delivered \cup {i} ELSE delivered

\* How the adapters read an answer: only a positive one is a success, and it
\* is not given for what was not received; a rejection, a group of which a part
\* refused, an answer that makes no sense or none in time is uncertain.
Answers(received) == IF received THEN {"succeeded", "uncertain"} ELSE {"uncertain"}

\* post_json: a refused connection sends nothing and is a failure.
Post(e) ==
    /\ ExecAt(e, "post")
    /\ \/ ExecResult(e, "finish", "failed") /\ UNCHANGED <<posts, delivered>>
       \/ \E received \in BOOLEAN : \E answer \in Answers(received) :
              Send(execs[e].intent, received) /\ ExecResult(e, "finish", answer)
    /\ UNCHANGED <<kind, slow, preparing, rows, staged, janitors, faults>>

\* The agent calls the connector with the route it was given and reports the
\* category of the outcome.
Connector(e) ==
    /\ ExecAt(e, "route")
    /\ \E received \in BOOLEAN : \E answer \in Answers(received) \cup (IF received THEN {} ELSE {"failed"}) :
          Send(execs[e].intent, received) /\ ExecResult(e, "record", answer)
    /\ UNCHANGED <<kind, slow, preparing, rows, staged, janitors, faults>>

\* finish(): a result counts only while the claim stands.
Record(e, expected) ==
    LET i == execs[e].intent
    IN  IF rows[i].status = expected
        THEN rows' = [rows EXCEPT ![i] = Ended(@, execs[e].result)] /\ ExecTo(e, "purge")
        ELSE UNCHANGED rows /\ ExecEnds(e)

Finish(e) ==
    /\ ExecAt(e, "finish")
    /\ Record(e, "in_flight")
    /\ UNCHANGED <<kind, slow, preparing, staged, janitors, posts, delivered, faults>>

RecordExternalResult(e) ==
    /\ ExecAt(e, "record")
    /\ Record(e, "external_pending")
    /\ UNCHANGED <<kind, slow, preparing, staged, janitors, posts, delivered, faults>>

PurgeStaged(e) ==
    /\ ExecAt(e, "purge")
    /\ staged' = [staged EXCEPT ![execs[e].intent] = NoStaging]
    /\ ExecEnds(e)
    /\ UNCHANGED <<kind, slow, preparing, rows, janitors, posts, delivered, faults>>

-----------------------------------------------------------------------------
(* reconcile_stale and purge_terminal *)

\* Wrong variant: only claims of the local bridge go stale.
Overdue(i) == rows[i].status = "in_flight" /\ rows[i].claimed = Stale

GivenUp(i) == rows[i].status \in Claimed /\ rows[i].claimed = Stale

ReconcileStale(j) ==
    /\ janitors[j].pc = "idle"
    /\ LET stale == {i \in Intents : GivenUp(i)}
       IN  /\ stale # {}
           /\ rows' = [i \in Intents |-> IF i \in stale THEN Ended(rows[i], "uncertain") ELSE rows[i]]
           /\ janitors' = [janitors EXCEPT ![j] = [pc |-> "purge", ids |-> stale, old |-> {}]]
    /\ UNCHANGED <<kind, slow, preparing, staged, execs, posts, delivered, faults>>

\* Wrong variant: whatever is past its expiry is over.
PastExpiry(i) == rows[i].status \in {"pending"} \cup Claimed /\ rows[i].ttl = 0

Expired(i) == rows[i].status = "pending" /\ rows[i].ttl = 0
Over(i) == rows[i].status \in Terminal /\ rows[i].finished = Retention

\* Wrong variant: every directory that no row knows is left over.
Unknown(i, purged) == staged[i].dir # "none" /\ (rows[i].status = "none" \/ i \in purged)

\* A directory is left over when no row knows it (a temporary name is never
\* known) and it is as old as the retention.
LeftOver(i, purged) ==
    /\ staged[i].dir # "none" /\ staged[i].age = Retention
    /\ staged[i].dir = "tmp" \/ rows[i].status = "none" \/ i \in purged

PurgeTerminal(j) ==
    /\ janitors[j].pc = "idle"
    /\ LET expired == {i \in Intents : Expired(i)}
           purged == {i \in Intents : Over(i)}
           old == {i \in Intents : LeftOver(i, purged)}
       IN  /\ expired \cup purged \cup old # {}
           /\ rows' = [i \in Intents |-> IF i \in purged THEN NoRow
                                         ELSE IF i \in expired THEN Ended(rows[i], "expired") ELSE rows[i]]
           /\ janitors' = [janitors EXCEPT ![j] = [pc |-> "purge", ids |-> expired \cup purged, old |-> old]]
    /\ UNCHANGED <<kind, slow, preparing, staged, execs, posts, delivered, faults>>

PurgeOne(j) ==
    /\ janitors[j].pc = "purge" /\ janitors[j].ids # {}
    /\ \E i \in janitors[j].ids :
          /\ staged' = [staged EXCEPT ![i] = NoStaging]
          /\ janitors' = [janitors EXCEPT ![j].ids = @ \ {i}]
    /\ UNCHANGED <<kind, slow, preparing, rows, execs, posts, delivered, faults>>

Sweep(j) ==
    /\ janitors[j].pc = "purge" /\ janitors[j].ids = {}
    /\ staged' = [i \in Intents |-> IF i \in janitors[j].old THEN NoStaging ELSE staged[i]]
    /\ janitors' = [janitors EXCEPT ![j] = Resting]
    /\ UNCHANGED <<kind, slow, preparing, rows, execs, posts, delivered, faults>>

-----------------------------------------------------------------------------
(* Time and deaths *)

Later(n, bound) == IF n < bound THEN n + 1 ELSE bound
Sooner(n) == IF n > 0 THEN n - 1 ELSE 0

Aged(row) ==
    [row EXCEPT !.ttl = Sooner(@),
                !.claimed = IF row.status \in Claimed THEN Later(@, Stale) ELSE @,
                !.finished = IF row.status \in Terminal THEN Later(@, Retention) ELSE @]

\* No time is too long to copy the attachments or to wait for the database.
LastsLong(i) ==
    /\ preparing[i] \in {"staging", "staged"}
    /\ staged[i].dir # "none" /\ Later(staged[i].age, Retention) = Retention

Tick ==
    /\ slow' = slow \cup {i \in Intents : LastsLong(i)}
    /\ rows' = [i \in Intents |-> IF rows[i].status = "none" THEN rows[i] ELSE Aged(rows[i])]
    /\ staged' = [i \in Intents |-> IF staged[i].dir = "none" THEN staged[i]
                                    ELSE [staged[i] EXCEPT !.age = Later(@, Retention)]]
    /\ UNCHANGED <<kind, preparing, execs, janitors, posts, delivered, faults>>

Fault == faults < MaxFaults /\ faults' = faults + 1

PreparerDies(i) ==
    /\ preparing[i] \in {"staging", "staged"} /\ Fault
    /\ preparing' = [preparing EXCEPT ![i] = "over"]
    /\ UNCHANGED <<kind, slow, rows, staged, execs, janitors, posts, delivered>>

ExecutorDies(e) ==
    /\ ~ExecAt(e, "idle") /\ Fault
    /\ ExecEnds(e)
    /\ UNCHANGED <<kind, slow, preparing, rows, staged, janitors, posts, delivered>>

JanitorDies(j) ==
    /\ janitors[j].pc # "idle" /\ Fault
    /\ janitors' = [janitors EXCEPT ![j] = Resting]
    /\ UNCHANGED <<kind, slow, preparing, rows, staged, execs, posts, delivered>>

Execute(e) ==
    \/ Verify(e) \/ Claim(e) \/ Check(e) \/ Post(e) \/ Connector(e)
    \/ Finish(e) \/ RecordExternalResult(e) \/ PurgeStaged(e)

Create(i) == Prepare(i) \/ Stage(i) \/ Insert(i)
Clean(j) == ReconcileStale(j) \/ PurgeTerminal(j) \/ PurgeOne(j) \/ Sweep(j)

Next ==
    \/ \E i \in Intents : Create(i) \/ PreparerDies(i)
    \/ \E e \in Executors : Execute(e) \/ ExecutorDies(e) \/ \E i \in Intents : Load(e, i)
    \/ \E j \in Janitors : Clean(j) \/ JanitorDies(j)
    \/ Tick

Spec == Init /\ [][Next]_vars

\* Processes run, time passes, and both janitorial commands are run again and
\* again; nobody need execute what was prepared.
FairSpec ==
    /\ Spec
    /\ \A i \in Intents : WF_vars(Create(i))
    /\ \A e \in Executors : WF_vars(Execute(e))
    /\ \A j \in Janitors : WF_vars(PurgeOne(j) \/ Sweep(j)) /\ SF_vars(ReconcileStale(j)) /\ SF_vars(PurgeTerminal(j))
    /\ WF_vars(Tick)

-----------------------------------------------------------------------------
TypeOK ==
    /\ kind \in [Intents -> Kinds] /\ slow \subseteq Intents
    /\ preparing \in [Intents -> {"new", "staging", "staged", "over"}]
    /\ rows \in [Intents -> Row]
    /\ staged \in [Intents -> Staging]
    /\ \A i \in Intents : staged[i].dir # "none" => kind[i] = "file"
    /\ execs \in [Executors -> Exec]
    /\ janitors \in [Janitors -> Janitor]
    /\ posts \in [Intents -> Nat]
    /\ delivered \subseteq Intents
    /\ faults \in 0..MaxFaults

\* However many processes execute an intent, however they die and whatever is
\* reconciled meanwhile, at most one request for it ever leaves.
AtMostOnce == \A i \in Intents : posts[i] <= 1

\* The verdict tells the truth for ever: what is said to have failed or
\* expired ("nothing was delivered") was not and will not be delivered, what
\* is said to have succeeded was.
VerdictHonest ==
    \A i \in Intents :
       /\ rows[i].status \in {"pending", "failed", "expired"} => i \notin delivered
       /\ rows[i].status = "succeeded" => i \in delivered

\* An intent waits with its attachments: no purge takes the staged files of an
\* intent that is pending or being prepared, if copying them and inserting its
\* row took less time than the retention. The code bounds neither: of a slower one
\* a sweep takes the files away, and staging or the check before sending fails.
StagedWhilePending ==
    \A i \in Intents \ slow :
       kind[i] = "file" /\ (rows[i].status = "pending" \/ preparing[i] = "staged") => staged[i].dir = "final"

\* Nothing stays behind: in the end every intent has had its verdict and is
\* gone with its staged files.
NothingLeftBehind ==
    \A i \in Intents : <>[](rows[i].status = "none" /\ staged[i].dir = "none")
=============================================================================
