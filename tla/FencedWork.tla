----------------------------- MODULE FencedWork -----------------------------
(***************************************************************************)
(* What the job table promises to the processes that share it: a piece of  *)
(* work is handed to one process at a time, each hand-over starts a new    *)
(* epoch, a work order is handed out at most "limit" times, only the       *)
(* process holding it can finish it, and a verdict is never taken back.    *)
(* Leases, clocks, keys and the intermediate job states are not visible.   *)
(***************************************************************************)
EXTENDS Naturals

CONSTANTS Jobs, Procs, Budgets, NoProc

VARIABLES limit,    \* hand-overs allowed; 0 until the work order exists
          epoch,    \* hand-overs so far
          holder,   \* the process the work is handed to, or NoProc
          verdict   \* "open", "done" or "dropped"

fvars == <<limit, epoch, holder, verdict>>

Init == /\ limit = [j \in Jobs |-> 0]
        /\ epoch = [j \in Jobs |-> 0]
        /\ holder = [j \in Jobs |-> NoProc]
        /\ verdict = [j \in Jobs |-> "open"]

Post(j) == /\ limit[j] = 0
           /\ \E b \in Budgets : limit' = [limit EXCEPT ![j] = b]
           /\ UNCHANGED <<epoch, holder, verdict>>

Take(j, p) == /\ verdict[j] = "open"
              /\ holder[j] = NoProc
              /\ epoch[j] < limit[j]
              /\ epoch' = [epoch EXCEPT ![j] = @ + 1]
              /\ holder' = [holder EXCEPT ![j] = p]
              /\ UNCHANGED <<limit, verdict>>

\* Work is given back by its holder or taken from the processes in S at once.
Release(S) == /\ \A j \in S : holder[j] # NoProc
              /\ holder' = [j \in Jobs |-> IF j \in S THEN NoProc ELSE holder[j]]
              /\ UNCHANGED <<limit, epoch, verdict>>

Finish(j) == /\ holder[j] # NoProc
             /\ verdict' = [verdict EXCEPT ![j] = "done"]
             /\ holder' = [holder EXCEPT ![j] = NoProc]
             /\ UNCHANGED <<limit, epoch>>

Drop(j) == /\ verdict[j] = "open"
           /\ limit[j] > 0
           /\ verdict' = [verdict EXCEPT ![j] = "dropped"]
           /\ holder' = [holder EXCEPT ![j] = NoProc]
           /\ UNCHANGED <<limit, epoch>>

Next == \/ \E j \in Jobs : \/ Post(j)
                           \/ \E p \in Procs : Take(j, p)
                           \/ Finish(j)
                           \/ Drop(j)
        \/ \E S \in SUBSET Jobs : Release(S)

Spec == Init /\ [][Next]_fvars
=============================================================================
