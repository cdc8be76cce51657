--------------------------- MODULE RunnerHandoff ---------------------------
(***************************************************************************)
(* One stage of a coder flow: hermes-coder-flow starts a hermes-coder      *)
(* runner, the runner starts models and gates in process groups of their   *)
(* own and reports each start and stop over a private socket. When the     *)
(* stage is over, timed out or interrupted, flow and runner together have  *)
(* to leave none of these groups behind, whoever of them dies meanwhile.   *)
(* A group is signalled only while its leader, whose kernel start time was *)
(* reported, still has its number; the test and the signal are one step.   *)
(* Each timeout may pass at any time, early or late.                       *)
(***************************************************************************)
EXTENDS Naturals, Sequences

CONSTANTS Groups,     \* process groups the runner starts, one after another
          MaxFaults   \* bound: deaths of runner and flow, unreadable identities

ASSUME HandoffAssumption == MaxFaults \in Nat

VARIABLES leader,      \* the leader of each group; a zombie is not yet reaped
          family,      \* groups with living descendants of their leader
          runner,      \* program counter and ShutdownHandoff of the runner
          wire,        \* frames the runner has written and the flow not read
          heard,       \* what RunnerHandoff has read
          flow,        \* program counter and locals of the stage in the flow
          registered,  \* groups whose start was written to the socket (history)
          faults

vars == <<leader, family, runner, wire, heard, flow, registered, faults>>

Frames == {"P", "C"} \X Groups \cup {<<"A">>, <<"F">>}

Runner == [pc: {"next", "popen", "wait", "term", "over", "ack", "close", "exit", "ended", "dead"},
           child: SUBSET Groups, active: SUBSET Groups, requested: BOOLEAN, unregistered: BOOLEAN]

Heard == [groups: SUBSET Groups, acknowledged: BOOLEAN, failed: BOOLEAN,
          invalid: BOOLEAN, finished: BOOLEAN]

\* todo are the groups still to be stopped, frozen those of the second round;
\* asked says that the flow's end asks for shutdown or is closed.
Flow == [pc: {"wait", "ack", "kill", "group", "drain", "finish", "done", "dead"},
         asked: BOOLEAN, clean: BOOLEAN, drained: BOOLEAN, todo: SUBSET Groups,
         frozen: SUBSET Groups, stopping: {"no", "term", "kill"}, target: SUBSET Groups,
         failures: BOOLEAN, error: BOOLEAN]

Init ==
    /\ leader = [g \in Groups |-> "none"]
    /\ family = {}
    /\ runner = [pc |-> "next", child |-> {}, active |-> {}, requested |-> FALSE, unregistered |-> FALSE]
    /\ wire = <<>>
    /\ heard = [groups |-> {}, acknowledged |-> FALSE, failed |-> FALSE, invalid |-> FALSE, finished |-> FALSE]
    /\ flow = [pc |-> "wait", asked |-> FALSE, clean |-> FALSE, drained |-> FALSE, todo |-> {},
               frozen |-> {}, stopping |-> "no", target |-> {}, failures |-> FALSE, error |-> FALSE]
    /\ registered = {}
    /\ faults = 0

Fault == faults < MaxFaults /\ faults' = faults + 1

-----------------------------------------------------------------------------
(* Process groups: a group exists while one of its processes does, and a   *)
(* zombie is one until it is reaped. Its identity can be verified while    *)
(* its leader has not been reaped.                                         *)

Exists(g) == leader[g] \in {"live", "zombie"} \/ g \in family
Owned(g) == leader[g] \in {"live", "zombie"}

Ended == runner.pc \in {"ended", "dead"}

LeaderExits(g) ==
    /\ leader[g] = "live"
    /\ leader' = [leader EXCEPT ![g] = "zombie"]
    /\ UNCHANGED <<family, runner, wire, heard, flow, registered, faults>>

FamilyEnds(g) ==
    /\ g \in family
    /\ family' = family \ {g}
    /\ UNCHANGED <<leader, runner, wire, heard, flow, registered, faults>>

\* The children of a runner that is gone are reaped by init.
Reaped(g) ==
    /\ Ended /\ leader[g] = "zombie"
    /\ leader' = [leader EXCEPT ![g] = "reaped"]
    /\ UNCHANGED <<family, runner, wire, heard, flow, registered, faults>>

\* SIGTERM: the leader and its descendants obey or not.
Termed(g) ==
    /\ leader' \in {leader, [leader EXCEPT ![g] = IF @ = "live" THEN "zombie" ELSE @]}
    /\ family' \in {family, family \ {g}}

-----------------------------------------------------------------------------
(* The runner: ShutdownHandoff and run_process of hermes-coder             *)

\* A write to the socket fails once the flow's end is closed, which is a
\* shutdown request.
Reachable == flow.pc \notin {"done", "dead"}
Send(frame) == wire' = IF Reachable THEN Append(wire, frame) ELSE wire

\* Wrong variant: only a request is one, the end of the flow is not.
WatchRequest ==
    /\ flow.asked /\ Reachable /\ ~Ended /\ ~runner.requested
    /\ runner' = [runner EXCEPT !.requested = TRUE]
    /\ UNCHANGED <<leader, family, wire, heard, flow, registered, faults>>

\* The watcher reads the request, or the end of the flow.
Watch ==
    /\ flow.asked /\ ~Ended /\ ~runner.requested
    /\ runner' = [runner EXCEPT !.requested = TRUE]
    /\ UNCHANGED <<leader, family, wire, heard, flow, registered, faults>>

\* run_process starts a child unless shutdown was requested. The next child
\* follows whatever became of the last one.
Popen(g) ==
    /\ runner.pc = "next" /\ ~runner.requested /\ leader[g] = "none"
    /\ leader' = [leader EXCEPT ![g] = "live"]
    /\ family' \in {family, family \cup {g}}
    /\ runner' = [runner EXCEPT !.pc = "popen", !.child = {g}]
    /\ UNCHANGED <<wire, heard, flow, registered, faults>>

ModelStarted(g) ==
    /\ runner.pc = "popen" /\ g \in runner.child
    /\ Send(<<"P", g>>)
    /\ IF Reachable
       THEN /\ runner' = [runner EXCEPT !.pc = "wait", !.active = @ \cup {g}]
            /\ registered' = registered \cup {g}
       ELSE /\ runner' = [runner EXCEPT !.pc = "wait", !.requested = TRUE, !.unregistered = TRUE]
            /\ UNCHANGED registered
    /\ UNCHANGED <<leader, family, heard, flow, faults>>

\* The kernel does not tell the child's identity: only the child itself is
\* stopped, through its handle.
RegistrationFailed(g) ==
    /\ runner.pc = "popen" /\ g \in runner.child /\ Fault
    /\ leader' = [leader EXCEPT ![g] = "reaped"]
    /\ runner' = [runner EXCEPT !.pc = "next", !.child = {}, !.requested = TRUE, !.unregistered = TRUE]
    /\ Send(<<"F">>)
    /\ UNCHANGED <<family, heard, flow, registered>>

\* proc.poll() and proc.wait() reap the leader.
ChildEnds(g) ==
    /\ runner.pc \in {"wait", "term"} /\ g \in runner.child /\ leader[g] = "zombie"
    /\ leader' = [leader EXCEPT ![g] = "reaped"]
    /\ runner' = [runner EXCEPT !.pc = IF runner.pc = "wait" \/ g \notin family THEN "over" ELSE @]
    /\ UNCHANGED <<family, wire, heard, flow, registered, faults>>

\* _stop_process_group: TERM, a second of grace, KILL if the leader still has
\* its number.
StopChild(g) ==
    /\ runner.pc = "wait" /\ g \in runner.child
    /\ Termed(g)
    /\ runner' = [runner EXCEPT !.pc = "term"]
    /\ UNCHANGED <<wire, heard, flow, registered, faults>>

Interrupt(g) == runner.requested /\ StopChild(g)
AttemptTimeout(g) == StopChild(g)

GraceOver(g) ==
    /\ runner.pc = "term" /\ g \in runner.child
    /\ IF Owned(g)
       THEN leader' = [leader EXCEPT ![g] = "reaped"] /\ family' = family \ {g}
       ELSE UNCHANGED <<leader, family>>
    /\ runner' = [runner EXCEPT !.pc = "over"]
    /\ UNCHANGED <<wire, heard, flow, registered, faults>>

\* Wrong variant: a child that could not be stopped stays the current one.
ModelStoppedElse(g) ==
    /\ runner.pc = "over" /\ g \in runner.child
    /\ IF g \in runner.active /\ ~Exists(g)
       THEN /\ Send(<<"C", g>>)
            /\ runner' = [runner EXCEPT !.pc = "next", !.child = {}, !.active = @ \ {g},
                                        !.requested = @ \/ ~Reachable]
       ELSE /\ runner' = [runner EXCEPT !.pc = "next"]
            /\ UNCHANGED wire
    /\ UNCHANGED <<leader, family, heard, flow, registered, faults>>

\* The leader is reaped by now: descendants that outlived it cannot be
\* signalled any more, and their group stays registered.
ModelStopped(g) ==
    /\ runner.pc = "over" /\ g \in runner.child
    /\ IF g \in runner.active /\ ~Exists(g)
       THEN /\ Send(<<"C", g>>)
            /\ runner' = [runner EXCEPT !.pc = "next", !.child = {}, !.active = @ \ {g},
                                        !.requested = @ \/ ~Reachable]
       ELSE /\ runner' = [runner EXCEPT !.pc = "next", !.child = {}]
            /\ UNCHANGED wire
    /\ UNCHANGED <<leader, family, heard, flow, registered, faults>>

ChainOver ==
    /\ runner.pc = "next"
    /\ runner' = [runner EXCEPT !.pc = "ack"]
    /\ UNCHANGED <<leader, family, wire, heard, flow, registered, faults>>

Acknowledge ==
    /\ runner.pc = "ack"
    /\ runner' = [runner EXCEPT !.pc = "close"]
    /\ IF runner.requested
       THEN Send(IF runner.unregistered \/ runner.active # {} THEN <<"F">> ELSE <<"A">>)
       ELSE UNCHANGED wire
    /\ UNCHANGED <<leader, family, heard, flow, registered, faults>>

Close ==
    /\ runner.pc = "close"
    /\ runner' = [runner EXCEPT !.pc = "exit"]
    /\ UNCHANGED <<leader, family, wire, heard, flow, registered, faults>>

Exit ==
    /\ runner.pc = "exit"
    /\ runner' = [runner EXCEPT !.pc = "ended"]
    /\ UNCHANGED <<leader, family, wire, heard, flow, registered, faults>>

RunnerDies ==
    /\ ~Ended /\ Fault
    /\ runner' = [runner EXCEPT !.pc = "dead"]
    /\ UNCHANGED <<leader, family, wire, heard, flow, registered>>

-----------------------------------------------------------------------------
(* The flow's receiver: _receive and _consume_frames                       *)

Read(h, frame) ==
    CASE frame[1] = "P" -> [h EXCEPT !.groups = @ \cup {frame[2]}]
      [] frame[1] = "C" -> [h EXCEPT !.groups = @ \ {frame[2]}, !.invalid = @ \/ frame[2] \notin h.groups]
      [] frame[1] = "A" -> [h EXCEPT !.acknowledged = TRUE, !.invalid = @ \/ h.groups # {}]
      [] frame[1] = "F" -> [h EXCEPT !.failed = TRUE]

Receive ==
    /\ wire # <<>> /\ Reachable
    /\ heard' = Read(heard, Head(wire))
    /\ wire' = Tail(wire)
    /\ UNCHANGED <<leader, family, runner, flow, registered, faults>>

\* The end of the stream fixes the set of registered groups.
EndOfFile ==
    /\ wire = <<>> /\ Reachable /\ ~heard.finished
    /\ runner.pc \in {"exit", "ended", "dead"}
    /\ heard' = [heard EXCEPT !.finished = TRUE]
    /\ UNCHANGED <<leader, family, runner, wire, flow, registered, faults>>

-----------------------------------------------------------------------------
(* The flow's stage: _execute, _stop_runner_tree, _finish_runner_handoff   *)

FlowTo(changed) ==
    /\ flow' = changed
    /\ UNCHANGED <<wire, heard, registered, faults>>

RunnerExited ==
    /\ flow.pc = "wait" /\ Ended
    /\ FlowTo([flow EXCEPT !.pc = "drain"])
    /\ UNCHANGED <<leader, family, runner>>

\* A signal, the stage's budget, or a runner that lost its channel.
Request ==
    /\ flow.pc = "wait"
    /\ FlowTo([flow EXCEPT !.pc = "ack", !.asked = TRUE])
    /\ UNCHANGED <<leader, family, runner>>

\* request_and_wait returns at the first answer, at the end of the stream or
\* when its time is up.
Answered ==
    /\ flow.pc = "ack"
    /\ LET clean == heard.acknowledged /\ ~heard.failed /\ heard.groups = {} /\ ~heard.invalid
       IN  FlowTo([flow EXCEPT !.pc = IF clean THEN "group" ELSE "kill",
                               !.clean = clean,
                               !.todo = heard.groups])
    /\ UNCHANGED <<leader, family, runner>>

\* _stop_exact_process_group on one of the groups to be stopped.
Stopping(g) == flow.pc \in {"kill", "finish"} /\ g \in flow.target
Stopped(ok) ==
    FlowTo([flow EXCEPT !.stopping = "no", !.target = {}, !.failures = @ \/ ~ok])

StopGroup(g) ==
    /\ flow.pc \in {"kill", "finish"} /\ flow.target = {} /\ g \in flow.todo
    /\ IF Owned(g)
       THEN /\ Termed(g)
            /\ FlowTo([flow EXCEPT !.todo = @ \ {g}, !.target = {g}, !.stopping = "term"])
       ELSE /\ FlowTo([flow EXCEPT !.todo = @ \ {g}, !.failures = @ \/ Exists(g)])
            /\ UNCHANGED <<leader, family>>
    /\ UNCHANGED runner

TermTaken(g) ==
    /\ Stopping(g)
    /\ \/ ~Exists(g) /\ Stopped(TRUE)
       \/ flow.stopping = "term" /\ Exists(g) /\ ~Owned(g) /\ Stopped(FALSE)
       \/ flow.stopping = "kill" /\ Exists(g) /\ Stopped(FALSE)
    /\ UNCHANGED <<leader, family, runner>>

KillGroup(g) ==
    /\ Stopping(g) /\ flow.stopping = "term" /\ Owned(g)
    /\ leader' = [leader EXCEPT ![g] = "zombie"]
    /\ family' = family \ {g}
    /\ FlowTo([flow EXCEPT !.stopping = "kill"])
    /\ UNCHANGED runner

\* TERM to the runner is a request; after its handlers are restored, its end.
TermRunner ==
    /\ flow.pc = "kill" /\ flow.todo = {} /\ flow.target = {}
    /\ FlowTo([flow EXCEPT !.pc = "group"])
    /\ runner' = IF Ended THEN runner
                 ELSE IF runner.pc = "exit" THEN [runner EXCEPT !.pc = "ended"]
                 ELSE [runner EXCEPT !.requested = TRUE]
    /\ UNCHANGED <<leader, family>>

RunnerGone ==
    /\ flow.pc = "group" /\ Ended
    /\ FlowTo([flow EXCEPT !.pc = "drain"])
    /\ UNCHANGED <<leader, family, runner>>

KillRunner ==
    /\ flow.pc = "group" /\ ~Ended
    /\ FlowTo([flow EXCEPT !.pc = "drain"])
    /\ runner' = [runner EXCEPT !.pc = "dead"]
    /\ UNCHANGED <<leader, family>>

\* Wrong variant: the registrations are taken as they are.
DrainedAnyway ==
    /\ flow.pc = "drain"
    /\ FlowTo([flow EXCEPT !.pc = "finish", !.drained = TRUE, !.failures = FALSE,
                           !.todo = heard.groups, !.frozen = heard.groups])
    /\ UNCHANGED <<leader, family, runner>>

Drain ==
    /\ flow.pc = "drain"
    /\ FlowTo([flow EXCEPT !.pc = "finish", !.drained = heard.finished, !.failures = FALSE,
                           !.todo = heard.groups, !.frozen = heard.groups])
    /\ UNCHANGED <<leader, family, runner>>

Finish ==
    /\ flow.pc = "finish" /\ flow.todo = {} /\ flow.target = {}
    /\ LET verified == /\ flow.drained /\ ~heard.invalid /\ ~flow.failures
                       /\ ~(heard.failed /\ flow.frozen = {})
       IN  FlowTo([flow EXCEPT !.pc = "done", !.asked = TRUE, !.error = ~verified])
    /\ UNCHANGED <<leader, family, runner>>

FlowDies ==
    /\ Reachable /\ Fault
    /\ flow' = [flow EXCEPT !.pc = "dead", !.asked = TRUE]
    /\ UNCHANGED <<leader, family, runner, wire, heard, registered>>

-----------------------------------------------------------------------------
Stage ==
    \/ RunnerExited \/ Request \/ Answered \/ TermRunner \/ RunnerGone \/ KillRunner
    \/ Drain \/ Finish
    \/ \E g \in Groups : StopGroup(g) \/ TermTaken(g) \/ KillGroup(g)

\* What the runner does once it is asked to stop, however long its children
\* would have gone on.
Teardown ==
    \/ \E g \in Groups : ModelStarted(g) \/ ChildEnds(g) \/ Interrupt(g) \/ GraceOver(g) \/ ModelStopped(g)
    \/ ChainOver /\ runner.requested
    \/ Acknowledge \/ Close \/ Exit

Next ==
    \/ Stage \/ Teardown \/ Watch \/ Receive \/ EndOfFile \/ ChainOver
    \/ RunnerDies \/ FlowDies
    \/ \E g \in Groups : \/ Popen(g) \/ RegistrationFailed(g) \/ AttemptTimeout(g)
                         \/ LeaderExits(g) \/ FamilyEnds(g) \/ Reaped(g)

Spec == Init /\ [][Next]_vars

FairSpec == Spec /\ WF_vars(Stage) /\ WF_vars(Teardown) /\ WF_vars(Watch)

-----------------------------------------------------------------------------
\* Types; and the runner waits for one child at a time, which it drops when
\* the child is over, and calls active only what it has registered.
TypeOK ==
    /\ leader \in [Groups -> {"none", "live", "zombie", "reaped"}]
    /\ family \subseteq Groups
    /\ runner \in Runner
    /\ runner.child # {} => runner.pc \in {"popen", "wait", "term", "over", "dead"}
    /\ runner.active \subseteq registered
    /\ wire \in Seq(Frames)
    /\ heard \in Heard
    /\ flow \in Flow
    /\ registered \subseteq Groups
    /\ faults \in 0..MaxFaults

\* What the flow takes for clean is clean. A stage that ends without a cleanup
\* error has left none of the groups whose start the runner wrote to the
\* socket, whenever runner, receiver and timeouts came in; and once the flow
\* has accepted an acknowledgement, no group exists at all, registered or not
\* (acknowledge: "A success acknowledgement is emitted only after every
\* registered model group has synchronously disappeared").
CleanMeansGone ==
    /\ flow.pc = "done" /\ ~flow.error => \A g \in registered : ~Exists(g)
    /\ flow.clean => \A g \in Groups : ~Exists(g)

\* A request, by a frame, a signal or the end of the flow's socket, is heeded:
\* the runner ends and leaves no child running, unless it is killed first.
ShutdownHeeded ==
    flow.asked ~> \/ runner.pc = "dead"
                  \/ runner.pc = "ended" /\ (\A g \in Groups : leader[g] # "live")

\* Refuted: a runner killed between Popen and the frame leaves a child that the
\* flow never heard of, and the stage ends without an error.
NoOrphan == flow.pc = "done" /\ ~flow.error => \A g \in Groups : leader[g] # "live"

\* Refuted: the failure that a runner reports for a child it could not register
\* is passed over while another group is still registered.
AllGone ==
    flow.pc = "done" /\ ~flow.error /\ runner.pc # "dead" => \A g \in Groups : ~Exists(g)
=============================================================================
