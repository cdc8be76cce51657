------------------------ MODULE RunnerHandoffProofs ------------------------
(***************************************************************************)
(* Proofs about RunnerHandoff, for any process groups and any number of    *)
(* faults: types, and that what the flow takes for clean is clean. The     *)
(* invariant follows a group from the frame of its start to the set of the *)
(* flow that has to be stopped, and says what a runner may acknowledge.    *)
(***************************************************************************)
EXTENDS RunnerHandoff, TLAPS

\* A group that was started and has neither a leader nor descendants; it stays so.
Gone(g) == leader[g] = "reaped" /\ g \notin family

Unstarted(g) == leader[g] = "none"

In(frame, w) == \E i \in 1..Len(w) : w[i] = frame

\* What has not been started has left no trace.
Untouched(g) == g \notin family /\ g \notin registered /\ g \notin runner.child

Closed == runner.pc \in {"exit", "ended", "dead"}

\* The runner: each group is gone, or is the current child, or active, or the
\* runner knows that it could not register one.
RunnerInv ==
    /\ \A g, h \in runner.child : g = h
    /\ runner.pc \in {"wait", "term", "over"} => runner.child \subseteq runner.active \/ runner.unregistered
    /\ runner.pc # "dead" =>
          \A g \in Groups : \/ Unstarted(g) \/ Gone(g) \/ g \in runner.child
                            \/ g \in runner.active \/ runner.unregistered

\* The channel: a registered group is on its way, known, or gone; a release or
\* an acknowledgement is only written of what is gone.
WireInv ==
    /\ \A g \in registered : Gone(g) \/ In(<<"P", g>>, wire) \/ g \in heard.groups
    /\ \A g \in Groups : In(<<"C", g>>, wire) => Gone(g)
    /\ \A g \in Groups : g \in heard.groups \/ In(<<"P", g>>, wire) => g \in registered
    /\ heard.finished => wire = <<>> /\ Closed
    /\ In(<<"A">>, wire) \/ heard.acknowledged =>
          /\ runner.pc = "close" \/ Closed
          /\ \A g \in Groups : Unstarted(g) \/ Gone(g)

\* The flow: after a drained channel, what is neither gone nor still to be
\* stopped has been counted as a failure.
FlowInv ==
    /\ \A g, h \in flow.target : g = h
    /\ flow.clean => heard.acknowledged
    /\ flow.drained => heard.finished /\ flow.pc \in {"finish", "done", "dead"}
    /\ flow.drained /\ ~flow.failures =>
          \A g \in heard.groups : Gone(g) \/ g \in flow.todo \/ g \in flow.target
    /\ flow.pc = "done" /\ ~flow.error => \A g \in registered : Gone(g)

Fresh == \A g \in Groups : Unstarted(g) => Untouched(g)

IInv == TypeOK /\ Fresh /\ RunnerInv /\ WireInv /\ FlowInv

-----------------------------------------------------------------------------
(* Sequences of frames *)

LEMMA FrameTypes ==
  /\ \A g \in Groups : <<"P", g>> \in Frames /\ <<"C", g>> \in Frames
  /\ <<"A">> \in Frames /\ <<"F">> \in Frames
  BY DEF Frames

LEMMA FramesDiffer ==
  /\ \A g, h : <<"P", g>> # <<"C", h>>
  /\ \A g : <<"A">> # <<"P", g>> /\ <<"A">> # <<"C", g>>
  /\ \A g : <<"F">> # <<"P", g>> /\ <<"F">> # <<"C", g>>
  /\ <<"A">> # <<"F">>
<1>1. \A g, h : <<"P", g>> # <<"C", h>>
  OBVIOUS
<1>2. \A g : <<"A">>[1] # <<"P", g>>[1] /\ <<"A">>[1] # <<"C", g>>[1]
  OBVIOUS
<1>3. \A g : <<"F">>[1] # <<"P", g>>[1] /\ <<"F">>[1] # <<"C", g>>[1]
  OBVIOUS
<1>4. <<"A">> # <<"F">>
  OBVIOUS
<1> QED
  BY <1>1, <1>2, <1>3, <1>4

LEMMA FrameKinds ==
  ASSUME NEW f \in Frames
  PROVE  \/ \E g \in Groups : f = <<"P", g>> /\ f[1] = "P" /\ f[2] = g
         \/ \E g \in Groups : f = <<"C", g>> /\ f[1] = "C" /\ f[2] = g
         \/ f = <<"A">> /\ f[1] = "A"
         \/ f = <<"F">> /\ f[1] = "F"
<1>1. CASE f \in {"P", "C"} \X Groups
  <2>1. PICK k \in {"P", "C"}, g \in Groups : f = <<k, g>>
    BY <1>1
  <2> QED
    BY <2>1
<1>2. CASE f = <<"A">> \/ f = <<"F">>
  BY <1>2
<1> QED
  BY <1>1, <1>2 DEF Frames

\* What is in a sequence to which a frame is appended.
LEMMA InAppend ==
  ASSUME NEW w \in Seq(Frames), NEW x \in Frames
  PROVE  /\ Append(w, x) \in Seq(Frames)
         /\ \A f : In(f, Append(w, x)) <=> In(f, w) \/ f = x
<1> DEFINE n == Len(w)
<1>1. /\ n \in Nat /\ Len(Append(w, x)) = n + 1 /\ Append(w, x)[n + 1] = x
      /\ \A i \in 1..n : Append(w, x)[i] = w[i]
  OBVIOUS
<1>2. \A i : i \in 1..(n + 1) <=> i \in 1..n \/ i = n + 1
  BY <1>1
<1>3. Append(w, x) \in Seq(Frames)
  OBVIOUS
<1> HIDE DEF n
<1>4. ASSUME NEW f PROVE In(f, Append(w, x)) <=> In(f, w) \/ f = x
  BY <1>1, <1>2 DEF In, n
<1> QED
  BY <1>3, <1>4

\* What is in a sequence whose head is taken.
LEMMA InTail ==
  ASSUME NEW w \in Seq(Frames), w # <<>>
  PROVE  /\ Head(w) \in Frames /\ Tail(w) \in Seq(Frames)
         /\ \A f : In(f, w) <=> f = Head(w) \/ In(f, Tail(w))
<1> DEFINE n == Len(w)
<1>1. /\ n \in Nat \ {0} /\ Len(Tail(w)) = n - 1 /\ Head(w) = w[1]
      /\ \A i \in 1..(n - 1) : Tail(w)[i] = w[i + 1]
  OBVIOUS
<1>2. Head(w) \in Frames /\ Tail(w) \in Seq(Frames)
  OBVIOUS
<1> HIDE DEF n
<1>3. \A i \in 1..n : i = 1 \/ (i - 1 \in 1..(n - 1) /\ Tail(w)[i - 1] = w[i])
  <2> SUFFICES ASSUME NEW i \in 1..n, i # 1
               PROVE  i - 1 \in 1..(n - 1) /\ Tail(w)[i - 1] = w[i]
    OBVIOUS
  <2>1. i - 1 \in 1..(n - 1) /\ (i - 1) + 1 = i
    BY <1>1
  <2> QED
    BY <1>1, <2>1
<1>4. 1 \in 1..n /\ \A i \in 1..(n - 1) : i + 1 \in 1..n
  BY <1>1
<1>5. ASSUME NEW f, In(f, w) PROVE f = Head(w) \/ In(f, Tail(w))
  <2>1. PICK i \in 1..n : w[i] = f
    BY <1>5 DEF In, n
  <2> QED
    BY <1>1, <1>3, <2>1 DEF In
<1>6. ASSUME NEW f, f = Head(w) \/ In(f, Tail(w)) PROVE In(f, w)
  BY <1>1, <1>4, <1>6 DEF In, n
<1> QED
  BY <1>2, <1>5, <1>6

LEMMA InEmpty ==
  \A f : ~In(f, <<>>)
  BY DEF In

-----------------------------------------------------------------------------
(* Steps that start no group *)

Leaders == {"none", "live", "zombie", "reaped"}

\* No group starts, and no group that is gone comes back.
Phys ==
    /\ leader' \in [Groups -> Leaders]
    /\ family' \subseteq family
    /\ \A g \in Groups : (Unstarted(g)' <=> Unstarted(g)) /\ (Gone(g) => Gone(g)')

LEMMA StillPhys ==
  ASSUME TypeOK, UNCHANGED <<leader, family>>
  PROVE  Phys
  BY DEF TypeOK, Phys, Leaders, Unstarted, Gone

LEMMA LeaderPhys ==
  ASSUME TypeOK, NEW g \in Groups, leader[g] # "none",
         NEW to \in {"zombie", "reaped"}, leader[g] = "reaped" => to = "reaped",
         leader' = [leader EXCEPT ![g] = to], family' \subseteq family
  PROVE  Phys
<1>1. leader \in [Groups -> Leaders] /\ to \in Leaders
  BY DEF TypeOK, Leaders
<1>2. /\ leader' \in [Groups -> Leaders] /\ leader'[g] = to
      /\ \A h \in Groups : h # g => leader'[h] = leader[h]
  BY <1>1
<1> QED
  BY <1>2 DEF Phys, Unstarted, Gone

LEMMA TermedPhys ==
  ASSUME TypeOK, NEW g \in Groups, Termed(g)
  PROVE  Phys
<1>1. leader \in [Groups -> Leaders]
  BY DEF TypeOK, Leaders
<1>2. family' \subseteq family
  BY DEF Termed
<1>3. CASE leader' = leader
  BY <1>1, <1>2, <1>3 DEF Phys, Unstarted, Gone
<1>4. CASE leader' # leader
  <2>1. leader' = [leader EXCEPT ![g] = IF leader[g] = "live" THEN "zombie" ELSE leader[g]]
    BY <1>4 DEF Termed
  <2>2. leader[g] = "live"
    BY <1>1, <1>4, <2>1
  <2> QED
    BY <1>2, <2>1, <2>2, LeaderPhys
<1> QED
  BY <1>3, <1>4

LEMMA FreshKeeps ==
  ASSUME IInv, Phys, runner'.child \subseteq runner.child, UNCHANGED registered
  PROVE  Fresh'
  BY DEF IInv, Fresh, Untouched, Phys

LEMMA RunnerKeeps ==
  ASSUME IInv, Phys, runner'.child = runner.child, runner'.active = runner.active,
         runner.unregistered => runner'.unregistered,
         runner'.pc = "dead" \/ runner'.pc = runner.pc
  PROVE  RunnerInv'
  BY DEF IInv, RunnerInv, Phys

LEMMA WireKeeps ==
  ASSUME IInv, Phys, UNCHANGED <<wire, heard, registered>>,
         Closed => Closed', runner.pc = "close" => runner'.pc = "close" \/ Closed'
  PROVE  WireInv'
<1>1. WireInv /\ registered \subseteq Groups
  BY DEF IInv, TypeOK
<1>2. \A f : In(f, wire)' <=> In(f, wire)
  BY DEF In
<1>3. \A g \in Groups : (Unstarted(g) => Unstarted(g)') /\ (Gone(g) => Gone(g)')
  BY DEF Phys
<1> QED
  BY <1>1, <1>2, <1>3 DEF WireInv

LEMMA FlowKeeps ==
  ASSUME IInv, Phys, UNCHANGED <<heard, flow>>, UNCHANGED registered \/ Reachable
  PROVE  FlowInv'
<1>1. FlowInv /\ registered \subseteq Groups /\ heard.groups \subseteq Groups
  BY DEF IInv, TypeOK, Heard
<1>2. \A g \in Groups : Gone(g) => Gone(g)'
  BY DEF Phys
<1> QED
  BY <1>1, <1>2 DEF FlowInv, Reachable

\* A group that does not exist although it was started is gone.
LEMMA GoneOnceStarted ==
  ASSUME IInv, NEW g \in Groups, ~Exists(g)
  PROVE  Unstarted(g) \/ Gone(g)
  BY DEF IInv, TypeOK, Exists, Unstarted, Gone

LEMMA UnstartedNotThere ==
  ASSUME IInv, NEW g \in Groups, Unstarted(g) \/ Gone(g)
  PROVE  ~Exists(g)
  BY DEF IInv, Fresh, Untouched, Exists, Unstarted, Gone

-----------------------------------------------------------------------------
(* Process groups *)

LEMMA GroupStep ==
  ASSUME IInv, Phys, UNCHANGED <<runner, wire, heard, flow, registered, faults>>
  PROVE  IInv'
<1>1. TypeOK'
  BY DEF IInv, TypeOK, Phys, Leaders
<1>2. Fresh' /\ RunnerInv' /\ FlowInv'
  BY FreshKeeps, RunnerKeeps, FlowKeeps
<1>3. WireInv'
  BY WireKeeps DEF Closed
<1> QED
  BY <1>1, <1>2, <1>3 DEF IInv

LEMMA LeaderExitsInv ==
  ASSUME IInv, NEW g \in Groups, LeaderExits(g)
  PROVE  IInv'
<1>1. Phys
  BY LeaderPhys DEF IInv, LeaderExits
<1> QED
  BY <1>1, GroupStep DEF LeaderExits

LEMMA ReapedInv ==
  ASSUME IInv, NEW g \in Groups, Reaped(g)
  PROVE  IInv'
<1>1. Phys
  BY LeaderPhys DEF IInv, Reaped
<1> QED
  BY <1>1, GroupStep DEF Reaped

LEMMA FamilyEndsInv ==
  ASSUME IInv, NEW g \in Groups, FamilyEnds(g)
  PROVE  IInv'
<1>1. Phys
  BY DEF IInv, TypeOK, FamilyEnds, Phys, Leaders, Unstarted, Gone
<1> QED
  BY <1>1, GroupStep DEF FamilyEnds

-----------------------------------------------------------------------------
(* The runner, without its frames *)

\* What the types say of the runner alone.
RunnerOK ==
    /\ runner \in Runner
    /\ runner.child # {} => runner.pc \in {"popen", "wait", "term", "over", "dead"}
    /\ runner.active \subseteq registered

LEMMA FaultOK ==
  ASSUME HandoffAssumption, IInv, Fault \/ UNCHANGED faults
  PROVE  faults' \in 0..MaxFaults
  BY DEF HandoffAssumption, IInv, TypeOK, Fault

LEMMA RunnerStep ==
  ASSUME IInv, Phys, UNCHANGED <<wire, heard, flow, registered>>, faults' \in 0..MaxFaults,
         RunnerOK', RunnerInv', runner'.child \subseteq runner.child,
         Closed => Closed', runner.pc = "close" => runner'.pc = "close" \/ Closed'
  PROVE  IInv'
<1>1. TypeOK'
  BY DEF IInv, TypeOK, Phys, Leaders, RunnerOK
<1>2. Fresh' /\ FlowInv' /\ WireInv'
  BY FreshKeeps, FlowKeeps, WireKeeps
<1> QED
  BY <1>1, <1>2 DEF IInv

\* A step of the runner from pc to pc that keeps its groups.
LEMMA RunnerTurn ==
  ASSUME IInv, Phys, UNCHANGED <<wire, heard, flow, registered>>, faults' \in 0..MaxFaults,
         NEW pc \in {"wait", "term", "over", "ack", "close", "exit", "ended", "dead"},
         NEW requested \in BOOLEAN,
         runner' = [runner EXCEPT !.pc = pc, !.requested = requested],
         runner.child # {} => pc \in {"wait", "term", "over", "dead"},
         pc \in {"wait", "term", "over"} => runner.pc \in {"wait", "term", "over"},
         runner.pc = "dead" => pc = "dead",
         Closed => pc \in {"exit", "ended", "dead"},
         runner.pc = "close" => pc \in {"close", "exit", "ended", "dead"}
  PROVE  IInv'
<1>1. runner \in Runner
  BY DEF IInv, TypeOK
<1>2. /\ runner' \in Runner /\ runner'.pc = pc /\ runner'.child = runner.child
      /\ runner'.active = runner.active /\ runner'.unregistered = runner.unregistered
  BY <1>1 DEF Runner
<1>3. RunnerOK'
  BY <1>2 DEF IInv, TypeOK, RunnerOK
<1>4. RunnerInv'
  BY <1>2 DEF IInv, RunnerInv, Phys
<1> QED
  BY <1>2, <1>3, <1>4, RunnerStep DEF Closed

LEMMA WatchInv ==
  ASSUME IInv, Watch
  PROVE  IInv'
<1>1. runner \in Runner /\ runner' = [runner EXCEPT !.requested = TRUE] /\ Phys
  BY StillPhys DEF IInv, TypeOK, Watch
<1>2. /\ runner' \in Runner /\ runner'.pc = runner.pc /\ runner'.child = runner.child
      /\ runner'.active = runner.active /\ runner'.unregistered = runner.unregistered
  BY <1>1 DEF Runner
<1>3. RunnerOK' /\ faults' \in 0..MaxFaults
  BY <1>2 DEF Watch, IInv, TypeOK, RunnerOK
<1>4. RunnerInv'
  BY <1>1, <1>2, RunnerKeeps
<1> QED
  BY <1>1, <1>2, <1>3, <1>4, RunnerStep DEF Watch, Closed

LEMMA PopenInv ==
  ASSUME IInv, NEW g \in Groups, Popen(g)
  PROVE  IInv'
<1>1. /\ runner \in Runner /\ runner.pc = "next" /\ runner.child = {} /\ Unstarted(g)
      /\ ~Closed /\ leader \in [Groups -> Leaders]
  BY DEF IInv, TypeOK, Popen, Unstarted, Leaders, Closed
<1>2. /\ runner' \in Runner /\ runner'.pc = "popen" /\ runner'.child = {g}
      /\ runner'.active = runner.active /\ runner'.unregistered = runner.unregistered
  BY <1>1 DEF Popen, Runner
<1>3. /\ leader' \in [Groups -> Leaders] /\ leader'[g] = "live"
      /\ \A h \in Groups : h # g => leader'[h] = leader[h]
  BY <1>1 DEF Popen, Leaders
<1>4. /\ family' \subseteq Groups
      /\ \A h \in Groups : h # g => (h \in family' <=> h \in family)
  BY DEF IInv, TypeOK, Popen
<1>5. \A h \in Groups : h # g => (Unstarted(h)' <=> Unstarted(h)) /\ (Gone(h)' <=> Gone(h))
  BY <1>3, <1>4 DEF Unstarted, Gone
<1>6. ~Unstarted(g)' /\ ~Gone(g)' /\ ~Gone(g) /\ g \notin registered
  BY <1>1, <1>3 DEF Unstarted, Gone, IInv, Fresh, Untouched
<1>7. TypeOK'
  BY <1>1, <1>2, <1>3, <1>4 DEF Popen, IInv, TypeOK, Leaders
<1>8. Fresh'
  BY <1>2, <1>4, <1>5, <1>6 DEF Popen, IInv, Fresh, Untouched
<1>9. RunnerInv'
  BY <1>1, <1>2, <1>5, <1>6 DEF IInv, RunnerInv
<1>10. WireInv'
  <2>1. WireInv /\ registered \subseteq Groups
    BY DEF IInv, TypeOK
  <2>2. ~heard.finished /\ ~In(<<"A">>, wire) /\ ~heard.acknowledged
    BY <1>1, <2>1 DEF WireInv
  <2>3. UNCHANGED <<wire, heard, registered>>
    BY DEF Popen
  <2>4. \A f : In(f, wire)' <=> In(f, wire)
    BY <2>3 DEF In
  <2> QED
    BY <1>5, <1>6, <2>1, <2>2, <2>3, <2>4 DEF WireInv
<1>11. FlowInv'
  <2>1. FlowInv /\ registered \subseteq Groups /\ heard.groups \subseteq Groups
    BY DEF IInv, TypeOK, Heard
  <2>2. UNCHANGED <<heard, flow, registered>>
    BY DEF Popen
  <2>3. \A h \in Groups : Gone(h) => Gone(h)'
    BY <1>5, <1>6
  <2> QED
    BY <2>1, <2>2, <2>3 DEF FlowInv
<1> QED
  BY <1>7, <1>8, <1>9, <1>10, <1>11 DEF IInv

LEMMA StopChildInv ==
  ASSUME IInv, NEW g \in Groups, StopChild(g)
  PROVE  IInv'
<1>1. Phys /\ runner \in Runner /\ faults' \in 0..MaxFaults
  BY TermedPhys DEF IInv, TypeOK, StopChild
<1>2. runner' = [runner EXCEPT !.pc = "term", !.requested = runner.requested]
  BY <1>1 DEF StopChild, Runner
<1>3. runner.requested \in BOOLEAN /\ runner.pc = "wait"
  BY <1>1 DEF Runner, StopChild
<1> QED
  BY <1>1, <1>2, <1>3, RunnerTurn DEF StopChild, Closed

LEMMA ChildEndsInv ==
  ASSUME IInv, NEW g \in Groups, ChildEnds(g)
  PROVE  IInv'
<1> DEFINE pc == IF runner.pc = "wait" \/ g \notin family THEN "over" ELSE runner.pc
<1>1. runner \in Runner /\ faults' \in 0..MaxFaults /\ runner.pc \in {"wait", "term"}
  BY DEF IInv, TypeOK, ChildEnds
<1>2. Phys
  BY LeaderPhys DEF IInv, ChildEnds
<1>3. pc \in {"term", "over"}
  BY <1>1
<1>4. runner' = [runner EXCEPT !.pc = pc]
  BY DEF ChildEnds
<1> HIDE DEF pc
<1>5. runner' = [runner EXCEPT !.pc = pc, !.requested = runner.requested] /\ runner.requested \in BOOLEAN
  BY <1>1, <1>4 DEF Runner
<1> QED
  BY <1>1, <1>2, <1>3, <1>5, RunnerTurn DEF ChildEnds, Closed

LEMMA GraceOverInv ==
  ASSUME IInv, NEW g \in Groups, GraceOver(g)
  PROVE  IInv'
<1>1. runner \in Runner /\ faults' \in 0..MaxFaults /\ runner.pc = "term"
  BY DEF IInv, TypeOK, GraceOver
<1>2. Phys
  <2>1. CASE Owned(g)
    BY <2>1, LeaderPhys DEF IInv, GraceOver, Owned
  <2>2. CASE ~Owned(g)
    BY <2>2, StillPhys DEF IInv, GraceOver
  <2> QED
    BY <2>1, <2>2
<1>3. runner' = [runner EXCEPT !.pc = "over", !.requested = runner.requested] /\ runner.requested \in BOOLEAN
  BY <1>1 DEF GraceOver, Runner
<1> QED
  BY <1>1, <1>2, <1>3, RunnerTurn DEF GraceOver, Closed

\* The steps of the runner between its children and its end.
LEMMA RunnerEndsInv ==
  ASSUME HandoffAssumption, IInv, ChainOver \/ Close \/ Exit \/ RunnerDies
  PROVE  IInv'
<1>1. runner \in Runner /\ runner.requested \in BOOLEAN
  BY DEF IInv, TypeOK, Runner
<1>2. Phys
  BY StillPhys DEF IInv, ChainOver, Close, Exit, RunnerDies
<1>3. faults' \in 0..MaxFaults
  BY FaultOK DEF ChainOver, Close, Exit, RunnerDies
<1>4. runner.child # {} => runner.pc \in {"popen", "wait", "term", "over", "dead"}
  BY DEF IInv, TypeOK
<1>5. CASE ChainOver
  <2>1. runner' = [runner EXCEPT !.pc = "ack", !.requested = runner.requested]
    BY <1>1, <1>5 DEF ChainOver, Runner
  <2> QED
    BY <1>1, <1>2, <1>3, <1>4, <1>5, <2>1, RunnerTurn DEF ChainOver, Closed
<1>6. CASE Close
  <2>1. runner' = [runner EXCEPT !.pc = "exit", !.requested = runner.requested]
    BY <1>1, <1>6 DEF Close, Runner
  <2> QED
    BY <1>1, <1>2, <1>3, <1>4, <1>6, <2>1, RunnerTurn DEF Close, Closed
<1>7. CASE Exit
  <2>1. runner' = [runner EXCEPT !.pc = "ended", !.requested = runner.requested]
    BY <1>1, <1>7 DEF Exit, Runner
  <2> QED
    BY <1>1, <1>2, <1>3, <1>4, <1>7, <2>1, RunnerTurn DEF Exit, Closed
<1>8. CASE RunnerDies
  <2>1. runner' = [runner EXCEPT !.pc = "dead", !.requested = runner.requested]
    BY <1>1, <1>8 DEF RunnerDies, Runner
  <2> QED
    BY <1>1, <1>2, <1>3, <1>4, <1>8, <2>1, RunnerTurn DEF RunnerDies, Closed
<1> QED
  BY <1>5, <1>6, <1>7, <1>8

-----------------------------------------------------------------------------
(* The frames of the runner *)

LEMMA SendIn ==
  ASSUME IInv, NEW frame \in Frames, Send(frame)
  PROVE  /\ wire' \in Seq(Frames)
         /\ \A f : In(f, wire) => In(f, wire')
         /\ \A f : In(f, wire') => In(f, wire) \/ (Reachable /\ f = frame)
         /\ Reachable => In(frame, wire')
<1>1. wire \in Seq(Frames)
  BY DEF IInv, TypeOK
<1>2. CASE Reachable
  <2>1. wire' = Append(wire, frame)
    BY <1>2 DEF Send
  <2> QED
    BY <1>1, <1>2, <2>1, InAppend
<1>3. CASE ~Reachable
  BY <1>1, <1>3 DEF Send
<1> QED
  BY <1>2, <1>3

\* A frame may be written of a group that is registered by it, or that is gone,
\* and an acknowledgement when nothing is left.
LEMMA WireSends ==
  ASSUME IInv, Phys, UNCHANGED heard, NEW frame \in Frames, Send(frame),
         runner.pc \in {"popen", "over", "ack"},
         registered \subseteq registered', registered' \subseteq Groups,
         \A g \in registered' : g \in registered \/ (Reachable /\ frame = <<"P", g>>),
         \A g \in Groups : Reachable /\ frame = <<"P", g>> => g \in registered',
         \A g \in Groups : frame = <<"C", g>> => Gone(g),
         frame = <<"A">> => runner'.pc = "close" /\ \A g \in Groups : Unstarted(g) \/ Gone(g)
  PROVE  WireInv'
<1>1. /\ \A f : In(f, wire) => In(f, wire')
      /\ \A f : In(f, wire') => In(f, wire) \/ (Reachable /\ f = frame)
      /\ Reachable => In(frame, wire')
  BY SendIn
<1>2. WireInv /\ ~heard.finished /\ ~In(<<"A">>, wire) /\ ~heard.acknowledged
  BY DEF IInv, WireInv, Closed
<1>3. heard' = heard /\ \A f : In(f, wire)' <=> In(f, wire')
  BY DEF In
<1>4. \A g \in Groups : (Unstarted(g) => Unstarted(g)') /\ (Gone(g) => Gone(g)')
  BY DEF Phys
<1>5. ASSUME NEW g \in registered'
      PROVE  Gone(g)' \/ In(<<"P", g>>, wire') \/ g \in heard.groups
  BY <1>1, <1>2, <1>4, <1>5 DEF WireInv
<1>6. ASSUME NEW g \in Groups, In(<<"C", g>>, wire')
      PROVE  Gone(g)'
  BY <1>1, <1>2, <1>4, <1>6 DEF WireInv
<1>7. ASSUME NEW g \in Groups, g \in heard.groups \/ In(<<"P", g>>, wire')
      PROVE  g \in registered'
  BY <1>1, <1>2, <1>7 DEF WireInv
<1>8. ASSUME In(<<"A">>, wire')
      PROVE  runner'.pc = "close" /\ \A g \in Groups : Unstarted(g)' \/ Gone(g)'
  BY <1>1, <1>2, <1>4, <1>8
<1> QED
  BY <1>2, <1>3, <1>5, <1>6, <1>7, <1>8 DEF WireInv

LEMMA ModelStartedInv ==
  ASSUME IInv, NEW g \in Groups, ModelStarted(g)
  PROVE  IInv'
<1>1. /\ runner \in Runner /\ runner.pc = "popen" /\ g \in runner.child /\ Phys
      /\ ~Unstarted(g) /\ \A h \in runner.child : h = g
  BY StillPhys DEF IInv, TypeOK, ModelStarted, Fresh, Untouched, RunnerInv
<1>2. \/ /\ Reachable /\ registered' = registered \cup {g}
         /\ runner' = [runner EXCEPT !.pc = "wait", !.active = runner.active \cup {g}]
      \/ /\ ~Reachable /\ registered' = registered
         /\ runner' = [runner EXCEPT !.pc = "wait", !.requested = TRUE, !.unregistered = TRUE]
  BY DEF ModelStarted
<1>3. /\ runner' \in Runner /\ runner'.pc = "wait" /\ runner'.child = runner.child
      /\ \/ /\ registered' = registered \cup {g} /\ runner'.active = runner.active \cup {g}
            /\ runner'.unregistered = runner.unregistered /\ Reachable
         \/ /\ registered' = registered /\ runner'.active = runner.active
            /\ runner'.unregistered /\ ~Reachable
  <2>1. CASE Reachable
    <3>1. runner' = [runner EXCEPT !.pc = "wait", !.active = runner.active \cup {g}]
      BY <1>2, <2>1
    <3>2. runner.active \cup {g} \in SUBSET Groups
      BY <1>1 DEF Runner
    <3>3. /\ runner' \in Runner /\ runner'.pc = "wait" /\ runner'.child = runner.child
          /\ runner'.active = runner.active \cup {g} /\ runner'.unregistered = runner.unregistered
      BY <1>1, <3>1, <3>2 DEF Runner
    <3> QED
      BY <1>2, <2>1, <3>3
  <2>2. CASE ~Reachable
    <3>1. runner' = [runner EXCEPT !.pc = "wait", !.requested = TRUE, !.unregistered = TRUE]
      BY <1>2, <2>2
    <3>2. /\ runner' \in Runner /\ runner'.pc = "wait" /\ runner'.child = runner.child
          /\ runner'.active = runner.active /\ runner'.unregistered
      BY <1>1, <3>1 DEF Runner
    <3> QED
      BY <1>2, <2>2, <3>2
  <2> QED
    BY <2>1, <2>2
<1>4. <<"P", g>> \in Frames /\ Send(<<"P", g>>)
  BY FrameTypes DEF ModelStarted
<1>5. registered \subseteq registered' /\ registered' \subseteq Groups
  BY <1>3 DEF IInv, TypeOK
<1>6. WireInv'
  BY <1>1, <1>3, <1>4, <1>5, WireSends, FramesDiffer DEF ModelStarted
<1>7. TypeOK'
  <2>1. wire' \in Seq(Frames)
    BY <1>4, SendIn
  <2>2. runner'.active \subseteq registered'
    BY <1>3 DEF IInv, TypeOK
  <2> QED
    BY <1>3, <1>5, <2>1, <2>2 DEF IInv, TypeOK, ModelStarted
<1>8. Fresh'
  BY <1>1, <1>3 DEF IInv, Fresh, Untouched, Phys, ModelStarted
<1>9. RunnerInv'
  BY <1>1, <1>3 DEF IInv, RunnerInv, Phys
<1>10. FlowInv'
  BY <1>1, <1>3, FlowKeeps DEF ModelStarted
<1> QED
  BY <1>6, <1>7, <1>8, <1>9, <1>10 DEF IInv

LEMMA RegistrationFailedInv ==
  ASSUME HandoffAssumption, IInv, NEW g \in Groups, RegistrationFailed(g)
  PROVE  IInv'
<1>1. /\ runner \in Runner /\ runner.pc = "popen" /\ g \in runner.child /\ leader[g] # "none"
  BY DEF IInv, TypeOK, RegistrationFailed, Fresh, Untouched, Unstarted
<1>2. Phys
  BY <1>1, LeaderPhys DEF IInv, RegistrationFailed
<1>3. /\ runner' \in Runner /\ runner'.pc = "next" /\ runner'.child = {}
      /\ runner'.active = runner.active /\ runner'.unregistered
  BY <1>1 DEF RegistrationFailed, Runner
<1>4. <<"F">> \in Frames /\ Send(<<"F">>)
  BY FrameTypes DEF RegistrationFailed
<1>5. UNCHANGED <<heard, flow, registered>> /\ registered \subseteq Groups /\ faults' \in 0..MaxFaults
  BY FaultOK DEF RegistrationFailed, IInv, TypeOK
<1>6. WireInv'
  BY <1>1, <1>2, <1>4, <1>5, WireSends, FramesDiffer
<1>7. TypeOK'
  <2>1. wire' \in Seq(Frames)
    BY <1>4, SendIn
  <2>2. leader' \in [Groups -> Leaders] /\ family' \subseteq Groups
    BY <1>2 DEF Phys, IInv, TypeOK
  <2> QED
    BY <1>3, <1>5, <2>1, <2>2 DEF IInv, TypeOK, Leaders
<1>8. Fresh' /\ FlowInv'
  BY <1>2, <1>3, <1>5, FreshKeeps, FlowKeeps
<1>9. RunnerInv'
  BY <1>3 DEF RunnerInv
<1> QED
  BY <1>6, <1>7, <1>8, <1>9 DEF IInv

LEMMA ModelStoppedInv ==
  ASSUME IInv, NEW g \in Groups, ModelStopped(g)
  PROVE  IInv'
<1>1. /\ runner \in Runner /\ runner.pc = "over" /\ g \in runner.child /\ Phys
      /\ ~Unstarted(g) /\ runner.child = {g} /\ registered \subseteq Groups
  BY StillPhys DEF IInv, TypeOK, ModelStopped, Fresh, Untouched, RunnerInv
<1>2. UNCHANGED <<leader, family, heard, flow, registered, faults>>
  BY DEF ModelStopped
<1>3. CASE g \in runner.active /\ ~Exists(g)
  <2>1. /\ runner' \in Runner /\ runner'.pc = "next" /\ runner'.child = {}
        /\ runner'.active = runner.active \ {g} /\ runner'.unregistered = runner.unregistered
    <3> DEFINE requested == runner.requested \/ ~Reachable
    <3>1. requested \in BOOLEAN
      OBVIOUS
    <3>2. runner' = [runner EXCEPT !.pc = "next", !.child = {}, !.active = runner.active \ {g},
                                   !.requested = requested]
      BY <1>3 DEF ModelStopped
    <3> HIDE DEF requested
    <3> QED
      BY <1>1, <3>1, <3>2 DEF Runner
  <2>2. <<"C", g>> \in Frames /\ Send(<<"C", g>>)
    BY <1>3, FrameTypes DEF ModelStopped
  <2>3. Gone(g) /\ Gone(g)'
    BY <1>1, <1>3, GoneOnceStarted DEF Phys
  <2>4. WireInv'
    <3>1. \A h \in Groups : <<"C", g>> = <<"C", h>> => Gone(h)
      BY <2>3
    <3> QED
      BY <1>1, <1>2, <2>2, <3>1, WireSends, FramesDiffer
  <2>5. wire' \in Seq(Frames)
    BY <2>2, SendIn
  <2>6. TypeOK'
    BY <1>2, <2>1, <2>5 DEF IInv, TypeOK
  <2>7. Fresh' /\ FlowInv'
    BY <1>1, <1>2, <2>1, FreshKeeps, FlowKeeps
  <2>8. RunnerInv'
    BY <1>1, <2>1, <2>3 DEF IInv, RunnerInv, Phys
  <2> QED
    BY <2>4, <2>6, <2>7, <2>8 DEF IInv
<1>4. CASE ~(g \in runner.active /\ ~Exists(g))
  <2>1. /\ runner' \in Runner /\ runner'.pc = "next" /\ runner'.child = {}
        /\ runner'.active = runner.active /\ runner'.unregistered = runner.unregistered
        /\ UNCHANGED wire
    BY <1>1, <1>4 DEF ModelStopped, Runner
  <2>2. Gone(g) \/ g \in runner.active \/ runner.unregistered
    BY <1>1 DEF IInv, RunnerInv
  <2>3. RunnerInv'
    BY <1>1, <2>1, <2>2 DEF IInv, RunnerInv, Phys
  <2>4. RunnerOK' /\ faults' \in 0..MaxFaults
    BY <1>2, <2>1 DEF IInv, TypeOK, RunnerOK
  <2> QED
    BY <1>1, <1>2, <2>1, <2>3, <2>4, RunnerStep DEF Closed
<1> QED
  BY <1>3, <1>4

LEMMA AcknowledgeInv ==
  ASSUME IInv, Acknowledge
  PROVE  IInv'
<1>1. /\ runner \in Runner /\ runner.pc = "ack" /\ runner.child = {} /\ Phys /\ registered \subseteq Groups
  BY StillPhys DEF IInv, TypeOK, Acknowledge
<1>2. /\ runner' \in Runner /\ runner'.pc = "close" /\ runner'.child = {}
      /\ runner'.active = runner.active /\ runner'.unregistered = runner.unregistered
  BY <1>1 DEF Acknowledge, Runner
<1>3. UNCHANGED <<leader, family, heard, flow, registered, faults>>
  BY DEF Acknowledge
<1>4. RunnerInv'
  BY <1>1, <1>2 DEF IInv, RunnerInv, Phys
<1>5. RunnerOK' /\ faults' \in 0..MaxFaults
  BY <1>2, <1>3 DEF IInv, TypeOK, RunnerOK
<1>6. CASE ~runner.requested
  <2>1. UNCHANGED wire
    BY <1>6 DEF Acknowledge
  <2> QED
    BY <1>1, <1>2, <1>3, <1>4, <1>5, <2>1, RunnerStep DEF Closed
<1>7. CASE runner.requested
  <2> DEFINE frame == IF runner.unregistered \/ runner.active # {} THEN <<"F">> ELSE <<"A">>
  <2>1. Send(frame)
    BY <1>7 DEF Acknowledge
  <2>2. frame \in Frames /\ \A g \in Groups : frame # <<"P", g>> /\ frame # <<"C", g>>
    BY FrameTypes, FramesDiffer
  <2>3. frame = <<"A">> => \A g \in Groups : Unstarted(g) \/ Gone(g)
    BY <1>1, FramesDiffer DEF IInv, RunnerInv
  <2> HIDE DEF frame
  <2>4. WireInv'
    BY <1>1, <1>2, <1>3, <2>1, <2>2, <2>3, WireSends
  <2>5. wire' \in Seq(Frames)
    BY <2>1, <2>2, SendIn
  <2>6. TypeOK'
    BY <1>2, <1>3, <2>5 DEF IInv, TypeOK
  <2>7. Fresh' /\ FlowInv'
    BY <1>1, <1>2, <1>3, FreshKeeps, FlowKeeps
  <2> QED
    BY <1>4, <2>4, <2>6, <2>7 DEF IInv
<1> QED
  BY <1>6, <1>7

-----------------------------------------------------------------------------
(* The receiver *)

LEMMA ReadFacts ==
  ASSUME NEW h \in Heard, NEW frame \in Frames
  PROVE  LET r == Read(h, frame)
         IN  /\ r \in Heard /\ r.finished = h.finished
             /\ \A g \in r.groups : g \in h.groups \/ frame = <<"P", g>>
             /\ \A g \in h.groups : g \in r.groups \/ frame = <<"C", g>>
             /\ \A g \in Groups : frame = <<"P", g>> => g \in r.groups
             /\ r.acknowledged => h.acknowledged \/ frame = <<"A">>
             /\ h.acknowledged => r.acknowledged
<1> DEFINE r == Read(h, frame)
<1>0. h.groups \subseteq Groups /\ h.invalid \in BOOLEAN
  BY DEF Heard
<1>1. ASSUME NEW g \in Groups, frame = <<"P", g>>, frame[1] = "P", frame[2] = g
      PROVE  /\ r \in Heard /\ r.groups = h.groups \cup {g} /\ r.finished = h.finished
             /\ r.acknowledged = h.acknowledged
  <2>1. r = [h EXCEPT !.groups = h.groups \cup {g}]
    BY <1>1 DEF Read
  <2> HIDE DEF r
  <2> QED
    BY <1>0, <2>1 DEF Heard
<1>2. ASSUME NEW g \in Groups, frame = <<"C", g>>, frame[1] = "C", frame[2] = g
      PROVE  /\ r \in Heard /\ r.groups = h.groups \ {g} /\ r.finished = h.finished
             /\ r.acknowledged = h.acknowledged
  <2> DEFINE invalid == h.invalid \/ g \notin h.groups
  <2>1. r = [h EXCEPT !.groups = h.groups \ {g}, !.invalid = invalid]
    BY <1>2 DEF Read
  <2>2. invalid \in BOOLEAN
    OBVIOUS
  <2> HIDE DEF r, invalid
  <2> QED
    BY <1>0, <2>1, <2>2 DEF Heard
<1>3. ASSUME frame = <<"A">>, frame[1] = "A"
      PROVE  /\ r \in Heard /\ r.groups = h.groups /\ r.finished = h.finished /\ r.acknowledged
  <2> DEFINE invalid == h.invalid \/ h.groups # {}
  <2>1. r = [h EXCEPT !.acknowledged = TRUE, !.invalid = invalid]
    BY <1>3 DEF Read
  <2>2. invalid \in BOOLEAN
    OBVIOUS
  <2> HIDE DEF r, invalid
  <2> QED
    BY <2>1, <2>2 DEF Heard
<1>4. ASSUME frame = <<"F">>, frame[1] = "F"
      PROVE  /\ r \in Heard /\ r.groups = h.groups /\ r.finished = h.finished
             /\ r.acknowledged = h.acknowledged
  <2>1. r = [h EXCEPT !.failed = TRUE]
    BY <1>4 DEF Read
  <2> HIDE DEF r
  <2> QED
    BY <2>1 DEF Heard
<1> HIDE DEF r
<1>5. \/ \E g \in Groups : frame = <<"P", g>> /\ frame[1] = "P" /\ frame[2] = g
      \/ \E g \in Groups : frame = <<"C", g>> /\ frame[1] = "C" /\ frame[2] = g
      \/ frame = <<"A">> /\ frame[1] = "A"
      \/ frame = <<"F">> /\ frame[1] = "F"
  BY FrameKinds
<1>6. CASE \E g \in Groups : frame = <<"P", g>> /\ frame[1] = "P" /\ frame[2] = g
  <2>1. PICK g \in Groups : frame = <<"P", g>> /\ frame[1] = "P" /\ frame[2] = g
    BY <1>6
  <2>2. \A x : frame = <<"P", x>> => x = g
    BY <2>1
  <2> QED
    BY <1>0, <1>1, <2>1, <2>2 DEF r
<1>7. CASE \E g \in Groups : frame = <<"C", g>> /\ frame[1] = "C" /\ frame[2] = g
  BY <1>0, <1>2, <1>7, FramesDiffer DEF r
<1>8. CASE frame = <<"A">> /\ frame[1] = "A"
  BY <1>0, <1>3, <1>8, FramesDiffer DEF r
<1>9. CASE frame = <<"F">> /\ frame[1] = "F"
  BY <1>0, <1>4, <1>9, FramesDiffer DEF r
<1> QED
  BY <1>5, <1>6, <1>7, <1>8, <1>9

LEMMA ReceiveInv ==
  ASSUME IInv, Receive
  PROVE  IInv'
<1> DEFINE f == Head(wire)
<1>1. /\ wire \in Seq(Frames) /\ wire # <<>> /\ heard \in Heard /\ Reachable
      /\ UNCHANGED <<leader, family, runner, flow, registered, faults>> /\ Phys
      /\ registered \subseteq Groups
  BY StillPhys DEF IInv, TypeOK, Receive
<1>2. /\ f \in Frames /\ wire' \in Seq(Frames)
      /\ \A x : In(x, wire) <=> x = f \/ In(x, wire')
  BY <1>1, InTail DEF Receive
<1>3. /\ heard' \in Heard /\ heard'.finished = heard.finished
      /\ \A g \in heard'.groups : g \in heard.groups \/ f = <<"P", g>>
      /\ \A g \in heard.groups : g \in heard'.groups \/ f = <<"C", g>>
      /\ \A g \in Groups : f = <<"P", g>> => g \in heard'.groups
      /\ heard'.acknowledged => heard.acknowledged \/ f = <<"A">>
      /\ heard.acknowledged => heard'.acknowledged
  BY <1>1, <1>2, ReadFacts DEF Receive
<1> HIDE DEF f
<1>4. heard'.groups \subseteq Groups
  BY <1>3 DEF Heard
<1>5. WireInv /\ ~heard.finished
  BY <1>1 DEF IInv, WireInv
<1>6. \A g \in Groups : (Gone(g)' <=> Gone(g)) /\ (Unstarted(g)' <=> Unstarted(g))
  BY <1>1 DEF Gone, Unstarted
<1>7. \A x : In(x, wire)' <=> In(x, wire')
  BY DEF In
<1>8. ASSUME NEW g \in registered
      PROVE  Gone(g) \/ In(<<"P", g>>, wire') \/ g \in heard'.groups
  <2>1. Gone(g) \/ In(<<"P", g>>, wire) \/ g \in heard.groups
    BY <1>5 DEF WireInv
  <2>2. g \in heard.groups => g \in heard'.groups \/ Gone(g)
    BY <1>1, <1>2, <1>3, <1>5 DEF WireInv
  <2>3. In(<<"P", g>>, wire) => In(<<"P", g>>, wire') \/ g \in heard'.groups
    BY <1>1, <1>2, <1>3
  <2> QED
    BY <2>1, <2>2, <2>3
<1>9. ASSUME NEW g \in Groups, g \in heard'.groups \/ In(<<"P", g>>, wire')
      PROVE  g \in registered
  BY <1>2, <1>3, <1>5, <1>9 DEF WireInv
<1>10. ASSUME In(<<"A">>, wire') \/ heard'.acknowledged
       PROVE  /\ runner.pc = "close" \/ Closed
              /\ \A g \in Groups : Unstarted(g) \/ Gone(g)
  BY <1>2, <1>3, <1>5, <1>10 DEF WireInv
<1>11. WireInv'
  BY <1>1, <1>2, <1>3, <1>5, <1>6, <1>7, <1>8, <1>9, <1>10 DEF WireInv, Closed
<1>12. FlowInv'
  BY <1>1, <1>3, <1>5 DEF IInv, FlowInv, Reachable
<1>13. TypeOK'
  BY <1>1, <1>2, <1>3 DEF IInv, TypeOK
<1>14. Fresh' /\ RunnerInv'
  BY <1>1, FreshKeeps, RunnerKeeps
<1> QED
  BY <1>11, <1>12, <1>13, <1>14 DEF IInv

LEMMA EndOfFileInv ==
  ASSUME IInv, EndOfFile
  PROVE  IInv'
<1>1. /\ wire = <<>> /\ Closed /\ heard \in Heard /\ ~heard.finished /\ Phys
      /\ UNCHANGED <<leader, family, runner, wire, flow, registered, faults>>
  BY StillPhys DEF IInv, TypeOK, EndOfFile, Closed
<1>2. /\ heard' \in Heard /\ heard'.finished /\ heard'.groups = heard.groups
      /\ heard'.acknowledged = heard.acknowledged
  BY <1>1 DEF EndOfFile, Heard
<1>3. WireInv'
  <2>1. \A g \in Groups : (Gone(g)' <=> Gone(g)) /\ (Unstarted(g)' <=> Unstarted(g))
    BY <1>1 DEF Gone, Unstarted
  <2>2. \A x : In(x, wire)' <=> In(x, wire)
    BY <1>1 DEF In
  <2> QED
    BY <1>1, <1>2, <2>1, <2>2 DEF IInv, TypeOK, WireInv, Closed
<1>4. FlowInv'
  BY <1>1, <1>2 DEF IInv, TypeOK, Heard, FlowInv, Gone
<1>5. TypeOK'
  BY <1>1, <1>2 DEF IInv, TypeOK
<1>6. Fresh' /\ RunnerInv'
  BY <1>1, FreshKeeps, RunnerKeeps
<1> QED
  BY <1>3, <1>4, <1>5, <1>6 DEF IInv

-----------------------------------------------------------------------------
(* The flow *)

LEMMA FlowStep ==
  ASSUME IInv, Phys, UNCHANGED <<wire, heard, registered>>, faults' \in 0..MaxFaults,
         flow' \in Flow, FlowInv', RunnerOK', RunnerInv', runner'.child = runner.child,
         Closed => Closed', runner.pc = "close" => runner'.pc = "close" \/ Closed'
  PROVE  IInv'
<1>1. TypeOK'
  BY DEF IInv, TypeOK, Phys, Leaders, RunnerOK
<1>2. Fresh' /\ WireInv'
  BY FreshKeeps, WireKeeps
<1> QED
  BY <1>1, <1>2 DEF IInv

\* The steps of the flow that leave the runner alone.
LEMMA FlowOnly ==
  ASSUME IInv, Phys, UNCHANGED <<runner, wire, heard, registered>>, faults' \in 0..MaxFaults,
         flow' \in Flow, FlowInv'
  PROVE  IInv'
<1>1. RunnerOK' /\ RunnerInv'
  BY RunnerKeeps DEF IInv, TypeOK, RunnerOK
<1> QED
  BY <1>1, FlowStep DEF Closed

\* Before the channel is drained the invariant asks nothing of a stage.
LEMMA EarlyFlow ==
  ASSUME IInv, UNCHANGED <<heard, registered>>, ~flow'.drained, flow'.pc # "done",
         flow'.target = flow.target,
         flow'.clean => heard.acknowledged
  PROVE  FlowInv'
  BY DEF IInv, FlowInv

LEMMA NotDrained ==
  ASSUME IInv, flow.pc \notin {"finish", "done", "dead"}
  PROVE  ~flow.drained
  BY DEF IInv, FlowInv

\* RunnerExited, Request and RunnerGone.
LEMMA FlowTurn ==
  ASSUME IInv, UNCHANGED <<leader, family, runner, wire, heard, registered, faults>>,
         flow.pc \notin {"finish", "done", "dead"},
         NEW pc \in {"ack", "drain"}, NEW asked \in BOOLEAN,
         flow' = [flow EXCEPT !.pc = pc, !.asked = asked]
  PROVE  IInv'
<1>1. flow \in Flow /\ Phys /\ faults' \in 0..MaxFaults
  BY StillPhys DEF IInv, TypeOK
<1>2. /\ flow' \in Flow /\ flow'.pc = pc /\ flow'.clean = flow.clean /\ flow'.drained = flow.drained
      /\ flow'.target = flow.target
  BY <1>1 DEF Flow
<1>3. FlowInv'
  <2>1. ~flow.drained /\ (flow.clean => heard.acknowledged)
    BY NotDrained DEF IInv, FlowInv
  <2> QED
    BY <1>2, <2>1, EarlyFlow
<1> QED
  BY <1>1, <1>2, <1>3, FlowOnly

LEMMA FlowTurnsInv ==
  ASSUME IInv, RunnerExited \/ Request \/ RunnerGone
  PROVE  IInv'
<1>1. flow \in Flow /\ flow.asked \in BOOLEAN
  BY DEF IInv, TypeOK, Flow
<1>2. CASE RunnerExited
  <2>1. flow' = [flow EXCEPT !.pc = "drain", !.asked = flow.asked]
    BY <1>1, <1>2 DEF RunnerExited, FlowTo, Flow
  <2> QED
    BY <1>1, <1>2, <2>1, FlowTurn DEF RunnerExited, FlowTo
<1>3. CASE Request
  BY <1>3, FlowTurn DEF Request, FlowTo
<1>4. CASE RunnerGone
  <2>1. flow' = [flow EXCEPT !.pc = "drain", !.asked = flow.asked]
    BY <1>1, <1>4 DEF RunnerGone, FlowTo, Flow
  <2> QED
    BY <1>1, <1>4, <2>1, FlowTurn DEF RunnerGone, FlowTo
<1> QED
  BY <1>2, <1>3, <1>4

LEMMA AnsweredInv ==
  ASSUME IInv, Answered
  PROVE  IInv'
<1> DEFINE clean == heard.acknowledged /\ ~heard.failed /\ heard.groups = {} /\ ~heard.invalid
           pc == IF clean THEN "group" ELSE "kill"
           todo == heard.groups
<1>1. /\ flow \in Flow /\ Phys /\ faults' \in 0..MaxFaults /\ todo \subseteq Groups
      /\ UNCHANGED <<runner, wire, heard, registered>>
  BY StillPhys DEF IInv, TypeOK, Answered, FlowTo, Heard
<1>2. flow' = [flow EXCEPT !.pc = pc, !.clean = clean, !.todo = todo]
  BY DEF Answered, FlowTo
<1>3. clean \in BOOLEAN /\ pc \in {"group", "kill"} /\ (clean => heard.acknowledged)
  OBVIOUS
<1> HIDE DEF clean, pc, todo
<1>4. /\ flow' \in Flow /\ flow'.pc = pc /\ flow'.clean = clean /\ flow'.drained = flow.drained
      /\ flow'.target = flow.target
  BY <1>1, <1>2, <1>3 DEF Flow
<1>5. FlowInv'
  <2>1. ~flow.drained
    BY NotDrained DEF Answered
  <2> QED
    BY <1>1, <1>3, <1>4, <2>1, EarlyFlow
<1> QED
  BY <1>1, <1>4, <1>5, FlowOnly

LEMMA DrainInv ==
  ASSUME IInv, Drain
  PROVE  IInv'
<1> DEFINE finished == heard.finished
           groups == heard.groups
<1>1. /\ flow \in Flow /\ Phys /\ faults' \in 0..MaxFaults /\ groups \subseteq Groups /\ finished \in BOOLEAN
      /\ UNCHANGED <<leader, family, runner, wire, heard, registered>>
  BY StillPhys DEF IInv, TypeOK, Drain, FlowTo, Heard
<1>2. flow' = [flow EXCEPT !.pc = "finish", !.drained = finished, !.failures = FALSE,
                           !.todo = groups, !.frozen = groups]
  BY DEF Drain, FlowTo
<1> HIDE DEF finished, groups
<1>3. /\ flow' \in Flow /\ flow'.pc = "finish" /\ flow'.clean = flow.clean
      /\ flow'.drained = finished /\ flow'.todo = groups /\ flow'.target = flow.target
  BY <1>1, <1>2 DEF Flow
<1>4. FlowInv'
  BY <1>1, <1>3 DEF IInv, FlowInv, finished, groups
<1> QED
  BY <1>1, <1>3, <1>4, FlowOnly

LEMMA FinishInv ==
  ASSUME IInv, Finish
  PROVE  IInv'
<1> DEFINE verified == /\ flow.drained /\ ~heard.invalid /\ ~flow.failures
                       /\ ~(heard.failed /\ flow.frozen = {})
           error == ~verified
<1>1. /\ flow \in Flow /\ Phys /\ faults' \in 0..MaxFaults
      /\ flow.pc = "finish" /\ flow.todo = {} /\ flow.target = {}
      /\ UNCHANGED <<leader, family, runner, wire, heard, registered>>
      /\ registered \subseteq Groups /\ heard.groups \subseteq Groups
  BY StillPhys DEF IInv, TypeOK, Finish, FlowTo, Heard
<1>2. flow' = [flow EXCEPT !.pc = "done", !.asked = TRUE, !.error = error]
  BY DEF Finish, FlowTo
<1>3. error \in BOOLEAN /\ (~error => flow.drained /\ ~flow.failures)
  OBVIOUS
<1> HIDE DEF verified, error
<1>4. /\ flow' \in Flow /\ flow'.pc = "done" /\ flow'.clean = flow.clean
      /\ flow'.drained = flow.drained /\ flow'.failures = flow.failures
      /\ flow'.todo = {} /\ flow'.target = {} /\ flow'.error = error
  BY <1>1, <1>2, <1>3 DEF Flow
<1>5. ASSUME ~error, NEW g \in registered
      PROVE  Gone(g)
  <2>1. flow.drained /\ ~flow.failures /\ heard.finished
    BY <1>3, <1>5 DEF IInv, FlowInv
  <2>2. wire = <<>>
    BY <2>1 DEF IInv, WireInv
  <2>3. Gone(g) \/ g \in heard.groups
    BY <2>2, InEmpty DEF IInv, WireInv
  <2> QED
    BY <1>1, <2>1, <2>3 DEF IInv, FlowInv
<1>6. FlowInv'
  BY <1>1, <1>4, <1>5 DEF IInv, FlowInv, Gone
<1> QED
  BY <1>1, <1>4, <1>6, FlowOnly

LEMMA FlowDiesInv ==
  ASSUME HandoffAssumption, IInv, FlowDies
  PROVE  IInv'
<1>1. /\ flow \in Flow /\ Phys /\ faults' \in 0..MaxFaults
      /\ UNCHANGED <<leader, family, runner, wire, heard, registered>>
  BY StillPhys, FaultOK DEF IInv, TypeOK, FlowDies
<1>2. flow' = [flow EXCEPT !.pc = "dead", !.asked = TRUE]
  BY DEF FlowDies
<1>3. /\ flow' \in Flow /\ flow'.pc = "dead" /\ flow'.clean = flow.clean
      /\ flow'.drained = flow.drained /\ flow'.failures = flow.failures
      /\ flow'.todo = flow.todo /\ flow'.target = flow.target
  BY <1>1, <1>2 DEF Flow
<1>4. FlowInv'
  BY <1>1, <1>3 DEF IInv, FlowInv, Gone
<1> QED
  BY <1>1, <1>3, <1>4, FlowOnly

-----------------------------------------------------------------------------
(* Stopping groups and the runner *)

\* A group leaves the groups to be stopped when it is gone, or as a failure.
LEMMA StopKeeps ==
  ASSUME IInv, Phys, UNCHANGED <<runner, wire, heard, registered, faults>>,
         flow.pc \in {"kill", "finish"}, flow' \in Flow, flow'.pc = flow.pc,
         flow'.clean = flow.clean, flow'.drained = flow.drained,
         flow.failures => flow'.failures, \A g, h \in flow'.target : g = h,
         \A g \in Groups : g \in flow.todo \cup flow.target /\ ~flow'.failures =>
            Unstarted(g) \/ Gone(g) \/ g \in flow'.todo \cup flow'.target
  PROVE  IInv'
<1>1. FlowInv /\ heard.groups \subseteq Groups /\ faults' \in 0..MaxFaults
  BY DEF IInv, TypeOK, Heard
<1>2. \A g \in heard.groups : ~Unstarted(g)
  BY <1>1 DEF IInv, WireInv, Fresh, Untouched
<1>3. \A g \in Groups : Gone(g) => Gone(g)'
  BY DEF Phys
<1>4. ASSUME flow.drained, ~flow'.failures, NEW g \in heard.groups
      PROVE  Gone(g)' \/ g \in flow'.todo \/ g \in flow'.target
  <2>1. Gone(g) \/ g \in flow.todo \/ g \in flow.target
    BY <1>1, <1>4 DEF FlowInv
  <2> QED
    BY <1>1, <1>2, <1>3, <1>4, <2>1
<1>5. FlowInv'
  BY <1>1, <1>4 DEF FlowInv
<1> QED
  BY <1>1, <1>5, FlowOnly

LEMMA StopGroupInv ==
  ASSUME IInv, NEW g \in Groups, StopGroup(g)
  PROVE  IInv'
<1> DEFINE rest == flow.todo \ {g}
           failures == flow.failures \/ Exists(g)
<1>1. /\ flow \in Flow /\ UNCHANGED <<runner, wire, heard, registered, faults>>
      /\ flow.pc \in {"kill", "finish"} /\ flow.target = {} /\ g \in flow.todo
      /\ rest \subseteq Groups /\ \A h \in flow.todo : h = g \/ h \in rest
  BY DEF IInv, TypeOK, StopGroup, FlowTo, Flow
<1>2. CASE Owned(g)
  <2>1. flow' = [flow EXCEPT !.todo = rest, !.target = {g}, !.stopping = "term"] /\ Termed(g)
    BY <1>2 DEF StopGroup, FlowTo
  <2> HIDE DEF rest
  <2>2. /\ flow' \in Flow /\ flow'.pc = flow.pc /\ flow'.clean = flow.clean
        /\ flow'.drained = flow.drained /\ flow'.failures = flow.failures
        /\ flow'.todo = rest /\ flow'.target = {g}
    BY <1>1, <2>1 DEF Flow
  <2>3. Phys
    BY <2>1, TermedPhys DEF IInv
  <2> QED
    BY <1>1, <2>2, <2>3, StopKeeps
<1>3. CASE ~Owned(g)
  <2>1. flow' = [flow EXCEPT !.todo = rest, !.failures = failures] /\ Phys
    BY <1>3, StillPhys DEF StopGroup, FlowTo, IInv
  <2>2. failures \in BOOLEAN /\ (flow.failures => failures) /\ (~failures => Unstarted(g) \/ Gone(g))
    BY GoneOnceStarted
  <2> HIDE DEF rest, failures
  <2>3. /\ flow' \in Flow /\ flow'.pc = flow.pc /\ flow'.clean = flow.clean
        /\ flow'.drained = flow.drained /\ flow'.failures = failures
        /\ flow'.todo = rest /\ flow'.target = {}
    BY <1>1, <2>1, <2>2 DEF Flow
  <2> QED
    BY <1>1, <2>1, <2>2, <2>3, StopKeeps
<1> QED
  BY <1>2, <1>3

LEMMA TermTakenInv ==
  ASSUME IInv, NEW g \in Groups, TermTaken(g)
  PROVE  IInv'
<1>1. /\ flow \in Flow /\ UNCHANGED <<runner, wire, heard, registered, faults>>
      /\ flow.pc \in {"kill", "finish"} /\ g \in flow.target /\ Phys
  BY StillPhys DEF IInv, TypeOK, TermTaken, Stopping, Stopped, FlowTo
<1>2. flow.target = {g}
  BY <1>1 DEF IInv, FlowInv
<1>3. PICK ok \in BOOLEAN : Stopped(ok) /\ (ok => ~Exists(g))
  BY DEF TermTaken
<1> DEFINE failures == flow.failures \/ ~ok
<1>4. flow' = [flow EXCEPT !.stopping = "no", !.target = {}, !.failures = failures]
  BY <1>3 DEF Stopped, FlowTo
<1>5. failures \in BOOLEAN /\ (flow.failures => failures) /\ (~failures => Unstarted(g) \/ Gone(g))
  BY <1>3, GoneOnceStarted
<1> HIDE DEF failures
<1>6. /\ flow' \in Flow /\ flow'.pc = flow.pc /\ flow'.clean = flow.clean
      /\ flow'.drained = flow.drained /\ flow'.failures = failures
      /\ flow'.todo = flow.todo /\ flow'.target = {}
  BY <1>1, <1>4, <1>5 DEF Flow
<1> QED
  BY <1>1, <1>2, <1>5, <1>6, StopKeeps

LEMMA KillGroupInv ==
  ASSUME IInv, NEW g \in Groups, KillGroup(g)
  PROVE  IInv'
<1>1. /\ flow \in Flow /\ UNCHANGED <<runner, wire, heard, registered, faults>>
      /\ flow.pc \in {"kill", "finish"} /\ flow' = [flow EXCEPT !.stopping = "kill"]
  BY DEF IInv, TypeOK, KillGroup, Stopping, FlowTo
<1>2. Phys
  BY LeaderPhys DEF IInv, KillGroup, Owned
<1>3. /\ flow' \in Flow /\ flow'.pc = flow.pc /\ flow'.clean = flow.clean
      /\ flow'.drained = flow.drained /\ flow'.failures = flow.failures
      /\ flow'.todo = flow.todo /\ flow'.target = flow.target
  BY <1>1 DEF Flow
<1>4. \A a, b \in flow.target : a = b
  BY DEF IInv, FlowInv
<1> QED
  BY <1>1, <1>2, <1>3, <1>4, StopKeeps

LEMMA StopRunnerInv ==
  ASSUME IInv, TermRunner \/ KillRunner
  PROVE  IInv'
<1>1. /\ flow \in Flow /\ runner \in Runner /\ Phys /\ ~flow.drained /\ faults' \in 0..MaxFaults
      /\ UNCHANGED <<wire, heard, registered>> /\ (flow.clean => heard.acknowledged)
  BY StillPhys, NotDrained DEF IInv, TypeOK, FlowInv, TermRunner, KillRunner, FlowTo
<1>2. PICK pc \in {"group", "drain"} : flow' = [flow EXCEPT !.pc = pc]
  BY DEF TermRunner, KillRunner, FlowTo
<1>3. /\ flow' \in Flow /\ flow'.pc = pc /\ flow'.clean = flow.clean /\ flow'.drained = flow.drained
      /\ flow'.target = flow.target
  BY <1>1, <1>2 DEF Flow
<1>4. FlowInv'
  BY <1>1, <1>3, EarlyFlow
<1>5. \/ UNCHANGED runner
      \/ runner' = [runner EXCEPT !.requested = TRUE]
      \/ runner.pc = "exit" /\ runner' = [runner EXCEPT !.pc = "ended"]
      \/ runner' = [runner EXCEPT !.pc = "dead"]
  BY DEF TermRunner, KillRunner
<1>6. /\ runner' \in Runner /\ runner'.child = runner.child /\ runner'.active = runner.active
      /\ runner'.unregistered = runner.unregistered
      /\ runner'.pc = runner.pc \/ runner'.pc = "dead" \/ (runner.pc = "exit" /\ runner'.pc = "ended")
  BY <1>1, <1>5 DEF Runner
<1>7. RunnerOK'
  BY <1>1, <1>6 DEF IInv, TypeOK, RunnerOK
<1>8. RunnerInv'
  <2>1. CASE runner'.pc = runner.pc \/ runner'.pc = "dead"
    BY <1>1, <1>6, <2>1, RunnerKeeps
  <2>2. CASE runner.pc = "exit" /\ runner'.pc = "ended"
    BY <1>1, <1>6, <2>2 DEF IInv, RunnerInv, Phys
  <2> QED
    BY <1>6, <2>1, <2>2
<1> QED
  BY <1>1, <1>3, <1>4, <1>6, <1>7, <1>8, FlowStep DEF Closed

-----------------------------------------------------------------------------
(* Theorems *)

LEMMA InitInv ==
  ASSUME HandoffAssumption, Init
  PROVE  IInv
<1>1. TypeOK
  BY DEF HandoffAssumption, Init, TypeOK, Runner, Heard, Flow
<1>2. \A f : ~In(f, wire)
  BY InEmpty DEF Init
<1>3. Fresh /\ RunnerInv
  BY DEF Init, Fresh, Untouched, RunnerInv, Unstarted
<1>4. WireInv /\ FlowInv
  BY <1>2 DEF Init, WireInv, FlowInv
<1> QED
  BY <1>1, <1>3, <1>4 DEF IInv

LEMMA StepInv ==
  ASSUME HandoffAssumption, IInv, [Next]_vars
  PROVE  IInv'
<1>1. CASE Stage
  <2>1. CASE RunnerExited \/ Request \/ RunnerGone
    BY <2>1, FlowTurnsInv
  <2>2. CASE Answered
    BY <2>2, AnsweredInv
  <2>3. CASE TermRunner \/ KillRunner
    BY <2>3, StopRunnerInv
  <2>4. CASE Drain
    BY <2>4, DrainInv
  <2>5. CASE Finish
    BY <2>5, FinishInv
  <2>6. CASE \E g \in Groups : StopGroup(g) \/ TermTaken(g) \/ KillGroup(g)
    BY <2>6, StopGroupInv, TermTakenInv, KillGroupInv
  <2> QED
    BY <1>1, <2>1, <2>2, <2>3, <2>4, <2>5, <2>6 DEF Stage
<1>2. CASE Teardown
  <2>1. CASE \E g \in Groups : ModelStarted(g) \/ ChildEnds(g) \/ Interrupt(g) \/ GraceOver(g)
                               \/ ModelStopped(g)
    BY <2>1, ModelStartedInv, ChildEndsInv, StopChildInv, GraceOverInv, ModelStoppedInv DEF Interrupt
  <2>2. CASE ChainOver \/ Close \/ Exit
    BY <2>2, RunnerEndsInv
  <2>3. CASE Acknowledge
    BY <2>3, AcknowledgeInv
  <2> QED
    BY <1>2, <2>1, <2>2, <2>3 DEF Teardown
<1>3. CASE Watch
  BY <1>3, WatchInv
<1>4. CASE Receive
  BY <1>4, ReceiveInv
<1>5. CASE EndOfFile
  BY <1>5, EndOfFileInv
<1>6. CASE ChainOver \/ RunnerDies
  BY <1>6, RunnerEndsInv
<1>7. CASE FlowDies
  BY <1>7, FlowDiesInv
<1>8. CASE \E g \in Groups : Popen(g) \/ RegistrationFailed(g) \/ AttemptTimeout(g)
  BY <1>8, PopenInv, RegistrationFailedInv, StopChildInv DEF AttemptTimeout
<1>9. CASE \E g \in Groups : LeaderExits(g) \/ FamilyEnds(g) \/ Reaped(g)
  BY <1>9, LeaderExitsInv, FamilyEndsInv, ReapedInv
<1>10. CASE UNCHANGED vars
  <2>1. Phys /\ UNCHANGED <<runner, wire, heard, flow, registered, faults>>
    BY <1>10, StillPhys DEF vars, IInv
  <2> QED
    BY <2>1, GroupStep
<1> QED
  BY <1>1, <1>2, <1>3, <1>4, <1>5, <1>6, <1>7, <1>8, <1>9, <1>10 DEF Next

\* A group is always on its way to the flow, known to it, or gone, and the
\* runner acknowledges only when nothing is left.
THEOREM InvariantHolds == Spec => []IInv
<1>1. Init => IInv
  BY InitInv, HandoffAssumption
<1>2. IInv /\ [Next]_vars => IInv'
  BY StepInv, HandoffAssumption
<1> QED
  BY <1>1, <1>2, PTL DEF Spec

\* The types of the model hold.
THEOREM TypeCorrect == Spec => []TypeOK
<1>1. IInv => TypeOK
  BY DEF IInv
<1> QED
  BY <1>1, InvariantHolds, PTL

\* A stage without a cleanup error has left no registered group, and a flow
\* that accepted an acknowledgement no group at all, for any number of groups
\* and faults.
THEOREM CleanIsClean == Spec => []CleanMeansGone
<1>1. IInv => CleanMeansGone
  <2> SUFFICES ASSUME IInv PROVE CleanMeansGone
    OBVIOUS
  <2>1. FlowInv /\ WireInv /\ registered \subseteq Groups
    BY DEF IInv, TypeOK
  <2>2. flow.pc = "done" /\ ~flow.error => \A g \in registered : ~Exists(g)
    BY <2>1, UnstartedNotThere DEF FlowInv
  <2>3. flow.clean => \A g \in Groups : ~Exists(g)
    BY <2>1, UnstartedNotThere DEF FlowInv, WireInv
  <2> QED
    BY <2>2, <2>3 DEF CleanMeansGone
<1> QED
  BY <1>1, InvariantHolds, PTL
=============================================================================
