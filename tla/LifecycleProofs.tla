--------------------------- MODULE LifecycleProofs ---------------------------
(***************************************************************************)
(* The type invariant of Lifecycle, and SafeToStop, for every value of the *)
(* constants.                                                              *)
(***************************************************************************)
EXTENDS Lifecycle, ReconcileProofs

\* What power commands and power changes do to the machine is well typed.
LEMMA MachineTypes ==
  ASSUME TypeOK, NEW m \in Machines, NEW cmd
  PROVE  /\ \A p \in {"off", "booting", "up", "asleep"} : InPower(p) \in Machines
         /\ Commanded(m, cmd) \in Machines
         /\ [m EXCEPT !.suspending = None] \in Machines
         /\ [m EXCEPT !.quiet = None] \in Machines
BY DEF TypeOK, Machines, InPower, Commanded, OptTime

\* The Node patches are well typed.
LEMMA PatchedType ==
  ASSUME NEW nd \in Nodes, NEW out \in Outcomes
  PROVE  Patched(nd, out) \in Nodes
BY DEF Patched, Nodes, Outcomes

\* A reconcile in progress has read well-typed values.
LEMMA ActingRead ==
  ASSUME TypeOK, rec.pc = "act"
  PROVE  rec \in Acting /\ Read(rec)
BY DEF TypeOK, Acting, Idle, Patching, Read

\* An interface reports a power state.
LEMMA ReadingType == reading \in PowerStates
BY EnvironmentAssumption DEF reading, PowerStates

\* The initial states are well typed.
LEMMA InitType == Init => TypeOK
<1> SUFFICES ASSUME Init PROVE TypeOK
  OBVIOUS
<1>1. DefaultStatus \in Status
  BY Zenon DEF Status, DefaultStatus, Phases, PowerStates, OptTime
<1>2. machine \in Machines /\ node \in Nodes
  <2>1. PICK on \in BOOLEAN :
          /\ machine = [power |-> IF on THEN "up" ELSE "off", stopping |-> FALSE,
                        suspending |-> None, quiet |-> None]
          /\ node = [NoNode EXCEPT !.exists = TRUE, !.ready = on]
    BY Zenon DEF Init
  <2>2. NoNode \in Nodes
    BY DEF NoNode, Nodes
  <2>3. node \in Nodes
    BY <2>1, <2>2, Zenon DEF Nodes
  <2> QED BY <2>1, <2>3 DEF Machines, OptTime
<1>3. rec \in Idle
  BY DEF Init, Idle
<1> QED
  BY <1>1, <1>2, <1>3 DEF Init, TypeOK, Policies, PodClasses

\* What a reconcile does to the world, with its outcome named.
HandledAs(out, ok, works) ==
  LET calm == IF out.cancel THEN [machine EXCEPT !.suspending = None] ELSE machine
      m    == IF works THEN Commanded(calm, out.cmd) ELSE calm
  IN /\ rec' = [pc |-> "patch", old |-> rec.old, new |-> out.st, now |-> rec.now,
                cmd |-> out.cmd]
     /\ machine' = m
     /\ blame' = (IF m.power # calm.power THEN "us" ELSE blame)
     /\ node' = Patched(node, out)
     /\ pods' \in Evicted(pods, out)
     /\ UNCHANGED <<st, seen, env, now, outage>>

\* A call that fails leaves a well-typed outcome.
LEMMA TriedType ==
  ASSUME NEW all \in Outcomes, NEW helped \in BOOLEAN
  PROVE  Tried(all, helped) \in Outcomes /\ (helped => Tried(all, helped) = all)
<1>1. CASE helped
  BY <1>1 DEF Tried
<1>2. CASE ~helped
  <2>1. Tried(all, helped) = [all EXCEPT !.mark = IF @ = "mark" THEN "keep" ELSE @,
                                         !.cancel = FALSE]
    BY <1>2 DEF Tried
  <2>2. "keep" \in Marks /\ all.mark \in Marks
    BY DEF Outcomes, Marks
  <2> QED BY <1>2, <2>1, <2>2, Zenon DEF Outcomes
<1> QED BY <1>1, <1>2

\* Every Handle step has a well-typed outcome, and a phase-safe one unless a
\* call failed.
LEMMA HandleOutcome ==
  ASSUME TypeOK, rec.pc = "act", NEW p \in PowerStates, NEW ok \in BOOLEAN,
         NEW works \in BOOLEAN, NEW helped \in BOOLEAN, Handle(p, ok, works, helped)
  PROVE  \E out \in Outcomes : /\ helped => PhaseSafe(out, rec.old, pods, rec)
                               /\ HandledAs(out, ok, works)
<1>1. PICK fresh \in LeaseFresh, s3 \in Probe :
        HandledAs(Tried(handle(rec, p, fresh, s3, pods, ok), helped), ok, works)
  BY Zenon DEF Handle, HandledAs
<1>2. Read(rec) /\ fresh \in BOOLEAN
  BY ActingRead DEF LeaseFresh
<1>3. /\ handle(rec, p, fresh, s3, pods, ok) \in Outcomes
      /\ PhaseSafe(handle(rec, p, fresh, s3, pods, ok), rec.old, pods, rec)
  BY <1>2, HandleType, Zenon
<1>4. /\ Tried(handle(rec, p, fresh, s3, pods, ok), helped) \in Outcomes
      /\ helped => Tried(handle(rec, p, fresh, s3, pods, ok), helped)
                     = handle(rec, p, fresh, s3, pods, ok)
  BY <1>3, TriedType
<1> QED
  BY <1>1, <1>3, <1>4, Zenon

\* Handling a reconcile preserves the types.
LEMMA HandledType ==
  ASSUME TypeOK, rec.pc = "act", NEW out \in Outcomes, NEW ok \in BOOLEAN,
         NEW works \in BOOLEAN, HandledAs(out, ok, works), events' \in Nat
  PROVE  TypeOK'
<1> DEFINE calm == IF out.cancel THEN [machine EXCEPT !.suspending = None] ELSE machine
           m    == IF works THEN Commanded(calm, out.cmd) ELSE calm
<1>1. rec' \in Patching
  BY ActingRead, OutcomeFields DEF Patching, Acting, HandledAs
<1>2. calm \in Machines
  BY MachineTypes DEF TypeOK
<1>3. machine' \in Machines
  <2>1. machine' = m
    BY DEF HandledAs
  <2> HIDE DEF calm
  <2> QED BY <1>2, <2>1, MachineTypes
<1>4. node' \in Nodes
  BY PatchedType DEF TypeOK, HandledAs
<1>5. pods' \in SUBSET PodClasses
  BY DEF TypeOK, Evicted, PodClasses, HandledAs
<1>6. blame' \in {"nobody", "us", "person"}
  BY DEF TypeOK, HandledAs
<1>7. UNCHANGED <<st, seen, policy, member, now, outage>>
  BY DEF HandledAs, env
<1> QED
  BY <1>1, <1>3, <1>4, <1>5, <1>6, <1>7 DEF TypeOK

\* Every step preserves the types.
LEMMA NextType == TypeOK /\ [Next]_vars => TypeOK'
<1> SUFFICES ASSUME TypeOK, [Next]_vars PROVE TypeOK'
  OBVIOUS
<1>1. CASE Begin
  <2>1. rec' \in Acting
    BY <1>1 DEF Begin, TypeOK, Acting
  <2> QED BY <1>1, <2>1 DEF Begin, TypeOK, env
<1>2. CASE HandleReconcile \/ CommandFails \/ CommandLost \/ CommandUnanswered \/ CallFails \/ Misread
  <2>1. PICK p \in PowerStates, ok \in BOOLEAN, works \in BOOLEAN, helped \in BOOLEAN :
          Handle(p, ok, works, helped) /\ rec.pc = "act" /\ events' \in Nat
    <3>1. CASE HandleReconcile
      <4>1. Handle(reading, TRUE, TRUE, TRUE) /\ rec.pc = "act" /\ events' = events
        BY <3>1, Zenon DEF HandleReconcile
      <4> QED BY <4>1, ReadingType, Zenon DEF TypeOK
    <3>2. CASE CommandFails
      <4>1. Handle(reading, FALSE, FALSE, TRUE) /\ rec.pc = "act" /\ events' = events + 1
        BY <3>2, Zenon DEF CommandFails, Spend
      <4>2. events' \in Nat
        BY <4>1 DEF TypeOK
      <4> QED BY <4>1, <4>2, ReadingType, Zenon
    <3>3. CASE CommandLost
      <4>1. Handle(reading, TRUE, FALSE, TRUE) /\ rec.pc = "act" /\ events' = events + 1
        BY <3>3, Zenon DEF CommandLost, Spend
      <4>2. events' \in Nat
        BY <4>1 DEF TypeOK
      <4> QED BY <4>1, <4>2, ReadingType, Zenon
    <3>4. CASE Misread
      <4>1. Handle("Off", TRUE, TRUE, TRUE) /\ rec.pc = "act" /\ events' = events + 1
        BY <3>4, Zenon DEF Misread, Spend
      <4>2. events' \in Nat /\ "Off" \in PowerStates
        BY <4>1 DEF TypeOK, PowerStates
      <4> QED BY <4>1, <4>2, Zenon
    <3>5. CASE CallFails
      <4>1. Handle(reading, TRUE, TRUE, FALSE) /\ rec.pc = "act" /\ events' = events + 1
        BY <3>5, Zenon DEF CallFails, Spend
      <4>2. events' \in Nat
        BY <4>1 DEF TypeOK
      <4> QED BY <4>1, <4>2, ReadingType, Zenon
    <3>6. CASE CommandUnanswered
      <4>1. Handle(reading, FALSE, TRUE, TRUE) /\ rec.pc = "act" /\ events' = events + 1
        BY <3>6, Zenon DEF CommandUnanswered, Spend
      <4>2. events' \in Nat
        BY <4>1 DEF TypeOK
      <4> QED BY <4>1, <4>2, ReadingType, Zenon
    <3> QED BY <1>2, <3>1, <3>2, <3>3, <3>4, <3>5, <3>6
  <2>2. PICK out \in Outcomes : HandledAs(out, ok, works)
    BY <2>1, HandleOutcome, Zenon
  <2> QED BY <2>1, <2>2, HandledType, Zenon
<1>3. CASE BuildFails \/ ReadFails
  <2>1. rec \in Acting /\ Read(rec)
    BY <1>3, ActingRead DEF BuildFails, ReadFails
  <2>2. resolved(rec) \in Status
    BY <2>1, ResolvedType
  <2>3. PICK new \in Status : GiveUp(new)
    <3> DEFINE b == [resolved(rec) EXCEPT !.phase = "Error", !.power_state = "Unknown"]
               d == [resolved(rec) EXCEPT !.power_state = "Unknown"]
    <3>1. "Error" \in Phases /\ "Unknown" \in PowerStates
      BY DEF Phases, PowerStates
    <3>2. b \in Status /\ d \in Status
      BY <2>2, <3>1, ZenonT(20) DEF Status
    <3>3. GiveUp(b) \/ GiveUp(d)
      BY <1>3, Zenon DEF BuildFails, ReadFails
    <3> QED BY <3>2, <3>3, Zenon
  <2>4. rec' \in Patching
    BY <2>1, <2>3 DEF GiveUp, Acting, Patching
  <2>5. events' \in Nat /\ UNCHANGED <<st, seen, policy, member, machine, node, pods, now, blame, outage>>
    BY <1>3 DEF BuildFails, ReadFails, Spend, TypeOK, env
  <2> QED BY <2>4, <2>5 DEF TypeOK
<1>4. CASE Patch
  <2>1. rec \in Patching
    BY <1>4 DEF Patch, TypeOK, Idle, Acting, Patching
  <2>2. st' \in Status
    <3>1. st \in Status /\ rec.old \in Status /\ rec.new \in Status
      BY <2>1 DEF TypeOK, Patching
    <3> QED BY <1>4, <3>1, MergeType, Zenon DEF Patch
  <2>3. rec' \in Idle
    BY <1>4, <2>1 DEF Patch, Stop, Patching, Idle
  <2>4. outage' \in BOOLEAN
    BY <1>4, Zenon DEF Patch
  <2> QED BY <1>4, <2>2, <2>3, <2>4 DEF Patch, TypeOK, env
<1>5. CASE ApiError \/ Crash
  <2>1. rec' \in Idle
    BY <1>5 DEF ApiError, Crash, Stop, TypeOK, Idle, Acting, Patching
  <2>2. events' \in Nat /\ seen' \in Planned \cup {None}
    BY <1>5 DEF ApiError, Crash, Spend, TypeOK
  <2>3. UNCHANGED <<st, policy, member, machine, node, pods, now, blame, outage>>
    BY <1>5 DEF ApiError, Crash, env
  <2> QED BY <2>1, <2>2, <2>3 DEF TypeOK
<1>6. CASE PoolPlan
  <2>1. seen' \in Planned
    BY <1>6 DEF PoolPlan, TypeOK, Planned, Targets
  <2> QED BY <1>6, <2>1 DEF PoolPlan, TypeOK, env
<1>7. CASE PoolDecide
  <2> DEFINE d == [pool |-> seen.pool, target |-> seen.target, time |-> now]
  <2>1. d \in Decisions
    BY <1>7 DEF PoolDecide, TypeOK, Planned, Decisions
  <2>2. st' = [st EXCEPT !.scaling_decision = d]
    BY <1>7 DEF PoolDecide
  <2> HIDE DEF d
  <2>3. st' \in Status
    BY <2>1, <2>2, Zenon DEF TypeOK, Status
  <2> QED BY <1>7, <2>3 DEF PoolDecide, TypeOK, env
<1>8. CASE BootDone \/ ShutdownDone \/ SuspendRuns \/ SuspendExpires \/ SelfWake
  <2>1. machine' \in Machines
    BY <1>8, MachineTypes DEF TypeOK, BootDone, ShutdownDone, SuspendRuns, SuspendExpires,
         SelfWake, Became
  <2>2. /\ blame' \in {"nobody", "us", "person"} /\ events' \in Nat
        /\ UNCHANGED <<st, rec, seen, policy, member, node, pods, now, outage>>
    BY <1>8 DEF TypeOK, BootDone, ShutdownDone, SuspendRuns, SuspendExpires,
         SelfWake, Spend, env
  <2> QED BY <2>1, <2>2 DEF TypeOK
<1>9. CASE NodeReady \/ NodeNotReady
  <2>1. node' \in Nodes
    BY <1>9, Zenon DEF TypeOK, NodeReady, NodeNotReady, Nodes
  <2>2. machine' \in Machines
    BY <1>9, MachineTypes DEF TypeOK, NodeReady, NodeNotReady
  <2>3. /\ events' \in Nat
        /\ UNCHANGED <<st, rec, seen, policy, member, pods, now, blame, outage>>
    BY <1>9 DEF TypeOK, NodeReady, NodeNotReady, Spend, env
  <2> QED BY <2>1, <2>2, <2>3 DEF TypeOK
<1>10. CASE PodScheduled \/ PodGone
  BY <1>10, EnvironmentAssumption DEF TypeOK, PodScheduled, PodGone, PodClasses, env
<1>11. CASE PersonPowersOn \/ PersonPowersOff
  <2>1. machine' \in Machines
    BY <1>11, MachineTypes DEF TypeOK, PersonPowersOn, PersonPowersOff, Became
  <2>2. /\ blame' \in {"nobody", "us", "person"} /\ events' \in Nat
        /\ UNCHANGED <<st, rec, seen, policy, member, node, pods, now, outage>>
    BY <1>11 DEF TypeOK, PersonPowersOn, PersonPowersOff, Spend, env
  <2> QED BY <2>1, <2>2 DEF TypeOK
<1>12. CASE SetPolicy \/ SetMembership
  BY <1>12 DEF TypeOK, SetPolicy, SetMembership, Spend
<1>13. CASE PersonCordons \/ PersonUncordons \/ DeleteNode
  <2>1. node' \in Nodes
    <3>1. NoNode \in Nodes
      BY DEF NoNode, Nodes
    <3>2. CASE DeleteNode
      BY <3>1, <3>2, Zenon DEF DeleteNode
    <3>3. CASE PersonCordons \/ PersonUncordons
      BY <3>3, Zenon DEF TypeOK, PersonCordons, PersonUncordons, Nodes
    <3> QED BY <1>13, <3>2, <3>3
  <2>2. /\ events' \in Nat
        /\ UNCHANGED <<st, rec, seen, policy, member, machine, pods, now, blame, outage>>
    BY <1>13 DEF TypeOK, PersonCordons, PersonUncordons, DeleteNode, Spend, env
  <2> QED BY <2>1, <2>2 DEF TypeOK
<1>14. CASE Tick
  BY <1>14 DEF TypeOK, Tick, env
<1>15. CASE UNCHANGED vars
  BY <1>15 DEF TypeOK, vars
<1> QED
  BY <1>1, <1>2, <1>3, <1>4, <1>5, <1>6, <1>7, <1>8, <1>9, <1>10, <1>11, <1>12,
     <1>13, <1>14, <1>15 DEF Next, Controller, Pool, Hardware, People

\* Type correctness: the stored status, the reconcile in progress and the
\* environment keep their types, through every reconcile, patch, crash and
\* intervention.
THEOREM TypeCorrect == Spec => []TypeOK
<1>1. Init => TypeOK
  BY InitType
<1>2. TypeOK /\ [Next]_vars => TypeOK'
  BY NextType
<1> QED
  BY <1>1, <1>2, PTL DEF Spec

-----------------------------------------------------------------------------
(* SafeToStop.  It is not inductive alone: a reconcile decides on the copy *)
(* of the Node and of the status it read at its start, so the invariant    *)
(* also says how those copies relate to what is stored now.                *)

\* Nobody uncordons or deletes the Node, the marker is written, and no
\* reconcile loses its status patch.
Calm == Events \cap {"uncordon", "delete_node", "call_fails", "api_error", "crash"} = {}

\* The copies a reconcile works on are good enough to decide on.
CopiesHold ==
  /\ node.exists
  /\ rec.pc = "act" => (rec.node.cordoned => node.cordoned)
  /\ rec.pc # "idle" => rec.old.phase = st.phase

StopInv == TypeOK /\ CopiesHold /\ SafeToStop

\* The initial states satisfy the strengthened invariant.
LEMMA InitStop == Init => CopiesHold /\ SafeToStop
<1> SUFFICES ASSUME Init PROVE CopiesHold /\ SafeToStop
  OBVIOUS
<1>1. rec.pc = "idle" /\ st.phase = "Unknown"
  BY DEF Init, DefaultStatus
<1>2. node.exists
  BY DEF Init, NoNode
<1> QED BY <1>1, <1>2 DEF CopiesHold, SafeToStop, InForce

\* Handling a reconcile leaves the machine safe to stop: a phase is entered
\* only together with the Node patches that make it safe.
LEMMA HandledStop ==
  ASSUME StopInv, rec.pc = "act", NEW out \in Outcomes, NEW ok, NEW works,
         PhaseSafe(out, rec.old, pods, rec), HandledAs(out, ok, works)
  PROVE  CopiesHold' /\ SafeToStop'
<1>1. /\ rec'.pc = "patch" /\ rec'.old = rec.old /\ rec'.new = out.st
      /\ st' = st /\ node' = Patched(node, out) /\ pods' \in Evicted(pods, out)
  BY DEF HandledAs
<1>2. node \in Nodes /\ node.exists /\ rec.old.phase = st.phase
  BY DEF StopInv, TypeOK, CopiesHold
<1>3. /\ node'.exists
      /\ node'.cordoned = (IF out.cordon = "keep" THEN node.cordoned ELSE out.cordon = "cordon")
      /\ node'.marked = (IF out.mark = "keep" THEN node.marked ELSE out.mark = "mark")
  BY <1>1, <1>2 DEF Patched, Nodes
<1>4. pods = {} => pods' = {}
  BY <1>1 DEF Evicted
<1>5. CopiesHold'
  BY <1>1, <1>2, <1>3 DEF CopiesHold
<1>6. /\ st.phase = "Draining" => node.cordoned
      /\ st.phase = "PoweringOff" =>
           node.cordoned /\ node.marked /\ (pods = {} \/ ForceAfterDrainTimeout)
      /\ rec.node.cordoned => node.cordoned
  BY DEF StopInv, SafeToStop, InForce, CopiesHold
<1>7. out.mark \in Marks /\ out.cordon \in Cordons
  BY OutcomeFields
<1>8. out.st.phase = "Draining" => node'.cordoned
  BY <1>2, <1>3, <1>6 DEF PhaseSafe
<1>9. out.st.phase = "PoweringOff" =>
        node'.cordoned /\ node'.marked /\ (pods' = {} \/ ForceAfterDrainTimeout)
  BY <1>2, <1>3, <1>4, <1>6, <1>7 DEF PhaseSafe, Marks
<1> QED BY <1>1, <1>5, <1>8, <1>9 DEF SafeToStop, InForce

\* Every step keeps the machine safe to stop.
LEMMA NextStop ==
  ASSUME Calm, StopInv, [Next]_vars
  PROVE  CopiesHold' /\ SafeToStop'
<1> USE DEF StopInv
<1>1. CASE Begin
  BY <1>1 DEF Begin, CopiesHold, SafeToStop, InForce, TypeOK, env
<1>2. CASE HandleReconcile \/ CommandFails \/ CommandLost \/ CommandUnanswered \/ Misread
  <2>1. PICK p \in PowerStates, ok \in BOOLEAN, works \in BOOLEAN :
          Handle(p, ok, works, TRUE) /\ rec.pc = "act"
    <3>1. "Off" \in PowerStates
      BY DEF PowerStates
    <3> QED BY <1>2, <3>1, ReadingType, Zenon DEF HandleReconcile, CommandFails, CommandLost,
                CommandUnanswered, Misread
  <2>2. PICK out \in Outcomes :
          PhaseSafe(out, rec.old, pods, rec) /\ HandledAs(out, ok, works)
    BY <2>1, HandleOutcome, Zenon
  <2> QED BY <2>1, <2>2, HandledStop, Zenon
<1>3. CASE BuildFails \/ ReadFails
  <2>1. rec \in Acting /\ Read(rec)
    BY <1>3, ActingRead DEF BuildFails, ReadFails
  <2>2. resolved(rec).phase = rec.old.phase /\ resolved(rec) \in Status
    BY <2>1, ResolvedType, Zenon
  <2>3. /\ rec'.pc = "patch" /\ rec'.old = rec.old /\ rec'.new.phase \in {"Error", rec.old.phase}
        /\ rec.pc = "act" /\ UNCHANGED <<st, node, pods>>
    <3>1. CASE BuildFails
      BY <2>2, <3>1 DEF BuildFails, GiveUp, Status
    <3>2. CASE ReadFails
      BY <2>2, <3>2 DEF ReadFails, GiveUp, Status
    <3> QED BY <1>3, <3>1, <3>2
  <2> QED BY <2>3 DEF CopiesHold, SafeToStop, InForce
<1>4. CASE Patch
  <2>1. rec \in Patching
    BY <1>4 DEF Patch, TypeOK, Idle, Acting, Patching
  <2>2. st'.phase = rec.new.phase
    <3>1. st \in Status /\ rec.old \in Status /\ rec.new \in Status
      BY <2>1 DEF TypeOK, Patching
    <3>2. st'.phase = IF rec.new.phase # rec.old.phase THEN rec.new.phase ELSE st.phase
      BY <1>4, <3>1, MergeType, Zenon DEF Patch
    <3> QED BY <1>4, <3>2 DEF Patch, CopiesHold
  <2>3. rec'.pc = "idle" /\ UNCHANGED <<node, pods>>
    BY <1>4 DEF Patch, Stop
  <2> QED BY <1>4, <2>2, <2>3 DEF Patch, CopiesHold, SafeToStop, InForce
<1>5. ~CallFails /\ ~ApiError /\ ~Crash /\ ~PersonUncordons /\ ~DeleteNode
  BY DEF Calm, CopiesHold, CallFails, ApiError, Crash, PersonUncordons, DeleteNode, Spend
<1>6. CASE PoolDecide
  <2>1. st'.phase = st.phase /\ UNCHANGED <<rec, node, pods>>
    BY <1>6 DEF PoolDecide, TypeOK, Status
  <2> QED BY <2>1 DEF CopiesHold, SafeToStop, InForce
<1>7. CASE NodeReady \/ NodeNotReady \/ PersonCordons
  <2>1. /\ node'.exists /\ node'.marked = node.marked
        /\ node.cordoned => node'.cordoned
        /\ UNCHANGED <<st, rec, pods>>
    BY <1>7 DEF NodeReady, NodeNotReady, PersonCordons, TypeOK, Nodes, CopiesHold
  <2> QED BY <2>1 DEF CopiesHold, SafeToStop, InForce
<1>8. CASE PodScheduled \/ PodGone
  BY <1>8 DEF PodScheduled, PodGone, CopiesHold, SafeToStop, InForce
<1>9. CASE \/ PoolPlan \/ BootDone \/ ShutdownDone \/ SuspendRuns \/ SuspendExpires
           \/ SelfWake \/ PersonPowersOn \/ PersonPowersOff \/ SetPolicy
           \/ SetMembership \/ Tick \/ UNCHANGED vars
  <2>1. UNCHANGED <<st, rec, node, pods>>
    BY <1>9, Zenon DEF PoolPlan, BootDone, ShutdownDone, SuspendRuns, SuspendExpires, SelfWake,
         PersonPowersOn, PersonPowersOff, SetPolicy, SetMembership, Tick, vars
  <2> QED BY <2>1 DEF CopiesHold, SafeToStop, InForce
<1> QED
  BY <1>1, <1>2, <1>3, <1>4, <1>5, <1>6, <1>7, <1>8, <1>9
     DEF Next, Controller, Pool, Hardware, People

\* Whatever the timeouts, the power-off mode, the interleaving with the pool
\* controller, the kubelet and people, and whichever reads and commands fail:
\* a machine in Draining is cordoned, and one in PoweringOff is cordoned,
\* drained (or forced) and marked.  Assumes that nobody uncordons or deletes
\* the Node and that every reconcile completes its status patch.
THEOREM StopsOnlySafely == ASSUME Calm PROVE Spec => []SafeToStop
<1>1. Init => StopInv
  BY InitType, InitStop DEF StopInv
<1>2. StopInv /\ [Next]_vars => StopInv'
  BY NextType, NextStop DEF StopInv
<1>3. StopInv => SafeToStop
  BY DEF StopInv
<1> QED
  BY <1>1, <1>2, <1>3, PTL DEF Spec
=============================================================================
