------------------------------ MODULE Lifecycle ------------------------------
(***************************************************************************)
(* One machine under the NodePowerManagementConfig controller              *)
(* (src/controller/node_power_management_config.rs).                       *)
(*                                                                         *)
(* A reconcile is three steps, because three things happen to the world    *)
(* outside it at different times:                                          *)
(*                                                                         *)
(*   Begin    reads the live status and spec and the cached Node;          *)
(*   Handle*  reads the power state, decides, and makes its calls: the     *)
(*            Node patches, the evictions, at most one power command;      *)
(*   Patch    writes the changed status fields back.                       *)
(*                                                                         *)
(* Between them the clock, the machine, the kubelet, people and the pool   *)
(* controller (PoolPlan / PoolDecide) go on, and the operator may crash.   *)
(***************************************************************************)
EXTENDS Reconcile

CONSTANTS
  SleepReads,   \* what the interface reports for a suspended machine: "On" or "Off"
  Events,       \* kinds of human interventions and faults a run allows
  MaxEvents,    \* bound on how many of them happen
  MaxTime,      \* bound on the clock
  NewPods,      \* classes of pods the scheduler may place on the Node
  SuspendWindow,\* how long after its creation a suspend pod may still act
  NodeGrace     \* how long the Node of a silent kubelet may still read Ready

EventKinds == {"person_on", "person_off", "policy", "membership", "cordon",
               "uncordon", "delete_node", "kubelet", "self_wake", "act_fails",
               "act_lost", "act_unanswered", "call_fails", "read_fails", "build_fails", "misread", "api_error", "crash"}

ASSUME EnvironmentAssumption ==
  /\ SleepReads \in {"On", "Off"}
  /\ Events \subseteq EventKinds
  /\ MaxEvents \in Nat /\ MaxTime \in Nat
  /\ NewPods \subseteq {"running", "blocking"}
  /\ SuspendWindow \in Nat /\ NodeGrace \in Nat

VARIABLES
  st,        \* status of the NodePowerManagementConfig, as stored
  rec,       \* the reconcile in progress
  seen,      \* a decision the pool controller has planned and not yet written
  policy,    \* spec.powerPolicy
  member,    \* the pools whose nodeSelector matches the Node's labels
  machine,   \* the hardware
  node,      \* the Node object
  pods,      \* classes of pods on the Node
  now,       \* the clock
  events,    \* human interventions and faults so far
  blame,     \* history: who last powered the machine on or off
  outage     \* history: a stored status read Off since the stored boot failure

vars == <<st, rec, seen, policy, member, machine, node, pods, now, events, blame, outage>>

Machines == [power : {"off", "booting", "up", "asleep"},
             stopping : BOOLEAN,      \* the OS is carrying out a shutdown
             suspending : OptTime,    \* when the suspend pod that has not run was created
             quiet : OptTime]         \* since when the kubelet of a Ready Node is silent

InPower(p) == [power |-> p, stopping |-> FALSE, suspending |-> None,
               quiet |-> IF p # "up" /\ node.ready THEN now ELSE None]

NoNode == [exists |-> FALSE, ready |-> FALSE, cordoned |-> FALSE,
           ours |-> FALSE, marked |-> FALSE]

\* rec.now is the time of the reconcile, or of the last one when none runs.
Idle == [pc : {"idle"}, now : Nat]
Acting == [pc : {"act"}, old : Status, now : Nat, policy : Policies,
           node : Nodes, member : SUBSET Pools]
Patching == [pc : {"patch"}, old : Status, new : Status, now : Nat,
             cmd : Actions \cup {None}]

Planned == [pool : Pools, target : Targets, now : Nat]

TypeOK ==
  /\ st \in Status
  /\ rec \in Idle \cup Acting \cup Patching
  /\ seen \in Planned \cup {None}
  /\ policy \in Policies
  /\ member \in SUBSET Pools
  /\ machine \in Machines
  /\ node \in Nodes
  /\ pods \in SUBSET PodClasses
  /\ now \in Nat
  /\ events \in Nat
  /\ blame \in {"nobody", "us", "person"}
  /\ outage \in BOOLEAN

-----------------------------------------------------------------------------
(* The reconcile of the NodePowerManagementConfig.                         *)

Spend(kind) == /\ kind \in Events
               /\ events < MaxEvents
               /\ events' = events + 1

env == <<policy, member>>

\* The live object is read, the Node and the pools come from the caches.  The
\* unit of time is the distance of two reconciles: no two have the same time.
Begin ==
  /\ rec.pc = "idle" /\ rec.now < now
  /\ rec' = [pc |-> "act", old |-> st, now |-> now, policy |-> policy, node |-> node,
             member |-> IF node.exists THEN member ELSE {}]
  /\ UNCHANGED <<st, seen, env, machine, node, pods, now, events, blame, outage>>

\* What the interface reports when it works.
reading == CASE machine.power = "off"    -> "Off"
             [] machine.power = "asleep" -> SleepReads
             [] OTHER                    -> "On"

\* A running kubelet renews its lease; a stopped one's may still look fresh.
LeaseFresh == IF machine.power = "up" THEN {TRUE} ELSE BOOLEAN

\* The answer of the sleep probe, which only powerOffMode Auto asks for.
Probe == IF PowerOffMode = "Auto" THEN {None, TRUE, FALSE} ELSE {None}

\* What a power command does to the machine.
Commanded(m, cmd) ==
  CASE cmd = "PowerOn"  -> CASE m.power = "off"    -> [m EXCEPT !.power = "booting"]
                             [] m.power = "asleep" -> InPower("up")
                             [] OTHER              -> m
    [] cmd = "PowerOff" -> IF m.power = "up" THEN [m EXCEPT !.stopping = TRUE] ELSE m
    [] cmd = "ForceOff" -> IF m.power = "off" THEN m ELSE InPower("off")
    [] cmd = "Standby"  -> IF m.power = "up" THEN [m EXCEPT !.suspending = now] ELSE m
    [] OTHER            -> m

\* The Node after the reconcile's patches.
Patched(nd, out) ==
  IF ~nd.exists THEN nd
  ELSE [nd EXCEPT !.cordoned = IF out.cordon = "keep" THEN @ ELSE out.cordon = "cordon",
                  !.ours     = IF out.cordon = "keep" THEN @ ELSE out.cordon = "cordon",
                  !.marked   = IF out.mark = "keep" THEN @ ELSE out.mark = "mark"]

\* Evictions that a disruption budget refuses leave the pod running.
Evicted(ps, out) ==
  IF out.evict /\ "running" \in ps
  THEN {ps, (ps \ {"running"}) \cup {"terminating"}} ELSE {ps}

\* The marker and the withdrawal of the suspend pod are tried once, and their
\* failure is only logged.
Tried(all, helped) ==
  IF helped THEN all
  ELSE [all EXCEPT !.mark = IF @ = "mark" THEN "keep" ELSE @, !.cancel = FALSE]

\* The calls of a reconcile that read power state p; works: the command takes
\* effect; helped: the calls that may fail do not.  A Node patch fails on a Node
\* that is gone, and ends the reconcile.
Handle(p, ok, works, helped) ==
  \E fresh \in LeaseFresh, s3 \in Probe :
    LET all  == handle(rec, p, fresh, s3, pods, ok)
        out  == Tried(all, helped)
        calm == IF out.cancel THEN [machine EXCEPT !.suspending = None] ELSE machine
        m    == IF works THEN Commanded(calm, out.cmd) ELSE calm
    IN /\ (ok /\ works) \/ out.cmd # None
       /\ helped \/ out # all
       /\ (out.cordon # "keep" \/ out.mark = "clear") => node.exists
       /\ rec' = [pc |-> "patch", old |-> rec.old, new |-> out.st, now |-> rec.now, cmd |-> out.cmd]
       /\ machine' = m
       /\ blame' = IF m.power # calm.power THEN "us" ELSE blame
       /\ node' = Patched(node, out)
       /\ pods' \in Evicted(pods, out)
       /\ UNCHANGED <<st, seen, env, now, outage>>

HandleReconcile == rec.pc = "act" /\ Handle(reading, TRUE, TRUE, TRUE) /\ UNCHANGED events

\* Every interface refuses the command, or one accepts it to no effect
\* (a lost Wake-on-LAN packet).
CommandFails == rec.pc = "act" /\ Spend("act_fails") /\ Handle(reading, FALSE, FALSE, TRUE)
CommandLost  == rec.pc = "act" /\ Spend("act_lost") /\ Handle(reading, TRUE, FALSE, TRUE)

\* The command takes effect and no interface answers in time.
CommandUnanswered == rec.pc = "act" /\ Spend("act_unanswered") /\ Handle(reading, FALSE, TRUE, TRUE)

\* The Node is not marked, or the suspend pod not deleted.
CallFails == rec.pc = "act" /\ Spend("call_fails") /\ Handle(reading, TRUE, TRUE, FALSE)

\* The interface reports Off for a machine that is on.
Misread == /\ rec.pc = "act" /\ reading = "On"
           /\ Spend("misread")
           /\ Handle("Off", TRUE, TRUE, TRUE)

GiveUp(s) == rec' = [pc |-> "patch", old |-> rec.old, new |-> s, now |-> rec.now, cmd |-> None]

\* PowerChain::build fails: no interface can be used.
BuildFails ==
  /\ rec.pc = "act" /\ Spend("build_fails")
  /\ GiveUp([resolved(rec) EXCEPT !.phase = "Error", !.power_state = "Unknown"])
  /\ UNCHANGED <<st, seen, env, machine, node, pods, now, blame, outage>>

\* No interface answers power_state.
ReadFails ==
  /\ rec.pc = "act" /\ Spend("read_fails")
  /\ GiveUp([resolved(rec) EXCEPT !.power_state = "Unknown"])
  /\ UNCHANGED <<st, seen, env, machine, node, pods, now, blame, outage>>

Stop == rec' = [pc |-> "idle", now |-> rec.now]

Patch ==
  /\ rec.pc = "patch"
  /\ st' = merge_diff(st, rec.old, rec.new)
  /\ outage' = (/\ st'.boot_failure # None /\ st'.boot_failure = st.boot_failure
                /\ outage \/ st'.power_state = "Off")
  /\ Stop
  /\ UNCHANGED <<seen, env, machine, node, pods, now, events, blame>>

\* A Node call or the status patch fails: the reconcile returns an error and
\* runs again later, without its status patch.
ApiError ==
  /\ rec.pc # "idle"
  /\ \/ Spend("api_error")
     \/ rec.pc = "act" /\ rec.node.exists /\ ~node.exists /\ UNCHANGED events
  /\ Stop
  /\ UNCHANGED <<st, seen, env, machine, node, pods, now, blame, outage>>

\* The operator process dies and is restarted.
Crash ==
  /\ Spend("crash")
  /\ rec.pc # "idle" \/ seen # None
  /\ Stop /\ seen' = None
  /\ UNCHANGED <<st, env, machine, node, pods, now, blame, outage>>

-----------------------------------------------------------------------------
(* The pool controller, on its own cached copy: it may write its decision  *)
(* long after the state it was based on.                                   *)

PoolPlan ==
  /\ seen = None /\ policy = "Auto" /\ node.exists
  /\ \E p \in member :
       \/ /\ classify(policy, st, member, now) = "Offline"
          /\ seen' = [pool |-> p, target |-> "On", now |-> now]
       \/ /\ classify(policy, st, member, now) = "Online"
          /\ "blocking" \notin pods
          /\ seen' = [pool |-> p, target |-> "Off", now |-> now]
  /\ UNCHANGED <<st, rec, env, machine, node, pods, now, events, blame, outage>>

\* Mutant: the decision carries no time.
PoolDecide_untimed ==
  /\ seen # None
  /\ st' = [st EXCEPT !.scaling_decision = [pool |-> seen.pool, target |-> seen.target]]
  /\ seen' = None
  /\ UNCHANGED <<rec, env, machine, node, pods, now, events, blame, outage>>

\* decide(): patches scalingDecision and nothing else.
PoolDecide ==
  /\ seen # None
  /\ st' = [st EXCEPT !.scaling_decision =
              [pool |-> seen.pool, target |-> seen.target, time |-> now]]
  /\ seen' = None
  /\ UNCHANGED <<rec, env, machine, node, pods, now, events, blame, outage>>

-----------------------------------------------------------------------------
(* The machine, its kubelet and its pods.                                  *)

Became(p) == machine' = InPower(p)

BootDone == /\ machine.power = "booting" /\ Became("up")
            /\ UNCHANGED <<st, rec, seen, env, node, pods, now, events, blame, outage>>

ShutdownDone == /\ machine.power = "up" /\ machine.stopping /\ Became("off")
                /\ blame' = "us"
                /\ UNCHANGED <<st, rec, seen, env, node, pods, now, events, outage>>

SuspendRuns == /\ machine.power = "up"
               /\ Within(machine.suspending, SuspendWindow, now)
               /\ Became("asleep")
               /\ blame' = "us"
               /\ UNCHANGED <<st, rec, seen, env, node, pods, now, events, outage>>

\* The suspend pod is refused by its own guards, or expires unscheduled.
SuspendExpires == /\ machine.suspending # None
                  /\ machine' = [machine EXCEPT !.suspending = None]
                  /\ UNCHANGED <<st, rec, seen, env, node, pods, now, events, blame, outage>>

SelfWake == /\ machine.power = "asleep" /\ Spend("self_wake") /\ Became("up")
            /\ blame' = "nobody"
            /\ UNCHANGED <<st, rec, seen, env, node, pods, now, outage>>

\* The kubelet reports Ready, registering the Node if it is gone.
NodeReady == /\ machine.power = "up" /\ ~node.ready
             /\ node' = [node EXCEPT !.exists = TRUE, !.ready = TRUE]
             /\ UNCHANGED <<st, rec, seen, env, machine, pods, now, events, blame, outage>>

NodeNotReady == /\ node.ready
                /\ \/ machine.power # "up" /\ UNCHANGED events
                   \/ machine.power = "up" /\ Spend("kubelet")
                /\ node' = [node EXCEPT !.ready = FALSE]
                /\ machine' = [machine EXCEPT !.quiet = None]
                /\ UNCHANGED <<st, rec, seen, env, pods, now, blame, outage>>

PodScheduled == /\ node.ready /\ ~node.cordoned
                /\ \E c \in NewPods : pods' = pods \cup {c}
                /\ UNCHANGED <<st, rec, seen, env, machine, node, now, events, blame, outage>>

PodGone == /\ \E c \in pods : pods' = pods \ {c}
           /\ UNCHANGED <<st, rec, seen, env, machine, node, now, events, blame, outage>>

-----------------------------------------------------------------------------
(* People.                                                                 *)

PersonPowersOn ==
  /\ machine.power \in {"off", "asleep"} /\ Spend("person_on")
  /\ Became(IF machine.power = "off" THEN "booting" ELSE "up")
  /\ blame' = "person"
  /\ UNCHANGED <<st, rec, seen, env, node, pods, now, outage>>

PersonPowersOff ==
  /\ machine.power \in {"booting", "up"} /\ Spend("person_off")
  /\ Became("off")
  /\ blame' = "person"
  /\ UNCHANGED <<st, rec, seen, env, node, pods, now, outage>>

SetPolicy ==
  /\ Spend("policy")
  /\ policy' \in Policies \ {policy}
  /\ UNCHANGED <<st, rec, seen, member, machine, node, pods, now, blame, outage>>

\* A label or a nodeSelector is edited, a pool is created or deleted.
SetMembership ==
  /\ Spend("membership")
  /\ member' \in (SUBSET Pools) \ {member}
  /\ UNCHANGED <<st, rec, seen, policy, machine, node, pods, now, blame, outage>>

\* kubectl cordon and uncordon: spec.unschedulable, never our annotation.
PersonCordons ==
  /\ node.exists /\ ~node.cordoned /\ Spend("cordon")
  /\ node' = [node EXCEPT !.cordoned = TRUE]
  /\ UNCHANGED <<st, rec, seen, env, machine, pods, now, blame, outage>>

PersonUncordons ==
  /\ node.cordoned /\ Spend("uncordon")
  /\ node' = [node EXCEPT !.cordoned = FALSE]
  /\ UNCHANGED <<st, rec, seen, env, machine, pods, now, blame, outage>>

DeleteNode ==
  /\ node.exists /\ ~node.ready /\ Spend("delete_node")
  /\ node' = NoNode
  /\ UNCHANGED <<st, rec, seen, env, machine, pods, now, blame, outage>>

-----------------------------------------------------------------------------
\* A reconcile is short, of either controller: the clock passes at most one
\* unit within it.  The control plane marks a silent Node within NodeGrace.
Tick ==
  /\ now < MaxTime
  /\ rec.pc # "idle" => now = rec.now
  /\ seen # None => now = seen.now
  /\ machine.quiet # None => now - machine.quiet < NodeGrace
  /\ now' = now + 1
  /\ UNCHANGED <<st, rec, seen, env, machine, node, pods, events, blame, outage>>

\* A config that was just created for a machine that is off, or up and Ready.
Init ==
  /\ st = DefaultStatus
  /\ rec = [pc |-> "idle", now |-> 0] /\ seen = None
  /\ policy = "Auto" /\ member = Pools
  /\ \E on \in BOOLEAN :
       /\ machine = [power |-> IF on THEN "up" ELSE "off", stopping |-> FALSE,
                     suspending |-> None, quiet |-> None]
       /\ node = [NoNode EXCEPT !.exists = TRUE, !.ready = on]
  /\ pods = {}
  /\ now = 1 /\ events = 0 /\ blame = "person" /\ outage = FALSE

Controller == \/ Begin \/ HandleReconcile \/ CommandFails \/ CommandLost \/ CommandUnanswered
              \/ CallFails \/ Misread \/ BuildFails \/ ReadFails \/ Patch \/ ApiError \/ Crash
Pool       == PoolPlan \/ PoolDecide
Hardware   == \/ BootDone \/ ShutdownDone \/ SuspendRuns \/ SuspendExpires \/ SelfWake
              \/ NodeReady \/ NodeNotReady \/ PodScheduled \/ PodGone
People     == \/ PersonPowersOn \/ PersonPowersOff \/ SetPolicy \/ SetMembership
              \/ PersonCordons \/ PersonUncordons \/ DeleteNode

Next == Controller \/ Pool \/ Hardware \/ People \/ Tick

Spec == Init /\ [][Next]_vars
-----------------------------------------------------------------------------
(* Properties.                                                             *)

Handled == rec.pc = "act" /\ rec'.pc = "patch"

\* The phase a reconcile has stored or is about to store.
InForce == IF rec.pc = "patch" THEN rec.new.phase ELSE st.phase

\* A machine is safe to stop before the operator moves on: Draining means the
\* Node is cordoned, and PoweringOff means it is cordoned, drained (unless
\* forced) and marked as deliberately off, for as long as the phase lasts.
\* Holds where nobody uncordons or deletes the Node, the marker is written and
\* no reconcile loses its status patch.
SafeToStop ==
  /\ InForce = "Draining" => node.cordoned
  /\ InForce = "PoweringOff" =>
       node.cordoned /\ node.marked /\ (pods = {} \/ ForceAfterDrainTimeout)

\* A boot failure never acts on a later boot: once a stored status has read
\* Off, the recorded failure is not taken for the boot in progress.
OldFailureNeverActs ==
  outage => ~failure_is_current(st)

\* A machine recorded as powered on by hand under LeaveOn is sent no power
\* command at all while powerPolicy is Auto, not even after a failed boot.
LeaveOnRespected ==
  [][(/\ Handled /\ rec.policy = "Auto" /\ ManualPolicy = "LeaveOn"
      /\ rec.old.manual_power_on # None /\ rec'.new.manual_power_on # None)
     => rec'.cmd = None]_vars

\* A machine whose power-on failed is not woken again by a pool before the
\* backoff of that failure is over, whatever decision was on its way.
BackoffRespected ==
  [][(/\ Handled /\ rec.policy = "Auto" /\ rec'.cmd = "PowerOn"
      /\ rec.old.boot_failure # None /\ ~rec.old.boot_failure.left_on)
     => rec.now >= rec.old.boot_failure.time + BootFailureBackoff]_vars

\* PowerOn commands repeated within one decision are RetryAfter apart.
RetrySpacing ==
  [][(/\ Handled /\ rec'.cmd = "PowerOn"
      /\ TimeOfLast(rec.old, {"PowerOn"}) # None
      /\ rec.policy = "Auto"
      /\ rec.old.scaling_decision.time < rec.old.last_power_action.time)
     => rec.now - rec.old.last_power_action.time >= RetryAfter]_vars

\* Power changes the operator made itself are never recorded as manual.
OwnChangesNotManual ==
  [][(Handled /\ (\/ rec'.new.manual_power_on = rec.now
                  \/ rec'.new.manual_power_off = rec.now)) => blame = "person"]_vars

\* No power command for a machine whose Node does not exist.
NoActionWithoutNode ==
  [][(Handled /\ ~rec.node.exists) => rec'.cmd = None]_vars

\* A suspended machine is left asleep: unless it is wanted on, no reconcile
\* sends it a command, whatever the interface reads for it.
SuspendedLeftAlone ==
  [][(/\ Handled /\ machine.power = "asleep"
      /\ desired_target(rec.policy, resolved(rec)) # "On") => rec'.cmd = None]_vars

\* A machine that is up with a Ready Node is cut only when the graceful
\* shutdown it was given has overrun its timeout, and is sent no PowerOn but to
\* call off a power-off, even when the interface misreports it as off.
LiveMachineSafe ==
  [][(Handled /\ machine.power = "up" /\ rec.node.ready) =>
       /\ rec'.cmd = "ForceOff" => /\ rec.old.phase = "PoweringOff"
                                  /\ rec.now - rec.old.phase_since > ShutdownTimeout
       /\ rec'.cmd = "PowerOn" => rec.old.phase \in {"PoweringOff", "Standby"}]_vars

\* A machine we turned off or suspended carries the powered-off marker, so that
\* node fencing leaves it alone.  An interleaving can break it in many ways: a
\* policy change during the shutdown, a lost patch or a failed call, a Node that
\* is created anew, a person who switches the machine on and off, or a drain
\* that fails while an earlier shutdown is still running.  LifecycleActions
\* names the case in which none of them is possible (Steady).
QuietIsMarked ==
  (machine.power \in {"off", "asleep"} /\ blame = "us" /\ node.exists) => node.marked
=============================================================================
