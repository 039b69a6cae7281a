# Verification of kube-hardware-autoscaler

TLA+ specifications of the operator that powers bare-metal Kubernetes nodes on and off, TLC
models of them, and TLAPS proofs. Paths are those of the repository (`src/controller/mod.rs`,
`docs/setup-guide.md`, ...).

## 1. The system

| Component | State | Operations | Interacts with |
|---|---|---|---|
| Power state machine of a machine, `src/controller/node_power_management_config.rs` | `NodePowerManagementConfig.status`: phase, readings, decision, last action, standby, boot-failure and manual-change records | `reconcile`: gates, manual changes, boot failures, `ensure_on`, `ensure_off`, `drain`, `observe`, one merge patch at the end | the Node object, pods, the driver chain, the pool controller (through `scalingDecision`) |
| Pool controller, `src/controller/node_scaling_pool.rs` | `NodeScalingPool.status`: `lastScaleUpTime`, `unneededSince`, `releasable` | `reconcile`: snapshot of the caches, plan, one patch per decision, status patch | machines (writes `scalingDecision`), other pools (reads `releasable`) |
| Scaling plan, `src/scaling.rs` | none | `plan`: bin packing up, candidates and trial placement down | pool controller |
| Node and status helpers, `src/controller/mod.rs` | annotations and `unschedulable` of the Node | `cordon`, `uncordon_if_ours`, `mark_powered_off`, `clear_powered_off`, `patch_status_diff` | both controllers, people with kubectl |
| Pool membership, `src/membership.rs` | none | `resolve`: the pools that select a Node | both controllers |
| Driver chain, `src/drivers/chain.rs`, `mod.rs` | none; calls it has given up may still act | build the interfaces, `power_state` and `act` with fallback from one to the next, a timeout per call | the power state machine, the `power` command |
| Interface drivers, `src/drivers/` | none (I/O to BMCs, KVMs, Wake-on-LAN, ping) | read the state, send a command; the button drivers read first and then press | devices, the machine |
| In-band driver, `src/drivers/inband.rs` | the host command pod of a Node | run, cancel, probe; the pod compares boot ids | the machine itself |
| Identity gate, `src/identity.rs`, `src/controller/mod.rs` | a cache of identity results, per resource and generation | compare the UUID an interface reports with the Node's, disable the interfaces of other machines | driver chain, Node |
| Admission webhook, `src/webhook.rs` | a Secret with the certificates, the `ValidatingWebhookConfiguration` | issue or reuse the certificate, serve, register, review pools, unregister | API server, Node cache |
| Operator process, `src/main.rs` | its stage of starting and stopping | start, SIGTERM, the `power` command | all of the above |
| Wake service `src/wake.rs`, metrics | none | magic packets, counters | LAN |

What is hard here:

- **Two controllers write one status.** The pool controller writes `scalingDecision` with its own
  patch while a reconcile of the machine is in flight; the machine patches only the fields it
  changed (`merge_diff`).
- **Stale observation.** The phase is compared with a Node that may read Ready for a while after its
  machine is off, and with an interface that may read a suspended machine as On, lie, or not answer.
- **Several calls, one status patch.** A reconcile cordons, evicts, marks and commands before it
  stores why. A crash or an API error in between leaves the world ahead of the status.
- **Commands take time and may be refused, lost, or overtaken**: shutdowns run for minutes, a suspend
  is a pod that may run late, people press buttons.
- **A call that times out is not undone.** The chain goes on to the next interface while the first
  may still act: a blocking IPMI session, a request that was sent, a relay or host command pod.
- **The operator registers itself in front of the API server** (`failurePolicy: Fail`) and must
  never leave pool changes blocked behind a certificate nobody serves.
- **Overlapping pools** plan concurrently on snapshots that do not contain each other's decisions.

Properties that make each part correct: a machine is stopped only on a cordoned, drained, marked
Node; a machine that is up is never cut before its shutdown timeout; manual changes are recognised,
and only those; failed boots are backed off and never confused with later boots; a pool stays
between `minOnline` and `maxOnline`, honours its hold, moves pods only where there is room,
never powers off a shared machine without the other pools' agreement, and serves a pending pod in
the end; a machine moves only the way a command that may still act asked for; an interface that
leads to another machine is not used for longer than a cached identity lives; an operation fails
only when all its interfaces do; a pool change is refused only for a reason.

## 2. Modules

| Module | Models |
|---|---|
| `MachineStatus` | the status record and the pure functions both controllers decide with |
| `Reconcile` (extends it) | what one reconcile of a machine decides, as a function of what it read: `handle` returns the new status, the command and the Node, pod and suspend-pod changes |
| `Lifecycle` (extends it) | one machine over time: `Begin` / `Handle` / `Patch` of its controller, the pool's decisions, hardware, kubelet, scheduler, people, faults |
| `ScalingPlan` | `plan()` of `scaling.rs` |
| `Autoscaler` (extends it) | pools, possibly overlapping, over a fleet and pods: `Plan`, `Decide` one by one, `PatchPool`, failures, machines that carry out decisions |
| `AutoscalerMC` | the fleets, pods and pool settings of the pool runs |
| `PowerPort` | what the controller may rely on when it gives a command: the abstract specification of a machine's interfaces |
| `PowerChain` | the chain, the drivers, the identity gate and its cache, the `power` command, over a machine that moves meanwhile; implements `PowerPort` |
| `PowerChainMC` | the chains of the chain runs |
| `Webhook` | the operator process and its admission webhook |
| `ReconcileProofs` | lemmas about what one reconcile decides |
| `LifecycleProofs`, `LifecycleActions` | theorems about `Lifecycle`: types and safe stops; what its steps may do |
| `AutoscalerProofs` | theorems about `Autoscaler`, with the lemmas about `plan()` |
| `PowerChainProofs`, `PowerChainSafety`, `PowerChainRefines` | theorems about `PowerChain`: types; pod, fallback, exposure; refinement of `PowerPort` |
| `WebhookProofs` | theorems about `Webhook` |

Definitions keep the names of the functions they model; `PROJECT.json` gives the lines of each.
Operators that say *Mutant* in their comment are plausible bugs: put in the place of the
definition after them, each makes a run fail. Nothing else uses them.

### Lifecycle

`st` is the stored status. `rec` is the reconcile in progress with its copies: status, Node,
policy and membership are read in `Begin`, the power state and pods in `Handle`, and `Patch`
merges the changed fields into whatever `st` is by then. All calls of a reconcile happen in one
step, `Handle`: what falls between them and the patch (the clock, a pool's write, a person, a
crash) is a step between `Handle` and `Patch`. `seen` is a decision a pool has planned and not
yet written. `machine` is the hardware (`off`, `booting`, `up`, `asleep`), with a shutdown or a
suspend pod in flight; `node` the Node object; `pods` the classes of pods on it as `drain_class`
tells them apart (evictable, terminating, blocking).

Faults and interventions are kinds of `Events`, and each run says which it admits: manual power
changes, policy and label edits, kubectl cordon and uncordon, a deleted Node, a silent kubelet,
a machine that wakes by itself, commands refused (`act_fails`), lost (`act_lost`) or carried out
without an answer (`act_unanswered`), best-effort
calls that fail and are only logged (`call_fails`: the marker and the deletion of the suspend
pod), interfaces that do not answer, cannot be built, or lie, API errors, crashes. `blame`
and `outage` are history variables for the properties; no action reads them.

Abstractions: one machine; the effective policies and timeouts (`effective_*`) are constants; the
sleep probe answers nondeterministically; the lease of a running kubelet is fresh and that of a
stopped one may be; in dry-run mode nothing happens and it is left out; the identity gate passes
(`PowerChain` has it); messages, conditions, events and metrics are left out because no code path reads
them back (but for `PowerStateConsistent`, which the pool controller reads: the field
`consistent`).

Two assumptions on time. A reconcile lasts at most one unit of the clock (`Tick`), and two
reconciles of a machine are at least one unit apart: times in the code are compared with
durations of seconds and more, reconciles take less. And the control plane marks the Node of a
silent kubelet within `NodeGrace`.

### Autoscaler

`fleet` has the phase and decision of every machine, `where` the machine of every pod, `pool` the
stored pool statuses, `rec` the pool reconciles in progress; `woke` and `idle_since` are history
(since when every plan a pool has stored found a machine unneeded). One number stands
for CPU, memory and pod count; the nodes that admit a pod are a set. The machines are
`Lifecycle` seen from afar: they carry out decisions without faults. A pool reads its snapshot at
once and fresh; its writes are separate steps and any may be the last (`ReconcileFails`). The
clock stands still during a pool's reconcile.

The last write, `PatchPool`, is a JSON merge patch (`patch_status_diff`), and `unneededSince` is a
map: the API server merges it entry by entry. An entry that the new map lacks stays, unless the new
map is empty and the field is removed (`merged`). The next plan reads the stored map, stale entries
included; section 3 shows what follows.

### PowerChain

One use of the chain is a run of an actor: the `operator` (a reconcile) or the `cli` (the `power`
command, without gates). `Start` builds the interfaces that can be built; `Identify` takes the
identity results from the cache or asks every interface, and disables those of another machine;
`Status` asks one interface after the other for the power state; a command walks them again, two
steps for each: `Prepare` (what the driver reads first, the pod it withdraws) and `Send`. Between
any two steps the machine boots, stops, is rebooted or switched by a person, the kubelet registers
or reports, an interface breaks, is repaired, or comes to lead to another machine. An interface is
`ok`, `unbuildable` (a missing secret), `down` (an error), or `mute`: it takes the call, the chain
times out, and the call acts at once, later (`late`) or never. `since` (when a check could first
have found that an interface leads elsewhere) and `steady` (the interfaces that answered since the
run began) are history, as is `asked` in the host command pod.

`PowerPort` has no interfaces: an order is given and answered, and what has been asked and not
answered for certain may act. `PowerChain` maps `asked` to the commands of the runs, of the late
calls and of the pod.

Abstractions: UUIDs, their byte orders and placeholders are this machine, another, or none;
sessions, logins, retries within a client and wire formats are the four healths; the Node that the
kubelet registers reports a boot id, and only with the fault `bare_node` is there one, not ready, that
reports none (the host command pod then has nothing to compare, `SameBoot`); edits of the resource (a new generation empties the cache) are left out, as are
`power --via` and `power status`; suspend is in `Lifecycle`. What the controller wants is any
command that its reading allows (`PowerChoices`): of a machine that reads on also `PowerOn`, for a
standby that reads on, of one that reads off also `ForceOff`, and without a Node the commands of the
boot failure handler, which comes before that gate. `Implements` is about chains without a button that toggles: with
one it does not hold, which is `toggle_press`.

### Webhook

`proc` is the process with the stage of `run()` it is in, from `down` over `sync` (caches), `read`
and `store` (`ensure_tls`, its optimistic write and its retries), `serve`, `register` and `install`
(the SIGTERM handler) to `running`, and over `unregister` to `exit`. `secret` and `config` are the
two objects in the cluster; certificates are fresh, ending (in the last 30 days), expired, or
foreign (other names, unreadable). `doomed` is a process that was sent SIGTERM before its handler
existed and will be killed. `Edit` is a pool change as the API server treats it, `seen` the
process's Node cache. `left` is history: how the last process ended, until the next registers.
Left out: the warnings of an admitted pool, TLS itself, the owner reference. One process at a
time, because the chart's Deployment is `Recreate`.

## 3. Runs

Runs that pass:

| Run | Shows |
|---|---|
| `lifecycle_shutdown` | full shutdowns under one intervention or fault: `TypeOK`, `SafeToStop`, `QuietIsMarked`, `OldFailureNeverActs`, `LeaveOnRespected`, `BackoffRespected`, `RetrySpacing` |
| `lifecycle_standby` | suspends on an interface that reads a suspended machine as On: `SafeToStop`, `SuspendedLeftAlone` |
| `lifecycle_faults` | crashes, API errors, failed helper calls, misreadings, policy changes, a deleted or uncordoned Node, mode Auto, forced drains: `OldFailureNeverActs`, `LiveMachineSafe` |
| `pool_limits` | one pool, any of its writes failing: `TypeOK`, `MinOnlineKept`, `MaxOnlineKept`, `RoomKept`, and under fairness `PendingServed` |
| `pool_shared` | two overlapping pools: `AllPoolsAgree` (failures between their writes are in the theorem only) |
| `chain_commands` | ping, BMC, KVM and Wake-on-LAN with relays, used by the operator and by hand, calls that act late, a reboot, a Node that may report no boot id: `StalePodHarmless` (for the pods that carry a boot id), and the refinement `Implements` (`PowerChain` implements `PowerPort`) |
| `chain_identity` | a Redfish BMC and a DC switch that break, lose their secret or lead to another machine, a Node that comes and goes: `TypeOK`, `ExposureBounded`, `FallbackReached`, and under fairness `Answered` |
| `webhook` | crashes, signals, API errors, a Secret others write, certificates that age: `TypeOK`, `RefusedForCause`, and under fairness `Unblocked` |

What the runs leave out on purpose, because the property then fails for a reason given below:
policy changes from `QuietIsMarked`, failed marker calls from it and from `SafeToStop`, crashes and
lost patches from `SafeToStop`, refused commands from `SuspendedLeftAlone`, two pools from the
limits, pods without a boot id from `StalePodHarmless`, a `maxNodesPerStep` above 1 for powering off from `RoomKept`, toggling buttons from
`Implements`.

Runs that end in a violation. Each checks one sentence of the repository's documentation or
comments (quoted under `findings` in `PROJECT.json`) and TLC returns a behaviour of the code that
contradicts it:

| Run | What happens |
|---|---|
| `stale_ready` | a machine the operator shut down is recorded as powered on by hand, because its Node still reads Ready when the phase has become Off |
| `node_gate` | the boot failure handler powers off a machine whose Node is gone: it runs before the Node gate |
| `toggle_press` | a power-on that timed out at the BMC takes effect between the reading and the press of the KVM driver, next in the chain: the button is pressed on a machine that is starting |
| `pool_hold` | a reconcile that fails after writing a power-on decision forgets it, and the hold never starts |

Further behaviours of the models worth a look, not kept as runs:

- a machine wanted back during its shutdown is declared On and uncordoned, because it still reads On
  and Ready; the suspend pod of a standby is left in place the same way (add `"policy"` to the
  events of `LifecycleShutdown.cfg`: `QuietIsMarked` fails);
- with no event at all, a machine that the operator turned off ends up without the powered-off
  marker: its boot overruns the timeout, the shutdown for the boot failure begins, the Node becomes
  Ready late and the phase On, the pool wants the machine off, the drain of that shutdown times out,
  the failed drain makes the phase On again and clears the marker, and then the first shutdown
  completes (`BootTimeout` 1, `Events` empty and `MaxTime` 13 in `LifecycleShutdown.cfg`:
  `QuietIsMarked` fails). It takes a shutdown slower than a boot and a drain. With
  `ForceAfterDrainTimeout` it cannot happen; with powerOffMode `Standby` it can all the same;
- the marker is lost as well where a person switches the machine off and on again during its life
  (`"person_on"` and `"person_off"`, `MaxEvents` 2, `BootTimeout` 3, `MaxTime` 9 and
  `ForceAfterDrainTimeout`), by one `"delete_node"`, `"call_fails"` or `"policy"`, and by at most
  two of `"misread"`, `"api_error"` or `"crash"` (with `BootTimeout` 1, `MaxTime` 9 and
  `ForceAfterDrainTimeout`): a Node created anew has no marker, and a shutdown that the status no
  longer tells of is taken for a machine that is on;
- the operator dies between uncordoning and storing the aborted drain; the machine is then powered
  off uncordoned (add `"crash"`: `SafeToStop` fails);
- two machines are unneeded; one is busy at the next plan and idle at the one after. Its
  `unneededSince` survives the merge patch beside that of the other machine, and it is powered off
  although it was not unneeded for `unneededSeconds`: `src/crd.rs` says "How long a node must be
  continuously unneeded before it is powered off." (line 885) and "Since when each member [...] has
  been continuously unneeded." (line 1020). In `PoolShared.cfg` take the pool a alone, `SmallPods`,
  `MaxTime` 3 and `Unneeded` 2: `UnneededContinuously` fails after 13 states, and
  holds if `merged` returns the new map;
- two overlapping pools act on the same `releasable` lists and leave both below `minOnline`, or
  exceed `maxOnline`: with `AllMembers`, `SmallPods` and `MaxTime` 3 in `PoolShared.cfg`,
  `MinOnlineKept` fails for `MinOnline` 1 when both machines are on at the start, and `MaxOnlineKept`
  for `MaxOnline` 1 when none is;
- while a relevant pod is pending nothing is powered off (`blocked_reason` in `src/scaling.rs`), and at
  `maxOnline` nothing is powered on: a pod that only machines that are off admit waits for ever beside
  an idle machine, kept on because the pod is pending (let y run on m2 and m3 only in
  `PoolLimits.cfg`: `PendingServed` fails);
- with `maxNodesPerStep` 2 the pods of the first machine are moved, on paper, to the second one
  powered off (three machines on, each with a pod of size 1, pool `b`, `MaxOnline` 3, `DownStep` 2,
  `Unneeded` 1 and `MaxTime` 3 in `PoolLimits.cfg`: `RoomKept` fails);
- a host command pod for a Node that reports no boot id compares nothing (`EXPECTED_BOOT_ID` is empty,
  `src/drivers/inband.rs` lines 49 and 192-197): asked for in one boot, it shuts down the next, although
  lines 9-10 say that "a stale pod can never shut down a freshly booted host" (drop the condition
  `pod.boot # NoBootId` from `StalePodHarmless` and take `MaxFaults` 2 in `ChainCommands.cfg`: the
  property fails);
- an identity that could not be compared because the Node did not exist is cached as Unverifiable
  like any answer: when the Node appears, a wrong interface is used for up to ten minutes
  (`README.md` line 58 says it is disabled); `ExposureBounded` says how long;
- a SIGTERM before its handler is installed is lost: the operator registers, is killed, and leaves
  its configuration behind (`docs/setup-guide.md` lines 874-875); `RefusedForCause` names the case;
- a machine powered off by hand while its Node still reads Ready is woken again by the older
  decision;
- a person's cordon made between the operator's read of the Node and its own cordon patch is taken
  for the operator's and removed later;
- a refused suspend that is retried is declared failed at once, because the settle time runs from the
  start of the phase;
- a shutdown longer than `OFF_GRACE_SECS` is reported as a lying interface;
- a failed call to mark the Node is logged and the machine powered off all the same.

### Bounds

Durations are 0 to 4 units: only their order matters to the comparisons, and the configurations
keep the orders that make each branch reachable (`RetryAfter` 2, so that reconciles fall within it, and
`PowerOnTimeout` 4, so that a power-on is repeated before it is given up, in `lifecycle_shutdown`;
`StandbySettle` at most `ShutdownTimeout`; `SpontaneousWake` 3 so that a wake can fall on either side). `MaxTime` 6 to 9 lets a machine
boot, fail, be backed off and boot again, or drain, be shut down, forced off or suspended, and be
woken, in one behaviour;
`MaxEvents` 1 puts one intervention or fault at every point of such a
behaviour. One pool name is enough in `Lifecycle`, where pools only stamp decisions;
membership may still become empty. `NewPods` has the evictable class only: a blocking pod differs
from an evictable one that a disruption budget protects only in that it is never evicted, which the
refused eviction already gives.

The pool runs have two or three machines, each of the size of the largest pod, two pods and one pool, but for
`pool_shared`, which has one pod and two pools. `pool_limits` sets every duration to 0 and `MaxTime` 0: limits do not
depend on time, and this way every machine is always old enough to go. It starts with every machine
off: the pods and `minOnline` wake them, and they are powered off and woken again. In the others the
clock covers `unneededSeconds` and the hold: within the one unit of `pool_shared` a machine is found
unneeded, needed, unneeded again, agreed on and powered off, with an entry of the first spell, and
woken again.

`chain_commands` has two actors at once, one silent device or one reboot at any point or a Node
without a boot id at the start (which counts as a fault), and three
boots, so that a call or pod of one boot can meet the next two; no identity result expires in it and
its clock stands still. `chain_identity` has two faults (an interface rewired and a Node deleted, or
broken), an identity lifetime of 1 and a clock of 2, so that a result is made, used stale and
expires. The calls of a run of the chain last at most `RunLimit`. `webhook` has three faults, as many
as the tries to store the certificate, so that every try can meet a conflict, and two names, so that
a pool can keep one and add another.

Every behaviour of `Lifecycle`, `Autoscaler` and `PowerChain` stops when the clock, the boots and the
events do, and an operator with nothing to do waits, so deadlock is not checked.

### Fairness

- `PowerChain!FairSpec`: weak fairness of the steps of a run. Every call is wrapped in a tokio
  timeout, so it ends; that the interfaces answer is not assumed.
- `Webhook!FairSpec`: weak fairness of the process (its stages, and the kubelet starting it again),
  of the kill at the end of the grace period, and of the watch behind the Node cache. Faults are
  bounded: `Unblocked` says that the operator recovers once they cease.
- `Autoscaler!FairSpec`: a pool is reconciled again and again (the controller requeues) and its
  reconcile goes on, machines carry out decisions, drains evict: weak fairness. The scheduler binds a
  pod with strong fairness: a machine that could hold it may be taken away again before it is bound,
  and the hold after a power-on is what gives the scheduler its time. `PendingServed` is stated for
  pods that every machine can hold (section 3 has what happens to one that is tied to some), with `maxOnline` large enough for all the pods together, and
  checked for one pool: whether two overlapping pools can decide against each other for ever would
  take a clock that never stops, and is not checked.

`Lifecycle` has no liveness property: its clock is bounded, and what should happen eventually there
(a drain that ends, a retry after a backoff) waits for durations.

## 4. Proofs

A theorem is about every value of the constants: all durations, policies, bounds, sets of pools,
interfaces, fleets and events. The constants are assumed only to be of their types, with the `None`
values distinct from the values they stand beside (`DurationAssumption`, `SettingAssumption`,
`EnvironmentAssumption`, `ChainAssumption`, `WebhookAssumption`, `FleetAssumption`,
`PoolAssumption`, `SizeAssumption`, and the `NoneAssumption` of three modules). A further hypothesis
is stated in the theorem that needs it.

| Theorem | States | Further hypothesis |
|---|---|---|
| `LifecycleProofs!TypeCorrect` | `[]TypeOK` | |
| `LifecycleProofs!StopsOnlySafely` | `[]SafeToStop` | `Calm` |
| `LifecycleActions!OldFailureRests` | `[]OldFailureNeverActs` | |
| `LifecycleActions!HandsOff` | `LeaveOnRespected` | `AutoOnly` |
| `LifecycleActions!GuardedWhenUp` | `LiveMachineGuarded` | |
| `LifecycleActions!LiveMachine` | `LiveMachineSafe` | no `"misread"` |
| `LifecycleActions!Marked` | `[]QuietIsMarked` | `Steady` |
| `LifecycleActions!BackoffKept` | `BackoffRespected` | `Patient` |
| `PowerChainProofs!TypeCorrect` | `[]TypeOK` | |
| `PowerChainSafety!PodHarmless` | `StalePodHarmless` | |
| `PowerChainSafety!FallsBack` | `FallbackReached` | |
| `PowerChainSafety!WrongWiringBounded` | `ExposureBounded` | |
| `PowerChainRefines!ImplementsPort` | `Implements` | `NobodyToggles` |
| `WebhookProofs!TypeCorrect` | `[]TypeOK` | |
| `WebhookProofs!RefusesForCause` | `[]RefusedForCause` | |
| `AutoscalerProofs!TypeCorrect` | `[]TypeOK` | |
| `AutoscalerProofs!PoolsAgree` | `AllPoolsAgree` | |
| `AutoscalerProofs!WithinMax` | `[]MaxOnlineKept` | `Apart`, `StartsWithin` |
| `AutoscalerProofs!WithinMin` | `MinOnlineKept` | `Apart` |
| `AutoscalerProofs!HoldUnlessFailure` | `HoldKept` | `Apart`, `StartsWithin`, `MaxFailures = 0` |
| `AutoscalerProofs!EachRoom` | `EachHasRoom` | |
| `AutoscalerProofs!OneAtATimeRoom` | `RoomKept` | `Apart`, `StartsWithin`, `down_step <= 1` |

What the hypotheses say, and what happens without them:

- `Calm`: nobody uncordons or deletes the Node, the marker is written, and no reconcile loses its
  status patch. The aborted drain of section 3 is what happens otherwise.
- `AutoOnly`: `powerPolicy` stays `Auto` (the property is about that policy), and the slack within
  which a boot still counts as the operator's own is at most the boot timeout. The slack is a fixed
  120 s in the code, and `bootTimeoutSeconds` has no minimum; with `BootTimeout` 1 and `OwnOnSlack`
  4 TLC finds a machine that was switched on by hand, soon after a lost `PowerOn`, taken for a boot
  of ours and powered off.
- no `"misread"`: an interface that reads Off for a live machine is believed for `OffGrace` after a
  power-off command. `GuardedWhenUp` says that nothing else is possible, for every value of the
  constants; that `LiveMachineSafe` survives misreadings in `lifecycle_faults` depends on its
  durations.
- `Steady`: the machine is shut down and never suspended, a drain that fails is forced, the policy,
  the pools' selection and the Node stay, nobody switches the machine on, and no reading lies and no
  call to the API server fails. Commands and readings may still be lost or fail, and the machine may
  be switched off by hand, cordoned and uncordoned. Section 3 lists the behaviours found without it.
  For the pools' selection alone TLC finds none (up to three events and 8 units of time): the proof
  uses that a stored decision stays in force.
- `Patient`: the machine is shut down and never suspended, a drain that fails is forced, the policy
  and the pools' selection stay, and neither the boot timeout nor the power-on timeout is below 2,
  where two reconciles are 1 apart (at most 60 s in the code, where both timeouts default to 1200 s).
  Every fault and every other intervention is allowed. The hypothesis is sufficient; that it is
  necessary is not shown: with any one part dropped, TLC finds no `PowerOn` within the backoff (up to
  three events of a few kinds, 8 units of time), and `lifecycle_shutdown` checks the property without
  the parts on drains and on the pools' selection.
- `NobodyToggles`: see `toggle_press`.
- `PodHarmless` has no further hypothesis: that the pod carries a boot id is part of
  `StalePodHarmless`. Section 3 has what happens to a pod without one.
- `Apart` (no two pools share a machine): see the overlapping pools of section 3. `StartsWithin`: at
  the start no pool is above `maxOnline`.
- `MaxFailures = 0`: see `pool_hold`. The two together say that a reconcile that fails between a
  power-on decision and its status patch is the one way in which such a pool loses its hold.
- `down_step <= 1`, the default of `maxNodesPerStep`: two machines taken off in one step may each
  count on the same room, see section 3. `EachHasRoom` is what is left without it.

### The lifecycle

`SafeToStop` is not inductive. A reconcile decides on copies: the Node and the status read in
`Begin`. The inductive invariant `StopInv` adds `CopiesHold`: the Node exists, a cordon seen in the
copy is still there, and the phase in the copy is the stored one (only `Patch` changes it).
`ReconcileProofs` holds the lemmas about the pure part: every operator returns a well-typed outcome,
and `handle` enters Draining only with a cordon (made or seen), and PoweringOff only from Draining,
marked, and with no pods left unless forced (`PhaseSafe`). `HandledStop` then joins the two, and
`NextStop` has one case per action.

`LifecycleActions` rests on `RecordsInv`. No failure or manual power-on is recorded for a later time
than that of the last reconcile; PoweringOn is entered after the failure on record, and in Off no
boot is being timed (`Boots`); and once an Off reading has been stored (`outage`) the failure on
record is not that of the boot in progress (`Fresh`). It says so of the stored status and of the
status a reconcile is about to patch over it (`Pending`), because crashes and a pool's write fall
between the two. `HandInv` adds that, under LeaveOn, no `PowerOn`, no boot and no booting phase of
ours is on record since the machine was turned on by hand (`ByHand`), and `NodeInv` that a Ready
Node exists, in the cluster and in the copy.

`QuietIsMarked` looks at a machine that is off, and what takes its marker away is decided long
before, from a copy of the status. Its invariant `QuietInv` therefore also speaks of what is still
to come: of the status as it will be once the reconcile in progress has stored its result (`After`).
`MarkInv`: a machine is marked while we shut it down, while it is off because of us, and in each
state from which it will be turned off without another look at the marker (PoweringOff, a boot
failure that is to end in Off). `HaltInv`: while the OS shuts down nobody wants the machine on, so no
reconcile takes it for one that is wanted and clears the marker. That a decision to turn it on
cannot come up meanwhile rests on `OffInv` (the phase Off is recorded only of a machine that is off),
`UpInv` (a decision to turn on that the reconcile in progress has not seen is of a machine in Off,
and no other decision contradicts it), `DownInv` (a decision to turn off is of no machine that a
pool wants on) and `PatchInv` (what a reconcile stores of the decision it has read). TLC checked the
conjuncts on four settings of the durations before they were proved.

`BackoffRespected` is about two controllers that act on copies of different age. The pool looks at
the backoff when it plans; the failure may be recorded after that, by a reconcile that has not seen
the plan, and the `PowerOn` is sent by a third. `BackoffInv` says why no such order exists. `WakeInv`
is the property carried back: a machine that is wanted on, is about to be (`Upcoming`), or will be
after the patch in progress, is in no backoff. A new failure is always stored without a decision, so
only a decision that its reconcile has not read can break this. For that case `ComingInv` and
`OlderInv` bound the age of what the reconcile has read: whatever it could take for the start of a
boot or of a power-on is at most two units old, hence `Patient`. The bound comes from `ClockInv`
(neither controller spends more than one unit on what it has read), from `FailInv` (a failure
recorded of a machine in Off is that of a power-on) and from `DoneInv` (a decision to turn off a
machine in Off replaces only one to turn it on that is just as young). The lemma `HandleFailure` of
`ReconcileProofs` gives the conditions under which a reconcile records a failure. TLC checked the
conjuncts in full with one and with two events of every allowed kind before they were proved.

### The chain

`PowerChainProofs!TypeInv` strengthens `TypeOK` by what a step relies on: a run that gives a command
has one, and has an interface and a signal when it is about to send (`Underway`). On top of it, each
property has an invariant of its own:

- `BootIds`: a pod, or the signal that creates one, carries a boot id not newer than the boot it was
  asked in, which is not newer than the present one. The pod compares it and stops nothing newer.
- `WalkComplete`: an interface that has answered since the run began, and that the gate left in, is
  either still ahead of the walk or cannot carry out the command.
- `GateInv`: what the cached results do not report could be found out only since they were obtained;
  an interface in use that could be found out either did not answer the check or is used for less
  than the lifetime of a result plus the run; a run is short. It holds with and without a Node:
  without one no check could find an interface out, so one found out since is younger than the run.
- `PortInv`: whatever may still act carries the command that `PowerPort` counts it under. The
  refinement then has one lemma per kind of step: each maps to a step of the port or to a stutter.

### The webhook

`HasCertificate`: from the second half of `ensure_tls` on the process has a certificate, never a
foreign one. `Accounted` relates the two ends of a refusal: from registering to the end of its
shutdown, the process is the one that the configuration points to, and at any other time a
configuration is what a process left that ended without its shutdown. `RefusedForCause` follows by
cases on who should answer.

### The pools

`plan()` is made of folds over sequences and sets. Their recursion cannot be reasoned about by the
library's induction theorems, so `AutoscalerProofs` shows once, by the least-number principle, that
the function a fold is defined by exists (`FoldExists`) and that what every step keeps holds of its
value (`FoldStays`). On these rest the facts about `plan()`: its types, that power-ons and
power-offs are never planned together, that the machines it opens are no more than `maxOnline`
leaves, and that those it removes leave `minOnline` on, are held by no other pool, and are planned
only when the hold is over. The invariants carry them to the later steps of the reconcile that wrote
them: `AgreedInv` (a `releasable` list, stored or about to be, names only machines with an
`unneededSince` that is old enough, and the stored one only machines that the last plan found
unneeded), `AllowedInv` (the decisions still to be written stay within the limits, counted from the
machines on at present) and `HoldInv` (each power-on written is recorded or about to be).

The room for the pods needs the placement itself. A trial of `try_remove` moves the pods of one
machine in decreasing order; what each of its moves keeps is that the pods moved so far have one
assignment to machines that admit them, and that the free room of each is what the pods assigned to
it leave (`Placed`). Since the decreasing order is a bijection with the pods (`Shows`), a trial that
succeeds assigns them all. A later removal can only take room away, so each machine planned off
keeps its assignment (`PlanPlaces`). To read the room of the snapshot as room in the fleet,
`RoomInv` says that the pods of a machine never exceed it.

`AllPoolsAgree` says two things of each other pool that selects a machine planned off: the last plan
that the pool stored found the machine unneeded, and its `unneededSince` is the pool's own
`unneededSeconds` ago. It does not say that the machine was unneeded all that time, which is false
even of a single pool (section 3).

### Only model-checked

- Liveness (`Answered`, `Unblocked`, `PendingServed`) and whatever needs ENABLED: out of reach of
  the provers.
- `SuspendedLeftAlone` and `RetrySpacing`: they hold for the relations among durations and events
  that their runs set, and those relations are not separated from the rest. `RetrySpacing`, for one,
  needs the time in which a Node goes NotReady to be short against the retry interval: an
  inconsistent reading sets the phase to Off, and the next reconcile powers on at once.

## 5. Not modelled

- The devices' protocols, sessions and logins, and the packets of the wake service: I/O, of which
  `PowerChain` has the outcomes.
- `power --via` and `power status`, metrics, logging.
- Taints (`clear_powered_off` rewrites the list); label, affinity and toleration matching (a pod
  carries the set of nodes that admit it); quantity parsing.
- Text: reasons, messages, warnings, and the decision log with its deduplication (which drops repeated
  `NoAction` entries only).
- In `Autoscaler`: lagging caches, blocking pods, devices that register late, manual power-ons, drain
  failures and nodes outside every pool. `ScalingPlan` has them all; the snapshots of `Autoscaler`
  do not vary them.

## 6. Plan

In order of importance.

1. `MachineStatus`, `Reconcile`, `Lifecycle`, with the safety runs above. *Done.*
2. Proofs of `TypeOK` and `SafeToStop`. *Done.*
3. `ScalingPlan`, `Autoscaler`, single and overlapping pools. *Done.*
4. The disagreements met on the way, as violation runs. *Done.*
5. `PowerPort` and `PowerChain`: fallback, identity gate with its cache, drivers, refinement. *Done.*
6. `Webhook`: the operator process and its registration. *Done.*
7. Liveness of commands, of the webhook and of pending pods. *Done.*
8. Proofs for `Webhook`, `PowerChain` (with its refinement), `Autoscaler`, and the action
   properties of `Lifecycle` that hold for every value of the constants. *Done*; next are
   `RetrySpacing` and `SuspendedLeftAlone` under stated relations among durations.
9. Lagging caches and richer snapshots in `Autoscaler`; `plan` checked alone over small snapshots
   against a reference definition.
10. `Autoscaler`'s machine actions shown to be an abstraction of `Lifecycle`.
