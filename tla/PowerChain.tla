----------------------------- MODULE PowerChain -----------------------------
(***************************************************************************)
(* How a machine is reached: its power interfaces in their order of        *)
(* fallback (src/drivers/chain.rs), the drivers behind them                *)
(* (src/drivers/*.rs), the check that an interface controls the Node's     *)
(* machine and the cache of its results (src/identity.rs,                  *)
(* src/controller/mod.rs, gate 3 of the reconcile), and the `power`        *)
(* command of src/main.rs, which uses the same chain without the gates.    *)
(*                                                                         *)
(* One use of the chain is a run: Start builds the interfaces, Identify    *)
(* disables those of another machine, Status walks the interfaces until    *)
(* one tells the power state, and a command walks them until one accepts   *)
(* it, with two calls per interface: Prepare (what the driver looks at     *)
(* first) and Send.  The machine, its kubelet, the wiring and the          *)
(* interfaces themselves change between any two calls, and a call that     *)
(* timed out may still act later.                                          *)
(***************************************************************************)
EXTENDS Integers, Sequences, FiniteSets, FiniteSetsExt, Functions

CONSTANTS
  None,
  Chain,       \* spec.powerInterfaces: a sequence of [label, driver, actions]
  Placeholder, \* interfaces whose board reports a placeholder UUID
  PingAttempts,\* the probes of a ping
  Relayed,     \* wakeOnLan interfaces that also wake through relay pods
  Actors,      \* who uses the chain: the "operator", the `power` command ("cli")
  IdentityTTL, \* IDENTITY_TTL
  RunLimit,    \* the timeouts of all the calls of a run
  Faults,      \* kinds of faults a run of the model allows
  MaxFaults,   \* bound on how many of them happen
  MaxBoots,    \* bound on the boots after which no run is started
  MaxTime      \* bound on the clock

Interfaces == DOMAIN Chain

Drivers == {"ipmi", "redfish", "pikvm", "jetkvm_atx", "jetkvm_dc", "nanokvm",
            "wakeOnLan", "ping"}

FaultKinds == {"unbuildable", "down", "mute", "rewire", "reboot", "person", "delete_node", "bare_node"}

ASSUME ChainAssumption ==
  /\ Chain \in Seq(Range(Chain))
  /\ \A i \in Interfaces : /\ Chain[i].driver \in Drivers
                           /\ Chain[i].actions \subseteq {"Status", "PowerOn", "PowerOff"}
  /\ Placeholder \subseteq Interfaces /\ Relayed \subseteq Interfaces
  /\ Actors \subseteq {"operator", "cli"}
  /\ Faults \subseteq FaultKinds
  /\ PingAttempts \in Nat \ {0} /\ IdentityTTL \in Nat \ {0}
  /\ {RunLimit, MaxFaults, MaxBoots, MaxTime} \subseteq Nat

VARIABLES
  machine,  \* the Node's machine: its power and how often it has booted
  node,     \* the Node object: whether it exists, is Ready, and its boot id
  pod,      \* the host command pod of the Node that has not run, or None
  wired,    \* which machine the address of each interface leads to
  health,   \* how each interface answers
  cache,    \* the identity results, with their time, or None
  run,      \* the use each actor makes of the chain
  late,     \* calls given up that may still act
  now,      \* the clock
  faults,   \* faults so far
  since     \* history: since when a check could have found an interface's
            \* other machine

world == <<machine, node, pod>>
vars == <<machine, node, pod, wired, health, cache, run, late, now, faults, since>>

Commands == {"PowerOn", "PowerOff", "ForceOff"}
Checks == {"Match", "Mismatch", "Unverifiable"}
Health == {"ok", "unbuildable", "down", "mute"}

\* A missing secret only keeps an interface from being built.
Answers(i) == health[i] \in {"ok", "unbuildable"}

\* The boot id of a Node that does not report one; the boots of the machine count
\* from 1.
NoBootId == 0

\* What is sent: a power command, a press of the button, a magic packet, a pod.
Signals == [kind : {"on", "soft", "hard", "short", "long", "packet"}]
           \cup [kind : {"pod"}, boot : Nat, asked : Nat, cmd : Commands]

\* None is none of the values it stands beside.
ASSUME NoneAssumption ==
  /\ None \notin Nat \cup Commands \cup {"this", "other", "refused"}
  /\ None \notin {"on", "soft", "hard", "short", "long", "packet", "pod"}
  /\ None \notin Signals \cup [boot : Nat, asked : Nat, cmd : Commands]

IdleRun == [pc |-> "idle", at |-> 0, known |-> FALSE, links |-> {}, unchecked |-> {},
            tried |-> {}, cmd |-> None, signal |-> None, steady |-> {}]

Runs == [pc : {"idle", "identify", "status", "command", "send"}, at : Nat,
         known : BOOLEAN,               \* the Node existed when the run began
         links : SUBSET Interfaces,     \* built and not disabled
         unchecked : SUBSET Interfaces, \* asked for their identity by this run, in vain
         tried : SUBSET Interfaces,     \* failed in this walk
         cmd : Commands \cup {None}, signal : Signals \cup {None},
         steady : SUBSET Interfaces]    \* history: answering since the run began

TypeOK ==
  /\ machine \in [power : {"off", "booting", "up"}, stopping : BOOLEAN, boot : Nat]
  /\ node \in [known : BOOLEAN, ready : BOOLEAN, boot : Nat]
  /\ pod \in [boot : Nat, asked : Nat, cmd : Commands] \cup {None}
  /\ wired \in [Interfaces -> {"this", "other"}]
  /\ health \in [Interfaces -> Health]
  /\ cache = None \/ /\ cache.at \in 0..now
                     /\ cache.results \subseteq [label : {Chain[i].label : i \in Interfaces}, check : Checks]
  /\ run \in [Actors -> Runs]
  /\ late \subseteq [via : Interfaces, signal : Signals, cmd : Commands]
  /\ now \in Nat /\ faults \in Nat
  /\ since \in [Interfaces -> Nat \cup {None}]

-----------------------------------------------------------------------------
(* The drivers.                                                            *)

\* Redfish has the system UUID, IPMI the system GUID; the others report none.
system_id(i) == IF Chain[i].driver \in {"ipmi", "redfish"} /\ i \notin Placeholder
                THEN wired[i] ELSE None

\* A UUID missing or unset on either side proves nothing.
check(reported, known) ==
  IF reported = None \/ ~known THEN "Unverifiable"
  ELSE IF reported = "this" THEN "Match" ELSE "Mismatch"

\* The ping driver only reports a state.
supports(driver, action) == driver = "ping" => action = "Status"

InterfaceAction(cmd) == IF cmd = "ForceOff" THEN "PowerOff" ELSE cmd

handles(i, action) == action \in Chain[i].actions /\ supports(Chain[i].driver, action)

\* Whether the power LED, the chassis status or the DC output of the machine
\* that the interface leads to is on: a machine on its way up or down is on.
Lit(i) == IF wired[i] = "this" THEN {machine.power # "off"} ELSE BOOLEAN

\* Whether the host at the address of a ping interface answers.
Reachable(i) == IF wired[i] = "this" THEN {machine.power = "up"} ELSE BOOLEAN

\* One answer tells that the host is up; it is off if none did and not all the
\* probes were inconclusive (None).
ping_power_state(probes) ==
  IF TRUE \in Range(probes) THEN "On"
  ELSE IF Range(probes) = {None} THEN "Unknown" ELSE "Off"

\* wakeOnLan has only the Node to go by.
wol_power_state == IF node.known /\ node.ready THEN "On" ELSE "Off"

\* The power state as an interface that answers tells it.
power_state(i) ==
  CASE Chain[i].driver = "wakeOnLan" -> {wol_power_state}
    [] Chain[i].driver = "ping" ->
         {ping_power_state(probes) : probes \in [1..PingAttempts -> Reachable(i) \cup {None}]}
    [] OTHER -> {IF on THEN "On" ELSE "Off" : on \in Lit(i)}

\* Mutant: a graceful power-off takes the power away.
ipmi_control_hard(cmd) == IF cmd = "PowerOn" THEN "on" ELSE "hard"

\* Chassis control: PowerUp, AcpiSoft, PowerDown.
ipmi_control(cmd) == CASE cmd = "PowerOn" -> "on" [] cmd = "PowerOff" -> "soft" [] OTHER -> "hard"

\* ComputerSystem.Reset: On, GracefulShutdown, ForceOff.
redfish_reset(cmd) == CASE cmd = "PowerOn" -> "on" [] cmd = "PowerOff" -> "soft" [] OTHER -> "hard"

\* The ATX action: on, off, off_hard.
pikvm_action(cmd) == CASE cmd = "PowerOn" -> "on" [] cmd = "PowerOff" -> "soft" [] OTHER -> "hard"

\* A press of the button, short or long, unless the LED says that the machine is
\* already there.
nanokvm_press(cmd, is_on) ==
  IF is_on = (cmd = "PowerOn") THEN None ELSE IF cmd = "ForceOff" THEN "long" ELSE "short"

\* The same with the ATX extension; the DC extension switches the supply, and
\* cannot shut down gracefully.
command_for(extension, cmd, is_on) ==
  IF is_on = (cmd = "PowerOn") THEN None
  ELSE IF extension = "jetkvm_atx" THEN IF cmd = "ForceOff" THEN "long" ELSE "short"
  ELSE CASE cmd = "PowerOn"  -> "on"
         [] cmd = "ForceOff" -> "hard"
         [] OTHER            -> "refused"

\* A magic packet wakes; a pod on the Node, which must exist, shuts down, forced
\* or not.
wol_command(cmd) == IF cmd = "PowerOn" THEN "packet" ELSE IF node.known THEN "pod" ELSE "refused"

\* What a driver sends for a command when the machine reads on or off: None for
\* nothing, "refused" for an error.
SignalFor(driver, cmd, is_on) ==
  CASE driver = "ipmi"      -> ipmi_control(cmd)
    [] driver = "redfish"   -> redfish_reset(cmd)
    [] driver = "pikvm"     -> pikvm_action(cmd)
    [] driver = "nanokvm"   -> nanokvm_press(cmd, is_on)
    [] driver = "wakeOnLan" -> wol_command(cmd)
    [] OTHER                -> command_for(driver, cmd, is_on)

\* What a driver of this kind looks at before it sends.
ReadsFirst(i) == IF Chain[i].driver \in {"jetkvm_atx", "jetkvm_dc", "nanokvm"}
                 THEN Lit(i) ELSE {FALSE}

\* The signal, with what it carries: a host command pod carries the boot id that
\* the Node reports (and, for the properties, the boot it was asked in).
SignalOf(kind, cmd) ==
  IF kind = "pod" THEN [kind |-> kind, boot |-> node.boot, asked |-> machine.boot, cmd |-> cmd]
  ELSE [kind |-> kind]

Off == [power |-> "off", stopping |-> FALSE, boot |-> machine.boot]
Booting == [power |-> "booting", stopping |-> FALSE, boot |-> machine.boot + 1]
Stopping == [machine EXCEPT !.stopping = TRUE]

\* The machine after a signal; a press of the button is what it is to the machine
\* as it is then, and a magic packet may be lost.
Struck(kind) ==
  LET is_off == machine.power = "off"  is_up == machine.power = "up"
  IN CASE kind = "on"     -> {IF is_off THEN Booting ELSE machine}
       [] kind = "packet" -> {machine, IF is_off THEN Booting ELSE machine}
       [] kind = "soft"   -> {IF is_up THEN Stopping ELSE machine}
       [] kind \in {"hard", "long"} -> {IF is_off THEN machine ELSE Off}
       [] kind = "short"  -> IF is_off THEN {Booting} ELSE IF is_up THEN {Stopping} ELSE {machine, Off}

\* A pod replaces the Node's earlier one; everything else goes where the
\* interface is wired.
Deliver(i, signal) ==
  IF signal.kind = "pod"
  THEN /\ pod' = [boot |-> signal.boot, asked |-> signal.asked, cmd |-> signal.cmd]
       /\ UNCHANGED <<machine, node>>
  ELSE /\ machine' \in IF wired[i] = "this" THEN Struck(signal.kind) ELSE {machine}
       /\ UNCHANGED <<node, pod>>

-----------------------------------------------------------------------------
(* The chain.                                                              *)

\* The interfaces of the walk that have not been tried, in their order.
Queue(r, action) == {i \in r.links \ r.tried : handles(i, action)}

Action(r) == IF r.pc = "status" THEN "Status" ELSE InterfaceAction(r.cmd)

\* The interface whose turn it is.
Via(r) == Min(Queue(r, Action(r)))

Ended(a) == run' = [run EXCEPT ![a] = IdleRun]

\* Mutant: the chain gives up at the first interface that fails.
FailedGivesUp(a, i) ==
  run' = [run EXCEPT ![a].tried = Interfaces, ![a].signal = None,
                     ![a].pc = IF @ = "send" THEN "command" ELSE @]

\* Mutant: the chain tries a failed interface again, for ever.
FailedRetries(a, i) ==
  run' = [run EXCEPT ![a].signal = None, ![a].pc = IF @ = "send" THEN "command" ELSE @]

\* An interface fails or its call times out: the next one is tried.
Failed(a, i) ==
  run' = [run EXCEPT ![a].tried = @ \cup {i}, ![a].signal = None,
                     ![a].pc = IF @ = "send" THEN "command" ELSE @]

\* An interface whose configuration or secret is bad cannot be built.
build_driver(i) == health[i] # "unbuildable"

\* The run of a reconcile starts with the identities, that of a person's `power`
\* command with the command; both have built the interfaces r.links.
reconcile(r) == {[r EXCEPT !.pc = "identify"]}
power_command(r) == {[r EXCEPT !.pc = "command", !.cmd = cmd] : cmd \in Commands}

\* The interfaces that can be built are used; it fails only if there is none.
Start(a) ==
  LET built == {i \in Interfaces : build_driver(i)}
      r == [IdleRun EXCEPT !.at = now, !.known = node.known, !.links = built,
                           !.steady = {i \in built : health[i] = "ok" /\ wired[i] = "this"}]
  IN /\ run[a].pc = "idle" /\ machine.boot < MaxBoots
     /\ built # {}
     /\ \E begun \in IF a = "cli" THEN power_command(r) ELSE reconcile(r) :
          run' = [run EXCEPT ![a] = begun]
     /\ UNCHANGED <<world, wired, health, cache, late, now, faults>>

\* The interfaces that must be asked for their identity and do not answer.
Silent(links) == {i \in links : Chain[i].driver \in {"ipmi", "redfish"} /\ ~Answers(i)}

\* Every interface is asked; one that does not answer cannot be verified.
check_identity(links, known) ==
  {[label |-> Chain[i].label,
    check |-> IF i \in Silent(links) THEN "Unverifiable" ELSE check(system_id(i), known)] :
   i \in links}

\* The interfaces left when those of another machine, and all that share their
\* label, are disabled.
disable_mismatched(links, results) ==
  {i \in links : [label |-> Chain[i].label, check |-> "Mismatch"] \notin results}

\* Mutant: errors are cached as well.
put_errors(fresh, silent) == [at |-> now, results |-> fresh]

\* Mutant: the results carry the time they expire at.
put_expiry(fresh, silent) == IF silent = {} THEN [at |-> now + IdentityTTL, results |-> fresh] ELSE cache

\* Results are cached only when every interface answered.
put(fresh, silent) == IF silent = {} THEN [at |-> now, results |-> fresh] ELSE cache

\* Mutant: results are kept for ever.
cached_for_ever == cache # None

\* Results are used for IDENTITY_TTL.
cached == cache # None /\ now - cache.at < IdentityTTL

\* Gate 3 of a reconcile: the identity of the interfaces, checked against the
\* Node as the reconcile has read it, or cached.
Identify ==
  LET r == run["operator"]
      silent == IF cached THEN {} ELSE Silent(r.links)
      results == IF cached THEN cache.results ELSE check_identity(r.links, r.known)
  IN /\ "operator" \in Actors /\ r.pc = "identify"
     /\ cache' = IF cached THEN cache ELSE put(results, silent)
     /\ run' = [run EXCEPT !["operator"].pc = "status",
                           !["operator"].links = disable_mismatched(@, results),
                           !["operator"].unchecked = silent]
     /\ UNCHANGED <<world, wired, health, late, now, faults>>

\* What the controller may do with a reading.  A machine that reads on is stopped,
\* or woken from a standby that reads on; one that reads off is started, or forced
\* off because it does not wake from standby.  Without a Node nothing is done, but
\* for the boot failure handler, which comes before that gate and stops a machine
\* that reads on.
PowerChoices(r, p) ==
  CASE r.known /\ p = "On"  -> Commands
    [] r.known /\ p = "Off" -> {"PowerOn", "ForceOff"}
    [] ~r.known /\ p = "On" -> {"PowerOff", "ForceOff"}
    [] OTHER                -> {}

\* One interface is asked for the power state.  An unknown state is a failure.
Status(a) ==
  LET r == run[a]  i == Via(r)
  IN /\ r.pc = "status" /\ Queue(r, "Status") # {}
     /\ IF ~Answers(i) THEN Failed(a, i)
        ELSE \E p \in power_state(i) :
               \/ p = "Unknown" /\ Failed(a, i)
               \/ p # "Unknown" /\ Ended(a)
               \/ \E cmd \in PowerChoices(r, p) :
                    run' = [run EXCEPT ![a].pc = "command", ![a].cmd = cmd, ![a].tried = {}]
     /\ UNCHANGED <<world, wired, health, cache, late, now, faults>>

\* Every interface of the walk has failed.
GiveUp(a) ==
  /\ run[a].pc \in {"status", "command"} /\ Queue(run[a], Action(run[a])) = {}
  /\ Ended(a)
  /\ UNCHANGED <<world, wired, health, cache, late, now, faults>>

\* The calls of a driver before it sends: the button drivers read the power state
\* and may have nothing to send; wakeOnLan withdraws the host command pod before
\* it wakes, and reads the Node's boot id before it shuts down.
Prepare(a) ==
  LET r == run[a]  i == Via(r)  driver == Chain[i].driver
  IN /\ r.pc = "command" /\ Queue(r, Action(r)) # {}
     /\ IF ~Answers(i)
        THEN /\ Failed(a, i)
             /\ pod' \in IF driver = "wakeOnLan" /\ r.cmd = "PowerOn" /\ health[i] = "mute"
                        THEN {pod, None} ELSE {pod}
        ELSE \E is_on \in ReadsFirst(i) :
               LET kind == SignalFor(driver, r.cmd, is_on)
               IN /\ CASE kind = None      -> Ended(a)
                       [] kind = "refused" -> Failed(a, i)
                       [] OTHER            -> run' = [run EXCEPT ![a].pc = "send",
                                                                 ![a].signal = SignalOf(kind, r.cmd)]
                  /\ pod' = IF kind = "packet" THEN None ELSE pod
     /\ UNCHANGED <<machine, node, wired, health, cache, late, now, faults>>

\* What may still act after a wake through neighbouring Nodes: no neighbour
\* qualifies; or the relay pods of earlier wakes are deleted, and new ones, if any
\* can be created, act after the answer.
wake_via_relays(call) ==
  LET others == {l \in late : l.via # call.via \/ l.cmd # "PowerOn"}
  IN {late, others, others \cup {call}}

\* The call that acts.  Without an answer it acts now, later or never, and the
\* chain goes on to the next interface.
Send(a) ==
  LET r == run[a]  i == Via(r)
      call == [via |-> i, signal |-> r.signal, cmd |-> r.cmd]
  IN /\ r.pc = "send"
     /\ \/ Answers(i) /\ Deliver(i, r.signal) /\ Ended(a)
           /\ late' \in IF i \in Relayed /\ r.cmd = "PowerOn" THEN wake_via_relays(call) ELSE {late}
        \/ health[i] = "mute" /\ Deliver(i, r.signal) /\ Failed(a, i) /\ late' = late
        \/ health[i] = "mute" /\ late' = late \cup {call} /\ Failed(a, i) /\ UNCHANGED world
        \/ health[i] = "down" /\ Failed(a, i) /\ UNCHANGED <<world, late>>
     /\ UNCHANGED <<wired, health, cache, now, faults>>

\* A call given up reaches the machine after all, or is lost.
Late(l) ==
  /\ late' = late \ {l}
  /\ Deliver(l.via, l.signal) \/ UNCHANGED world
  /\ UNCHANGED <<wired, health, cache, run, now, faults>>

-----------------------------------------------------------------------------
(* The machine, its kubelet, the interfaces and people.                    *)

outside == <<wired, health, cache, run, late, now>>

\* Mutant: the host command does not compare the boot ids.
SameBootUnchecked == pod # None

\* The script of the host command pod: not if the host has rebooted.  A pod for a
\* Node that reported no boot id has nothing to compare, and acts.
SameBoot == pod # None /\ (pod.boot = NoBootId \/ pod.boot = machine.boot)

\* The kubelet starts the pod, and it shuts the host down or does nothing.
PodActs ==
  /\ machine.power = "up" /\ SameBoot
  /\ machine' = Stopping /\ pod' = None
  /\ UNCHANGED <<node, outside, faults>>

PodRefuses ==
  /\ machine.power = "up" /\ pod # None /\ ~SameBoot
  /\ pod' = None
  /\ UNCHANGED <<machine, node, outside, faults>>

Boots ==
  /\ machine.power = "booting"
  /\ machine' = [machine EXCEPT !.power = "up"]
  /\ UNCHANGED <<node, pod, outside, faults>>

Stops ==
  /\ machine.stopping
  /\ machine' = Off
  /\ UNCHANGED <<node, pod, outside, faults>>

NoNode == [known |-> FALSE, ready |-> FALSE, boot |-> NoBootId]

\* The kubelet registers the Node and reports its boot id and its readiness; the
\* Node of a machine that is not up becomes NotReady.
Kubelet ==
  /\ node' = IF machine.power = "up" THEN [known |-> TRUE, ready |-> TRUE, boot |-> machine.boot]
             ELSE [node EXCEPT !.ready = FALSE]
  /\ node' # node
  /\ UNCHANGED <<machine, pod, outside, faults>>

Spend(kind) == /\ kind \in Faults /\ faults < MaxFaults
               /\ faults' = faults + 1

Reboot ==
  /\ Spend("reboot") /\ machine.power = "up" /\ ~machine.stopping
  /\ machine' = Booting
  /\ UNCHANGED <<node, pod, outside>>

\* A person uses the machine's own button.
Person ==
  /\ Spend("person")
  /\ machine' = IF machine.power = "off" THEN Booting ELSE Off
  /\ UNCHANGED <<node, pod, outside>>

DeleteNode ==
  /\ Spend("delete_node") /\ node.known
  /\ node' = NoNode
  /\ UNCHANGED <<machine, pod, outside>>

Unsteady(i) == run' = [a \in Actors |-> [run[a] EXCEPT !.steady = @ \ {i}]]

\* An interface loses its secret, breaks, stops answering; or is repaired.
Break(i, h) ==
  /\ health[i] = "ok" /\ Spend(h)
  /\ health' = [health EXCEPT ![i] = h]
  /\ Unsteady(i)
  /\ UNCHANGED <<world, wired, cache, late, now>>

Repair(i) ==
  /\ health[i] # "ok"
  /\ health' = [health EXCEPT ![i] = "ok"]
  /\ UNCHANGED <<world, wired, cache, run, late, now, faults>>

\* The address of an interface comes to lead to another machine, or back.
Rewire(i) ==
  /\ Spend("rewire")
  /\ wired' = [wired EXCEPT ![i] = IF @ = "this" THEN "other" ELSE "this"]
  /\ Unsteady(i)
  /\ UNCHANGED <<world, health, cache, late, now>>

\* Every call has a timeout: a run ends within RunLimit.
Tick ==
  /\ now < MaxTime
  /\ \A a \in Actors : run[a].pc # "idle" => now - run[a].at < RunLimit
  /\ now' = now + 1
  /\ UNCHANGED <<world, wired, health, cache, run, late, faults>>

\* An identity check now would find that interface i leads to another machine.
Detectable(i) == system_id(i) = "other" /\ health[i] # "unbuildable" /\ node.known

History ==
  since' = [i \in Interfaces |-> IF ~Detectable(i)' THEN None
                                 ELSE IF since[i] = None THEN now ELSE since[i]]

Step(a) == /\ \/ a = "operator" /\ Identify
              \/ Status(a)
              \/ GiveUp(a)
              \/ Prepare(a)
              \/ Send(a)
           /\ History

Environment ==
  \/ PodActs
  \/ PodRefuses
  \/ Boots
  \/ Stops
  \/ Kubelet
  \/ Reboot
  \/ Person
  \/ DeleteNode
  \/ \E l \in late : Late(l)
  \/ \E i \in Interfaces, h \in Health \ {"ok"} : Break(i, h)
  \/ \E i \in Interfaces : Repair(i)
  \/ \E i \in Interfaces : Rewire(i)
  \/ Tick

\* A machine and its Node; where the faults include it, there is no Node yet, or
\* one whose kubelet has not reported a boot id (counted as a fault), or addresses
\* are wrong from the start.
Init ==
  /\ machine \in [power : {"off", "up"}, stopping : {FALSE}, boot : {1}]
  /\ \/ node = [known |-> TRUE, ready |-> machine.power = "up", boot |-> 1]
     \/ "delete_node" \in Faults /\ node = NoNode
     \/ "bare_node" \in Faults /\ node = [NoNode EXCEPT !.known = TRUE]
  /\ pod = None /\ cache = None /\ late = {}
  /\ wired \in [Interfaces -> IF "rewire" \in Faults THEN {"this", "other"} ELSE {"this"}]
  /\ health = [i \in Interfaces |-> "ok"]
  /\ run = [a \in Actors |-> IdleRun]
  /\ now = 0 /\ faults = IF node.known /\ node.boot = NoBootId THEN 1 ELSE 0
  /\ since = [i \in Interfaces |-> IF Detectable(i) THEN 0 ELSE None]

Next ==
  \/ \E a \in Actors : Step(a)
  \/ \E a \in Actors : Start(a) /\ History
  \/ Environment /\ History

Spec == Init /\ [][Next]_vars

\* Every call of a run is bounded by its interface's timeout.
FairSpec == Spec /\ \A a \in Actors : WF_vars(Step(a))

-----------------------------------------------------------------------------
(* Properties.                                                             *)

\* A host command pod for a Node that reported a boot id never shuts down a host
\* that has rebooted since the power-off was asked for, however late the kubelet
\* starts it and however old that boot id (drivers/inband.rs).
StalePodHarmless == [][PodActs /\ pod.boot # NoBootId => pod.asked = machine.boot]_vars

\* A reconcile commands another machine through an interface that could be
\* found out only while the interface failed to tell its identity to that
\* reconcile, or for IDENTITY_TTL and the length of one reconcile after it could
\* first be found out: nothing makes the cache keep an older answer
\* (controller/mod.rs IdentityCache, reconcile gate 3).
ExposureBounded ==
  [][LET r == run["operator"]  i == Via(r)
     IN ("operator" \in Actors /\ r.pc = "send" /\ Send("operator") /\ r.signal.kind # "pod"
          /\ since[i] # None)
          => i \in r.unchecked \/ r.at < since[i] + IdentityTTL + RunLimit]_vars

\* An operation fails only when all its interfaces do: one that has answered ever
\* since the operation began, and can do it, is not passed over
\* (drivers/chain.rs attempt).  A ping whose probes prove nothing has not answered.
Capable(i, cmd) == ~(\/ Chain[i].driver = "ping"
                     \/ Chain[i].driver = "jetkvm_dc" /\ cmd = "PowerOff"
                     \/ Chain[i].driver = "wakeOnLan" /\ cmd \in {"PowerOff", "ForceOff"})

FallbackReached ==
  [][\A a \in Actors : GiveUp(a) =>
       \A i \in run[a].links \cap run[a].steady :
         ~(handles(i, Action(run[a])) /\ Capable(i, run[a].cmd))]_vars

\* The commands that may still act.
Asked == {run[a].cmd : a \in Actors} \cup {l.cmd : l \in late}
         \cup (IF pod = None THEN {} ELSE {pod.cmd})

Port == INSTANCE PowerPort WITH
  power <- machine.power, stopping <- machine.stopping,
  order <- [a \in Actors |-> run[a].cmd], asked <- Asked \ {None}

\* The chain implements the port the controller relies on: whatever fails, and
\* however late a call acts, the machine only moves the way a command that may
\* still act asked for (drivers without a toggling button).
Implements == Port!Spec

\* Every command is answered, because every call is bounded by a timeout.
Answered == Port!Answered

\* The button drivers press only when the machine is not already in the requested
\* state, because a press toggles (drivers/jetkvm.rs, drivers/nanokvm.rs).
PressOnlyWhenNeeded ==
  [][\A a \in Actors : (run[a].pc = "send" /\ Send(a)
        /\ run[a].signal.kind \in {"short", "long"} /\ wired[Via(run[a])] = "this")
       => (run[a].cmd = "PowerOn" <=> machine.power = "off")]_vars
=============================================================================
