-------------------------- MODULE PowerChainProofs --------------------------
(***************************************************************************)
(* The type invariant of PowerChain, for every chain of interfaces and     *)
(* every bound, and how its steps move the runs, the signals, the pod and  *)
(* the machine, on which the other proofs about it rest.                   *)
(***************************************************************************)
EXTENDS PowerChain, WellFoundedInduction, TLAPS

-----------------------------------------------------------------------------
(* The next interface of a walk.                                           *)

\* A set of natural numbers that is not empty has a least element.
LEMMA Least ==
  ASSUME NEW T, T \subseteq Nat, T # {}
  PROVE  \E x \in T : \A y \in T : x =< y
<1> DEFINE R == OpToRel(<, Nat)
<1>1. IsWellFoundedOn(R, Nat)
  BY NatLessThanWellFounded
<1>2. PICK x \in T : \A y \in T : ~ (<<y, x>> \in R)
  <2> HIDE DEF R
  <2> QED BY <1>1, WFMin
<1>3. \A y \in T : ~(y < x)
  BY <1>2 DEF OpToRel
<1> HIDE DEF R
<1>4. \A y \in T : x =< y
  BY <1>3
<1> QED BY <1>4

\* The interfaces are numbered.
LEMMA Numbered == Interfaces \subseteq Nat
BY ChainAssumption DEF Interfaces

\* The interface whose turn it is is one that the walk has left.
LEMMA ViaQueued ==
  ASSUME NEW r \in Runs, Queue(r, Action(r)) # {}
  PROVE  /\ Via(r) \in Interfaces
         /\ Via(r) \in r.links \ r.tried
         /\ handles(Via(r), Action(r))
<1>1. Queue(r, Action(r)) \subseteq Interfaces
  BY DEF Queue, Runs
<1>2. Via(r) \in Queue(r, Action(r))
  BY <1>1, Numbered, Least DEF Via, Min
<1> QED BY <1>1, <1>2 DEF Queue

-----------------------------------------------------------------------------
(* Type correctness.                                                       *)

Machines == [power : {"off", "booting", "up"}, stopping : BOOLEAN, boot : Nat]
Nodes == [known : BOOLEAN, ready : BOOLEAN, boot : Nat]
Pods == [boot : Nat, asked : Nat, cmd : Commands]
Calls == [via : Interfaces, signal : Signals, cmd : Commands]
Results == [label : {Chain[i].label : i \in Interfaces}, check : Checks]
CacheType == cache = None \/ (cache.at \in 0..now /\ cache.results \subseteq Results)
Kinds == {"on", "soft", "hard", "short", "long", "packet", "pod"}

\* A run has a command when it has begun to give it, and a signal and an
\* interface to send it through when it is about to send.
Underway(r) ==
  /\ r.cmd # None <=> r.pc \in {"command", "send"}
  /\ r.signal # None <=> r.pc = "send"
  /\ r.pc = "send" => Queue(r, Action(r)) # {}

TypeInv == TypeOK /\ \A a \in Actors : Underway(run[a])

\* What becomes of the run of one actor leaves the others alone.
LEMMA RunMoves ==
  ASSUME TypeInv, NEW a \in Actors, NEW r \in Runs, Underway(r),
         run' = [run EXCEPT ![a] = r]
  PROVE  /\ run' \in [Actors -> Runs]
         /\ run'[a] = r
         /\ \A b \in Actors : b # a => run'[b] = run[b]
         /\ \A b \in Actors : Underway(run'[b])
<1>1. /\ run' \in [Actors -> Runs]
      /\ run'[a] = r
      /\ \A b \in Actors : b # a => run'[b] = run[b]
  BY DEF TypeInv, TypeOK
<1>2. ASSUME NEW b \in Actors PROVE Underway(run'[b])
  <2>1. CASE b = a
    BY <1>1, <2>1
  <2>2. CASE b # a
    <3>1. run'[b] = run[b]
      BY <1>1, <2>2
    <3> QED BY <3>1 DEF TypeInv
  <2> QED BY <2>1, <2>2
<1> QED BY <1>1, <1>2

\* A run that has ended.
LEMMA IdleType == IdleRun \in Runs /\ Underway(IdleRun)
<1>1. IdleRun \in Runs
  BY Zenon DEF IdleRun, Runs
<1> QED BY <1>1 DEF IdleRun, Underway

LEMMA EndedRun ==
  ASSUME TypeInv, NEW a \in Actors, Ended(a)
  PROVE  /\ run' \in [Actors -> Runs]
         /\ run'[a] = IdleRun
         /\ \A b \in Actors : b # a => run'[b] = run[b]
         /\ \A b \in Actors : Underway(run'[b])
BY IdleType, RunMoves DEF Ended

\* A run whose interface i has failed.
After(r, i) == [r EXCEPT !.tried = @ \cup {i}, !.signal = None,
                         !.pc = IF @ = "send" THEN "command" ELSE @]

LEMMA AfterType ==
  ASSUME NEW r \in Runs, Underway(r), NEW i \in Interfaces
  PROVE  /\ After(r, i) \in Runs
         /\ Underway(After(r, i))
         /\ After(r, i).tried = r.tried \cup {i}
         /\ After(r, i).pc = IF r.pc = "send" THEN "command" ELSE r.pc
         /\ After(r, i).signal = None
         /\ After(r, i).cmd = r.cmd
         /\ After(r, i).links = r.links
         /\ After(r, i).unchecked = r.unchecked
         /\ After(r, i).steady = r.steady
         /\ After(r, i).at = r.at
         /\ After(r, i).known = r.known
<1>1. /\ After(r, i).tried = r.tried \cup {i}
      /\ After(r, i).pc = IF r.pc = "send" THEN "command" ELSE r.pc
      /\ After(r, i).signal = None
      /\ After(r, i).cmd = r.cmd
      /\ After(r, i).links = r.links
      /\ After(r, i).unchecked = r.unchecked
      /\ After(r, i).steady = r.steady
      /\ After(r, i).at = r.at
      /\ After(r, i).known = r.known
  BY DEF After, Runs
<1>2. After(r, i) \in Runs
  <2>1. /\ r.tried \cup {i} \in SUBSET Interfaces
        /\ (IF r.pc = "send" THEN "command" ELSE r.pc)
             \in {"idle", "identify", "status", "command", "send"}
        /\ None \in Signals \cup {None}
    BY DEF Runs
  <2> QED BY <2>1, Zenon DEF After, Runs
<1>3. Underway(After(r, i))
  BY <1>1, NoneAssumption DEF Underway
<1> QED BY <1>1, <1>2, <1>3

LEMMA FailedRun ==
  ASSUME TypeInv, NEW a \in Actors, NEW i \in Interfaces, Failed(a, i)
  PROVE  /\ run' \in [Actors -> Runs]
         /\ run'[a] = After(run[a], i)
         /\ \A b \in Actors : b # a => run'[b] = run[b]
         /\ \A b \in Actors : Underway(run'[b])
<1>1. run[a] \in Runs /\ Underway(run[a]) /\ run \in [Actors -> Runs]
  BY DEF TypeInv, TypeOK
<1>2. run' = [run EXCEPT ![a] = After(run[a], i)]
  BY <1>1, Zenon DEF Failed, After
<1> QED BY <1>1, <1>2, AfterType, RunMoves

\* What the signal of a command is, whatever the driver.
Carries(cmd) == IF cmd = "PowerOn" THEN {"on", "packet"}
                ELSE {"pod", IF cmd = "ForceOff" THEN "hard" ELSE "soft"}

LEMMA SignalKinds ==
  ASSUME NEW i \in Interfaces, NEW cmd \in Commands, NEW is_on \in BOOLEAN,
         NEW kind, kind = SignalFor(Chain[i].driver, cmd, is_on),
         kind # None, kind # "refused"
  PROVE  /\ kind \in Kinds
         /\ kind \in Carries(cmd) \/ /\ kind \in {"short", "long"}
                                     /\ Chain[i].driver \in {"jetkvm_atx", "nanokvm"}
<1> DEFINE driver == Chain[i].driver
<1>1. CASE driver = "ipmi"
  BY <1>1 DEF SignalFor, ipmi_control, Kinds, Carries, Commands
<1>2. CASE driver = "redfish"
  BY <1>2 DEF SignalFor, redfish_reset, Kinds, Carries, Commands
<1>3. CASE driver = "pikvm"
  BY <1>3 DEF SignalFor, pikvm_action, Kinds, Carries, Commands
<1>4. CASE driver = "nanokvm"
  BY <1>4 DEF SignalFor, nanokvm_press, Kinds, Carries, Commands
<1>5. CASE driver = "wakeOnLan"
  BY <1>5 DEF SignalFor, wol_command, Kinds, Carries, Commands
<1>6. CASE driver \notin {"ipmi", "redfish", "pikvm", "nanokvm", "wakeOnLan"}
  <2>1. kind = command_for(driver, cmd, is_on)
    BY <1>6 DEF SignalFor
  <2> QED BY <2>1, <1>6 DEF command_for, Kinds, Carries, Commands
<1> QED BY <1>1, <1>2, <1>3, <1>4, <1>5, <1>6

LEMMA SignalType ==
  ASSUME TypeInv, NEW kind \in Kinds, NEW cmd \in Commands
  PROVE  SignalOf(kind, cmd) \in Signals /\ SignalOf(kind, cmd).kind = kind
<1>1. CASE kind = "pod"
  <2>1. node.boot \in Nat /\ machine.boot \in Nat
    BY DEF TypeInv, TypeOK
  <2>2. SignalOf(kind, cmd) = [kind |-> "pod", boot |-> node.boot,
                               asked |-> machine.boot, cmd |-> cmd]
    BY <1>1, Zenon DEF SignalOf
  <2>3. [kind |-> "pod", boot |-> node.boot, asked |-> machine.boot, cmd |-> cmd]
          \in [kind : {"pod"}, boot : Nat, asked : Nat, cmd : Commands]
    BY <2>1
  <2> QED BY <1>1, <2>2, <2>3 DEF Signals
<1>2. CASE kind # "pod"
  <2>1. SignalOf(kind, cmd) = [kind |-> kind]
    BY <1>2, Zenon DEF SignalOf
  <2>2. kind \in {"on", "soft", "hard", "short", "long", "packet"}
    BY <1>2 DEF Kinds
  <2>3. [kind |-> kind] \in [kind : {"on", "soft", "hard", "short", "long", "packet"}]
    BY <2>2
  <2> QED BY <2>1, <2>3 DEF Signals
<1> QED BY <1>1, <1>2

\* What a signal does to the machine.
LEMMA MovesType ==
  ASSUME TypeInv
  PROVE  {machine, Off, Booting, Stopping} \subseteq Machines
<1>1. machine \in Machines
  BY DEF TypeInv, TypeOK, Machines
<1>2. machine.boot \in Nat /\ machine.boot + 1 \in Nat
  BY <1>1 DEF Machines
<1>3. Off \in Machines
  BY <1>2 DEF Off, Machines
<1>4. Booting \in Machines
  BY <1>2 DEF Booting, Machines
<1>5. Stopping \in Machines
  BY <1>1 DEF Stopping, Machines
<1> QED BY <1>1, <1>3, <1>4, <1>5

LEMMA StruckType ==
  ASSUME TypeInv, NEW kind \in Kinds \ {"pod"}
  PROVE  Struck(kind) \subseteq Machines
<1>1. Struck(kind) \subseteq {machine, Off, Booting, Stopping}
  BY DEF Struck, Kinds
<1> QED BY <1>1, MovesType

LEMMA DeliverType ==
  ASSUME TypeInv, NEW i \in Interfaces, NEW signal \in Signals, Deliver(i, signal)
  PROVE  machine' \in Machines /\ node' \in Nodes /\ pod' \in Pods \cup {None}
<1>1. machine \in Machines /\ node \in Nodes /\ pod \in Pods \cup {None}
  BY DEF TypeInv, TypeOK, Machines, Nodes, Pods
<1>2. CASE signal.kind = "pod"
  <2>1. signal \in [kind : {"pod"}, boot : Nat, asked : Nat, cmd : Commands]
    BY <1>2 DEF Signals
  <2>2. pod' \in Pods
    BY <1>2, <2>1 DEF Deliver, Pods
  <2> QED BY <1>1, <1>2, <2>2 DEF Deliver
<1>3. CASE signal.kind # "pod"
  <2>1. signal.kind \in Kinds \ {"pod"}
    BY <1>3 DEF Signals, Kinds
  <2>2. machine' \in Struck(signal.kind) \cup {machine}
    BY <1>3 DEF Deliver
  <2> QED BY <1>1, <1>3, <2>1, <2>2, StruckType DEF Deliver
<1> QED BY <1>2, <1>3

\* The type invariant of the next state, from the types of what the step writes.
LEMMA TypeInvOf ==
  ASSUME TypeInv,
         machine' \in Machines, node' \in Nodes, pod' \in Pods \cup {None},
         wired' \in [Interfaces -> {"this", "other"}], health' \in [Interfaces -> Health],
         CacheType', now' \in Nat, faults' \in Nat, History,
         run' \in [Actors -> Runs], \A b \in Actors : Underway(run'[b]),
         late' \subseteq Calls
  PROVE  TypeInv'
<1>1. since' \in [Interfaces -> Nat \cup {None}]
  BY DEF History, TypeInv, TypeOK
<1>2. TypeOK'
  BY <1>1 DEF CacheType, TypeOK, Machines, Nodes, Pods, Calls, Results
<1>3. (\A a \in Actors : Underway(run[a]))'
  BY DEF Underway, Queue, Action, handles, supports, InterfaceAction
<1> QED BY <1>2, <1>3 DEF TypeInv

LEMMA InitType == Init => TypeInv
<1> SUFFICES ASSUME Init PROVE TypeInv
  OBVIOUS
<1>1. machine \in Machines
  <2>1. machine \in [power : {"off", "up"}, stopping : {FALSE}, boot : {1}]
    BY Zenon DEF Init
  <2>2. {"off", "up"} \subseteq {"off", "booting", "up"} /\ {FALSE} \subseteq BOOLEAN /\ {1} \subseteq Nat
    OBVIOUS
  <2> QED BY <2>1, <2>2, Zenon DEF Machines
<1>2. node \in Nodes
  <2>1. CASE node = [known |-> TRUE, ready |-> machine.power = "up", boot |-> 1]
    <3>1. CASE machine.power = "up"
      <4>1. node = [known |-> TRUE, ready |-> TRUE, boot |-> 1]
        BY <2>1, <3>1
      <4> QED BY <4>1 DEF Nodes
    <3>2. CASE machine.power # "up"
      <4>1. node = [known |-> TRUE, ready |-> FALSE, boot |-> 1]
        BY <2>1, <3>2
      <4> QED BY <4>1 DEF Nodes
    <3> QED BY <3>1, <3>2
  <2>2. CASE node = NoNode \/ node = [NoNode EXCEPT !.known = TRUE]
    <3>1. NoNode \in Nodes
      BY DEF NoNode, NoBootId, Nodes
    <3>2. [NoNode EXCEPT !.known = TRUE] \in Nodes
      BY <3>1 DEF Nodes
    <3> QED BY <2>2, <3>1, <3>2
  <2> QED BY <2>1, <2>2 DEF Init
<1>3. wired \in [Interfaces -> {"this", "other"}] /\ health \in [Interfaces -> Health]
  BY DEF Init, Health
<1>4. run \in [Actors -> Runs] /\ \A a \in Actors : Underway(run[a])
  BY IdleType DEF Init
<1>5. since \in [Interfaces -> Nat \cup {None}]
  BY DEF Init
<1> QED BY <1>1, <1>2, <1>3, <1>4, <1>5 DEF Init, TypeInv, TypeOK, Machines, Nodes

-----------------------------------------------------------------------------
(* The steps of a run preserve the types.                                  *)

\* What does not change is well typed.
LEMMA Typed ==
  ASSUME TypeInv
  PROVE  /\ machine \in Machines /\ node \in Nodes /\ pod \in Pods \cup {None}
         /\ late \subseteq Calls
         /\ run \in [Actors -> Runs] /\ \A a \in Actors : Underway(run[a])
         /\ wired \in [Interfaces -> {"this", "other"}]
         /\ health \in [Interfaces -> Health]
         /\ CacheType /\ now \in Nat /\ faults \in Nat
<1>1. CacheType
  BY Zenon DEF TypeInv, TypeOK, CacheType, Results
<1> QED BY <1>1 DEF TypeInv, TypeOK, Machines, Nodes, Pods, Calls

LEMMA FailedType ==
  ASSUME TypeInv, NEW a \in Actors, NEW i \in Interfaces, Failed(a, i),
         machine' \in Machines, node' \in Nodes, pod' \in Pods \cup {None},
         UNCHANGED <<wired, health, cache, now, faults>>, late' \subseteq Calls, History
  PROVE  TypeInv'
<1>1. run' \in [Actors -> Runs] /\ \A b \in Actors : Underway(run'[b])
  BY FailedRun
<1>2. /\ wired' \in [Interfaces -> {"this", "other"}] /\ health' \in [Interfaces -> Health]
      /\ CacheType' /\ now' \in Nat /\ faults' \in Nat
  BY Typed DEF CacheType
<1> QED
  BY <1>1, <1>2, TypeInvOf, Zenon

LEMMA EndedType ==
  ASSUME TypeInv, NEW a \in Actors, Ended(a),
         machine' \in Machines, node' \in Nodes, pod' \in Pods \cup {None},
         UNCHANGED <<wired, health, cache, now, faults>>, late' \subseteq Calls, History
  PROVE  TypeInv'
<1>1. run' \in [Actors -> Runs] /\ \A b \in Actors : Underway(run'[b])
  BY EndedRun
<1>2. /\ wired' \in [Interfaces -> {"this", "other"}] /\ health' \in [Interfaces -> Health]
      /\ CacheType' /\ now' \in Nat /\ faults' \in Nat
  BY Typed DEF CacheType
<1> QED
  BY <1>1, <1>2, TypeInvOf, Zenon

LEMMA MovedType ==
  ASSUME TypeInv, NEW a \in Actors, NEW r \in Runs, Underway(r),
         run' = [run EXCEPT ![a] = r],
         machine' \in Machines, node' \in Nodes, pod' \in Pods \cup {None},
         CacheType',
         UNCHANGED <<wired, health, now, faults>>, late' \subseteq Calls, History
  PROVE  TypeInv'
<1>1. run' \in [Actors -> Runs] /\ \A b \in Actors : Underway(run'[b])
  BY RunMoves
<1>2. /\ wired' \in [Interfaces -> {"this", "other"}] /\ health' \in [Interfaces -> Health]
      /\ now' \in Nat /\ faults' \in Nat
  BY Typed
<1> QED
  BY <1>1, <1>2, TypeInvOf, Zenon

\* What Start does.
LEMMA StartRun ==
  ASSUME TypeInv, NEW a \in Actors, Start(a)
  PROVE  \E r \in Runs :
           /\ Underway(r) /\ run' = [run EXCEPT ![a] = r]
           /\ r.pc = IF a = "cli" THEN "command" ELSE "identify"
           /\ r.at = now /\ r.known = node.known
           /\ r.links = {i \in Interfaces : build_driver(i)}
           /\ r.unchecked = {} /\ r.tried = {}
           /\ \A i \in r.steady : health[i] = "ok" /\ wired[i] = "this"
<1> DEFINE links == {i \in Interfaces : build_driver(i)}
           steady == {i \in links : health[i] = "ok" /\ wired[i] = "this"}
           q == [IdleRun EXCEPT !.at = now, !.known = node.known, !.links = links,
                                !.steady = steady]
<1>1. /\ links \in SUBSET Interfaces /\ steady \in SUBSET Interfaces
      /\ \A i \in steady : health[i] = "ok" /\ wired[i] = "this"
  OBVIOUS
<1>2. \E begun \in IF a = "cli" THEN power_command(q) ELSE reconcile(q) :
        run' = [run EXCEPT ![a] = begun]
  BY Zenon DEF Start
<1> HIDE DEF links, steady, q
<1>3. now \in Nat /\ node.known \in BOOLEAN
  BY Typed DEF Nodes
<1>4. /\ IdleRun \in Runs
      /\ IdleRun.unchecked = {} /\ IdleRun.tried = {} /\ IdleRun.signal = None /\ IdleRun.cmd = None
  BY IdleType DEF IdleRun
<1>5. q \in Runs
  BY <1>1, <1>3, <1>4, Zenon DEF q, Runs
<1>6. /\ q.at = now /\ q.known = node.known /\ q.links = links /\ q.steady = steady
      /\ q.unchecked = {} /\ q.tried = {} /\ q.signal = None /\ q.cmd = None
  BY <1>4 DEF q, Runs
<1>7. CASE a = "cli"
  <2>1. PICK cmd \in Commands : run' = [run EXCEPT ![a] = [q EXCEPT !.pc = "command", !.cmd = cmd]]
    BY <1>2, <1>7, Zenon DEF power_command
  <2> DEFINE r == [q EXCEPT !.pc = "command", !.cmd = cmd]
  <2>2. r \in Runs
    BY <1>5, Zenon DEF Runs
  <2>3. /\ r.pc = "command" /\ r.at = now /\ r.known = node.known /\ r.links = links
        /\ r.unchecked = {} /\ r.tried = {} /\ r.signal = None /\ r.cmd = cmd /\ r.steady = steady
    BY <1>5, <1>6 DEF Runs
  <2>4. run' = [run EXCEPT ![a] = r]
    BY <2>1
  <2> HIDE DEF r
  <2>5. Underway(r)
    BY <2>3, NoneAssumption DEF Underway
  <2> QED
    BY <1>1, <1>7, <2>2, <2>3, <2>4, <2>5 DEF links
<1>8. CASE a # "cli"
  <2> DEFINE r == [q EXCEPT !.pc = "identify"]
  <2>1. run' = [run EXCEPT ![a] = r]
    BY <1>2, <1>8, Zenon DEF reconcile
  <2>2. r \in Runs
    BY <1>5, Zenon DEF Runs
  <2>3. /\ r.pc = "identify" /\ r.at = now /\ r.known = node.known /\ r.links = links
        /\ r.unchecked = {} /\ r.tried = {} /\ r.signal = None /\ r.cmd = None /\ r.steady = steady
    BY <1>5, <1>6 DEF Runs
  <2> HIDE DEF r
  <2>4. Underway(r)
    BY <2>3 DEF Underway
  <2> QED
    BY <1>1, <1>8, <2>1, <2>2, <2>3, <2>4 DEF links
<1> QED BY <1>7, <1>8

\* What Identify does.
LEMMA IdentifyRun ==
  ASSUME TypeInv, Identify
  PROVE  LET q == run["operator"]
             silent == IF cached THEN {} ELSE Silent(q.links)
             results == IF cached THEN cache.results ELSE check_identity(q.links, q.known)
         IN \E r \in Runs :
              /\ Underway(r) /\ run' = [run EXCEPT !["operator"] = r]
              /\ r.pc = "status" /\ r.at = q.at /\ r.known = q.known /\ r.tried = q.tried
              /\ r.steady = q.steady /\ r.cmd = q.cmd
              /\ r.links = disable_mismatched(q.links, results) /\ r.unchecked = silent
              /\ cache' = IF cached THEN cache ELSE put(results, silent)
<1> DEFINE q == run["operator"]
           silent == IF cached THEN {} ELSE Silent(q.links)
           results == IF cached THEN cache.results ELSE check_identity(q.links, q.known)
           r == [q EXCEPT !.pc = "status", !.links = disable_mismatched(@, results),
                          !.unchecked = silent]
<1>1. q \in Runs /\ Underway(q) /\ q.pc = "identify"
  BY Typed DEF Identify
<1>2. /\ run' = [run EXCEPT !["operator"].pc = "status",
                            !["operator"].links = disable_mismatched(@, results),
                            !["operator"].unchecked = silent]
      /\ cache' = IF cached THEN cache ELSE put(results, silent)
  BY Zenon DEF Identify
<1>3. run' = [run EXCEPT !["operator"] = r]
  BY <1>2, Zenon
<1>4. disable_mismatched(q.links, results) \in SUBSET Interfaces /\ silent \in SUBSET Interfaces
  BY <1>1 DEF disable_mismatched, Silent, Runs
<1> HIDE DEF q, silent, results
<1>5. r \in Runs
  BY <1>1, <1>4, Zenon DEF Runs
<1>6. /\ r.pc = "status" /\ r.at = q.at /\ r.known = q.known /\ r.tried = q.tried
      /\ r.steady = q.steady /\ r.cmd = q.cmd /\ r.signal = q.signal
      /\ r.links = disable_mismatched(q.links, results) /\ r.unchecked = silent
  BY <1>1 DEF Runs
<1> HIDE DEF r
<1>7. Underway(r)
  BY <1>1, <1>6 DEF Underway
<1> QED BY <1>2, <1>3, <1>5, <1>6, <1>7, Zenon DEF q, silent, results

\* A run that begins to give a command.
Gives(a, cmd) == run' = [run EXCEPT ![a].pc = "command", ![a].cmd = cmd, ![a].tried = {}]

LEMMA GivesRun ==
  ASSUME TypeInv, NEW a \in Actors, run[a].pc = "status", NEW cmd \in Commands, Gives(a, cmd)
  PROVE  \E r \in Runs :
           /\ Underway(r) /\ run' = [run EXCEPT ![a] = r]
           /\ r.pc = "command" /\ r.cmd = cmd /\ r.tried = {} /\ r.at = run[a].at
           /\ r.known = run[a].known /\ r.links = run[a].links
           /\ r.unchecked = run[a].unchecked /\ r.steady = run[a].steady
<1> DEFINE r == [run[a] EXCEPT !.pc = "command", !.cmd = cmd, !.tried = {}]
<1>1. run[a] \in Runs /\ Underway(run[a]) /\ run \in [Actors -> Runs]
  BY Typed
<1>2. run' = [run EXCEPT ![a] = r]
  BY <1>1 DEF Gives
<1>3. r \in Runs
  BY <1>1, Zenon DEF Runs
<1>4. /\ r.pc = "command" /\ r.cmd = cmd /\ r.tried = {} /\ r.at = run[a].at
      /\ r.known = run[a].known /\ r.links = run[a].links /\ r.signal = run[a].signal
      /\ r.unchecked = run[a].unchecked /\ r.steady = run[a].steady
  BY <1>1 DEF Runs
<1> HIDE DEF r
<1>5. Underway(r)
  BY <1>1, <1>4, NoneAssumption DEF Underway
<1> QED BY <1>2, <1>3, <1>4, <1>5

\* What Status does.
LEMMA StatusRun ==
  ASSUME TypeInv, NEW a \in Actors, Status(a)
  PROVE  LET i == Via(run[a])
         IN  /\ i \in Interfaces
             /\ \/ Failed(a, i) /\ (~Answers(i) \/ Chain[i].driver = "ping")
                \/ Ended(a)
                \/ \E cmd \in Commands : Gives(a, cmd)
<1> DEFINE i == Via(run[a])
<1>1. i \in Interfaces
  <2>1. run[a] \in Runs
    BY Typed
  <2>2. Queue(run[a], Action(run[a])) # {}
    BY DEF Status, Action
  <2> QED BY <2>1, <2>2, ViaQueued
<1>2. CASE ~Answers(i)
  BY <1>1, <1>2, Zenon DEF Status
<1>3. CASE Answers(i)
  <2>1. PICK p \in power_state(i) :
          \/ p = "Unknown" /\ Failed(a, i)
          \/ p # "Unknown" /\ Ended(a)
          \/ \E cmd \in PowerChoices(run[a], p) : Gives(a, cmd)
    BY <1>3, Zenon DEF Status, Gives
  <2>2. p = "Unknown" => Chain[i].driver = "ping"
    <3>1. CASE Chain[i].driver = "wakeOnLan"
      BY <3>1 DEF power_state, wol_power_state
    <3>2. CASE Chain[i].driver \notin {"wakeOnLan", "ping"}
      BY <3>2 DEF power_state
    <3> QED BY <3>1, <3>2
  <2>3. PowerChoices(run[a], p) \subseteq Commands
    BY DEF PowerChoices, Commands
  <2> QED BY <1>1, <2>1, <2>2, <2>3, Zenon
<1> QED BY <1>2, <1>3

\* A run that is about to send a signal.
Readies(a, signal) == run' = [run EXCEPT ![a].pc = "send", ![a].signal = signal]

LEMMA ReadiesRun ==
  ASSUME TypeInv, NEW a \in Actors, run[a].pc = "command", Queue(run[a], Action(run[a])) # {},
         NEW signal \in Signals, Readies(a, signal)
  PROVE  \E r \in Runs :
           /\ Underway(r) /\ run' = [run EXCEPT ![a] = r]
           /\ r.pc = "send" /\ r.signal = signal /\ r.cmd = run[a].cmd /\ r.tried = run[a].tried
           /\ r.at = run[a].at /\ r.known = run[a].known /\ r.links = run[a].links
           /\ r.unchecked = run[a].unchecked /\ r.steady = run[a].steady
<1> DEFINE r == [run[a] EXCEPT !.pc = "send", !.signal = signal]
<1>1. run[a] \in Runs /\ Underway(run[a]) /\ run \in [Actors -> Runs]
  BY Typed
<1>2. run' = [run EXCEPT ![a] = r]
  BY <1>1 DEF Readies
<1>3. r \in Runs
  BY <1>1, Zenon DEF Runs
<1>4. /\ r.pc = "send" /\ r.signal = signal /\ r.cmd = run[a].cmd /\ r.tried = run[a].tried
      /\ r.at = run[a].at /\ r.known = run[a].known /\ r.links = run[a].links
      /\ r.unchecked = run[a].unchecked /\ r.steady = run[a].steady
  BY <1>1 DEF Runs
<1> HIDE DEF r
<1>5. Underway(r)
  <2>1. r.cmd # None /\ r.signal # None
    BY <1>1, <1>4, NoneAssumption DEF Underway
  <2>2. Queue(r, Action(r)) # {}
    BY <1>4 DEF Queue, Action
  <2> QED BY <1>4, <2>1, <2>2 DEF Underway
<1> QED BY <1>2, <1>3, <1>4, <1>5

\* The interface whose turn it is to carry out a command.
LEMMA ViaCommand ==
  ASSUME TypeInv, NEW a \in Actors, run[a].pc \in {"command", "send"},
         Queue(run[a], Action(run[a])) # {}
  PROVE  /\ Via(run[a]) \in Interfaces /\ Via(run[a]) \in run[a].links
         /\ run[a] \in Runs /\ run[a].cmd \in Commands
         /\ Chain[Via(run[a])].driver # "ping"
<1>1. run[a] \in Runs /\ run[a].cmd # None
  BY Typed DEF Underway
<1>2. run[a].cmd \in Commands
  BY <1>1 DEF Runs
<1>3. /\ Via(run[a]) \in Interfaces /\ Via(run[a]) \in run[a].links
      /\ handles(Via(run[a]), Action(run[a]))
  BY <1>1, ViaQueued
<1>4. Action(run[a]) # "Status"
  BY <1>2 DEF Action, InterfaceAction, Commands
<1> QED BY <1>1, <1>2, <1>3, <1>4 DEF handles, supports

\* What Prepare does.
LEMMA PrepareRun ==
  ASSUME TypeInv, NEW a \in Actors, Prepare(a)
  PROVE  LET i == Via(run[a])
         IN  /\ pod' \in {pod, None}
             /\ \/ Failed(a, i) /\ (~Answers(i) \/ ~Capable(i, run[a].cmd))
                \/ Ended(a)
                \/ \E kind \in Kinds :
                     /\ Readies(a, SignalOf(kind, run[a].cmd))
                     /\ kind \in Carries(run[a].cmd)
                          \/ Chain[i].driver \in {"jetkvm_atx", "nanokvm"}
<1> DEFINE r == run[a]
           i == Via(r)
           driver == Chain[i].driver
<1>1. /\ r.pc = "command" /\ Queue(r, Action(r)) # {}
      /\ IF ~Answers(i)
         THEN /\ Failed(a, i)
              /\ pod' \in IF driver = "wakeOnLan" /\ r.cmd = "PowerOn" /\ health[i] = "mute"
                         THEN {pod, None} ELSE {pod}
         ELSE \E is_on \in ReadsFirst(i) :
                LET kind == SignalFor(driver, r.cmd, is_on)
                IN /\ CASE kind = None      -> Ended(a)
                        [] kind = "refused" -> Failed(a, i)
                        [] OTHER            -> Readies(a, SignalOf(kind, r.cmd))
                   /\ pod' = IF kind = "packet" THEN None ELSE pod
  BY Zenon DEF Prepare, Readies
<1>2. i \in Interfaces /\ r.cmd \in Commands /\ driver # "ping"
  BY <1>1, ViaCommand
<1> HIDE DEF r, i, driver
<1>3. CASE ~Answers(i)
  <2>1. Failed(a, i) /\ pod' \in {pod, None}
    BY <1>1, <1>3
  <2> QED BY <1>3, <2>1, Zenon DEF i, r
<1>4. CASE Answers(i)
  <2>1. PICK is_on \in ReadsFirst(i) :
          LET kind == SignalFor(driver, r.cmd, is_on)
          IN /\ CASE kind = None      -> Ended(a)
                  [] kind = "refused" -> Failed(a, i)
                  [] OTHER            -> Readies(a, SignalOf(kind, r.cmd))
             /\ pod' = IF kind = "packet" THEN None ELSE pod
    BY <1>1, <1>4, Zenon
  <2>2. is_on \in BOOLEAN
    BY DEF ReadsFirst, Lit
  <2> DEFINE kind == SignalFor(driver, r.cmd, is_on)
  <2>3. CASE kind = None
    <3>1. Ended(a) /\ pod' \in {pod, None}
      BY <2>1, <2>3, NoneAssumption
    <3> QED BY <3>1, Zenon DEF i, r
  <2>4. CASE kind = "refused"
    <3>1. Failed(a, i) /\ pod' \in {pod, None}
      BY <2>1, <2>4, NoneAssumption
    <3>2. ~Capable(i, r.cmd)
      <4>1. CASE driver = "wakeOnLan"
        BY <4>1, <2>4, <1>2 DEF SignalFor, wol_command, Capable, Commands, driver
      <4>2. CASE driver = "nanokvm"
        BY <4>2, <2>4, NoneAssumption DEF SignalFor, nanokvm_press
      <4>3. CASE driver \in {"ipmi", "redfish", "pikvm"}
        BY <4>3, <2>4 DEF SignalFor, ipmi_control, redfish_reset, pikvm_action
      <4>4. CASE driver \notin {"ipmi", "redfish", "pikvm", "nanokvm", "wakeOnLan"}
        <5>1. command_for(driver, r.cmd, is_on) = "refused" /\ driver \in {"jetkvm_atx", "jetkvm_dc"}
          BY <4>4, <2>4, <1>2, ChainAssumption DEF SignalFor, Drivers, driver
        <5> QED BY <5>1, <1>2, NoneAssumption DEF command_for, Capable, Commands, driver
      <4> QED BY <4>1, <4>2, <4>3, <4>4
    <3> QED BY <3>1, <3>2, Zenon DEF i, r
  <2>5. CASE kind # None /\ kind # "refused"
    <3>1. Readies(a, SignalOf(kind, r.cmd)) /\ pod' \in {pod, None}
      BY <2>1, <2>5
    <3>2. kind \in Kinds /\ (kind \in Carries(r.cmd) \/ driver \in {"jetkvm_atx", "nanokvm"})
      BY <1>2, <2>2, <2>5, SignalKinds DEF driver
    <3> QED BY <3>1, <3>2, Zenon DEF i, r, driver
  <2> QED BY <2>3, <2>4, <2>5
<1> QED BY <1>3, <1>4

\* What Send does.
LEMMA SendRun ==
  ASSUME TypeInv, NEW a \in Actors, Send(a)
  PROVE  LET i == Via(run[a])
             call == [via |-> i, signal |-> run[a].signal, cmd |-> run[a].cmd]
         IN  /\ i \in Interfaces /\ i \in run[a].links
             /\ run[a].signal \in Signals /\ run[a].cmd \in Commands /\ call \in Calls
             /\ late' \subseteq late \cup {call}
             /\ Deliver(i, run[a].signal) \/ UNCHANGED world
             /\ Ended(a) \/ (Failed(a, i) /\ ~(health[i] = "ok"))
<1> DEFINE r == run[a]
           i == Via(r)
           call == [via |-> i, signal |-> r.signal, cmd |-> r.cmd]
<1>1. r \in Runs /\ Underway(r) /\ r.pc = "send"
  BY Typed DEF Send
<1>2. /\ i \in Interfaces /\ i \in r.links /\ r.cmd \in Commands
  BY <1>1, ViaCommand DEF Underway
<1>3. r.signal \in Signals
  BY <1>1 DEF Underway, Runs
<1>4. call \in Calls
  BY <1>2, <1>3 DEF Calls
<1>5. /\ \/ Answers(i) /\ Deliver(i, r.signal) /\ Ended(a)
            /\ late' \in IF i \in Relayed /\ r.cmd = "PowerOn" THEN wake_via_relays(call) ELSE {late}
         \/ health[i] = "mute" /\ Deliver(i, r.signal) /\ Failed(a, i) /\ late' = late
         \/ health[i] = "mute" /\ late' = late \cup {call} /\ Failed(a, i) /\ UNCHANGED world
         \/ health[i] = "down" /\ Failed(a, i) /\ UNCHANGED <<world, late>>
  BY Zenon DEF Send
<1> HIDE DEF call, i, r
<1>6. Ended(a) \/ (Failed(a, i) /\ ~(health[i] = "ok"))
  BY <1>5
<1>7. late' \subseteq late \cup {call}
  BY <1>5 DEF wake_via_relays
<1>8. Deliver(i, r.signal) \/ UNCHANGED world
  BY <1>5
<1> QED BY <1>2, <1>3, <1>4, <1>6, <1>7, <1>8 DEF call, i, r

LEMMA CacheTyped ==
  ASSUME TypeInv, now' = now,
         NEW links \in SUBSET Interfaces, NEW known \in BOOLEAN, NEW silent,
         cache' = cache \/ cache' = put(check_identity(links, known), silent)
  PROVE  CacheType'
<1>1. CASE cache' = cache
  BY <1>1, Typed DEF CacheType
<1>2. CASE cache' = [at |-> now, results |-> check_identity(links, known)]
  <2>1. check_identity(links, known) \subseteq Results
    BY DEF check_identity, check, Results, Checks
  <2>2. cache'.at = now /\ cache'.results = check_identity(links, known)
    BY <1>2
  <2>3. now \in 0..now'
    BY Typed
  <2> QED BY <2>1, <2>2, <2>3 DEF CacheType
<1> QED BY <1>1, <1>2 DEF put

LEMMA IdentifyType == ASSUME TypeInv, Identify, History PROVE TypeInv'
<1> DEFINE q == run["operator"]
           silent == IF cached THEN {} ELSE Silent(q.links)
           results == IF cached THEN cache.results ELSE check_identity(q.links, q.known)
<1>1. "operator" \in Actors /\ UNCHANGED <<world, wired, health, late, now, faults>>
  BY DEF Identify
<1>2. PICK r \in Runs :
        /\ Underway(r) /\ run' = [run EXCEPT !["operator"] = r]
        /\ cache' = IF cached THEN cache ELSE put(results, silent)
  BY IdentifyRun, Zenon
<1>3. q \in Runs
  BY <1>1, Typed
<1>4. CacheType'
  <2>1. cache' = cache \/ cache' = put(check_identity(q.links, q.known), silent)
    BY <1>2
  <2>2. q.links \in SUBSET Interfaces /\ q.known \in BOOLEAN
    BY <1>3 DEF Runs
  <2> HIDE DEF q, silent
  <2> QED BY <1>1, <2>1, <2>2, CacheTyped
<1>5. machine' \in Machines /\ node' \in Nodes /\ pod' \in Pods \cup {None} /\ late' \subseteq Calls
  BY <1>1, Typed DEF world
<1> QED
  BY <1>1, <1>2, <1>4, <1>5, MovedType

LEMMA StepType == ASSUME TypeInv, NEW a \in Actors, Step(a) PROVE TypeInv'
<1>1. History
  BY DEF Step
<1>2. CASE Identify
  BY <1>1, <1>2, IdentifyType
<1>3. CASE Status(a)
  <2>1. UNCHANGED <<world, wired, health, cache, late, now, faults>>
    BY <1>3 DEF Status
  <2>2. /\ machine' \in Machines /\ node' \in Nodes /\ pod' \in Pods \cup {None}
        /\ late' \subseteq Calls /\ CacheType'
    BY <2>1, Typed DEF world, CacheType
  <2>3. CASE Ended(a)
    BY <1>1, <2>1, <2>2, <2>3, EndedType
  <2>4. CASE Via(run[a]) \in Interfaces /\ Failed(a, Via(run[a]))
    BY <1>1, <2>1, <2>2, <2>4, FailedType
  <2>5. ASSUME NEW cmd \in Commands, Gives(a, cmd) PROVE TypeInv'
    <3>1. run[a].pc = "status"
      BY <1>3 DEF Status
    <3>2. PICK r \in Runs : Underway(r) /\ run' = [run EXCEPT ![a] = r]
      BY <2>5, <3>1, GivesRun
    <3> QED BY <1>1, <2>1, <2>2, <3>2, MovedType
  <2> QED BY <1>3, <2>3, <2>4, <2>5, StatusRun
<1>4. CASE GiveUp(a)
  <2>1. UNCHANGED <<world, wired, health, cache, late, now, faults>> /\ Ended(a)
    BY <1>4 DEF GiveUp
  <2>2. /\ machine' \in Machines /\ node' \in Nodes /\ pod' \in Pods \cup {None}
        /\ late' \subseteq Calls /\ CacheType'
    BY <2>1, Typed DEF world, CacheType
  <2> QED BY <1>1, <2>1, <2>2, EndedType
<1>5. CASE Prepare(a)
  <2>1. UNCHANGED <<machine, node, wired, health, cache, late, now, faults>>
    BY <1>5 DEF Prepare
  <2>2. /\ machine' \in Machines /\ node' \in Nodes /\ pod' \in Pods \cup {None}
        /\ late' \subseteq Calls /\ CacheType'
    BY <1>5, <2>1, Typed, PrepareRun DEF CacheType
  <2>3. run[a].pc = "command" /\ Queue(run[a], Action(run[a])) # {}
    BY <1>5 DEF Prepare
  <2>4. CASE Ended(a)
    BY <1>1, <2>1, <2>2, <2>4, EndedType
  <2>5. CASE Failed(a, Via(run[a]))
    BY <1>1, <2>1, <2>2, <2>3, <2>5, FailedType, ViaCommand
  <2>6. ASSUME NEW kind \in Kinds, Readies(a, SignalOf(kind, run[a].cmd)) PROVE TypeInv'
    <3>1. SignalOf(kind, run[a].cmd) \in Signals
      BY <2>3, ViaCommand, SignalType
    <3>2. PICK r \in Runs : Underway(r) /\ run' = [run EXCEPT ![a] = r]
      BY <2>3, <2>6, <3>1, ReadiesRun
    <3> QED BY <1>1, <2>1, <2>2, <3>2, MovedType
  <2> QED BY <1>5, <2>4, <2>5, <2>6, PrepareRun
<1>6. CASE Send(a)
  <2> DEFINE i == Via(run[a])
  <2>1. UNCHANGED <<wired, health, cache, now, faults>>
    BY <1>6 DEF Send
  <2>2. /\ i \in Interfaces /\ run[a].signal \in Signals
        /\ late' \subseteq Calls
        /\ Deliver(i, run[a].signal) \/ UNCHANGED world
        /\ Ended(a) \/ Failed(a, i)
    BY <1>6, SendRun, Typed
  <2> HIDE DEF i
  <2>3. /\ machine' \in Machines /\ node' \in Nodes /\ pod' \in Pods \cup {None}
    BY <2>2, Typed, DeliverType DEF world
  <2> QED BY <1>1, <2>1, <2>2, <2>3, EndedType, FailedType
<1> QED BY <1>2, <1>3, <1>4, <1>5, <1>6 DEF Step

LEMMA StartType == ASSUME TypeInv, NEW a \in Actors, Start(a), History PROVE TypeInv'
<1>1. UNCHANGED <<world, wired, health, cache, late, now, faults>>
  BY DEF Start
<1>2. PICK r \in Runs : Underway(r) /\ run' = [run EXCEPT ![a] = r]
  BY StartRun
<1>3. /\ machine' \in Machines /\ node' \in Nodes /\ pod' \in Pods \cup {None}
      /\ late' \subseteq Calls /\ CacheType'
  BY <1>1, Typed DEF world, CacheType
<1> QED BY <1>1, <1>2, <1>3, MovedType

\* Breaking or rewiring an interface is only noted in the runs.
LEMMA UnsteadyRun ==
  ASSUME TypeInv, NEW i \in Interfaces, Unsteady(i)
  PROVE  /\ run' \in [Actors -> Runs]
         /\ \A a \in Actors :
              /\ Underway(run'[a])
              /\ run'[a].pc = run[a].pc /\ run'[a].at = run[a].at /\ run'[a].known = run[a].known
              /\ run'[a].links = run[a].links /\ run'[a].unchecked = run[a].unchecked
              /\ run'[a].tried = run[a].tried /\ run'[a].cmd = run[a].cmd
              /\ run'[a].signal = run[a].signal /\ run'[a].steady = run[a].steady \ {i}
<1>1. run' = [a \in Actors |-> [run[a] EXCEPT !.steady = @ \ {i}]]
  BY DEF Unsteady
<1>2. ASSUME NEW a \in Actors
      PROVE  /\ run'[a] \in Runs
             /\ run'[a].pc = run[a].pc /\ run'[a].at = run[a].at /\ run'[a].known = run[a].known
             /\ run'[a].links = run[a].links /\ run'[a].unchecked = run[a].unchecked
             /\ run'[a].tried = run[a].tried /\ run'[a].cmd = run[a].cmd
             /\ run'[a].signal = run[a].signal /\ run'[a].steady = run[a].steady \ {i}
  <2>1. run[a] \in Runs /\ run'[a] = [run[a] EXCEPT !.steady = @ \ {i}]
    BY <1>1, Typed
  <2>2. run[a].steady \ {i} \in SUBSET Interfaces
    BY <2>1 DEF Runs
  <2>3. run'[a] \in Runs
    BY <2>1, <2>2, Zenon DEF Runs
  <2> QED BY <2>1, <2>3 DEF Runs
<1>3. ASSUME NEW a \in Actors PROVE Underway(run'[a])
  BY <1>2, Typed DEF Underway, Queue, Action
<1>4. run' \in [Actors -> Runs]
  BY <1>1, <1>2
<1> QED BY <1>2, <1>3, <1>4

\* The world changes and the runs do not.
LEMMA WorldType ==
  ASSUME TypeInv, History, UNCHANGED <<wired, health, cache, run, late, now>>,
         machine' \in Machines, node' \in Nodes, pod' \in Pods \cup {None}, faults' \in Nat
  PROVE  TypeInv'
<1>1. /\ wired' \in [Interfaces -> {"this", "other"}] /\ health' \in [Interfaces -> Health]
      /\ CacheType' /\ now' \in Nat /\ late' \subseteq Calls
      /\ run' \in [Actors -> Runs] /\ \A a \in Actors : Underway(run'[a])
  BY Typed DEF CacheType
<1> QED BY <1>1, TypeInvOf

LEMMA MachineStepType ==
  ASSUME TypeInv, History,
         PodActs \/ PodRefuses \/ Boots \/ Stops \/ Kubelet \/ Reboot \/ Person \/ DeleteNode
  PROVE  TypeInv'
<1>1. UNCHANGED <<wired, health, cache, run, late, now>>
  BY DEF PodActs, PodRefuses, Boots, Stops, Kubelet, Reboot, Person, DeleteNode, outside
<1>2. faults' \in Nat
  BY Typed DEF PodActs, PodRefuses, Boots, Stops, Kubelet, Reboot, Person, DeleteNode, Spend
<1>3. pod' \in Pods \cup {None}
  BY Typed DEF PodActs, PodRefuses, Boots, Stops, Kubelet, Reboot, Person, DeleteNode
<1>4. machine' \in Machines
  <2>1. machine' \in {machine, Off, Booting, Stopping, [machine EXCEPT !.power = "up"]}
    BY Zenon DEF PodActs, PodRefuses, Boots, Stops, Kubelet, Reboot, Person, DeleteNode
  <2>2. [machine EXCEPT !.power = "up"] \in Machines
    BY Typed DEF Machines
  <2> QED BY <2>1, <2>2, MovesType
<1>5. node' \in Nodes
  <2>1. \/ node' \in {node, [node EXCEPT !.ready = FALSE]}
        \/ node' \in {[known |-> TRUE, ready |-> TRUE, boot |-> machine.boot], NoNode}
    BY Zenon DEF PodActs, PodRefuses, Boots, Stops, Kubelet, Reboot, Person, DeleteNode
  <2>2. machine.boot \in Nat /\ node \in Nodes
    BY Typed DEF Machines
  <2>3. /\ [node EXCEPT !.ready = FALSE] \in Nodes
        /\ [known |-> TRUE, ready |-> TRUE, boot |-> machine.boot] \in Nodes
        /\ NoNode \in Nodes
    BY <2>2 DEF NoNode, NoBootId, Nodes
  <2> QED BY <2>1, <2>2, <2>3
<1> QED BY <1>1, <1>2, <1>3, <1>4, <1>5, WorldType

LEMMA LateType == ASSUME TypeInv, History, NEW l \in late, Late(l) PROVE TypeInv'
<1>1. l.via \in Interfaces /\ l.signal \in Signals
  BY Typed DEF Calls
<1>2. machine' \in Machines /\ node' \in Nodes /\ pod' \in Pods \cup {None}
  BY <1>1, Typed, DeliverType DEF Late, world
<1>3. late' \subseteq Calls /\ UNCHANGED <<wired, health, cache, run, now, faults>>
  BY Typed DEF Late
<1>4. /\ wired' \in [Interfaces -> {"this", "other"}] /\ health' \in [Interfaces -> Health]
      /\ CacheType' /\ now' \in Nat /\ faults' \in Nat
      /\ run' \in [Actors -> Runs] /\ \A a \in Actors : Underway(run'[a])
  BY <1>3, Typed DEF CacheType
<1> QED BY <1>2, <1>3, <1>4, TypeInvOf

LEMMA InterfaceStepType ==
  ASSUME TypeInv, History, NEW i \in Interfaces,
         \/ \E h \in Health \ {"ok"} : Break(i, h)
         \/ Repair(i)
         \/ Rewire(i)
  PROVE  TypeInv'
<1>1. UNCHANGED <<machine, node, pod, cache, late, now>>
  BY DEF Break, Repair, Rewire, world
<1>2. /\ machine' \in Machines /\ node' \in Nodes /\ pod' \in Pods \cup {None}
      /\ CacheType' /\ now' \in Nat /\ late' \subseteq Calls
  BY <1>1, Typed DEF CacheType
<1>3. faults' \in Nat
  BY Typed DEF Break, Repair, Rewire, Spend
<1>4. /\ wired' \in [Interfaces -> {"this", "other"}]
      /\ health' \in [Interfaces -> Health]
  BY Typed DEF Break, Repair, Rewire, Health
<1>5. run' \in [Actors -> Runs] /\ \A a \in Actors : Underway(run'[a])
  BY Typed, UnsteadyRun DEF Break, Repair, Rewire
<1> QED BY <1>2, <1>3, <1>4, <1>5, TypeInvOf

LEMMA TickType == ASSUME TypeInv, History, Tick PROVE TypeInv'
<1>1. UNCHANGED <<machine, node, pod, wired, health, cache, run, late, faults>> /\ now' = now + 1
  BY DEF Tick, world
<1>2. CacheType'
  BY <1>1, Typed DEF CacheType
<1>3. /\ machine' \in Machines /\ node' \in Nodes /\ pod' \in Pods \cup {None}
      /\ wired' \in [Interfaces -> {"this", "other"}] /\ health' \in [Interfaces -> Health]
      /\ now' \in Nat /\ faults' \in Nat /\ late' \subseteq Calls
      /\ run' \in [Actors -> Runs] /\ \A a \in Actors : Underway(run'[a])
  BY <1>1, Typed
<1> QED BY <1>2, <1>3, TypeInvOf

LEMMA NextType == TypeInv /\ [Next]_vars => TypeInv'
<1> SUFFICES ASSUME TypeInv, [Next]_vars PROVE TypeInv'
  OBVIOUS
<1>1. ASSUME NEW a \in Actors, Step(a) PROVE TypeInv'
  BY <1>1, StepType
<1>2. ASSUME NEW a \in Actors, Start(a), History PROVE TypeInv'
  BY <1>2, StartType
<1>3. ASSUME Environment, History PROVE TypeInv'
  BY <1>3, MachineStepType, LateType, InterfaceStepType, TickType DEF Environment
<1>4. CASE UNCHANGED vars
  <2>1. TypeOK' /\ \A a \in Actors : Underway(run'[a])
    BY <1>4, Typed DEF TypeInv, TypeOK, vars, world
  <2>2. (\A a \in Actors : Underway(run[a]))'
    BY <2>1 DEF Underway, Queue, Action, handles, supports, InterfaceAction
  <2> QED BY <2>1, <2>2 DEF TypeInv
<1> QED BY <1>1, <1>2, <1>3, <1>4 DEF Next

\* The variables keep their types, a run carries a command while it gives one,
\* and a signal, with an interface to send it through, while it sends one.
THEOREM TypeCorrect == Spec => []TypeOK
<1>1. TypeInv => TypeOK
  BY DEF TypeInv
<1> QED BY <1>1, InitType, NextType, PTL DEF Spec

-----------------------------------------------------------------------------
(* How signals, pods and the machine move.                                 *)

\* An actor keeps its signal and its command, loses the signal, or is given the
\* signal that carries its command.
Readied(a) ==
  \E kind \in Kinds :
    /\ run[a].cmd \in Commands
    /\ run'[a].cmd = run[a].cmd /\ run'[a].signal = SignalOf(kind, run[a].cmd)
    /\ kind \in Carries(run[a].cmd)
         \/ \E i \in Interfaces : Chain[i].driver \in {"jetkvm_atx", "nanokvm"}
    /\ UNCHANGED <<machine, node>>

SignalMoves(a) ==
  \/ run'[a].signal = None
  \/ run'[a].signal = run[a].signal /\ run'[a].cmd = run[a].cmd
  \/ Readied(a)

LEMMA SignalsKept ==
  ASSUME TypeInv, NEW a \in Actors, run' \in [Actors -> Runs],
         run'[a].signal = None, \A b \in Actors : b # a => run'[b] = run[b]
  PROVE  \A b \in Actors : SignalMoves(b)
BY DEF SignalMoves

LEMMA StepSignals ==
  ASSUME TypeInv, NEW a \in Actors, Step(a) \/ Start(a)
  PROVE  \A b \in Actors : SignalMoves(b)
<1>1. ASSUME NEW r \in Runs, Underway(r), run' = [run EXCEPT ![a] = r], r.pc # "send"
      PROVE  \A b \in Actors : SignalMoves(b)
  <2>1. run' \in [Actors -> Runs] /\ run'[a] = r /\ \A b \in Actors : b # a => run'[b] = run[b]
    BY <1>1, RunMoves
  <2>2. run'[a].signal = None
    BY <1>1, <2>1 DEF Underway
  <2> QED BY <2>1, <2>2, SignalsKept
<1>2. ASSUME Ended(a) PROVE \A b \in Actors : SignalMoves(b)
  <2>1. IdleRun.pc # "send"
    BY DEF IdleRun
  <2> QED BY <1>1, <1>2, <2>1, IdleType DEF Ended
<1>3. ASSUME NEW i \in Interfaces, Failed(a, i) PROVE \A b \in Actors : SignalMoves(b)
  <2>1. run' \in [Actors -> Runs] /\ run'[a] = After(run[a], i)
        /\ \A b \in Actors : b # a => run'[b] = run[b]
    BY <1>3, FailedRun
  <2>2. run'[a].signal = None
    BY <2>1, AfterType, Typed
  <2> QED BY <2>1, <2>2, SignalsKept
<1>4. CASE Start(a)
  <2>1. PICK r \in Runs :
          /\ Underway(r) /\ run' = [run EXCEPT ![a] = r]
          /\ r.pc = IF a = "cli" THEN "command" ELSE "identify"
    BY <1>4, StartRun
  <2>2. r.pc # "send"
    BY <2>1
  <2> QED BY <1>1, <2>1, <2>2
<1>5. CASE a = "operator" /\ Identify
  <2>1. PICK r \in Runs : Underway(r) /\ run' = [run EXCEPT ![a] = r] /\ r.pc = "status"
    BY <1>5, IdentifyRun, Zenon
  <2>2. r.pc # "send"
    BY <2>1
  <2> QED BY <1>1, <2>1, <2>2
<1>6. CASE Status(a)
  <2>1. ASSUME NEW cmd \in Commands, Gives(a, cmd) PROVE \A b \in Actors : SignalMoves(b)
    <3>1. run[a].pc = "status"
      BY <1>6 DEF Status
    <3>2. PICK r \in Runs : Underway(r) /\ run' = [run EXCEPT ![a] = r] /\ r.pc = "command"
      BY <2>1, <3>1, GivesRun
    <3>3. r.pc # "send"
      BY <3>2
    <3> QED BY <1>1, <3>2, <3>3
  <2> QED BY <1>2, <1>3, <1>6, <2>1, StatusRun
<1>7. CASE GiveUp(a)
  BY <1>2, <1>7 DEF GiveUp
<1>8. CASE Prepare(a)
  <2>1. run[a].pc = "command" /\ Queue(run[a], Action(run[a])) # {} /\ UNCHANGED <<machine, node>>
    BY <1>8 DEF Prepare
  <2>2. Via(run[a]) \in Interfaces /\ run[a].cmd \in Commands
    BY <2>1, ViaCommand
  <2>3. ASSUME NEW kind \in Kinds, Readies(a, SignalOf(kind, run[a].cmd)),
               kind \in Carries(run[a].cmd)
                 \/ Chain[Via(run[a])].driver \in {"jetkvm_atx", "nanokvm"}
        PROVE  \A b \in Actors : SignalMoves(b)
    <3>1. SignalOf(kind, run[a].cmd) \in Signals
      BY <2>2, SignalType
    <3>2. PICK r \in Runs :
            /\ Underway(r) /\ run' = [run EXCEPT ![a] = r]
            /\ r.signal = SignalOf(kind, run[a].cmd) /\ r.cmd = run[a].cmd
      BY <2>1, <2>3, <3>1, ReadiesRun
    <3>3. run'[a] = r /\ \A b \in Actors : b # a => run'[b] = run[b]
      BY <3>2, RunMoves
    <3>4. Readied(a)
      BY <2>1, <2>2, <2>3, <3>2, <3>3 DEF Readied
    <3> QED BY <3>3, <3>4 DEF SignalMoves
  <2> QED BY <1>2, <1>3, <1>8, <2>2, <2>3, PrepareRun
<1>9. CASE Send(a)
  BY <1>2, <1>3, <1>9, SendRun
<1> QED BY <1>4, <1>5, <1>6, <1>7, <1>8, <1>9 DEF Step

LEMMA NextSignals ==
  ASSUME TypeInv, [Next]_vars
  PROVE  \A b \in Actors : SignalMoves(b)
<1>1. CASE \E a \in Actors : Step(a) \/ Start(a)
  BY <1>1, StepSignals
<1>2. CASE Environment
  <2>1. run' = run \/ \E i \in Interfaces : Unsteady(i)
    BY <1>2 DEF Environment, PodActs, PodRefuses, Boots, Stops, Kubelet, Reboot, Person,
                DeleteNode, Late, Break, Repair, Rewire, Tick, outside
  <2> QED BY <2>1, UnsteadyRun DEF SignalMoves
<1>3. CASE UNCHANGED vars
  BY <1>3 DEF vars, SignalMoves
<1> QED BY <1>1, <1>2, <1>3 DEF Next

\* The pod that a signal creates.
PodOf(s) == [boot |-> s.boot, asked |-> s.asked, cmd |-> s.cmd]

\* The boot of the machine only grows.
LEMMA DeliverMoves ==
  ASSUME TypeInv, NEW i \in Interfaces, NEW signal \in Signals,
         Deliver(i, signal) \/ UNCHANGED world
  PROVE  /\ node' = node
         /\ machine'.boot \in Nat /\ machine.boot =< machine'.boot
         /\ pod' = pod \/ (signal.kind = "pod" /\ pod' = PodOf(signal))
<1>1. machine \in Machines /\ machine.boot \in Nat
  BY Typed DEF Machines
<1>2. CASE UNCHANGED world
  BY <1>1, <1>2 DEF world
<1>3. CASE Deliver(i, signal) /\ signal.kind = "pod"
  BY <1>1, <1>3 DEF Deliver, PodOf
<1>4. CASE Deliver(i, signal) /\ signal.kind # "pod"
  <2>1. signal.kind \in Kinds \ {"pod"}
    BY <1>4 DEF Signals, Kinds
  <2>2. machine' \in Struck(signal.kind) \cup {machine} /\ UNCHANGED <<node, pod>>
    BY <1>4 DEF Deliver
  <2>3. machine' \in {machine, Off, Booting, Stopping}
    BY <2>1, <2>2 DEF Struck, Kinds
  <2>4. Off.boot = machine.boot /\ Booting.boot = machine.boot + 1 /\ Stopping.boot = machine.boot
    BY <1>1 DEF Off, Booting, Stopping, Machines
  <2> QED BY <1>1, <2>2, <2>3, <2>4
<1> QED BY <1>2, <1>3, <1>4

\* A pod comes from a signal that was sent or was late, and a call is late only
\* when its signal was sent.
LEMMA NextMoves ==
  ASSUME TypeInv, [Next]_vars
  PROVE  /\ machine'.boot \in Nat /\ machine.boot =< machine'.boot
         /\ node'.boot \in {NoBootId, node.boot, machine.boot}
         /\ \/ pod' \in {pod, None}
            \/ \E a \in Actors : /\ run[a].pc = "send" /\ run[a].signal.kind = "pod"
                                 /\ pod' = PodOf(run[a].signal)
            \/ \E l \in late : l.signal.kind = "pod" /\ pod' = PodOf(l.signal)
         /\ \A l \in late' :
              \/ l \in late
              \/ \E a \in Actors : run[a].pc = "send" /\ l.signal = run[a].signal /\ l.cmd = run[a].cmd
<1>1. machine \in Machines /\ machine.boot \in Nat /\ node \in Nodes
  BY Typed DEF Machines
<1>2. CASE \E a \in Actors : Start(a) \/ Status(a) \/ GiveUp(a) \/ Prepare(a) \/ Identify
  <2>1. UNCHANGED <<machine, node, late>> /\ pod' \in {pod, None}
    BY <1>2, PrepareRun DEF Start, Status, GiveUp, Identify, Prepare, world
  <2> QED BY <1>1, <2>1
<1>3. ASSUME NEW a \in Actors, Send(a)
      PROVE  /\ machine'.boot \in Nat /\ machine.boot =< machine'.boot
             /\ node' = node
             /\ \/ pod' = pod
                \/ /\ run[a].pc = "send" /\ run[a].signal.kind = "pod"
                   /\ pod' = PodOf(run[a].signal)
             /\ \A l \in late' :
                  \/ l \in late
                  \/ run[a].pc = "send" /\ l.signal = run[a].signal /\ l.cmd = run[a].cmd
  <2> DEFINE call == [via |-> Via(run[a]), signal |-> run[a].signal, cmd |-> run[a].cmd]
  <2>1. /\ Via(run[a]) \in Interfaces /\ run[a].signal \in Signals
        /\ late' \subseteq late \cup {call}
        /\ Deliver(Via(run[a]), run[a].signal) \/ UNCHANGED world
    BY <1>3, SendRun
  <2>2. run[a].pc = "send"
    BY <1>3 DEF Send
  <2>3. call.signal = run[a].signal /\ call.cmd = run[a].cmd
    OBVIOUS
  <2> QED BY <2>1, <2>2, <2>3, DeliverMoves
<1>4. ASSUME NEW l \in late, Late(l)
      PROVE  /\ machine'.boot \in Nat /\ machine.boot =< machine'.boot
             /\ node' = node /\ late' \subseteq late
             /\ pod' = pod \/ (l.signal.kind = "pod" /\ pod' = PodOf(l.signal))
  <2>1. l.via \in Interfaces /\ l.signal \in Signals
    BY Typed DEF Calls
  <2> QED BY <1>4, <2>1, DeliverMoves DEF Late
<1>5. CASE \/ PodActs \/ PodRefuses \/ Boots \/ Stops \/ Kubelet \/ Reboot \/ Person \/ DeleteNode
  <2>1. late' = late /\ pod' \in {pod, None}
    BY <1>5 DEF PodActs, PodRefuses, Boots, Stops, Kubelet, Reboot, Person, DeleteNode, outside
  <2> DEFINE Up == [machine EXCEPT !.power = "up"]
  <2>2. machine' \in {machine, Off, Booting, Stopping, Up}
    BY <1>5, Zenon DEF PodActs, PodRefuses, Boots, Stops, Kubelet, Reboot, Person, DeleteNode
  <2>3. /\ Off.boot = machine.boot /\ Booting.boot = machine.boot + 1
        /\ Stopping.boot = machine.boot /\ Up.boot = machine.boot
    BY <1>1 DEF Off, Booting, Stopping, Machines
  <2> HIDE DEF Up
  <2>4. machine'.boot \in Nat /\ machine.boot =< machine'.boot
    BY <1>1, <2>2, <2>3
  <2>5. node' \in {node, [known |-> TRUE, ready |-> TRUE, boot |-> machine.boot],
                   [node EXCEPT !.ready = FALSE], NoNode}
    BY <1>5, Zenon DEF PodActs, PodRefuses, Boots, Stops, Kubelet, Reboot, Person, DeleteNode
  <2>6. node'.boot \in {NoBootId, node.boot, machine.boot}
    BY <1>1, <2>5 DEF NoNode, Nodes
  <2> QED BY <2>1, <2>4, <2>6
<1>6. CASE \/ \E i \in Interfaces : \/ \E h \in Health \ {"ok"} : Break(i, h)
                                   \/ Repair(i)
                                   \/ Rewire(i)
           \/ Tick
           \/ UNCHANGED vars
  <2>1. UNCHANGED <<machine, node, pod, late>>
    BY <1>6 DEF Break, Repair, Rewire, Tick, vars, world
  <2> QED BY <1>1, <2>1
<1> QED
  BY <1>2, <1>3, <1>4, <1>5, <1>6 DEF Next, Step, Environment
=============================================================================
