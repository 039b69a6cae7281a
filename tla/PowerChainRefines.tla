-------------------------- MODULE PowerChainRefines --------------------------
(***************************************************************************)
(* The chain implements the port that the controller relies on: every step *)
(* of PowerChain is a step of PowerPort or leaves its variables alone, for *)
(* every chain whose buttons do not toggle and a machine that nobody else  *)
(* switches.                                                               *)
(***************************************************************************)
EXTENDS PowerChainProofs

\* The drivers that press the machine's button: a press does what the machine makes
\* of it, not what its command asked for.
Toggling == {"jetkvm_atx", "nanokvm"}

NobodyToggles ==
  /\ \A i \in Interfaces : Chain[i].driver \notin Toggling
  /\ "person" \notin Faults

-----------------------------------------------------------------------------
(* A signal carries its command.                                           *)

Fits(s, cmd) == s.kind \in Carries(cmd) /\ (s.kind = "pod" => s.cmd = cmd)

\* What may act carries the command it is counted under; a pod only shuts down.
PortInv ==
  /\ \A a \in Actors : run[a].pc = "send" => Fits(run[a].signal, run[a].cmd)
  /\ \A l \in late : Fits(l.signal, l.cmd)
  /\ pod # None => pod.cmd # "PowerOn"

LEMMA InitFits == Init => PortInv
<1> SUFFICES ASSUME Init PROVE PortInv
  OBVIOUS
<1>1. pod = None /\ late = {} /\ \A a \in Actors : run[a].pc = "idle"
  BY DEF Init, IdleRun
<1> QED BY <1>1 DEF PortInv

LEMMA NextFits == ASSUME NobodyToggles PROVE TypeInv /\ PortInv /\ [Next]_vars => PortInv'
<1> SUFFICES ASSUME TypeInv, PortInv, [Next]_vars PROVE PortInv'
  OBVIOUS
<1>1. TypeInv'
  BY NextType
<1>2. ASSUME NEW a \in Actors, run'[a].pc = "send" PROVE Fits(run'[a].signal, run'[a].cmd)
  <2>1. run'[a].signal # None
    BY <1>1, <1>2 DEF TypeInv, Underway
  <2>2. CASE run'[a].signal = run[a].signal /\ run'[a].cmd = run[a].cmd
    <3>1. run[a].pc = "send"
      BY <2>1, <2>2, Typed DEF Underway
    <3> QED BY <2>2, <3>1 DEF PortInv
  <2>3. CASE Readied(a)
    <3>1. PICK kind \in Kinds :
            /\ run[a].cmd \in Commands /\ run'[a].cmd = run[a].cmd
            /\ run'[a].signal = SignalOf(kind, run[a].cmd)
            /\ kind \in Carries(run[a].cmd)
      BY <2>3 DEF Readied, NobodyToggles, Toggling
    <3>2. /\ SignalOf(kind, run[a].cmd).kind = kind
          /\ kind = "pod" => SignalOf(kind, run[a].cmd).cmd = run[a].cmd
      BY DEF SignalOf
    <3> QED BY <3>1, <3>2 DEF Fits
  <2> QED BY <2>1, <2>2, <2>3, NextSignals DEF SignalMoves
<1>3. ASSUME NEW l \in late' PROVE Fits(l.signal, l.cmd)
  <2>1. \/ l \in late
        \/ \E a \in Actors : run[a].pc = "send" /\ l.signal = run[a].signal /\ l.cmd = run[a].cmd
    BY NextMoves
  <2> QED BY <2>1 DEF PortInv
<1>4. pod' # None => pod'.cmd # "PowerOn"
  <2>1. ASSUME NEW s, NEW cmd, Fits(s, cmd), s.kind = "pod" PROVE PodOf(s).cmd # "PowerOn"
    BY <2>1 DEF Fits, Carries, PodOf
  <2> QED BY <2>1, NextMoves DEF PortInv
<1> QED BY <1>2, <1>3, <1>4 DEF PortInv

-----------------------------------------------------------------------------
(* The machine moves the way the command asks for.                         *)

LEMMA CarriedMoves ==
  ASSUME TypeInv, NEW cmd \in Commands, NEW kind \in Carries(cmd) \ {"pod"},
         machine' \in Struck(kind) \cup {machine}
  PROVE  Port!Moves(cmd)
<1>1. machine \in Machines
  BY Typed
<1>2. /\ Off.power = "off" /\ ~Off.stopping
      /\ Booting.power = "booting" /\ ~Booting.stopping
      /\ Stopping.power = machine.power /\ Stopping.stopping = TRUE
  BY <1>1 DEF Off, Booting, Stopping, Machines
<1>3. CASE machine' = machine
  BY <1>3 DEF Port!Moves
<1>4. CASE machine' # machine /\ cmd = "PowerOn"
  <2>1. kind \in {"on", "packet"}
    BY <1>4 DEF Carries
  <2>2. machine.power = "off" /\ machine' = Booting
    BY <1>4, <2>1 DEF Struck
  <2> QED BY <1>2, <1>4, <2>2 DEF Port!Moves
<1>5. CASE machine' # machine /\ cmd = "PowerOff"
  <2>1. kind = "soft"
    BY <1>5 DEF Carries
  <2>2. machine.power = "up" /\ machine' = Stopping
    BY <1>5, <2>1 DEF Struck
  <2> QED BY <1>2, <1>5, <2>2 DEF Port!Moves
<1>6. CASE machine' # machine /\ cmd = "ForceOff"
  <2>1. kind = "hard"
    BY <1>6 DEF Carries
  <2>2. machine.power # "off" /\ machine' = Off
    BY <1>6, <2>1 DEF Struck
  <2> QED BY <1>2, <1>6, <2>2 DEF Port!Moves
<1> QED BY <1>3, <1>4, <1>5, <1>6 DEF Commands

LEMMA DeliveredMoves ==
  ASSUME TypeInv, NEW i \in Interfaces, NEW signal \in Signals, NEW cmd \in Commands,
         Fits(signal, cmd), Deliver(i, signal) \/ UNCHANGED world
  PROVE  Port!Moves(cmd)
<1>1. CASE machine' = machine
  BY <1>1 DEF Port!Moves
<1>2. CASE Deliver(i, signal) /\ signal.kind # "pod"
  <2>1. machine' \in Struck(signal.kind) \cup {machine}
    BY <1>2 DEF Deliver
  <2>2. signal.kind \in Carries(cmd) \ {"pod"}
    BY <1>2 DEF Fits
  <2> QED BY <2>1, <2>2, CarriedMoves
<1> QED BY <1>1, <1>2 DEF Deliver, world

-----------------------------------------------------------------------------
(* The commands that may still act.                                        *)

Orders == [a \in Actors |-> run[a].cmd]

LEMMA AskedAre ==
  ASSUME TypeInv, NEW c
  PROVE  c \in Asked \ {None} <=>
           \/ \E a \in Actors : c = run[a].cmd /\ c # None
           \/ \E l \in late : c = l.cmd
           \/ pod # None /\ c = pod.cmd
<1>1. \A l \in late : l.cmd # None
  BY Typed, NoneAssumption DEF Calls
<1>2. pod # None => pod.cmd # None
  BY Typed, NoneAssumption DEF Pods
<1> QED BY <1>1, <1>2 DEF Asked

\* A command may act only when an actor gives it, or when it might before.
LEMMA AskedMoves ==
  ASSUME TypeInv, PortInv, [Next]_vars, NEW C,
         \A a \in Actors : run'[a].cmd \in {run[a].cmd, None} \cup C
  PROVE  (Asked \ {None})' \subseteq (Asked \ {None}) \cup C
<1>1. TypeInv'
  BY NextType
<1>2. ASSUME NEW a \in Actors, run[a].pc = "send" PROVE run[a].cmd \in Asked \ {None}
  BY <1>2, AskedAre, Typed DEF Underway
<1>3. ASSUME NEW a \in Actors, run'[a].cmd # None PROVE run'[a].cmd \in (Asked \ {None}) \cup C
  BY <1>3, AskedAre
<1>4. ASSUME NEW l \in late' PROVE l.cmd \in Asked \ {None}
  <2>1. \/ l \in late
        \/ \E a \in Actors : run[a].pc = "send" /\ l.cmd = run[a].cmd
    BY NextMoves
  <2> QED BY <1>2, <2>1, AskedAre
<1>5. ASSUME pod' # None PROVE pod'.cmd \in Asked \ {None}
  <2>1. CASE pod' = pod
    BY <1>5, <2>1, AskedAre
  <2>2. ASSUME NEW a \in Actors, run[a].pc = "send", run[a].signal.kind = "pod",
               pod' = PodOf(run[a].signal)
        PROVE  pod'.cmd \in Asked \ {None}
    <3>1. pod'.cmd = run[a].cmd
      BY <2>2 DEF PodOf, PortInv, Fits
    <3> QED BY <1>2, <2>2, <3>1
  <2>3. ASSUME NEW l \in late, l.signal.kind = "pod", pod' = PodOf(l.signal)
        PROVE  pod'.cmd \in Asked \ {None}
    <3>1. pod'.cmd = l.cmd
      BY <2>3 DEF PodOf, PortInv, Fits
    <3> QED BY <3>1, AskedAre
  <2> QED BY <1>5, <2>1, <2>2, <2>3, NextMoves
<1>6. (Asked \ {None})' = ({run'[a].cmd : a \in Actors} \cup {l.cmd : l \in late'}
                           \cup (IF pod' = None THEN {} ELSE {pod'.cmd})) \ {None}
  BY DEF Asked
<1> QED BY <1>3, <1>4, <1>5, <1>6

-----------------------------------------------------------------------------
(* Steps of the port.                                                      *)

\* The orders after the run of one actor has moved on.
LEMMA OrdersMove ==
  ASSUME TypeInv, NEW a \in Actors, NEW c, run'[a].cmd = c,
         \A b \in Actors : b # a => run'[b] = run[b]
  PROVE  Orders' = [Orders EXCEPT ![a] = c]
BY DEF Orders

LEMMA OrdersKept ==
  ASSUME TypeInv, \A a \in Actors : run'[a].cmd = run[a].cmd
  PROVE  Orders' = Orders
BY DEF Orders

\* What moves neither the machine nor an order.
LEMMA Fading ==
  ASSUME TypeInv, PortInv, [Next]_vars, \A a \in Actors : run'[a].cmd = run[a].cmd,
         machine' = machine
  PROVE  Port!Next
<1>1. (Asked \ {None})' \subseteq (Asked \ {None}) \cup {}
  BY AskedMoves
<1>2. Orders' = Orders
  BY OrdersKept
<1> QED BY <1>1, <1>2 DEF Port!Next, Port!Fade, Orders

\* A command that may act acts.
LEMMA Acting ==
  ASSUME TypeInv, PortInv, [Next]_vars, NEW c \in Commands, c \in Asked \ {None},
         Port!Moves(c),
         \/ \A a \in Actors : run'[a].cmd = run[a].cmd
         \/ \E a \in Actors : run'[a].cmd = None /\ \A b \in Actors : b # a => run'[b] = run[b]
  PROVE  Port!Next
<1>1. \A a \in Actors : run'[a].cmd \in {run[a].cmd, None} \cup {}
  OBVIOUS
<1>2. (Asked \ {None})' \subseteq (Asked \ {None}) \cup {}
  BY <1>1, AskedMoves
<1>3. Orders' = Orders \/ \E a \in Actors : Orders' = [Orders EXCEPT ![a] = None]
  BY OrdersKept, OrdersMove
<1>4. Port!Act(c)
  BY <1>2, <1>3 DEF Port!Act, Orders
<1> QED BY <1>4 DEF Port!Next, Port!Commands, Commands

\* An actor gives a command.
LEMMA Giving ==
  ASSUME TypeInv, PortInv, [Next]_vars, NEW a \in Actors, NEW c \in Commands,
         run[a].cmd = None, run'[a].cmd = c, \A b \in Actors : b # a => run'[b] = run[b],
         machine' = machine
  PROVE  Port!Next
<1>1. \A b \in Actors : run'[b].cmd \in {run[b].cmd, None} \cup {c}
  OBVIOUS
<1>2. (Asked \ {None})' \subseteq (Asked \ {None}) \cup {c}
  BY <1>1, AskedMoves
<1>3. Orders[a] = None /\ Orders' = [Orders EXCEPT ![a] = c]
  BY OrdersMove DEF Orders
<1>4. Port!Give(a, c)
  BY <1>2, <1>3 DEF Port!Give, Orders
<1> QED BY <1>4 DEF Port!Next, Port!Commands, Commands

-----------------------------------------------------------------------------
(* Every step of the chain is a step of the port.                          *)

\* A command that an actor gives or that is late may act.
LEMMA GivenAsked ==
  ASSUME TypeInv, NEW a \in Actors, run[a].pc \in {"command", "send"}
  PROVE  run[a].cmd \in Commands /\ run[a].cmd \in Asked \ {None}
<1>1. run[a] \in Runs /\ run[a].cmd # None
  BY Typed DEF Underway
<1>2. run[a].cmd \in Commands
  BY <1>1 DEF Runs
<1> QED BY <1>1, <1>2, AskedAre

LEMMA StepPort ==
  ASSUME TypeInv, PortInv, NEW a \in Actors, Step(a), [Next]_vars
  PROVE  Port!Next
<1> DEFINE others == \A b \in Actors : b # a => run'[b] = run[b]
<1>1. run[a] \in Runs /\ Underway(run[a])
  BY Typed
<1>2. ASSUME run'[a].cmd = run[a].cmd, others, machine' = machine PROVE Port!Next
  BY <1>2, Fading
<1>3. ASSUME run'[a].cmd = None, others, machine' = machine PROVE Port!Next
  <2>1. CASE run[a].pc \in {"command", "send"}
    <3>1. Port!Moves(run[a].cmd)
      BY <1>3 DEF Port!Moves
    <3> QED BY <1>3, <2>1, <3>1, GivenAsked, Acting
  <2>2. CASE run[a].pc \notin {"command", "send"}
    <3>1. run[a].cmd = None
      BY <1>1, <2>2 DEF Underway
    <3> QED BY <1>2, <1>3, <3>1
  <2> QED BY <2>1, <2>2
<1>4. ASSUME Ended(a) PROVE run'[a].cmd = None /\ others
  BY <1>4, EndedRun DEF IdleRun
<1>5. ASSUME NEW i \in Interfaces, Failed(a, i) PROVE run'[a].cmd = run[a].cmd /\ others
  BY <1>1, <1>5, FailedRun, AfterType
<1>6. CASE a = "operator" /\ Identify
  <2>1. PICK r \in Runs : Underway(r) /\ run' = [run EXCEPT ![a] = r] /\ r.cmd = run[a].cmd
    BY <1>6, IdentifyRun, Zenon
  <2>2. run'[a].cmd = run[a].cmd /\ others
    BY <2>1, RunMoves
  <2>3. machine' = machine
    BY <1>6 DEF Identify, world
  <2> QED BY <1>2, <2>2, <2>3
<1>7. CASE Status(a)
  <2>1. machine' = machine /\ run[a].pc = "status"
    BY <1>7 DEF Status, world
  <2>2. ASSUME NEW cmd \in Commands, Gives(a, cmd) PROVE Port!Next
    <3>1. PICK r \in Runs : Underway(r) /\ run' = [run EXCEPT ![a] = r] /\ r.cmd = cmd
      BY <2>1, <2>2, GivesRun
    <3>2. run'[a].cmd = cmd /\ others
      BY <3>1, RunMoves
    <3>3. run[a].cmd = None
      BY <1>1, <2>1 DEF Underway
    <3> QED BY <2>1, <3>2, <3>3, Giving
  <2> QED BY <1>2, <1>3, <1>4, <1>5, <1>7, <2>1, <2>2, StatusRun
<1>8. CASE GiveUp(a)
  <2>1. machine' = machine /\ Ended(a)
    BY <1>8 DEF GiveUp, world
  <2> QED BY <1>3, <1>4, <2>1
<1>9. CASE Prepare(a)
  <2>1. machine' = machine /\ run[a].pc = "command" /\ Queue(run[a], Action(run[a])) # {}
    BY <1>9 DEF Prepare
  <2>2. Via(run[a]) \in Interfaces /\ run[a].cmd \in Commands
    BY <2>1, ViaCommand
  <2>3. ASSUME NEW kind \in Kinds, Readies(a, SignalOf(kind, run[a].cmd)) PROVE Port!Next
    <3>1. SignalOf(kind, run[a].cmd) \in Signals
      BY <2>2, SignalType
    <3>2. PICK r \in Runs : Underway(r) /\ run' = [run EXCEPT ![a] = r] /\ r.cmd = run[a].cmd
      BY <2>1, <2>3, <3>1, ReadiesRun
    <3>3. run'[a].cmd = run[a].cmd /\ others
      BY <3>2, RunMoves
    <3> QED BY <1>2, <2>1, <3>3
  <2> QED BY <1>2, <1>3, <1>4, <1>5, <1>9, <2>1, <2>2, <2>3, PrepareRun
<1>10. CASE Send(a)
  <2>1. /\ Via(run[a]) \in Interfaces /\ run[a].signal \in Signals
        /\ Deliver(Via(run[a]), run[a].signal) \/ UNCHANGED world
        /\ Ended(a) \/ Failed(a, Via(run[a]))
    BY <1>10, SendRun
  <2>2. run[a].pc = "send"
    BY <1>10 DEF Send
  <2>3. run[a].cmd \in Commands /\ run[a].cmd \in Asked \ {None}
    BY <2>2, GivenAsked
  <2>4. Port!Moves(run[a].cmd)
    BY <2>1, <2>2, <2>3, DeliveredMoves DEF PortInv
  <2>5. \/ \A b \in Actors : run'[b].cmd = run[b].cmd
        \/ run'[a].cmd = None /\ others
    BY <1>4, <1>5, <2>1
  <2> QED BY <2>3, <2>4, <2>5, Acting
<1> QED BY <1>6, <1>7, <1>8, <1>9, <1>10 DEF Step

LEMMA StartPort ==
  ASSUME TypeInv, PortInv, NEW a \in Actors, Start(a), [Next]_vars
  PROVE  Port!Next
<1>1. PICK r \in Runs :
        /\ Underway(r) /\ run' = [run EXCEPT ![a] = r]
        /\ r.pc = IF a = "cli" THEN "command" ELSE "identify"
  BY StartRun
<1>2. run'[a] = r /\ \A b \in Actors : b # a => run'[b] = run[b]
  BY <1>1, RunMoves
<1>3. machine' = machine /\ run[a].cmd = None
  BY Typed DEF Start, world, Underway
<1>4. CASE r.cmd = None
  BY <1>2, <1>3, <1>4, Fading
<1>5. CASE r.cmd # None
  <2>1. r.cmd \in Commands
    BY <1>5 DEF Runs
  <2> QED BY <1>2, <1>3, <2>1, Giving
<1> QED BY <1>4, <1>5

LEMMA EnvironmentPort ==
  ASSUME NobodyToggles, TypeInv, PortInv, Environment, [Next]_vars
  PROVE  Port!Next
<1>1. \A a \in Actors : run'[a].cmd = run[a].cmd
  <2>1. run' = run \/ \E i \in Interfaces : Unsteady(i)
    BY DEF Environment, PodActs, PodRefuses, Boots, Stops, Kubelet, Reboot, Person,
           DeleteNode, Late, Break, Repair, Rewire, Tick, outside
  <2> QED BY <2>1, UnsteadyRun
<1>2. machine \in Machines
  BY Typed
<1>3. ASSUME machine' = machine PROVE Port!Next
  BY <1>1, <1>3, Fading
<1>4. CASE PodActs
  <2>1. /\ pod # None /\ machine.power = "up"
        /\ machine' = Stopping
    BY <1>4 DEF PodActs, SameBoot
  <2>2. pod.cmd \in Commands /\ pod.cmd # "PowerOn" /\ pod.cmd \in Asked \ {None}
    BY <2>1, AskedAre, Typed DEF PortInv, Pods
  <2>3. Stopping.power = machine.power /\ Stopping.stopping = TRUE
    BY <1>2 DEF Stopping, Machines
  <2>4. Port!Moves(pod.cmd)
    BY <2>1, <2>2, <2>3 DEF Port!Moves, Commands
  <2> QED BY <1>1, <2>2, <2>4, Acting
<1>5. CASE Boots \/ Stops \/ Reboot
  <2>1. /\ Off.power = "off" /\ Off.stopping = FALSE
        /\ Booting.power = "booting" /\ Booting.stopping = FALSE
    BY DEF Off, Booting
  <2>2. UNCHANGED <<pod, run, late>>
    BY <1>5 DEF Boots, Stops, Reboot, outside
  <2>3. \/ machine.power = "booting" /\ machine'.power = "up" /\ machine'.stopping = machine.stopping
        \/ machine.stopping /\ machine'.power = "off" /\ machine'.stopping = FALSE
        \/ /\ machine.power = "up" /\ ~machine.stopping
           /\ machine'.power = "booting" /\ machine'.stopping = machine.stopping
    BY <1>2, <1>5, <2>1 DEF Boots, Stops, Reboot, Machines
  <2> QED BY <2>2, <2>3 DEF Port!Next, Port!Machine, Asked
<1>6. CASE \E l \in late : Late(l)
  <2>1. PICK l \in late : Late(l)
    BY <1>6
  <2>2. /\ l.via \in Interfaces /\ l.signal \in Signals /\ l.cmd \in Commands
        /\ Fits(l.signal, l.cmd) /\ l.cmd \in Asked \ {None}
    <3>1. l \in Calls /\ l.cmd # None
      BY Typed, NoneAssumption DEF Calls
    <3> QED BY <3>1, AskedAre DEF Calls, PortInv
  <2>3. Port!Moves(l.cmd)
    BY <2>1, <2>2, DeliveredMoves DEF Late
  <2> QED BY <1>1, <2>2, <2>3, Acting
<1>7. CASE \/ PodRefuses \/ Kubelet \/ DeleteNode \/ Tick
           \/ \E i \in Interfaces, h \in Health \ {"ok"} : Break(i, h)
           \/ \E i \in Interfaces : Repair(i) \/ Rewire(i)
  BY <1>3, <1>7 DEF PodRefuses, Kubelet, DeleteNode, Break, Repair, Rewire, Tick, world
<1>8. ~Person
  BY DEF Person, Spend, NobodyToggles
<1> QED BY <1>4, <1>5, <1>6, <1>7, <1>8 DEF Environment

\* Whatever fails, however late a call acts, and however many actors use the chain,
\* the machine only moves the way a command that may still act asked for
\* (drivers/chain.rs and the drivers, as controller/node_power_management_config.rs
\* relies on them), if no button toggles and no person switches the machine.
THEOREM ImplementsPort == ASSUME NobodyToggles PROVE Spec => Implements
<1>1. Init => Port!Init
  <2> SUFFICES ASSUME Init PROVE Port!Init
    OBVIOUS
  <2>1. machine.power \in {"off", "up"} /\ machine.stopping = FALSE
    <3>1. machine \in [power : {"off", "up"}, stopping : {FALSE}, boot : {1}]
      BY Zenon DEF Init
    <3> QED BY <3>1
  <2>2. pod = None /\ late = {} /\ run = [a \in Actors |-> IdleRun] /\ IdleRun.cmd = None
    BY DEF Init, IdleRun
  <2>3. Asked \ {None} = {}
    BY <2>2 DEF Asked
  <2> QED BY <2>1, <2>2, <2>3 DEF Port!Init
<1>2. TypeInv /\ PortInv /\ [Next]_vars => [Port!Next]_(Port!vars)
  <2> SUFFICES ASSUME TypeInv, PortInv, [Next]_vars PROVE [Port!Next]_(Port!vars)
    OBVIOUS
  <2>1. CASE UNCHANGED vars
    BY <2>1 DEF vars, world, Port!vars, Asked
  <2> QED BY <2>1, StepPort, StartPort, EnvironmentPort DEF Next
<1> QED
  BY <1>1, <1>2, InitType, NextType, InitFits, NextFits, PTL DEF Spec, Implements, Port!Spec
=============================================================================
