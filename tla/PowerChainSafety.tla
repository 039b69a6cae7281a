-------------------------- MODULE PowerChainSafety --------------------------
(***************************************************************************)
(* The action properties of PowerChain, for every chain of interfaces and  *)
(* every bound: a late host command pod is harmless, the chain falls back, *)
(* and an interface of another machine is used only for a bounded time.    *)
(***************************************************************************)
EXTENDS PowerChainProofs

-----------------------------------------------------------------------------
(* The host command pod.                                                   *)

\* A pod, or the signal that creates one, carries a boot id that is not newer than
\* the boot it was asked in, which is not newer than the present one.
Recent(s, boot) == s.boot \in Nat /\ s.asked \in Nat /\ s.boot =< s.asked /\ s.asked =< boot

\* No boot id is ahead of the machine's.
BootIds ==
  /\ node.boot =< machine.boot
  /\ pod # None => Recent(pod, machine.boot)
  /\ \A l \in late : l.signal.kind = "pod" => Recent(l.signal, machine.boot)
  /\ \A a \in Actors : run[a].signal # None /\ run[a].signal.kind = "pod"
                         => Recent(run[a].signal, machine.boot)

LEMMA InitBootIds == Init => BootIds
<1> SUFFICES ASSUME Init PROVE BootIds
  OBVIOUS
<1>1. pod = None /\ late = {} /\ \A a \in Actors : run[a].signal = None
  BY DEF Init, IdleRun
<1>2. machine.boot = 1
  <2>1. machine \in [power : {"off", "up"}, stopping : {FALSE}, boot : {1}]
    BY Zenon DEF Init
  <2> QED BY <2>1
<1>3. node.boot \in {0, 1}
  <2>1. \/ node = [known |-> TRUE, ready |-> machine.power = "up", boot |-> 1]
        \/ node = NoNode \/ node = [NoNode EXCEPT !.known = TRUE]
    BY Zenon DEF Init
  <2> QED BY <2>1 DEF NoNode, NoBootId
<1> QED BY <1>1, <1>2, <1>3 DEF BootIds

LEMMA NextBootIds == TypeInv /\ BootIds /\ [Next]_vars => BootIds'
<1> SUFFICES ASSUME TypeInv, BootIds, [Next]_vars PROVE BootIds'
  OBVIOUS
<1>1. /\ machine.boot \in Nat /\ node.boot \in Nat /\ node.boot =< machine.boot
      /\ machine'.boot \in Nat /\ machine.boot =< machine'.boot
  BY Typed, NextMoves DEF Machines, Nodes, BootIds
<1>2. ASSUME NEW s, Recent(s, machine.boot) PROVE Recent(s, machine'.boot)
  BY <1>1, <1>2 DEF Recent
<1>3. ASSUME NEW a \in Actors, run[a].pc = "send", run[a].signal.kind = "pod"
      PROVE  Recent(run[a].signal, machine'.boot)
  BY <1>2, <1>3, Typed DEF BootIds, Underway
<1>4. ASSUME NEW l \in late, l.signal.kind = "pod" PROVE Recent(l.signal, machine'.boot)
  BY <1>2, <1>4 DEF BootIds
<1>5. ASSUME NEW s, Recent(s, machine'.boot) PROVE Recent(PodOf(s), machine'.boot)
  BY <1>5 DEF Recent, PodOf
<1>6. node'.boot =< machine'.boot
  BY <1>1, NextMoves DEF NoBootId
<1>7. pod' # None => Recent(pod', machine'.boot)
  BY <1>2, <1>3, <1>4, <1>5, NextMoves DEF BootIds
<1>8. \A l \in late' : l.signal.kind = "pod" => Recent(l.signal, machine'.boot)
  BY <1>3, <1>4, NextMoves
<1>9. ASSUME NEW a \in Actors, run'[a].signal # None, run'[a].signal.kind = "pod"
      PROVE  Recent(run'[a].signal, machine'.boot)
  <2>1. CASE run'[a].signal = run[a].signal
    BY <1>2, <1>9, <2>1 DEF BootIds
  <2>2. CASE Readied(a)
    <3>1. PICK kind \in Kinds : run'[a].signal = SignalOf(kind, run[a].cmd) /\ run[a].cmd \in Commands
      BY <2>2 DEF Readied
    <3>2. kind = "pod"
      BY <1>9, <3>1, SignalType
    <3>3. run'[a].signal.boot = node.boot /\ run'[a].signal.asked = machine.boot
      BY <3>1, <3>2 DEF SignalOf
    <3> QED BY <1>1, <3>3 DEF Recent
  <2> QED BY <1>9, <2>1, <2>2, NextSignals DEF SignalMoves
<1> QED BY <1>6, <1>7, <1>8, <1>9 DEF BootIds

\* A host command pod that has a boot id to compare and acts was asked for in the
\* boot it shuts down, because that boot id is never ahead of the boot it was asked
\* in (drivers/inband.rs).
THEOREM PodHarmless == Spec => StalePodHarmless
<1>1. TypeInv /\ BootIds /\ [Next]_vars
        => [PodActs /\ pod.boot # NoBootId => pod.asked = machine.boot]_vars
  <2> SUFFICES ASSUME TypeInv, BootIds, PodActs, pod.boot # NoBootId PROVE pod.asked = machine.boot
    OBVIOUS
  <2>1. pod # None /\ pod.boot = machine.boot
    BY DEF PodActs, SameBoot
  <2>2. Recent(pod, machine.boot) /\ machine.boot \in Nat
    BY <2>1, Typed DEF BootIds, Machines
  <2> QED BY <2>1, <2>2 DEF Recent
<1> QED
  BY <1>1, InitType, NextType, InitBootIds, NextBootIds, PTL DEF Spec, StalePodHarmless

-----------------------------------------------------------------------------
(* Falling back.                                                           *)

\* An interface that has answered ever since a run began works, and the walk has
\* passed it over only if it cannot carry out the command.
WalkComplete ==
  \A a \in Actors :
    /\ \A i \in run[a].steady : health[i] = "ok"
    /\ \A i \in run[a].tried \cap run[a].steady : ~Capable(i, run[a].cmd)

\* A run begins a walk, keeps to it, or passes over an interface that does not
\* work or cannot carry out the command.
WalkMoves(a) ==
  /\ \A i \in run'[a].steady : i \in run[a].steady \/ health[i] = "ok"
  /\ \/ run'[a].tried = {}
     \/ /\ run'[a].cmd = run[a].cmd /\ run'[a].steady \subseteq run[a].steady
        /\ \A i \in run'[a].tried : i \in run[a].tried \/ health[i] # "ok" \/ ~Capable(i, run[a].cmd)

LEMMA WalkKept ==
  ASSUME NEW a \in Actors, WalkMoves(a), \A b \in Actors : b # a => run'[b] = run[b]
  PROVE  \A b \in Actors : WalkMoves(b)
BY DEF WalkMoves

LEMMA StepWalk ==
  ASSUME TypeInv, NEW a \in Actors, Step(a) \/ Start(a)
  PROVE  \A b \in Actors : WalkMoves(b)
<1>1. run[a] \in Runs /\ Underway(run[a])
  BY Typed
<1>2. ASSUME Ended(a) PROVE \A b \in Actors : WalkMoves(b)
  <2>1. run'[a] = IdleRun /\ \A b \in Actors : b # a => run'[b] = run[b]
    BY <1>2, EndedRun
  <2>2. IdleRun.tried = {} /\ IdleRun.steady = {}
    BY DEF IdleRun
  <2>3. WalkMoves(a)
    BY <2>1, <2>2 DEF WalkMoves
  <2> QED BY <2>1, <2>3, WalkKept
<1>3. ASSUME NEW i \in Interfaces, Failed(a, i), health[i] # "ok" \/ ~Capable(i, run[a].cmd)
      PROVE  \A b \in Actors : WalkMoves(b)
  <2>1. run'[a] = After(run[a], i) /\ \A b \in Actors : b # a => run'[b] = run[b]
    BY <1>3, FailedRun
  <2>2. /\ run'[a].tried = run[a].tried \cup {i} /\ run'[a].cmd = run[a].cmd
        /\ run'[a].steady = run[a].steady
    BY <1>1, <2>1, AfterType
  <2>3. WalkMoves(a)
    BY <1>3, <2>2 DEF WalkMoves
  <2> QED BY <2>1, <2>3, WalkKept
<1>4. ASSUME NEW r \in Runs, Underway(r), run' = [run EXCEPT ![a] = r],
             r.steady = run[a].steady, r.tried = {} \/ (r.tried = run[a].tried /\ r.cmd = run[a].cmd)
      PROVE  \A b \in Actors : WalkMoves(b)
  <2>1. run'[a] = r /\ \A b \in Actors : b # a => run'[b] = run[b]
    BY <1>4, RunMoves
  <2>2. WalkMoves(a)
    BY <1>4, <2>1 DEF WalkMoves
  <2> QED BY <2>1, <2>2, WalkKept
<1>5. CASE Start(a)
  <2>1. PICK r \in Runs :
          /\ Underway(r) /\ run' = [run EXCEPT ![a] = r] /\ r.tried = {}
          /\ \A i \in r.steady : health[i] = "ok" /\ wired[i] = "this"
    BY <1>5, StartRun
  <2>2. run'[a] = r /\ \A b \in Actors : b # a => run'[b] = run[b]
    BY <2>1, RunMoves
  <2>3. WalkMoves(a)
    BY <2>1, <2>2 DEF WalkMoves
  <2> QED BY <2>2, <2>3, WalkKept
<1>6. CASE a = "operator" /\ Identify
  <2>1. PICK r \in Runs :
          /\ Underway(r) /\ run' = [run EXCEPT !["operator"] = r]
          /\ r.tried = run["operator"].tried /\ r.cmd = run["operator"].cmd
          /\ r.steady = run["operator"].steady
    BY <1>6, IdentifyRun, Zenon
  <2> QED BY <1>4, <1>6, <2>1
<1>7. CASE Status(a)
  <2>1. run[a].pc = "status" /\ run[a].cmd = None
    BY <1>1, <1>7 DEF Status, Underway
  <2>2. ASSUME NEW cmd \in Commands, Gives(a, cmd) PROVE \A b \in Actors : WalkMoves(b)
    <3>1. PICK r \in Runs :
            /\ Underway(r) /\ run' = [run EXCEPT ![a] = r]
            /\ r.tried = {} /\ r.steady = run[a].steady
      BY <2>1, <2>2, GivesRun
    <3> QED BY <1>4, <3>1
  <2>3. CASE Via(run[a]) \in Interfaces /\ Failed(a, Via(run[a]))
             /\ (~Answers(Via(run[a])) \/ Chain[Via(run[a])].driver = "ping")
    <3>1. health[Via(run[a])] # "ok" \/ ~Capable(Via(run[a]), run[a].cmd)
      BY <2>3 DEF Answers, Capable
    <3> QED BY <1>3, <2>3, <3>1
  <2> QED BY <1>2, <1>7, <2>2, <2>3, StatusRun
<1>8. CASE GiveUp(a)
  BY <1>2, <1>8 DEF GiveUp
<1>9. CASE Prepare(a)
  <2>1. run[a].pc = "command" /\ Queue(run[a], Action(run[a])) # {}
    BY <1>9 DEF Prepare
  <2>2. Via(run[a]) \in Interfaces /\ run[a].cmd \in Commands
    BY <2>1, ViaCommand
  <2>3. ASSUME NEW kind \in Kinds, Readies(a, SignalOf(kind, run[a].cmd))
        PROVE  \A b \in Actors : WalkMoves(b)
    <3>1. SignalOf(kind, run[a].cmd) \in Signals
      BY <2>2, SignalType
    <3>2. PICK r \in Runs :
            /\ Underway(r) /\ run' = [run EXCEPT ![a] = r]
            /\ r.tried = run[a].tried /\ r.cmd = run[a].cmd /\ r.steady = run[a].steady
      BY <2>1, <2>3, <3>1, ReadiesRun
    <3> QED BY <1>4, <3>2
  <2>4. CASE Failed(a, Via(run[a])) /\ (~Answers(Via(run[a])) \/ ~Capable(Via(run[a]), run[a].cmd))
    <3>1. health[Via(run[a])] # "ok" \/ ~Capable(Via(run[a]), run[a].cmd)
      BY <2>4 DEF Answers
    <3> QED BY <1>3, <2>2, <2>4, <3>1
  <2> QED BY <1>2, <1>9, <2>3, <2>4, PrepareRun
<1>10. CASE Send(a)
  BY <1>2, <1>3, <1>10, SendRun
<1> QED BY <1>5, <1>6, <1>7, <1>8, <1>9, <1>10 DEF Step

LEMMA InitWalk == Init => WalkComplete
BY DEF Init, WalkComplete, IdleRun

LEMMA NextWalk == TypeInv /\ WalkComplete /\ [Next]_vars => WalkComplete'
<1> SUFFICES ASSUME TypeInv, WalkComplete, [Next]_vars PROVE WalkComplete'
  OBVIOUS
<1>1. ASSUME NEW a \in Actors, Step(a) \/ Start(a) PROVE WalkComplete'
  <2>1. \A b \in Actors : WalkMoves(b)
    BY <1>1, StepWalk
  <2>2. health' = health
    BY <1>1 DEF Step, Start, Identify, Status, GiveUp, Prepare, Send
  <2> QED BY <2>1, <2>2 DEF WalkComplete, WalkMoves, Capable
<1>2. ASSUME NEW i \in Interfaces, Break(i, "unbuildable") \/ Break(i, "down") \/ Break(i, "mute")
                                   \/ Rewire(i)
      PROVE  WalkComplete'
  <2>1. Unsteady(i) /\ \A j \in Interfaces : j # i => health'[j] = health[j]
    BY <1>2, Typed DEF Break, Rewire
  <2>2. \A a \in Actors : run[a].steady \subseteq Interfaces
    BY Typed DEF Runs
  <2> QED BY <2>1, <2>2, UnsteadyRun DEF WalkComplete, Capable
<1>3. ASSUME NEW i \in Interfaces, Repair(i) PROVE WalkComplete'
  <2>1. run' = run /\ health'[i] = "ok" /\ \A j \in Interfaces : j # i => health'[j] = health[j]
    BY <1>3, Typed DEF Repair
  <2>2. \A a \in Actors : run[a].steady \subseteq Interfaces
    BY Typed DEF Runs
  <2> QED BY <2>1, <2>2 DEF WalkComplete, Capable
<1>4. CASE UNCHANGED <<run, health>>
  BY <1>4 DEF WalkComplete, Capable
<1>5. CASE Environment
  <2>1. \/ UNCHANGED <<run, health>>
        \/ \E i \in Interfaces : \/ \E h \in Health \ {"ok"} : Break(i, h)
                                 \/ Repair(i)
                                 \/ Rewire(i)
    BY <1>5 DEF Environment, PodActs, PodRefuses, Boots, Stops, Kubelet, Reboot, Person,
                DeleteNode, Late, Tick, outside
  <2> QED BY <1>2, <1>3, <1>4, <2>1 DEF Health
<1>6. CASE UNCHANGED vars
  BY <1>4, <1>6 DEF vars
<1> QED BY <1>1, <1>5, <1>6 DEF Next

\* An operation gives up only when every interface it may use has failed or cannot
\* carry it out, because the walk passes over no interface that has answered ever
\* since it began (drivers/chain.rs attempt).
THEOREM FallsBack == Spec => FallbackReached
<1>1. TypeInv /\ WalkComplete =>
        \A a \in Actors : GiveUp(a) =>
          \A i \in run[a].links \cap run[a].steady :
            ~(handles(i, Action(run[a])) /\ Capable(i, run[a].cmd))
  <2> SUFFICES ASSUME TypeInv, WalkComplete, NEW a \in Actors, GiveUp(a),
                      NEW i \in run[a].links \cap run[a].steady, handles(i, Action(run[a]))
               PROVE  ~Capable(i, run[a].cmd)
    OBVIOUS
  <2>1. Queue(run[a], Action(run[a])) = {}
    BY DEF GiveUp
  <2>2. i \in run[a].tried
    BY <2>1 DEF Queue
  <2> QED BY <2>2 DEF WalkComplete
<1> QED
  BY <1>1, InitType, NextType, InitWalk, NextWalk, PTL DEF Spec, FallbackReached

-----------------------------------------------------------------------------
(* The time a wrong wiring may be used.                                    *)

Reported(i, results) == [label |-> Chain[i].label, check |-> "Mismatch"] \in results

\* An interface that a check could find out has been so since a time that is not
\* in the future.
SinceCorrect ==
  \A i \in Interfaces : since[i] # None => Detectable(i) /\ since[i] \in 0..now

\* What the cached results do not report could be found out only from the time of
\* the reconcile that obtained them.
CacheRecent ==
  cache # None =>
    \A i \in Interfaces : since[i] # None /\ ~Reported(i, cache.results)
                            => cache.at =< since[i] + RunLimit

\* A reconcile that has not checked the identities could have found out none of the
\* interfaces it has not built, nor any if it read no Node.
UncheckedRecent(r) ==
  r.pc = "identify" =>
    \A i \in Interfaces : since[i] # None /\ (~r.known \/ i \notin r.links) => r.at =< since[i]

\* One that has checked them uses an interface that could be found out only if the
\* interface did not answer, or for a bounded time.
CheckedRecent(r) ==
  r.pc \in {"status", "command", "send"} =>
    \A i \in r.links : since[i] # None =>
      i \in r.unchecked \/ r.at < since[i] + IdentityTTL + RunLimit

\* It is short.
Bounded(r) == r.pc # "idle" => r.at =< now /\ now =< r.at + RunLimit

Exposure(r) == UncheckedRecent(r) /\ CheckedRecent(r) /\ Bounded(r)

GateInv ==
  /\ SinceCorrect /\ CacheRecent
  /\ "operator" \in Actors => Exposure(run["operator"])

\* Times.
LEMMA Times ==
  ASSUME TypeInv
  PROVE  /\ now \in Nat /\ RunLimit \in Nat /\ IdentityTTL \in Nat \ {0}
         /\ \A i \in Interfaces : since[i] # None => since[i] \in Nat
         /\ \A a \in Actors : run[a] \in Runs /\ run[a].at \in Nat
         /\ cache # None => cache.at \in Nat /\ cache.at =< now
BY ChainAssumption DEF TypeInv, TypeOK, Runs

\* A step leaves the time since when an interface could be found out, or sets it
\* to the present.
LEMMA HistoryMoves ==
  ASSUME TypeInv, History
  PROVE  \A i \in Interfaces :
           /\ since'[i] # None => Detectable(i)' /\ (since'[i] = now \/ since'[i] = since[i])
           /\ since'[i] # None /\ since'[i] # now => since[i] # None /\ since'[i] = since[i]
BY DEF History, TypeInv, TypeOK

\* What an idle or a fresh run exposes.
LEMMA InitGate == Init => GateInv
<1> SUFFICES ASSUME Init PROVE GateInv
  OBVIOUS
<1>1. /\ since = [i \in Interfaces |-> IF Detectable(i) THEN 0 ELSE None]
      /\ now = 0 /\ cache = None /\ run = [a \in Actors |-> IdleRun]
  BY DEF Init
<1>2. SinceCorrect
  BY <1>1, NoneAssumption DEF SinceCorrect
<1>3. CacheRecent
  BY <1>1 DEF CacheRecent
<1>4. IdleRun.pc = "idle"
  BY DEF IdleRun
<1>5. Exposure(IdleRun)
  BY <1>4 DEF Exposure, UncheckedRecent, CheckedRecent, Bounded
<1> QED BY <1>1, <1>2, <1>3, <1>5 DEF GateInv

\* Every step but the clock's keeps the history correct.
LEMMA NextSince ==
  ASSUME TypeInv, GateInv, History, now' \in Nat, now =< now'
  PROVE  SinceCorrect'
<1>1. ASSUME NEW i \in Interfaces, since'[i] # None
      PROVE  Detectable(i)' /\ since'[i] \in 0..now'
  BY <1>1, HistoryMoves, Times DEF GateInv, SinceCorrect
<1> QED BY <1>1 DEF SinceCorrect, Detectable, system_id

LEMMA CacheKept ==
  ASSUME TypeInv, GateInv, History, cache' = cache
  PROVE  CacheRecent'
<1>1. ASSUME cache' # None, NEW i \in Interfaces, since'[i] # None, ~Reported(i, cache'.results)
      PROVE  cache'.at =< since'[i] + RunLimit
  BY <1>1, HistoryMoves, Times DEF GateInv, CacheRecent
<1> QED BY <1>1 DEF CacheRecent, Reported

\* A run that has not moved on, or has only passed over an interface or come to
\* its command, exposes what it did.
LEMMA ExposureKept ==
  ASSUME TypeInv, GateInv, History, NEW q \in Runs, NEW r \in Runs, Exposure(q),
         now' \in Nat, now =< now', r.pc # "idle" => now' =< r.at + RunLimit,
         \/ r.pc = "idle"
         \/ /\ r.at = q.at /\ r.known = q.known /\ r.links = q.links /\ r.unchecked = q.unchecked
            /\ q.pc # "idle" /\ (q.pc = "identify" <=> r.pc = "identify")
  PROVE  Exposure(r)'
<1>1. CASE r.pc = "idle"
  BY <1>1 DEF Exposure, UncheckedRecent, CheckedRecent, Bounded
<1>2. CASE r.pc # "idle"
  <2>1. /\ r.at = q.at /\ r.known = q.known /\ r.links = q.links /\ r.unchecked = q.unchecked
        /\ q.pc # "idle" /\ (q.pc = "identify" <=> r.pc = "identify")
    BY <1>2
  <2>2. q.at \in Nat /\ q.at =< now /\ q.links \subseteq Interfaces
    BY <1>2, <2>1 DEF Exposure, Bounded, Runs
  <2>3. Bounded(r)'
    BY <1>2, <2>1, <2>2, Times DEF Bounded
  <2>4. UncheckedRecent(r)'
    <3>1. ASSUME r.pc = "identify", NEW i \in Interfaces, since'[i] # None, ~r.known \/ i \notin r.links
          PROVE  r.at =< since'[i]
      BY <2>1, <2>2, <3>1, HistoryMoves, Times DEF Exposure, UncheckedRecent
    <3> QED BY <3>1 DEF UncheckedRecent
  <2>5. CheckedRecent(r)'
    <3>1. ASSUME r.pc \in {"status", "command", "send"}, NEW i \in r.links,
                 since'[i] # None, i \notin r.unchecked
          PROVE  r.at < since'[i] + IdentityTTL + RunLimit
      <4>1. q.pc \in {"status", "command", "send"}
        BY <2>1, <3>1 DEF Runs
      <4>2. i \in Interfaces
        BY <2>1, <2>2
      <4>3. CASE since'[i] = now
        BY <2>1, <2>2, <4>3, Times
      <4>4. CASE since'[i] # now
        BY <2>1, <2>2, <3>1, <4>1, <4>2, <4>4, HistoryMoves, Times DEF Exposure, CheckedRecent
      <4> QED BY <4>3, <4>4
    <3> QED BY <3>1 DEF CheckedRecent
  <2> QED BY <2>3, <2>4, <2>5 DEF Exposure
<1> QED BY <1>1, <1>2

LEMMA GateOf ==
  ASSUME SinceCorrect', CacheRecent',
         "operator" \in Actors => \E r \in Runs : run'["operator"] = r /\ Exposure(r)'
  PROVE  GateInv'
BY DEF GateInv, Exposure, UncheckedRecent, CheckedRecent, Bounded

\* A step that is not of the operator's run.
LEMMA OthersGate ==
  ASSUME TypeInv, GateInv, History, cache' = cache, now' \in Nat, now =< now',
         "operator" \in Actors =>
            /\ run'["operator"] \in Runs
            /\ run'["operator"].pc = run["operator"].pc
            /\ run'["operator"].at = run["operator"].at
            /\ run'["operator"].known = run["operator"].known
            /\ run'["operator"].links = run["operator"].links
            /\ run'["operator"].unchecked = run["operator"].unchecked
            /\ run["operator"].pc # "idle" => now' =< run["operator"].at + RunLimit
  PROVE  GateInv'
<1>1. SinceCorrect' /\ CacheRecent'
  BY NextSince, CacheKept
<1>2. ASSUME "operator" \in Actors PROVE \E r \in Runs : run'["operator"] = r /\ Exposure(r)'
  <2> DEFINE q == run["operator"]
  <2>1. q \in Runs /\ Exposure(q)
    BY <1>2, Times DEF GateInv
  <2>2. PICK r \in Runs : run'["operator"] = r
    BY <1>2
  <2>3. /\ r.pc = q.pc /\ r.at = q.at /\ r.known = q.known /\ r.links = q.links
        /\ r.unchecked = q.unchecked /\ (r.pc # "idle" => now' =< r.at + RunLimit)
    BY <1>2, <2>2
  <2> HIDE DEF q
  <2>4. Exposure(r)'
    BY <2>1, <2>3, ExposureKept
  <2> QED BY <2>2, <2>4
<1> QED BY <1>1, <1>2, GateOf

\* A step of the operator's run that leaves what was checked.
LEMMA OwnGate ==
  ASSUME TypeInv, GateInv, History, "operator" \in Actors, cache' = cache, now' = now,
         NEW r \in Runs, run'["operator"] = r,
         \/ r.pc = "idle"
         \/ /\ r.at = run["operator"].at /\ r.known = run["operator"].known
            /\ r.links = run["operator"].links /\ r.unchecked = run["operator"].unchecked
            /\ run["operator"].pc # "idle"
            /\ (run["operator"].pc = "identify" <=> r.pc = "identify")
  PROVE  GateInv'
<1> DEFINE q == run["operator"]
<1>1. now' \in Nat /\ now =< now'
  BY Times
<1>2. SinceCorrect' /\ CacheRecent'
  BY <1>1, NextSince, CacheKept
<1>3. q \in Runs /\ Exposure(q)
  BY Times DEF GateInv
<1>4. r.pc # "idle" => now' =< r.at + RunLimit
  BY <1>3 DEF Exposure, Bounded
<1>5. Exposure(r)'
  <2> HIDE DEF q
  <2>1. \/ r.pc = "idle"
        \/ /\ r.at = q.at /\ r.known = q.known /\ r.links = q.links /\ r.unchecked = q.unchecked
           /\ q.pc # "idle" /\ (q.pc = "identify" <=> r.pc = "identify")
    BY DEF q
  <2> QED BY <1>1, <1>3, <1>4, <2>1, ExposureKept
<1> QED BY <1>2, <1>5, GateOf

\* A check asks the machine behind every interface that answers, so that it leaves
\* no interface in use that could be found out, unless it read no Node or got no answer.
LEMMA CheckFinds ==
  ASSUME TypeInv, SinceCorrect, NEW links \in SUBSET Interfaces, NEW known \in BOOLEAN,
         NEW i \in links, since[i] # None, known, i \notin Silent(links)
  PROVE  Reported(i, check_identity(links, known))
<1>1. system_id(i) = "other"
  BY DEF SinceCorrect, Detectable
<1>2. check(system_id(i), known) = "Mismatch"
  BY <1>1, NoneAssumption DEF check
<1>3. i \notin Silent(links)
  OBVIOUS
<1> QED BY <1>2, <1>3 DEF Reported, check_identity

LEMMA IdentifyGate == ASSUME TypeInv, GateInv, Identify, History PROVE GateInv'
<1> DEFINE q == run["operator"]
           silent == IF cached THEN {} ELSE Silent(q.links)
           fresh == check_identity(q.links, q.known)
           results == IF cached THEN cache.results ELSE fresh
<1>1. /\ "operator" \in Actors /\ q.pc = "identify"
      /\ UNCHANGED <<world, wired, health, late, now, faults>>
  BY DEF Identify
<1>2. PICK r \in Runs :
        /\ Underway(r) /\ run' = [run EXCEPT !["operator"] = r]
        /\ r.pc = "status" /\ r.at = q.at /\ r.known = q.known
        /\ r.links = disable_mismatched(q.links, results) /\ r.unchecked = silent
        /\ cache' = IF cached THEN cache ELSE put(results, silent)
  BY IdentifyRun, Zenon
<1>3. /\ q \in Runs /\ q.at \in Nat /\ q.at =< now /\ now =< q.at + RunLimit
      /\ UncheckedRecent(q) /\ q.links \subseteq Interfaces /\ q.known \in BOOLEAN
  BY <1>1, Times DEF GateInv, Exposure, Bounded, Runs
<1>4. run'["operator"] = r
  BY <1>1, <1>2, RunMoves
<1>5. /\ SinceCorrect'
      /\ now' = now /\ now \in Nat /\ RunLimit \in Nat /\ IdentityTTL \in Nat \ {0}
  BY <1>1, NextSince, Times
<1> HIDE DEF q, fresh
<1>6. ASSUME NEW i \in Interfaces, since[i] # None, ~Reported(i, fresh), silent = {}, ~cached
      PROVE  q.at =< since[i]
  <2>1. i \notin q.links \/ ~q.known
    BY <1>3, <1>6, CheckFinds DEF fresh, GateInv
  <2> QED BY <1>1, <1>3, <1>6, <2>1 DEF UncheckedRecent
<1>7. CacheRecent'
  <2>1. CASE cache' = cache
    BY <2>1, CacheKept
  <2>2. CASE ~cached /\ silent = {} /\ cache' = [at |-> now, results |-> fresh]
    <3>1. cache'.at = now /\ cache'.results = fresh
      BY <2>2
    <3>2. ASSUME NEW i \in Interfaces, since'[i] # None, ~Reported(i, fresh)
          PROVE  now =< since'[i] + RunLimit
      <4>1. CASE since'[i] = now
        BY <1>5, <4>1
      <4>2. CASE since'[i] # now
        <5>1. since[i] # None /\ since'[i] = since[i] /\ since[i] \in Nat
          BY <3>2, <4>2, HistoryMoves, Times
        <5>2. q.at =< since[i]
          BY <1>6, <2>2, <3>2, <5>1
        <5> QED BY <1>3, <1>5, <5>1, <5>2
      <4> QED BY <4>1, <4>2
    <3> QED BY <3>1, <3>2 DEF CacheRecent, Reported
  <2> QED BY <1>2, <2>1, <2>2 DEF put
<1>8. CheckedRecent(r)'
  <2>1. ASSUME NEW i \in r.links, since'[i] # None, i \notin r.unchecked
        PROVE  r.at < since'[i] + IdentityTTL + RunLimit
    <3>1. i \in q.links /\ i \in Interfaces /\ ~Reported(i, results)
      BY <1>2, <1>3 DEF disable_mismatched, Reported
    <3>2. CASE since'[i] = now
      BY <1>2, <1>3, <1>5, <3>2
    <3>3. CASE since'[i] # now
      <4>1. since[i] # None /\ since'[i] = since[i] /\ since[i] \in Nat
        BY <2>1, <3>1, <3>3, HistoryMoves, Times
      <4>2. CASE cached
        <5>1. cache # None /\ now - cache.at < IdentityTTL /\ results = cache.results
          BY <4>2 DEF cached
        <5>2. cache.at =< since[i] + RunLimit /\ cache.at \in Nat
          BY <3>1, <4>1, <5>1, Times DEF GateInv, CacheRecent
        <5> QED BY <1>2, <1>3, <1>5, <4>1, <5>1, <5>2
      <4>3. CASE ~q.known
        <5>1. q.at =< since[i]
          BY <1>1, <1>3, <3>1, <4>1, <4>3 DEF UncheckedRecent
        <5> QED BY <1>2, <1>3, <1>5, <4>1, <5>1
      <4>4. CASE ~cached /\ q.known
        <5>1. results = fresh /\ i \notin Silent(q.links)
          BY <1>2, <2>1, <4>4
        <5>2. Reported(i, fresh)
          BY <1>2, <1>3, <3>1, <4>1, <4>4, <5>1, CheckFinds DEF fresh, GateInv
        <5> QED BY <3>1, <5>1, <5>2
      <4> QED BY <4>2, <4>3, <4>4
    <3> QED BY <3>2, <3>3
  <2> QED BY <2>1 DEF CheckedRecent
<1>9. Exposure(r)'
  BY <1>2, <1>3, <1>5, <1>8 DEF Exposure, UncheckedRecent, Bounded
<1> QED BY <1>4, <1>5, <1>7, <1>9, GateOf

LEMMA StartGate == ASSUME TypeInv, GateInv, NEW a \in Actors, Start(a), History PROVE GateInv'
<1>1. UNCHANGED <<world, wired, health, cache, late, now, faults>>
  BY DEF Start
<1>2. PICK r \in Runs :
        /\ Underway(r) /\ run' = [run EXCEPT ![a] = r]
        /\ r.pc = IF a = "cli" THEN "command" ELSE "identify"
        /\ r.at = now /\ r.known = node.known
        /\ r.links = {i \in Interfaces : build_driver(i)}
  BY StartRun
<1>3. run'[a] = r /\ \A b \in Actors : b # a => run'[b] = run[b]
  BY <1>2, RunMoves
<1>4. now \in Nat /\ now' = now /\ RunLimit \in Nat
  BY <1>1, Times
<1>5. CASE a = "cli"
  <2>1. "operator" \in Actors => run'["operator"] = run["operator"] /\ run["operator"] \in Runs
    BY <1>3, <1>5, Times
  <2>2. "operator" \in Actors /\ run["operator"].pc # "idle"
          => now' =< run["operator"].at + RunLimit
    BY <1>4 DEF GateInv, Exposure, Bounded
  <2> QED BY <1>1, <1>4, <2>1, <2>2, OthersGate
<1>6. CASE a = "operator"
  <2>1. SinceCorrect' /\ CacheRecent'
    BY <1>1, <1>4, NextSince, CacheKept
  <2>2. r.pc = "identify"
    BY <1>2, <1>6
  <2>3. UncheckedRecent(r)'
    <3>1. ASSUME NEW i \in Interfaces, since'[i] # None, ~r.known \/ i \notin r.links
          PROVE  FALSE
      <4>1. Detectable(i)'
        BY <3>1, HistoryMoves
      <4>2. health[i] # "unbuildable" /\ node.known
        BY <1>1, <4>1 DEF Detectable, world
      <4> QED BY <1>2, <3>1, <4>2 DEF build_driver
    <3> QED BY <3>1 DEF UncheckedRecent
  <2>4. Exposure(r)'
    BY <1>2, <1>4, <2>2, <2>3 DEF Exposure, CheckedRecent, Bounded
  <2> QED BY <1>3, <1>6, <2>1, <2>4, GateOf
<1> QED BY <1>5, <1>6, ChainAssumption

LEMMA StepGate == ASSUME TypeInv, GateInv, NEW a \in Actors, Step(a) PROVE GateInv'
<1>1. History
  BY DEF Step
<1>2. CASE a = "operator" /\ Identify
  BY <1>1, <1>2, IdentifyGate
<1>3. CASE Status(a) \/ GiveUp(a) \/ Prepare(a) \/ Send(a)
  <2>1. cache' = cache /\ now' = now /\ now \in Nat /\ run[a] \in Runs /\ Underway(run[a])
    BY <1>3, Times, Typed DEF Status, GiveUp, Prepare, Send
  <2>2. ASSUME NEW r \in Runs, run'[a] = r, \A b \in Actors : b # a => run'[b] = run[b],
               \/ r.pc = "idle"
               \/ /\ r.at = run[a].at /\ r.known = run[a].known
                  /\ r.links = run[a].links /\ r.unchecked = run[a].unchecked
                  /\ run[a].pc \in {"status", "command", "send"}
                  /\ r.pc \in {"status", "command", "send"}
        PROVE  GateInv'
    <3>1. CASE a = "operator"
      BY <1>1, <2>1, <2>2, <3>1, OwnGate
    <3>2. CASE a # "operator"
      <4>1. "operator" \in Actors => run'["operator"] = run["operator"] /\ run["operator"] \in Runs
        BY <2>2, <3>2, Times
      <4>2. "operator" \in Actors /\ run["operator"].pc # "idle"
              => now' =< run["operator"].at + RunLimit
        BY <2>1 DEF GateInv, Exposure, Bounded
      <4> QED BY <1>1, <2>1, <4>1, <4>2, OthersGate
    <3> QED BY <3>1, <3>2
  <2>3. ASSUME Ended(a) PROVE GateInv'
    <3>1. /\ run'[a] = IdleRun /\ \A b \in Actors : b # a => run'[b] = run[b]
          /\ IdleRun.pc = "idle"
      BY <2>3, EndedRun DEF IdleRun
    <3> QED BY <2>2, <3>1, IdleType
  <2>4. ASSUME NEW i \in Interfaces, Failed(a, i), run[a].pc \in {"status", "command", "send"}
        PROVE  GateInv'
    <3> DEFINE r == After(run[a], i)
    <3>1. run'[a] = r /\ \A b \in Actors : b # a => run'[b] = run[b]
      BY <2>4, FailedRun
    <3>2. /\ r \in Runs /\ r.at = run[a].at /\ r.known = run[a].known
          /\ r.links = run[a].links /\ r.unchecked = run[a].unchecked
          /\ r.pc = IF run[a].pc = "send" THEN "command" ELSE run[a].pc
      BY <2>1, AfterType
    <3> HIDE DEF r
    <3>3. r.pc \in {"status", "command", "send"}
      BY <2>4, <3>2
    <3> QED BY <2>2, <2>4, <3>1, <3>2, <3>3
  <2>5. CASE Status(a)
    <3>1. run[a].pc = "status"
      BY <2>5 DEF Status
    <3>2. ASSUME NEW cmd \in Commands, Gives(a, cmd) PROVE GateInv'
      <4>1. PICK r \in Runs :
              /\ Underway(r) /\ run' = [run EXCEPT ![a] = r] /\ r.pc = "command"
              /\ r.at = run[a].at /\ r.known = run[a].known
              /\ r.links = run[a].links /\ r.unchecked = run[a].unchecked
        BY <3>1, <3>2, GivesRun
      <4>2. run'[a] = r /\ \A b \in Actors : b # a => run'[b] = run[b]
        BY <4>1, RunMoves
      <4> QED BY <2>2, <3>1, <4>1, <4>2
    <3> QED BY <2>3, <2>4, <2>5, <3>1, <3>2, StatusRun
  <2>6. CASE GiveUp(a)
    BY <2>3, <2>6 DEF GiveUp
  <2>7. CASE Prepare(a)
    <3>1. run[a].pc = "command" /\ Queue(run[a], Action(run[a])) # {}
      BY <2>7 DEF Prepare
    <3>2. Via(run[a]) \in Interfaces /\ run[a].cmd \in Commands
      BY <3>1, ViaCommand
    <3>3. ASSUME NEW kind \in Kinds, Readies(a, SignalOf(kind, run[a].cmd)) PROVE GateInv'
      <4>1. SignalOf(kind, run[a].cmd) \in Signals
        BY <3>2, SignalType
      <4>2. PICK r \in Runs :
              /\ Underway(r) /\ run' = [run EXCEPT ![a] = r] /\ r.pc = "send"
              /\ r.at = run[a].at /\ r.known = run[a].known
              /\ r.links = run[a].links /\ r.unchecked = run[a].unchecked
        BY <3>1, <3>3, <4>1, ReadiesRun
      <4>3. run'[a] = r /\ \A b \in Actors : b # a => run'[b] = run[b]
        BY <4>2, RunMoves
      <4> QED BY <2>2, <3>1, <4>2, <4>3
    <3> QED BY <2>3, <2>4, <2>7, <3>1, <3>2, <3>3, PrepareRun
  <2>8. CASE Send(a)
    <3>1. run[a].pc = "send"
      BY <2>8 DEF Send
    <3> QED BY <2>3, <2>4, <2>8, <3>1, SendRun
  <2> QED BY <1>3, <2>5, <2>6, <2>7, <2>8
<1> QED BY <1>2, <1>3 DEF Step

LEMMA EnvironmentGate == ASSUME TypeInv, GateInv, Environment, History PROVE GateInv'
<1>1. cache' = cache
  BY DEF Environment, PodActs, PodRefuses, Boots, Stops, Kubelet, Reboot, Person,
         DeleteNode, Late, Break, Repair, Rewire, Tick, outside
<1>2. run' = run \/ \E i \in Interfaces : Unsteady(i)
  BY DEF Environment, PodActs, PodRefuses, Boots, Stops, Kubelet, Reboot, Person,
         DeleteNode, Late, Break, Repair, Rewire, Tick, outside
<1>3. now' = now \/ Tick
  BY DEF Environment, PodActs, PodRefuses, Boots, Stops, Kubelet, Reboot, Person,
         DeleteNode, Late, Break, Repair, Rewire, outside
<1>4. now' \in Nat /\ now =< now'
  BY <1>3, Times DEF Tick
<1>5. "operator" \in Actors =>
        /\ run'["operator"] \in Runs
        /\ run'["operator"].pc = run["operator"].pc
        /\ run'["operator"].at = run["operator"].at
        /\ run'["operator"].known = run["operator"].known
        /\ run'["operator"].links = run["operator"].links
        /\ run'["operator"].unchecked = run["operator"].unchecked
  BY <1>2, Times, UnsteadyRun
<1>6. ASSUME "operator" \in Actors, run["operator"].pc # "idle"
      PROVE  now' =< run["operator"].at + RunLimit
  <2>1. CASE now' = now
    BY <1>6, <2>1 DEF GateInv, Exposure, Bounded
  <2>2. CASE Tick
    BY <1>6, <2>2, Times DEF Tick
  <2> QED BY <1>3, <2>1, <2>2
<1> QED BY <1>1, <1>4, <1>5, <1>6, OthersGate

LEMMA NextGate == TypeInv /\ GateInv /\ [Next]_vars => GateInv'
<1> SUFFICES ASSUME TypeInv, GateInv, [Next]_vars PROVE GateInv'
  OBVIOUS
<1>1. CASE UNCHANGED vars
  BY <1>1 DEF vars, world, GateInv, SinceCorrect, CacheRecent, Exposure, UncheckedRecent,
              CheckedRecent, Bounded, Detectable, system_id, Reported
<1> QED BY <1>1, StepGate, StartGate, EnvironmentGate DEF Next

\* A reconcile commands another machine through an interface that could be found
\* out only while the interface did not tell its identity to that reconcile, or for
\* IDENTITY_TTL and the length of a reconcile: what the cache keeps is not older,
\* and what it does not report could not be found out when it was filled
\* (controller/mod.rs IdentityCache, reconcile gate 3).
THEOREM WrongWiringBounded == Spec => ExposureBounded
<1>1. ASSUME TypeInv, GateInv, "operator" \in Actors, Send("operator"),
             since[Via(run["operator"])] # None
      PROVE  \/ Via(run["operator"]) \in run["operator"].unchecked
             \/ run["operator"].at < since[Via(run["operator"])] + IdentityTTL + RunLimit
  <2>1. Via(run["operator"]) \in Interfaces /\ Via(run["operator"]) \in run["operator"].links
    BY <1>1, SendRun
  <2>2. run["operator"].pc = "send"
    BY <1>1 DEF Send
  <2> QED BY <1>1, <2>1, <2>2 DEF GateInv, Exposure, CheckedRecent
<1>2. TypeInv /\ GateInv /\ [Next]_vars
        => [LET r == run["operator"]  i == Via(r)
            IN ("operator" \in Actors /\ r.pc = "send" /\ Send("operator")
                 /\ r.signal.kind # "pod" /\ since[i] # None)
                 => i \in r.unchecked \/ r.at < since[i] + IdentityTTL + RunLimit]_vars
  BY <1>1
<1> QED
  BY <1>2, InitType, NextType, InitGate, NextGate, PTL DEF Spec, ExposureBounded
=============================================================================
