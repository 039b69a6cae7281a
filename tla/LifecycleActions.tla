-------------------------- MODULE LifecycleActions --------------------------
(***************************************************************************)
(* What the commands of a reconcile may do, for every value of the         *)
(* constants: OldFailureNeverActs, LeaveOnRespected and LiveMachineSafe.   *)
(* All three rest on what the stored status, and the status a reconcile is *)
(* about to store, say of boots and of changes by hand (RecordsInv).  Two  *)
(* more rest also on what is still to come of a phase, of a decision and   *)
(* of the reconcile in progress: a machine we turned off is marked as such *)
(* (QuietIsMarked, from QuietInv), and one whose power-on failed is left   *)
(* alone for the backoff (BackoffRespected, from BackoffInv).              *)
(***************************************************************************)
EXTENDS LifecycleProofs

\* x and y agree on what only the reconcile writes.
SameRecords(x, y) ==
  /\ x.phase = y.phase /\ x.phase_since = y.phase_since
  /\ x.power_state = y.power_state
  /\ x.boot_failure = y.boot_failure
  /\ x.powered_on_not_ready_since = y.powered_on_not_ready_since
  /\ x.manual_power_on = y.manual_power_on
  /\ x.last_power_action = y.last_power_action

\* What a reconcile is about to store, and what is stored while it runs.
Pending(new) ==
  /\ Boots(new) /\ Till(new, rec.now)
  /\ /\ new.boot_failure # None /\ new.boot_failure = rec.old.boot_failure
     /\ outage \/ new.power_state = "Off"
     => Fresh(new)

RecordsInv ==
  /\ Boots(st)
  /\ Till(st, IF rec.pc = "idle" THEN rec.now ELSE rec.now - 1)
  /\ outage => Fresh(st)
  /\ rec.pc # "idle" => SameRecords(rec.old, st)
  /\ rec.pc = "patch" => Pending(rec.new)

\* A config that was never reconciled records nothing.
LEMMA InitRecords == Init => RecordsInv
<1> SUFFICES ASSUME Init PROVE RecordsInv
  OBVIOUS
<1>1. /\ st.phase = "Unknown" /\ st.boot_failure = None /\ st.manual_power_on = None
      /\ rec.pc = "idle" /\ outage = FALSE
  BY DEF Init, DefaultStatus
<1> QED BY <1>1 DEF RecordsInv, Boots, Till

\* A reconcile in progress has read what is still stored.
LEMMA ActingBoots ==
  ASSUME TypeOK, RecordsInv, rec.pc = "act"
  PROVE  /\ Read(rec) /\ Boots(rec.old) /\ Till(rec.old, rec.now - 1)
         /\ outage => Fresh(rec.old)
BY ActingRead DEF RecordsInv, SameRecords, Boots, Till, Fresh

\* The outcome of a Handle step, as far as the status and the command go: the
\* calls that fail change neither.
LEMMA HandleRecord ==
  ASSUME TypeOK, rec.pc = "act", NEW p, NEW ok \in BOOLEAN, NEW works, NEW helped,
         p \in PowerStates, Handle(p, ok, works, helped)
  PROVE  \E fresh \in BOOLEAN, s3 \in Probe :
           LET out == handle(rec, p, fresh, s3, pods, ok)
           IN /\ machine.power = "up" => fresh
              /\ rec' = [pc |-> "patch", old |-> rec.old, new |-> out.st, now |-> rec.now,
                         cmd |-> out.cmd]
              /\ UNCHANGED <<st, outage>>
<1>1. PICK fresh \in LeaseFresh, s3 \in Probe :
        LET out == Tried(handle(rec, p, fresh, s3, pods, ok), helped)
        IN /\ rec' = [pc |-> "patch", old |-> rec.old, new |-> out.st, now |-> rec.now,
                      cmd |-> out.cmd]
           /\ UNCHANGED <<st, outage>>
  BY Zenon DEF Handle
<1>2. fresh \in BOOLEAN /\ (machine.power = "up" => fresh)
  BY DEF LeaseFresh
<1>3. handle(rec, p, fresh, s3, pods, ok) \in Outcomes
  BY <1>2, ActingRead, HandleType, Zenon
<1>4. \A all \in Outcomes : /\ Tried(all, helped).st = all.st
                             /\ Tried(all, helped).cmd = all.cmd
  BY DEF Tried, Outcomes
<1> QED BY <1>1, <1>2, <1>3, <1>4

\* Handling a reconcile keeps the records in order.
LEMMA HandledRecords ==
  ASSUME TypeOK, RecordsInv, rec.pc = "act", NEW p \in {"On", "Off"}, NEW ok \in BOOLEAN,
         NEW works, NEW helped, Handle(p, ok, works, helped)
  PROVE  RecordsInv'
<1>1. p \in PowerStates
  BY DEF PowerStates
<1>2. PICK fresh \in BOOLEAN, s3 \in Probe :
        LET out == handle(rec, p, fresh, s3, pods, ok)
        IN /\ rec' = [pc |-> "patch", old |-> rec.old, new |-> out.st, now |-> rec.now,
                      cmd |-> out.cmd]
           /\ UNCHANGED <<st, outage>>
  BY <1>1, HandleRecord
<1> DEFINE new == handle(rec, p, fresh, s3, pods, ok).st
<1>3. BootsKept(new, rec)
  BY ActingBoots, HandleBoots
<1> HIDE DEF new
<1>4. /\ rec'.pc = "patch" /\ rec'.old = rec.old /\ rec'.new = new /\ rec'.now = rec.now
      /\ st' = st /\ outage' = outage
  BY <1>2 DEF new
<1>5. Pending(rec.new)'
  BY <1>3, <1>4, ActingBoots DEF Pending, BootsKept
<1> QED BY <1>4, <1>5 DEF RecordsInv

\* Giving up before the handlers run changes only the phase and the power, and
\* drops the decision of a pool that no longer selects the machine.
LEMMA GivenUp ==
  ASSUME TypeOK, BuildFails \/ ReadFails
  PROVE  /\ rec.pc = "act" /\ rec'.pc = "patch" /\ rec'.old = rec.old /\ rec'.now = rec.now
         /\ rec'.cmd = None /\ UNCHANGED <<st, seen, policy, member, now, outage>>
         /\ rec'.new.phase \in {"Error", rec.old.phase} /\ rec'.new.power_state = "Unknown"
         /\ rec'.new.phase_since = rec.old.phase_since
         /\ rec'.new.boot_failure = rec.old.boot_failure
         /\ rec'.new.powered_on_not_ready_since = rec.old.powered_on_not_ready_since
         /\ rec'.new.manual_power_on = rec.old.manual_power_on
         /\ rec'.new.last_power_action = rec.old.last_power_action
         /\ rec'.new.scaling_decision \in {rec.old.scaling_decision, None}
         /\ rec'.new.consistent = rec.old.consistent
         /\ rec'.new.standby_since = rec.old.standby_since
<1> DEFINE x == resolved(rec)
           b == [x EXCEPT !.phase = "Error", !.power_state = "Unknown"]
           d == [x EXCEPT !.power_state = "Unknown"]
           New(y) == /\ y.phase \in {"Error", rec.old.phase} /\ y.power_state = "Unknown"
                     /\ y.phase_since = rec.old.phase_since
                     /\ y.boot_failure = rec.old.boot_failure
                     /\ y.powered_on_not_ready_since = rec.old.powered_on_not_ready_since
                     /\ y.manual_power_on = rec.old.manual_power_on
                     /\ y.last_power_action = rec.old.last_power_action
                     /\ y.scaling_decision \in {rec.old.scaling_decision, None}
                     /\ y.consistent = rec.old.consistent
                     /\ y.standby_since = rec.old.standby_since
<1>1. GiveUp(b) \/ GiveUp(d)
  BY DEF BuildFails, ReadFails
<1>2. rec.pc = "act" /\ UNCHANGED <<st, seen, policy, member, now, outage>>
  BY DEF BuildFails, ReadFails, env
<1>3. /\ x \in Status /\ SameRecords(x, rec.old)
      /\ x.scaling_decision \in {rec.old.scaling_decision, None}
      /\ x.consistent = rec.old.consistent /\ x.standby_since = rec.old.standby_since
  <2>1. Read(rec) /\ rec.old \in Status /\ x \in Status
    BY <1>2, ActingRead, ResolvedType DEF Read
  <2> QED BY <2>1 DEF resolved, SameRecords, Status
<1> HIDE DEF x
<1>4. New(b) /\ New(d)
  BY <1>3 DEF Status, SameRecords
<1> HIDE DEF b, d
<1>5. PICK y \in {b, d} : rec' = [pc |-> "patch", old |-> rec.old, new |-> y, now |-> rec.now, cmd |-> None]
  BY <1>1 DEF GiveUp
<1> QED BY <1>2, <1>4, <1>5

\* So it keeps the records in order too.
LEMMA GivenUpRecords ==
  ASSUME TypeOK, RecordsInv, BuildFails \/ ReadFails
  PROVE  RecordsInv'
<1> DEFINE new == rec'.new
<1>1. /\ rec.pc = "act" /\ rec'.pc = "patch" /\ rec'.old = rec.old /\ rec'.now = rec.now
      /\ UNCHANGED <<st, outage>>
      /\ new.phase \in {"Error", rec.old.phase} /\ new.power_state = "Unknown"
      /\ new.phase_since = rec.old.phase_since
      /\ new.boot_failure = rec.old.boot_failure
      /\ new.powered_on_not_ready_since = rec.old.powered_on_not_ready_since
      /\ new.manual_power_on = rec.old.manual_power_on
  BY GivenUp
<1> HIDE DEF new
<1>2. /\ rec.old \in Status /\ Boots(rec.old) /\ Till(rec.old, rec.now - 1) /\ (outage => Fresh(rec.old))
      /\ rec.now \in Nat
  BY <1>1, ActingBoots DEF Read
<1>3. Boots(new) /\ (outage => Fresh(new))
  BY <1>1, <1>2 DEF Boots, Fresh
<1>4. Till(new, rec.now)
  <2>1. /\ rec.old.boot_failure # None => rec.old.boot_failure.time \in Nat
        /\ rec.old.manual_power_on # None => rec.old.manual_power_on \in Nat
    BY <1>2, StatusFields DEF BootFailures, OptTime
  <2> QED BY <1>1, <1>2, <2>1 DEF Till
<1>5. Pending(rec.new)'
  BY <1>1, <1>3, <1>4 DEF Pending, new
<1> QED BY <1>1, <1>5 DEF RecordsInv

\* The status patch stores the records of the reconcile as they are: nobody
\* else has written them since they were read.
LEMMA PatchStores ==
  ASSUME TypeOK, RecordsInv, Patch
  PROVE  /\ SameRecords(st', rec.new) /\ Pending(rec.new)
         /\ rec'.pc = "idle" /\ rec'.now = rec.now
         /\ outage' = (/\ st'.boot_failure # None /\ st'.boot_failure = rec.old.boot_failure
                       /\ outage \/ st'.power_state = "Off")
<1>1. /\ rec.pc = "patch" /\ st' = merge_diff(st, rec.old, rec.new)
      /\ rec'.pc = "idle" /\ rec'.now = rec.now
      /\ outage' = (/\ st'.boot_failure # None /\ st'.boot_failure = st.boot_failure
                    /\ outage \/ st'.power_state = "Off")
  BY DEF Patch, Stop
<1>2. st \in Status /\ SameRecords(rec.old, st) /\ Pending(rec.new)
  BY <1>1 DEF TypeOK, RecordsInv
<1>3. SameRecords(merge_diff(st, rec.old, rec.new), rec.new)
  <2>1. DOMAIN st = {"phase", "phase_since", "power_state", "node_ready", "consistent", "pools",
          "scaling_decision", "last_power_action", "standby_since", "standby_failed_at",
          "forced_off_at", "drain_failed_at", "boot_failure", "powered_on_not_ready_since",
          "manual_power_on", "manual_power_off"}
    BY <1>2 DEF Status
  <2> QED BY <1>2, <2>1, MergeField DEF SameRecords
<1> QED BY <1>1, <1>2, <1>3 DEF SameRecords

\* Records that were in order a moment ago still are.
LEMMA TillLater ==
  ASSUME NEW s \in Status, NEW n \in Nat, Till(s, n - 1)
  PROVE  Till(s, n)
<1>1. /\ s.boot_failure # None => s.boot_failure.time \in Nat
      /\ s.manual_power_on # None => s.manual_power_on \in Nat
  BY StatusFields DEF BootFailures, OptTime
<1> QED BY <1>1 DEF Till

\* Every step keeps the records in order.
LEMMA NextRecords ==
  ASSUME TypeOK, RecordsInv, [Next]_vars
  PROVE  RecordsInv'
<1>0. rec.now \in Nat /\ now \in Nat /\ st \in Status
  BY DEF TypeOK, Idle, Acting, Patching
<1>1. CASE Begin
  <2>1. /\ rec.pc = "idle" /\ rec.now < now /\ rec'.pc = "act" /\ rec'.old = st
        /\ rec'.now = now /\ st' = st /\ outage' = outage
    BY <1>1 DEF Begin
  <2>2. Till(st, now - 1)
    <3>1. /\ st.boot_failure # None => st.boot_failure.time \in Nat
          /\ st.manual_power_on # None => st.manual_power_on \in Nat
      BY <1>0, StatusFields DEF BootFailures, OptTime
    <3> QED BY <1>0, <2>1, <3>1 DEF RecordsInv, Till
  <2> QED BY <2>1, <2>2 DEF RecordsInv, SameRecords
<1>2. CASE HandleReconcile \/ CommandFails \/ CommandLost \/ CommandUnanswered \/ CallFails \/ Misread
  <2>1. reading \in {"On", "Off"}
    BY EnvironmentAssumption DEF reading
  <2>2. PICK p \in {"On", "Off"}, ok \in BOOLEAN, works \in BOOLEAN, helped \in BOOLEAN :
          Handle(p, ok, works, helped) /\ rec.pc = "act"
    BY <1>2, <2>1, Zenon DEF HandleReconcile, CommandFails, CommandLost, CommandUnanswered,
       CallFails, Misread
  <2> QED BY <2>2, HandledRecords, Zenon
<1>3. CASE BuildFails \/ ReadFails
  BY <1>3, GivenUpRecords, Zenon
<1>4. CASE Patch
  <2>1. /\ SameRecords(st', rec.new) /\ Pending(rec.new)
        /\ rec'.pc = "idle" /\ rec'.now = rec.now
        /\ outage' = (/\ st'.boot_failure # None /\ st'.boot_failure = rec.old.boot_failure
                      /\ outage \/ st'.power_state = "Off")
    BY <1>4, PatchStores
  <2>2. Boots(st') /\ Till(st', rec.now)
    BY <2>1 DEF SameRecords, Pending, Boots, Till
  <2>3. outage' => Fresh(st')
    BY <2>1 DEF SameRecords, Pending, Fresh
  <2> QED BY <2>1, <2>2, <2>3 DEF RecordsInv
<1>5. CASE ApiError \/ Crash
  <2>1. rec'.pc = "idle" /\ rec'.now = rec.now /\ UNCHANGED <<st, outage>>
    BY <1>5 DEF ApiError, Crash, Stop
  <2>2. Till(st, rec.now)
    BY <1>0, TillLater DEF RecordsInv
  <2> QED BY <2>1, <2>2 DEF RecordsInv
<1>6. CASE PoolDecide
  <2>1. SameRecords(st', st) /\ UNCHANGED <<rec, outage>>
    BY <1>0, <1>6 DEF PoolDecide, SameRecords, Status
  <2> QED BY <2>1 DEF RecordsInv, SameRecords, Boots, Till, Fresh, Pending
<1>7. CASE PoolPlan \/ Hardware \/ People \/ Tick \/ UNCHANGED vars
  <2>1. UNCHANGED <<st, rec, outage>>
    BY <1>7, Zenon DEF PoolPlan, Hardware, BootDone, ShutdownDone, SuspendRuns, SuspendExpires,
       SelfWake, NodeReady, NodeNotReady, PodScheduled, PodGone, People, PersonPowersOn,
       PersonPowersOff, SetPolicy, SetMembership, PersonCordons, PersonUncordons, DeleteNode,
       Tick, vars
  <2> QED BY <2>1 DEF RecordsInv, Pending
<1> QED
  BY <1>1, <1>2, <1>3, <1>4, <1>5, <1>6, <1>7 DEF Next, Controller, Pool

\* Once the stored status has read Off, a recorded boot failure is never taken
\* for the boot in progress (boot_failure, powered_on_not_ready_since and
\* failure_is_current), whatever the timeouts, the faults and the interleaving
\* of reconciles with the pool controller, people and crashes.
THEOREM OldFailureRests == Spec => []OldFailureNeverActs
<1>1. Init => TypeOK /\ RecordsInv
  BY InitType, InitRecords
<1>2. TypeOK /\ RecordsInv /\ [Next]_vars => TypeOK' /\ RecordsInv'
  BY NextType, NextRecords
<1>3. TypeOK /\ RecordsInv => OldFailureNeverActs
  <2> SUFFICES ASSUME TypeOK, RecordsInv, outage, failure_is_current(st) PROVE FALSE
    BY DEF OldFailureNeverActs
  <2>1. Fresh(st) /\ st \in Status
    BY DEF RecordsInv, TypeOK
  <2>2. st.powered_on_not_ready_since \in Nat /\ st.boot_failure.time \in Nat
    BY <2>1, StatusFields DEF failure_is_current, OptTime, BootFailures
  <2> QED BY <2>1, <2>2 DEF Fresh, failure_is_current
<1> QED
  BY <1>1, <1>2, <1>3, PTL DEF Spec

-----------------------------------------------------------------------------
(* LeaveOnRespected.                                                       *)

\* powerPolicy stays Auto, and the slack within which a boot counts as started
\* by the operator does not exceed the boot timeout.
AutoOnly == "policy" \notin Events /\ OwnOnSlack <= BootTimeout

HandInv ==
  /\ policy = "Auto"
  /\ rec.pc = "act" => rec.policy = "Auto"
  /\ ManualPolicy = "LeaveOn" => ByHand(st) /\ (rec.pc = "patch" => ByHand(rec.new))

\* A machine turned on by hand is told so by the records that a reconcile keeps.
LEMMA SameByHand ==
  ASSUME NEW x, NEW y, SameRecords(x, y), ByHand(y)
  PROVE  ByHand(x)
BY DEF SameRecords, ByHand, Untouched, TimeOfLast

\* A reconcile leaves a machine turned on by hand as it is and sends nothing.
LEMMA HandledByHand ==
  ASSUME TypeOK, RecordsInv, HandInv, AutoOnly, rec.pc = "act", NEW p \in {"On", "Off"},
         NEW ok \in BOOLEAN, NEW works, NEW helped, Handle(p, ok, works, helped),
         ManualPolicy = "LeaveOn"
  PROVE  /\ ByHand(rec'.new) /\ ByHand(st') /\ rec'.pc = "patch"
         /\ rec'.new.manual_power_on # None => rec'.cmd = None
<1>1. p \in PowerStates
  BY DEF PowerStates
<1>2. PICK fresh \in BOOLEAN, s3 \in Probe :
        LET out == handle(rec, p, fresh, s3, pods, ok)
        IN /\ rec' = [pc |-> "patch", old |-> rec.old, new |-> out.st, now |-> rec.now,
                      cmd |-> out.cmd]
           /\ UNCHANGED <<st, outage>>
  BY <1>1, HandleRecord
<1>3. ByHand(rec.old)
  BY SameByHand DEF RecordsInv, HandInv
<1> DEFINE out == handle(rec, p, fresh, s3, pods, ok)
<1>4. ByHand(out.st) /\ (out.st.manual_power_on # None => out.cmd = None)
  BY <1>3, ActingBoots, HandleByHand DEF HandInv, AutoOnly
<1> HIDE DEF out
<1>5. rec'.pc = "patch" /\ rec'.new = out.st /\ rec'.cmd = out.cmd /\ st' = st
  BY <1>2 DEF out
<1> QED BY <1>4, <1>5 DEF HandInv

\* Every step leaves the machine to whoever turned it on, and no reconcile
\* sends it a command.
LEMMA NextByHand ==
  ASSUME TypeOK, RecordsInv, HandInv, AutoOnly, [Next]_vars
  PROVE  /\ HandInv'
         /\ (/\ Handled /\ rec.policy = "Auto" /\ ManualPolicy = "LeaveOn"
             /\ rec.old.manual_power_on # None /\ rec'.new.manual_power_on # None)
            => rec'.cmd = None
<1>1. CASE Begin
  <2>1. /\ rec.pc = "idle" /\ rec'.pc = "act" /\ rec'.policy = policy
        /\ st' = st /\ policy' = policy
    BY <1>1 DEF Begin, env
  <2> QED BY <2>1 DEF HandInv, Handled
<1>2. CASE HandleReconcile \/ CommandFails \/ CommandLost \/ CommandUnanswered \/ CallFails \/ Misread
  <2>1. reading \in {"On", "Off"}
    BY EnvironmentAssumption DEF reading
  <2>2. PICK p \in {"On", "Off"}, ok \in BOOLEAN, works \in BOOLEAN, helped \in BOOLEAN :
          Handle(p, ok, works, helped) /\ rec.pc = "act"
    BY <1>2, <2>1, Zenon DEF HandleReconcile, CommandFails, CommandLost, CommandUnanswered,
       CallFails, Misread
  <2>3. ManualPolicy = "LeaveOn" =>
          /\ ByHand(rec'.new) /\ ByHand(st')
          /\ rec'.new.manual_power_on # None => rec'.cmd = None
    BY <2>2, HandledByHand, Zenon
  <2>4. policy' = policy /\ rec'.pc = "patch"
    <3>1. PICK out : rec' = [pc |-> "patch", old |-> rec.old, new |-> out.st, now |-> rec.now, cmd |-> out.cmd]
      BY <2>2, Zenon DEF Handle
    <3>2. UNCHANGED env
      BY <2>2, Zenon DEF Handle
    <3> QED BY <3>1, <3>2 DEF env
  <2> QED BY <2>3, <2>4 DEF HandInv
<1>3. CASE BuildFails \/ ReadFails
  <2>1. /\ rec.pc = "act" /\ rec'.pc = "patch" /\ rec'.old = rec.old
        /\ rec'.cmd = None /\ UNCHANGED <<st, policy>>
        /\ rec'.new.phase \in {"Error", rec.old.phase}
        /\ rec'.new.phase_since = rec.old.phase_since
        /\ rec'.new.boot_failure = rec.old.boot_failure
        /\ rec'.new.powered_on_not_ready_since = rec.old.powered_on_not_ready_since
        /\ rec'.new.manual_power_on = rec.old.manual_power_on
        /\ rec'.new.last_power_action = rec.old.last_power_action
    BY <1>3, GivenUp
  <2>2. ManualPolicy = "LeaveOn" => ByHand(rec.old)
    BY <2>1, SameByHand DEF RecordsInv, HandInv
  <2>3. ManualPolicy = "LeaveOn" => ByHand(rec'.new)
    BY <2>1, <2>2 DEF ByHand, Untouched, TimeOfLast
  <2> QED BY <2>1, <2>3 DEF HandInv
<1>4. CASE Patch
  <2>1. SameRecords(st', rec.new) /\ rec'.pc = "idle" /\ rec.pc = "patch" /\ policy' = policy
    BY <1>4, PatchStores DEF Patch, env
  <2>2. ManualPolicy = "LeaveOn" => ByHand(st')
    BY <2>1, SameByHand DEF HandInv
  <2> QED BY <2>1, <2>2 DEF HandInv, Handled
<1>5. CASE ApiError \/ Crash
  <2>1. rec'.pc = "idle" /\ UNCHANGED <<st, policy>>
    BY <1>5 DEF ApiError, Crash, Stop, env
  <2> QED BY <2>1 DEF HandInv, Handled
<1>6. CASE PoolDecide
  <2>1. SameRecords(st', st) /\ UNCHANGED <<rec, policy>>
    BY <1>6 DEF PoolDecide, SameRecords, TypeOK, Status, env
  <2>2. ManualPolicy = "LeaveOn" => ByHand(st')
    BY <2>1, SameByHand DEF HandInv
  <2> QED BY <2>1, <2>2 DEF HandInv, Handled
<1>7. ~SetPolicy
  BY DEF AutoOnly, SetPolicy, Spend
<1>8. CASE \/ PoolPlan \/ Hardware \/ PersonPowersOn \/ PersonPowersOff \/ SetMembership
           \/ PersonCordons \/ PersonUncordons \/ DeleteNode \/ Tick \/ UNCHANGED vars
  <2>1. UNCHANGED <<st, rec, policy>>
    BY <1>8, Zenon DEF PoolPlan, Hardware, BootDone, ShutdownDone, SuspendRuns, SuspendExpires,
       SelfWake, NodeReady, NodeNotReady, PodScheduled, PodGone, PersonPowersOn,
       PersonPowersOff, SetMembership, PersonCordons, PersonUncordons, DeleteNode,
       Tick, vars, env
  <2> QED BY <2>1 DEF HandInv, Handled
<1> QED
  BY <1>1, <1>2, <1>3, <1>4, <1>5, <1>6, <1>7, <1>8 DEF Next, Controller, Pool, People

\* Under LeaveOn a machine recorded as turned on by hand is sent no command by
\* any reconcile that leaves the record in place (managed_target, boot_is_ours
\* and boot_failure_leaves_on), whatever the other settings, the faults and the
\* interleaving.  Assumes that powerPolicy stays Auto, and that the slack of
\* boot_is_ours does not exceed the boot timeout: with a shorter boot timeout
\* a boot by hand soon after a lost PowerOn counts as the operator's own.
THEOREM HandsOff == ASSUME AutoOnly PROVE Spec => LeaveOnRespected
<1> DEFINE IInv == TypeOK /\ RecordsInv /\ HandInv
           A    == (/\ Handled /\ rec.policy = "Auto" /\ ManualPolicy = "LeaveOn"
                    /\ rec.old.manual_power_on # None /\ rec'.new.manual_power_on # None)
                   => rec'.cmd = None
<1>1. Init => IInv
  <2>1. Init => HandInv
    BY DEF Init, HandInv, ByHand, DefaultStatus
  <2> QED BY <2>1, InitType, InitRecords
<1>2. IInv /\ [Next]_vars => IInv'
  BY NextType, NextRecords, NextByHand
<1>3. IInv /\ [Next]_vars => A
  BY NextByHand
<1>4. IInv /\ [Next]_vars => [A]_vars
  BY <1>3
<1>5. [][A]_vars => LeaveOnRespected
  BY PTL DEF LeaveOnRespected
<1> HIDE DEF A
<1> QED
  BY <1>1, <1>2, <1>4, <1>5, PTL DEF Spec

-----------------------------------------------------------------------------
(* LiveMachineSafe.                                                        *)

\* A Ready Node exists, also in the copy a reconcile holds.
NodeInv ==
  /\ node.ready => node.exists
  /\ rec.pc = "act" => (rec.node.ready => rec.node.exists)

\* A Node is made Ready by registering it, and deleted only when it is not Ready.
LEMMA NextNode ==
  ASSUME TypeOK, NodeInv, [Next]_vars
  PROVE  NodeInv'
<1>1. CASE Begin
  <2>1. rec'.node = node /\ node' = node
    BY <1>1 DEF Begin
  <2> QED BY <2>1 DEF NodeInv
<1>2. CASE HandleReconcile \/ CommandFails \/ CommandLost \/ CommandUnanswered \/ CallFails \/ Misread
  <2>1. PICK p, ok, works, helped : Handle(p, ok, works, helped)
    BY <1>2, Zenon DEF HandleReconcile, CommandFails, CommandLost, CommandUnanswered,
       CallFails, Misread
  <2>2. PICK out : /\ rec' = [pc |-> "patch", old |-> rec.old, new |-> out.st, now |-> rec.now,
                              cmd |-> out.cmd]
                   /\ node' = Patched(node, out)
    BY <2>1, Zenon DEF Handle
  <2>3. node'.ready = node.ready /\ node'.exists = node.exists
    BY <2>2 DEF Patched, TypeOK, Nodes
  <2> QED BY <2>2, <2>3 DEF NodeInv
<1>3. CASE BuildFails \/ ReadFails
  BY <1>3 DEF BuildFails, ReadFails, GiveUp, NodeInv
<1>4. CASE Patch \/ ApiError \/ Crash
  <2>1. rec' = [pc |-> "idle", now |-> rec.now] /\ node' = node
    BY <1>4, Zenon DEF Patch, ApiError, Crash, Stop
  <2> QED BY <2>1 DEF NodeInv
<1>5. CASE NodeReady \/ NodeNotReady \/ PersonCordons \/ PersonUncordons \/ DeleteNode
  <2>1. rec' = rec
    BY <1>5, Zenon DEF NodeReady, NodeNotReady, PersonCordons, PersonUncordons, DeleteNode
  <2>2. \/ node' = [node EXCEPT !.exists = TRUE, !.ready = TRUE]
        \/ node' = [node EXCEPT !.ready = FALSE]
        \/ node' = [node EXCEPT !.cordoned = TRUE]
        \/ node' = [node EXCEPT !.cordoned = FALSE]
        \/ node' = NoNode
    BY <1>5 DEF NodeReady, NodeNotReady, PersonCordons, PersonUncordons, DeleteNode
  <2>3. node'.ready => node'.exists
    <3>1. node \in Nodes /\ (node.ready => node.exists) /\ NoNode.ready = FALSE
      BY DEF TypeOK, NodeInv, NoNode
    <3> QED BY <2>2, <3>1 DEF Nodes
  <2> QED BY <2>1, <2>3 DEF NodeInv
<1>6. CASE \/ PoolPlan \/ PoolDecide \/ BootDone \/ ShutdownDone \/ SuspendRuns \/ SuspendExpires
           \/ SelfWake \/ PodScheduled \/ PodGone \/ PersonPowersOn \/ PersonPowersOff
           \/ SetPolicy \/ SetMembership \/ Tick \/ UNCHANGED vars
  <2>1. UNCHANGED <<rec, node>>
    BY <1>6, Zenon DEF PoolPlan, PoolDecide, BootDone, ShutdownDone, SuspendRuns,
       SuspendExpires, SelfWake, PodScheduled, PodGone, PersonPowersOn, PersonPowersOff,
       SetPolicy, SetMembership, Tick, vars
  <2> QED BY <2>1 DEF NodeInv
<1> QED
  BY <1>1, <1>2, <1>3, <1>4, <1>5, <1>6 DEF Next, Controller, Pool, Hardware, People

\* What a reconcile that read p may send to a live machine with a Ready Node.
LEMMA HandledLive ==
  ASSUME TypeOK, RecordsInv, NodeInv, rec.pc = "act", NEW p \in {"On", "Off"},
         NEW ok \in BOOLEAN, NEW works, NEW helped, Handle(p, ok, works, helped),
         machine.power = "up", rec.node.ready
  PROVE  /\ p = "On" =>
              /\ rec'.cmd # "PowerOn"
              /\ rec'.cmd = "ForceOff" => /\ rec.old.phase = "PoweringOff"
                                          /\ rec.now - rec.old.phase_since > ShutdownTimeout
         /\ p = "Off" /\ rec'.cmd # None =>
              Within(TimeOfLast(rec.old, OffActions), OffGrace, rec.now)
<1>1. p \in PowerStates
  BY DEF PowerStates
<1>2. PICK fresh \in BOOLEAN, s3 \in Probe :
        LET out == handle(rec, p, fresh, s3, pods, ok)
        IN /\ machine.power = "up" => fresh
           /\ rec' = [pc |-> "patch", old |-> rec.old, new |-> out.st, now |-> rec.now,
                      cmd |-> out.cmd]
  BY <1>1, HandleRecord
<1>3. Read(rec) /\ Boots(rec.old) /\ rec.node.exists
  BY ActingBoots DEF NodeInv
<1> DEFINE out == handle(rec, p, fresh, s3, pods, ok)
<1>4. /\ p = "On" =>
           /\ out.cmd # "PowerOn"
           /\ out.cmd = "ForceOff" => /\ rec.old.phase = "PoweringOff"
                                      /\ rec.now - rec.old.phase_since > ShutdownTimeout
      /\ p = "Off" /\ fresh /\ out.cmd # None =>
           Within(TimeOfLast(rec.old, OffActions), OffGrace, rec.now)
  BY <1>3, HandleLive
<1> HIDE DEF out
<1>5. rec'.cmd = out.cmd /\ fresh
  BY <1>2 DEF out
<1> QED BY <1>4, <1>5

\* The commands of a step that handles a reconcile, misread or not.
LEMMA StepLive ==
  ASSUME TypeOK, RecordsInv, NodeInv, [Next]_vars, Handled, machine.power = "up",
         rec.node.ready
  PROVE  \/ /\ rec'.cmd # "PowerOn"
            /\ rec'.cmd = "ForceOff" => /\ rec.old.phase = "PoweringOff"
                                        /\ rec.now - rec.old.phase_since > ShutdownTimeout
         \/ /\ "misread" \in Events
            /\ Within(TimeOfLast(rec.old, OffActions), OffGrace, rec.now)
<1>1. CASE HandleReconcile \/ CommandFails \/ CommandLost \/ CommandUnanswered \/ CallFails \/ Misread
  <2>1. reading = "On"
    BY DEF reading
  <2>2. PICK p \in {"On", "Off"}, ok \in BOOLEAN, works \in BOOLEAN, helped \in BOOLEAN :
          /\ Handle(p, ok, works, helped) /\ rec.pc = "act"
          /\ p = "Off" => "misread" \in Events
    BY <1>1, <2>1, Zenon DEF HandleReconcile, CommandFails, CommandLost, CommandUnanswered,
       CallFails, Misread, Spend
  <2>3. /\ p = "On" =>
             /\ rec'.cmd # "PowerOn"
             /\ rec'.cmd = "ForceOff" => /\ rec.old.phase = "PoweringOff"
                                         /\ rec.now - rec.old.phase_since > ShutdownTimeout
        /\ p = "Off" /\ rec'.cmd # None =>
             Within(TimeOfLast(rec.old, OffActions), OffGrace, rec.now)
    BY <2>2, HandledLive, Zenon
  <2> QED BY <2>2, <2>3, NoneAssumption
<1>2. CASE BuildFails \/ ReadFails
  <2>1. rec'.cmd = None
    BY <1>2 DEF BuildFails, ReadFails, GiveUp
  <2> QED BY <2>1, NoneAssumption
<1>3. ~(Begin \/ Patch \/ ApiError \/ Crash)
  BY DEF Begin, Patch, ApiError, Crash, Stop, Handled
<1>4. CASE PoolPlan \/ PoolDecide \/ Hardware \/ People \/ Tick \/ UNCHANGED vars
  <2>1. rec' = rec
    BY <1>4, Zenon DEF PoolPlan, PoolDecide, Hardware, BootDone, ShutdownDone, SuspendRuns,
       SuspendExpires, SelfWake, NodeReady, NodeNotReady, PodScheduled, PodGone, People,
       PersonPowersOn, PersonPowersOff, SetPolicy, SetMembership, PersonCordons,
       PersonUncordons, DeleteNode, Tick, vars
  <2> QED BY <2>1 DEF Handled
<1> QED
  BY <1>1, <1>2, <1>3, <1>4 DEF Next, Controller, Pool

\* What a reconcile may send to a live machine when interfaces may lie:
\* PowerOn and ForceOff only after a shutdown of ours overran its timeout, or
\* within OffGrace of a power-off command, where a reading of Off is believed
\* (power_state_consistent, ensure_off).
LiveMachineGuarded ==
  [][(Handled /\ machine.power = "up" /\ rec.node.ready
      /\ rec'.cmd \in {"PowerOn", "ForceOff"}) =>
       \/ /\ rec'.cmd = "ForceOff" /\ rec.old.phase = "PoweringOff"
          /\ rec.now - rec.old.phase_since > ShutdownTimeout
       \/ /\ "misread" \in Events
          /\ Within(TimeOfLast(rec.old, OffActions), OffGrace, rec.now)]_vars

\* The bound on what misreadings can do, for every value of the constants.
THEOREM GuardedWhenUp == Spec => LiveMachineGuarded
<1> DEFINE IInv == TypeOK /\ RecordsInv /\ NodeInv
           A    == (Handled /\ machine.power = "up" /\ rec.node.ready
                    /\ rec'.cmd \in {"PowerOn", "ForceOff"}) =>
                     \/ /\ rec'.cmd = "ForceOff" /\ rec.old.phase = "PoweringOff"
                        /\ rec.now - rec.old.phase_since > ShutdownTimeout
                     \/ /\ "misread" \in Events
                        /\ Within(TimeOfLast(rec.old, OffActions), OffGrace, rec.now)
<1>1. Init => IInv
  <2>1. Init => NodeInv
    BY DEF Init, NodeInv, NoNode
  <2> QED BY <2>1, InitType, InitRecords
<1>2. IInv /\ [Next]_vars => IInv'
  BY NextType, NextRecords, NextNode
<1>3. IInv /\ [Next]_vars => A
  BY StepLive
<1>4. IInv /\ [Next]_vars => [A]_vars
  BY <1>3
<1>5. [][A]_vars => LiveMachineGuarded
  BY PTL DEF LiveMachineGuarded
<1> HIDE DEF A
<1> QED
  BY <1>1, <1>2, <1>4, <1>5, PTL DEF Spec

\* A machine that is up with a Ready Node is cut only when its shutdown has
\* overrun, and is sent no PowerOn (ensure_on, ensure_off, in_phase_longer),
\* whatever the settings, the faults and the interleaving.  Assumes that no
\* interface reads Off for a machine that is on: GuardedWhenUp says what
\* remains of it otherwise.
THEOREM LiveMachine ==
  ASSUME "misread" \notin Events
  PROVE  Spec => LiveMachineSafe
<1> DEFINE G == (Handled /\ machine.power = "up" /\ rec.node.ready
                 /\ rec'.cmd \in {"PowerOn", "ForceOff"}) =>
                  \/ /\ rec'.cmd = "ForceOff" /\ rec.old.phase = "PoweringOff"
                     /\ rec.now - rec.old.phase_since > ShutdownTimeout
                  \/ /\ "misread" \in Events
                     /\ Within(TimeOfLast(rec.old, OffActions), OffGrace, rec.now)
           A == (Handled /\ machine.power = "up" /\ rec.node.ready) =>
                  /\ rec'.cmd = "ForceOff" => /\ rec.old.phase = "PoweringOff"
                                             /\ rec.now - rec.old.phase_since > ShutdownTimeout
                  /\ rec'.cmd = "PowerOn" => rec.old.phase \in {"PoweringOff", "Standby"}
<1>1. [G]_vars => [A]_vars
  OBVIOUS
<1>2. LiveMachineGuarded => [][G]_vars
  BY PTL DEF LiveMachineGuarded
<1>3. [][A]_vars => LiveMachineSafe
  BY PTL DEF LiveMachineSafe
<1> HIDE DEF A, G
<1> QED
  BY <1>1, <1>2, <1>3, GuardedWhenUp, PTL

-----------------------------------------------------------------------------
(* QuietIsMarked.                                                          *)

\* Machines are shut down and never suspended, and a drain that fails is
\* forced; powerPolicy, the pools' selection and the Node stay; people may turn
\* the machine off but not on; interfaces refuse, lose and miss commands but
\* never lie, and every call to the API server succeeds.
Steady ==
  /\ PowerOffMode = "Shutdown" /\ ForceAfterDrainTimeout
  /\ Events \cap {"person_on", "policy", "membership", "delete_node", "misread",
                  "call_fails", "api_error", "crash"} = {}

\* The status once the reconcile in progress has stored what it is about to.
After == IF rec.pc = "patch" THEN merge_diff(st, rec.old, rec.new) ELSE st

\* The pools always select the machine, and no status says it is suspended.
AwakeInv ==
  /\ policy = "Auto" /\ member = Pools
  /\ rec.pc = "act" => rec.policy = "Auto" /\ (rec.node.exists \/ rec.member = {})
  /\ st.standby_since = None /\ st.phase # "Standby"
  /\ After.standby_since = None /\ After.phase # "Standby"
  /\ rec.pc # "idle" => /\ rec.old.standby_since = None
                        /\ rec.old.consistent = st.consistent

SteadyInv ==
  /\ AwakeInv /\ node.exists
  /\ rec.pc = "act" => rec.node.exists
  /\ machine.suspending = None /\ machine.power # "asleep"
  /\ machine.stopping => machine.power = "up"

SeenTarget(t) == seen # None /\ seen.target = t

\* A machine that we are turning off or have turned off is marked, also when
\* that is still to come of a phase or of a boot failure on record.
MarkInv ==
  /\ machine.stopping => node.marked
  /\ machine.power = "off" /\ blame = "us" => node.marked
  /\ After.phase = "PoweringOff" => node.marked
  /\ OffForFailure(After) => node.marked

\* While the OS shuts down, nobody wants the machine on.
HaltInv ==
  machine.stopping => /\ ~WantedOn(After) /\ ~SeenTarget("On")
                      /\ rec.pc = "act" => ~WantedOn(rec.old)

\* Off is only ever recorded of a machine that is off, and stays true.
OffInv ==
  /\ After.phase = "Off" => machine.power = "off"
  /\ rec.pc = "patch" /\ rec.old.phase = "Off" =>
       /\ ~machine.stopping
       /\ ~WantedOn(rec.old) => machine.power = "off" /\ rec.new.phase \in {"Off", "Error"}

\* A decision to turn the machine on that the last reconcile to read the status
\* has not seen.
Upcoming ==
  \/ SeenTarget("On")
  \/ rec.pc # "idle" /\ WantedOn(st) /\ ~WantedOn(rec.old)

\* It is of a machine that is off, and nothing is decided against it.
UpInv ==
  Upcoming =>
    /\ machine.power = "off" /\ st.phase \in {"Off", "Error"} /\ After.phase \in {"Off", "Error"}
    /\ rec.pc = "act" => ~WantedOn(rec.old)
    /\ ~SeenTarget("Off")
    /\ SeenTarget("On") => ~WantedOn(After)

\* A decision to turn the machine off is of no machine in Off that a pool wants
\* on, nor of one that LeaveOn leaves alone.
DownInv ==
  /\ SeenTarget("Off") => ~(After.phase = "Off" /\ WantedOn(After) /\ After.consistent)
  /\ rec.pc # "idle" /\ rec.old.phase = "Off" /\ rec.old.consistent /\ WantedOn(rec.old) =>
       WantedOn(st) /\ ~SeenTarget("Off")
  /\ SeenTarget("Off") /\ ManualPolicy = "LeaveOn" =>
       /\ ~(After.manual_power_on # None /\ WantedOn(After))
       /\ rec.pc = "act" => ~(rec.old.manual_power_on # None /\ WantedOn(rec.old))

\* What a reconcile is about to store of the decision it has read.
PatchInv ==
  rec.pc = "patch" =>
    /\ rec.new.scaling_decision \in {rec.old.scaling_decision, None}
    /\ rec.new.manual_power_on # None =>
         rec.new.manual_power_on = rec.old.manual_power_on \/ rec.new.scaling_decision = None
    /\ rec.new.phase = "Off" /\ rec.old.phase # "Off" /\ WantedOn(rec.new) /\ rec.new.consistent =>
         ManualPolicy = "LeaveOn" /\ rec.new.manual_power_on # None

QuietInv == SteadyInv /\ MarkInv /\ HaltInv /\ OffInv /\ UpInv /\ DownInv /\ PatchInv

\* What a status patch leaves, when only the pool controller has written since
\* the status was read.
LEMMA Merged ==
  ASSUME NEW live \in Status, NEW old \in Status, NEW new \in Status, SameRecords(old, live),
         old.consistent = live.consistent, old.standby_since = live.standby_since
  PROVE  LET m == merge_diff(live, old, new)
         IN /\ m \in Status /\ SameRecords(m, new)
            /\ m.consistent = new.consistent /\ m.standby_since = new.standby_since
            /\ m.scaling_decision = IF new.scaling_decision # old.scaling_decision
                                    THEN new.scaling_decision ELSE live.scaling_decision
<1> DEFINE m == merge_diff(live, old, new)
<1>1. DOMAIN live = {"phase", "phase_since", "power_state", "node_ready", "consistent", "pools",
        "scaling_decision", "last_power_action", "standby_since", "standby_failed_at",
        "forced_off_at", "drain_failed_at", "boot_failure", "powered_on_not_ready_since",
        "manual_power_on", "manual_power_off"}
  BY DEF Status
<1>2. m.scaling_decision = IF new.scaling_decision # old.scaling_decision
                           THEN new.scaling_decision ELSE live.scaling_decision
  BY <1>1 DEF merge_diff
<1>3. m.consistent = new.consistent /\ m.standby_since = new.standby_since
  BY <1>1, MergeField
<1>4. SameRecords(m, new)
  BY <1>1, MergeField DEF SameRecords
<1>5. m \in Status
  BY MergeType
<1> HIDE DEF m
<1> QED BY <1>2, <1>3, <1>4, <1>5 DEF m

\* So a machine that is to be off for a boot failure is so after the patch.
LEMMA SameFailure ==
  ASSUME NEW x, NEW y, SameRecords(x, y)
  PROVE  OffForFailure(x) <=> OffForFailure(y)
BY DEF SameRecords, OffForFailure, failure_is_current

\* What is to come of the reconcile in progress.
LEMMA AfterFields ==
  ASSUME TypeOK, RecordsInv, AwakeInv, PatchInv
  PROVE  /\ rec.pc # "patch" => After = st
         /\ rec.pc = "patch" =>
              /\ After = merge_diff(st, rec.old, rec.new)
              /\ SameRecords(After, rec.new) /\ After.consistent = rec.new.consistent
              /\ After.scaling_decision = IF rec.new.scaling_decision # rec.old.scaling_decision
                                          THEN rec.new.scaling_decision ELSE st.scaling_decision
              /\ WantedOn(After) =>
                   WantedOn(st) /\ rec.new.scaling_decision = rec.old.scaling_decision
         /\ rec.pc # "idle" => SameRecords(rec.old, st) /\ rec.old \in Status
         /\ st \in Status
<1>1. CASE rec.pc = "patch"
  <2>1. rec.old \in Status /\ rec.new \in Status /\ st \in Status
    BY <1>1 DEF TypeOK, Idle, Acting, Patching
  <2>2. /\ SameRecords(rec.old, st) /\ rec.old.consistent = st.consistent
        /\ rec.old.standby_since = st.standby_since
    BY <1>1 DEF RecordsInv, AwakeInv
  <2>3. After = merge_diff(st, rec.old, rec.new)
    BY <1>1 DEF After
  <2>4. /\ SameRecords(After, rec.new) /\ After.consistent = rec.new.consistent
        /\ After.scaling_decision = IF rec.new.scaling_decision # rec.old.scaling_decision
                                    THEN rec.new.scaling_decision ELSE st.scaling_decision
    BY <2>1, <2>2, <2>3, Merged
  <2>5. rec.new.scaling_decision \in {rec.old.scaling_decision, None}
    BY <1>1 DEF PatchInv
  <2> QED BY <1>1, <2>1, <2>2, <2>3, <2>4, <2>5 DEF WantedOn
<1>2. CASE rec.pc # "patch"
  BY <1>2 DEF After, TypeOK, RecordsInv, Idle, Acting, Patching
<1> QED BY <1>1, <1>2

\* Steps that touch neither the machine's power, nor the marker, nor what is
\* decided and reconciled.
LEMMA AsideQuiet ==
  ASSUME QuietInv, UNCHANGED <<st, rec, seen, policy, member, blame>>,
         node'.exists, node'.marked = node.marked,
         machine'.power = machine.power, machine'.stopping = machine.stopping,
         machine'.suspending = machine.suspending
  PROVE  QuietInv'
<1>1. After' = After /\ (Upcoming' <=> Upcoming) /\ \A t : SeenTarget(t)' <=> SeenTarget(t)
  BY DEF After, Upcoming, SeenTarget, WantedOn
<1>2. SteadyInv'
  BY <1>1 DEF QuietInv, SteadyInv, AwakeInv
<1>3. MarkInv' /\ HaltInv' /\ OffInv' /\ PatchInv'
  BY <1>1 DEF QuietInv, MarkInv, HaltInv, OffInv, PatchInv, WantedOn, SeenTarget
<1>4. UpInv' /\ DownInv'
  BY <1>1 DEF QuietInv, UpInv, DownInv, WantedOn, SeenTarget
<1> QED BY <1>2, <1>3, <1>4 DEF QuietInv

\* The machine comes up after a boot, goes down after our shutdown, or is turned
\* off by hand.
LEMMA PowerQuiet ==
  ASSUME QuietInv, BootDone \/ ShutdownDone \/ PersonPowersOff
  PROVE  QuietInv'
<1>1. /\ UNCHANGED <<st, rec, seen, policy, member, node>>
      /\ machine.power # "off" /\ machine'.suspending = None /\ ~machine'.stopping
      /\ machine'.power \in {"up", "off"}
      /\ machine'.power = "off" /\ blame' = "us" => node.marked
  <2>1. CASE BootDone
    BY <2>1 DEF BootDone, Became, InPower, env
  <2>2. CASE ShutdownDone
    <3>1. node.marked
      BY <2>2 DEF ShutdownDone, QuietInv, MarkInv
    <3> QED BY <2>2, <3>1 DEF ShutdownDone, Became, InPower, env
  <2>3. CASE PersonPowersOff
    BY <2>3 DEF PersonPowersOff, Became, InPower, env
  <2> QED BY <2>1, <2>2, <2>3
<1>2. After' = After /\ (Upcoming' <=> Upcoming) /\ \A t : SeenTarget(t)' <=> SeenTarget(t)
  BY <1>1 DEF After, Upcoming, SeenTarget, WantedOn
<1>3. ~Upcoming /\ After.phase # "Off"
  BY <1>1 DEF QuietInv, UpInv, OffInv
<1>4. SteadyInv'
  BY <1>1, <1>2 DEF QuietInv, SteadyInv, AwakeInv
<1>5. MarkInv' /\ HaltInv' /\ PatchInv'
  BY <1>1, <1>2 DEF QuietInv, MarkInv, HaltInv, PatchInv, WantedOn
<1>6. OffInv'
  BY <1>1, <1>2, <1>3 DEF QuietInv, OffInv, WantedOn
<1>7. UpInv' /\ DownInv'
  BY <1>1, <1>2, <1>3 DEF QuietInv, UpInv, DownInv, WantedOn, SeenTarget
<1> QED BY <1>4, <1>5, <1>6, <1>7 DEF QuietInv

\* A reconcile begins with the status that is stored.
LEMMA BeginQuiet ==
  ASSUME TypeOK, QuietInv, Begin
  PROVE  QuietInv'
<1>1. /\ rec.pc = "idle" /\ rec'.pc = "act" /\ rec'.old = st /\ rec'.policy = policy
      /\ rec'.node = node /\ UNCHANGED <<st, seen, policy, member, machine, node, blame>>
  BY DEF Begin, env
<1>2. After = st /\ After' = st
  BY <1>1 DEF After
<1>3. Upcoming' <=> SeenTarget("On")
  BY <1>1 DEF Upcoming, SeenTarget, WantedOn
<1>4. SteadyInv'
  BY <1>1, <1>2 DEF QuietInv, SteadyInv, AwakeInv
<1>5. MarkInv' /\ HaltInv' /\ OffInv' /\ PatchInv'
  BY <1>1, <1>2 DEF QuietInv, MarkInv, HaltInv, OffInv, PatchInv, WantedOn, SeenTarget
<1>6. UpInv'
  BY <1>1, <1>2, <1>3 DEF QuietInv, UpInv, Upcoming, WantedOn, SeenTarget
<1>7. DownInv'
  BY <1>1, <1>2 DEF QuietInv, DownInv, WantedOn, SeenTarget
<1> QED BY <1>4, <1>5, <1>6, <1>7 DEF QuietInv

\* The status patch stores what was to come.
LEMMA PatchQuiet ==
  ASSUME TypeOK, RecordsInv, QuietInv, Patch
  PROVE  QuietInv'
<1>1. /\ rec.pc = "patch" /\ rec'.pc = "idle" /\ st' = After
      /\ UNCHANGED <<seen, policy, member, machine, node, blame>>
  BY DEF Patch, Stop, After, env
<1>2. After' = After
  BY <1>1 DEF After
<1>3. Upcoming' <=> SeenTarget("On")
  BY <1>1 DEF Upcoming, SeenTarget, WantedOn
<1>4. SteadyInv'
  BY <1>1, <1>2 DEF QuietInv, SteadyInv, AwakeInv
<1>5. MarkInv' /\ HaltInv' /\ OffInv' /\ PatchInv'
  BY <1>1, <1>2 DEF QuietInv, MarkInv, HaltInv, OffInv, PatchInv, WantedOn, SeenTarget
<1>6. UpInv'
  BY <1>1, <1>2, <1>3 DEF QuietInv, UpInv, Upcoming, WantedOn, SeenTarget
<1>7. DownInv'
  BY <1>1, <1>2 DEF QuietInv, DownInv, WantedOn, SeenTarget
<1> QED BY <1>4, <1>5, <1>6, <1>7 DEF QuietInv

\* A step of the reconcile from what it has read to what it will store, of
\* which the rest of the world sees nothing yet.
LEMMA StoredLater ==
  ASSUME TypeOK, RecordsInv, AwakeInv, TypeOK', rec.pc = "act", rec'.pc = "patch",
         rec'.old = rec.old, UNCHANGED <<st, seen, policy, member>>,
         rec'.new.standby_since = None,
         rec'.new.scaling_decision \in {rec.old.scaling_decision, None}
  PROVE  /\ SameRecords(After', rec'.new) /\ After'.consistent = rec'.new.consistent
         /\ After'.standby_since = None /\ After = st
         /\ WantedOn(After') => /\ WantedOn(st)
                                /\ rec'.new.scaling_decision = rec.old.scaling_decision
                                /\ After'.scaling_decision = st.scaling_decision
         /\ Upcoming' <=> Upcoming
         /\ \A t : SeenTarget(t)' <=> SeenTarget(t)
<1>1. /\ rec.old \in Status /\ rec'.new \in Status /\ st \in Status
  BY DEF TypeOK, Idle, Acting, Patching
<1>2. /\ SameRecords(rec.old, st) /\ rec.old.consistent = st.consistent
      /\ rec.old.standby_since = st.standby_since
  BY DEF RecordsInv, AwakeInv
<1>3. After' = merge_diff(st, rec.old, rec'.new) /\ After = st
  BY DEF After
<1> DEFINE m == merge_diff(st, rec.old, rec'.new)
<1>4. /\ SameRecords(m, rec'.new) /\ m.consistent = rec'.new.consistent
      /\ m.standby_since = rec'.new.standby_since
      /\ m.scaling_decision = IF rec'.new.scaling_decision # rec.old.scaling_decision
                              THEN rec'.new.scaling_decision ELSE st.scaling_decision
  BY <1>1, <1>2, Merged
<1> HIDE DEF m
<1>5. WantedOn(After') => /\ WantedOn(st)
                          /\ rec'.new.scaling_decision = rec.old.scaling_decision
                          /\ After'.scaling_decision = st.scaling_decision
  BY <1>3, <1>4 DEF WantedOn, m
<1>6. /\ Upcoming' <=> Upcoming
      /\ \A t : SeenTarget(t)' <=> SeenTarget(t)
  BY DEF Upcoming, SeenTarget, WantedOn
<1> QED BY <1>3, <1>4, <1>5, <1>6 DEF m

\* Giving up before the handlers run decides nothing.
LEMMA GivenUpQuiet ==
  ASSUME TypeOK, RecordsInv, QuietInv, TypeOK', BuildFails \/ ReadFails
  PROVE  QuietInv'
<1> DEFINE new == rec'.new  old == rec.old
<1>1. /\ rec.pc = "act" /\ rec'.pc = "patch" /\ rec'.old = old
      /\ new.phase \in {"Error", old.phase}
      /\ new.boot_failure = old.boot_failure
      /\ new.powered_on_not_ready_since = old.powered_on_not_ready_since
      /\ new.manual_power_on = old.manual_power_on
      /\ new.scaling_decision \in {old.scaling_decision, None}
      /\ new.consistent = old.consistent /\ new.standby_since = old.standby_since
  BY GivenUp
<1>2. UNCHANGED <<st, seen, policy, member, machine, node, blame>>
  BY DEF BuildFails, ReadFails, env
<1>3. /\ AwakeInv /\ SameRecords(old, st)
      /\ old.standby_since = None /\ old.consistent = st.consistent
  BY <1>1 DEF RecordsInv, QuietInv, SteadyInv, AwakeInv
<1>4. /\ SameRecords(After', new) /\ After'.consistent = new.consistent
      /\ After'.standby_since = None /\ After = st
      /\ WantedOn(After') => WantedOn(st) /\ new.scaling_decision = old.scaling_decision
      /\ Upcoming' <=> Upcoming
      /\ \A t : SeenTarget(t)' <=> SeenTarget(t)
  BY <1>1, <1>2, <1>3, StoredLater
<1> HIDE DEF new
<1>5. /\ After'.phase \in {"Error", st.phase} /\ After'.consistent = st.consistent
      /\ After'.manual_power_on = st.manual_power_on
      /\ OffForFailure(After') => OffForFailure(st)
  BY <1>1, <1>3, <1>4 DEF SameRecords, OffForFailure, failure_is_current
<1>6. SteadyInv'
  BY <1>1, <1>2, <1>3, <1>4, <1>5 DEF QuietInv, SteadyInv, AwakeInv
<1>7. MarkInv' /\ HaltInv'
  BY <1>1, <1>2, <1>4, <1>5 DEF QuietInv, MarkInv, HaltInv
<1>8. OffInv'
  BY <1>1, <1>2, <1>3, <1>4, <1>5 DEF QuietInv, SteadyInv, AwakeInv, OffInv, SameRecords, new
<1>9. UpInv'
  BY <1>1, <1>2, <1>4, <1>5 DEF QuietInv, UpInv
<1>10. DownInv'
  BY <1>1, <1>2, <1>3, <1>4, <1>5 DEF QuietInv, DownInv
<1>11. PatchInv'
  BY <1>1 DEF PatchInv, new
<1> QED BY <1>6, <1>7, <1>8, <1>9, <1>10, <1>11 DEF QuietInv

\* A decision that the pool controller writes is of now, and replaces the one
\* that a reconcile in progress has read.
LEMMA Decides ==
  ASSUME TypeOK, RecordsInv, AwakeInv, PatchInv, PoolDecide
  PROVE  /\ seen # None /\ seen' = None /\ seen.target \in {"On", "Off"}
         /\ UNCHANGED <<rec, policy, member, machine, node, now, blame>>
         /\ SameRecords(st', st) /\ st'.consistent = st.consistent
         /\ st'.standby_since = st.standby_since
         /\ st'.scaling_decision.time = now
         /\ WantedOn(st') <=> seen.target = "On"
         /\ ~SeenTarget("On")' /\ ~SeenTarget("Off")'
         /\ SameRecords(After', After) /\ After'.consistent = After.consistent
         /\ After'.standby_since = After.standby_since
         /\ WantedOn(After') => seen.target = "On"
<1> DEFINE d == [pool |-> seen.pool, target |-> seen.target, time |-> now]
<1>1. /\ seen # None /\ seen' = None /\ st' = [st EXCEPT !.scaling_decision = d]
      /\ UNCHANGED <<rec, policy, member, machine, node, blame>>
  BY DEF PoolDecide, env
<1>2. d.target = seen.target /\ seen.target \in {"On", "Off"} /\ d # None
  <2>1. seen.target \in {"On", "Off"}
    BY <1>1 DEF TypeOK, Planned, Targets
  <2>2. seen.pool \in Pools /\ now \in Nat
    BY <1>1 DEF TypeOK, Planned
  <2>3. d \in [pool : Pools, target : {"On", "Off"}, time : Nat]
    BY <2>1, <2>2
  <2> HIDE DEF d
  <2>4. d # None
    BY <2>3, NoneAssumption
  <2> QED BY <2>1, <2>4 DEF d
<1> HIDE DEF d
<1>3. /\ SameRecords(st', st) /\ st'.scaling_decision = d
      /\ st'.consistent = st.consistent /\ st'.standby_since = st.standby_since
  BY <1>1 DEF TypeOK, Status, SameRecords
<1>4. /\ SameRecords(After', After) /\ After'.consistent = After.consistent
      /\ After'.standby_since = After.standby_since
      /\ WantedOn(After') => d.target = "On"
  <2>1. CASE rec.pc = "patch"
    <3>1. /\ rec.old \in Status /\ rec.new \in Status /\ st' \in Status
          /\ rec.new.scaling_decision \in {rec.old.scaling_decision, None}
          /\ SameRecords(rec.old, st) /\ rec.old.consistent = st.consistent
          /\ rec.old.standby_since = st.standby_since
      BY <1>1, <2>1, NextType
         DEF Next, Pool, TypeOK, Idle, Acting, Patching, AwakeInv, PatchInv, RecordsInv
    <3>2. After = merge_diff(st, rec.old, rec.new) /\ After' = merge_diff(st', rec.old, rec.new)
      BY <1>1, <2>1 DEF After
    <3>3. SameRecords(rec.old, st') /\ rec.old.consistent = st'.consistent
          /\ rec.old.standby_since = st'.standby_since
      BY <1>3, <3>1 DEF SameRecords
    <3>4. st \in Status
      BY DEF TypeOK
    <3>5. /\ SameRecords(After, rec.new) /\ After.consistent = rec.new.consistent
          /\ After.standby_since = rec.new.standby_since
      BY <3>1, <3>2, <3>4, Merged
    <3>6. /\ SameRecords(After', rec.new) /\ After'.consistent = rec.new.consistent
          /\ After'.standby_since = rec.new.standby_since
          /\ After'.scaling_decision = IF rec.new.scaling_decision # rec.old.scaling_decision
                                       THEN rec.new.scaling_decision ELSE st'.scaling_decision
      BY <3>1, <3>2, <3>3, Merged
    <3>7. WantedOn(After') => d.target = "On"
      BY <1>3, <3>1, <3>6 DEF WantedOn
    <3>8. SameRecords(After', After)
      BY <3>5, <3>6 DEF SameRecords
    <3> QED BY <3>5, <3>6, <3>7, <3>8
  <2>2. CASE rec.pc # "patch"
    <3>1. After = st /\ After' = st'
      BY <1>1, <2>2 DEF After
    <3> QED BY <1>3, <3>1 DEF WantedOn
  <2> QED BY <2>1, <2>2
<1>5. (WantedOn(st') <=> d.target = "On") /\ ~SeenTarget("On")' /\ ~SeenTarget("Off")'
  BY <1>1, <1>2, <1>3 DEF WantedOn, SeenTarget
<1>6. st'.scaling_decision.time = now /\ now' = now
  BY <1>3 DEF d, PoolDecide
<1> QED BY <1>1, <1>2, <1>3, <1>4, <1>5, <1>6

\* The pool controller writes what it has decided.
LEMMA DecideQuiet ==
  ASSUME TypeOK, RecordsInv, QuietInv, PoolDecide
  PROVE  QuietInv'
<1>1. /\ seen # None /\ seen' = None /\ seen.target \in {"On", "Off"}
      /\ UNCHANGED <<rec, policy, member, machine, node, now, blame>>
      /\ SameRecords(st', st) /\ st'.consistent = st.consistent
      /\ st'.standby_since = st.standby_since
      /\ WantedOn(st') <=> seen.target = "On"
      /\ ~SeenTarget("On")' /\ ~SeenTarget("Off")'
      /\ SameRecords(After', After) /\ After'.consistent = After.consistent
      /\ After'.standby_since = After.standby_since
      /\ WantedOn(After') => seen.target = "On"
  BY Decides DEF QuietInv, SteadyInv
<1>2. SteadyInv'
  BY <1>1 DEF QuietInv, SteadyInv, AwakeInv, SameRecords
<1>3. MarkInv' /\ OffInv' /\ PatchInv'
  <2>1. OffForFailure(After') <=> OffForFailure(After)
    BY <1>1, SameFailure
  <2> QED BY <1>1, <2>1 DEF QuietInv, MarkInv, OffInv, PatchInv, SameRecords, WantedOn
<1>4. CASE seen.target = "On"
  <2>1. SeenTarget("On") /\ Upcoming
    BY <1>1, <1>4 DEF SeenTarget, Upcoming
  <2>2. /\ machine.power = "off" /\ st.phase \in {"Off", "Error"} /\ After.phase \in {"Off", "Error"}
        /\ rec.pc = "act" => ~WantedOn(rec.old)
    BY <2>1 DEF QuietInv, UpInv
  <2>3. ~machine.stopping
    BY <2>1 DEF QuietInv, HaltInv
  <2>4. HaltInv' /\ UpInv' /\ DownInv'
    BY <1>1, <1>4, <2>2, <2>3 DEF HaltInv, UpInv, DownInv, SameRecords, WantedOn
  <2> QED BY <1>2, <1>3, <2>4 DEF QuietInv
<1>5. CASE seen.target = "Off"
  <2>1. SeenTarget("Off")
    BY <1>1, <1>5 DEF SeenTarget
  <2>2. ~Upcoming' /\ ~WantedOn(After')
    BY <1>1, <1>5 DEF Upcoming, WantedOn
  <2>3. HaltInv'
    BY <1>1, <2>2 DEF QuietInv, HaltInv, WantedOn
  <2>4. DownInv'
    BY <1>1, <2>1, <2>2 DEF QuietInv, DownInv, WantedOn, SameRecords
  <2> QED BY <1>2, <1>3, <2>2, <2>3, <2>4 DEF QuietInv, UpInv
<1> QED BY <1>1, <1>4, <1>5

\* The backoff of the boot failure on record lasts at time n.
Barred(x, n) ==
  /\ x.boot_failure # None /\ ~x.boot_failure.left_on
  /\ n < x.boot_failure.time + BootFailureBackoff

\* The machines that a pool may decide to turn on, and off.
LEMMA Classified ==
  ASSUME NEW s \in Status, s.phase # "Standby", NEW n
  PROVE  /\ classify("Auto", s, Pools, n) = "Offline" =>
              s.consistent /\ s.phase = "Off" /\ ~WantedOn(s) /\ ~Barred(s, n)
         /\ classify("Auto", s, Pools, n) = "Online" =>
              s.phase = "On" /\ ~(s.manual_power_on # None /\ ManualPolicy = "LeaveOn")
<1> DEFINE base == member_state("Auto", s, Pools)
           c    == classify("Auto", s, Pools, n)
           d    == IF s.scaling_decision # None /\ s.scaling_decision.pool \in Pools
                   THEN s.scaling_decision.target ELSE None
<1>1. WantedOn(s) => d = "On"
  BY DEF WantedOn, Status, Decisions
<1>2. base = "Offline" => s.consistent /\ s.phase \in {"Off", "Standby"} /\ d # "On"
  BY Zenon DEF member_state
<1>3. base = "Online" => s.phase = "On"
  BY Zenon DEF member_state
<1> HIDE DEF base, d
<1>4. /\ c = "Offline" => base = "Offline" /\ (s.phase # "BootFailed" => ~Barred(s, n))
      /\ c = "Online" => base = "Online" /\ ~(s.manual_power_on # None /\ ManualPolicy = "LeaveOn")
  BY Zenon DEF classify, Barred, base
<1> QED BY <1>1, <1>2, <1>3, <1>4

\* The pool controller plans to turn a machine on or off.
LEMMA PlanQuiet ==
  ASSUME TypeOK, RecordsInv, QuietInv, PoolPlan
  PROVE  QuietInv'
<1>1. /\ seen = None /\ UNCHANGED <<st, rec, policy, member, machine, node, blame>>
      /\ policy = "Auto" /\ member = Pools
  BY DEF PoolPlan, env, QuietInv, SteadyInv, AwakeInv
<1>2. st \in Status /\ st.phase # "Standby" /\ After' = After
  BY <1>1 DEF TypeOK, QuietInv, SteadyInv, AwakeInv, After
<1>3. ~SeenTarget("On") /\ ~SeenTarget("Off")
  BY <1>1 DEF SeenTarget
<1>4. SteadyInv' /\ MarkInv' /\ OffInv' /\ PatchInv'
  BY <1>1, <1>2 DEF QuietInv, SteadyInv, AwakeInv, MarkInv, OffInv, PatchInv, WantedOn
<1>5. /\ rec.pc # "patch" => After = st
      /\ rec.pc = "patch" =>
           /\ SameRecords(After, rec.new) /\ After.consistent = rec.new.consistent
           /\ WantedOn(After) =>
                WantedOn(st) /\ rec.new.scaling_decision = rec.old.scaling_decision
      /\ rec.pc # "idle" => SameRecords(rec.old, st) /\ rec.old.consistent = st.consistent
  BY AfterFields DEF QuietInv, SteadyInv, AwakeInv
<1>6. ASSUME classify("Auto", st, Pools, now) = "Offline", SeenTarget("On")', ~SeenTarget("Off")'
      PROVE  QuietInv'
  <2>1. st.consistent /\ st.phase = "Off" /\ ~WantedOn(st)
    BY <1>2, <1>6, Classified
  <2>2. rec.pc # "idle" => ~WantedOn(rec.old)
    BY <1>5, <2>1 DEF QuietInv, DownInv, SameRecords
  <2>3. machine.power = "off" /\ After.phase \in {"Off", "Error"} /\ ~machine.stopping
    <3>1. CASE rec.pc = "patch"
      <4>1. rec.old.phase = "Off"
        BY <1>5, <2>1, <3>1 DEF SameRecords
      <4>2. machine.power = "off" /\ rec.new.phase \in {"Off", "Error"} /\ ~machine.stopping
        BY <2>2, <3>1, <4>1 DEF QuietInv, OffInv
      <4> QED BY <1>5, <3>1, <4>2 DEF SameRecords
    <3>2. CASE rec.pc # "patch"
      BY <1>5, <2>1, <3>2 DEF QuietInv, OffInv, SteadyInv, AwakeInv
    <3> QED BY <3>1, <3>2
  <2>4. ~WantedOn(After)
    BY <1>5, <2>1
  <2>5. HaltInv' /\ UpInv'
    BY <1>1, <1>2, <1>6, <2>1, <2>2, <2>3, <2>4 DEF HaltInv, UpInv, WantedOn
  <2>6. DownInv'
    BY <1>1, <1>2, <1>6, <2>2 DEF DownInv, WantedOn
  <2> QED BY <1>4, <2>5, <2>6 DEF QuietInv
<1>7. ASSUME classify("Auto", st, Pools, now) = "Online", SeenTarget("Off")', ~SeenTarget("On")'
      PROVE  QuietInv'
  <2>1. st.phase = "On" /\ ~(st.manual_power_on # None /\ ManualPolicy = "LeaveOn")
    BY <1>2, <1>7, Classified
  <2>2. ~Upcoming
    BY <2>1 DEF QuietInv, UpInv
  <2>3. ~Upcoming'
    BY <1>1, <1>7, <2>2 DEF Upcoming, WantedOn
  <2>4. HaltInv'
    BY <1>1, <1>2, <1>7 DEF QuietInv, HaltInv, WantedOn
  <2>5. ASSUME rec.pc = "patch", WantedOn(After)
        PROVE  /\ WantedOn(rec.new) /\ rec.new.scaling_decision # None
               /\ rec.new.manual_power_on # None =>
                    rec.new.manual_power_on = st.manual_power_on
    <3>1. WantedOn(rec.old) /\ rec.new.scaling_decision = rec.old.scaling_decision
      BY <1>5, <2>2, <2>5 DEF Upcoming
    <3>2. rec.old.manual_power_on = st.manual_power_on
      BY <1>5, <2>5 DEF SameRecords
    <3> QED BY <2>5, <3>1, <3>2 DEF WantedOn, QuietInv, PatchInv
  <2>6. ~(After.phase = "Off" /\ WantedOn(After) /\ After.consistent)
    <3>1. CASE rec.pc = "patch"
      BY <1>5, <2>1, <2>5, <3>1 DEF QuietInv, PatchInv, SameRecords
    <3>2. CASE rec.pc # "patch"
      BY <1>5, <2>1, <3>2
    <3> QED BY <3>1, <3>2
  <2>7. rec.pc # "idle" => rec.old.phase = "On" /\ rec.old.manual_power_on = st.manual_power_on
    BY <1>5, <2>1 DEF SameRecords
  <2>8. ManualPolicy = "LeaveOn" => ~(After.manual_power_on # None /\ WantedOn(After))
    <3>1. CASE rec.pc = "patch"
      BY <1>5, <2>1, <2>5, <3>1 DEF SameRecords
    <3>2. CASE rec.pc # "patch"
      BY <1>5, <2>1, <3>2
    <3> QED BY <3>1, <3>2
  <2>9. DownInv'
    BY <1>1, <1>2, <2>1, <2>6, <2>7, <2>8 DEF DownInv, WantedOn
  <2> QED BY <1>4, <2>3, <2>4, <2>9 DEF QuietInv, UpInv
<1>8. PICK p \in Pools, t \in {"On", "Off"} :
        /\ seen' = [pool |-> p, target |-> t, now |-> now]
        /\ t = "On" => classify("Auto", st, Pools, now) = "Offline"
        /\ t = "Off" => classify("Auto", st, Pools, now) = "Online"
  BY <1>1 DEF PoolPlan
<1>9. CASE seen' = None
  <2>1. seen' = seen
    BY <1>1, <1>9
  <2> QED BY <1>1, <2>1, AsideQuiet DEF QuietInv, SteadyInv, AwakeInv
<1>10. seen' # None =>
         /\ t = "On" => SeenTarget("On")' /\ ~SeenTarget("Off")'
         /\ t = "Off" => SeenTarget("Off")' /\ ~SeenTarget("On")'
  BY <1>8 DEF SeenTarget
<1> QED BY <1>6, <1>7, <1>8, <1>9, <1>10

\* What a command other than a suspend does to the machine.
LEMMA CommandPower ==
  ASSUME NEW m \in Machines, m.power # "asleep", m.stopping => m.power = "up",
         NEW cmd \in {None, "PowerOn", "PowerOff", "ForceOff"}
  PROVE  LET n == Commanded(m, cmd)
         IN /\ n.suspending \in {m.suspending, None} /\ n.power # "asleep"
            /\ n.stopping => n.power = "up" /\ (m.stopping \/ cmd = "PowerOff")
            /\ n.power = "off" => m.power = "off" \/ cmd = "ForceOff"
            /\ m.power = "off" => n.power = "off" \/ cmd = "PowerOn"
<1> DEFINE n == Commanded(m, cmd)
<1>1. CASE cmd = None
  <2>1. n = m
    BY <1>1, NoneAssumption, Zenon DEF Commanded
  <2> QED BY <2>1
<1>2. CASE cmd = "PowerOn"
  <2>1. n = IF m.power = "off" THEN [m EXCEPT !.power = "booting"] ELSE m
    BY <1>2 DEF Commanded
  <2> QED BY <1>2, <2>1 DEF Machines
<1>3. CASE cmd = "PowerOff"
  <2>1. n = IF m.power = "up" THEN [m EXCEPT !.stopping = TRUE] ELSE m
    BY <1>3 DEF Commanded
  <2> QED BY <1>3, <2>1 DEF Machines
<1>4. CASE cmd = "ForceOff"
  <2>1. n = IF m.power = "off" THEN m ELSE InPower("off")
    BY <1>4 DEF Commanded
  <2> QED BY <1>4, <2>1 DEF Machines, InPower
<1> QED BY <1>1, <1>2, <1>3, <1>4

\* What a step with outcome out does: to the status, the machine and the marker.
Carries(out) ==
  /\ out.st.phase = "PoweringOff" =>
       out.mark = "mark" \/ (rec.old.phase = "PoweringOff" /\ out.mark # "clear")
  /\ rec'.pc = "patch" /\ rec'.old = rec.old /\ rec'.new = out.st
  /\ UNCHANGED <<st, seen, policy, member>>
  /\ machine'.suspending = None /\ machine'.power # "asleep"
  /\ machine'.stopping =>
       machine'.power = "up" /\ (machine.stopping \/ out.cmd = "PowerOff")
  /\ machine'.power = "off" => machine.power = "off" \/ out.cmd = "ForceOff"
  /\ machine.power = "off" => machine'.power = "off" \/ out.cmd = "PowerOn"
  /\ machine'.power = "off" /\ machine.power = "off" => blame' = blame
  /\ node'.exists
  /\ node'.marked = IF out.mark = "keep" THEN node.marked ELSE out.mark = "mark"

\* So does the reconcile of a machine that is only ever shut down.
LEMMA HandleCarries ==
  ASSUME TypeOK, RecordsInv, QuietInv, Steady, rec.pc = "act", NEW p \in {"On", "Off"},
         NEW ok \in BOOLEAN, NEW works \in BOOLEAN, Handle(p, ok, works, TRUE)
  PROVE  \E out \in Outcomes : Decided(out, rec, p) /\ Carries(out)
<1>1. PICK fresh \in LeaseFresh, s3 \in Probe :
        LET all  == handle(rec, p, fresh, s3, pods, ok)
            out  == Tried(all, TRUE)
            calm == IF out.cancel THEN [machine EXCEPT !.suspending = None] ELSE machine
            m    == IF works THEN Commanded(calm, out.cmd) ELSE calm
        IN /\ rec' = [pc |-> "patch", old |-> rec.old, new |-> out.st, now |-> rec.now, cmd |-> out.cmd]
           /\ machine' = m
           /\ blame' = IF m.power # calm.power THEN "us" ELSE blame
           /\ node' = Patched(node, out)
           /\ UNCHANGED <<st, seen, env>>
  BY Zenon DEF Handle
<1> DEFINE out == handle(rec, p, fresh, s3, pods, ok)
<1>2. fresh \in BOOLEAN /\ p \in PowerStates
  BY DEF LeaseFresh, PowerStates
<1>3. Read(rec) /\ Boots(rec.old) /\ Till(rec.old, rec.now - 1)
  BY ActingBoots
<1>4. out \in Outcomes /\ PhaseSafe(out, rec.old, pods, rec)
  BY <1>2, <1>3, HandleType
<1>5. Decided(out, rec, p)
  <2>1. /\ rec.policy = "Auto" /\ rec.node.exists /\ rec.old.standby_since = None
        /\ PowerOffMode = "Shutdown" /\ ForceAfterDrainTimeout
    BY DEF QuietInv, SteadyInv, AwakeInv, Steady
  <2> QED BY <1>2, <1>3, <2>1, HandleDecided
<1> HIDE DEF out
<1>6. machine \in Machines /\ node \in Nodes
  BY DEF TypeOK
<1>7. /\ machine.suspending = None /\ machine.power # "asleep" /\ node.exists
      /\ machine.stopping => machine.power = "up"
  BY DEF QuietInv, SteadyInv, AwakeInv
<1>8. [machine EXCEPT !.suspending = None] = machine
  BY <1>6, <1>7 DEF Machines
<1>9. /\ rec' = [pc |-> "patch", old |-> rec.old, new |-> out.st, now |-> rec.now, cmd |-> out.cmd]
      /\ machine' = IF works THEN Commanded(machine, out.cmd) ELSE machine
      /\ blame' = IF machine'.power # machine.power THEN "us" ELSE blame
      /\ node' = Patched(node, out)
      /\ UNCHANGED <<st, seen, policy, member>>
  <2>1. Tried(out, TRUE) = out
    BY DEF Tried
  <2> QED BY <1>1, <1>8, <2>1 DEF out, env
<1>10. node'.exists /\ node'.marked = IF out.mark = "keep" THEN node.marked ELSE out.mark = "mark"
  BY <1>6, <1>7, <1>9 DEF Patched, Nodes
<1>11. /\ machine'.suspending = None /\ machine'.power # "asleep"
       /\ machine'.stopping =>
            machine'.power = "up" /\ (machine.stopping \/ out.cmd = "PowerOff")
       /\ machine'.power = "off" => machine.power = "off" \/ out.cmd = "ForceOff"
       /\ machine.power = "off" => machine'.power = "off" \/ out.cmd = "PowerOn"
  <2>1. out.cmd \in {None, "PowerOn", "PowerOff", "ForceOff"}
    BY <1>5 DEF Decided
  <2> DEFINE n == Commanded(machine, out.cmd)
  <2>2. /\ n.suspending = None /\ n.power # "asleep"
        /\ n.stopping => n.power = "up" /\ (machine.stopping \/ out.cmd = "PowerOff")
        /\ n.power = "off" => machine.power = "off" \/ out.cmd = "ForceOff"
        /\ machine.power = "off" => n.power = "off" \/ out.cmd = "PowerOn"
    BY <1>6, <1>7, <2>1, CommandPower
  <2> HIDE DEF n
  <2>3. machine' = n \/ machine' = machine
    BY <1>9 DEF n
  <2> QED BY <1>7, <2>2, <2>3
<1>12. out.st.phase = "PoweringOff" =>
         out.mark = "mark" \/ (rec.old.phase = "PoweringOff" /\ out.mark # "clear")
  BY <1>4 DEF PhaseSafe
<1>13. /\ rec'.pc = "patch" /\ rec'.old = rec.old /\ rec'.new = out.st
       /\ UNCHANGED <<st, seen, policy, member>>
       /\ machine'.power = "off" /\ machine.power = "off" => blame' = blame
  BY <1>9
<1>14. Carries(out)
  BY <1>10, <1>11, <1>12, <1>13 DEF Carries
<1> QED BY <1>4, <1>5, <1>14

\* A reconcile that reads the power as it is leaves every part as it should be.
LEMMA HandledQuiet ==
  ASSUME TypeOK, RecordsInv, QuietInv, Steady, TypeOK', rec.pc = "act",
         NEW ok \in BOOLEAN, NEW works \in BOOLEAN, Handle(reading, ok, works, TRUE)
  PROVE  QuietInv'
<1> DEFINE p == reading  old == rec.old
<1>1. p \in {"On", "Off"} /\ (p = "Off" <=> machine.power = "off")
  BY DEF reading, QuietInv, SteadyInv, AwakeInv
<1> HIDE DEF p
<1>2. PICK out \in Outcomes : Decided(out, rec, p) /\ Carries(out)
  <2>1. Handle(p, ok, works, TRUE)
    BY DEF p
  <2> QED BY <1>1, <2>1, HandleCarries
<1> DEFINE new == out.st
<1>3. /\ AwakeInv /\ SameRecords(old, st)
      /\ old.standby_since = None /\ old.consistent = st.consistent
      /\ machine.stopping => machine.power = "up"
  BY DEF RecordsInv, QuietInv, SteadyInv, AwakeInv
<1>4. /\ rec'.pc = "patch" /\ rec'.old = old /\ rec'.new = new
      /\ UNCHANGED <<st, seen, policy, member>>
  BY <1>2 DEF Carries
<1>5. /\ new.standby_since = None /\ new.phase # "Standby"
      /\ new.scaling_decision \in {old.scaling_decision, None}
      /\ new.manual_power_on # None =>
           new.manual_power_on = old.manual_power_on \/ new.scaling_decision = None
  BY <1>2 DEF Decided
<1>6. /\ SameRecords(After', new) /\ After'.consistent = new.consistent
      /\ After'.standby_since = None /\ After = st
      /\ WantedOn(After') => WantedOn(st) /\ new.scaling_decision = old.scaling_decision
      /\ Upcoming' <=> Upcoming
      /\ \A t : SeenTarget(t)' <=> SeenTarget(t)
  <2> HIDE DEF new
  <2> QED BY <1>3, <1>4, <1>5, StoredLater
<1> HIDE DEF new
<1>7. OffForFailure(old) => OffForFailure(st)
  BY <1>3, SameFailure
<1>8. OffForFailure(After') => OffForFailure(new)
  BY <1>6, SameFailure
<1>9. After'.phase = new.phase /\ After'.manual_power_on = new.manual_power_on /\ old.phase = st.phase
  BY <1>3, <1>6 DEF SameRecords
<1>10. SteadyInv'
  BY <1>2, <1>3, <1>4, <1>5, <1>6, <1>9 DEF QuietInv, SteadyInv, AwakeInv, Carries
<1>11. MarkInv'
  <2>1. ASSUME out.cmd \in {"PowerOff", "ForceOff"} PROVE node'.marked
    BY <1>2, <1>6, <1>7, <1>9, <2>1 DEF Decided, Carries, QuietInv, MarkInv
  <2>2. ASSUME node.marked, out.mark # "clear" PROVE node'.marked
    BY <1>2, <2>2 DEF Carries, Outcomes, Marks
  <2>3. machine'.stopping => node'.marked
    BY <1>2, <2>1, <2>2 DEF Decided, Carries, QuietInv, MarkInv, HaltInv
  <2>4. machine'.power = "off" /\ blame' = "us" => node'.marked
    BY <1>1, <1>2, <2>1, <2>2 DEF Decided, Carries, QuietInv, MarkInv
  <2>5. After'.phase = "PoweringOff" => node'.marked
    BY <1>2, <1>6, <1>9, <2>2 DEF Carries, QuietInv, MarkInv, new
  <2>6. OffForFailure(After') => node'.marked
    <3>1. ASSUME OffForFailure(new) PROVE node'.marked
      <4>1. out.mark # "clear"
        BY <1>2, <3>1 DEF Decided, OffForFailure, new
      <4>2. out.mark = "mark" \/ OffForFailure(st)
        BY <1>2, <1>7, <3>1 DEF Decided, new
      <4> QED BY <1>2, <1>6, <2>2, <4>1, <4>2 DEF Carries, QuietInv, MarkInv
    <3> QED BY <1>8, <3>1
  <2> QED BY <2>3, <2>4, <2>5, <2>6 DEF MarkInv
<1>12. HaltInv'
  <2>1. ASSUME machine'.stopping PROVE ~WantedOn(After') /\ ~SeenTarget("On")
    <3>1. CASE machine.stopping
      BY <1>6, <3>1 DEF QuietInv, HaltInv
    <3>2. CASE ~machine.stopping
      <4>1. out.cmd = "PowerOff" /\ machine.power # "off"
        BY <1>2, <2>1, <3>2 DEF Carries
      <4>2. ~Upcoming
        BY <4>1 DEF QuietInv, UpInv
      <4>3. ~WantedOn(new)
        BY <1>2, <4>1 DEF Decided, new
      <4> QED BY <1>6, <4>2, <4>3 DEF Upcoming, WantedOn
    <3> QED BY <3>1, <3>2
  <2> QED BY <1>4, <1>6, <2>1 DEF HaltInv
<1>13. OffInv'
  <2>1. After'.phase = "Off" => machine'.power = "off"
    BY <1>1, <1>2, <1>9 DEF Decided, Carries, new
  <2>2. ASSUME old.phase = "Off" PROVE machine.power = "off" /\ ~machine'.stopping
    <3>1. machine.power = "off"
      BY <1>6, <1>9, <2>2 DEF QuietInv, OffInv
    <3>2. machine'.stopping => machine'.power = "up" /\ out.cmd = "PowerOff"
      BY <1>2, <1>3, <3>1 DEF Carries
    <3> QED BY <1>2, <3>1, <3>2 DEF Carries
  <2>3. ASSUME old.phase = "Off", ~WantedOn(old) PROVE machine'.power = "off" /\ new.phase = "Off"
    BY <1>1, <1>2, <2>2, <2>3, NoneAssumption DEF Decided, Carries, new
  <2> QED BY <1>4, <2>1, <2>2, <2>3 DEF OffInv, WantedOn
<1>14. UpInv'
  <2>1. ASSUME Upcoming
        PROVE  /\ machine'.power = "off" /\ st.phase \in {"Off", "Error"} /\ new.phase = "Off"
               /\ ~SeenTarget("Off") /\ (SeenTarget("On") => ~WantedOn(After'))
    <3>1. /\ machine.power = "off" /\ st.phase \in {"Off", "Error"} /\ ~WantedOn(old)
          /\ ~SeenTarget("Off") /\ (SeenTarget("On") => ~WantedOn(st))
      BY <1>6, <2>1 DEF QuietInv, UpInv
    <3>2. new.phase = "Off" /\ out.cmd = None
      BY <1>1, <1>2, <3>1 DEF Decided, new
    <3>3. machine'.power = "off"
      BY <1>2, <3>1, <3>2, NoneAssumption DEF Carries
    <3> QED BY <1>6, <3>1, <3>2, <3>3
  <2> QED BY <1>4, <1>6, <1>9, <2>1 DEF UpInv
<1>15. DownInv'
  <2>1. ASSUME SeenTarget("Off"), WantedOn(After')
        PROVE  /\ WantedOn(old) /\ WantedOn(new)
               /\ new.manual_power_on # None => new.manual_power_on = old.manual_power_on
    <3>1. ~Upcoming
      BY <2>1 DEF QuietInv, UpInv
    <3>2. WantedOn(old) /\ new.scaling_decision = old.scaling_decision
      BY <1>6, <2>1, <3>1 DEF Upcoming
    <3> QED BY <1>5, <3>2 DEF WantedOn
  <2>2. ASSUME SeenTarget("Off"), ManualPolicy = "LeaveOn", WantedOn(After'), new.manual_power_on # None
        PROVE  FALSE
    BY <2>1, <2>2 DEF QuietInv, DownInv
  <2>3. ASSUME SeenTarget("Off"), new.phase = "Off", WantedOn(After'), new.consistent
        PROVE  FALSE
    <3>1. ManualPolicy = "LeaveOn" /\ new.manual_power_on # None
      BY <1>2, <2>1, <2>3 DEF Decided, new
    <3> QED BY <2>2, <2>3, <3>1
  <2>4. old.phase = "Off" /\ old.consistent /\ WantedOn(old) => WantedOn(st) /\ ~SeenTarget("Off")
    BY DEF QuietInv, DownInv
  <2>5. (WantedOn(st)' <=> WantedOn(st)) /\ (WantedOn(rec.old)' <=> WantedOn(old))
    BY <1>4 DEF WantedOn
  <2> QED BY <1>4, <1>6, <1>9, <2>2, <2>3, <2>4, <2>5 DEF DownInv
<1>16. PatchInv'
  <2>1. new.phase = "Off" /\ WantedOn(new) /\ new.consistent =>
          ManualPolicy = "LeaveOn" /\ new.manual_power_on # None
    BY <1>2 DEF Decided, new
  <2>2. WantedOn(rec.new)' <=> WantedOn(new)
    BY <1>4 DEF WantedOn
  <2> QED BY <1>4, <1>5, <2>1, <2>2 DEF PatchInv
<1> QED BY <1>10, <1>11, <1>12, <1>13, <1>14, <1>15, <1>16 DEF QuietInv

\* Every step does.
LEMMA NextQuiet ==
  ASSUME TypeOK, RecordsInv, QuietInv, Steady, TypeOK', [Next]_vars
  PROVE  QuietInv'
<1>0. /\ policy = "Auto" /\ member = Pools /\ node.exists /\ node \in Nodes
      /\ machine.suspending = None /\ machine.power # "asleep" /\ machine \in Machines
      /\ rec.pc = "act" => rec.node.exists
  BY DEF QuietInv, SteadyInv, AwakeInv, TypeOK
<1>1. CASE Begin
  BY <1>1, BeginQuiet
<1>2. CASE HandleReconcile \/ CommandFails \/ CommandLost \/ CommandUnanswered
  <2>1. PICK ok \in BOOLEAN, works \in BOOLEAN :
          Handle(reading, ok, works, TRUE) /\ rec.pc = "act"
    BY <1>2, Zenon DEF HandleReconcile, CommandFails, CommandLost, CommandUnanswered
  <2> QED BY <2>1, HandledQuiet
<1>3. CASE BuildFails \/ ReadFails
  BY <1>3, GivenUpQuiet
<1>4. CASE Patch
  BY <1>4, PatchQuiet
<1>5. CASE PoolPlan
  BY <1>5, PlanQuiet
<1>6. CASE PoolDecide
  BY <1>6, DecideQuiet
<1>7. CASE BootDone \/ ShutdownDone \/ PersonPowersOff
  BY <1>7, PowerQuiet
<1>8. CASE \/ NodeReady \/ NodeNotReady \/ PodScheduled \/ PodGone \/ PersonCordons
           \/ PersonUncordons \/ Tick \/ UNCHANGED vars
  <2>1. UNCHANGED <<st, rec, seen, policy, member, blame>>
    BY <1>8 DEF NodeReady, NodeNotReady, PodScheduled, PodGone, PersonCordons, PersonUncordons,
       Tick, vars, env
  <2>2. node'.exists /\ node'.marked = node.marked
    BY <1>0, <1>8 DEF NodeReady, NodeNotReady, PodScheduled, PodGone, PersonCordons,
       PersonUncordons, Tick, vars, env, Nodes
  <2>3. \/ machine' = machine
        \/ machine' = [machine EXCEPT !.quiet = None]
    BY <1>8 DEF NodeReady, NodeNotReady, PodScheduled, PodGone, PersonCordons,
       PersonUncordons, Tick, vars, env
  <2>4. /\ machine'.power = machine.power /\ machine'.stopping = machine.stopping
        /\ machine'.suspending = machine.suspending
    BY <1>0, <2>3 DEF Machines
  <2> QED BY <2>1, <2>2, <2>4, AsideQuiet
<1>9. ~(SuspendRuns \/ SuspendExpires \/ SelfWake)
  BY <1>0 DEF SuspendRuns, SuspendExpires, SelfWake, Within
<1>10. ~(\/ CallFails \/ Misread \/ ApiError \/ Crash \/ PersonPowersOn \/ SetPolicy
         \/ SetMembership \/ DeleteNode)
  BY <1>0 DEF Steady, CallFails, Misread, ApiError, Crash, PersonPowersOn, SetPolicy,
     SetMembership, DeleteNode, Spend
<1> QED
  BY <1>1, <1>2, <1>3, <1>4, <1>5, <1>6, <1>7, <1>8, <1>9, <1>10
  DEF Next, Controller, Pool, Hardware, People

\* A config that was never reconciled is of a machine that nobody has decided on.
LEMMA InitQuiet == Init => QuietInv
<1> SUFFICES ASSUME Init PROVE QuietInv
  OBVIOUS
<1>1. /\ st.phase = "Unknown" /\ st.standby_since = None /\ st.boot_failure = None
      /\ st.scaling_decision = None /\ rec.pc = "idle" /\ seen = None
      /\ policy = "Auto" /\ member = Pools /\ blame = "person"
  BY DEF Init, DefaultStatus
<1>2. /\ machine.suspending = None /\ machine.power # "asleep" /\ ~machine.stopping
      /\ node.exists
  BY DEF Init, NoNode
<1>3. After = st /\ ~SeenTarget("On") /\ ~SeenTarget("Off") /\ ~Upcoming
  BY <1>1 DEF After, SeenTarget, Upcoming
<1>4. SteadyInv /\ MarkInv /\ HaltInv
  BY <1>1, <1>2, <1>3 DEF SteadyInv, AwakeInv, MarkInv, HaltInv, OffForFailure
<1>5. OffInv /\ UpInv /\ DownInv /\ PatchInv
  BY <1>1, <1>2, <1>3 DEF OffInv, UpInv, DownInv, PatchInv, WantedOn
<1> QED BY <1>4, <1>5 DEF QuietInv

\* A machine that we turned off carries the powered-off marker, so that node
\* fencing leaves it alone (power_off, boot_failed, release_failed_power_on set
\* it, online clears it, on the Node of the cache), however the commands and
\* the reads of the power fail and whatever order the reconciles, the decisions
\* of the pools and the shutdowns take.  Assumes Steady: without it TLC finds
\* unmarked machines that are off, as where a drain that fails while an earlier
\* shutdown runs is given up, or where a person switches the machine on and off.
THEOREM Marked == ASSUME Steady PROVE Spec => []QuietIsMarked
<1> DEFINE IInv == TypeOK /\ RecordsInv /\ QuietInv
<1>1. Init => IInv
  BY InitType, InitRecords, InitQuiet
<1>2. IInv /\ [Next]_vars => IInv'
  BY NextType, NextRecords, NextQuiet
<1>3. IInv => QuietIsMarked
  BY DEF QuietInv, SteadyInv, AwakeInv, MarkInv, QuietIsMarked
<1> QED
  BY <1>1, <1>2, <1>3, PTL DEF Spec

-----------------------------------------------------------------------------
(* BackoffRespected.                                                       *)

\* Machines are shut down and never suspended, and a drain that fails is
\* forced; powerPolicy and the pools' selection stay; the timeouts of a boot and
\* of a power-on are no shorter than two reconciles are apart.
Patient ==
  /\ PowerOffMode = "Shutdown" /\ ForceAfterDrainTimeout
  /\ BootTimeout >= 2 /\ PowerOnTimeout >= 2
  /\ Events \cap {"policy", "membership"} = {}

\* If x is wanted on, that was decided at time w or later.
Young(x, w) == WantedOn(x) => x.scaling_decision.time >= w

\* The pool controller has written since the status of this reconcile was read.
Wrote == rec.pc # "idle" /\ st.scaling_decision # rec.old.scaling_decision

\* What either controller is at is not older than one unit of time.
ClockInv ==
  /\ rec.pc # "idle" => rec.now <= now /\ now <= rec.now + 1
  /\ seen # None => seen.now <= now /\ now <= seen.now + 1

\* A machine that is wanted on, or soon will be, is in no backoff.
WakeInv ==
  /\ WantedOn(st) \/ Upcoming => ~Barred(st, now)
  /\ WantedOn(After) \/ Upcoming => ~Barred(After, now)
  /\ rec.pc # "idle" /\ WantedOn(rec.old) => ~Barred(rec.old, rec.now)

\* Of a machine about to be wanted on nothing is recorded that a reconcile
\* could take for a boot or a power-on that took too long.
ComingInv ==
  /\ Upcoming /\ rec.pc = "act" =>
       BootedFrom(rec.old, rec.now - 2) /\ Young(rec.old, rec.now - 2)
  /\ SeenTarget("On") => /\ ~WantedOn(st)
                         /\ BootedFrom(st, seen.now - 1) /\ BootedFrom(After, seen.now - 1)

\* A reconcile that has missed a decision is of a machine in Off only if the
\* decision it has read instead is young.
OlderInv ==
  /\ Wrote => Young(st, rec.now)
  /\ /\ rec.pc # "idle" /\ (Wrote \/ SeenTarget("Off"))
     /\ rec.old.phase = "Off" /\ rec.old.consistent
     => Young(rec.old, rec.now - 2)

\* So is the decision that one to turn the machine off replaces, where the
\* machine is in Off or left on by LeaveOn.
DoneInv ==
  SeenTarget("Off") => \A x \in {st, After} :
    \/ x.phase = "Off" /\ x.consistent
    \/ ManualPolicy = "LeaveOn" /\ x.manual_power_on # None
    => Young(x, seen.now - 1)

\* A failure of a machine in Off is that of a power-on that took too long.
FailInv ==
  rec.pc = "patch" /\ rec.old.phase = "Off" =>
    /\ BootedFrom(rec.new, rec.now)
    /\ \/ rec.new.boot_failure \in {rec.old.boot_failure, None}
       \/ PowerOnOverran(rec.old, rec.now)

BackoffInv == /\ ClockInv /\ AwakeInv /\ WakeInv /\ ComingInv /\ OlderInv /\ DoneInv
              /\ PatchInv /\ FailInv

\* The times in the state are natural numbers.
LEMMA Times ==
  ASSUME TypeOK
  PROVE  /\ now \in Nat /\ rec.now \in Nat /\ (seen # None => seen.now \in Nat)
         /\ st \in Status /\ After \in Status
         /\ rec.pc # "idle" => rec.old \in Status
         /\ rec.pc = "patch" => rec.new \in Status
<1>1. rec.pc = "patch" => rec.old \in Status /\ rec.new \in Status
  BY DEF TypeOK, Idle, Acting, Patching
<1>2. st \in Status
  BY DEF TypeOK
<1>3. After \in Status
  BY <1>1, <1>2, MergeType DEF After
<1> QED BY <1>1, <1>2, <1>3 DEF TypeOK, Idle, Acting, Patching, Planned

\* The failure and the start of a boot are among the records of a reconcile.
LEMMA SameBoot ==
  ASSUME NEW x, NEW y, SameRecords(x, y)
  PROVE  /\ \A n : Barred(x, n) <=> Barred(y, n)
         /\ \A w : BootedFrom(x, w) <=> BootedFrom(y, w)
BY DEF SameRecords, Barred, BootedFrom

\* What dates from a time on dates from an earlier one on.
LEMMA Earlier ==
  ASSUME NEW x \in Status, NEW v \in Int, NEW w \in Int, v <= w
  PROVE  /\ BootedFrom(x, w) => BootedFrom(x, v)
         /\ Young(x, w) => Young(x, v)
<1>1. /\ x.powered_on_not_ready_since # None => x.powered_on_not_ready_since \in Nat
      /\ x.phase_since # None => x.phase_since \in Nat
      /\ x.scaling_decision # None => x.scaling_decision.time \in Nat
  BY StatusFields DEF OptTime, Decisions
<1> QED BY <1>1 DEF BootedFrom, Young, WantedOn

\* A backoff that lasts has lasted before.
LEMMA BarredBefore ==
  ASSUME NEW x \in Status, NEW m \in Nat, NEW n \in Nat, m <= n, Barred(x, n)
  PROVE  Barred(x, m)
<1>1. x.boot_failure.time \in Nat /\ BootFailureBackoff \in Nat
  BY StatusFields, DurationAssumption DEF Barred, BootFailures
<1> QED BY <1>1 DEF Barred

\* Nothing that began two units ago has overrun its timeout.
LEMMA NotOverran ==
  ASSUME Patient, NEW x \in Status, NEW n \in Nat
  PROVE  /\ BootedFrom(x, n - 2) => ~BootOverran(x, n)
         /\ Young(x, n - 2) => ~PowerOnOverran(x, n)
<1>1. /\ x.powered_on_not_ready_since # None => x.powered_on_not_ready_since \in Nat
      /\ x.phase_since # None => x.phase_since \in Nat
      /\ x.scaling_decision # None => x.scaling_decision.time \in Nat
  BY StatusFields DEF OptTime, Decisions
<1>2. BootTimeout \in Nat /\ PowerOnTimeout \in Nat /\ BootTimeout >= 2 /\ PowerOnTimeout >= 2
  BY DurationAssumption DEF Patient
<1>3. BootedFrom(x, n - 2) => boot_start(x, n) \in Int /\ boot_start(x, n) >= n - 2
  BY <1>1 DEF BootedFrom, boot_start, MinOf
<1>4. BootedFrom(x, n - 2) => ~BootOverran(x, n)
  BY <1>2, <1>3 DEF BootOverran
<1>5. Young(x, n - 2) => ~PowerOnOverran(x, n)
  BY <1>1, <1>2 DEF Young, PowerOnOverran, WantedOn
<1> QED BY <1>4, <1>5

\* What a reconcile is about to store, whether its handlers have run or it has
\* given up before them.
Stores ==
  /\ rec.pc = "act" /\ rec'.pc = "patch" /\ rec'.old = rec.old /\ rec'.now = rec.now
  /\ UNCHANGED <<st, seen, policy, member, now>>
  /\ rec'.new.standby_since = None /\ rec'.new.phase # "Standby"
  /\ rec'.new.scaling_decision \in {rec.old.scaling_decision, None}
  /\ rec'.new.manual_power_on # None =>
       rec'.new.manual_power_on = rec.old.manual_power_on \/ rec'.new.scaling_decision = None
  /\ rec'.new.phase = "Off" /\ WantedOn(rec'.new) /\ rec'.new.consistent =>
       \/ rec.old.phase = "Off" /\ rec.old.consistent
       \/ ManualPolicy = "LeaveOn" /\ rec'.new.manual_power_on # None
  /\ \A w \in Int : w <= rec.now /\ BootedFrom(rec.old, w) => BootedFrom(rec'.new, w)
  /\ \/ rec'.new.boot_failure \in {rec.old.boot_failure, None}
     \/ /\ rec'.new.scaling_decision = None
        /\ BootOverran(rec.old, rec.now) \/ PowerOnOverran(rec.old, rec.now)

\* A reconcile of a machine that is never suspended is such a step, and sends
\* PowerOn to one that a pool wants on.
LEMMA HandledStores ==
  ASSUME TypeOK, RecordsInv, AwakeInv, Patient, rec.pc = "act", NEW p \in {"On", "Off"},
         NEW ok \in BOOLEAN, NEW works, NEW helped, Handle(p, ok, works, helped)
  PROVE  Stores /\ (rec'.cmd = "PowerOn" => WantedOn(rec.old))
<1>1. PICK fresh \in BOOLEAN, s3 \in Probe :
        LET out == handle(rec, p, fresh, s3, pods, ok)
        IN rec' = [pc |-> "patch", old |-> rec.old, new |-> out.st, now |-> rec.now,
                   cmd |-> out.cmd]
  <2>1. p \in PowerStates
    BY DEF PowerStates
  <2> QED BY <2>1, HandleRecord
<1>2. UNCHANGED <<st, seen, policy, member, now>>
  <2>1. UNCHANGED <<st, seen, env, now>>
    BY Zenon DEF Handle
  <2> QED BY <2>1 DEF env
<1>3. /\ Read(rec) /\ Boots(rec.old) /\ Till(rec.old, rec.now - 1)
      /\ rec.policy = "Auto" /\ (rec.node.exists \/ rec.member = {})
      /\ rec.old.standby_since = None
  BY ActingBoots DEF AwakeInv
<1> DEFINE out == handle(rec, p, fresh, s3, pods, ok)
<1>4. Decided(out, rec, p)
  BY <1>3, HandleDecided DEF Patient
<1>5. /\ \A w \in Int : w <= rec.now /\ BootedFrom(rec.old, w) => BootedFrom(out.st, w)
      /\ \/ out.st.boot_failure \in {rec.old.boot_failure, None}
         \/ /\ out.st.scaling_decision = None
            /\ BootOverran(rec.old, rec.now) \/ PowerOnOverran(rec.old, rec.now)
  BY <1>3, HandleFailure
<1> HIDE DEF out
<1>6. /\ rec'.pc = "patch" /\ rec'.old = rec.old /\ rec'.new = out.st /\ rec'.now = rec.now
      /\ rec'.cmd = out.cmd
  BY <1>1 DEF out
<1> QED BY <1>2, <1>4, <1>5, <1>6 DEF Stores, Decided

\* So is giving up before them.
LEMMA GivenUpStores ==
  ASSUME TypeOK, RecordsInv, AwakeInv, BuildFails \/ ReadFails
  PROVE  Stores /\ rec'.cmd = None
<1> DEFINE new == rec'.new  old == rec.old
<1>1. /\ rec.pc = "act" /\ rec'.pc = "patch" /\ rec'.old = old /\ rec'.now = rec.now
      /\ rec'.cmd = None /\ UNCHANGED <<st, seen, policy, member, now>>
      /\ new.phase \in {"Error", old.phase} /\ new.phase_since = old.phase_since
      /\ new.boot_failure = old.boot_failure
      /\ new.powered_on_not_ready_since = old.powered_on_not_ready_since
      /\ new.manual_power_on = old.manual_power_on
      /\ new.scaling_decision \in {old.scaling_decision, None}
      /\ new.consistent = old.consistent /\ new.standby_since = old.standby_since
  BY GivenUp
<1>2. old.standby_since = None /\ old.phase # "Standby"
  BY <1>1 DEF RecordsInv, SameRecords, AwakeInv
<1> HIDE DEF new, old
<1>3. \A w : BootedFrom(old, w) => BootedFrom(new, w)
  BY <1>1 DEF BootedFrom
<1> QED BY <1>1, <1>2, <1>3 DEF Stores, new, old

\* Such a step records no failure of a machine that is still wanted on, or soon
\* will be.
LEMMA StoresBackoff ==
  ASSUME TypeOK, RecordsInv, BackoffInv, Patient, TypeOK', Stores
  PROVE  BackoffInv'
<1> DEFINE new == rec'.new  old == rec.old
<1>1. /\ rec.pc = "act" /\ rec'.pc = "patch" /\ rec'.old = old /\ rec'.now = rec.now
      /\ UNCHANGED <<st, seen, policy, member, now>>
      /\ new.standby_since = None /\ new.phase # "Standby"
      /\ new.scaling_decision \in {old.scaling_decision, None}
      /\ new.manual_power_on # None =>
           new.manual_power_on = old.manual_power_on \/ new.scaling_decision = None
      /\ new.phase = "Off" /\ WantedOn(new) /\ new.consistent =>
           \/ old.phase = "Off" /\ old.consistent
           \/ ManualPolicy = "LeaveOn" /\ new.manual_power_on # None
      /\ \A w \in Int : w <= rec.now /\ BootedFrom(old, w) => BootedFrom(new, w)
      /\ \/ new.boot_failure \in {old.boot_failure, None}
         \/ /\ new.scaling_decision = None
            /\ BootOverran(old, rec.now) \/ PowerOnOverran(old, rec.now)
  BY DEF Stores
<1>2. /\ now \in Nat /\ rec.now \in Nat /\ (seen # None => seen.now \in Nat)
      /\ st \in Status /\ old \in Status
  BY <1>1, Times
<1>3. /\ SameRecords(After', new) /\ After'.consistent = new.consistent
      /\ After'.standby_since = None /\ After = st
      /\ WantedOn(After') => /\ WantedOn(st) /\ new.scaling_decision = old.scaling_decision
                             /\ After'.scaling_decision = st.scaling_decision
      /\ Upcoming' <=> Upcoming
      /\ \A t : SeenTarget(t)' <=> SeenTarget(t)
  BY <1>1, StoredLater DEF BackoffInv
<1>4. /\ SameRecords(old, st) /\ old.consistent = st.consistent /\ old.standby_since = None
      /\ old.phase = "Off" => old.powered_on_not_ready_since = None
  BY <1>1, ActingBoots DEF RecordsInv, BackoffInv, AwakeInv, Boots
<1> HIDE DEF new
<1>5. /\ rec.now <= now /\ now <= rec.now + 1
      /\ seen # None => seen.now <= now /\ now <= seen.now + 1
  BY <1>1 DEF BackoffInv, ClockInv
<1>6. ASSUME Upcoming \/ WantedOn(After')
      PROVE  new.boot_failure \in {old.boot_failure, None}
  <2>1. CASE Upcoming
    <3>1. BootedFrom(old, rec.now - 2) /\ Young(old, rec.now - 2)
      BY <1>1, <2>1 DEF BackoffInv, ComingInv
    <3> QED BY <1>1, <1>2, <3>1, NotOverran
  <2>2. CASE ~Upcoming
    <3>1. WantedOn(old) /\ new.scaling_decision = old.scaling_decision
      BY <1>1, <1>3, <1>6, <2>2 DEF Upcoming
    <3> QED BY <1>1, <3>1 DEF WantedOn
  <2> QED BY <2>1, <2>2
<1>7. ASSUME Upcoming \/ WantedOn(After') PROVE ~Barred(After', now)
  <2>1. ~Barred(st, now)
    BY <1>3, <1>7 DEF BackoffInv, WakeInv
  <2> QED BY <1>3, <1>4, <1>6, <1>7, <2>1 DEF SameRecords, Barred
<1>8. ClockInv' /\ AwakeInv'
  BY <1>1, <1>3, <1>4, <1>5 DEF ClockInv, AwakeInv, BackoffInv, SameRecords
<1>9. WakeInv'
  BY <1>1, <1>3, <1>7 DEF WakeInv, BackoffInv, WantedOn, Barred
<1>10. ComingInv'
  <2>1. ASSUME SeenTarget("On")
        PROVE  ~WantedOn(st) /\ BootedFrom(st, seen.now - 1) /\ BootedFrom(After', seen.now - 1)
    <3>1. ~WantedOn(st) /\ BootedFrom(st, seen.now - 1)
      BY <2>1 DEF BackoffInv, ComingInv
    <3>2. seen.now - 1 \in Int /\ seen.now - 1 <= rec.now
      BY <1>2, <1>5, <2>1 DEF SeenTarget
    <3>3. BootedFrom(new, seen.now - 1)
      BY <1>1, <1>4, <3>1, <3>2, SameBoot
    <3> QED BY <1>3, <3>1, <3>3, SameBoot
  <2> QED BY <1>1, <1>3, <2>1 DEF ComingInv, WantedOn, BootedFrom
<1>11. OlderInv'
  BY <1>1, <1>3 DEF OlderInv, BackoffInv, Wrote, Young, WantedOn
<1>12. DoneInv'
  <2>1. ASSUME SeenTarget("Off"), WantedOn(After'),
               \/ new.phase = "Off" /\ new.consistent
               \/ ManualPolicy = "LeaveOn" /\ new.manual_power_on # None
        PROVE  After'.scaling_decision.time >= seen.now - 1
    <3>1. /\ WantedOn(st) /\ new.scaling_decision = old.scaling_decision
          /\ After'.scaling_decision = st.scaling_decision
      BY <1>3, <2>1
    <3>2. CASE Wrote
      <4>1. st.scaling_decision.time >= rec.now /\ st.scaling_decision.time \in Nat
        BY <1>2, <3>1, <3>2, StatusFields DEF BackoffInv, OlderInv, Young, WantedOn, Decisions
      <4> QED BY <1>2, <1>5, <2>1, <3>1, <4>1 DEF SeenTarget
    <3>3. CASE ~Wrote
      <4>1. st.scaling_decision = new.scaling_decision /\ WantedOn(new)
        BY <1>1, <3>1, <3>3 DEF Wrote, WantedOn
      <4>2. \/ st.phase = "Off" /\ st.consistent
            \/ ManualPolicy = "LeaveOn" /\ st.manual_power_on # None
        BY <1>1, <1>4, <2>1, <4>1 DEF SameRecords, WantedOn
      <4> QED BY <2>1, <3>1, <4>2 DEF BackoffInv, DoneInv, Young
    <3> QED BY <3>2, <3>3
  <2>2. After'.phase = new.phase /\ After'.manual_power_on = new.manual_power_on
    BY <1>3 DEF SameRecords
  <2> QED BY <1>1, <1>3, <2>1, <2>2 DEF BackoffInv, DoneInv, Young, WantedOn
<1>13. PatchInv'
  BY <1>1 DEF PatchInv, WantedOn, new
<1>14. FailInv'
  <2>1. ASSUME old.phase = "Off"
        PROVE  /\ BootedFrom(new, rec.now)
               /\ \/ new.boot_failure \in {old.boot_failure, None}
                  \/ PowerOnOverran(old, rec.now)
    <3>1. BootedFrom(old, rec.now) /\ boot_start(old, rec.now) = rec.now
      BY <1>4, <2>1 DEF BootedFrom, boot_start
    <3>2. ~BootOverran(old, rec.now)
      BY <1>2, <3>1, DurationAssumption DEF BootOverran
    <3> QED BY <1>1, <1>2, <3>1, <3>2
  <2> QED BY <1>1, <2>1 DEF FailInv, new, BootedFrom, PowerOnOverran, WantedOn
<1> QED BY <1>8, <1>9, <1>10, <1>11, <1>12, <1>13, <1>14 DEF BackoffInv

\* A reconcile begins with the status that is stored, at most one unit after a
\* decision on its way was planned.
LEMMA BeginBackoff ==
  ASSUME TypeOK, RecordsInv, BackoffInv, Begin
  PROVE  BackoffInv'
<1>1. /\ rec.pc = "idle" /\ rec'.pc = "act" /\ rec'.old = st /\ rec'.policy = policy
      /\ rec'.now = now /\ (rec'.node.exists \/ rec'.member = {})
      /\ UNCHANGED <<st, seen, policy, member, now>>
  BY DEF Begin, env
<1>2. /\ now \in Nat /\ st \in Status /\ After = st /\ After' = st
      /\ seen # None => seen.now \in Nat /\ seen.now <= now /\ now <= seen.now + 1
  BY <1>1, Times DEF After, BackoffInv, ClockInv
<1>3. (Upcoming' <=> SeenTarget("On")) /\ ~Wrote' /\ \A t : SeenTarget(t)' <=> SeenTarget(t)
  BY <1>1 DEF Upcoming, SeenTarget, WantedOn, Wrote
<1>4. /\ BootedFrom(st, seen.now - 1) /\ seen # None => BootedFrom(st, now - 2)
      /\ Young(st, seen.now - 1) /\ seen # None => Young(st, now - 2)
  BY <1>2, Earlier
<1>5. ClockInv' /\ AwakeInv' /\ PatchInv' /\ FailInv'
  BY <1>1, <1>2 DEF BackoffInv, ClockInv, AwakeInv, PatchInv, FailInv
<1>6. WakeInv'
  BY <1>1, <1>2, <1>3 DEF BackoffInv, WakeInv, Upcoming, WantedOn, Barred
<1>7. ComingInv'
  <2>1. SeenTarget("On") => /\ ~WantedOn(st) /\ BootedFrom(st, seen.now - 1)
                            /\ BootedFrom(st, now - 2) /\ Young(st, now - 2)
    BY <1>4 DEF BackoffInv, ComingInv, SeenTarget, Young
  <2> QED BY <1>1, <1>2, <1>3, <2>1 DEF ComingInv, WantedOn, BootedFrom, Young
<1>8. OlderInv'
  <2>1. SeenTarget("Off") /\ st.phase = "Off" /\ st.consistent => Young(st, now - 2)
    BY <1>4 DEF BackoffInv, DoneInv, SeenTarget
  <2> QED BY <1>1, <1>3, <2>1 DEF OlderInv, Young, WantedOn
<1>9. DoneInv'
  BY <1>1, <1>2, <1>3 DEF BackoffInv, DoneInv, Young, WantedOn
<1> QED BY <1>5, <1>6, <1>7, <1>8, <1>9 DEF BackoffInv

\* A reconcile ends: its status is stored, or lost with it.
LEMMA EndBackoff ==
  ASSUME TypeOK, RecordsInv, BackoffInv, Patch \/ ApiError \/ Crash
  PROVE  BackoffInv'
<1>1. /\ rec'.pc = "idle" /\ st' \in {st, After} /\ seen' \in {seen, None}
      /\ UNCHANGED <<policy, member, now>>
  <2>1. CASE Patch
    BY <2>1 DEF Patch, Stop, After, env
  <2>2. CASE ApiError \/ Crash
    BY <2>2 DEF ApiError, Crash, Stop, env
  <2> QED BY <2>1, <2>2
<1>2. After' = st'
  BY <1>1 DEF After
<1>3. \A t : SeenTarget(t)' => SeenTarget(t) /\ seen' = seen
  BY <1>1 DEF SeenTarget
<1>4. (Upcoming' <=> SeenTarget("On")') /\ (Upcoming' => Upcoming) /\ ~Wrote'
  BY <1>1, <1>3 DEF Upcoming, Wrote
<1>5. ClockInv' /\ AwakeInv' /\ PatchInv' /\ FailInv' /\ OlderInv'
  BY <1>1, <1>2, <1>4 DEF BackoffInv, ClockInv, AwakeInv, PatchInv, FailInv, OlderInv
<1>6. WakeInv'
  BY <1>1, <1>2, <1>4 DEF BackoffInv, WakeInv
<1>7. ComingInv'
  <2>1. WantedOn(After) => WantedOn(st)
    BY AfterFields DEF BackoffInv
  <2> QED BY <1>1, <1>2, <1>3, <1>4, <2>1 DEF BackoffInv, ComingInv
<1>8. DoneInv'
  BY <1>1, <1>2, <1>3 DEF BackoffInv, DoneInv
<1> QED BY <1>5, <1>6, <1>7, <1>8 DEF BackoffInv

\* The pool controller plans: a machine is to be turned on only out of backoff,
\* and the reconcile in progress records no failure of it.
LEMMA PlanBackoff ==
  ASSUME TypeOK, RecordsInv, BackoffInv, Patient, PoolPlan
  PROVE  BackoffInv'
<1>1. /\ seen = None /\ UNCHANGED <<st, rec, policy, member, now>>
      /\ policy = "Auto" /\ member = Pools
  BY DEF PoolPlan, env, BackoffInv, AwakeInv
<1>2. /\ now \in Nat /\ rec.now \in Nat /\ st \in Status /\ st.phase # "Standby"
      /\ After' = After /\ (Wrote' <=> Wrote)
      /\ rec.pc # "idle" => rec.old \in Status
      /\ rec.pc = "patch" => rec.new \in Status
  BY <1>1, Times DEF BackoffInv, AwakeInv, After, Wrote
<1>3. ~SeenTarget("On") /\ ~SeenTarget("Off")
  BY <1>1 DEF SeenTarget
<1>4. /\ rec.pc # "patch" => After = st
      /\ rec.pc = "patch" =>
           /\ SameRecords(After, rec.new) /\ After.consistent = rec.new.consistent
           /\ After.scaling_decision = IF rec.new.scaling_decision # rec.old.scaling_decision
                                       THEN rec.new.scaling_decision ELSE st.scaling_decision
           /\ WantedOn(After) =>
                WantedOn(st) /\ rec.new.scaling_decision = rec.old.scaling_decision
      /\ rec.pc # "idle" => SameRecords(rec.old, st) /\ rec.old.consistent = st.consistent
  BY AfterFields DEF BackoffInv, AwakeInv
<1>5. rec.pc # "idle" => rec.now <= now /\ now <= rec.now + 1
  BY DEF BackoffInv, ClockInv
<1>6. AwakeInv' /\ PatchInv' /\ FailInv'
  BY <1>1, <1>2 DEF BackoffInv, AwakeInv, PatchInv, FailInv, WantedOn, BootedFrom, PowerOnOverran
<1>7. PICK p \in Pools, t \in {"On", "Off"} :
        /\ seen' = [pool |-> p, target |-> t, now |-> now]
        /\ t = "On" => classify("Auto", st, Pools, now) = "Offline"
        /\ t = "Off" => classify("Auto", st, Pools, now) = "Online"
  BY <1>1 DEF PoolPlan
<1>8. ClockInv' /\ (seen' # None => seen'.now = now /\ seen'.target = t)
  BY <1>1, <1>2, <1>7 DEF BackoffInv, ClockInv
<1>9. CASE t = "On"
  <2>1. st.consistent /\ st.phase = "Off" /\ ~WantedOn(st) /\ ~Barred(st, now)
    BY <1>2, <1>7, <1>9, Classified
  <2>2. ~WantedOn(After) /\ ~Upcoming
    BY <1>3, <1>4, <2>1 DEF Upcoming
  <2>3. rec.pc # "idle" => Young(rec.old, rec.now - 2)
    <3>1. CASE Wrote
      BY <1>4, <2>1, <3>1 DEF BackoffInv, OlderInv, SameRecords
    <3>2. CASE ~Wrote
      BY <2>1, <3>2 DEF Wrote, Young, WantedOn
    <3> QED BY <3>1, <3>2
  <2>4. \A w : BootedFrom(st, w)
    BY <2>1 DEF RecordsInv, Boots, BootedFrom
  <2>5. rec.pc # "idle" => BootedFrom(rec.old, rec.now - 2)
    BY <1>4, <2>4, SameBoot
  <2>6. ~Barred(After, now) /\ BootedFrom(After, now - 1)
    <3>1. CASE rec.pc = "patch"
      <4>1. /\ BootedFrom(rec.new, rec.now)
            /\ \/ rec.new.boot_failure \in {rec.old.boot_failure, None}
               \/ PowerOnOverran(rec.old, rec.now)
        BY <1>4, <2>1, <3>1 DEF BackoffInv, FailInv, SameRecords
      <4>2. rec.new.boot_failure \in {st.boot_failure, None}
        BY <1>2, <1>4, <2>3, <3>1, <4>1, NotOverran DEF SameRecords
      <4>3. ~Barred(rec.new, now)
        BY <2>1, <4>2 DEF Barred
      <4>4. BootedFrom(rec.new, now - 1)
        BY <1>2, <1>5, <3>1, <4>1, Earlier
      <4> QED BY <1>4, <3>1, <4>3, <4>4, SameBoot
    <3>2. CASE rec.pc # "patch"
      BY <1>4, <2>1, <2>4, <3>2
    <3> QED BY <3>1, <3>2
  <2>7. ~SeenTarget("Off")'
    BY <1>8, <1>9 DEF SeenTarget
  <2>8. WakeInv'
    BY <1>1, <1>2, <2>1, <2>6 DEF BackoffInv, WakeInv, Barred, WantedOn
  <2>9. ComingInv'
    BY <1>1, <1>2, <1>8, <2>1, <2>3, <2>4, <2>5, <2>6
       DEF ComingInv, SeenTarget, WantedOn, BootedFrom, Young
  <2>10. OlderInv' /\ DoneInv'
    BY <1>1, <1>2, <2>7 DEF BackoffInv, OlderInv, DoneInv, Young, WantedOn
  <2> QED BY <1>6, <1>8, <2>8, <2>9, <2>10 DEF BackoffInv
<1>10. CASE t = "Off"
  <2>1. st.phase = "On" /\ ~(st.manual_power_on # None /\ ManualPolicy = "LeaveOn")
    BY <1>2, <1>7, <1>10, Classified
  <2>2. ~SeenTarget("On")'
    BY <1>8, <1>10 DEF SeenTarget
  <2>3. Upcoming' => Upcoming
    BY <1>1, <2>2 DEF Upcoming, WantedOn
  <2>4. WakeInv'
    BY <1>1, <1>2, <2>3 DEF BackoffInv, WakeInv, Barred, WantedOn
  <2>5. ComingInv'
    BY <1>1, <2>2, <2>3 DEF BackoffInv, ComingInv, BootedFrom, Young, WantedOn
  <2>6. OlderInv'
    BY <1>1, <1>2, <1>4, <2>1 DEF BackoffInv, OlderInv, SameRecords, Young, WantedOn
  <2>7. ASSUME rec.pc = "patch", WantedOn(After),
               \/ After.phase = "Off" /\ After.consistent
               \/ ManualPolicy = "LeaveOn" /\ After.manual_power_on # None
        PROVE  After.scaling_decision.time >= now - 1
    <3>1. /\ WantedOn(st) /\ rec.new.scaling_decision = rec.old.scaling_decision
          /\ After.scaling_decision = st.scaling_decision
      BY <1>4, <2>7
    <3>2. CASE Wrote
      <4>1. st.scaling_decision.time >= rec.now /\ st.scaling_decision.time \in Nat
        BY <1>2, <3>1, <3>2, StatusFields DEF BackoffInv, OlderInv, Young, WantedOn, Decisions
      <4> QED BY <1>2, <1>5, <2>7, <3>1, <4>1
    <3>3. CASE ~Wrote
      <4>1. WantedOn(rec.new) /\ rec.new.scaling_decision # None
        BY <2>7, <3>1, <3>3 DEF Wrote, WantedOn
      <4>2. rec.new.manual_power_on # None => rec.new.manual_power_on = st.manual_power_on
        BY <1>4, <2>7, <4>1 DEF BackoffInv, PatchInv, SameRecords
      <4> QED BY <1>4, <2>1, <2>7, <4>1, <4>2 DEF BackoffInv, PatchInv, SameRecords
    <3> QED BY <3>2, <3>3
  <2>8. DoneInv'
    BY <1>1, <1>2, <1>4, <1>8, <2>1, <2>7 DEF DoneInv, SeenTarget, Young, WantedOn
  <2> QED BY <1>6, <1>8, <2>4, <2>5, <2>6, <2>8 DEF BackoffInv
<1> QED BY <1>9, <1>10

\* The pool controller writes a decision of now over the one that a reconcile in
\* progress has read.
LEMMA DecideBackoff ==
  ASSUME TypeOK, RecordsInv, BackoffInv, PoolDecide
  PROVE  BackoffInv'
<1>1. /\ seen # None /\ seen' = None /\ seen.target \in {"On", "Off"}
      /\ UNCHANGED <<rec, policy, member, now>>
      /\ SameRecords(st', st) /\ st'.consistent = st.consistent
      /\ st'.standby_since = st.standby_since
      /\ st'.scaling_decision.time = now
      /\ WantedOn(st') <=> seen.target = "On"
      /\ ~SeenTarget("On")' /\ ~SeenTarget("Off")'
      /\ SameRecords(After', After) /\ After'.consistent = After.consistent
      /\ After'.standby_since = After.standby_since
      /\ WantedOn(After') => seen.target = "On"
  BY Decides DEF BackoffInv
<1>2. /\ SeenTarget("On") <=> seen.target = "On"
      /\ SeenTarget("Off") <=> seen.target = "Off"
  BY <1>1 DEF SeenTarget
<1>3. now \in Nat /\ rec.now \in Nat /\ (rec.pc # "idle" => rec.now <= now)
  BY Times DEF BackoffInv, ClockInv
<1>4. \A n : (Barred(st', n) <=> Barred(st, n)) /\ (Barred(After', n) <=> Barred(After, n))
  BY <1>1, SameBoot
<1>5. Upcoming' => rec.pc # "idle" /\ seen.target = "On" /\ Upcoming
  BY <1>1, <1>2 DEF Upcoming
<1>6. ClockInv' /\ AwakeInv' /\ PatchInv' /\ FailInv' /\ DoneInv'
  BY <1>1 DEF BackoffInv, ClockInv, AwakeInv, PatchInv, FailInv, DoneInv, SameRecords,
     WantedOn, BootedFrom, PowerOnOverran
<1>7. WakeInv'
  <2>1. seen.target = "On" => ~Barred(st, now) /\ ~Barred(After, now)
    BY <1>2 DEF BackoffInv, WakeInv, Upcoming
  <2>2. /\ WantedOn(st') \/ Upcoming' => ~Barred(st', now)
        /\ WantedOn(After') \/ Upcoming' => ~Barred(After', now)
    BY <1>1, <1>4, <1>5, <2>1
  <2>3. rec.pc # "idle" /\ WantedOn(rec.old) => ~Barred(rec.old, rec.now)
    BY DEF BackoffInv, WakeInv
  <2> QED BY <1>1, <2>2, <2>3 DEF WakeInv, WantedOn, Barred
<1>8. ComingInv'
  BY <1>1, <1>5 DEF BackoffInv, ComingInv, BootedFrom, Young, WantedOn
<1>9. OlderInv'
  <2>1. rec.pc # "idle" => Young(st', rec.now)
    BY <1>1, <1>3 DEF Young
  <2>2. ASSUME rec.pc # "idle", rec.old.phase = "Off", rec.old.consistent
        PROVE  Young(rec.old, rec.now - 2)
    <3>1. CASE seen.target = "Off" \/ Wrote
      BY <1>2, <2>2, <3>1 DEF BackoffInv, OlderInv
    <3>2. CASE seen.target = "On" /\ ~Wrote
      <4>1. ~WantedOn(st)
        BY <1>2, <3>2 DEF BackoffInv, ComingInv
      <4> QED BY <2>2, <3>2, <4>1 DEF Wrote, Young, WantedOn
    <3> QED BY <1>1, <3>1, <3>2
  <2> QED BY <1>1, <2>1, <2>2 DEF OlderInv, Wrote, Young, WantedOn
<1> QED BY <1>6, <1>7, <1>8, <1>9 DEF BackoffInv

\* Time passes, or something happens that neither controller has a part in.
LEMMA AsideBackoff ==
  ASSUME TypeOK, BackoffInv, TypeOK', UNCHANGED <<st, rec, seen, policy, member>>,
         \/ now' = now
         \/ /\ now' = now + 1
            /\ (rec.pc # "idle" => now = rec.now) /\ (seen # None => now = seen.now)
  PROVE  BackoffInv'
<1>1. /\ now \in Nat /\ now' \in Nat /\ now <= now' /\ st \in Status /\ After \in Status
  BY Times DEF TypeOK
<1>2. /\ After' = After /\ (Upcoming' <=> Upcoming) /\ (Wrote' <=> Wrote)
      /\ \A t : SeenTarget(t)' <=> SeenTarget(t)
  BY DEF After, Upcoming, Wrote, SeenTarget, WantedOn
<1>3. ClockInv'
  BY <1>1 DEF BackoffInv, ClockInv
<1>4. AwakeInv' /\ PatchInv' /\ FailInv' /\ ComingInv' /\ OlderInv' /\ DoneInv'
  BY <1>2 DEF BackoffInv, AwakeInv, PatchInv, FailInv, ComingInv, OlderInv, DoneInv, WantedOn,
     BootedFrom, Young, PowerOnOverran
<1>5. WakeInv'
  <2>1. /\ Barred(st, now') => Barred(st, now)
        /\ Barred(After, now') => Barred(After, now)
    BY <1>1, BarredBefore
  <2> QED BY <1>2, <2>1 DEF BackoffInv, WakeInv, WantedOn, Barred
<1> QED BY <1>3, <1>4, <1>5 DEF BackoffInv

\* Every step keeps all of it, and a PowerOn is sent out of backoff.
LEMMA NextBackoff ==
  ASSUME TypeOK, RecordsInv, BackoffInv, Patient, TypeOK', [Next]_vars
  PROVE  /\ BackoffInv'
         /\ (/\ Handled /\ rec.policy = "Auto" /\ rec'.cmd = "PowerOn"
             /\ rec.old.boot_failure # None /\ ~rec.old.boot_failure.left_on)
            => rec.now >= rec.old.boot_failure.time + BootFailureBackoff
<1> DEFINE Kept == (/\ Handled /\ rec.policy = "Auto" /\ rec'.cmd = "PowerOn"
                    /\ rec.old.boot_failure # None /\ ~rec.old.boot_failure.left_on)
                   => rec.now >= rec.old.boot_failure.time + BootFailureBackoff
<1>1. CASE Begin
  BY <1>1, BeginBackoff DEF Begin, Handled
<1>2. CASE HandleReconcile \/ CommandFails \/ CommandLost \/ CommandUnanswered \/ CallFails \/ Misread
  <2>1. reading \in {"On", "Off"}
    BY EnvironmentAssumption DEF reading
  <2>2. PICK p \in {"On", "Off"}, ok \in BOOLEAN, works \in BOOLEAN, helped \in BOOLEAN :
          Handle(p, ok, works, helped) /\ rec.pc = "act"
    BY <1>2, <2>1, Zenon DEF HandleReconcile, CommandFails, CommandLost, CommandUnanswered,
       CallFails, Misread
  <2>3. Stores /\ (rec'.cmd = "PowerOn" => WantedOn(rec.old))
    BY <2>2, HandledStores, Zenon DEF BackoffInv
  <2>4. Kept
    <3>1. rec'.cmd = "PowerOn" => ~Barred(rec.old, rec.now)
      BY <2>2, <2>3 DEF BackoffInv, WakeInv
    <3>2. rec.now \in Nat /\ rec.old \in Status /\ BootFailureBackoff \in Nat
      BY <2>2, Times, DurationAssumption
    <3> QED BY <3>1, <3>2, StatusFields DEF Barred, BootFailures
  <2> QED BY <2>3, <2>4, StoresBackoff
<1>3. CASE BuildFails \/ ReadFails
  BY <1>3, GivenUpStores, StoresBackoff, NoneAssumption DEF BackoffInv
<1>4. CASE Patch \/ ApiError \/ Crash
  <2>1. Stop
    BY <1>4, Zenon DEF Patch, ApiError, Crash
  <2>2. rec'.pc = "idle"
    BY <2>1 DEF Stop
  <2> QED BY <1>4, <2>2, EndBackoff DEF Handled
<1>5. CASE PoolPlan
  BY <1>5, PlanBackoff DEF PoolPlan, Handled
<1>6. CASE PoolDecide
  BY <1>6, DecideBackoff DEF PoolDecide, Handled
<1>7. ~SetPolicy /\ ~SetMembership
  BY DEF Patient, SetPolicy, SetMembership, Spend
<1>8. CASE \/ Hardware \/ PersonPowersOn \/ PersonPowersOff \/ PersonCordons
           \/ PersonUncordons \/ DeleteNode \/ Tick \/ UNCHANGED vars
  <2>1. /\ UNCHANGED <<st, rec, seen, policy, member>>
        /\ \/ now' = now
           \/ /\ now' = now + 1
              /\ (rec.pc # "idle" => now = rec.now) /\ (seen # None => now = seen.now)
    BY <1>8, Zenon DEF Hardware, BootDone, ShutdownDone, SuspendRuns, SuspendExpires,
       SelfWake, NodeReady, NodeNotReady, PodScheduled, PodGone, PersonPowersOn,
       PersonPowersOff, PersonCordons, PersonUncordons, DeleteNode, Tick, vars, env
  <2> QED BY <2>1, AsideBackoff DEF Handled
<1> QED
  BY <1>1, <1>2, <1>3, <1>4, <1>5, <1>6, <1>7, <1>8 DEF Next, Controller, Pool, People

\* A config that was never reconciled records no failure.
LEMMA InitBackoff == Init => BackoffInv
<1> SUFFICES ASSUME Init PROVE BackoffInv
  OBVIOUS
<1>1. /\ st.phase = "Unknown" /\ st.standby_since = None /\ st.boot_failure = None
      /\ rec.pc = "idle" /\ seen = None /\ policy = "Auto" /\ member = Pools
  BY DEF Init, DefaultStatus
<1>2. After = st /\ ~SeenTarget("On") /\ ~SeenTarget("Off") /\ ~Upcoming /\ ~Wrote
  BY <1>1 DEF After, SeenTarget, Upcoming, Wrote
<1> QED
  BY <1>1, <1>2 DEF BackoffInv, ClockInv, AwakeInv, WakeInv, ComingInv, OlderInv, DoneInv,
     PatchInv, FailInv, Barred

\* A machine whose power-on or boot failed is not sent another PowerOn before
\* the backoff of that failure is over (classify, decide, track_boot,
\* release_failed_power_on), however old the state that a pool decides on,
\* whatever calls fail, whoever switches the machine, and wherever the operator
\* crashes.  Assumes Patient: two reconciles and a decision of the pool that
\* overlap are then over before a timeout that starts with the first of them.
THEOREM BackoffKept == ASSUME Patient PROVE Spec => BackoffRespected
<1> DEFINE IInv == TypeOK /\ RecordsInv /\ BackoffInv
           A    == (/\ Handled /\ rec.policy = "Auto" /\ rec'.cmd = "PowerOn"
                    /\ rec.old.boot_failure # None /\ ~rec.old.boot_failure.left_on)
                   => rec.now >= rec.old.boot_failure.time + BootFailureBackoff
<1>1. Init => IInv
  BY InitType, InitRecords, InitBackoff
<1>2. IInv /\ [Next]_vars => IInv' /\ A
  BY NextType, NextRecords, NextBackoff
<1>3. IInv /\ [Next]_vars => IInv'
  BY <1>2
<1>4. IInv /\ [Next]_vars => [A]_vars
  BY <1>2
<1>5. [][A]_vars => BackoffRespected
  BY PTL DEF BackoffRespected
<1> HIDE DEF A
<1> QED
  BY <1>1, <1>3, <1>4, <1>5, PTL DEF Spec
=============================================================================
